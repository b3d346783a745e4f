-------------------------- MODULE MCDeliveryWorker --------------------------
(* Instances of DeliveryWorker with metrics, rich values and alerts as the  *)
(* streams 0, 1 and 2, which pending looks at in the order 0, 2, 1.         *)
EXTENDS DeliveryWorker

ThreeStreams == <<0, 2, 1>>
TwoStreams == <<0, 1>>
=============================================================================
