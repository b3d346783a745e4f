------------------------------ MODULE Archive ------------------------------
(***************************************************************************)
(* What a copy of stored data promises, whether it is a physical backup    *)
(* that can be restored or a portable export: it is published whole, it is *)
(* the state the store had at ONE moment, and restoring puts back exactly  *)
(* that state, at once, into a store that was empty.                       *)
(***************************************************************************)
CONSTANTS
  States,  \* the contents a store may have
  Empty,   \* no store at all
  None     \* no copy

VARIABLES
  store,     \* the contents of the store
  lasting,   \* what is left of them for sure when the power fails
  running,   \* is a server changing it?
  captured,  \* the contents that a copy in progress is to have
  archive    \* the published copy

vars == <<store, lasting, running, captured, archive>>

Init ==
  /\ store \in States \union {Empty} /\ lasting = store /\ running \in BOOLEAN
  /\ captured = None /\ archive = None

Start ==
  /\ ~running /\ running' = TRUE
  /\ IF store = Empty THEN store' \in States /\ lasting' = store'
                      ELSE UNCHANGED <<store, lasting>>
  /\ UNCHANGED <<captured, archive>>

(* What a server has changed is there for good.                            *)
Change ==
  /\ running /\ store' # Empty /\ store' \in States /\ lasting' = store'
  /\ UNCHANGED <<running, captured, archive>>

Stop == running /\ running' = FALSE /\ UNCHANGED <<store, lasting, captured, archive>>

Settle == lasting' = store /\ UNCHANGED <<store, running, captured, archive>>

Capture ==
  store # Empty /\ captured' = store /\ UNCHANGED <<store, lasting, running, archive>>

(* The end of the command, or of the machine it runs on: a copy that was   *)
(* published is there for good once the command has ended.                 *)
Forget ==
  /\ captured # None /\ captured' = None
  /\ archive' \in {archive, None}
  /\ UNCHANGED <<store, lasting, running>>

Publish ==
  /\ captured # None /\ archive = None /\ archive' = captured
  /\ UNCHANGED <<store, lasting, running, captured>>

Recover ==
  /\ ~running /\ store = Empty /\ archive # None
  /\ store' = archive
  /\ UNCHANGED <<lasting, running, captured, archive>>

(* By hand, or a restore that is undone.                                   *)
Clear ==
  /\ ~running /\ store' = Empty /\ lasting' \in {lasting, Empty}
  /\ UNCHANGED <<running, captured, archive>>

(* The power fails: what was just published, restored or undone may not    *)
(* have reached the disk.                                                  *)
Crash ==
  /\ running' = FALSE /\ captured' = None
  /\ archive' \in IF captured = None THEN {archive} ELSE {archive, None}
  /\ store' \in {store, lasting} /\ lasting' = store'

Next ==
  \/ Start \/ Change \/ Stop \/ Settle \/ Capture \/ Forget \/ Publish \/ Recover \/ Clear
  \/ Crash

Spec == Init /\ [][Next]_vars
=============================================================================
