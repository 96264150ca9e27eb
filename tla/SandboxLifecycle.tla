--------------------------- MODULE SandboxLifecycle ---------------------------
(***************************************************************************)
(* What the sandbox store promises about one sandbox ID, whoever calls it  *)
(* and whatever fails (the contract stated by the comments on              *)
(* StartRemoving and createCallback in                                     *)
(* packages/api/internal/sandbox/storage/redis/state_change.go): the       *)
(* record changes state only along AllowedTransitions, one transition at a *)
(* time, and is removed or restored only by the transition in progress,    *)
(* while the record is still the one it started from.                      *)
(***************************************************************************)
EXTENDS SandboxStates

CONSTANTS Ids, None

VARIABLES
    state,    \* the record's state, "absent" without a record
    trans,    \* the transition in progress, or None
    claimed   \* the transition in progress has the record in hand

lifecycle == <<state, trans, claimed>>

Init ==
    /\ state = "absent"
    /\ trans = None
    /\ claimed = FALSE

Create ==
    /\ state = "absent"
    /\ state' = "running"
    /\ UNCHANGED <<trans, claimed>>

\* An owner that is lost at once has nothing in hand.
Start(id, a) ==
    /\ trans = None
    /\ <<state, TargetState(a)>> \in AllowedTransitions
    /\ state' = TargetState(a)
    /\ trans' = id
    /\ claimed' \in BOOLEAN

Remove ==
    /\ claimed
    /\ state \in {"pausing", "killing"}
    /\ state' = "absent"
    /\ claimed' = FALSE
    /\ UNCHANGED trans

Restore ==
    /\ claimed
    /\ state = "snapshotting"
    /\ state' = "running"
    /\ claimed' = FALSE
    /\ UNCHANGED trans

\* The owner fails, dies or gives up: the record stays in its state.
Abandon ==
    /\ claimed
    /\ claimed' = FALSE
    /\ UNCHANGED <<state, trans>>

Finish ==
    /\ trans # None
    /\ ~claimed
    /\ trans' = None
    /\ UNCHANGED <<state, claimed>>

Next ==
    \/ Create
    \/ \E id \in Ids, a \in Action : Start(id, a)
    \/ Remove \/ Restore \/ Abandon \/ Finish

Spec == Init /\ [][Next]_lifecycle
=============================================================================
