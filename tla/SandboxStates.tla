---------------------------- MODULE SandboxStates ----------------------------
(***************************************************************************)
(* The states of a sandbox record in the API's store and the actions that  *)
(* move it between them (packages/api/internal/sandbox/states.go).         *)
(***************************************************************************)

State == {"running", "pausing", "killing", "snapshotting"}

\* The pairs <<from, to>> of the AllowedTransitions table.
AllowedTransitions ==
    {<<"running", "pausing">>, <<"running", "killing">>, <<"running", "snapshotting">>,
     <<"pausing", "killing">>,
     <<"snapshotting", "running">>, <<"snapshotting", "killing">>, <<"snapshotting", "pausing">>}

Action == {"pause", "kill", "snapshot"}

TargetState(a) ==
    IF a = "pause" THEN "pausing" ELSE IF a = "kill" THEN "killing" ELSE "snapshotting"

\* TransitionTransient: the record goes back to running when the action
\* succeeds. The other actions have the effect TransitionExpires.
Transient(a) == a = "snapshot"
=============================================================================
