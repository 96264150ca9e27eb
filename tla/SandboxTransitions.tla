------------------------- MODULE SandboxTransitions -------------------------
(***************************************************************************)
(* The state transitions of one sandbox ID in the Redis store, as the      *)
(* requests of any number of API instances drive them                      *)
(* (packages/api/internal/sandbox/storage/redis/state_change.go and        *)
(* operations.go, packages/api/internal/orchestrator/delete_instance.go,   *)
(* snapshot_template.go, keep_alive.go, evictor/evict.go).                 *)
(*                                                                         *)
(* A request is one goroutine that runs one handler, a Redis command or a  *)
(* call to the node at a time; pc[r] is the command it runs next. Redis    *)
(* holds the record, the transition key with the ID of the transition in   *)
(* progress, one result key per transition and two locks. A transition's   *)
(* uuid is the pair of the request and the action it carries out, which is *)
(* unique because a request starts each action at most once.               *)
(***************************************************************************)
EXTENDS Integers, SandboxStates

CONSTANTS
    Requests,            \* the goroutines that run a handler
    Evictors,            \* the ones the evictor starts, a subset of Requests
    Executions,          \* the execution IDs the sandbox ID may get
    Ops,                 \* the operations requests may run, a subset of Operation
    Faults,              \* the faults that may happen, a subset of Fault
    Durations,           \* the timeouts a client may ask for
    AutoPause,           \* the values of a sandbox's AutoPause flag
    MaxInstanceLength,   \* the longest a sandbox may live
    StaleCutoff,         \* staleCutoff of operations.go
    MaxTime,             \* bound on the clock
    None                 \* a missing key, or no holder

Operation == Action \cup {"keepAlive", "await"}

Fault == {"node",            \* a call to the node or the database fails
          "redis",           \* a Redis command fails, other than the next one
          "lostCheck",       \* a waiter's GET of the transition key fails
          "crash",           \* the API instance of a request dies
          "cancel",          \* the client goes away and the context is cancelled
          "pubsub",          \* a published message misses some waiters
          "slowHolder",      \* a lock expires under a live holder
          "slowTransition",  \* a transition key expires under its live owner
          "slowWaiter"}      \* a result key expires before its waiter reads it

Time == 0..MaxTime

Sandbox == [exec : Executions, state : State, start : Nat, end : Nat, auto : BOOLEAN]

Transitions == Requests \X Action

ASSUME NoneAssumption ==
    /\ None \notin Requests
    /\ None \notin Sandbox
    /\ None \notin Transitions

ASSUME ParameterAssumption ==
    /\ Evictors \subseteq Requests
    /\ Ops \subseteq Operation
    /\ Faults \subseteq Fault
    /\ Durations \subseteq Nat
    /\ AutoPause \subseteq BOOLEAN
    /\ MaxInstanceLength \in Nat
    /\ StaleCutoff \in Nat
    /\ MaxTime \in Nat

VARIABLES
    rec,        \* the sandbox's record, None when the key does not exist
    key,        \* the transition key: the ID of the transition in progress
    result,     \* per transition its result key: "none", "ok" (empty) or "error"
    lock,       \* holder of the lock on the sandbox key
    cbLock,     \* holder of the lock on the transition key
    published,  \* routing keys published and not yet dispatched
    vm,         \* per execution its VM on the node: "none", "up" or "down"
    now,        \* the clock
    pc,         \* per request the command it runs next
    op,         \* per request the operation it runs
    evict,      \* per request RemoveOpts.Eviction
    sbx,        \* per request the record it read last
    t0,         \* per request the time KeepAliveFor read at its start
    waitFor,    \* per request the transition it waits for
    signal,     \* per request whether its subscription channel holds a signal
    err,        \* per request the error of its transition: "none", "op", "restore"
    outcome     \* per request what its handler returned

redis == <<rec, key, result, lock, cbLock, published>>
local == <<op, evict, sbx, t0, waitFor, signal, err, outcome>>
vars == <<redis, vm, now, pc, local>>

\* What a request runs next. From "work" to "cbDel" it owns a transition that
\* it has not completed.
RemovePC   == {"rmObtain", "rmDel"}
RestorePC  == {"restoreObtain", "restoreGet", "restoreSet"}
CallbackPC == {"cbObtain", "cbSet", "cbDel", "cbPublish"}
ActivePC   == {"work", "cbObtain", "cbSet", "cbDel"} \cup RemovePC \cup RestorePC
HolderPC   == {"get", "getKey", "script", "update", "rmDel", "restoreGet", "restoreSet"}
WaitPC     == {"subscribe", "check", "wait", "result"}
PC == {"idle", "obtain", "awaitKey", "cbPublish", "done", "dead"}
        \cup ActivePC \cup HolderPC \cup WaitPC

Outcome == {"none", "ok", "failed", "alreadyDone", "alreadyKilled", "notFound", "invalid",
            "inProgress", "notNeeded", "notRunning", "tooLong", "cancelled"}

-----------------------------------------------------------------------------

IsExpired(s) == now > s.end

\* The copy of a record that a request writes back.
Amend(s, st, e) ==
    [exec |-> s.exec, state |-> st, start |-> s.start, end |-> e, auto |-> s.auto]

Id(r) == <<r, op[r]>>

Active(r) == pc[r] \in ActivePC

Lesser(a, b) == IF a < b THEN a ELSE b

\* lock.Release: only the holder's token removes the lock key.
Release(r) == lock' = IF lock = r THEN None ELSE lock

ReleaseCb(r) == cbLock' = IF cbLock = r THEN None ELSE cbLock

Goto(r, l) == pc' = [pc EXCEPT ![r] = l]

Return(r, o) ==
    /\ Goto(r, "done")
    /\ outcome' = [outcome EXCEPT ![r] = o]

Init ==
    /\ rec = None
    /\ key = None
    /\ result = [id \in Transitions |-> "none"]
    /\ lock = None
    /\ cbLock = None
    /\ published = {}
    /\ vm = [e \in Executions |-> "none"]
    /\ now = 0
    /\ pc = [r \in Requests |-> "idle"]
    /\ op = [r \in Requests |-> "kill"]
    /\ evict = [r \in Requests |-> FALSE]
    /\ sbx = [r \in Requests |-> None]
    /\ t0 = [r \in Requests |-> 0]
    /\ waitFor = [r \in Requests |-> None]
    /\ signal = [r \in Requests |-> FALSE]
    /\ err = [r \in Requests |-> "none"]
    /\ outcome = [r \in Requests |-> "none"]

-----------------------------------------------------------------------------
(* The environment: time, and the creation of a new execution.             *)

Tick ==
    /\ now < MaxTime
    /\ now' = now + 1
    /\ UNCHANGED <<redis, vm, pc, local>>

\* Mutant of Create: the record is stored without its state.
Create_NoState(e, d, a) ==
    /\ rec = None
    /\ vm[e] = "none"
    /\ vm' = [vm EXCEPT ![e] = "up"]
    /\ rec' = [exec |-> e, state |-> "", start |-> now,
               end |-> now + Lesser(d, MaxInstanceLength), auto |-> a]
    /\ UNCHANGED <<key, result, lock, cbLock, published, now, pc, local>>

\* CreateSandbox of a new or resumed sandbox: the reservation is granted only
\* while the team index does not hold the ID, the VM is started on a node and
\* Store.Add caps the end time and stores the record. The steps between are
\* the subject of the module SandboxReservations.
Create(e, d, a) ==
    /\ rec = None
    /\ vm[e] = "none"
    /\ vm' = [vm EXCEPT ![e] = "up"]
    /\ rec' = [exec |-> e, state |-> "running", start |-> now,
               end |-> now + Lesser(d, MaxInstanceLength), auto |-> a]
    /\ UNCHANGED <<key, result, lock, cbLock, published, now, pc, local>>

-----------------------------------------------------------------------------
(* The start of a handler.                                                 *)

\* A request whose handler started no transition may stand for a later
\* goroutine of the evictor, which starts one per expired item and tick.
Fresh(r) ==
    \/ pc[r] = "idle"
    \/ /\ pc[r] = "done"
       /\ outcome[r] \in {"alreadyDone", "notFound", "invalid", "inProgress", "notNeeded"}

\* RemoveSandbox, CreateSnapshotTemplate, KeepAliveFor and WaitForStateChange.
Begin(r, o) ==
    /\ r \notin Evictors
    /\ pc[r] = "idle"
    /\ op' = [op EXCEPT ![r] = o]
    /\ t0' = IF o = "keepAlive" THEN [t0 EXCEPT ![r] = now] ELSE t0
    /\ Goto(r, IF o = "await" THEN "awaitKey" ELSE "obtain")
    /\ UNCHANGED <<redis, vm, now, evict, sbx, waitFor, signal, err, outcome>>

\* The evictor's tick: ExpiredItems returns the record, and a goroutine of its
\* own removes it with the action the AutoPause flag names.
BeginEviction(r) ==
    /\ r \in Evictors
    /\ Fresh(r)
    /\ rec # None
    /\ IsExpired(rec)
    /\ rec.state # "running" => now - rec.end > StaleCutoff
    /\ op' = [op EXCEPT ![r] = IF rec.auto THEN "pause" ELSE "kill"]
    /\ evict' = [evict EXCEPT ![r] = TRUE]
    /\ err' = [err EXCEPT ![r] = "none"]
    /\ outcome' = [outcome EXCEPT ![r] = "none"]
    /\ Goto(r, "obtain")
    /\ UNCHANGED <<redis, vm, now, sbx, t0, waitFor, signal>>

-----------------------------------------------------------------------------
(* StartRemoving and Update, under the lock on the sandbox key.            *)

\* Mutant of Obtain: the lock is not waited for.
Obtain_NoWait(r) ==
    /\ pc[r] = "obtain"
    /\ lock' = r
    /\ Goto(r, "get")
    /\ UNCHANGED <<rec, key, result, cbLock, published, vm, now, local>>

Obtain(r) ==
    /\ pc[r] = "obtain"
    /\ lock = None
    /\ lock' = r
    /\ Goto(r, "get")
    /\ UNCHANGED <<rec, key, result, cbLock, published, vm, now, local>>

GetMissing(r) ==
    /\ pc[r] = "get"
    /\ rec = None
    /\ Release(r)
    /\ Return(r, "notFound")
    /\ UNCHANGED <<rec, key, result, cbLock, published, vm, now,
                   op, evict, sbx, t0, waitFor, signal, err>>

Get(r) ==
    /\ pc[r] = "get"
    /\ rec # None
    /\ sbx' = [sbx EXCEPT ![r] = rec]
    /\ Goto(r, IF op[r] = "keepAlive" THEN "update" ELSE "getKey")
    /\ UNCHANGED <<redis, vm, now, op, evict, t0, waitFor, signal, err, outcome>>

\* The eviction is resolved under the lock: a transition in place, or an end
\* time that a concurrent request has moved, ends it.
RefuseEviction(r) ==
    /\ pc[r] = "getKey"
    /\ evict[r]
    /\ \/ key # None /\ Return(r, "inProgress")
       \/ key = None /\ ~IsExpired(sbx[r]) /\ Return(r, "notNeeded")
    /\ Release(r)
    /\ UNCHANGED <<rec, key, result, cbLock, published, vm, now,
                   op, evict, sbx, t0, waitFor, signal, err>>

\* Mutant of EvictionHolds: the end time is not checked again under the lock.
EvictionHolds_NoRecheck(r) == evict[r] => key = None

EvictionHolds(r) == evict[r] => key = None /\ IsExpired(sbx[r])

\* handleExistingTransition: wait for the transition that the key names.
JoinTransition(r) ==
    /\ pc[r] = "getKey"
    /\ key # None /\ ~evict[r]
    /\ \/ sbx[r].state = TargetState(op[r])
       \/ <<sbx[r].state, TargetState(op[r])>> \in AllowedTransitions
    /\ Release(r)
    /\ waitFor' = [waitFor EXCEPT ![r] = key]
    /\ Goto(r, "subscribe")
    /\ UNCHANGED <<rec, key, result, cbLock, published, vm, now,
                   op, evict, sbx, t0, signal, err, outcome>>

\* The record is in the target state already and no transition is in progress.
\* CreateSnapshotTemplate turns alreadyDone into an error.
AlreadyInState(r) ==
    /\ pc[r] = "getKey"
    /\ key = None /\ EvictionHolds(r)
    /\ sbx[r].state = TargetState(op[r])
    /\ Release(r)
    /\ Return(r, IF Transient(op[r]) THEN "invalid" ELSE "alreadyDone")
    /\ UNCHANGED <<rec, key, result, cbLock, published, vm, now,
                   op, evict, sbx, t0, waitFor, signal, err>>

\* InvalidStateTransitionError, with or without a transition in progress.
RejectTransition(r) ==
    /\ pc[r] = "getKey"
    /\ EvictionHolds(r)
    /\ sbx[r].state # TargetState(op[r])
    /\ <<sbx[r].state, TargetState(op[r])>> \notin AllowedTransitions
    /\ Release(r)
    /\ Return(r, "invalid")
    /\ UNCHANGED <<rec, key, result, cbLock, published, vm, now,
                   op, evict, sbx, t0, waitFor, signal, err>>

\* Mutant of AcceptTransition: a transition in progress is not looked at.
AcceptTransition_IgnoresKey(r) ==
    /\ pc[r] = "getKey"
    /\ EvictionHolds(r)
    /\ sbx[r].state # TargetState(op[r])
    /\ <<sbx[r].state, TargetState(op[r])>> \in AllowedTransitions
    /\ Goto(r, "script")
    /\ UNCHANGED <<redis, vm, now, local>>

\* Mutant of AcceptTransition: AllowedTransitions is not consulted.
AcceptTransition_NoValidation(r) ==
    /\ pc[r] = "getKey"
    /\ key = None /\ EvictionHolds(r)
    /\ sbx[r].state # TargetState(op[r])
    /\ Goto(r, "script")
    /\ UNCHANGED <<redis, vm, now, local>>

AcceptTransition(r) ==
    /\ pc[r] = "getKey"
    /\ key = None /\ EvictionHolds(r)
    /\ sbx[r].state # TargetState(op[r])
    /\ <<sbx[r].state, TargetState(op[r])>> \in AllowedTransitions
    /\ Goto(r, "script")
    /\ UNCHANGED <<redis, vm, now, local>>

\* Mutant of StartTransition: the script leaves the transition key alone.
StartTransition_NoKey(r) ==
    /\ pc[r] = "script"
    /\ rec' = Amend(sbx[r], TargetState(op[r]),
                    IF Transient(op[r]) \/ IsExpired(sbx[r]) THEN sbx[r].end ELSE now)
    /\ result' = [result EXCEPT ![Id(r)] = "ok"]
    /\ Release(r)
    /\ Goto(r, "work")
    /\ UNCHANGED <<key, cbLock, published, vm, now, op, evict, sbx, t0, waitFor, signal, err, outcome>>

\* startTransitionScript: the record, the transition key and an empty result
\* are written in one script; the deferred release follows. When the answer of
\* the script is lost the handler returns an error and nobody owns the
\* transition.
StartTransition(r) ==
    /\ pc[r] = "script"
    /\ rec' = Amend(sbx[r], TargetState(op[r]),
                    IF Transient(op[r]) \/ IsExpired(sbx[r]) THEN sbx[r].end ELSE now)
    /\ key' = Id(r)
    /\ result' = [result EXCEPT ![Id(r)] = "ok"]
    /\ Release(r)
    /\ \/ Goto(r, "work") /\ UNCHANGED outcome
       \/ "redis" \in Faults /\ Return(r, "failed")
    /\ UNCHANGED <<cbLock, published, vm, now, op, evict, sbx, t0, waitFor, signal, err>>

\* Mutant of KeepAliveEnd: the time left does not cap the duration.
KeepAliveEnd_NoCap(r, d) == t0[r] + d

\* The endTime KeepAliveFor computes from the time it read before the lock.
KeepAliveEnd(r, d) ==
    LET timeLeft == MaxInstanceLength - (t0[r] - sbx[r].start)
    IN  t0[r] + (IF timeLeft <= 0 THEN 0 ELSE Lesser(timeLeft, d))

\* Update with KeepAliveFor's updateFunc; shorter is allowShorter. The move of the
\* score in the expiration index is the subject of the module ExpirationIndex.
UpdateRefused(r) ==
    /\ pc[r] = "update"
    /\ \/ sbx[r].state # "running" /\ Return(r, "notRunning")
       \/ /\ sbx[r].state = "running"
          /\ now - sbx[r].start > MaxInstanceLength
          /\ Return(r, "tooLong")
    /\ Release(r)
    /\ UNCHANGED <<rec, key, result, cbLock, published, vm, now,
                   op, evict, sbx, t0, waitFor, signal, err>>

\* The call that then tells the node the end time, for its own listing, may find
\* the sandbox gone or fail: the record has been moved all the same.
Update(r, d, shorter) ==
    /\ pc[r] = "update"
    /\ sbx[r].state = "running"
    /\ now - sbx[r].start <= MaxInstanceLength
    /\ rec' = IF ~shorter /\ KeepAliveEnd(r, d) < sbx[r].end
              THEN sbx[r]
              ELSE Amend(sbx[r], sbx[r].state, KeepAliveEnd(r, d))
    /\ Release(r)
    /\ \E o \in {"ok", "failed"} : Return(r, o)
    /\ UNCHANGED <<key, result, cbLock, published, vm, now,
                   op, evict, sbx, t0, waitFor, signal, err>>

-----------------------------------------------------------------------------
(* The work of a transition's owner.                                       *)

\* removeSandboxFromNode: the node stops the VM (kill), or snapshots and stops
\* it (pause). A failed call may or may not have stopped it.
NodeRemoves(r) ==
    /\ pc[r] = "work" /\ ~Transient(op[r])
    /\ vm' = [vm EXCEPT ![sbx[r].exec] = "down"]
    /\ Goto(r, "rmObtain")
    /\ UNCHANGED <<redis, now, local>>

NodeRemoveFails(r) ==
    /\ "node" \in Faults
    /\ pc[r] = "work" /\ ~Transient(op[r])
    /\ \E v \in {vm[sbx[r].exec], "down"} : vm' = [vm EXCEPT ![sbx[r].exec] = v]
    /\ err' = [err EXCEPT ![r] = "op"]
    /\ Goto(r, "rmObtain")
    /\ UNCHANGED <<redis, now, op, evict, sbx, t0, waitFor, signal, outcome>>

\* Mutant of Checkpoint: the callback does not restore the record.
Checkpoint_NoRestore(r, o) ==
    /\ pc[r] = "work" /\ Transient(op[r])
    /\ o = "ok" \/ "node" \in Faults
    /\ outcome' = [outcome EXCEPT ![r] = o]
    /\ Goto(r, "cbObtain")
    /\ UNCHANGED <<redis, vm, now, op, evict, sbx, t0, waitFor, signal, err>>

\* CreateSnapshotTemplate up to the end of the checkpoint. An error before or
\* after the checkpoint returns through the deferred finish(nil).
Checkpoint(r, o) ==
    /\ pc[r] = "work" /\ Transient(op[r])
    /\ o = "ok" \/ "node" \in Faults
    /\ outcome' = [outcome EXCEPT ![r] = o]
    /\ Goto(r, "restoreObtain")
    /\ UNCHANGED <<redis, vm, now, op, evict, sbx, t0, waitFor, signal, err>>

\* Mutant of CheckpointFails: finish(nil), as for every other error.
CheckpointFails_Restores(r) ==
    /\ "node" \in Faults
    /\ pc[r] = "work" /\ Transient(op[r])
    /\ \E v \in {vm[sbx[r].exec], "down"} : vm' = [vm EXCEPT ![sbx[r].exec] = v]
    /\ outcome' = [outcome EXCEPT ![r] = "failed"]
    /\ Goto(r, "restoreObtain")
    /\ UNCHANGED <<redis, now, op, evict, sbx, t0, waitFor, signal, err>>

\* A failed checkpoint: finish(err), and the node has usually killed the VM.
CheckpointFails(r) ==
    /\ "node" \in Faults
    /\ pc[r] = "work" /\ Transient(op[r])
    /\ \E v \in {vm[sbx[r].exec], "down"} : vm' = [vm EXCEPT ![sbx[r].exec] = v]
    /\ err' = [err EXCEPT ![r] = "op"]
    /\ Goto(r, "cbObtain")
    /\ UNCHANGED <<redis, now, op, evict, sbx, t0, waitFor, signal, outcome>>

\* Store.Remove, deferred by RemoveSandbox: it runs whatever the node said. Its
\* failure is logged and the deferred finish still runs.
RemoveObtain(r) ==
    /\ pc[r] = "rmObtain"
    /\ lock = None
    /\ lock' = r
    /\ Goto(r, "rmDel")
    /\ UNCHANGED <<rec, key, result, cbLock, published, vm, now, local>>

RemoveRecord(r) ==
    /\ pc[r] = "rmDel"
    /\ rec' = None
    /\ Release(r)
    /\ Goto(r, "cbObtain")
    /\ UNCHANGED <<key, result, cbLock, published, vm, now, local>>

RemoveFails(r) ==
    /\ "redis" \in Faults
    /\ pc[r] \in RemovePC
    /\ Release(r)
    /\ Goto(r, "cbObtain")
    /\ UNCHANGED <<rec, key, result, cbLock, published, vm, now, local>>

-----------------------------------------------------------------------------
(* The callback of createCallback.                                         *)

\* restoreToRunning, for a transient action that succeeded.
RestoreObtain(r) ==
    /\ pc[r] = "restoreObtain"
    /\ lock = None
    /\ lock' = r
    /\ Goto(r, "restoreGet")
    /\ UNCHANGED <<rec, key, result, cbLock, published, vm, now, local>>

RestoreGet(r) ==
    /\ pc[r] = "restoreGet"
    /\ rec # None
    /\ sbx' = [sbx EXCEPT ![r] = rec]
    /\ Goto(r, "restoreSet")
    /\ UNCHANGED <<redis, vm, now, op, evict, t0, waitFor, signal, err, outcome>>

Restored(r) ==
    IF sbx[r].state = TargetState(op[r]) THEN Amend(sbx[r], "running", sbx[r].end) ELSE sbx[r]

RestoreSet(r) ==
    /\ pc[r] = "restoreSet"
    /\ rec' = Restored(r)
    /\ Release(r)
    /\ Goto(r, "cbObtain")
    /\ UNCHANGED <<key, result, cbLock, published, vm, now, local>>

GiveUpRestore(r) ==
    /\ Release(r)
    /\ err' = [err EXCEPT ![r] = "restore"]
    /\ Goto(r, "cbObtain")
    /\ UNCHANGED <<key, result, cbLock, published, vm, now,
                   op, evict, sbx, t0, waitFor, signal, outcome>>

\* ErrNotFound of Update.
RestoreMissing(r) ==
    /\ pc[r] = "restoreGet"
    /\ rec = None
    /\ UNCHANGED rec
    /\ GiveUpRestore(r)

\* The error of a failed SET does not say whether the record was written.
RestoreFails(r) ==
    /\ "redis" \in Faults
    /\ pc[r] \in RestorePC
    /\ \/ UNCHANGED rec
       \/ pc[r] = "restoreSet" /\ rec' = Restored(r)
    /\ GiveUpRestore(r)

\* Mutant of ResultValue: the error of the action is not passed on.
ResultValue_DropsError(r) == IF err[r] = "restore" THEN "error" ELSE "ok"

\* What waiters are told: a transient action that failed counts as a success.
ResultValue(r) ==
    IF err[r] = "restore" \/ (err[r] = "op" /\ ~Transient(op[r])) THEN "error" ELSE "ok"

CallbackObtain(r) ==
    /\ pc[r] = "cbObtain"
    /\ cbLock = None
    /\ cbLock' = r
    /\ Goto(r, "cbSet")
    /\ UNCHANGED <<rec, key, result, lock, published, vm, now, local>>

CallbackSet(r) ==
    /\ pc[r] = "cbSet"
    /\ \/ result' = [result EXCEPT ![Id(r)] = ResultValue(r)]
       \/ "redis" \in Faults /\ UNCHANGED result
    /\ Goto(r, "cbDel")
    /\ UNCHANGED <<rec, key, lock, cbLock, published, vm, now, local>>

\* DEL of the transition key, whatever ID it holds.
CallbackDel(r) ==
    /\ pc[r] = "cbDel"
    /\ \/ key' = None
       \/ "redis" \in Faults /\ UNCHANGED key
    /\ Goto(r, "cbPublish")
    /\ UNCHANGED <<rec, result, lock, cbLock, published, vm, now, local>>

\* The handler after its callback: a failed checkpoint goes on to RemoveSandbox
\* with the kill action, every other handler returns.
AfterCallback(r) ==
    IF Transient(op[r]) /\ err[r] = "op"
    THEN /\ Goto(r, "obtain")
         /\ op' = [op EXCEPT ![r] = "kill"]
         /\ err' = [err EXCEPT ![r] = "none"]
         /\ UNCHANGED outcome
    ELSE /\ Return(r, IF Transient(op[r]) THEN outcome[r]
                       ELSE IF err[r] = "none" THEN "ok" ELSE "failed")
         /\ UNCHANGED <<op, err>>

CallbackPublish(r) ==
    /\ pc[r] = "cbPublish"
    /\ published' = published \cup {Id(r)}
    /\ ReleaseCb(r)
    /\ AfterCallback(r)
    /\ UNCHANGED <<rec, key, result, lock, vm, now, evict, sbx, t0, waitFor, signal>>

\* The callback gives up when it cannot obtain its lock.
CallbackObtainFails(r) ==
    /\ "redis" \in Faults
    /\ pc[r] = "cbObtain"
    /\ AfterCallback(r)
    /\ UNCHANGED <<redis, vm, now, evict, sbx, t0, waitFor, signal>>

-----------------------------------------------------------------------------
(* WaitForStateChange, waitForTransition and the subscription manager.     *)

AwaitKey(r) ==
    /\ pc[r] = "awaitKey"
    /\ \/ key = None /\ Return(r, "ok") /\ UNCHANGED waitFor
       \/ /\ key # None
          /\ waitFor' = [waitFor EXCEPT ![r] = key]
          /\ Goto(r, "subscribe")
          /\ UNCHANGED outcome
    /\ UNCHANGED <<redis, vm, now, op, evict, sbx, t0, signal, err>>

Subscribe(r) ==
    /\ pc[r] = "subscribe"
    /\ signal' = [signal EXCEPT ![r] = FALSE]
    /\ Goto(r, "check")
    /\ UNCHANGED <<redis, vm, now, op, evict, sbx, t0, waitFor, err, outcome>>

CheckKey(r) ==
    /\ pc[r] = "check"
    /\ Goto(r, IF key # waitFor[r] THEN "result" ELSE "wait")
    /\ UNCHANGED <<redis, vm, now, local>>

Woken(r) ==
    /\ pc[r] = "wait"
    /\ signal[r]
    /\ Goto(r, "result")
    /\ UNCHANGED <<redis, vm, now, local>>

\* Mutant of Poll: no fallback ticker, a waiter relies on its signal.
Poll_NeedsSignal(r) ==
    /\ pc[r] = "wait"
    /\ signal[r] /\ key # waitFor[r]
    /\ Goto(r, "result")
    /\ UNCHANGED <<redis, vm, now, local>>

\* The fallback ticker: a poll that still finds the key changes nothing.
Poll(r) ==
    /\ pc[r] = "wait"
    /\ key # waitFor[r]
    /\ Goto(r, "result")
    /\ UNCHANGED <<redis, vm, now, local>>

\* A GET of the initial check or of a poll that fails leaves currentID empty,
\* which is not the ID waited for: the error counts as a completed transition.
LostCheck(r) ==
    /\ "lostCheck" \in Faults
    /\ pc[r] \in {"check", "wait"}
    /\ Goto(r, "result")
    /\ UNCHANGED <<redis, vm, now, local>>

\* What RemoveSandbox makes of an error of StartRemoving: a kill succeeds when
\* the record it had read was in the killing state.
ErrorOutcome(r) ==
    IF op[r] = "kill" /\ ~evict[r] /\ pc[r] \in {"getKey"} \cup WaitPC /\ sbx[r].state = "killing"
    THEN "alreadyKilled" ELSE "failed"

\* checkTransitionResult: a missing result counts as success. After it a
\* waiter for the same target is done, and one for another target starts over
\* without the Eviction option.
CheckResult(r) ==
    /\ pc[r] = "result"
    /\ waitFor' = [waitFor EXCEPT ![r] = None]
    /\ signal' = [signal EXCEPT ![r] = FALSE]
    /\ LET failed == result[waitFor[r]] = "error"
           same == op[r] # "await" /\ sbx[r].state = TargetState(op[r])
       IN  \/ failed /\ Return(r, ErrorOutcome(r))
           \/ ~failed /\ op[r] = "await" /\ Return(r, "ok")
           \/ ~failed /\ same /\ Return(r, IF Transient(op[r]) THEN "invalid" ELSE "alreadyDone")
           \/ ~failed /\ ~same /\ op[r] # "await" /\ Goto(r, "obtain") /\ UNCHANGED outcome
    /\ UNCHANGED <<redis, vm, now, op, evict, sbx, t0, err>>

\* A Redis command outside the work and the callback fails: the handler returns
\* the error, and its deferred release and cleanup run.
CommandFails(r) ==
    /\ "redis" \in Faults
    /\ pc[r] \in {"obtain", "get", "getKey", "script", "update", "awaitKey", "result"}
    /\ Release(r)
    /\ waitFor' = [waitFor EXCEPT ![r] = None]
    /\ signal' = [signal EXCEPT ![r] = FALSE]
    /\ Return(r, ErrorOutcome(r))
    /\ UNCHANGED <<rec, key, result, cbLock, published, vm, now, op, evict, sbx, t0, err>>

Waiters(id) == {r \in Requests : pc[r] \in {"check", "wait"} /\ waitFor[r] = id}

\* dispatch: the channels of the registered waiters get a signal. A lost
\* connection loses the message for the waiters of that instance.
Dispatch(id) ==
    /\ id \in published
    /\ published' = published \ {id}
    /\ \E W \in SUBSET Waiters(id) :
         /\ "pubsub" \in Faults \/ W = Waiters(id)
         /\ signal' = [r \in Requests |-> signal[r] \/ r \in W]
    /\ UNCHANGED <<rec, key, result, lock, cbLock, vm, now, pc,
                   op, evict, sbx, t0, waitFor, err, outcome>>

-----------------------------------------------------------------------------
(* Faults and the expiry of keys.                                          *)

\* The API instance dies: what it holds in Redis stays until it expires.
Crash(r) ==
    /\ "crash" \in Faults
    /\ pc[r] \notin {"idle", "done", "dead"}
    /\ Goto(r, "dead")
    /\ UNCHANGED <<redis, vm, now, local>>

\* The client goes away: every later command of the request fails, but a lock
\* it holds is released without the context. The evictor's requests, and the
\* callback of a snapshot, run without the cancellation.
Cancel(r) ==
    /\ "cancel" \in Faults
    /\ pc[r] \notin {"idle", "done", "dead"}
    /\ ~evict[r]
    /\ Transient(op[r]) => pc[r] \notin ActivePC \cup {"cbPublish"}
    /\ Release(r)
    /\ ReleaseCb(r)
    /\ waitFor' = [waitFor EXCEPT ![r] = None]
    /\ signal' = [signal EXCEPT ![r] = FALSE]
    /\ Return(r, "cancelled")
    /\ UNCHANGED <<rec, key, result, published, vm, now, op, evict, sbx, t0, err>>

\* A lock outlives its holder by at most lockTimeout.
LockExpires ==
    /\ lock # None
    /\ pc[lock] = "dead" \/ "slowHolder" \in Faults
    /\ lock' = None
    /\ UNCHANGED <<rec, key, result, cbLock, published, vm, now, pc, local>>

CbLockExpires ==
    /\ cbLock # None
    /\ pc[cbLock] = "dead" \/ "slowHolder" \in Faults
    /\ cbLock' = None
    /\ UNCHANGED <<rec, key, result, lock, published, vm, now, pc, local>>

\* The transition with this ID has an owner that will still complete it.
Owned(id) == \E r \in Requests : Active(r) /\ Id(r) = id

\* transitionKeyTTL.
KeyExpires ==
    /\ key # None
    /\ ~Owned(key) \/ "slowTransition" \in Faults
    /\ key' = None
    /\ UNCHANGED <<rec, result, lock, cbLock, published, vm, now, pc, local>>

\* transitionResultKeyTTL, which may pass while the transition key is still
\* there and the result key holds only the empty value of its start. The expiry
\* of a result that no request waits for cannot be observed and is left out.
ResultExpires(id) ==
    /\ result[id] # "none"
    /\ \E r \in Requests : waitFor[r] = id
    /\ \/ key = id /\ \A r \in Requests : pc[r] = "cbDel" => Id(r) # id
       \/ "slowWaiter" \in Faults
    /\ result' = [result EXCEPT ![id] = "none"]
    /\ UNCHANGED <<rec, key, lock, cbLock, published, vm, now, pc, local>>

-----------------------------------------------------------------------------

\* The steps of a handler once it has begun.
Step(r) ==
    \/ Obtain(r) \/ GetMissing(r) \/ Get(r)
    \/ RefuseEviction(r) \/ JoinTransition(r) \/ AlreadyInState(r)
    \/ RejectTransition(r) \/ AcceptTransition(r) \/ StartTransition(r)
    \/ UpdateRefused(r)
    \/ \E d \in Durations, shorter \in BOOLEAN : Update(r, d, shorter)
    \/ NodeRemoves(r)
    \/ \E o \in {"ok", "failed"} : Checkpoint(r, o)
    \/ RemoveObtain(r) \/ RemoveRecord(r)
    \/ RestoreObtain(r) \/ RestoreGet(r) \/ RestoreMissing(r) \/ RestoreSet(r)
    \/ CallbackObtain(r) \/ CallbackSet(r) \/ CallbackDel(r) \/ CallbackPublish(r)
    \/ AwaitKey(r) \/ Subscribe(r) \/ CheckKey(r) \/ Woken(r) \/ Poll(r) \/ CheckResult(r)

\* The failures a handler may meet; nothing makes them happen.
Failure(r) ==
    \/ NodeRemoveFails(r) \/ CheckpointFails(r)
    \/ RemoveFails(r) \/ RestoreFails(r) \/ CallbackObtainFails(r)
    \/ LostCheck(r) \/ CommandFails(r)
    \/ Crash(r) \/ Cancel(r)

Next ==
    \/ Tick
    \/ \E e \in Executions, d \in Durations, a \in AutoPause : Create(e, d, a)
    \/ \E r \in Requests :
         \/ \E o \in Ops : Begin(r, o)
         \/ BeginEviction(r)
         \/ Step(r)
         \/ Failure(r)
    \/ \E id \in Transitions : Dispatch(id) \/ ResultExpires(id)
    \/ LockExpires \/ CbLockExpires \/ KeyExpires

Spec == Init /\ [][Next]_vars

\* Go schedules every goroutine and Redis expires every key that is due.
Fairness ==
    /\ \A r \in Requests : WF_vars(Step(r))
    /\ \A id \in Transitions : WF_vars(Dispatch(id))
    /\ WF_vars(LockExpires) /\ WF_vars(CbLockExpires) /\ WF_vars(KeyExpires)

FairSpec == Spec /\ Fairness

\* With the clock and the evictor's ticker running.
EvictorSpec ==
    /\ FairSpec
    /\ WF_vars(Tick)
    /\ \A r \in Requests : WF_vars(BeginEviction(r))

-----------------------------------------------------------------------------
(* Properties.                                                             *)

\* Every variable has its type.
TypeOK ==
    /\ rec \in Sandbox \cup {None}
    /\ key \in Transitions \cup {None}
    /\ result \in [Transitions -> {"none", "ok", "error"}]
    /\ lock \in Requests \cup {None}
    /\ cbLock \in Requests \cup {None}
    /\ published \subseteq Transitions
    /\ vm \in [Executions -> {"none", "up", "down"}]
    /\ now \in Nat
    /\ pc \in [Requests -> PC]
    /\ op \in [Requests -> Operation]
    /\ evict \in [Requests -> BOOLEAN]
    /\ sbx \in [Requests -> Sandbox \cup {None}]
    /\ t0 \in [Requests -> Nat]
    /\ waitFor \in [Requests -> Transitions \cup {None}]
    /\ signal \in [Requests -> BOOLEAN]
    /\ err \in [Requests -> {"none", "op", "restore"}]
    /\ outcome \in [Requests -> Outcome]

\* StartRemoving lets at most one transition of a sandbox run at a time: no two
\* requests are between their start script and the end of their callback.
OneTransition ==
    \A r, s \in Requests : Active(r) /\ Active(s) => r = s

\* Nobody touches the record under a running transition: until its owner has
\* removed or restored it, the record is of the execution the owner read and
\* in the state the owner moved it to. So RemoveSandbox deletes only the record
\* of the execution it removed from the node, never that of a resumed one.
OwnerKeepsRecord ==
    \A r \in Requests :
        pc[r] \in {"work"} \cup RemovePC \cup RestorePC =>
            /\ rec # None
            /\ rec.exec = sbx[r].exec
            /\ rec.state = TargetState(op[r])

\* What StartRemoving, Update and restoreToRunning write is computed from the
\* record as it is: no update between their GET and their SET is lost.
NoLostUpdate ==
    \A r \in Requests :
        pc[r] \in {"getKey", "script", "update", "restoreSet"} => rec = sbx[r]

\* A record that says running belongs to an execution whose VM no kill, pause
\* or failed checkpoint has stopped.
RunningHasVM ==
    rec # None /\ rec.state = "running" => vm[rec.exec] = "up"

\* The evictor removes only what has expired: an end time that a concurrent
\* KeepAliveFor has moved is seen before the start script runs.
EvictsOnlyExpired ==
    \A r \in Requests :
        pc[r] = "script" /\ evict[r] => rec # None /\ IsExpired(rec)

\* A completed snapshot is restored to running before its transition key is
\* deleted, so nobody sees the record of a finished snapshot in between.
RestoredBeforeRelease ==
    \A r \in Requests :
        pc[r] \in {"cbObtain", "cbSet", "cbDel"} /\ op[r] = "snapshot" /\ err[r] = "none" =>
            rec # None /\ rec.state = "running"

\* No sequence of KeepAliveFor calls, each with a clock reading of its own taken
\* before the lock, moves the end time past the maximum instance length.
WithinMaxLength ==
    rec # None => rec.end <= rec.start + MaxInstanceLength

\* A kill or pause that is told the removal was already done, without doing it
\* itself, finds the VM of the record it read stopped.
AlreadyDoneIsDone ==
    \A r \in Requests : outcome[r] = "alreadyDone" => vm[sbx[r].exec] = "down"

\* Every handler returns (or dies with its instance): no wait for a transition,
\* whose owner may crash, give up its callback or have its message lost, and no
\* wait for a lock is for ever.
HandlersReturn ==
    \A r \in Requests : pc[r] # "idle" ~> pc[r] \in {"done", "dead"}

\* A record that is in a transition state for longer than the stale cutoff is
\* removed by the evictor, as ExpiredItems logs (items.go:123).
StaleRecordIsRemoved ==
    (rec # None /\ rec.state # "running" /\ now - rec.end > StaleCutoff) ~> rec = None

\* The transition in progress has not yet removed, restored or given up its
\* record.
ClaimPC == {"work"} \cup RemovePC \cup RestorePC

Claimed == \E r \in Requests : pc[r] \in ClaimPC

RecordState == IF rec = None THEN "absent" ELSE rec.state

Lifecycle == INSTANCE SandboxLifecycle
    WITH Ids <- Transitions,
         state <- RecordState,
         trans <- key,
         claimed <- Claimed

\* The requests together implement the store's contract.
ImplementsLifecycle == Lifecycle!Spec

-----------------------------------------------------------------------------
(* The inductive invariant behind the theorems of SandboxTransitionsProofs. *)

\* The commands under the lock on the sandbox key run only with that lock.
HoldersHoldLock ==
    \A r \in Requests : pc[r] \in HolderPC => lock = r

\* While a transition runs, the transition key carries its ID.
OwnerHasKey ==
    \A r \in Requests : Active(r) => key = Id(r)

\* What a request knows at each command about the operation it runs.
OpAtPC ==
    \A r \in Requests :
        /\ pc[r] \in {"obtain", "get"} => op[r] # "await"
        /\ pc[r] \in {"getKey", "script", "cbPublish"} \cup ActivePC => op[r] \in Action
        /\ pc[r] \in RemovePC => op[r] # "snapshot"
        /\ pc[r] \in RestorePC => op[r] = "snapshot"
        /\ pc[r] = "update" => op[r] = "keepAlive"
        /\ pc[r] = "awaitKey" => op[r] = "await"
        /\ pc[r] \in WaitPC => op[r] # "keepAlive" /\ (op[r] # "await" => sbx[r] # None)
        /\ pc[r] \in {"getKey", "script", "update"} \cup ActivePC => sbx[r] # None
        /\ evict[r] => r \in Evictors /\ op[r] \in {"kill", "pause"}
        /\ err[r] # "none" => pc[r] \in {"done", "dead"} \cup RemovePC \cup CallbackPC

\* Between its checks and its script a request's checks still hold.
ChecksStillHold ==
    \A r \in Requests :
        pc[r] = "script" =>
            /\ key = None
            /\ <<sbx[r].state, TargetState(op[r])>> \in AllowedTransitions
            /\ evict[r] => IsExpired(sbx[r])

\* A snapshot in progress has a VM to go back to.
SnapshotHasVM ==
    \A r \in Requests :
        pc[r] \in {"work"} \cup RestorePC /\ op[r] = "snapshot" => vm[sbx[r].exec] = "up"

ClockReadings == \A r \in Requests : t0[r] <= now

\* A record in hand is within the maximum length too, however old it is.
CopiesWithin ==
    \A r \in Requests : sbx[r] # None => sbx[r].end <= sbx[r].start + MaxInstanceLength

\* The invariant that every step preserves while no key expires under a live
\* holder: it ties the lock, the transition key and the record to the command
\* each request runs next.
TransitionInv ==
    /\ HoldersHoldLock
    /\ OwnerHasKey
    /\ OpAtPC
    /\ NoLostUpdate
    /\ ChecksStillHold
    /\ OwnerKeepsRecord
    /\ RunningHasVM
    /\ SnapshotHasVM
    /\ RestoredBeforeRelease
    /\ ClockReadings
    /\ CopiesWithin
    /\ WithinMaxLength

-----------------------------------------------------------------------------
(* The strengthening of AlreadyDoneIsDone, while no request stops before its *)
(* callback is over and no waiter reads a result too early.                *)

\* A transition key always has an owner.
KeyIsOwned == key # None => Owned(key)

\* A record that is being killed or paused has an owner that will remove it.
RemovedByOwner ==
    rec # None /\ rec.state \in {"killing", "pausing"} =>
        \E r \in Requests : pc[r] \in {"work"} \cup RemovePC

\* The actions that a request may still start a transition for: the one it was asked
\* for, a kill after a failed checkpoint, or what the evictor finds next.
StartPC == {"obtain", "get", "getKey", "script", "update", "awaitKey"} \cup WaitPC

MayStart(r, a) ==
    \/ pc[r] = "idle"
    \/ pc[r] \in StartPC /\ (op[r] = a \/ r \in Evictors)
    \/ pc[r] \in StartPC \cup ActivePC \cup {"cbPublish"} /\ op[r] = "snapshot" /\ a = "kill"
    \/ r \in Evictors /\ Fresh(r)

\* An ID is new: nothing refers to it before its transition starts.
IdsAreNew ==
    \A r \in Requests, a \in Action : MayStart(r, a) =>
        /\ key # <<r, a>> /\ <<r, a>> \notin published
        /\ \A s \in Requests : waitFor[s] # <<r, a>>

\* ... and nothing is published of it before it is over.
PublishedIsOver == \A r \in Requests : Active(r) => Id(r) \notin published

\* The goroutines of the evictor remove, and wait for nobody.
EvictorsRemove ==
    \A r \in Evictors :
        op[r] # "snapshot" /\ pc[r] \notin WaitPC /\ (pc[r] # "idle" => evict[r])

\* The owner of a removal has stopped the VM, or will tell its waiters that it failed.
StoppedOrTold ==
    \A r \in Requests : op[r] \in {"kill", "pause"} =>
        /\ pc[r] \in RemovePC \cup {"cbObtain", "cbSet"} /\ err[r] = "none" =>
             vm[sbx[r].exec] = "down"
        /\ pc[r] = "cbDel" => result[Id(r)] = "error" \/ vm[sbx[r].exec] = "down"

\* A request that waits for a removal of its own kind: its transition runs, of the
\* execution that the request has read, or it is over and the VM is stopped or the
\* error of its owner is there to be read.
AwaitsRemoval(r) ==
    /\ pc[r] \in WaitPC
    /\ op[r] \in {"kill", "pause"} /\ sbx[r].state = TargetState(op[r])

RemovalRuns(r) ==
    /\ pc[r] # "result" /\ (pc[r] # "subscribe" => ~signal[r])
    /\ \E s \in Requests : /\ Active(s) /\ Id(s) = waitFor[r] /\ op[s] \in {"kill", "pause"}
                           /\ sbx[s].exec = sbx[r].exec

WaitersSeeRemoval ==
    \A r \in Requests : AwaitsRemoval(r) =>
        \/ RemovalRuns(r)
        \/ /\ waitFor[r] # None /\ ~Owned(waitFor[r])
           /\ result[waitFor[r]] = "error" \/ vm[sbx[r].exec] = "down"

\* A request that was told so has returned.
ToldIsDone ==
    \A r \in Requests : outcome[r] = "alreadyDone" =>
        pc[r] = "done" /\ sbx[r] # None /\ vm[sbx[r].exec] = "down"

\* What a request that finds a removal in progress relies on.
RemovalInv ==
    /\ KeyIsOwned /\ RemovedByOwner /\ IdsAreNew /\ PublishedIsOver /\ EvictorsRemove
    /\ StoppedOrTold /\ WaitersSeeRemoval /\ ToldIsDone
=============================================================================
