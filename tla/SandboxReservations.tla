------------------------- MODULE SandboxReservations -------------------------
(***************************************************************************)
(* The creation of a team's sandboxes under its concurrency limit          *)
(* (packages/api/internal/sandbox/reservations/redis/reservation.go and    *)
(* scripts.go, sandbox/store.go, orchestrator/create_instance.go).         *)
(*                                                                         *)
(* A creator is one CreateSandbox call for an ID: it reserves the ID in    *)
(* the team's pending set, starts the VM on a node, stores the record and  *)
(* completes the reservation. A call that finds the ID pending waits for   *)
(* the result of the call that holds it. A remover is the part of          *)
(* RemoveSandbox after its StartRemoving, which SandboxTransitions has in  *)
(* detail: it stops the VM and calls Store.Remove. A Lua script is one     *)
(* step. Every creator stands for one call and for the execution it makes. *)
(***************************************************************************)
EXTENDS Integers, FiniteSets

CONSTANTS
    Ids,         \* sandbox IDs of the team
    Creators,    \* CreateSandbox calls
    Removers,    \* RemoveSandbox calls
    Limit,       \* the team's SandboxConcurrency
    Faults,      \* the faults that may happen, a subset of Fault
    None

Fault == {"start",      \* fetching the data, the placement or the start fails
          "redis",      \* a command of Add, Store.Remove or waitForStart fails
          "lost",       \* reserveScript's answer is lost, or finishStartScript fails
          "node",       \* the node cannot be told to stop the VM
          "crash",      \* the API instance of a creator or remover dies
          "slow"}       \* a creator takes longer than orphanGracePeriod and staleTTL

ASSUME NoneAssumption ==
    /\ None \notin Creators \cup Ids \cup {"error", "limit"}
    /\ {"error", "limit"} \cap Creators = {}

ASSUME ReservationAssumption ==
    /\ Creators \cap Removers = {}
    /\ Limit \in Nat
    /\ Faults \subseteq Fault
    /\ IsFiniteSet(Ids)

Calls == Creators \cup Removers

VARIABLES
    record,    \* per ID the creator whose record is stored, or None; the team
               \* index holds the IDs that have a record
    pending,   \* the team's pending set
    stale,     \* the pending entries older than staleTTL
    result,    \* per ID its result key: None, "error" or the creator it names
    vms,       \* the running VMs, by the creator that started them
    pc,        \* per call its next command
    sid,       \* per call its sandbox ID
    target,    \* per remover the creator of the record it removes
    joined,    \* per creator the calls that had held its ID when it began to wait
    holders,   \* the calls that were granted a reservation so far
    got,       \* per creator what it returned
    unreached, \* history: the removals whose node did not stop the VM
    mixed      \* history: the IDs that were reserved while the last write of an earlier
               \* call to the entry was outstanding, or whose entry grew stale while
               \* they were created

vars == <<record, pending, stale, result, vms, pc, sid, target, joined, holders, got,
          unreached, mixed>>

Index == {i \in Ids : record[i] # None}

\* A creator that holds a reservation and has not stored its record yet.
Creating(r) == pc[r] \in {"start", "add"}

\* A creator whose finishStart has yet to run.
Reserving(r) == Creating(r) \/ pc[r] \in {"finishOk", "finishErr"}

CreatorPC == {"start", "add", "finishOk", "finishErr", "getRecord",
              "waitResult", "waitPending", "waitFinal"}
RemoverPC == {"node", "remove", "release"}

Goto(r, l) == pc' = [pc EXCEPT ![r] = l]

Return(r, g) ==
    /\ Goto(r, "done")
    /\ got' = [got EXCEPT ![r] = g]

Init ==
    /\ record = [i \in Ids |-> None]
    /\ pending = {}
    /\ stale = {}
    /\ result = [i \in Ids |-> None]
    /\ vms = {}
    /\ pc = [r \in Calls |-> "idle"]
    /\ sid = [r \in Calls |-> None]
    /\ target = [m \in Removers |-> None]
    /\ joined = [r \in Creators |-> {}]
    /\ holders = {}
    /\ got = [r \in Creators |-> None]
    /\ unreached = {}
    /\ mixed = {}
-----------------------------------------------------------------------------
(* Reserve: one script, after the cleanup of the stale pending entries.    *)

\* The last write of an earlier call to the pending entry and the result of the ID is
\* outstanding: of a removal between the two commands of Store.Remove, or of a creator
\* whose record was removed again before its finishStart. Nothing in the code
\* excludes it.
Overlaps(i) ==
    \/ \E m \in Removers : sid[m] = i /\ pc[m] = "release"
    \/ \E r \in Creators : sid[r] = i /\ pc[r] \in {"finishOk", "finishErr"}

Mix(i, cond) == mixed' = IF cond THEN mixed \cup {i} ELSE mixed

Arrives(r, i) ==
    /\ pc[r] = "idle"
    /\ stale' = {}
    /\ sid' = [sid EXCEPT ![r] = i]

Fresh == pending \ stale

\* The entry is added to the pending set; without the answer of the script the
\* call fails and nobody will complete the entry.
Granted(r, i) ==
    /\ Arrives(r, i)
    /\ pending' = Fresh \cup {i}
    /\ \/ /\ holders' = holders \cup {r}
          /\ Goto(r, "start")
          /\ Mix(i, Overlaps(i))
          /\ UNCHANGED got
       \/ /\ "lost" \in Faults
          /\ Return(r, "error")
          /\ UNCHANGED <<holders, mixed>>
    /\ UNCHANGED <<record, vms, target, joined, unreached>>

HasRoom == Cardinality(Index) + Cardinality(Fresh) < Limit

\* Mutant of Reserve: the pending set is not looked at.
Reserve_IgnoresPending(r, i) ==
    /\ i \notin Index
    /\ HasRoom
    /\ result' = [result EXCEPT ![i] = None]
    /\ Granted(r, i)

\* Mutant of Reserve: the team index is not looked at.
Reserve_IgnoresStored(r, i) ==
    /\ i \notin Fresh
    /\ HasRoom
    /\ result' = [result EXCEPT ![i] = None]
    /\ Granted(r, i)

\* Mutant of Reserve: the result of the attempt before stays.
Reserve_KeepsResult(r, i) ==
    /\ i \notin Index \cup Fresh
    /\ HasRoom
    /\ UNCHANGED result
    /\ Granted(r, i)

\* Mutant of Reserve: the limit is off by one.
Reserve_OverLimit(r, i) ==
    /\ i \notin Index \cup Fresh
    /\ Cardinality(Index) + Cardinality(Fresh) <= Limit
    /\ result' = [result EXCEPT ![i] = None]
    /\ Granted(r, i)

Reserve(r, i) ==
    /\ i \notin Index \cup Fresh
    /\ HasRoom
    /\ result' = [result EXCEPT ![i] = None]
    /\ Granted(r, i)

\* ErrAlreadyExists: the caller reads the record instead.
ReserveStored(r, i) ==
    /\ Arrives(r, i)
    /\ i \in Index
    /\ pending' = Fresh
    /\ Goto(r, "getRecord")
    /\ UNCHANGED <<record, result, vms, target, joined, holders, got, unreached, mixed>>

ReservePending(r, i) ==
    /\ Arrives(r, i)
    /\ i \in Fresh \ Index
    /\ pending' = Fresh
    /\ joined' = [joined EXCEPT ![r] = {h \in holders : sid[h] = i /\ pc[h] \in {"done", "dead"}}]
    /\ Goto(r, "waitResult")
    /\ UNCHANGED <<record, result, vms, target, holders, got, unreached, mixed>>

ReserveLimited(r, i) ==
    /\ Arrives(r, i)
    /\ i \notin Index \cup Fresh
    /\ ~HasRoom
    /\ pending' = Fresh
    /\ Return(r, "limit")
    /\ UNCHANGED <<record, result, vms, target, joined, holders, unreached, mixed>>

-----------------------------------------------------------------------------
(* CreateSandbox with a reservation.                                       *)

\* getSandboxData and PlaceSandbox. A start that fails leaves no VM.
Start(r) ==
    /\ pc[r] = "start"
    /\ vms' = vms \cup {r}
    /\ Goto(r, "add")
    /\ UNCHANGED <<record, pending, stale, result, sid, target, joined, holders, got,
                   unreached, mixed>>

StartFails(r) ==
    /\ "start" \in Faults
    /\ pc[r] = "start"
    /\ Goto(r, "finishErr")
    /\ UNCHANGED <<record, pending, stale, result, vms, sid, target, joined, holders, got,
                   unreached, mixed>>

\* Store.Add: addSandboxScript writes the record and the team index.
Add(r) ==
    /\ pc[r] = "add"
    /\ record' = [record EXCEPT ![sid[r]] = r]
    /\ Goto(r, "finishOk")
    /\ UNCHANGED <<pending, stale, result, vms, sid, target, joined, holders, got,
                   unreached, mixed>>

\* The error does not say whether the record was written. The VM is removed from
\* its node by a goroutine of its own, before or after the deferred finishStart.
AddFails(r) ==
    /\ "redis" \in Faults
    /\ pc[r] = "add"
    /\ \E v \in {record[sid[r]], r} : record' = [record EXCEPT ![sid[r]] = v]
    /\ Goto(r, "finishErr")
    /\ UNCHANGED <<pending, stale, result, vms, sid, target, joined, holders, got,
                   unreached, mixed>>

KillUnstored(r) ==
    /\ r \in vms
    /\ pc[r] = "finishErr" \/ got[r] = "error"
    /\ vms' = vms \ {r}
    /\ UNCHANGED <<record, pending, stale, result, pc, sid, target, joined, holders, got,
                   unreached, mixed>>

\* Mutant of EncodeResult: an error is stored as an empty result.
EncodeResult_EmptyError(r) == IF pc[r] = "finishOk" THEN r ELSE ""

\* What the call returns and its waiters decode from the result key: the sandbox
\* or the error of the creation.
EncodeResult(r) == IF pc[r] = "finishOk" THEN r ELSE "error"

\* Mutant of FinishStart: not deferred, so an error returns without it.
FinishStart_OnlyOk(r) ==
    \/ /\ pc[r] = "finishOk"
       /\ result' = [result EXCEPT ![sid[r]] = r]
       /\ Return(r, r)
       /\ pending' = pending \ {sid[r]}
       /\ stale' = stale \ {sid[r]}
       /\ UNCHANGED <<record, vms, sid, target, joined, holders, unreached, mixed>>
    \/ /\ pc[r] = "finishErr"
       /\ Return(r, "error")
       /\ UNCHANGED <<record, pending, stale, result, vms, sid, target, joined, holders,
                      unreached, mixed>>

\* The deferred finishStart: finishStartScript, without the cancellation.
FinishStart(r) ==
    /\ pc[r] \in {"finishOk", "finishErr"}
    /\ result' = [result EXCEPT ![sid[r]] = EncodeResult(r)]
    /\ Return(r, EncodeResult(r))
    /\ pending' = pending \ {sid[r]}
    /\ stale' = stale \ {sid[r]}
    /\ UNCHANGED <<record, vms, sid, target, joined, holders, unreached, mixed>>

FinishFails(r) ==
    /\ "lost" \in Faults
    /\ pc[r] \in {"finishOk", "finishErr"}
    /\ Return(r, EncodeResult(r))
    /\ UNCHANGED <<record, pending, stale, result, vms, sid, target, joined, holders,
                   unreached, mixed>>

-----------------------------------------------------------------------------
(* waitForStart.                                                           *)

GetRecord(r) ==
    /\ pc[r] = "getRecord"
    /\ Return(r, IF record[sid[r]] = None THEN "error" ELSE record[sid[r]])
    /\ UNCHANGED <<record, pending, stale, result, vms, sid, target, joined, holders,
                   unreached, mixed>>

\* A GET of the result key, in the loop or after the entry is gone.
WaitResult(r) ==
    /\ pc[r] \in {"waitResult", "waitFinal"}
    /\ \/ result[sid[r]] # None /\ Return(r, result[sid[r]])
       \/ /\ result[sid[r]] = None
          /\ pc[r] = "waitFinal"
          /\ Return(r, "error")
       \/ /\ result[sid[r]] = None
          /\ pc[r] = "waitResult"
          /\ Goto(r, "waitPending")
          /\ UNCHANGED got
    /\ UNCHANGED <<record, pending, stale, result, vms, sid, target, joined, holders,
                   unreached, mixed>>

WaitPending(r) ==
    /\ pc[r] = "waitPending"
    /\ Goto(r, IF sid[r] \in pending THEN "waitResult" ELSE "waitFinal")
    /\ UNCHANGED <<record, pending, stale, result, vms, sid, target, joined, holders, got,
                   unreached, mixed>>

WaitFails(r) ==
    /\ "redis" \in Faults
    /\ pc[r] \in {"getRecord", "waitResult", "waitPending", "waitFinal"}
    /\ Return(r, "error")
    /\ UNCHANGED <<record, pending, stale, result, vms, sid, target, joined, holders,
                   unreached, mixed>>

-----------------------------------------------------------------------------
(* RemoveSandbox with a transition of its own, so one per record.          *)

BeginRemove(m, i) ==
    /\ pc[m] = "idle"
    /\ record[i] # None
    /\ \A n \in Removers : target[n] # record[i]
    /\ sid' = [sid EXCEPT ![m] = i]
    /\ target' = [target EXCEPT ![m] = record[i]]
    /\ Goto(m, "node")
    /\ UNCHANGED <<record, pending, stale, result, vms, joined, holders, got, unreached, mixed>>

RemoveFromNode(m) ==
    /\ pc[m] = "node"
    /\ vms' = vms \ {target[m]}
    /\ Goto(m, "remove")
    /\ UNCHANGED <<record, pending, stale, result, sid, target, joined, holders, got,
                   unreached, mixed>>

\* The node cannot be reached: the record is removed all the same.
RemoveFromNodeFails(m) ==
    /\ "node" \in Faults
    /\ pc[m] = "node"
    /\ Goto(m, "remove")
    /\ unreached' = unreached \cup {m}
    /\ UNCHANGED <<record, pending, stale, result, vms, sid, target, joined, holders, got,
                   mixed>>

\* Storage.Remove: removeSandboxScript.
RemoveRecord(m) ==
    /\ pc[m] = "remove"
    /\ record' = [record EXCEPT ![sid[m]] = None]
    /\ Goto(m, "release")
    /\ UNCHANGED <<pending, stale, result, vms, sid, target, joined, holders, got,
                   unreached, mixed>>

\* Reservations.Release: releaseScript, whoever holds the pending entry.
Release(m) ==
    /\ pc[m] = "release"
    /\ pending' = pending \ {sid[m]}
    /\ stale' = stale \ {sid[m]}
    /\ result' = [result EXCEPT ![sid[m]] = None]
    /\ Goto(m, "done")
    /\ UNCHANGED <<record, vms, sid, target, joined, holders, got, unreached, mixed>>

\* Store.Remove logs the error of either call and goes on.
RemoveFails(m) ==
    /\ "redis" \in Faults
    /\ pc[m] \in {"remove", "release"}
    /\ Goto(m, IF pc[m] = "remove" THEN "release" ELSE "done")
    /\ UNCHANGED <<record, pending, stale, result, vms, sid, target, joined, holders, got,
                   unreached, mixed>>

-----------------------------------------------------------------------------
(* Faults and expiry.                                                      *)

Crash(r) ==
    /\ "crash" \in Faults
    /\ pc[r] \notin {"idle", "done", "dead"}
    /\ Goto(r, "dead")
    /\ UNCHANGED <<record, pending, stale, result, vms, sid, target, joined, holders, got,
                   unreached, mixed>>

\* The pending entry of a creator grows older than staleTTL.
GrowStale(i) ==
    /\ i \in pending \ stale
    /\ "slow" \in Faults \/ \A r \in Creators : sid[r] = i => ~Reserving(r)
    /\ stale' = stale \cup {i}
    /\ Mix(i, \E r \in Creators : sid[r] = i /\ Creating(r))
    /\ UNCHANGED <<record, pending, result, vms, pc, sid, target, joined, holders, got,
                   unreached>>

\* resultTTL, which a waiter's poll of every 20 ms does not miss.
ResultExpires(i) ==
    /\ result[i] # None
    /\ \A r \in Creators :
         sid[r] = i => pc[r] \notin {"waitResult", "waitPending", "waitFinal"}
    /\ result' = [result EXCEPT ![i] = None]
    /\ UNCHANGED <<record, pending, stale, vms, pc, sid, target, joined, holders, got,
                   unreached, mixed>>

\* Reconcile: the node's sandboxes that are older than orphanGracePeriod and have
\* no record are killed, by their ID, which another execution may have by then.
Reconcile(r) ==
    /\ r \in vms
    /\ pc[r] \in {"done", "dead"} \/ ("slow" \in Faults /\ pc[r] = "add")
    /\ record[sid[r]] = None
    /\ \E v \in {w \in vms : sid[w] = sid[r]} : vms' = vms \ {v}
    /\ UNCHANGED <<record, pending, stale, result, pc, sid, target, joined, holders, got,
                   unreached, mixed>>

CreatorStep(r) ==
    \/ Start(r) \/ Add(r) \/ FinishStart(r)
    \/ GetRecord(r) \/ WaitResult(r) \/ WaitPending(r)

RemoverStep(m) == RemoveFromNode(m) \/ RemoveRecord(m) \/ Release(m)

Next ==
    \/ \E r \in Creators :
         \/ \E i \in Ids : Reserve(r, i) \/ ReserveStored(r, i)
                             \/ ReservePending(r, i) \/ ReserveLimited(r, i)
         \/ CreatorStep(r)
         \/ StartFails(r) \/ AddFails(r) \/ FinishFails(r) \/ WaitFails(r)
         \/ KillUnstored(r) \/ Reconcile(r)
    \/ \E m \in Removers :
         \/ \E i \in Ids : BeginRemove(m, i)
         \/ RemoverStep(m)
         \/ RemoveFromNodeFails(m) \/ RemoveFails(m)
    \/ \E r \in Calls : Crash(r)
    \/ \E i \in Ids : GrowStale(i) \/ ResultExpires(i)

Spec == Init /\ [][Next]_vars

Fairness ==
    /\ \A r \in Creators : WF_vars(CreatorStep(r)) /\ WF_vars(KillUnstored(r))
    /\ \A m \in Removers : WF_vars(RemoverStep(m))

FairSpec == Spec /\ Fairness

-----------------------------------------------------------------------------
(* Properties.                                                             *)

\* Every variable has its type.
TypeOK ==
    /\ record \in [Ids -> Creators \cup {None}]
    /\ pending \subseteq Ids
    /\ stale \subseteq pending
    /\ result \in [Ids -> Creators \cup {None, "error"}]
    /\ vms \subseteq Creators
    /\ pc \in [Calls -> CreatorPC \cup RemoverPC \cup {"idle", "done", "dead"}]
    /\ sid \in [Calls -> Ids \cup {None}]
    /\ target \in [Removers -> Creators \cup {None}]
    /\ joined \in [Creators -> SUBSET Creators]
    /\ holders \subseteq Creators
    /\ got \in [Creators -> Creators \cup {None, "error", "limit"}]
    /\ unreached \subseteq Removers
    /\ mixed \subseteq Ids

\* At most one call creates a given sandbox ID at a time, and none while the ID
\* has a record: what getSandboxData reads, the VM that is started and the
\* record that is stored belong to one execution (scripts.go:45). Mixed IDs are
\* excepted: the Release of a removal (store.go:138) or the finishStart of an
\* earlier call, run late, deletes the entry of the creation that follows, and
\* staleTTL that of a slow one, so that another call may create the ID beside it.
OneCreator ==
    \A r \in Creators : Creating(r) /\ sid[r] \notin mixed =>
        /\ record[sid[r]] = None
        /\ \A s \in Creators : Creating(s) /\ sid[s] = sid[r] => s = r

\* The sandboxes of a team, stored or being created, are never more than its limit,
\* but for mixed IDs, whose entry may be gone while they are created: what the
\* script counts bounds the others all the same (scripts.go:54).
WithinLimit ==
    Cardinality((Index \cup {sid[r] : r \in {c \in Creators : Creating(c)}}) \ mixed) <= Limit

\* A call that waited is never given the sandbox of an attempt that was over
\* when it began to wait: Reserve deletes the result of earlier attempts.
NoStaleResult ==
    \A r \in Creators : got[r] \notin joined[r]

\* A VM of r that a removal is about to stop, or would have stopped but for a node
\* that cannot be reached or an instance that died.
Removing(r) ==
    \E m \in Removers : target[m] = r /\ (pc[m] \in {"node", "dead"} \/ m \in unreached)

\* The VM of a creation that succeeded is the one its record names until a removal
\* has stopped it: no later creation of the ID replaces the record, and only a
\* removal that failed leaves a VM without a record to Reconcile. Mixed IDs, which
\* two calls may create, are excepted, and a creation whose Add failed: its VM is
\* stopped by a goroutine whose failure is only logged (create_instance.go:342).
NoLostVM ==
    \A r \in vms : (pc[r] = "done" /\ got[r] = r /\ sid[r] \notin mixed) =>
        record[sid[r]] = r \/ Removing(r)

\* Every call that waits for another call's creation returns, whether that
\* creation succeeds, fails or is removed again. (After a crash of the creator's
\* instance, or a lost script, only the waiter's own context ends the wait.)
WaitersReturn ==
    \A r \in Creators : pc[r] = "waitResult" ~> pc[r] \in {"done", "dead"}

-----------------------------------------------------------------------------
(* The inductive invariant.                                                *)

\* Every call that has begun knows its sandbox ID.
KnowsId == \A c \in Calls : pc[c] # "idle" => sid[c] \in Ids

\* While an ID is pending it has no result, and a result that a waiter finds comes
\* from a call that was not over when the waiter began.
ResultsAreNew ==
    /\ \A i \in pending : result[i] = None
    /\ \A r \in Creators :
         /\ \A h \in joined[r] : pc[h] \in {"done", "dead"}
         /\ pc[r] \in {"idle", "start", "add", "finishOk", "finishErr", "getRecord"} =>
              joined[r] = {}
         /\ pc[r] = "idle" => got[r] = None
         /\ pc[r] \in {"waitResult", "waitPending", "waitFinal"} => result[sid[r]] \notin joined[r]
         /\ got[r] \notin joined[r]

\* A creator holds its pending entry, alone and without a record, until it stores
\* the record; the record of a removal is the removal's until it deletes it.
HoldsId ==
    /\ \A r \in Creators : Creating(r) /\ sid[r] \notin mixed =>
         sid[r] \in Fresh /\ record[sid[r]] = None
    /\ \A r, s \in Creators :
         Reserving(r) /\ Reserving(s) /\ sid[r] = sid[s] /\ sid[r] \notin mixed => r = s
    /\ \A m \in Removers :
         /\ pc[m] \in {"node", "remove"} =>
              target[m] # None /\ (record[sid[m]] = target[m] \/ sid[m] \in mixed)
         /\ pc[m] = "release" =>
              \A r \in Creators : Creating(r) /\ sid[r] = sid[m] => sid[m] \in mixed
    /\ \A m, n \in Removers : target[m] # None /\ target[m] = target[n] => m = n

\* The IDs of the team that the script counts, without the mixed ones.
Slots == (Index \cup Fresh) \ mixed

\* What the limit is compared with bounds the sandboxes there are.
SlotsCounted == Cardinality(Slots) <= Limit

\* A VM, a record and a removal's target are of a creator that got that far, a
\* target is stopped before its record goes, unless its node is not reached, and
\* the VM of a creation that has stored its record stays with it.
VMsAccounted ==
    /\ \A r \in vms : pc[r] \in {"add", "finishOk", "finishErr", "done", "dead"}
    /\ \A i \in Ids : record[i] # None =>
         pc[record[i]] \in {"finishOk", "finishErr", "done", "dead"}
    /\ \A m \in Removers :
         /\ pc[m] = "idle" => target[m] = None
         /\ target[m] # None => pc[target[m]] \in {"finishOk", "finishErr", "done", "dead"}
         /\ pc[m] \in {"remove", "release", "done"} /\ m \notin unreached => target[m] \notin vms
    /\ \A r \in vms : pc[r] = "finishOk" \/ (pc[r] = "done" /\ got[r] = r) =>
         record[sid[r]] = r \/ Removing(r) \/ sid[r] \in mixed

\* The types, and what the calls rely on between two of their commands.
ReservationInv ==
    TypeOK /\ KnowsId /\ ResultsAreNew /\ HoldsId /\ SlotsCounted /\ VMsAccounted
=============================================================================
