---------------------------- MODULE SandboxServer ----------------------------
(***************************************************************************)
(* The sandbox service of an orchestrator node: the calls Create, Delete,  *)
(* Pause and Checkpoint (packages/orchestrator/pkg/server/sandboxes.go),   *)
(* the indexes live and lifecycles of sandbox/map.go, the goroutines that  *)
(* stop and close a sandbox (sandbox/sandbox.go) and the shutdown of the   *)
(* node (factories/run.go, server/main.go).                                *)
(*                                                                         *)
(* A lifecycle is one VM. Checkpoint replaces the lifecycle of a sandbox   *)
(* by another, so that the old one is closed while the new one is live.    *)
(* The resources of a VM are in NetworkPool, what an upload does in        *)
(* SnapshotUploads.                                                        *)
(***************************************************************************)
EXTENDS Integers, FiniteSets

CONSTANTS
    Ids,          \* sandbox IDs
    Lifecycles,   \* lifecycle IDs; one is free again when its VM is closed
    Calls,        \* the calls in progress at a time
    Limits,       \* the limits of starting sandboxes the flag may set
    MaxRunning,   \* MaxSandboxesPerNode
    Faults,       \* the faults that may happen, a subset of Fault
    None

Fault == {"resume",      \* ResumeSandbox fails
          "snapshot",    \* snapshotAndCacheSandbox fails
          "upload",      \* an upload fails for good
          "exit",        \* a VM exits on its own
          "duplicate"}   \* the API creates a sandbox that the node still runs

Lifecycle ==
    [id : Ids \cup {None},
     vm : {"none", "up", "paused", "dead"},
     stopping : BOOLEAN,                          \* a Stop is to run
     close : {"none", "wait", "cleaned"},         \* goroutine of setupSandboxLifecycle
     upload : {"none", "registered", "flight"}]   \* of the snapshot of this VM

Op == {"create", "delete", "pause", "checkpoint"}

PC == {"acquire", "mark", "stop", "snapshot", "resume", "insert", "track",
       "setup", "upload", "sync"}

Call == [op : Op, id : Ids, pc : PC, old : Lifecycles \cup {None}, new : Lifecycles \cup {None}]

Free == [id |-> None, vm |-> "none", stopping |-> FALSE, close |-> "none", upload |-> "none"]

ASSUME ServerAssumption ==
    /\ Limits \subseteq Nat \ {0} /\ Limits # {}
    /\ MaxRunning \in Nat
    /\ Faults \subseteq Fault
    /\ IsFiniteSet(Calls)
    /\ None \notin Ids \cup Lifecycles \cup Call

VARIABLES
    live,         \* Map.live
    lifecycles,   \* Map.lifecycles
    lc,           \* per lifecycle its sandbox ID, VM, goroutines and upload
    call,         \* per call its operation, sandbox ID, pc and lifecycles
    used, limit,  \* startingSandboxes
    phase,        \* the shutdown of the node
    forced        \* ForceStop of its configuration

vars == <<live, lifecycles, lc, call, used, limit, phase, forced>>

Init ==
    /\ live = [i \in Ids |-> None]
    /\ lifecycles = {}
    /\ lc = [l \in Lifecycles |-> Free]
    /\ call = [c \in Calls |-> None]
    /\ used = 0
    /\ limit \in Limits
    /\ phase = "run"
    /\ forced \in BOOLEAN

Goto(c, l) == call' = [call EXCEPT ![c].pc = l]

At(c, l) == call[c] # None /\ call[c].pc = l

Handles(c, l) == call[c] # None /\ l \in {call[c].old, call[c].new}

\* A new lifecycle takes the ID of one that is closed and forgotten.
IsFree(l) ==
    /\ lc[l].vm \in {"none", "dead"} /\ ~lc[l].stopping
    /\ lc[l].close = "none" /\ lc[l].upload # "flight"
    /\ l \notin lifecycles
    /\ \A c \in Calls : ~Handles(c, l)

Count == Cardinality({i \in Ids : live[i] # None})

\* Mutant of MarkStopping: whichever lifecycle is live.
MarkStopping_AnyLifecycle(l) == live' = [live EXCEPT ![lc[l].id] = None]

\* Map.MarkStopping: only if this lifecycle is the live one.
MarkStopping(l) ==
    live' = IF live[lc[l].id] = l THEN [live EXCEPT ![lc[l].id] = None] ELSE live

\* The call returns, and with it the permit that a deferred Release gives back.
Return(c) == call' = [call EXCEPT ![c] = None]

Permit(c) ==
    /\ call[c] # None
    /\ call[c].op \in {"create", "checkpoint"}
    /\ call[c].pc # "acquire"

\* AdjustableSemaphore.Release
Release(c) == used' = IF Permit(c) THEN used - 1 ELSE used

-----------------------------------------------------------------------------
(* The calls. GracefulStop refuses new ones.                               *)

Serving == phase \in {"run", "drain", "lifecycles"}

\* The API creates a sandbox when it knows of no other with the ID.
MayCreate(i) ==
    \/ "duplicate" \in Faults
    \/ live[i] = None /\ \A c \in Calls : call[c] # None => call[c].id # i

\* Create up to the check of the number of sandboxes on the node.
BeginCreate(c, i) ==
    /\ Serving
    /\ call[c] = None
    /\ MayCreate(i)
    /\ Count < MaxRunning
    /\ call' = [call EXCEPT ![c] = [op |-> "create", id |-> i, old |-> None, new |-> None,
                                    pc |-> "acquire"]]
    /\ UNCHANGED <<live, lifecycles, lc, used, limit, phase, forced>>

\* The other calls up to Map.Get, which has found the sandbox.
BeginCall(c, op, i) ==
    /\ Serving
    /\ call[c] = None
    /\ live[i] # None
    /\ call' = [call EXCEPT ![c] = [op |-> op, id |-> i, old |-> live[i], new |-> None,
                                    pc |-> IF op = "checkpoint" THEN "acquire" ELSE "mark"]]
    /\ UNCHANGED <<live, lifecycles, lc, used, limit, phase, forced>>

\* TryAcquire, or Acquire until its timeout: a call that gets no permit returns.
Acquire(c) ==
    /\ At(c, "acquire")
    /\ \/ /\ used < limit
          /\ used' = used + 1
          /\ Goto(c, IF call[c].op = "create" THEN "resume" ELSE "mark")
       \/ used >= limit /\ Return(c) /\ UNCHANGED used
    /\ UNCHANGED <<live, lifecycles, lc, limit, phase, forced>>

\* MarkStopping by the call; the call fails when another one was faster.
Mark(c) ==
    /\ At(c, "mark")
    /\ MarkStopping(call[c].old)
    /\ IF live[call[c].id] = call[c].old
       THEN Goto(c, IF call[c].op = "delete" THEN "stop" ELSE "snapshot") /\ UNCHANGED used
       ELSE Return(c) /\ Release(c)
    /\ UNCHANGED <<lifecycles, lc, limit, phase, forced>>

\* The end of Delete, and the deferred stopSandboxAsync of Pause and Checkpoint.
StopOld(c) ==
    /\ At(c, "stop")
    /\ lc' = [lc EXCEPT ![call[c].old].stopping = TRUE]
    /\ Return(c)
    /\ Release(c)
    /\ UNCHANGED <<live, lifecycles, limit, phase, forced>>

\* snapshotAndCacheSandbox: pausing a VM that has exited fails.
Snapshot(c) ==
    /\ At(c, "snapshot")
    /\ LET l == call[c].old IN
       \/ /\ lc[l].vm = "up"
          /\ lc' = [lc EXCEPT ![l].vm = "paused", ![l].upload = "registered"]
          /\ Goto(c, IF call[c].op = "pause" THEN "upload" ELSE "resume")
       \/ /\ "snapshot" \in Faults \/ lc[l].vm # "up"
          /\ lc' = [lc EXCEPT ![l].vm = IF @ = "up" THEN "paused" ELSE @]
          /\ Goto(c, "stop")
    /\ UNCHANGED <<live, lifecycles, used, limit, phase, forced>>

\* Mutant of Resume: a Checkpoint that cannot resume returns at once.
Resume_NoStop(c) ==
    /\ At(c, "resume")
    /\ \/ \E l \in Lifecycles :
             /\ IsFree(l)
             /\ lc' = [lc EXCEPT ![l] = [Free EXCEPT !.id = call[c].id, !.vm = "up"]]
             /\ call' = [call EXCEPT ![c].new = l, ![c].pc = "insert"]
             /\ UNCHANGED used
       \/ "resume" \in Faults /\ Return(c) /\ Release(c) /\ UNCHANGED lc
    /\ UNCHANGED <<live, lifecycles, limit, phase, forced>>

\* Mutant of Resume: a Create that fails keeps its permit.
Resume_NoRelease(c) ==
    /\ At(c, "resume")
    /\ \/ \E l \in Lifecycles :
             /\ IsFree(l)
             /\ lc' = [lc EXCEPT ![l] = [Free EXCEPT !.id = call[c].id, !.vm = "up"]]
             /\ call' = [call EXCEPT ![c].new = l, ![c].pc = "insert"]
       \/ "resume" \in Faults /\ call[c].op = "create" /\ Return(c) /\ UNCHANGED lc
       \/ "resume" \in Faults /\ call[c].op = "checkpoint" /\ Goto(c, "stop") /\ UNCHANGED lc
    /\ UNCHANGED <<live, lifecycles, used, limit, phase, forced>>

\* ResumeSandbox up to MarkRunning. When it fails the Cleanup has run. A snapshot
\* that Checkpoint cannot resume stays registered and is never uploaded.
Resume(c) ==
    /\ At(c, "resume")
    /\ \/ \E l \in Lifecycles :
             /\ IsFree(l)
             /\ lc' = [lc EXCEPT ![l] = [Free EXCEPT !.id = call[c].id, !.vm = "up"]]
             /\ call' = [call EXCEPT ![c].new = l, ![c].pc = "insert"]
             /\ UNCHANGED used
       \/ "resume" \in Faults /\ call[c].op = "create" /\ Return(c) /\ Release(c) /\ UNCHANGED lc
       \/ /\ "resume" \in Faults /\ call[c].op = "checkpoint"
          /\ Goto(c, "stop")
          /\ UNCHANGED <<lc, used>>
    /\ UNCHANGED <<live, lifecycles, limit, phase, forced>>

\* MarkRunning: InsertIfAbsent, then trackLifecycle. A lifecycle that finds
\* another one in its place is not tracked.
MarkRunning(c) ==
    /\ At(c, "insert")
    /\ IF live[call[c].id] = None
       THEN live' = [live EXCEPT ![call[c].id] = call[c].new] /\ Goto(c, "track")
       ELSE UNCHANGED live /\ Goto(c, "setup")
    /\ UNCHANGED <<lifecycles, lc, used, limit, phase, forced>>

TrackLifecycle(c) ==
    /\ At(c, "track")
    /\ lifecycles' = lifecycles \cup {call[c].new}
    /\ Goto(c, "setup")
    /\ UNCHANGED <<live, lc, used, limit, phase, forced>>

SetupLifecycle(c) ==
    /\ At(c, "setup")
    /\ lc' = [lc EXCEPT ![call[c].new].close = "wait"]
    /\ IF call[c].op = "create" THEN Return(c) /\ Release(c)
       ELSE \E l \in {"upload", "sync"} : Goto(c, l) /\ UNCHANGED used
    /\ UNCHANGED <<live, lifecycles, limit, phase, forced>>

\* uploadSnapshotAsync
UploadAsync(c) ==
    /\ At(c, "upload")
    /\ lc' = [lc EXCEPT ![call[c].old].upload = "flight"]
    /\ Goto(c, "stop")
    /\ UNCHANGED <<live, lifecycles, used, limit, phase, forced>>

\* The upload inside Checkpoint: when it fails the resumed VM is stopped too.
UploadSync(c) ==
    /\ At(c, "sync")
    /\ \/ lc' = [lc EXCEPT ![call[c].old].upload = "none"] /\ UNCHANGED live
       \/ /\ "upload" \in Faults
          /\ MarkStopping(call[c].new)
          /\ lc' = [lc EXCEPT ![call[c].old].upload = "none", ![call[c].new].stopping = TRUE]
    /\ Goto(c, "stop")
    /\ UNCHANGED <<lifecycles, used, limit, phase, forced>>

-----------------------------------------------------------------------------
(* The goroutines of a lifecycle.                                          *)

\* Sandbox.Stop, in the goroutine a call has started.
Stop(l) ==
    /\ lc[l].stopping
    /\ lc' = [lc EXCEPT ![l].stopping = FALSE, ![l].vm = "dead"]
    /\ UNCHANGED <<live, lifecycles, call, used, limit, phase, forced>>

Exit(l) ==
    /\ "exit" \in Faults
    /\ lc[l].vm \in {"up", "paused"}
    /\ lc' = [lc EXCEPT ![l].vm = "dead"]
    /\ UNCHANGED <<live, lifecycles, call, used, limit, phase, forced>>

\* Mutant of Cleanup: an error of the Cleanup skips MarkStopped.
Cleanup_Forgets(l) ==
    /\ lc[l].close = "wait"
    /\ lc[l].vm = "dead"
    /\ MarkStopping(l)
    /\ \E p \in {"cleaned", "none"} : lc' = [lc EXCEPT ![l].close = p]
    /\ UNCHANGED <<lifecycles, call, used, limit, phase, forced>>

\* Wait returns and Close runs the Cleanup, which takes the sandbox off the map.
Cleanup(l) ==
    /\ lc[l].close = "wait"
    /\ lc[l].vm = "dead"
    /\ MarkStopping(l)
    /\ lc' = [lc EXCEPT ![l].close = "cleaned"]
    /\ UNCHANGED <<lifecycles, call, used, limit, phase, forced>>

\* Mutant of MarkStopped: by the sandbox ID.
MarkStopped_ByID(l) ==
    /\ lc[l].close = "cleaned"
    /\ lifecycles' = {k \in lifecycles : lc[k].id # lc[l].id}
    /\ lc' = [lc EXCEPT ![l].close = "none"]
    /\ UNCHANGED <<live, call, used, limit, phase, forced>>

MarkStopped(l) ==
    /\ lc[l].close = "cleaned"
    /\ lifecycles' = lifecycles \ {l}
    /\ lc' = [lc EXCEPT ![l].close = "none"]
    /\ UNCHANGED <<live, call, used, limit, phase, forced>>

\* retry.Do and completeUpload: the upload lands or is given up.
UploadDone(l) ==
    /\ lc[l].upload = "flight"
    /\ lc' = [lc EXCEPT ![l].upload = "none"]
    /\ UNCHANGED <<live, lifecycles, call, used, limit, phase, forced>>

SetLimit ==
    /\ \E n \in Limits \ {limit} : limit' = n
    /\ UNCHANGED <<live, lifecycles, lc, call, used, phase, forced>>

-----------------------------------------------------------------------------
(* The shutdown. A forced one does not drain and does not wait for uploads.*)

Signal ==
    /\ phase = "run"
    /\ phase' = IF forced THEN "grpc" ELSE "drain"
    /\ UNCHANGED <<live, lifecycles, lc, call, used, limit, forced>>

\* DrainSandboxes
Drain ==
    /\ phase = "drain"
    /\ Count = 0
    /\ phase' = "lifecycles"
    /\ UNCHANGED <<live, lifecycles, lc, call, used, limit, forced>>

\* Mutant of WaitLifecycles: no wait.
WaitLifecycles_Skipped ==
    /\ phase = "lifecycles"
    /\ phase' = "grpc"
    /\ UNCHANGED <<live, lifecycles, lc, call, used, limit, forced>>

WaitLifecycles ==
    /\ phase = "lifecycles"
    /\ lifecycles = {}
    /\ phase' = "grpc"
    /\ UNCHANGED <<live, lifecycles, lc, call, used, limit, forced>>

\* Mutant of GracefulStop: a hard stop.
GracefulStop_Hard ==
    /\ phase = "grpc"
    /\ phase' = "uploads"
    /\ UNCHANGED <<live, lifecycles, lc, call, used, limit, forced>>

\* grpcServer.GracefulStop waits for the calls.
GracefulStop ==
    /\ phase = "grpc"
    /\ \A c \in Calls : call[c] = None
    /\ phase' = "uploads"
    /\ UNCHANGED <<live, lifecycles, lc, call, used, limit, forced>>

\* Server.Close
CloseServer ==
    /\ phase = "uploads"
    /\ forced \/ \A l \in Lifecycles : lc[l].upload # "flight"
    /\ phase' = "exited"
    /\ UNCHANGED <<live, lifecycles, lc, call, used, limit, forced>>

-----------------------------------------------------------------------------
CallStep(c) ==
    \/ Acquire(c) \/ Mark(c) \/ StopOld(c) \/ Snapshot(c) \/ Resume(c)
    \/ MarkRunning(c) \/ TrackLifecycle(c) \/ SetupLifecycle(c) \/ UploadAsync(c) \/ UploadSync(c)

LifecycleStep(l) == Stop(l) \/ Cleanup(l) \/ MarkStopped(l)

Shutdown == Drain \/ WaitLifecycles \/ GracefulStop \/ CloseServer

Next ==
    /\ phase # "exited"
    /\ \/ \E c \in Calls : \/ CallStep(c)
                            \/ \E i \in Ids : \/ BeginCreate(c, i)
                                             \/ \E op \in Op \ {"create"} : BeginCall(c, op, i)
       \/ \E l \in Lifecycles : LifecycleStep(l) \/ Exit(l) \/ UploadDone(l)
       \/ SetLimit \/ Signal \/ Shutdown

Spec == Init /\ [][Next]_vars

\* Calls and goroutines go on, retries end with their budget, the shutdown goes on
\* once it has begun. Nothing makes a call or a signal arrive.
Fairness ==
    /\ \A c \in Calls : WF_vars(phase # "exited" /\ CallStep(c))
    /\ \A l \in Lifecycles : /\ WF_vars(phase # "exited" /\ LifecycleStep(l))
                             /\ WF_vars(phase # "exited" /\ UploadDone(l))
    /\ WF_vars(Shutdown)

FairSpec == Spec /\ Fairness

-----------------------------------------------------------------------------
(* Properties.                                                             *)

\* No VM is left behind: one that runs or is paused is live, in the hands of a
\* call, or about to be stopped, whichever step of a Pause or Checkpoint failed.
NoStrayVM ==
    \A l \in Lifecycles : lc[l].vm \in {"up", "paused"} =>
        live[lc[l].id] = l \/ lc[l].stopping \/ \E c \in Calls : Handles(c, l)

\* Every lifecycle whose cleanup is outstanding is in lifecycles, so that the
\* drain waits for it, the old ones of a checkpointed sandbox too.
TracksOutstanding ==
    \A l \in Lifecycles : lc[l].close # "none" => l \in lifecycles

\* A live sandbox leaves the map only through a call that holds it or because its
\* own VM is gone: the cleanup of a replaced lifecycle never evicts its successor.
KeepsSuccessor ==
    [][\A i \in Ids : LET l == live[i] IN
         (l # None /\ live'[i] # l) => lc[l].vm = "dead" \/ \E c \in Calls : Handles(c, l)]_vars

\* The permits of the starting semaphore are those of the calls that start a
\* sandbox: every way out of Create and Checkpoint gives its permit back, whatever
\* the limit was meanwhile.
PermitsBalance == used = Cardinality({c \in Calls : Permit(c)})

\* A graceful shutdown does not drop a snapshot: none is in the hands of a call
\* that has not started its upload, and no upload is in flight.
KeepsSnapshots ==
    (phase = "exited" /\ ~forced) =>
        \A l \in Lifecycles : /\ lc[l].upload # "flight"
                              /\ lc[l].upload = "registered" => \A c \in Calls : ~Handles(c, l)

\* When a graceful drain ends, no checkpoint is between its old and its new
\* lifecycle: the drain sees one or the other. Excepted are an old VM that has gone
\* on its own and one whose Create has not returned yet, for which the drain does
\* not wait.
DrainSeesCheckpoint ==
    [][(phase = "lifecycles" /\ phase' = "grpc") =>
         \A c \in Calls : (call[c] # None /\ call[c].op = "checkpoint"
                             /\ call[c].pc \in {"snapshot", "resume", "insert"})
                          => \/ lc[call[c].old].vm = "dead"
                             \/ \E d \in Calls : call[d] # None /\ call[d].new = call[c].old]_vars

\* Once the node has no live sandbox, the shutdown ends unless another one becomes
\* live: every VM is closed and forgotten, every call returns, every upload ends.
ShutdownEnds ==
    phase \notin {"run", "drain"} ~> (phase = "exited" \/ Count > 0)

-----------------------------------------------------------------------------
(* The inductive invariant.                                                *)

\* Every variable has its type.
TypeOK ==
    /\ live \in [Ids -> Lifecycles \cup {None}]
    /\ lifecycles \subseteq Lifecycles
    /\ lc \in [Lifecycles -> Lifecycle]
    /\ call \in [Calls -> Call \cup {None}]
    /\ used \in Nat /\ limit \in Limits
    /\ phase \in {"run", "drain", "lifecycles", "grpc", "uploads", "exited"}
    /\ forced \in BOOLEAN

\* What a call knows at its step: its lifecycles are of its sandbox and stay so, and
\* no goroutine closes the new one before the call has set that up.
Knows(c) ==
    /\ call[c].op = "create" =>
         call[c].old = None /\ call[c].pc \in {"acquire", "resume", "insert", "track", "setup"}
    /\ call[c].op # "create" =>
         call[c].old \in Lifecycles /\ lc[call[c].old].id = call[c].id
    /\ call[c].op = "delete" => call[c].pc \in {"mark", "stop"}
    /\ call[c].op = "pause" => call[c].pc \in {"mark", "snapshot", "upload", "stop"}
    /\ call[c].op \in {"delete", "pause"} => call[c].new = None
    /\ call[c].pc \in {"acquire", "mark", "snapshot", "resume"} => call[c].new = None
    /\ call[c].pc \in {"insert", "track", "setup", "sync"} => call[c].new \in Lifecycles
    /\ call[c].pc \in {"insert", "track", "setup"} => lc[call[c].new].close = "none"
    /\ call[c].new \in Lifecycles => lc[call[c].new].id = call[c].id

\* Every call knows that, and the lifecycle it has made is its own.
CallAtPC ==
    /\ \A c \in Calls : call[c] # None => Knows(c)
    /\ \A c, d \in Calls :
         (call[c] # None /\ call[d] # None /\ call[c].new \in Lifecycles
            /\ call[c].new = call[d].new) => c = d

\* A live lifecycle is of the sandbox it is live for, tracked or about to be, and
\* not closed.
LiveIsTracked ==
    \A i \in Ids : live[i] # None =>
        /\ lc[live[i]].id = i
        /\ lc[live[i]].close # "cleaned"
        /\ \/ live[i] \in lifecycles
           \/ \E c \in Calls : At(c, "track") /\ call[c].new = live[i]

\* A call that is about to make a lifecycle of a sandbox live, or has taken one
\* off the map for a snapshot.
Replacing(c) ==
    /\ call[c] # None
    /\ \/ call[c].pc \in {"snapshot", "resume", "insert"}
       \/ call[c].op = "create" /\ call[c].pc = "acquire"

\* There is one such call for a sandbox at a time, and nothing is live meanwhile;
\* a Create is the only call for its sandbox.
OneReplaces ==
    \A c \in Calls : Replacing(c) =>
        /\ live[call[c].id] = None
        /\ \A d \in Calls : (call[d] # None /\ call[d].id = call[c].id /\ d # c) =>
             ~Replacing(d) /\ call[c].op # "create"

\* Every lifecycle that a call holds has been tracked since it became live, until
\* its VM was dead and closed.
Held(c) ==
    /\ call[c].pc = "setup" => call[c].new \in lifecycles
    /\ (call[c].new # None /\ call[c].pc \notin {"insert", "track"}) =>
         call[c].new \in lifecycles \/ lc[call[c].new].vm = "dead"
    /\ call[c].old # None =>
         \/ call[c].old \in lifecycles \/ lc[call[c].old].vm = "dead"
         \/ \E d \in Calls : call[d] # None /\ call[d].new = call[c].old

HeldIsTracked ==
    /\ \A l \in Lifecycles : /\ lc[l].close = "cleaned" => lc[l].vm = "dead"
                             /\ lc[l].close # "none" => l \in lifecycles
    /\ \A c \in Calls : call[c] # None => Held(c)

\* A call that will stop its old lifecycle, or has yet to make its new one live.
Owns(c, l) ==
    /\ call[c] # None
    /\ \/ call[c].old = l /\ call[c].pc \notin {"acquire", "mark"}
       \/ call[c].new = l /\ call[c].pc = "insert"

\* A VM is live, about to be stopped, or in the hands of a call that will see to it.
VMsHeld ==
    \A l \in Lifecycles : lc[l].vm \in {"up", "paused"} =>
        /\ lc[l].id \in Ids
        /\ live[lc[l].id] = l \/ lc[l].stopping \/ \E c \in Calls : Owns(c, l)

\* No call is left when the uploads are waited for, and no upload after that.
ShutdownInOrder ==
    /\ phase \in {"uploads", "exited"} => \A c \in Calls : call[c] = None
    /\ phase = "exited" /\ ~forced => \A l \in Lifecycles : lc[l].upload # "flight"

\* The types, and what calls, goroutines and the shutdown rely on.
ServerInv ==
    /\ TypeOK /\ CallAtPC /\ LiveIsTracked /\ OneReplaces
    /\ HeldIsTracked /\ VMsHeld /\ PermitsBalance /\ ShutdownInOrder
=============================================================================
