----------------------------- MODULE NetworkPool -----------------------------
(***************************************************************************)
(* The pool of network slots of an orchestrator node and the sandboxes     *)
(* that hold them (packages/orchestrator/pkg/sandbox/network/pool.go and   *)
(* storage_local.go; Cleanup in sandbox/cleanup.go; the slot's part of     *)
(* ResumeSandbox in sandbox/sandbox.go; the IP index of sandbox/map.go).   *)
(*                                                                         *)
(* Populate fills newSlots. The resume of a sandbox takes a slot in a      *)
(* goroutine of its own, the promise, while the resume itself, the main    *)
(* thread, waits for it and may give up. The return of a slot runs in a    *)
(* third thread. Close runs against all of them.                           *)
(***************************************************************************)
EXTENDS Integers, Sequences, FiniteSets, Functions

CONSTANTS
    Slots,        \* the slot indexes of the storage, one host IP each
    Sandboxes,    \* the sandboxes (lifecycles) that take slots
    NewSize,      \* capacity of the channel newSlots
    ReusedSize,   \* capacity of the channel reusedSlots
    Faults,       \* the faults that may happen, a subset of Fault
    None

Fault == {"create",       \* CreateNetwork fails
          "configure",    \* ConfigureInternet fails
          "reset",        \* ResetInternet fails
          "cancel",       \* a resume gives up before it has its slot
          "context"}      \* Populate's context is done, which in the commands
                          \* (cmd/resume-build) happens before Close

ASSUME PoolAssumption ==
    /\ NewSize \in Nat \ {0} /\ ReusedSize \in Nat \ {0}
    /\ Faults \subseteq Fault
    /\ IsFiniteSet(Sandboxes)
    /\ None \notin Slots \cup Sandboxes

VARIABLES
    acquired,      \* acquiredNs of the storage
    newSlots,      \* the channel newSlots
    newClosed,     \* whether it is closed
    reusedSlots,   \* the channel reusedSlots
    done,          \* whether the channel done is closed
    closed,        \* Pool.closed
    returnsWG,     \* the count of the WaitGroup
    pop,           \* Populate: its pc and the slot it has created
    sbx,           \* per sandbox the threads of its resume and its Cleanup
    ret,           \* per sandbox the return of its slot
    network,       \* Map.network: the sandbox an IP is routed to
    closer,        \* pc of Close
    crashed        \* whether a goroutine has panicked, which ends the process

vars == <<acquired, newSlots, newClosed, reusedSlots, done, closed, returnsWG,
          pop, sbx, ret, network, closer, crashed>>

MainPC == {"idle", "wait", "assign", "up", "close", "lock", "body", "ended"}

PromisePC == {"idle", "get", "getNew", "configure", "add", "append", "added",
              "failed"}

ReturnPC == {"none", "delay", "notify", "reset", "reuse", "clean", "end"}

Sandbox == [main : MainPC, promise : PromisePC, slot : Slots \cup {None},
            listed : BOOLEAN,      \* the return is in the list of the Cleanup
            hasRun : BOOLEAN]      \* Cleanup.hasRun

Return == [pc : ReturnPC, slot : Slots \cup {None}, tracked : BOOLEAN,
           notify : BOOLEAN]       \* whether the release is still to be notified

NoSandbox == [main |-> "idle", promise |-> "idle", slot |-> None,
              listed |-> FALSE, hasRun |-> FALSE]

NoReturn == [pc |-> "none", slot |-> None, tracked |-> FALSE, notify |-> FALSE]

Init ==
    /\ acquired = {}
    /\ newSlots = <<>>
    /\ newClosed = FALSE
    /\ reusedSlots = <<>>
    /\ done = FALSE
    /\ closed = FALSE
    /\ returnsWG = 0
    /\ pop = [pc |-> "loop", slot |-> None]
    /\ sbx = [h \in Sandboxes |-> NoSandbox]
    /\ ret = [h \in Sandboxes |-> NoReturn]
    /\ network = [s \in Slots |-> None]
    /\ closer = "off"
    /\ crashed = FALSE

Main(h, l) == sbx' = [sbx EXCEPT ![h].main = l]

Promise(h, l) == sbx' = [sbx EXCEPT ![h].promise = l]

ReturnGoto(h, l) == ret' = [ret EXCEPT ![h].pc = l]

\* Pool.cleanup: RemoveNetwork and Release.
Cleanup(s) == acquired' = acquired \ {s}

poolVars == <<newSlots, newClosed, reusedSlots, done, closed, pop, closer>>

-----------------------------------------------------------------------------
(* Populate, a service of the node.                                        *)

PopulateAcquire ==
    /\ pop.pc = "loop"
    /\ ~done
    /\ \E s \in Slots \ acquired :
          /\ acquired' = acquired \cup {s}
          /\ pop' = [pc |-> "create", slot |-> s]
    /\ UNCHANGED <<newSlots, newClosed, reusedSlots, done, closed, returnsWG,
                   sbx, ret, network, closer, crashed>>

PopulateCreate ==
    /\ pop.pc = "create"
    /\ \/ pop' = [pop EXCEPT !.pc = "send"] /\ UNCHANGED acquired
       \/ /\ "create" \in Faults
          /\ pop' = [pc |-> "loop", slot |-> None]
          /\ acquired' = acquired \ {pop.slot}
    /\ UNCHANGED <<newSlots, newClosed, reusedSlots, done, closed, returnsWG,
                   sbx, ret, network, closer, crashed>>

\* The select of the send takes either case when the pool is closing.
PopulateSend ==
    /\ pop.pc = "send"
    /\ Len(newSlots) < NewSize
    /\ newSlots' = Append(newSlots, pop.slot)
    /\ pop' = [pc |-> "loop", slot |-> None]
    /\ UNCHANGED <<acquired, newClosed, reusedSlots, done, closed, returnsWG,
                   sbx, ret, network, closer, crashed>>

\* Mutant of PopulateStop: newSlots is left open.
PopulateStop_LeavesOpen ==
    /\ pop.pc \in {"loop", "send"}
    /\ done \/ "context" \in Faults
    /\ Cleanup(pop.slot)
    /\ pop' = [pc |-> "stopped", slot |-> None]
    /\ UNCHANGED <<newSlots, newClosed, reusedSlots, done, closed, returnsWG, sbx,
                   ret, network, closer, crashed>>

\* The pool is closing, or the context is done.
PopulateStop ==
    /\ pop.pc \in {"loop", "send"}
    /\ done \/ "context" \in Faults
    /\ Cleanup(pop.slot)
    /\ pop' = [pc |-> "stopped", slot |-> None]
    /\ newClosed' = TRUE
    /\ UNCHANGED <<newSlots, reusedSlots, done, closed, returnsWG, sbx, ret,
                   network, closer, crashed>>

Populate == PopulateAcquire \/ PopulateCreate \/ PopulateSend \/ PopulateStop

-----------------------------------------------------------------------------
(* Get, in the promise of getNetworkSlot.                                  *)

TakeSlot(h, s) ==
    sbx' = [sbx EXCEPT ![h].slot = s, ![h].promise = "configure"]

\* The first select: default only when neither channel is ready.
GetReused(h) ==
    /\ sbx[h].promise = "get"
    /\ \/ done /\ Promise(h, "failed") /\ UNCHANGED reusedSlots
       \/ /\ reusedSlots # <<>>
          /\ TakeSlot(h, Head(reusedSlots))
          /\ reusedSlots' = Tail(reusedSlots)
       \/ ~done /\ reusedSlots = <<>> /\ Promise(h, "getNew") /\ UNCHANGED reusedSlots
    /\ UNCHANGED <<acquired, newSlots, newClosed, done, closed, returnsWG, pop,
                   ret, network, closer, crashed>>

\* The second select. The main thread has moved on when the request's context is
\* done. A closed channel that is empty yields a nil slot, on
\* which ConfigureInternet panics.
GetNew(h) ==
    /\ sbx[h].promise = "getNew"
    /\ \/ done /\ Promise(h, "failed") /\ UNCHANGED <<newSlots, crashed>>
       \/ sbx[h].main # "wait" /\ Promise(h, "failed") /\ UNCHANGED <<newSlots, crashed>>
       \/ /\ newSlots # <<>>
          /\ TakeSlot(h, Head(newSlots))
          /\ newSlots' = Tail(newSlots)
          /\ UNCHANGED crashed
       \/ newSlots = <<>> /\ newClosed /\ crashed' = TRUE /\ UNCHANGED <<newSlots, sbx>>
    /\ UNCHANGED <<acquired, newClosed, reusedSlots, done, closed, returnsWG, pop,
                   ret, network, closer>>

\* Mutant of ReturnAsync: the return is not added to the WaitGroup.
ReturnAsync_NoAdd(h, notify) ==
    /\ ret' = [ret EXCEPT ![h] = [pc |-> "delay", slot |-> sbx[h].slot,
                                  tracked |-> ~closed, notify |-> notify]]
    /\ UNCHANGED returnsWG

\* ReturnAsync: the return is tracked unless the pool is closed, in which case
\* the caller runs it inline. No context a caller passes can be cancelled.
ReturnAsync(h, notify) ==
    /\ ret' = [ret EXCEPT ![h] = [pc |-> "delay", slot |-> sbx[h].slot,
                                  tracked |-> ~closed, notify |-> notify]]
    /\ returnsWG' = IF closed THEN returnsWG ELSE returnsWG + 1

Configure(h) ==
    /\ sbx[h].promise = "configure"
    /\ \/ Promise(h, "add") /\ UNCHANGED <<ret, returnsWG>>
       \/ /\ "configure" \in Faults
          /\ ReturnAsync(h, FALSE)
          /\ sbx' = [sbx EXCEPT ![h].promise = "failed", ![h].slot = None]
    /\ UNCHANGED <<acquired, poolVars, network, crashed>>

\* Cleanup.Add reads hasRun before it takes the mutex.
CleanupAdd(h) ==
    /\ sbx[h].promise = "add"
    /\ IF sbx[h].hasRun
       THEN /\ ReturnAsync(h, TRUE)
            /\ sbx' = [sbx EXCEPT ![h].promise = "added", ![h].slot = None]
       ELSE Promise(h, "append") /\ UNCHANGED <<ret, returnsWG>>
    /\ UNCHANGED <<acquired, poolVars, network, crashed>>

CleanupAppend(h) ==
    /\ sbx[h].promise = "append"
    /\ sbx[h].main # "body"
    /\ sbx' = [sbx EXCEPT ![h].promise = "added", ![h].listed = TRUE]
    /\ UNCHANGED <<acquired, poolVars, returnsWG, ret, network, crashed>>

-----------------------------------------------------------------------------
(* The main thread: ResumeSandbox, the life of the sandbox and its Close.  *)

Start(h) ==
    /\ sbx[h].main = "idle"
    /\ sbx' = [sbx EXCEPT ![h].main = "wait", ![h].promise = "get"]
    /\ UNCHANGED <<acquired, poolVars, returnsWG, ret, network, crashed>>

\* ipsPromise.Wait returns the result, or early when the request's context is done.
WaitSlot(h) ==
    /\ sbx[h].main = "wait"
    /\ \/ sbx[h].promise = "added" /\ Main(h, "assign")
       \/ sbx[h].promise = "failed" /\ Main(h, "close")
       \/ "cancel" \in Faults /\ Main(h, "close")
    /\ UNCHANGED <<acquired, poolVars, returnsWG, ret, network, crashed>>

AssignNetwork(h) ==
    /\ sbx[h].main = "assign"
    /\ network' = [network EXCEPT ![sbx[h].slot] = h]
    /\ Main(h, "up")
    /\ UNCHANGED <<acquired, poolVars, returnsWG, ret, crashed>>

\* A later step of the resume fails, or the sandbox ends.
Stop(h) ==
    /\ sbx[h].main \in {"assign", "up"}
    /\ Main(h, "close")
    /\ UNCHANGED <<acquired, poolVars, returnsWG, ret, network, crashed>>

CleanupRun(h) ==
    /\ sbx[h].main = "close"
    /\ sbx' = [sbx EXCEPT ![h].main = "lock", ![h].hasRun = TRUE]
    /\ UNCHANGED <<acquired, poolVars, returnsWG, ret, network, crashed>>

\* The list runs under the mutex, an inline return of the slot included.
CleanupBody(h) ==
    /\ sbx[h].main = "lock"
    /\ IF sbx[h].listed
       THEN /\ ReturnAsync(h, TRUE)
            /\ sbx' = [sbx EXCEPT ![h].main = "body", ![h].listed = FALSE,
                                  ![h].slot = None]
       ELSE Main(h, "ended") /\ UNCHANGED <<ret, returnsWG>>
    /\ UNCHANGED <<acquired, poolVars, network, crashed>>

CleanupDone(h) ==
    /\ sbx[h].main = "body"
    /\ ret[h].tracked \/ ret[h].pc = "none"
    /\ Main(h, "ended")
    /\ UNCHANGED <<acquired, poolVars, returnsWG, ret, network, crashed>>

\* Another sandbox takes the place of one that is gone.
Retire(h) ==
    /\ sbx[h].main = "ended"
    /\ sbx[h].promise \in {"added", "failed"}
    /\ ~sbx[h].listed
    /\ ret[h].pc = "none"
    /\ sbx' = [sbx EXCEPT ![h] = NoSandbox]
    /\ UNCHANGED <<acquired, poolVars, returnsWG, ret, network, crashed>>

-----------------------------------------------------------------------------
(* returnSlot, recycle and tryReuse.                                       *)

\* Map.NetworkReleased: whichever sandbox the IP is routed to.
NetworkReleased(s) == network' = [network EXCEPT ![s] = None]

\* Mutant of ReturnDelay: the release is not notified before the reuse.
ReturnDelay_KeepsRoute(h) ==
    /\ ret[h].pc = "delay"
    /\ ReturnGoto(h, "reset")
    /\ UNCHANGED <<acquired, poolVars, returnsWG, sbx, network, crashed>>

ReturnDelay(h) ==
    /\ ret[h].pc = "delay"
    /\ \/ done /\ ReturnGoto(h, "clean")
       \/ ReturnGoto(h, "notify")
    /\ UNCHANGED <<acquired, poolVars, returnsWG, sbx, network, crashed>>

ReturnNotify(h) ==
    /\ ret[h].pc = "notify"
    /\ ret' = [ret EXCEPT ![h].pc = "reset", ![h].notify = FALSE]
    /\ IF ret[h].notify THEN NetworkReleased(ret[h].slot) ELSE UNCHANGED network
    /\ UNCHANGED <<acquired, poolVars, returnsWG, sbx, crashed>>

ReturnReset(h) ==
    /\ ret[h].pc = "reset"
    /\ \/ ReturnGoto(h, "reuse")
       \/ "reset" \in Faults /\ ReturnGoto(h, "clean")
    /\ UNCHANGED <<acquired, poolVars, returnsWG, sbx, network, crashed>>

\* Mutant of ReturnReuse: a slot that finds the channel full is dropped.
ReturnReuse_DropsWhenFull(h) ==
    /\ ret[h].pc = "reuse"
    /\ \/ /\ Len(reusedSlots) < ReusedSize
          /\ reusedSlots' = Append(reusedSlots, ret[h].slot)
          /\ ReturnGoto(h, "end")
       \/ (closed \/ done) /\ ReturnGoto(h, "clean") /\ UNCHANGED reusedSlots
       \/ Len(reusedSlots) = ReusedSize /\ ReturnGoto(h, "end") /\ UNCHANGED reusedSlots
    /\ UNCHANGED <<acquired, newSlots, newClosed, done, closed, returnsWG, pop,
                   sbx, network, closer, crashed>>

\* Mutant of ReturnReuse: closed is not looked at.
ReturnReuse_Unlocked(h) ==
    /\ ret[h].pc = "reuse"
    /\ \/ /\ Len(reusedSlots) < ReusedSize
          /\ reusedSlots' = Append(reusedSlots, ret[h].slot)
          /\ ReturnGoto(h, "end")
       \/ /\ done \/ Len(reusedSlots) = ReusedSize
          /\ ReturnGoto(h, "clean")
          /\ UNCHANGED reusedSlots
    /\ UNCHANGED <<acquired, newSlots, newClosed, done, closed, returnsWG, pop,
                   sbx, network, closer, crashed>>

\* tryReuse, under the read lock: default only when the channel is full.
ReturnReuse(h) ==
    /\ ret[h].pc = "reuse"
    /\ \/ /\ ~closed
          /\ Len(reusedSlots) < ReusedSize
          /\ reusedSlots' = Append(reusedSlots, ret[h].slot)
          /\ ReturnGoto(h, "end")
       \/ /\ closed \/ done \/ Len(reusedSlots) = ReusedSize
          /\ ReturnGoto(h, "clean")
          /\ UNCHANGED reusedSlots
    /\ UNCHANGED <<acquired, newSlots, newClosed, done, closed, returnsWG, pop,
                   sbx, network, closer, crashed>>

ReturnClean(h) ==
    /\ ret[h].pc = "clean"
    /\ Cleanup(ret[h].slot)
    /\ ReturnGoto(h, "end")
    /\ UNCHANGED <<poolVars, returnsWG, sbx, network, crashed>>

\* The deferred notification, unless it was given, and returnsWG.Done.
ReturnEnd(h) ==
    /\ ret[h].pc = "end"
    /\ IF ret[h].notify THEN NetworkReleased(ret[h].slot) ELSE UNCHANGED network
    /\ returnsWG' = IF ret[h].tracked THEN returnsWG - 1 ELSE returnsWG
    /\ ret' = [ret EXCEPT ![h] = NoReturn]
    /\ UNCHANGED <<acquired, poolVars, sbx, crashed>>

-----------------------------------------------------------------------------
(* Close.                                                                  *)

CloseBegin ==
    /\ closer = "off"
    /\ done' = TRUE
    /\ closer' = "lock"
    /\ UNCHANGED <<acquired, newSlots, newClosed, reusedSlots, closed, returnsWG,
                   pop, sbx, ret, network, crashed>>

CloseLock ==
    /\ closer = "lock"
    /\ closed' = TRUE
    /\ closer' = "wait"
    /\ UNCHANGED <<acquired, newSlots, newClosed, reusedSlots, done, returnsWG,
                   pop, sbx, ret, network, crashed>>

CloseWait ==
    /\ closer = "wait"
    /\ returnsWG = 0
    /\ closer' = "drainNew"
    /\ UNCHANGED <<acquired, newSlots, newClosed, reusedSlots, done, closed,
                   returnsWG, pop, sbx, ret, network, crashed>>

\* range over newSlots ends when Populate has closed it.
CloseDrainNew ==
    /\ closer = "drainNew"
    /\ \/ /\ newSlots # <<>>
          /\ Cleanup(Head(newSlots))
          /\ newSlots' = Tail(newSlots)
          /\ UNCHANGED closer
       \/ /\ newSlots = <<>> /\ newClosed
          /\ closer' = "drainReused"
          /\ UNCHANGED <<acquired, newSlots>>
    /\ UNCHANGED <<newClosed, reusedSlots, done, closed, returnsWG, pop, sbx, ret,
                   network, crashed>>

CloseDrainReused ==
    /\ closer = "drainReused"
    /\ \/ /\ reusedSlots # <<>>
          /\ Cleanup(Head(reusedSlots))
          /\ reusedSlots' = Tail(reusedSlots)
          /\ UNCHANGED closer
       \/ reusedSlots = <<>> /\ closer' = "closed" /\ UNCHANGED <<acquired, reusedSlots>>
    /\ UNCHANGED <<newSlots, newClosed, done, closed, returnsWG, pop, sbx, ret,
                   network, crashed>>

Close == CloseBegin \/ CloseLock \/ CloseWait \/ CloseDrainNew \/ CloseDrainReused

-----------------------------------------------------------------------------
PromiseStep(h) == GetReused(h) \/ GetNew(h) \/ Configure(h) \/ CleanupAdd(h) \/ CleanupAppend(h)

MainStep(h) == WaitSlot(h) \/ AssignNetwork(h) \/ CleanupRun(h) \/ CleanupBody(h) \/ CleanupDone(h)

ReturnStep(h) == ReturnDelay(h) \/ ReturnNotify(h) \/ ReturnReset(h) \/ ReturnReuse(h)
                 \/ ReturnClean(h) \/ ReturnEnd(h)

\* A panic ends the process.
Next ==
    /\ ~crashed
    /\ \/ Populate
       \/ Close
       \/ \E h \in Sandboxes : \/ Start(h) \/ Stop(h) \/ Retire(h)
                               \/ PromiseStep(h) \/ MainStep(h) \/ ReturnStep(h)

Spec == Init /\ [][Next]_vars

\* Goroutines that can run do. Nothing makes Close be called, a context be
\* cancelled or a sandbox start or end.
Fairness ==
    /\ WF_vars(/\ ~crashed
               /\ PopulateAcquire \/ PopulateCreate \/ PopulateSend \/ (done /\ PopulateStop))
    /\ WF_vars(~crashed /\ (CloseLock \/ CloseWait \/ CloseDrainNew \/ CloseDrainReused))
    /\ \A h \in Sandboxes : /\ WF_vars(~crashed /\ PromiseStep(h))
                            /\ WF_vars(~crashed /\ MainStep(h))
                            /\ WF_vars(~crashed /\ ReturnStep(h))

FairSpec == Spec /\ Fairness

-----------------------------------------------------------------------------
(* Properties.                                                             *)

\* Every variable has its type; the channels keep to their capacities.
TypeOK ==
    /\ acquired \subseteq Slots
    /\ newSlots \in Seq(Slots) /\ Len(newSlots) <= NewSize
    /\ reusedSlots \in Seq(Slots) /\ Len(reusedSlots) <= ReusedSize
    /\ newClosed \in BOOLEAN /\ done \in BOOLEAN /\ closed \in BOOLEAN
    /\ returnsWG \in Nat
    /\ pop \in [pc : {"loop", "create", "send", "stopped"}, slot : Slots \cup {None}]
    /\ sbx \in [Sandboxes -> Sandbox]
    /\ ret \in [Sandboxes -> Return]
    /\ network \in [Slots -> Sandboxes \cup {None}]
    /\ closer \in {"off", "lock", "wait", "drainNew", "drainReused", "closed"}
    /\ crashed \in BOOLEAN

Owns(h, s) == ret[h].slot = s /\ ret[h].pc \in ReturnPC \ {"none", "end"}

Owners(s) ==
    {<<"populate", x>> : x \in {x \in {pop} : x.slot = s}}
        \cup {<<"new", i>> : i \in {i \in DOMAIN newSlots : newSlots[i] = s}}
        \cup {<<"reused", i>> : i \in {i \in DOMAIN reusedSlots : reusedSlots[i] = s}}
        \cup {<<"sandbox", h>> : h \in {h \in Sandboxes : sbx[h].slot = s}}
        \cup {<<"return", h>> : h \in {h \in Sandboxes : Owns(h, s)}}

\* An acquired slot is in exactly one place: Populate, one of the two channels,
\* a sandbox or a return. No slot is handed out twice, released under a holder
\* or dropped by the pool, whatever the order of Get, ReturnAsync and Close. A
\* sandbox counts as the place of its slot until it has handed it to ReturnAsync,
\* which a sandbox that is AddedTooLate never does.
SingleOwner ==
    \A s \in Slots : Cardinality(Owners(s)) = IF s \in acquired THEN 1 ELSE 0

\* While the pool is open, the IP of a sandbox that is up is routed to that
\* sandbox and the IP of a slot that waits in the pool to none: the release of
\* the previous holder is notified before the slot can be handed out again.
RoutesToHolder ==
    ~done =>
        /\ \A h \in Sandboxes : sbx[h].main = "up" => network[sbx[h].slot] = h
        /\ \A i \in DOMAIN newSlots : network[newSlots[i]] = None
        /\ \A i \in DOMAIN reusedSlots : network[reusedSlots[i]] = None

\* Cleanup.Add found hasRun unset and appended the return only after Cleanup.Run
\* had gone through the list: nothing runs it any more and the slot is lost.
AddedTooLate(h) == sbx[h].main = "ended" /\ sbx[h].listed

\* The sandbox has the slot and a step of it is still to hand it to ReturnAsync.
ToReturn(h) == sbx[h].main # "ended" \/ sbx[h].promise \in {"configure", "add", "append"}

\* When Close returns, an acquired slot is with a sandbox that has yet to return
\* it, in a return that its caller runs inline, or lost by the race of Cleanup.Add
\* with Cleanup.Run: every slot handed to ReturnAsync before is released, in flight
\* or by the drain, and no slot enters the pool later.
ClosedPoolIsEmpty ==
    closer = "closed" =>
        \A s \in acquired : \E h \in Sandboxes :
            \/ sbx[h].slot = s /\ (ToReturn(h) \/ AddedTooLate(h))
            \/ Owns(h, s) /\ ~ret[h].tracked

\* Close returns, whatever returns are in flight and wherever Populate is, unless
\* the process has died of the nil slot that Get takes from newSlots once Populate
\* has closed it and it is empty.
CloseReturns == closer # "off" ~> (closer = "closed" \/ crashed)

-----------------------------------------------------------------------------
(* The inductive invariant.                                                *)

Returning(h) == ret[h].pc \in ReturnPC \ {"none", "end"}

Tracked == {h \in Sandboxes : ret[h].tracked}

\* Which threads have a slot, by where they are: Populate between its Acquire and
\* its send; a sandbox from its Get until the slot is handed to ReturnAsync, which
\* happens once, so that no return is overwritten by another.
SlotAtPC ==
    /\ pop.slot \in Slots <=> pop.pc \in {"create", "send"}
    /\ \A h \in Sandboxes :
         /\ sbx[h].promise \in {"idle", "get", "getNew"} =>
              sbx[h].slot = None /\ ~sbx[h].listed /\ ret[h].pc = "none"
         /\ sbx[h].promise \in {"configure", "add", "append"} =>
              sbx[h].slot \in Slots /\ ~sbx[h].listed /\ ret[h].pc = "none"
         /\ sbx[h].promise = "failed" => sbx[h].slot = None /\ ~sbx[h].listed
         /\ sbx[h].promise = "added" =>
              /\ sbx[h].listed <=> sbx[h].slot \in Slots
              /\ sbx[h].listed => ret[h].pc = "none"
              /\ ~sbx[h].hasRun => sbx[h].listed
         /\ sbx[h].main = "idle" => sbx[h].promise = "idle"
         /\ sbx[h].main \in {"assign", "up"} => sbx[h].promise = "added"
         /\ sbx[h].main \in {"idle", "wait", "assign", "up", "close"} => ~sbx[h].hasRun
         /\ Returning(h) => ret[h].slot \in Slots

\* No slot is in two places, and the acquired slots are those in some place.
SlotsApart ==
    /\ IsInjective(newSlots) /\ IsInjective(reusedSlots)
    /\ Range(newSlots) \cap Range(reusedSlots) = {}
    /\ pop.slot \notin Range(newSlots) \cup Range(reusedSlots)
    /\ \A h \in Sandboxes :
         /\ sbx[h].slot \notin Range(newSlots) \cup Range(reusedSlots)
         /\ sbx[h].slot \in Slots => sbx[h].slot # pop.slot
         /\ Returning(h) => /\ ret[h].slot \notin Range(newSlots) \cup Range(reusedSlots)
                            /\ ret[h].slot # pop.slot
    /\ \A g, h \in Sandboxes :
         /\ sbx[g].slot \in Slots /\ sbx[g].slot = sbx[h].slot => g = h
         /\ Returning(g) /\ Returning(h) /\ ret[g].slot = ret[h].slot => g = h
         /\ Returning(g) => ret[g].slot # sbx[h].slot

\* The acquired slots are those that are somewhere.
SlotsKept ==
    \A s \in Slots : s \in acquired <=>
        \/ s = pop.slot \/ s \in Range(newSlots) \cup Range(reusedSlots)
        \/ \E h \in Sandboxes : s = sbx[h].slot \/ (Returning(h) /\ s = ret[h].slot)

\* A sandbox that has the slot, or whose return has yet to notify the release.
MayRoute(h, s) ==
    \/ sbx[h].slot = s /\ sbx[h].listed /\ sbx[h].main \in {"up", "close", "lock"}
    \/ ret[h].slot = s /\ ret[h].pc \in {"delay", "notify"} /\ ret[h].notify

\* While the pool is open, an IP is routed to no other sandbox, and to the one
\* that is up; a return behind its notification has none to give.
RoutesKnown ==
    ~done =>
        /\ \A s \in Slots, h \in Sandboxes : network[s] = h => MayRoute(h, s)
        /\ \A h \in Sandboxes :
             /\ sbx[h].main = "up" => network[sbx[h].slot] = h
             /\ ret[h].pc \in {"reset", "reuse", "clean", "end"} => ~ret[h].notify

\* The WaitGroup counts the returns that Close waits for; none starts after the
\* flag is set.
ReturnsCounted ==
    /\ returnsWG = Cardinality(Tracked)
    /\ \A h \in Sandboxes : ret[h].pc = "none" => ~ret[h].tracked

\* How far Close has come, and what it relies on later.
ClosesInOrder ==
    /\ closed => done
    /\ closer # "off" => done
    /\ closer \notin {"off", "lock"} => closed
    /\ closer \in {"drainNew", "drainReused", "closed"} => Tracked = {}
    /\ newClosed => pop.pc = "stopped"
    /\ closer \in {"drainReused", "closed"} => newClosed /\ newSlots = <<>>
    /\ closer = "closed" => reusedSlots = <<>>

\* The types, and what the threads rely on between two of their steps.
PoolInv ==
    /\ TypeOK /\ SlotAtPC /\ SlotsApart /\ SlotsKept
    /\ RoutesKnown /\ ReturnsCounted /\ ClosesInOrder
=============================================================================
