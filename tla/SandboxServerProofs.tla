------------------------- MODULE SandboxServerProofs ------------------------
(***************************************************************************)
(* Theorems about the sandbox service of a node, for any number of sandbox *)
(* IDs, lifecycles and calls and any limits. The lemmas X-Step preserve    *)
(* the conjuncts of ServerInv, one step per action.                        *)
(*                                                                         *)
(* NoDuplicate is what the API's reservation gives (SandboxReservations):  *)
(* no Create for a sandbox that the node still runs or creates.            *)
(***************************************************************************)
EXTENDS SandboxServer, TLAPS, FiniteSetTheorems

NoDuplicate == "duplicate" \notin Faults

\* A step of one call, and a step that changes one lifecycle.
Frame(c) == \A d \in Calls : d # c => call'[d] = call[d]

LcFrame(l) == \A k \in Lifecycles : k # l => lc'[k] = lc[k]

\* The call goes to the step p.
Moves(c, p) ==
    /\ call'[c] # None /\ call'[c].pc = p /\ call'[c].op = call[c].op
    /\ call'[c].id = call[c].id /\ call'[c].old = call[c].old

\* The fields of a lifecycle after a step.
Becomes(l, vm, stopping, close, upload) ==
    /\ lc'[l].id = lc[l].id /\ lc'[l].vm = vm /\ (lc'[l].stopping <=> stopping)
    /\ lc'[l].close = close /\ lc'[l].upload = upload

\* The sandbox i has the lifecycle l, or none, on the map.
LiveSet(i, l) == live'[i] = l /\ \A j \in Ids : j # i => live'[j] = live[j]

LiveTypes == live \in [Ids -> Lifecycles \cup {None}]
CallTypes == call \in [Calls -> Call \cup {None}]
LcTypes == lc \in [Lifecycles -> Lifecycle]

\* A call that goes to another step keeps everything else.
LEMMA GotoFrame ==
  ASSUME CallTypes, NEW c \in Calls, call[c] # None,
         NEW l \in PC, Goto(c, l)
  PROVE  /\ CallTypes'
         /\ Moves(c, l) /\ call'[c].new = call[c].new
         /\ Frame(c)
<1>1. /\ call'[c] = [call[c] EXCEPT !.pc = l] /\ call[c] \in Call /\ Frame(c)
      /\ call' = [call EXCEPT ![c] = call'[c]]
  BY DEF Goto, Frame, CallTypes
<1>2. call'[c] \in Call
  BY <1>1 DEF Call
<1>3. call'[c] # None
  BY <1>2, ServerAssumption
<1>4. CallTypes'
  BY <1>1, <1>2 DEF CallTypes
<1> QED
  BY <1>1, <1>3, <1>4 DEF Call, Moves

\* A call that returns is forgotten.
LEMMA ReturnFrame ==
  ASSUME CallTypes, NEW c \in Calls, Return(c)
  PROVE  /\ CallTypes'
         /\ call'[c] = None
         /\ Frame(c)
  BY DEF Return, Frame, CallTypes

\* A call that has resumed a VM holds its lifecycle.
LEMMA InsertFrame ==
  ASSUME CallTypes, NEW c \in Calls, call[c] # None, NEW l \in Lifecycles,
         call' = [call EXCEPT ![c].new = l, ![c].pc = "insert"]
  PROVE  /\ CallTypes'
         /\ Moves(c, "insert") /\ call'[c].new = l
         /\ Frame(c)
<1>1. /\ call'[c] = [call[c] EXCEPT !.new = l, !.pc = "insert"] /\ call[c] \in Call /\ Frame(c)
      /\ call' = [call EXCEPT ![c] = call'[c]]
  BY DEF Frame, CallTypes
<1>2. call'[c] \in Call
  BY <1>1 DEF Call, PC, CallTypes
<1>3. call'[c] # None
  BY <1>2, ServerAssumption
<1>4. CallTypes'
  BY <1>1, <1>2 DEF CallTypes
<1> QED
  BY <1>1, <1>3, <1>4 DEF Moves, Call, CallTypes

\* A call that begins.
LEMMA BeginFrame ==
  ASSUME CallTypes, NEW c \in Calls, NEW r \in Call,
         call' = [call EXCEPT ![c] = r]
  PROVE  /\ CallTypes'
         /\ call'[c] = r /\ call'[c] # None
         /\ Frame(c)
  BY ServerAssumption DEF Frame, CallTypes

\* One more call holds a permit.
LEMMA OneMorePermit ==
  ASSUME PermitsBalance, NEW c \in Calls, ~Permit(c), Permit(c)', Frame(c), used' = used + 1
  PROVE  PermitsBalance'
<1> DEFINE P == {d \in Calls : Permit(d)}
<1>1. {d \in Calls : Permit(d)'} = P \cup {c}
  BY DEF Frame, Permit
<1>2. IsFiniteSet(P) /\ c \notin P
  BY ServerAssumption, FS_Subset
<1>3. Cardinality(P \cup {c}) = Cardinality(P) + 1
  BY <1>2, FS_AddElement
<1> QED
  BY <1>1, <1>3 DEF PermitsBalance

\* A call with a permit: there is one to give back.
LEMMA OnePermitLess ==
  ASSUME PermitsBalance, NEW c \in Calls, Permit(c)
  PROVE  /\ used - 1 \in Nat
         /\ (~Permit(c)' /\ Frame(c) /\ used' = used - 1) => PermitsBalance'
<1> DEFINE P == {d \in Calls : Permit(d)}
<1>1. IsFiniteSet(P) /\ c \in P /\ IsFiniteSet(P \ {c})
  BY ServerAssumption, FS_Subset
<1>2. Cardinality(P \ {c}) = Cardinality(P) - 1 /\ Cardinality(P \ {c}) \in Nat /\ Cardinality(P) \in Nat
  BY <1>1, FS_RemoveElement, FS_CardinalityType
<1>3. ASSUME ~Permit(c)', Frame(c) PROVE {d \in Calls : Permit(d)'} = P \ {c}
  BY <1>3 DEF Frame, Permit
<1> QED
  BY <1>2, <1>3 DEF PermitsBalance

\* The other steps of a call.
LEMMA SamePermits ==
  ASSUME PermitsBalance, NEW c \in Calls, Permit(c)' <=> Permit(c), Frame(c), used' = used
  PROVE  PermitsBalance'
<1>1. {d \in Calls : Permit(d)'} = {d \in Calls : Permit(d)}
  BY DEF Frame, Permit
<1> QED
  BY <1>1 DEF PermitsBalance

\* A call that returns gives its permit back.
LEMMA ReturnPermit ==
  ASSUME TypeOK, PermitsBalance, NEW c \in Calls, Return(c), Release(c)
  PROVE  PermitsBalance' /\ used' \in Nat
<1>1. ~Permit(c)' /\ Frame(c)
  BY ReturnFrame DEF TypeOK, CallTypes, Permit
<1>2. CASE Permit(c)
  BY <1>1, <1>2, OnePermitLess DEF Release
<1>3. CASE ~Permit(c)
  BY <1>1, <1>3, SamePermits DEF Release, TypeOK
<1> QED
  BY <1>2, <1>3

\* The fields of a lifecycle that a step changes.
LEMMA LcUpdate ==
  ASSUME LcTypes, NEW l \in Lifecycles, NEW r \in Lifecycle, lc' = [lc EXCEPT ![l] = r]
  PROVE  LcTypes' /\ lc'[l] = r /\ LcFrame(l)
  BY DEF LcTypes, LcFrame

\* Free names no VM.
LEMMA FreeType == Free \in Lifecycle
  BY DEF Free, Lifecycle

\* The fields that steps change, one or two at a time.
LEMMA LcFields ==
  ASSUME NEW r \in Lifecycle
  PROVE  /\ [r EXCEPT !.stopping = TRUE] \in Lifecycle
         /\ [r EXCEPT !.vm = "dead"] \in Lifecycle
         /\ [r EXCEPT !.vm = "paused", !.upload = "registered"] \in Lifecycle
         /\ [r EXCEPT !.vm = IF @ = "up" THEN "paused" ELSE @] \in Lifecycle
         /\ [r EXCEPT !.stopping = FALSE, !.vm = "dead"] \in Lifecycle
         /\ \A p \in {"none", "wait", "cleaned"} : [r EXCEPT !.close = p] \in Lifecycle
         /\ \A u \in {"none", "flight"} : [r EXCEPT !.upload = u] \in Lifecycle
         /\ \A i \in Ids : [Free EXCEPT !.id = i, !.vm = "up"] \in Lifecycle
<1>1. /\ [r EXCEPT !.stopping = TRUE] \in Lifecycle
      /\ [r EXCEPT !.stopping = FALSE, !.vm = "dead"] \in Lifecycle
  BY DEF Lifecycle
<1>2. /\ [r EXCEPT !.vm = "dead"] \in Lifecycle
      /\ [r EXCEPT !.vm = "paused", !.upload = "registered"] \in Lifecycle
  BY DEF Lifecycle
<1>3. [r EXCEPT !.vm = IF @ = "up" THEN "paused" ELSE @] \in Lifecycle
  BY DEF Lifecycle
<1>4. /\ \A p \in {"none", "wait", "cleaned"} : [r EXCEPT !.close = p] \in Lifecycle
      /\ \A u \in {"none", "flight"} : [r EXCEPT !.upload = u] \in Lifecycle
  BY DEF Lifecycle
<1>5. \A i \in Ids : [Free EXCEPT !.id = i, !.vm = "up"] \in Lifecycle
  BY DEF Lifecycle, Free
<1> QED
  BY <1>1, <1>2, <1>3, <1>4, <1>5

\* A call gets a permit or gives up.
LEMMA AcquireEffect ==
  ASSUME TypeOK, CallAtPC, NEW c \in Calls, Acquire(c)
  PROVE  /\ call[c] # None /\ call[c].pc = "acquire" /\ Frame(c) /\ CallTypes'
         /\ UNCHANGED <<live, lifecycles, lc, limit, phase, forced>>
         /\ \/ /\ Moves(c, IF call[c].op = "create" THEN "resume" ELSE "mark")
               /\ call'[c].new = call[c].new /\ used' = used + 1
            \/ call'[c] = None /\ UNCHANGED used
<1>1. CallTypes /\ call[c] # None
  BY DEF TypeOK, CallTypes, Acquire, At
<1>2. CASE Return(c) /\ UNCHANGED used
  BY <1>1, <1>2, ReturnFrame DEF Acquire, At
<1>3. CASE Goto(c, IF call[c].op = "create" THEN "resume" ELSE "mark") /\ used' = used + 1
  BY <1>1, <1>3, GotoFrame DEF Acquire, At, PC
<1> QED
  BY <1>2, <1>3 DEF Acquire

\* A call takes its sandbox off the map, or returns when it is not there.
LEMMA MarkEffect ==
  ASSUME TypeOK, CallAtPC, NEW c \in Calls, Mark(c)
  PROVE  /\ call[c] # None /\ call[c].pc = "mark" /\ Frame(c) /\ CallTypes'
         /\ call[c].id \in Ids /\ LiveTypes'
         /\ UNCHANGED <<lifecycles, lc, limit, phase, forced>>
         /\ \/ /\ live[call[c].id] = call[c].old /\ LiveSet(call[c].id, None)
               /\ Moves(c, IF call[c].op = "delete" THEN "stop" ELSE "snapshot")
               /\ call'[c].new = call[c].new /\ UNCHANGED used
            \/ Return(c) /\ call'[c] = None /\ Release(c) /\ UNCHANGED live
<1>1. /\ CallTypes /\ call[c] # None /\ call[c].pc = "mark"
      /\ lc[call[c].old].id = call[c].id /\ call[c].id \in Ids /\ LiveTypes
  BY DEF TypeOK, CallTypes, LiveTypes, Mark, At, CallAtPC, Knows, Call
<1>2. CASE live[call[c].id] = call[c].old
  <2>1. Goto(c, IF call[c].op = "delete" THEN "stop" ELSE "snapshot") /\ UNCHANGED used
    BY <1>2 DEF Mark
  <2>2. live' = [live EXCEPT ![call[c].id] = None]
    BY <1>1, <1>2 DEF Mark, MarkStopping
  <2>3. LiveSet(call[c].id, None) /\ LiveTypes'
    BY <1>1, <2>2 DEF LiveSet, LiveTypes
  <2> QED
    BY <1>1, <1>2, <2>1, <2>3, GotoFrame DEF Mark, PC
<1>3. CASE live[call[c].id] # call[c].old
  BY <1>1, <1>3, ReturnFrame DEF Mark, MarkStopping, LiveTypes
<1> QED
  BY <1>2, <1>3

\* A call leaves its old lifecycle to a goroutine that stops it.
LEMMA StopOldEffect ==
  ASSUME TypeOK, CallAtPC, NEW c \in Calls, StopOld(c)
  PROVE  /\ call[c] # None /\ call[c].pc = "stop" /\ Frame(c) /\ CallTypes'
         /\ call[c].old \in Lifecycles /\ LcFrame(call[c].old) /\ LcTypes'
         /\ Becomes(call[c].old, lc[call[c].old].vm,
                    TRUE, lc[call[c].old].close, lc[call[c].old].upload)
         /\ call'[c] = None /\ Return(c) /\ Release(c)
         /\ UNCHANGED <<live, lifecycles, limit, phase, forced>>
<1>1. /\ CallTypes /\ LcTypes /\ call[c] # None /\ call[c].pc = "stop"
      /\ call[c].old \in Lifecycles
  BY DEF TypeOK, CallTypes, LcTypes, StopOld, At, CallAtPC, Knows, Call, Op
<1>2. [lc[call[c].old] EXCEPT !.stopping = TRUE] \in Lifecycle
  BY <1>1, LcFields DEF LcTypes
<1>3. lc' = [lc EXCEPT ![call[c].old] = [lc[call[c].old] EXCEPT !.stopping = TRUE]]
  BY DEF StopOld
<1>4. Becomes(call[c].old, lc[call[c].old].vm, TRUE, lc[call[c].old].close, lc[call[c].old].upload)
  BY <1>1 DEF StopOld, Becomes, LcTypes, Lifecycle
<1>5. LcTypes' /\ LcFrame(call[c].old)
  BY <1>1, <1>2, <1>3, LcUpdate
<1> QED
  BY <1>1, <1>4, <1>5, ReturnFrame DEF StopOld

\* A VM is paused, and its snapshot registered unless that failed.
LEMMA SnapshotEffect ==
  ASSUME TypeOK, CallAtPC, NEW c \in Calls, Snapshot(c)
  PROVE  /\ call[c] # None /\ call[c].pc = "snapshot" /\ Frame(c) /\ CallTypes'
         /\ call[c].old \in Lifecycles /\ LcFrame(call[c].old) /\ LcTypes'
         /\ UNCHANGED <<live, lifecycles, used, limit, phase, forced>>
         /\ call'[c].new = call[c].new
         /\ \/ /\ Becomes(call[c].old, "paused",
                          lc[call[c].old].stopping, lc[call[c].old].close, "registered")
               /\ lc[call[c].old].vm = "up"
               /\ Moves(c, IF call[c].op = "pause" THEN "upload" ELSE "resume")
            \/ /\ Becomes(call[c].old, IF lc[call[c].old].vm = "up" THEN "paused" ELSE lc[call[c].old].vm,
                          lc[call[c].old].stopping, lc[call[c].old].close, lc[call[c].old].upload)
               /\ Moves(c, "stop")
<1> DEFINE l == call[c].old
<1>1. /\ CallTypes /\ LcTypes /\ call[c] # None /\ call[c].pc = "snapshot"
      /\ l \in Lifecycles
  BY DEF TypeOK, CallTypes, LcTypes, Snapshot, At, CallAtPC, Knows, Call, Op
<1>2. /\ [lc[l] EXCEPT !.vm = "paused", !.upload = "registered"] \in Lifecycle
      /\ [lc[l] EXCEPT !.vm = IF @ = "up" THEN "paused" ELSE @] \in Lifecycle
  <2>1. lc[l] \in Lifecycle
    BY <1>1 DEF LcTypes
  <2> QED
    BY <2>1, LcFields
<1>3. CASE /\ lc[l].vm = "up"
           /\ lc' = [lc EXCEPT ![l].vm = "paused", ![l].upload = "registered"]
           /\ Goto(c, IF call[c].op = "pause" THEN "upload" ELSE "resume")
  <2>1. lc' = [lc EXCEPT ![l] = [lc[l] EXCEPT !.vm = "paused", !.upload = "registered"]]
    BY <1>1, <1>3 DEF LcTypes
  <2> HIDE DEF l
  <2>2. LcTypes' /\ LcFrame(l)
    BY <1>1, <1>2, <2>1, LcUpdate
  <2>4. Becomes(l, "paused", lc[l].stopping, lc[l].close, "registered")
    BY <1>1, <1>3 DEF Becomes, LcTypes, Lifecycle
  <2>3. /\ Frame(c) /\ CallTypes' /\ call'[c].new = call[c].new
        /\ Moves(c, IF call[c].op = "pause" THEN "upload" ELSE "resume")
    BY <1>1, <1>3, GotoFrame DEF PC
  <2> QED
    BY <1>1, <1>3, <2>2, <2>3, <2>4 DEF Snapshot, l
<1>4. CASE /\ lc' = [lc EXCEPT ![l].vm = IF @ = "up" THEN "paused" ELSE @]
           /\ Goto(c, "stop")
  <2>1. lc' = [lc EXCEPT ![l] = [lc[l] EXCEPT !.vm = IF @ = "up" THEN "paused" ELSE @]]
    BY <1>1, <1>4 DEF LcTypes
  <2> HIDE DEF l
  <2>2. LcTypes' /\ LcFrame(l)
    BY <1>1, <1>2, <2>1, LcUpdate
  <2>4. Becomes(l, IF lc[l].vm = "up" THEN "paused" ELSE lc[l].vm,
                lc[l].stopping, lc[l].close, lc[l].upload)
    BY <1>1, <1>4 DEF Becomes, LcTypes, Lifecycle
  <2>3. Frame(c) /\ CallTypes' /\ call'[c].new = call[c].new /\ Moves(c, "stop")
    BY <1>1, <1>4, GotoFrame DEF PC
  <2> QED
    BY <1>1, <2>2, <2>3, <2>4 DEF Snapshot, l
<1> QED
  BY <1>3, <1>4 DEF Snapshot

\* A VM is resumed under a lifecycle that nothing refers to, or it is not.
LEMMA ResumeEffect ==
  ASSUME TypeOK, CallAtPC, NEW c \in Calls, Resume(c)
  PROVE  /\ call[c] # None /\ call[c].pc = "resume" /\ Frame(c) /\ CallTypes' /\ LcTypes'
         /\ UNCHANGED <<live, lifecycles, limit, phase, forced>>
         /\ \/ \E l \in Lifecycles :
                 /\ IsFree(l) /\ LcFrame(l)
                 /\ lc'[l].id = call[c].id /\ lc'[l].vm = "up" /\ ~lc'[l].stopping
                 /\ lc'[l].close = "none" /\ lc'[l].upload = "none"
                 /\ Moves(c, "insert") /\ call'[c].new = l
                 /\ UNCHANGED used
            \/ call[c].op = "create" /\ call'[c] = None /\ Return(c) /\ Release(c) /\ UNCHANGED lc
            \/ /\ call[c].op = "checkpoint"
               /\ Moves(c, "stop") /\ call'[c].new = call[c].new
               /\ UNCHANGED <<lc, used>>
<1>1. CallTypes /\ LcTypes /\ call[c] # None /\ call[c].pc = "resume" /\ call[c].id \in Ids
  BY DEF TypeOK, CallTypes, LcTypes, Resume, At, Call
<1>2. ASSUME NEW l \in Lifecycles, IsFree(l),
             lc' = [lc EXCEPT ![l] = [Free EXCEPT !.id = call[c].id, !.vm = "up"]],
             call' = [call EXCEPT ![c].new = l, ![c].pc = "insert"], UNCHANGED used
      PROVE  /\ Frame(c) /\ CallTypes' /\ LcTypes' /\ IsFree(l) /\ LcFrame(l)
             /\ lc'[l].id = call[c].id /\ lc'[l].vm = "up" /\ ~lc'[l].stopping
             /\ lc'[l].close = "none" /\ lc'[l].upload = "none"
             /\ Moves(c, "insert") /\ call'[c].new = l /\ UNCHANGED used
  <2>1. [Free EXCEPT !.id = call[c].id, !.vm = "up"] \in Lifecycle
    BY <1>1, FreeType, LcFields
  <2>2. /\ lc'[l] = [Free EXCEPT !.id = call[c].id, !.vm = "up"] /\ LcTypes' /\ LcFrame(l)
        /\ Frame(c) /\ CallTypes' /\ Moves(c, "insert") /\ call'[c].new = l
    BY <1>1, <1>2, <2>1, LcUpdate, InsertFrame
  <2>3. /\ lc'[l].id = call[c].id /\ lc'[l].vm = "up"
        /\ lc'[l].close = "none" /\ lc'[l].upload = "none"
    BY <1>1, <1>2 DEF Free, LcTypes, Lifecycle
  <2>4. ~lc'[l].stopping
    BY <1>1, <1>2 DEF Free, LcTypes, Lifecycle
  <2> QED
    BY <1>2, <2>2, <2>3, <2>4
<1>3. CASE call[c].op = "create" /\ Return(c) /\ Release(c) /\ UNCHANGED lc
  BY <1>1, <1>3, ReturnFrame DEF Resume, LcTypes
<1>4. CASE call[c].op = "checkpoint" /\ Goto(c, "stop") /\ UNCHANGED <<lc, used>>
  BY <1>1, <1>4, GotoFrame DEF Resume, LcTypes, PC
<1> QED
  BY <1>1, <1>2, <1>3, <1>4 DEF Resume

\* The new lifecycle is live unless there is another one.
LEMMA MarkRunningEffect ==
  ASSUME TypeOK, CallAtPC, NEW c \in Calls, MarkRunning(c)
  PROVE  /\ call[c] # None /\ call[c].pc = "insert" /\ Frame(c) /\ CallTypes' /\ LiveTypes'
         /\ UNCHANGED <<lifecycles, lc, used, limit, phase, forced>>
         /\ call[c].id \in Ids /\ call[c].new \in Lifecycles /\ call'[c].new = call[c].new
         /\ \/ /\ live[call[c].id] = None /\ LiveSet(call[c].id, call[c].new)
               /\ Moves(c, "track")
            \/ live[call[c].id] # None /\ UNCHANGED live /\ Moves(c, "setup")
<1>1. /\ CallTypes /\ call[c] # None /\ call[c].pc = "insert" /\ call[c].id \in Ids
      /\ call[c].new \in Lifecycles /\ LiveTypes
  BY DEF TypeOK, LiveTypes, CallTypes, MarkRunning, At, Call, CallAtPC, Knows
<1>2. CASE Goto(c, "track") /\ live[call[c].id] = None
  BY <1>1, <1>2, GotoFrame DEF MarkRunning, PC, LiveSet, LiveTypes
<1>3. CASE Goto(c, "setup") /\ live[call[c].id] # None
  BY <1>1, <1>3, GotoFrame DEF MarkRunning, PC, LiveTypes
<1> QED
  BY <1>2, <1>3 DEF MarkRunning

\* The new lifecycle is tracked.
LEMMA TrackLifecycleEffect ==
  ASSUME TypeOK, CallAtPC, NEW c \in Calls, TrackLifecycle(c)
  PROVE  /\ call[c] # None /\ call[c].pc = "track" /\ Frame(c) /\ CallTypes'
         /\ UNCHANGED <<live, lc, used, limit, phase, forced>>
         /\ call[c].new \in Lifecycles /\ lifecycles' = lifecycles \cup {call[c].new}
         /\ Moves(c, "setup") /\ call'[c].new = call[c].new
<1>1. CallTypes /\ call[c] # None /\ call[c].pc = "track" /\ call[c].new \in Lifecycles
  BY DEF TypeOK, CallTypes, TrackLifecycle, At, CallAtPC, Knows
<1> QED
  BY <1>1, GotoFrame DEF TrackLifecycle, PC

\* The goroutine that closes the new lifecycle starts.
LEMMA SetupLifecycleEffect ==
  ASSUME TypeOK, CallAtPC, NEW c \in Calls, SetupLifecycle(c)
  PROVE  /\ call[c] # None /\ call[c].pc = "setup" /\ Frame(c) /\ CallTypes'
         /\ call[c].new \in Lifecycles /\ LcFrame(call[c].new) /\ LcTypes'
         /\ Becomes(call[c].new, lc[call[c].new].vm,
                    lc[call[c].new].stopping, "wait", lc[call[c].new].upload)
         /\ UNCHANGED <<live, lifecycles, limit, phase, forced>>
         /\ \/ call[c].op = "create" /\ call'[c] = None /\ Return(c) /\ Release(c)
            \/ /\ call[c].op # "create" /\ UNCHANGED used
               /\ Moves(c, "upload") \/ Moves(c, "sync")
               /\ call'[c].new = call[c].new
<1>1. /\ CallTypes /\ LcTypes /\ call[c] # None /\ call[c].pc = "setup"
      /\ call[c].new \in Lifecycles
  BY DEF TypeOK, CallTypes, LcTypes, SetupLifecycle, At, CallAtPC, Knows
<1>2. [lc[call[c].new] EXCEPT !.close = "wait"] \in Lifecycle
  BY <1>1, LcFields DEF LcTypes
<1>3. lc' = [lc EXCEPT ![call[c].new] = [lc[call[c].new] EXCEPT !.close = "wait"]]
  BY DEF SetupLifecycle
<1>4. LcFrame(call[c].new) /\ LcTypes'
  BY <1>1, <1>2, <1>3, LcUpdate
<1>8. Becomes(call[c].new, lc[call[c].new].vm, lc[call[c].new].stopping,
              "wait", lc[call[c].new].upload)
  BY <1>1 DEF SetupLifecycle, Becomes, LcTypes, Lifecycle
<1>5. CASE call[c].op = "create" /\ Return(c) /\ Release(c)
  BY <1>1, <1>4, <1>8, <1>5, ReturnFrame DEF SetupLifecycle
<1>6. CASE call[c].op # "create" /\ UNCHANGED used /\ Goto(c, "upload")
  BY <1>1, <1>4, <1>8, <1>6, GotoFrame DEF SetupLifecycle, PC
<1>7. CASE call[c].op # "create" /\ UNCHANGED used /\ Goto(c, "sync")
  BY <1>1, <1>4, <1>8, <1>7, GotoFrame DEF SetupLifecycle, PC
<1> QED
  BY <1>5, <1>6, <1>7 DEF SetupLifecycle

\* An upload starts in a goroutine.
LEMMA UploadAsyncEffect ==
  ASSUME TypeOK, CallAtPC, NEW c \in Calls, UploadAsync(c)
  PROVE  /\ call[c] # None /\ call[c].pc = "upload" /\ Frame(c) /\ CallTypes'
         /\ call[c].old \in Lifecycles /\ LcFrame(call[c].old) /\ LcTypes'
         /\ Becomes(call[c].old, lc[call[c].old].vm,
                    lc[call[c].old].stopping, lc[call[c].old].close, "flight")
         /\ Moves(c, "stop") /\ call'[c].new = call[c].new
         /\ UNCHANGED <<live, lifecycles, used, limit, phase, forced>>
<1>1. /\ CallTypes /\ LcTypes /\ call[c] # None /\ call[c].pc = "upload"
      /\ call[c].old \in Lifecycles
  BY DEF TypeOK, CallTypes, LcTypes, UploadAsync, At, CallAtPC, Knows, Call, Op
<1>2. [lc[call[c].old] EXCEPT !.upload = "flight"] \in Lifecycle
  BY <1>1, LcFields DEF LcTypes
<1>3. lc' = [lc EXCEPT ![call[c].old] = [lc[call[c].old] EXCEPT !.upload = "flight"]]
  BY DEF UploadAsync
<1>4. Becomes(call[c].old, lc[call[c].old].vm, lc[call[c].old].stopping,
              lc[call[c].old].close, "flight")
  BY <1>1 DEF UploadAsync, Becomes, LcTypes, Lifecycle
<1>5. LcTypes' /\ LcFrame(call[c].old)
  BY <1>1, <1>2, <1>3, LcUpdate
<1> QED
  BY <1>1, <1>4, <1>5, GotoFrame DEF UploadAsync, PC

\* A call has uploaded the snapshot; if that failed, its new lifecycle is stopped.
LEMMA UploadSyncEffect ==
  ASSUME TypeOK, CallAtPC, NEW c \in Calls, UploadSync(c)
  PROVE  /\ call[c] # None /\ call[c].pc = "sync" /\ Frame(c) /\ CallTypes' /\ LcTypes'
         /\ call[c].id \in Ids /\ LiveTypes'
         /\ call[c].old \in Lifecycles /\ call[c].new \in Lifecycles
         /\ \A k \in Lifecycles : /\ lc'[k].id = lc[k].id /\ lc'[k].vm = lc[k].vm
                                  /\ lc'[k].close = lc[k].close
                                  /\ lc[k].stopping => lc'[k].stopping
                                  /\ lc'[k].upload \in {lc[k].upload, "none"}
         /\ Moves(c, "stop") /\ call'[c].new = call[c].new
         /\ UNCHANGED <<lifecycles, used, limit, phase, forced>>
         /\ \/ UNCHANGED live
            \/ /\ live[call[c].id] = call[c].new /\ LiveSet(call[c].id, None)
               /\ lc'[call[c].new].stopping
<1>1. /\ CallTypes /\ LcTypes /\ call[c] # None /\ call[c].pc = "sync"
      /\ call[c].old \in Lifecycles /\ call[c].new \in Lifecycles
      /\ lc[call[c].new].id = call[c].id /\ call[c].id \in Ids /\ LiveTypes
  BY DEF TypeOK, LiveTypes, CallTypes, LcTypes, UploadSync, At, CallAtPC, Knows, Call, Op
<1>2. Moves(c, "stop") /\ call'[c].new = call[c].new /\ Frame(c) /\ CallTypes'
  BY <1>1, GotoFrame DEF UploadSync, PC
<1>3. CASE lc' = [lc EXCEPT ![call[c].old].upload = "none"] /\ UNCHANGED live
  BY <1>1, <1>2, <1>3 DEF UploadSync, LcTypes, Lifecycle, LiveTypes
<1>4. CASE /\ MarkStopping(call[c].new)
           /\ lc' = [lc EXCEPT ![call[c].old].upload = "none", ![call[c].new].stopping = TRUE]
  <2> DEFINE m == [lc EXCEPT ![call[c].old].upload = "none"]
  <2>0. m \in [Lifecycles -> Lifecycle] /\ lc' = [m EXCEPT ![call[c].new].stopping = TRUE]
    BY <1>1, <1>4 DEF LcTypes, Lifecycle
  <2> HIDE DEF m
  <2>1. LcTypes' /\ lc'[call[c].new].stopping
    <3>1. [m[call[c].new] EXCEPT !.stopping = TRUE] \in Lifecycle
      BY <1>1, <2>0, LcFields
    <3>2. lc' = [m EXCEPT ![call[c].new] = [m[call[c].new] EXCEPT !.stopping = TRUE]]
      BY <1>1, <2>0
    <3>3. lc' \in [Lifecycles -> Lifecycle]
      BY <1>1, <2>0, <3>1, <3>2
    <3> QED
      BY <1>1, <2>0, <3>3 DEF LcTypes, Lifecycle
  <2>2. \A k \in Lifecycles : /\ lc'[k].id = lc[k].id /\ lc'[k].vm = lc[k].vm
                              /\ lc'[k].close = lc[k].close
                              /\ lc[k].stopping => lc'[k].stopping
                              /\ lc'[k].upload \in {lc[k].upload, "none"}
    BY <1>1, <1>4 DEF LcTypes, Lifecycle
  <2>3. /\ LiveTypes'
        /\ UNCHANGED live \/ (live[call[c].id] = call[c].new /\ LiveSet(call[c].id, None))
    BY <1>1, <1>4 DEF MarkStopping, LiveSet, LiveTypes
  <2> QED
    BY <1>1, <1>2, <2>1, <2>2, <2>3 DEF UploadSync
<1> QED
  BY <1>3, <1>4 DEF UploadSync

\* A Create begins; without duplicates it is the only call for its sandbox.
LEMMA BeginCreateEffect ==
  ASSUME TypeOK, CallAtPC, NEW c \in Calls, NEW i \in Ids, BeginCreate(c, i)
  PROVE  /\ Serving /\ call[c] = None /\ Frame(c) /\ CallTypes'
         /\ call'[c] # None /\ call'[c].op = "create" /\ call'[c].id = i /\ call'[c].pc = "acquire"
         /\ call'[c].old = None /\ call'[c].new = None /\ MayCreate(i)
         /\ UNCHANGED <<live, lifecycles, lc, used, limit, phase, forced>>
<1> DEFINE r == [op |-> "create", id |-> i, old |-> None, new |-> None, pc |-> "acquire"]
<1>1. CallTypes /\ r \in Call
  BY DEF TypeOK, CallTypes, Call, Op, PC
<1>2. call' = [call EXCEPT ![c] = r]
  BY DEF BeginCreate
<1>3. call'[c] = r /\ call'[c] # None /\ Frame(c) /\ CallTypes'
  BY <1>1, <1>2, BeginFrame
<1> QED
  BY <1>3 DEF BeginCreate

\* Another call begins with the sandbox that it finds live.
LEMMA BeginCallEffect ==
  ASSUME TypeOK, CallAtPC, NEW c \in Calls, NEW op \in Op \ {"create"}, NEW i \in Ids,
         BeginCall(c, op, i)
  PROVE  /\ Serving /\ call[c] = None /\ Frame(c) /\ CallTypes' /\ live[i] # None
         /\ call'[c] # None /\ call'[c].op = op /\ call'[c].id = i
         /\ call'[c].old = live[i] /\ call'[c].new = None
         /\ call'[c].pc = IF op = "checkpoint" THEN "acquire" ELSE "mark"
         /\ UNCHANGED <<live, lifecycles, lc, used, limit, phase, forced>>
<1> DEFINE r == [op |-> op, id |-> i, old |-> live[i], new |-> None,
                 pc |-> IF op = "checkpoint" THEN "acquire" ELSE "mark"]
<1>1. CallTypes /\ r \in Call
  BY DEF TypeOK, CallTypes, Call, Op, PC
<1>2. call' = [call EXCEPT ![c] = r]
  BY DEF BeginCall
<1>3. call'[c] = r /\ call'[c] # None /\ Frame(c) /\ CallTypes'
  BY <1>1, <1>2, BeginFrame
<1> QED
  BY <1>3 DEF BeginCall

\* The goroutine stops the VM.
LEMMA StopEffect ==
  ASSUME TypeOK, NEW l \in Lifecycles, Stop(l)
  PROVE  /\ LcTypes' /\ LcFrame(l) /\ lc[l].stopping
         /\ Becomes(l, "dead", FALSE, lc[l].close, lc[l].upload)
         /\ UNCHANGED <<live, lifecycles, call, used, limit, phase, forced>>
<1>1. LcTypes /\ lc[l] \in Lifecycle
  BY DEF TypeOK, LcTypes
<1>2. [lc[l] EXCEPT !.stopping = FALSE, !.vm = "dead"] \in Lifecycle
  BY <1>1, LcFields
<1>3. lc' = [lc EXCEPT ![l] = [lc[l] EXCEPT !.stopping = FALSE, !.vm = "dead"]]
  BY <1>1 DEF Stop, LcTypes
<1>4. Becomes(l, "dead", FALSE, lc[l].close, lc[l].upload)
  BY <1>1 DEF Stop, Becomes, LcTypes, Lifecycle
<1> QED
  BY <1>1, <1>2, <1>3, <1>4, LcUpdate DEF Stop

\* A VM exits.
LEMMA ExitEffect ==
  ASSUME TypeOK, NEW l \in Lifecycles, Exit(l)
  PROVE  /\ LcTypes' /\ LcFrame(l) /\ lc[l].vm \in {"up", "paused"}
         /\ Becomes(l, "dead", lc[l].stopping, lc[l].close, lc[l].upload)
         /\ UNCHANGED <<live, lifecycles, call, used, limit, phase, forced>>
<1>1. LcTypes /\ lc[l] \in Lifecycle
  BY DEF TypeOK, LcTypes
<1>2. [lc[l] EXCEPT !.vm = "dead"] \in Lifecycle
  BY <1>1, LcFields
<1>3. lc' = [lc EXCEPT ![l] = [lc[l] EXCEPT !.vm = "dead"]]
  BY <1>1 DEF Exit, LcTypes
<1>4. Becomes(l, "dead", lc[l].stopping, lc[l].close, lc[l].upload)
  BY <1>1 DEF Exit, Becomes, LcTypes, Lifecycle
<1> QED
  BY <1>1, <1>2, <1>3, <1>4, LcUpdate DEF Exit

\* The lifecycle of a dead VM is off the map.
LEMMA CleanupEffect ==
  ASSUME TypeOK, NEW l \in Lifecycles, Cleanup(l)
  PROVE  /\ LcTypes' /\ LcFrame(l) /\ lc[l].close = "wait" /\ lc[l].vm = "dead"
         /\ Becomes(l, lc[l].vm, lc[l].stopping, "cleaned", lc[l].upload)
         /\ \A i \in Ids : live'[i] = IF i = lc[l].id /\ live[i] = l THEN None ELSE live[i]
         /\ LiveTypes'
         /\ UNCHANGED <<lifecycles, call, used, limit, phase, forced>>
<1>1. LcTypes /\ lc[l] \in Lifecycle
  BY DEF TypeOK, LcTypes
<1>2. [lc[l] EXCEPT !.close = "cleaned"] \in Lifecycle
  BY <1>1, LcFields
<1>3. lc' = [lc EXCEPT ![l] = [lc[l] EXCEPT !.close = "cleaned"]]
  BY <1>1 DEF Cleanup, LcTypes
<1>4. Becomes(l, lc[l].vm, lc[l].stopping, "cleaned", lc[l].upload)
  BY <1>1 DEF Cleanup, Becomes, LcTypes, Lifecycle
<1>5. /\ \A i \in Ids : live'[i] = IF i = lc[l].id /\ live[i] = l THEN None ELSE live[i]
      /\ LiveTypes'
  BY DEF Cleanup, MarkStopping, TypeOK, LiveTypes
<1> QED
  BY <1>1, <1>2, <1>3, <1>4, <1>5, LcUpdate DEF Cleanup

\* It is tracked no more.
LEMMA MarkStoppedEffect ==
  ASSUME TypeOK, NEW l \in Lifecycles, MarkStopped(l)
  PROVE  /\ LcTypes' /\ LcFrame(l) /\ lc[l].close = "cleaned"
         /\ Becomes(l, lc[l].vm, lc[l].stopping, "none", lc[l].upload)
         /\ lifecycles' = lifecycles \ {l}
         /\ UNCHANGED <<live, call, used, limit, phase, forced>>
<1>1. LcTypes /\ lc[l] \in Lifecycle
  BY DEF TypeOK, LcTypes
<1>2. [lc[l] EXCEPT !.close = "none"] \in Lifecycle
  BY <1>1, LcFields
<1>3. lc' = [lc EXCEPT ![l] = [lc[l] EXCEPT !.close = "none"]]
  BY <1>1 DEF MarkStopped, LcTypes
<1>4. Becomes(l, lc[l].vm, lc[l].stopping, "none", lc[l].upload)
  BY <1>1 DEF MarkStopped, Becomes, LcTypes, Lifecycle
<1> QED
  BY <1>1, <1>2, <1>3, <1>4, LcUpdate DEF MarkStopped

\* An upload ends.
LEMMA UploadDoneEffect ==
  ASSUME TypeOK, NEW l \in Lifecycles, UploadDone(l)
  PROVE  /\ LcTypes' /\ LcFrame(l) /\ lc[l].upload = "flight"
         /\ Becomes(l, lc[l].vm, lc[l].stopping, lc[l].close, "none")
         /\ UNCHANGED <<live, lifecycles, call, used, limit, phase, forced>>
<1>1. LcTypes /\ lc[l] \in Lifecycle
  BY DEF TypeOK, LcTypes
<1>2. [lc[l] EXCEPT !.upload = "none"] \in Lifecycle
  BY <1>1, LcFields
<1>3. lc' = [lc EXCEPT ![l] = [lc[l] EXCEPT !.upload = "none"]]
  BY <1>1 DEF UploadDone, LcTypes
<1>4. Becomes(l, lc[l].vm, lc[l].stopping, lc[l].close, "none")
  BY <1>1 DEF UploadDone, Becomes, LcTypes, Lifecycle
<1> QED
  BY <1>1, <1>2, <1>3, <1>4, LcUpdate DEF UploadDone

\* Every variable keeps its type.
LEMMA TypeStep == TypeOK /\ CallAtPC /\ PermitsBalance /\ [Next]_vars => TypeOK'
<1> SUFFICES ASSUME TypeOK, CallAtPC, PermitsBalance, [Next]_vars PROVE TypeOK'
  OBVIOUS
<1> USE DEF TypeOK, LiveTypes, CallTypes, LcTypes
<1>1. CASE UNCHANGED vars
  BY <1>1 DEF vars
<1>2. ASSUME NEW c \in Calls, Acquire(c)
      PROVE  TypeOK'
  BY <1>2, AcquireEffect
<1>3. ASSUME NEW c \in Calls, Mark(c)
      PROVE  TypeOK'
  <2>1. used' \in Nat
    BY <1>3, MarkEffect, ReturnPermit DEF TypeOK
  <2> QED
    BY <1>3, <2>1, MarkEffect
<1>4. ASSUME NEW c \in Calls, StopOld(c)
      PROVE  TypeOK'
  <2>1. used' \in Nat
    BY <1>4, StopOldEffect, ReturnPermit DEF TypeOK
  <2> QED
    BY <1>4, <2>1, StopOldEffect
<1>5. ASSUME NEW c \in Calls, Snapshot(c)
      PROVE  TypeOK'
  BY <1>5, SnapshotEffect
<1>6. ASSUME NEW c \in Calls, Resume(c)
      PROVE  TypeOK'
  <2>1. used' \in Nat
    BY <1>6, ResumeEffect, ReturnPermit DEF TypeOK
  <2> QED
    BY <1>6, <2>1, ResumeEffect
<1>7. ASSUME NEW c \in Calls, MarkRunning(c)
      PROVE  TypeOK'
  BY <1>7, MarkRunningEffect
<1>8. ASSUME NEW c \in Calls, TrackLifecycle(c)
      PROVE  TypeOK'
  BY <1>8, TrackLifecycleEffect
<1>9. ASSUME NEW c \in Calls, SetupLifecycle(c)
      PROVE  TypeOK'
  <2>1. used' \in Nat
    BY <1>9, SetupLifecycleEffect, ReturnPermit DEF TypeOK
  <2> QED
    BY <1>9, <2>1, SetupLifecycleEffect
<1>10. ASSUME NEW c \in Calls, UploadAsync(c)
      PROVE  TypeOK'
  BY <1>10, UploadAsyncEffect
<1>11. ASSUME NEW c \in Calls, UploadSync(c)
      PROVE  TypeOK'
  BY <1>11, UploadSyncEffect
<1>12. ASSUME NEW c \in Calls, NEW i \in Ids, BeginCreate(c, i)
      PROVE  TypeOK'
  BY <1>12, BeginCreateEffect
<1>13. ASSUME NEW c \in Calls, NEW op \in Op \ {"create"}, NEW i \in Ids, BeginCall(c, op, i)
      PROVE  TypeOK'
  BY <1>13, BeginCallEffect
<1>14. ASSUME NEW l \in Lifecycles, Stop(l)
      PROVE  TypeOK'
  BY <1>14, StopEffect
<1>15. ASSUME NEW l \in Lifecycles, Cleanup(l)
      PROVE  TypeOK'
  BY <1>15, CleanupEffect
<1>16. ASSUME NEW l \in Lifecycles, MarkStopped(l)
      PROVE  TypeOK'
  BY <1>16, MarkStoppedEffect
<1>17. ASSUME NEW l \in Lifecycles, Exit(l)
      PROVE  TypeOK'
  BY <1>17, ExitEffect
<1>18. ASSUME NEW l \in Lifecycles, UploadDone(l)
      PROVE  TypeOK'
  BY <1>18, UploadDoneEffect
<1>19. CASE SetLimit
  BY <1>19 DEF SetLimit
<1>20. CASE Signal
  BY <1>20 DEF Signal
<1>21. CASE Drain
  BY <1>21 DEF Drain
<1>22. CASE WaitLifecycles
  BY <1>22 DEF WaitLifecycles
<1>23. CASE GracefulStop
  BY <1>23 DEF GracefulStop
<1>24. CASE CloseServer
  BY <1>24 DEF CloseServer
<1> QED
  BY <1>1, <1>2, <1>3, <1>4, <1>5, <1>6, <1>7, <1>8, <1>9, <1>10, <1>11, <1>12, <1>13, <1>14,
     <1>15, <1>16, <1>17, <1>18, <1>19, <1>20, <1>21, <1>22, <1>23, <1>24 DEF Next, CallStep,
     LifecycleStep, Shutdown

\* A step of one call, which takes nothing from the others.
LEMMA OthersKnow ==
  ASSUME TypeOK, CallAtPC, NEW c \in Calls, Frame(c), call'[c] # None => Knows(c)',
         \A d \in Calls : (call'[c] # None /\ call[d] # None /\ call'[c].new \in Lifecycles
                             /\ call'[c].new = call[d].new) => c = d,
         \A d \in Calls : \A k \in Lifecycles : (d # c /\ Handles(d, k)) =>
           /\ lc'[k].id = lc[k].id
           /\ (call[d].new = k /\ lc[k].close = "none") => lc'[k].close = "none"
  PROVE  CallAtPC'
<1>1. call \in [Calls -> Call \cup {None}]
  BY DEF TypeOK
<1>2. ASSUME NEW d \in Calls, d # c, call[d] # None PROVE Knows(d)'
  BY <1>1, <1>2 DEF CallAtPC, Knows, Frame, Handles
<1>3. \A d \in Calls : call'[d] # None => Knows(d)'
  BY <1>2 DEF Frame
<1>4. \A b, d \in Calls :
         (call'[b] # None /\ call'[d] # None /\ call'[b].new \in Lifecycles
            /\ call'[b].new = call'[d].new) => b = d
  BY DEF CallAtPC, Frame
<1> QED
  BY <1>3, <1>4 DEF CallAtPC

\* The goroutines of lifecycles take nothing from the calls.
LEMMA LcKeepsCalls ==
  ASSUME TypeOK, CallAtPC, UNCHANGED call,
         \A k \in Lifecycles : /\ lc'[k].id = lc[k].id
                               /\ lc[k].close = "none" => lc'[k].close = "none"
  PROVE  CallAtPC'
<1>1. call \in [Calls -> Call \cup {None}]
  BY DEF TypeOK
<1> QED
  BY <1>1 DEF CallAtPC, Knows, Call, Op

\* What a call knows stays so.
LEMMA KnowsStep == TypeOK /\ CallAtPC /\ LiveIsTracked /\ [Next]_vars => CallAtPC'
<1> SUFFICES ASSUME TypeOK, CallAtPC, LiveIsTracked, [Next]_vars PROVE CallAtPC'
  OBVIOUS
<1>0. /\ call \in [Calls -> Call \cup {None}] /\ lc \in [Lifecycles -> Lifecycle]
      /\ None \notin Lifecycles
  BY ServerAssumption DEF TypeOK
<1> USE <1>0 DEF LcFrame, Becomes, Moves, Call, Lifecycle, Op
<1>1. CASE UNCHANGED vars
  BY <1>1, LcKeepsCalls DEF vars
<1>2. ASSUME NEW c \in Calls, Acquire(c)
      PROVE  CallAtPC'
  <2>0. Frame(c)
    BY <1>2, AcquireEffect
  <2>1. call'[c] # None => Knows(c)'
    BY <1>2, AcquireEffect DEF CallAtPC, Knows
  <2>2. \A d \in Calls : (call'[c] # None /\ call[d] # None /\ call'[c].new \in Lifecycles
                            /\ call'[c].new = call[d].new) => c = d
    BY <1>2, AcquireEffect DEF CallAtPC, Frame
  <2>3. \A d \in Calls : \A k \in Lifecycles : (d # c /\ Handles(d, k)) =>
          /\ lc'[k].id = lc[k].id
          /\ (call[d].new = k /\ lc[k].close = "none") => lc'[k].close = "none"
    BY <1>2, AcquireEffect
  <2> QED
    BY <2>0, <2>1, <2>2, <2>3, OthersKnow
<1>3. ASSUME NEW c \in Calls, Mark(c)
      PROVE  CallAtPC'
  <2>0. Frame(c)
    BY <1>3, MarkEffect
  <2>1. call'[c] # None => Knows(c)'
    BY <1>3, MarkEffect DEF CallAtPC, Knows
  <2>2. \A d \in Calls : (call'[c] # None /\ call[d] # None /\ call'[c].new \in Lifecycles
                            /\ call'[c].new = call[d].new) => c = d
    BY <1>3, MarkEffect DEF CallAtPC, Frame
  <2>3. \A d \in Calls : \A k \in Lifecycles : (d # c /\ Handles(d, k)) =>
          /\ lc'[k].id = lc[k].id
          /\ (call[d].new = k /\ lc[k].close = "none") => lc'[k].close = "none"
    BY <1>3, MarkEffect
  <2> QED
    BY <2>0, <2>1, <2>2, <2>3, OthersKnow
<1>4. ASSUME NEW c \in Calls, StopOld(c)
      PROVE  CallAtPC'
  <2>0. Frame(c)
    BY <1>4, StopOldEffect
  <2>1. call'[c] # None => Knows(c)'
    BY <1>4, StopOldEffect DEF CallAtPC, Knows
  <2>2. \A d \in Calls : (call'[c] # None /\ call[d] # None /\ call'[c].new \in Lifecycles
                            /\ call'[c].new = call[d].new) => c = d
    BY <1>4, StopOldEffect DEF CallAtPC, Frame
  <2>3. \A d \in Calls : \A k \in Lifecycles : (d # c /\ Handles(d, k)) =>
          /\ lc'[k].id = lc[k].id
          /\ (call[d].new = k /\ lc[k].close = "none") => lc'[k].close = "none"
    BY <1>4, StopOldEffect
  <2> QED
    BY <2>0, <2>1, <2>2, <2>3, OthersKnow
<1>5. ASSUME NEW c \in Calls, Snapshot(c)
      PROVE  CallAtPC'
  <2>0. Frame(c)
    BY <1>5, SnapshotEffect
  <2>1. call'[c] # None => Knows(c)'
    BY <1>5, SnapshotEffect DEF CallAtPC, Knows
  <2>2. \A d \in Calls : (call'[c] # None /\ call[d] # None /\ call'[c].new \in Lifecycles
                            /\ call'[c].new = call[d].new) => c = d
    BY <1>5, SnapshotEffect DEF CallAtPC, Frame
  <2>3. \A d \in Calls : \A k \in Lifecycles : (d # c /\ Handles(d, k)) =>
          /\ lc'[k].id = lc[k].id
          /\ (call[d].new = k /\ lc[k].close = "none") => lc'[k].close = "none"
    BY <1>5, SnapshotEffect
  <2> QED
    BY <2>0, <2>1, <2>2, <2>3, OthersKnow
<1>6. ASSUME NEW c \in Calls, Resume(c)
      PROVE  CallAtPC'
  <2>0. Frame(c)
    BY <1>6, ResumeEffect
  <2>1. call'[c] # None => Knows(c)'
    BY <1>6, ResumeEffect DEF CallAtPC, Knows, IsFree, Handles
  <2>2. \A d \in Calls : (call'[c] # None /\ call[d] # None /\ call'[c].new \in Lifecycles
                            /\ call'[c].new = call[d].new) => c = d
    BY <1>6, ResumeEffect DEF CallAtPC, Frame, IsFree, Handles
  <2>3. \A d \in Calls : \A k \in Lifecycles : (d # c /\ Handles(d, k)) =>
          /\ lc'[k].id = lc[k].id
          /\ (call[d].new = k /\ lc[k].close = "none") => lc'[k].close = "none"
    BY <1>6, ResumeEffect DEF IsFree, Handles
  <2> QED
    BY <2>0, <2>1, <2>2, <2>3, OthersKnow
<1>7. ASSUME NEW c \in Calls, MarkRunning(c)
      PROVE  CallAtPC'
  <2>0. Frame(c)
    BY <1>7, MarkRunningEffect
  <2>1. call'[c] # None => Knows(c)'
    BY <1>7, MarkRunningEffect DEF CallAtPC, Knows
  <2>2. \A d \in Calls : (call'[c] # None /\ call[d] # None /\ call'[c].new \in Lifecycles
                            /\ call'[c].new = call[d].new) => c = d
    BY <1>7, MarkRunningEffect DEF CallAtPC, Frame
  <2>3. \A d \in Calls : \A k \in Lifecycles : (d # c /\ Handles(d, k)) =>
          /\ lc'[k].id = lc[k].id
          /\ (call[d].new = k /\ lc[k].close = "none") => lc'[k].close = "none"
    BY <1>7, MarkRunningEffect
  <2> QED
    BY <2>0, <2>1, <2>2, <2>3, OthersKnow
<1>8. ASSUME NEW c \in Calls, TrackLifecycle(c)
      PROVE  CallAtPC'
  <2>0. Frame(c)
    BY <1>8, TrackLifecycleEffect
  <2>1. call'[c] # None => Knows(c)'
    BY <1>8, TrackLifecycleEffect DEF CallAtPC, Knows
  <2>2. \A d \in Calls : (call'[c] # None /\ call[d] # None /\ call'[c].new \in Lifecycles
                            /\ call'[c].new = call[d].new) => c = d
    BY <1>8, TrackLifecycleEffect DEF CallAtPC, Frame
  <2>3. \A d \in Calls : \A k \in Lifecycles : (d # c /\ Handles(d, k)) =>
          /\ lc'[k].id = lc[k].id
          /\ (call[d].new = k /\ lc[k].close = "none") => lc'[k].close = "none"
    BY <1>8, TrackLifecycleEffect
  <2> QED
    BY <2>0, <2>1, <2>2, <2>3, OthersKnow
<1>9. ASSUME NEW c \in Calls, SetupLifecycle(c)
      PROVE  CallAtPC'
  <2>0. Frame(c)
    BY <1>9, SetupLifecycleEffect
  <2>1. call'[c] # None => Knows(c)'
    BY <1>9, SetupLifecycleEffect DEF CallAtPC, Knows, Handles
  <2>2. \A d \in Calls : (call'[c] # None /\ call[d] # None /\ call'[c].new \in Lifecycles
                            /\ call'[c].new = call[d].new) => c = d
    BY <1>9, SetupLifecycleEffect DEF CallAtPC, Frame, Handles
  <2>3. \A d \in Calls : \A k \in Lifecycles : (d # c /\ Handles(d, k)) =>
          /\ lc'[k].id = lc[k].id
          /\ (call[d].new = k /\ lc[k].close = "none") => lc'[k].close = "none"
    BY <1>9, SetupLifecycleEffect DEF CallAtPC, Knows, Handles
  <2> QED
    BY <2>0, <2>1, <2>2, <2>3, OthersKnow
<1>10. ASSUME NEW c \in Calls, UploadAsync(c)
      PROVE  CallAtPC'
  <2>0. Frame(c)
    BY <1>10, UploadAsyncEffect
  <2>1. call'[c] # None => Knows(c)'
    BY <1>10, UploadAsyncEffect DEF CallAtPC, Knows
  <2>2. \A d \in Calls : (call'[c] # None /\ call[d] # None /\ call'[c].new \in Lifecycles
                            /\ call'[c].new = call[d].new) => c = d
    BY <1>10, UploadAsyncEffect DEF CallAtPC, Frame
  <2>3. \A d \in Calls : \A k \in Lifecycles : (d # c /\ Handles(d, k)) =>
          /\ lc'[k].id = lc[k].id
          /\ (call[d].new = k /\ lc[k].close = "none") => lc'[k].close = "none"
    BY <1>10, UploadAsyncEffect
  <2> QED
    BY <2>0, <2>1, <2>2, <2>3, OthersKnow
<1>11. ASSUME NEW c \in Calls, UploadSync(c)
      PROVE  CallAtPC'
  <2>0. Frame(c)
    BY <1>11, UploadSyncEffect
  <2>1. call'[c] # None => Knows(c)'
    BY <1>11, UploadSyncEffect DEF CallAtPC, Knows
  <2>2. \A d \in Calls : (call'[c] # None /\ call[d] # None /\ call'[c].new \in Lifecycles
                            /\ call'[c].new = call[d].new) => c = d
    BY <1>11, UploadSyncEffect DEF CallAtPC, Frame
  <2>3. \A d \in Calls : \A k \in Lifecycles : (d # c /\ Handles(d, k)) =>
          /\ lc'[k].id = lc[k].id
          /\ (call[d].new = k /\ lc[k].close = "none") => lc'[k].close = "none"
    BY <1>11, UploadSyncEffect
  <2> QED
    BY <2>0, <2>1, <2>2, <2>3, OthersKnow
<1>12. ASSUME NEW c \in Calls, NEW i \in Ids, BeginCreate(c, i)
      PROVE  CallAtPC'
  <2>0. Frame(c)
    BY <1>12, BeginCreateEffect
  <2>1. call'[c] # None => Knows(c)'
    BY <1>12, BeginCreateEffect DEF CallAtPC, Knows
  <2>2. \A d \in Calls : (call'[c] # None /\ call[d] # None /\ call'[c].new \in Lifecycles
                            /\ call'[c].new = call[d].new) => c = d
    BY <1>12, BeginCreateEffect DEF CallAtPC, Frame
  <2>3. \A d \in Calls : \A k \in Lifecycles : (d # c /\ Handles(d, k)) =>
          /\ lc'[k].id = lc[k].id
          /\ (call[d].new = k /\ lc[k].close = "none") => lc'[k].close = "none"
    BY <1>12, BeginCreateEffect
  <2> QED
    BY <2>0, <2>1, <2>2, <2>3, OthersKnow
<1>13. ASSUME NEW c \in Calls, NEW op \in Op \ {"create"}, NEW i \in Ids, BeginCall(c, op, i)
      PROVE  CallAtPC'
  <2>0. Frame(c)
    BY <1>13, BeginCallEffect
  <2>1. call'[c] # None => Knows(c)'
    BY <1>13, BeginCallEffect DEF CallAtPC, Knows, LiveIsTracked, TypeOK
  <2>2. \A d \in Calls : (call'[c] # None /\ call[d] # None /\ call'[c].new \in Lifecycles
                            /\ call'[c].new = call[d].new) => c = d
    BY <1>13, BeginCallEffect DEF CallAtPC, Frame
  <2>3. \A d \in Calls : \A k \in Lifecycles : (d # c /\ Handles(d, k)) =>
          /\ lc'[k].id = lc[k].id
          /\ (call[d].new = k /\ lc[k].close = "none") => lc'[k].close = "none"
    BY <1>13, BeginCallEffect
  <2> QED
    BY <2>0, <2>1, <2>2, <2>3, OthersKnow
<1>14. ASSUME NEW l \in Lifecycles, Stop(l)
      PROVE  CallAtPC'
  BY <1>14, StopEffect, LcKeepsCalls
<1>15. ASSUME NEW l \in Lifecycles, Cleanup(l)
      PROVE  CallAtPC'
  BY <1>15, CleanupEffect, LcKeepsCalls
<1>16. ASSUME NEW l \in Lifecycles, MarkStopped(l)
      PROVE  CallAtPC'
  BY <1>16, MarkStoppedEffect, LcKeepsCalls
<1>17. ASSUME NEW l \in Lifecycles, Exit(l)
      PROVE  CallAtPC'
  BY <1>17, ExitEffect, LcKeepsCalls
<1>18. ASSUME NEW l \in Lifecycles, UploadDone(l)
      PROVE  CallAtPC'
  BY <1>18, UploadDoneEffect, LcKeepsCalls
<1>19. CASE SetLimit
  BY <1>19, LcKeepsCalls DEF SetLimit
<1>20. CASE Signal
  BY <1>20, LcKeepsCalls DEF Signal
<1>21. CASE Drain
  BY <1>21, LcKeepsCalls DEF Drain
<1>22. CASE WaitLifecycles
  BY <1>22, LcKeepsCalls DEF WaitLifecycles
<1>23. CASE GracefulStop
  BY <1>23, LcKeepsCalls DEF GracefulStop
<1>24. CASE CloseServer
  BY <1>24, LcKeepsCalls DEF CloseServer
<1> QED
  BY <1>1, <1>2, <1>3, <1>4, <1>5, <1>6, <1>7, <1>8, <1>9, <1>10, <1>11, <1>12, <1>13, <1>14,
     <1>15, <1>16, <1>17, <1>18, <1>19, <1>20, <1>21, <1>22, <1>23, <1>24 DEF Next, CallStep,
     LifecycleStep, Shutdown

\* What is live is of its sandbox, not closed, and tracked or about to be.
LEMMA LiveStep == TypeOK /\ CallAtPC /\ LiveIsTracked /\ [Next]_vars => LiveIsTracked'
<1> SUFFICES ASSUME TypeOK, CallAtPC, LiveIsTracked, [Next]_vars PROVE LiveIsTracked'
  OBVIOUS
<1>0. /\ call \in [Calls -> Call \cup {None}] /\ lc \in [Lifecycles -> Lifecycle]
      /\ None \notin Lifecycles /\ live \in [Ids -> Lifecycles \cup {None}]
  BY ServerAssumption DEF TypeOK
<1> USE <1>0 DEF LiveSet, LiveIsTracked, At, Frame, LcFrame, Becomes, Moves
<1>1. CASE UNCHANGED vars
  BY <1>1 DEF vars
<1>2. ASSUME NEW c \in Calls, Acquire(c)
      PROVE  LiveIsTracked'
  BY <1>2, AcquireEffect
<1>3. ASSUME NEW c \in Calls, Mark(c)
      PROVE  LiveIsTracked'
  BY <1>3, MarkEffect
<1>4. ASSUME NEW c \in Calls, StopOld(c)
      PROVE  LiveIsTracked'
  BY <1>4, StopOldEffect
<1>5. ASSUME NEW c \in Calls, Snapshot(c)
      PROVE  LiveIsTracked'
  BY <1>5, SnapshotEffect
<1>6. ASSUME NEW c \in Calls, Resume(c)
      PROVE  LiveIsTracked'
  BY <1>6, ResumeEffect DEF IsFree, Handles, CallAtPC, Knows
<1>7. ASSUME NEW c \in Calls, MarkRunning(c)
      PROVE  LiveIsTracked'
  BY <1>7, MarkRunningEffect DEF CallAtPC, Knows
<1>8. ASSUME NEW c \in Calls, TrackLifecycle(c)
      PROVE  LiveIsTracked'
  BY <1>8, TrackLifecycleEffect DEF CallAtPC, Knows
<1>9. ASSUME NEW c \in Calls, SetupLifecycle(c)
      PROVE  LiveIsTracked'
  BY <1>9, SetupLifecycleEffect
<1>10. ASSUME NEW c \in Calls, UploadAsync(c)
      PROVE  LiveIsTracked'
  BY <1>10, UploadAsyncEffect
<1>11. ASSUME NEW c \in Calls, UploadSync(c)
      PROVE  LiveIsTracked'
  BY <1>11, UploadSyncEffect DEF CallAtPC, Knows
<1>12. ASSUME NEW c \in Calls, NEW i \in Ids, BeginCreate(c, i)
      PROVE  LiveIsTracked'
  BY <1>12, BeginCreateEffect
<1>13. ASSUME NEW c \in Calls, NEW op \in Op \ {"create"}, NEW i \in Ids, BeginCall(c, op, i)
      PROVE  LiveIsTracked'
  BY <1>13, BeginCallEffect
<1>14. ASSUME NEW l \in Lifecycles, Stop(l)
      PROVE  LiveIsTracked'
  BY <1>14, StopEffect
<1>15. ASSUME NEW l \in Lifecycles, Cleanup(l)
      PROVE  LiveIsTracked'
  BY <1>15, CleanupEffect
<1>16. ASSUME NEW l \in Lifecycles, MarkStopped(l)
      PROVE  LiveIsTracked'
  BY <1>16, MarkStoppedEffect
<1>17. ASSUME NEW l \in Lifecycles, Exit(l)
      PROVE  LiveIsTracked'
  BY <1>17, ExitEffect
<1>18. ASSUME NEW l \in Lifecycles, UploadDone(l)
      PROVE  LiveIsTracked'
  BY <1>18, UploadDoneEffect
<1>19. CASE SetLimit
  BY <1>19 DEF SetLimit
<1>20. CASE Signal
  BY <1>20 DEF Signal
<1>21. CASE Drain
  BY <1>21 DEF Drain
<1>22. CASE WaitLifecycles
  BY <1>22 DEF WaitLifecycles
<1>23. CASE GracefulStop
  BY <1>23 DEF GracefulStop
<1>24. CASE CloseServer
  BY <1>24 DEF CloseServer
<1> QED
  BY <1>1, <1>2, <1>3, <1>4, <1>5, <1>6, <1>7, <1>8, <1>9, <1>10, <1>11, <1>12, <1>13, <1>14,
     <1>15, <1>16, <1>17, <1>18, <1>19, <1>20, <1>21, <1>22, <1>23, <1>24 DEF Next, CallStep,
     LifecycleStep, Shutdown

\* One call at a time replaces the live lifecycle of a sandbox.
LEMMA ReplaceStep ==
  NoDuplicate /\ TypeOK /\ CallAtPC /\ OneReplaces /\ [Next]_vars => OneReplaces'
<1> SUFFICES ASSUME NoDuplicate, TypeOK, CallAtPC, OneReplaces, [Next]_vars PROVE OneReplaces'
  OBVIOUS
<1>0. /\ call \in [Calls -> Call \cup {None}] /\ lc \in [Lifecycles -> Lifecycle]
      /\ None \notin Lifecycles /\ live \in [Ids -> Lifecycles \cup {None}]
  BY ServerAssumption DEF TypeOK
<1> USE <1>0 DEF LiveSet, OneReplaces, Replacing, Frame, Moves, Call, Op
<1>1. CASE UNCHANGED vars
  BY <1>1 DEF vars
<1>2. ASSUME NEW c \in Calls, Acquire(c)
      PROVE  OneReplaces'
  BY <1>2, AcquireEffect
<1>3. ASSUME NEW c \in Calls, Mark(c)
      PROVE  OneReplaces'
  BY <1>3, MarkEffect DEF CallAtPC, Knows
<1>4. ASSUME NEW c \in Calls, StopOld(c)
      PROVE  OneReplaces'
  <2>1. call'[c] = None /\ Frame(c) /\ UNCHANGED live
    BY <1>4, StopOldEffect
  <2> QED
    BY <2>1
<1>5. ASSUME NEW c \in Calls, Snapshot(c)
      PROVE  OneReplaces'
  BY <1>5, SnapshotEffect
<1>6. ASSUME NEW c \in Calls, Resume(c)
      PROVE  OneReplaces'
  BY <1>6, ResumeEffect
<1>7. ASSUME NEW c \in Calls, MarkRunning(c)
      PROVE  OneReplaces'
  BY <1>7, MarkRunningEffect
<1>8. ASSUME NEW c \in Calls, TrackLifecycle(c)
      PROVE  OneReplaces'
  BY <1>8, TrackLifecycleEffect
<1>9. ASSUME NEW c \in Calls, SetupLifecycle(c)
      PROVE  OneReplaces'
  BY <1>9, SetupLifecycleEffect
<1>10. ASSUME NEW c \in Calls, UploadAsync(c)
      PROVE  OneReplaces'
  BY <1>10, UploadAsyncEffect
<1>11. ASSUME NEW c \in Calls, UploadSync(c)
      PROVE  OneReplaces'
  BY <1>11, UploadSyncEffect
<1>12. ASSUME NEW c \in Calls, NEW i \in Ids, BeginCreate(c, i)
      PROVE  OneReplaces'
  BY <1>12, BeginCreateEffect DEF MayCreate, NoDuplicate
<1>13. ASSUME NEW c \in Calls, NEW op \in Op \ {"create"}, NEW i \in Ids, BeginCall(c, op, i)
      PROVE  OneReplaces'
  BY <1>13, BeginCallEffect
<1>14. ASSUME NEW l \in Lifecycles, Stop(l)
      PROVE  OneReplaces'
  BY <1>14, StopEffect, ZenonT(60)
<1>15. ASSUME NEW l \in Lifecycles, Cleanup(l)
      PROVE  OneReplaces'
  BY <1>15, CleanupEffect
<1>16. ASSUME NEW l \in Lifecycles, MarkStopped(l)
      PROVE  OneReplaces'
  BY <1>16, MarkStoppedEffect
<1>17. ASSUME NEW l \in Lifecycles, Exit(l)
      PROVE  OneReplaces'
  BY <1>17, ExitEffect
<1>18. ASSUME NEW l \in Lifecycles, UploadDone(l)
      PROVE  OneReplaces'
  BY <1>18, UploadDoneEffect
<1>19. CASE SetLimit
  BY <1>19 DEF SetLimit
<1>20. CASE Signal
  BY <1>20 DEF Signal
<1>21. CASE Drain
  BY <1>21 DEF Drain
<1>22. CASE WaitLifecycles
  BY <1>22 DEF WaitLifecycles
<1>23. CASE GracefulStop
  BY <1>23 DEF GracefulStop
<1>24. CASE CloseServer
  BY <1>24 DEF CloseServer
<1> QED
  BY <1>1, <1>2, <1>3, <1>4, <1>5, <1>6, <1>7, <1>8, <1>9, <1>10, <1>11, <1>12, <1>13, <1>14,
     <1>15, <1>16, <1>17, <1>18, <1>19, <1>20, <1>21, <1>22, <1>23, <1>24 DEF Next, CallStep,
     LifecycleStep, Shutdown

\* Every lifecycle that is to be closed is tracked, and closed when its VM is dead.
Closing == \A l \in Lifecycles : /\ lc[l].close = "cleaned" => lc[l].vm = "dead"
                                 /\ lc[l].close # "none" => l \in lifecycles

\* A step of the call c takes nothing from what other calls hold, and what it gives up
\* itself is tracked.
Leaves(c) ==
    /\ Frame(c) /\ lifecycles \subseteq lifecycles'
    /\ \A d \in Calls : \A k \in Lifecycles :
         (d # c /\ Handles(d, k) /\ lc[k].vm = "dead") => lc'[k].vm = "dead"
    /\ (call[c] # None /\ call[c].new # None) =>
         \/ call'[c] # None /\ call'[c].new = call[c].new
         \/ call[c].new \in lifecycles'
         \/ lc'[call[c].new].vm = "dead"

\* The same for a step of a lifecycle.
LeavesAll ==
    /\ UNCHANGED call
    /\ \A l \in Lifecycles : lc[l].vm = "dead" => lc'[l].vm = "dead"
    /\ \A l \in lifecycles : l \in lifecycles' \/ (lc'[l].vm = "dead" /\ lc[l].close # "none")

\* A step of one call: what the others hold is still tracked.
LEMMA OthersHeld ==
  ASSUME TypeOK, CallAtPC, HeldIsTracked, NEW c \in Calls, Leaves(c), Closing', call'[c] # None =>
         Held(c)'
  PROVE  HeldIsTracked'
<1>0. None \notin Lifecycles /\ call \in [Calls -> Call \cup {None}]
  BY ServerAssumption DEF TypeOK
<1>1. ASSUME NEW d \in Calls, d # c, call[d] # None PROVE Held(d)'
  <2>1. call'[d] = call[d] /\ Held(d)
    BY <1>1 DEF Leaves, Frame, HeldIsTracked
  <2>2. call'[d].new # None /\ call'[d].pc \notin {"insert", "track"} =>
          call'[d].new \in lifecycles' \/ lc'[call'[d].new].vm = "dead"
    BY <1>0, <1>1, <2>1 DEF Held, Handles, CallAtPC, Knows, Leaves, Call
  <2>3. ASSUME call'[d].old # None
        PROVE  \/ call'[d].old \in lifecycles' \/ lc'[call'[d].old].vm = "dead"
               \/ \E e \in Calls : call'[e] # None /\ call'[e].new = call'[d].old
    <3>1. CASE call[d].old \in lifecycles \/ lc[call[d].old].vm = "dead"
      BY <1>1, <2>1, <2>3, <3>1 DEF Handles, CallAtPC, Knows, Leaves
    <3>2. CASE \E e \in Calls : call[e] # None /\ call[e].new = call[d].old
      BY <2>1, <2>3, <3>2 DEF Frame, Leaves
    <3> QED
      BY <2>1, <2>3, <3>1, <3>2 DEF Held
  <2> QED
    BY <2>1, <2>2, <2>3 DEF Held, Leaves
<1> QED
  BY <1>1 DEF HeldIsTracked, Leaves, Frame, Closing

\* A step of no call.
LEMMA LcKeepsHeld ==
  ASSUME TypeOK, CallAtPC, HeldIsTracked, LeavesAll, Closing'
  PROVE  HeldIsTracked'
<1>1. None \notin Lifecycles /\ call \in [Calls -> Call \cup {None}]
  BY ServerAssumption DEF TypeOK
<1>2. ASSUME NEW c \in Calls, call[c] # None PROVE Held(c)'
  BY <1>1, <1>2 DEF HeldIsTracked, Held, CallAtPC, Knows, Call, LeavesAll
<1> QED
  BY <1>2 DEF HeldIsTracked, LeavesAll, Closing

\* What a call holds is tracked.
LEMMA HeldStep ==
  TypeOK /\ CallAtPC /\ LiveIsTracked /\ OneReplaces /\ HeldIsTracked /\ [Next]_vars => HeldIsTracked'
<1> SUFFICES ASSUME TypeOK, CallAtPC, LiveIsTracked, OneReplaces, HeldIsTracked, [Next]_vars
             PROVE  HeldIsTracked'
  OBVIOUS
<1>0. /\ call \in [Calls -> Call \cup {None}] /\ lc \in [Lifecycles -> Lifecycle]
      /\ None \notin Lifecycles /\ live \in [Ids -> Lifecycles \cup {None}]
  BY ServerAssumption DEF TypeOK
<1> USE <1>0 DEF Closing, LcFrame, Becomes, Moves, Lifecycle
<1>1. CASE UNCHANGED vars
  BY <1>1, LcKeepsHeld DEF vars, HeldIsTracked, LeavesAll
<1>2. ASSUME NEW c \in Calls, Acquire(c)
      PROVE  HeldIsTracked'
  <2>1. Closing'
    BY <1>2, AcquireEffect DEF HeldIsTracked
  <2>2. \A d \in Calls : \A k \in Lifecycles :
          (d # c /\ Handles(d, k) /\ lc[k].vm = "dead") => lc'[k].vm = "dead"
    BY <1>2, AcquireEffect
  <2>3. (call[c] # None /\ call[c].new # None) =>
          \/ call'[c] # None /\ call'[c].new = call[c].new
          \/ call[c].new \in lifecycles'
          \/ lc'[call[c].new].vm = "dead"
    BY <1>2, AcquireEffect DEF HeldIsTracked, Held, CallAtPC, Knows
  <2>4. Leaves(c)
    BY <1>2, <2>2, <2>3, AcquireEffect DEF Leaves
  <2>5. call'[c] # None => Held(c)'
    BY <1>2, AcquireEffect DEF HeldIsTracked, Held, CallAtPC, Knows, Frame
  <2> QED
    BY <2>1, <2>4, <2>5, OthersHeld
<1>3. ASSUME NEW c \in Calls, Mark(c)
      PROVE  HeldIsTracked'
  <2>1. Closing'
    BY <1>3, MarkEffect DEF HeldIsTracked
  <2>2. \A d \in Calls : \A k \in Lifecycles :
          (d # c /\ Handles(d, k) /\ lc[k].vm = "dead") => lc'[k].vm = "dead"
    BY <1>3, MarkEffect
  <2>3. (call[c] # None /\ call[c].new # None) =>
          \/ call'[c] # None /\ call'[c].new = call[c].new
          \/ call[c].new \in lifecycles'
          \/ lc'[call[c].new].vm = "dead"
    BY <1>3, MarkEffect DEF HeldIsTracked, Held, CallAtPC, Knows
  <2>4. Leaves(c)
    BY <1>3, <2>2, <2>3, MarkEffect DEF Leaves
  <2>5. call'[c] # None => Held(c)'
    BY <1>3, MarkEffect DEF HeldIsTracked, Held, CallAtPC, Knows, Frame
  <2> QED
    BY <2>1, <2>4, <2>5, OthersHeld
<1>4. ASSUME NEW c \in Calls, StopOld(c)
      PROVE  HeldIsTracked'
  <2>0. \A k \in Lifecycles : lc'[k].vm = lc[k].vm
    BY <1>4, StopOldEffect
  <2>1. Closing'
    BY <1>4, StopOldEffect DEF HeldIsTracked
  <2>2. \A d \in Calls : \A k \in Lifecycles :
          (d # c /\ Handles(d, k) /\ lc[k].vm = "dead") => lc'[k].vm = "dead"
    BY <1>4, StopOldEffect
  <2>3. (call[c] # None /\ call[c].new # None) =>
          \/ call'[c] # None /\ call'[c].new = call[c].new
          \/ call[c].new \in lifecycles'
          \/ lc'[call[c].new].vm = "dead"
    BY <1>4, <2>0, StopOldEffect DEF HeldIsTracked, Held, CallAtPC, Knows, Call
  <2>4. Leaves(c)
    BY <1>4, <2>2, <2>3, StopOldEffect DEF Leaves
  <2>5. call'[c] # None => Held(c)'
    BY <1>4, StopOldEffect DEF HeldIsTracked, Held, CallAtPC, Knows, Frame
  <2> QED
    BY <2>1, <2>4, <2>5, OthersHeld
<1>5. ASSUME NEW c \in Calls, Snapshot(c)
      PROVE  HeldIsTracked'
  <2>1. Closing'
    BY <1>5, SnapshotEffect DEF HeldIsTracked
  <2>2. \A d \in Calls : \A k \in Lifecycles :
          (d # c /\ Handles(d, k) /\ lc[k].vm = "dead") => lc'[k].vm = "dead"
    BY <1>5, SnapshotEffect
  <2>3. (call[c] # None /\ call[c].new # None) =>
          \/ call'[c] # None /\ call'[c].new = call[c].new
          \/ call[c].new \in lifecycles'
          \/ lc'[call[c].new].vm = "dead"
    BY <1>5, SnapshotEffect DEF HeldIsTracked, Held, CallAtPC, Knows
  <2>4. Leaves(c)
    BY <1>5, <2>2, <2>3, SnapshotEffect DEF Leaves
  <2>5. call'[c] # None => Held(c)'
    BY <1>5, SnapshotEffect DEF HeldIsTracked, Held, CallAtPC, Knows, Frame
  <2> QED
    BY <2>1, <2>4, <2>5, OthersHeld
<1>6. ASSUME NEW c \in Calls, Resume(c)
      PROVE  HeldIsTracked'
  <2>1. Closing'
    BY <1>6, ResumeEffect DEF HeldIsTracked
  <2>2. \A d \in Calls : \A k \in Lifecycles :
          (d # c /\ Handles(d, k) /\ lc[k].vm = "dead") => lc'[k].vm = "dead"
    BY <1>6, ResumeEffect DEF IsFree, Handles
  <2>3. (call[c] # None /\ call[c].new # None) =>
          \/ call'[c] # None /\ call'[c].new = call[c].new
          \/ call[c].new \in lifecycles'
          \/ lc'[call[c].new].vm = "dead"
    BY <1>6, ResumeEffect DEF HeldIsTracked, Held, CallAtPC, Knows
  <2>4. Leaves(c)
    BY <1>6, <2>2, <2>3, ResumeEffect DEF Leaves
  <2>5. call'[c] # None => Held(c)'
    BY <1>6, ResumeEffect DEF HeldIsTracked, Held, CallAtPC, Knows, Frame
  <2> QED
    BY <2>1, <2>4, <2>5, OthersHeld
<1>7. ASSUME NEW c \in Calls, MarkRunning(c)
      PROVE  HeldIsTracked'
  <2>1. Closing'
    BY <1>7, MarkRunningEffect DEF HeldIsTracked
  <2>2. \A d \in Calls : \A k \in Lifecycles :
          (d # c /\ Handles(d, k) /\ lc[k].vm = "dead") => lc'[k].vm = "dead"
    BY <1>7, MarkRunningEffect
  <2>3. (call[c] # None /\ call[c].new # None) =>
          \/ call'[c] # None /\ call'[c].new = call[c].new
          \/ call[c].new \in lifecycles'
          \/ lc'[call[c].new].vm = "dead"
    BY <1>7, MarkRunningEffect DEF HeldIsTracked, Held, CallAtPC, Knows
  <2>4. Leaves(c)
    BY <1>7, <2>2, <2>3, MarkRunningEffect DEF Leaves
  <2>5. call'[c] # None => Held(c)'
    BY <1>7, MarkRunningEffect DEF OneReplaces, Replacing, HeldIsTracked, Held, CallAtPC, Knows, Frame
  <2> QED
    BY <2>1, <2>4, <2>5, OthersHeld
<1>8. ASSUME NEW c \in Calls, TrackLifecycle(c)
      PROVE  HeldIsTracked'
  <2>1. Closing'
    BY <1>8, TrackLifecycleEffect DEF HeldIsTracked
  <2>2. \A d \in Calls : \A k \in Lifecycles :
          (d # c /\ Handles(d, k) /\ lc[k].vm = "dead") => lc'[k].vm = "dead"
    BY <1>8, TrackLifecycleEffect
  <2>3. (call[c] # None /\ call[c].new # None) =>
          \/ call'[c] # None /\ call'[c].new = call[c].new
          \/ call[c].new \in lifecycles'
          \/ lc'[call[c].new].vm = "dead"
    BY <1>8, TrackLifecycleEffect DEF HeldIsTracked, Held, CallAtPC, Knows
  <2>4. Leaves(c)
    BY <1>8, <2>2, <2>3, TrackLifecycleEffect DEF Leaves
  <2>5. call'[c] # None => Held(c)'
    BY <1>8, TrackLifecycleEffect DEF HeldIsTracked, Held, CallAtPC, Knows, Frame
  <2> QED
    BY <2>1, <2>4, <2>5, OthersHeld
<1>9. ASSUME NEW c \in Calls, SetupLifecycle(c)
      PROVE  HeldIsTracked'
  <2>1. Closing'
    BY <1>9, SetupLifecycleEffect DEF HeldIsTracked, Held, CallAtPC, Knows
  <2>2. \A d \in Calls : \A k \in Lifecycles :
          (d # c /\ Handles(d, k) /\ lc[k].vm = "dead") => lc'[k].vm = "dead"
    BY <1>9, SetupLifecycleEffect
  <2>3. (call[c] # None /\ call[c].new # None) =>
          \/ call'[c] # None /\ call'[c].new = call[c].new
          \/ call[c].new \in lifecycles'
          \/ lc'[call[c].new].vm = "dead"
    BY <1>9, SetupLifecycleEffect DEF HeldIsTracked, Held, CallAtPC, Knows
  <2>4. Leaves(c)
    BY <1>9, <2>2, <2>3, SetupLifecycleEffect DEF Leaves
  <2>5. call'[c] # None => Held(c)'
    BY <1>9, SetupLifecycleEffect DEF HeldIsTracked, Held, CallAtPC, Knows, Frame
  <2> QED
    BY <2>1, <2>4, <2>5, OthersHeld
<1>10. ASSUME NEW c \in Calls, UploadAsync(c)
      PROVE  HeldIsTracked'
  <2>0. \A k \in Lifecycles : lc'[k].vm = lc[k].vm
    BY <1>10, UploadAsyncEffect
  <2>1. Closing'
    BY <1>10, UploadAsyncEffect DEF HeldIsTracked
  <2>2. \A d \in Calls : \A k \in Lifecycles :
          (d # c /\ Handles(d, k) /\ lc[k].vm = "dead") => lc'[k].vm = "dead"
    BY <1>10, UploadAsyncEffect
  <2>3. (call[c] # None /\ call[c].new # None) =>
          \/ call'[c] # None /\ call'[c].new = call[c].new
          \/ call[c].new \in lifecycles'
          \/ lc'[call[c].new].vm = "dead"
    BY <1>10, UploadAsyncEffect DEF HeldIsTracked, Held, CallAtPC, Knows
  <2>4. Leaves(c)
    BY <1>10, <2>2, <2>3, UploadAsyncEffect DEF Leaves
  <2>5. call'[c] # None => Held(c)'
    BY <1>10, <2>0, UploadAsyncEffect DEF HeldIsTracked, Held, CallAtPC, Knows, Call, Frame
  <2> QED
    BY <2>1, <2>4, <2>5, OthersHeld
<1>11. ASSUME NEW c \in Calls, UploadSync(c)
      PROVE  HeldIsTracked'
  <2>1. Closing'
    BY <1>11, UploadSyncEffect DEF HeldIsTracked
  <2>2. \A d \in Calls : \A k \in Lifecycles :
          (d # c /\ Handles(d, k) /\ lc[k].vm = "dead") => lc'[k].vm = "dead"
    BY <1>11, UploadSyncEffect
  <2>3. (call[c] # None /\ call[c].new # None) =>
          \/ call'[c] # None /\ call'[c].new = call[c].new
          \/ call[c].new \in lifecycles'
          \/ lc'[call[c].new].vm = "dead"
    BY <1>11, UploadSyncEffect DEF HeldIsTracked, Held, CallAtPC, Knows
  <2>4. Leaves(c)
    BY <1>11, <2>2, <2>3, UploadSyncEffect DEF Leaves
  <2>5. call'[c] # None => Held(c)'
    BY <1>11, UploadSyncEffect DEF HeldIsTracked, Held, CallAtPC, Knows, Frame
  <2> QED
    BY <2>1, <2>4, <2>5, OthersHeld
<1>12. ASSUME NEW c \in Calls, NEW i \in Ids, BeginCreate(c, i)
      PROVE  HeldIsTracked'
  <2>1. Closing'
    BY <1>12, BeginCreateEffect DEF HeldIsTracked
  <2>2. \A d \in Calls : \A k \in Lifecycles :
          (d # c /\ Handles(d, k) /\ lc[k].vm = "dead") => lc'[k].vm = "dead"
    BY <1>12, BeginCreateEffect
  <2>3. (call[c] # None /\ call[c].new # None) =>
          \/ call'[c] # None /\ call'[c].new = call[c].new
          \/ call[c].new \in lifecycles'
          \/ lc'[call[c].new].vm = "dead"
    BY <1>12, BeginCreateEffect DEF HeldIsTracked, Held, CallAtPC, Knows
  <2>4. Leaves(c)
    BY <1>12, <2>2, <2>3, BeginCreateEffect DEF Leaves
  <2>5. call'[c] # None => Held(c)'
    BY <1>12, BeginCreateEffect DEF HeldIsTracked, Held, CallAtPC, Knows, Frame
  <2> QED
    BY <2>1, <2>4, <2>5, OthersHeld
<1>13. ASSUME NEW c \in Calls, NEW op \in Op \ {"create"}, NEW i \in Ids, BeginCall(c, op, i)
      PROVE  HeldIsTracked'
  <2>1. Closing'
    BY <1>13, BeginCallEffect DEF HeldIsTracked
  <2>2. \A d \in Calls : \A k \in Lifecycles :
          (d # c /\ Handles(d, k) /\ lc[k].vm = "dead") => lc'[k].vm = "dead"
    BY <1>13, BeginCallEffect
  <2>3. (call[c] # None /\ call[c].new # None) =>
          \/ call'[c] # None /\ call'[c].new = call[c].new
          \/ call[c].new \in lifecycles'
          \/ lc'[call[c].new].vm = "dead"
    BY <1>13, BeginCallEffect DEF HeldIsTracked, Held, CallAtPC, Knows
  <2>4. Leaves(c)
    BY <1>13, <2>2, <2>3, BeginCallEffect DEF Leaves
  <2>5. Held(c)'
    <3>1. live[i] \in lifecycles \/ \E d \in Calls : call[d] # None /\ call[d].new = live[i]
      BY <1>13, BeginCallEffect DEF LiveIsTracked, At
    <3>2. live[i] \in lifecycles' \/ \E d \in Calls : call'[d] # None /\ call'[d].new = live[i]
      BY <1>13, <3>1, BeginCallEffect DEF Frame
    <3>3. call'[c].old = live[i] /\ call'[c].new = None /\ call'[c].pc # "setup"
      BY <1>13, BeginCallEffect
    <3> QED
      BY <3>2, <3>3 DEF Held
  <2> QED
    BY <2>1, <2>4, <2>5, OthersHeld
<1>14. ASSUME NEW l \in Lifecycles, Stop(l)
      PROVE  HeldIsTracked'
  <2>1. Closing' /\ LeavesAll
    BY <1>14, StopEffect DEF HeldIsTracked, LeavesAll
  <2> QED
    BY <2>1, LcKeepsHeld
<1>15. ASSUME NEW l \in Lifecycles, Cleanup(l)
      PROVE  HeldIsTracked'
  <2>1. Closing' /\ LeavesAll
    BY <1>15, CleanupEffect DEF HeldIsTracked, LeavesAll
  <2> QED
    BY <2>1, LcKeepsHeld
<1>16. ASSUME NEW l \in Lifecycles, MarkStopped(l)
      PROVE  HeldIsTracked'
  <2>1. Closing' /\ LeavesAll
    BY <1>16, MarkStoppedEffect DEF HeldIsTracked, LeavesAll
  <2> QED
    BY <2>1, LcKeepsHeld
<1>17. ASSUME NEW l \in Lifecycles, Exit(l)
      PROVE  HeldIsTracked'
  <2>1. Closing' /\ LeavesAll
    BY <1>17, ExitEffect DEF HeldIsTracked, LeavesAll
  <2> QED
    BY <2>1, LcKeepsHeld
<1>18. ASSUME NEW l \in Lifecycles, UploadDone(l)
      PROVE  HeldIsTracked'
  <2>1. Closing' /\ LeavesAll
    BY <1>18, UploadDoneEffect DEF HeldIsTracked, LeavesAll
  <2> QED
    BY <2>1, LcKeepsHeld
<1>19. CASE SetLimit
  BY <1>19, LcKeepsHeld DEF SetLimit, HeldIsTracked, LeavesAll
<1>20. CASE Signal
  BY <1>20, LcKeepsHeld DEF Signal, HeldIsTracked, LeavesAll
<1>21. CASE Drain
  BY <1>21, LcKeepsHeld DEF Drain, HeldIsTracked, LeavesAll
<1>22. CASE WaitLifecycles
  BY <1>22, LcKeepsHeld DEF WaitLifecycles, HeldIsTracked, LeavesAll
<1>23. CASE GracefulStop
  BY <1>23, LcKeepsHeld DEF GracefulStop, HeldIsTracked, LeavesAll
<1>24. CASE CloseServer
  BY <1>24, LcKeepsHeld DEF CloseServer, HeldIsTracked, LeavesAll
<1> QED
  BY <1>1, <1>2, <1>3, <1>4, <1>5, <1>6, <1>7, <1>8, <1>9, <1>10, <1>11, <1>12, <1>13, <1>14,
     <1>15, <1>16, <1>17, <1>18, <1>19, <1>20, <1>21, <1>22, <1>23, <1>24 DEF Next, CallStep,
     LifecycleStep, Shutdown

\* No step leaves a VM to nobody.
LEMMA VMStep == TypeOK /\ CallAtPC /\ OneReplaces /\ VMsHeld /\ [Next]_vars => VMsHeld'
<1> SUFFICES ASSUME TypeOK, CallAtPC, OneReplaces, VMsHeld, [Next]_vars PROVE VMsHeld'
  OBVIOUS
<1>0. /\ call \in [Calls -> Call \cup {None}] /\ lc \in [Lifecycles -> Lifecycle]
      /\ None \notin Lifecycles /\ live \in [Ids -> Lifecycles \cup {None}]
  BY ServerAssumption DEF TypeOK
<1> USE <1>0 DEF LiveSet, VMsHeld, Owns, Frame, LcFrame, Becomes, Moves, Lifecycle
<1>1. CASE UNCHANGED vars
  BY <1>1 DEF vars
<1>2. ASSUME NEW c \in Calls, Acquire(c)
      PROVE  VMsHeld'
  BY <1>2, AcquireEffect DEF CallAtPC, Knows
<1>3. ASSUME NEW c \in Calls, Mark(c)
      PROVE  VMsHeld'
  BY <1>3, MarkEffect DEF CallAtPC, Knows
<1>4. ASSUME NEW c \in Calls, StopOld(c)
      PROVE  VMsHeld'
  BY <1>4, StopOldEffect DEF CallAtPC, Knows
<1>5. ASSUME NEW c \in Calls, Snapshot(c)
      PROVE  VMsHeld'
  BY <1>5, SnapshotEffect DEF CallAtPC, Knows
<1>6. ASSUME NEW c \in Calls, Resume(c)
      PROVE  VMsHeld'
  <2>1. ASSUME NEW l \in Lifecycles, IsFree(l), LcFrame(l), lc'[l].id = call[c].id,
               Moves(c, "insert"), call'[c].new = l
        PROVE  VMsHeld'
    <3>1. Owns(c, l)' /\ call[c].id \in Ids
      BY <1>6, <2>1, ResumeEffect DEF Call
    <3>2. ASSUME NEW k \in Lifecycles, k # l, lc'[k].vm \in {"up", "paused"}
          PROVE  /\ lc'[k].id \in Ids
                 /\ live'[lc'[k].id] = k \/ lc'[k].stopping \/ \E d \in Calls : Owns(d, k)'
      <4>1. lc'[k] = lc[k] /\ UNCHANGED live /\ Frame(c)
        BY <1>6, <2>1, <3>2, ResumeEffect
      <4>2. ASSUME NEW d \in Calls, Owns(d, k) PROVE Owns(d, k)'
        BY <1>6, <2>1, <4>1, <4>2, ResumeEffect
      <4> QED
        BY <3>2, <4>1, <4>2
    <3> QED
      BY <2>1, <3>1, <3>2
  <2>2. ASSUME call[c].op = "create", call'[c] = None, UNCHANGED lc
        PROVE  VMsHeld'
    BY <1>6, <2>2, ResumeEffect DEF CallAtPC, Knows
  <2>3. ASSUME Moves(c, "stop"), UNCHANGED lc
        PROVE  VMsHeld'
    BY <1>6, <2>3, ResumeEffect
  <2> QED
    BY <1>6, <2>1, <2>2, <2>3, ResumeEffect
<1>7. ASSUME NEW c \in Calls, MarkRunning(c)
      PROVE  VMsHeld'
  BY <1>7, MarkRunningEffect DEF CallAtPC, Knows, OneReplaces, Replacing
<1>8. ASSUME NEW c \in Calls, TrackLifecycle(c)
      PROVE  VMsHeld'
  BY <1>8, TrackLifecycleEffect DEF CallAtPC, Knows
<1>9. ASSUME NEW c \in Calls, SetupLifecycle(c)
      PROVE  VMsHeld'
  <2>1. \A k \in Lifecycles :
          lc'[k].id = lc[k].id /\ lc'[k].vm = lc[k].vm /\ (lc'[k].stopping <=> lc[k].stopping)
    BY <1>9, SetupLifecycleEffect
  <2>2. \A k \in Lifecycles : \A d \in Calls : Owns(d, k) => Owns(d, k)'
    BY <1>9, SetupLifecycleEffect DEF CallAtPC, Knows
  <2>3. UNCHANGED live
    BY <1>9, SetupLifecycleEffect
  <2> HIDE DEF Owns
  <2> QED
    BY <2>1, <2>2, <2>3
<1>10. ASSUME NEW c \in Calls, UploadAsync(c)
      PROVE  VMsHeld'
  BY <1>10, UploadAsyncEffect, SMTT(30) DEF CallAtPC, Knows
<1>11. ASSUME NEW c \in Calls, UploadSync(c)
      PROVE  VMsHeld'
  BY <1>11, UploadSyncEffect DEF CallAtPC, Knows
<1>12. ASSUME NEW c \in Calls, NEW i \in Ids, BeginCreate(c, i)
      PROVE  VMsHeld'
  BY <1>12, BeginCreateEffect DEF CallAtPC, Knows
<1>13. ASSUME NEW c \in Calls, NEW op \in Op \ {"create"}, NEW i \in Ids, BeginCall(c, op, i)
      PROVE  VMsHeld'
  BY <1>13, BeginCallEffect DEF CallAtPC, Knows
<1>14. ASSUME NEW l \in Lifecycles, Stop(l)
      PROVE  VMsHeld'
  BY <1>14, StopEffect DEF CallAtPC, Knows
<1>15. ASSUME NEW l \in Lifecycles, Cleanup(l)
      PROVE  VMsHeld'
  BY <1>15, CleanupEffect DEF CallAtPC, Knows
<1>16. ASSUME NEW l \in Lifecycles, MarkStopped(l)
      PROVE  VMsHeld'
  BY <1>16, MarkStoppedEffect DEF CallAtPC, Knows
<1>17. ASSUME NEW l \in Lifecycles, Exit(l)
      PROVE  VMsHeld'
  BY <1>17, ExitEffect DEF CallAtPC, Knows
<1>18. ASSUME NEW l \in Lifecycles, UploadDone(l)
      PROVE  VMsHeld'
  BY <1>18, UploadDoneEffect DEF CallAtPC, Knows
<1>19. CASE SetLimit
  BY <1>19 DEF SetLimit
<1>20. CASE Signal
  BY <1>20 DEF Signal
<1>21. CASE Drain
  BY <1>21 DEF Drain
<1>22. CASE WaitLifecycles
  BY <1>22 DEF WaitLifecycles
<1>23. CASE GracefulStop
  BY <1>23 DEF GracefulStop
<1>24. CASE CloseServer
  BY <1>24 DEF CloseServer
<1> QED
  BY <1>1, <1>2, <1>3, <1>4, <1>5, <1>6, <1>7, <1>8, <1>9, <1>10, <1>11, <1>12, <1>13, <1>14,
     <1>15, <1>16, <1>17, <1>18, <1>19, <1>20, <1>21, <1>22, <1>23, <1>24 DEF Next, CallStep,
     LifecycleStep, Shutdown

\* The semaphore counts the calls that hold a permit.
LEMMA PermitStep == TypeOK /\ CallAtPC /\ PermitsBalance /\ [Next]_vars => PermitsBalance'
<1> SUFFICES ASSUME TypeOK, CallAtPC, PermitsBalance, [Next]_vars PROVE PermitsBalance'
  OBVIOUS
<1>0. /\ call \in [Calls -> Call \cup {None}] /\ lc \in [Lifecycles -> Lifecycle]
      /\ None \notin Lifecycles
  BY ServerAssumption DEF TypeOK
<1> USE <1>0
<1>1. CASE UNCHANGED vars
  BY <1>1 DEF vars, PermitsBalance, Permit
<1>2. ASSUME NEW c \in Calls, Acquire(c)
      PROVE  PermitsBalance'
  <2>1. ~Permit(c) /\ Frame(c)
    BY <1>2, AcquireEffect DEF Permit
  <2>2. CASE used' = used + 1 /\ call'[c] # None
    <3>1. Permit(c)'
      BY <1>2, <2>2, AcquireEffect DEF Permit, Moves, Knows, CallAtPC, Call, Op
    <3> QED
      BY <2>1, <2>2, <3>1, OneMorePermit
  <2>3. CASE call'[c] = None /\ UNCHANGED used
    BY <2>1, <2>3, SamePermits DEF Permit
  <2> QED
    BY <1>2, <2>2, <2>3, AcquireEffect DEF Moves
<1>3. ASSUME NEW c \in Calls, Mark(c)
      PROVE  PermitsBalance'
  <2>1. CASE Return(c) /\ Release(c)
    BY <2>1, ReturnPermit
  <2>2. CASE ~(Return(c) /\ Release(c))
    BY <1>3, <2>2, MarkEffect, SamePermits DEF Permit, Moves
  <2> QED
    BY <2>1, <2>2
<1>4. ASSUME NEW c \in Calls, StopOld(c)
      PROVE  PermitsBalance'
  <2>1. CASE Return(c) /\ Release(c)
    BY <2>1, ReturnPermit
  <2>2. CASE ~(Return(c) /\ Release(c))
    BY <1>4, <2>2, StopOldEffect, SamePermits DEF Permit, Moves
  <2> QED
    BY <2>1, <2>2
<1>5. ASSUME NEW c \in Calls, Snapshot(c)
      PROVE  PermitsBalance'
  BY <1>5, SnapshotEffect, SamePermits DEF Permit, Moves
<1>6. ASSUME NEW c \in Calls, Resume(c)
      PROVE  PermitsBalance'
  <2>1. CASE Return(c) /\ Release(c)
    BY <2>1, ReturnPermit
  <2>2. CASE ~(Return(c) /\ Release(c))
    BY <1>6, <2>2, ResumeEffect, SamePermits DEF Permit, Moves
  <2> QED
    BY <2>1, <2>2
<1>7. ASSUME NEW c \in Calls, MarkRunning(c)
      PROVE  PermitsBalance'
  BY <1>7, MarkRunningEffect, SamePermits DEF Permit, Moves
<1>8. ASSUME NEW c \in Calls, TrackLifecycle(c)
      PROVE  PermitsBalance'
  BY <1>8, TrackLifecycleEffect, SamePermits DEF Permit, Moves
<1>9. ASSUME NEW c \in Calls, SetupLifecycle(c)
      PROVE  PermitsBalance'
  <2>1. CASE Return(c) /\ Release(c)
    BY <2>1, ReturnPermit
  <2>2. CASE ~(Return(c) /\ Release(c))
    BY <1>9, <2>2, SetupLifecycleEffect, SamePermits DEF Permit, Moves
  <2> QED
    BY <2>1, <2>2
<1>10. ASSUME NEW c \in Calls, UploadAsync(c)
      PROVE  PermitsBalance'
  BY <1>10, UploadAsyncEffect, SamePermits DEF Permit, Moves
<1>11. ASSUME NEW c \in Calls, UploadSync(c)
      PROVE  PermitsBalance'
  BY <1>11, UploadSyncEffect, SamePermits DEF Permit, Moves
<1>12. ASSUME NEW c \in Calls, NEW i \in Ids, BeginCreate(c, i)
      PROVE  PermitsBalance'
  BY <1>12, BeginCreateEffect, SamePermits DEF Permit, Moves
<1>13. ASSUME NEW c \in Calls, NEW op \in Op \ {"create"}, NEW i \in Ids, BeginCall(c, op, i)
      PROVE  PermitsBalance'
  BY <1>13, BeginCallEffect, SamePermits DEF Permit, Moves
<1>14. ASSUME NEW l \in Lifecycles, Stop(l)
      PROVE  PermitsBalance'
  BY <1>14, StopEffect DEF PermitsBalance, Permit
<1>15. ASSUME NEW l \in Lifecycles, Cleanup(l)
      PROVE  PermitsBalance'
  BY <1>15, CleanupEffect DEF PermitsBalance, Permit
<1>16. ASSUME NEW l \in Lifecycles, MarkStopped(l)
      PROVE  PermitsBalance'
  BY <1>16, MarkStoppedEffect DEF PermitsBalance, Permit
<1>17. ASSUME NEW l \in Lifecycles, Exit(l)
      PROVE  PermitsBalance'
  BY <1>17, ExitEffect DEF PermitsBalance, Permit
<1>18. ASSUME NEW l \in Lifecycles, UploadDone(l)
      PROVE  PermitsBalance'
  BY <1>18, UploadDoneEffect DEF PermitsBalance, Permit
<1>19. CASE SetLimit
  BY <1>19 DEF SetLimit, PermitsBalance, Permit
<1>20. CASE Signal
  BY <1>20 DEF Signal, PermitsBalance, Permit
<1>21. CASE Drain
  BY <1>21 DEF Drain, PermitsBalance, Permit
<1>22. CASE WaitLifecycles
  BY <1>22 DEF WaitLifecycles, PermitsBalance, Permit
<1>23. CASE GracefulStop
  BY <1>23 DEF GracefulStop, PermitsBalance, Permit
<1>24. CASE CloseServer
  BY <1>24 DEF CloseServer, PermitsBalance, Permit
<1> QED
  BY <1>1, <1>2, <1>3, <1>4, <1>5, <1>6, <1>7, <1>8, <1>9, <1>10, <1>11, <1>12, <1>13, <1>14,
     <1>15, <1>16, <1>17, <1>18, <1>19, <1>20, <1>21, <1>22, <1>23, <1>24 DEF Next, CallStep,
     LifecycleStep, Shutdown

\* The shutdown waits for what it says.
LEMMA ShutdownStep == TypeOK /\ CallAtPC /\ ShutdownInOrder /\ [Next]_vars => ShutdownInOrder'
<1> SUFFICES ASSUME TypeOK, CallAtPC, ShutdownInOrder, [Next]_vars PROVE ShutdownInOrder'
  OBVIOUS
<1>0. /\ call \in [Calls -> Call \cup {None}] /\ lc \in [Lifecycles -> Lifecycle]
      /\ None \notin Lifecycles
  BY ServerAssumption DEF TypeOK
<1> USE <1>0 DEF ShutdownInOrder, Serving, LcFrame, Becomes, Frame
<1>1. CASE UNCHANGED vars
  BY <1>1 DEF vars
<1>2. ASSUME NEW c \in Calls, Acquire(c)
      PROVE  ShutdownInOrder'
  BY <1>2, AcquireEffect
<1>3. ASSUME NEW c \in Calls, Mark(c)
      PROVE  ShutdownInOrder'
  BY <1>3, MarkEffect
<1>4. ASSUME NEW c \in Calls, StopOld(c)
      PROVE  ShutdownInOrder'
  BY <1>4, StopOldEffect
<1>5. ASSUME NEW c \in Calls, Snapshot(c)
      PROVE  ShutdownInOrder'
  BY <1>5, SnapshotEffect
<1>6. ASSUME NEW c \in Calls, Resume(c)
      PROVE  ShutdownInOrder'
  BY <1>6, ResumeEffect
<1>7. ASSUME NEW c \in Calls, MarkRunning(c)
      PROVE  ShutdownInOrder'
  BY <1>7, MarkRunningEffect
<1>8. ASSUME NEW c \in Calls, TrackLifecycle(c)
      PROVE  ShutdownInOrder'
  BY <1>8, TrackLifecycleEffect
<1>9. ASSUME NEW c \in Calls, SetupLifecycle(c)
      PROVE  ShutdownInOrder'
  BY <1>9, SetupLifecycleEffect
<1>10. ASSUME NEW c \in Calls, UploadAsync(c)
      PROVE  ShutdownInOrder'
  BY <1>10, UploadAsyncEffect
<1>11. ASSUME NEW c \in Calls, UploadSync(c)
      PROVE  ShutdownInOrder'
  BY <1>11, UploadSyncEffect
<1>12. ASSUME NEW c \in Calls, NEW i \in Ids, BeginCreate(c, i)
      PROVE  ShutdownInOrder'
  BY <1>12, BeginCreateEffect
<1>13. ASSUME NEW c \in Calls, NEW op \in Op \ {"create"}, NEW i \in Ids, BeginCall(c, op, i)
      PROVE  ShutdownInOrder'
  BY <1>13, BeginCallEffect
<1>14. ASSUME NEW l \in Lifecycles, Stop(l)
      PROVE  ShutdownInOrder'
  BY <1>14, StopEffect
<1>15. ASSUME NEW l \in Lifecycles, Cleanup(l)
      PROVE  ShutdownInOrder'
  BY <1>15, CleanupEffect
<1>16. ASSUME NEW l \in Lifecycles, MarkStopped(l)
      PROVE  ShutdownInOrder'
  BY <1>16, MarkStoppedEffect
<1>17. ASSUME NEW l \in Lifecycles, Exit(l)
      PROVE  ShutdownInOrder'
  BY <1>17, ExitEffect
<1>18. ASSUME NEW l \in Lifecycles, UploadDone(l)
      PROVE  ShutdownInOrder'
  BY <1>18, UploadDoneEffect
<1>19. CASE SetLimit
  BY <1>19 DEF SetLimit
<1>20. CASE Signal
  BY <1>20 DEF Signal
<1>21. CASE Drain
  BY <1>21 DEF Drain
<1>22. CASE WaitLifecycles
  BY <1>22 DEF WaitLifecycles
<1>23. CASE GracefulStop
  BY <1>23 DEF GracefulStop
<1>24. CASE CloseServer
  BY <1>24 DEF CloseServer
<1> QED
  BY <1>1, <1>2, <1>3, <1>4, <1>5, <1>6, <1>7, <1>8, <1>9, <1>10, <1>11, <1>12, <1>13, <1>14,
     <1>15, <1>16, <1>17, <1>18, <1>19, <1>20, <1>21, <1>22, <1>23, <1>24 DEF Next, CallStep,
     LifecycleStep, Shutdown

-----------------------------------------------------------------------------
(* The theorems.                                                           *)

\* What holds whatever the API does.
BaseInv == TypeOK /\ CallAtPC /\ LiveIsTracked /\ PermitsBalance /\ ShutdownInOrder

\* No call has begun and no VM runs.
LEMMA ServerInit == Init => ServerInv
<1> SUFFICES ASSUME Init PROVE ServerInv
  OBVIOUS
<1>1. /\ \A i \in Ids : live[i] = None
      /\ \A c \in Calls : call[c] = None
      /\ \A l \in Lifecycles : lc[l].vm = "none" /\ lc[l].close = "none" /\ lc[l].upload = "none"
      /\ phase = "run" /\ used = 0
  BY DEF Init, Free
<1>2. TypeOK
  BY FreeType, ServerAssumption DEF Init, TypeOK
<1>3. PermitsBalance
  <2>1. {c \in Calls : Permit(c)} = {}
    BY <1>1 DEF Permit
  <2> QED
    BY <1>1, <2>1, FS_EmptySet DEF PermitsBalance
<1> QED
  BY <1>1, <1>2, <1>3 DEF ServerInv, CallAtPC, LiveIsTracked, OneReplaces, Replacing, HeldIsTracked,
     VMsHeld, ShutdownInOrder

\* BaseInv holds throughout, under every fault.
LEMMA BaseInvariance == Spec => []BaseInv
<1>1. Init => BaseInv
  BY ServerInit DEF ServerInv, BaseInv
<1>2. BaseInv /\ [Next]_vars => BaseInv'
  BY TypeStep, KnowsStep, LiveStep, PermitStep, ShutdownStep DEF BaseInv
<1> QED
  BY <1>1, <1>2, PTL DEF Spec

\* Every variable keeps its type, under every fault.
THEOREM TypeCorrect == Spec => []TypeOK
<1>1. BaseInv => TypeOK
  BY DEF BaseInv
<1> QED
  BY <1>1, BaseInvariance, PTL

\* Every way out of Create and Checkpoint gives the permit of the starting semaphore
\* back, and no other call does, for any number of calls, limits set meanwhile and faults.
THEOREM PermitsAreReturned == Spec => []PermitsBalance
<1>1. BaseInv => PermitsBalance
  BY DEF BaseInv
<1> QED
  BY <1>1, BaseInvariance, PTL

\* A graceful shutdown ends with no upload in flight and no snapshot in the hands of a
\* call, under every fault.
THEOREM SnapshotsAreKept == Spec => []KeepsSnapshots
<1>1. BaseInv => KeepsSnapshots
  BY DEF BaseInv, ShutdownInOrder, KeepsSnapshots, Handles
<1> QED
  BY <1>1, BaseInvariance, PTL

\* A live sandbox leaves the map only by a call that holds its lifecycle or because its
\* own VM is dead, under every fault: the late cleanup of a replaced lifecycle leaves its
\* successor alone.
THEOREM SuccessorIsKept == Spec => KeepsSuccessor
<1> DEFINE Kept == \A i \in Ids : LET l == live[i] IN
             (l # None /\ live'[i] # l) => lc[l].vm = "dead" \/ \E c \in Calls : Handles(c, l)
<1>1. BaseInv /\ [Next]_vars => [Kept]_vars
  <2> SUFFICES ASSUME BaseInv, Next PROVE Kept
    OBVIOUS
  <2> SUFFICES ASSUME NEW i \in Ids, live[i] # None, live'[i] # live[i]
               PROVE  lc[live[i]].vm = "dead" \/ \E c \in Calls : Handles(c, live[i])
    OBVIOUS
  <2>0. TypeOK /\ CallAtPC
    BY DEF BaseInv
  <2>1. ASSUME NEW c \in Calls, Mark(c) PROVE Handles(c, live[i])
    BY <2>0, <2>1, MarkEffect DEF LiveSet, Handles
  <2>2. ASSUME NEW c \in Calls, MarkRunning(c) PROVE FALSE
    BY <2>0, <2>2, MarkRunningEffect DEF LiveSet
  <2>3. ASSUME NEW c \in Calls, UploadSync(c) PROVE Handles(c, live[i])
    BY <2>0, <2>3, UploadSyncEffect DEF LiveSet, Handles
  <2>4. ASSUME NEW l \in Lifecycles, Cleanup(l) PROVE lc[live[i]].vm = "dead"
    BY <2>0, <2>4, CleanupEffect
  <2>5. /\ \A c \in Calls : ~Acquire(c) /\ ~StopOld(c) /\ ~Snapshot(c) /\ ~Resume(c)
                            /\ ~TrackLifecycle(c) /\ ~SetupLifecycle(c) /\ ~UploadAsync(c)
        /\ \A c \in Calls, j \in Ids : ~BeginCreate(c, j) /\ \A op \in Op : ~BeginCall(c, op, j)
        /\ \A l \in Lifecycles : ~Stop(l) /\ ~MarkStopped(l) /\ ~Exit(l) /\ ~UploadDone(l)
        /\ ~SetLimit /\ ~Signal /\ ~Shutdown
    BY DEF Acquire, StopOld, Snapshot, Resume, TrackLifecycle, SetupLifecycle, UploadAsync,
       BeginCreate, BeginCall, Stop, MarkStopped, Exit, UploadDone, SetLimit, Signal, Shutdown,
       Drain, WaitLifecycles, GracefulStop, CloseServer
  <2> QED
    BY <2>1, <2>2, <2>3, <2>4, <2>5 DEF Next, CallStep, LifecycleStep
<1> QED
  BY <1>1, BaseInvariance, PTL DEF Spec, KeepsSuccessor

\* ServerInv holds throughout when the API creates no sandbox twice.
THEOREM ServerInvariance == ASSUME NoDuplicate PROVE Spec => []ServerInv
<1>1. ServerInv /\ [Next]_vars => ServerInv'
  BY TypeStep, KnowsStep, LiveStep, ReplaceStep, HeldStep, VMStep, PermitStep, ShutdownStep DEF ServerInv
<1> QED
  BY <1>1, ServerInit, PTL DEF Spec

\* A VM that runs or is paused is live, in the hands of a call or about to be stopped,
\* whichever step of a Create, Pause or Checkpoint fails.
THEOREM VMsAreKnown == ASSUME NoDuplicate PROVE Spec => []NoStrayVM
<1>1. ServerInv => NoStrayVM
  BY DEF ServerInv, VMsHeld, NoStrayVM, Owns, Handles
<1> QED
  BY <1>1, ServerInvariance, PTL

\* The drain waits for every lifecycle whose cleanup is outstanding.
THEOREM OutstandingIsTracked == ASSUME NoDuplicate PROVE Spec => []TracksOutstanding
<1>1. ServerInv => TracksOutstanding
  BY DEF ServerInv, HeldIsTracked, TracksOutstanding
<1> QED
  BY <1>1, ServerInvariance, PTL

\* A graceful drain does not end while a Checkpoint is between its lifecycles, but for
\* an old VM that is dead or whose Create has not returned.
THEOREM CheckpointIsSeen == ASSUME NoDuplicate PROVE Spec => DrainSeesCheckpoint
<1> DEFINE Seen == (phase = "lifecycles" /\ phase' = "grpc") =>
             \A c \in Calls : (call[c] # None /\ call[c].op = "checkpoint"
                                 /\ call[c].pc \in {"snapshot", "resume", "insert"})
                              => \/ lc[call[c].old].vm = "dead"
                                 \/ \E d \in Calls : call[d] # None /\ call[d].new = call[c].old
<1>1. ServerInv /\ [Next]_vars => [Seen]_vars
  <2> SUFFICES ASSUME ServerInv, Next, phase = "lifecycles", phase' = "grpc" PROVE Seen
    OBVIOUS
  <2>1. lifecycles = {}
    <3>1. WaitLifecycles
      BY DEF Next, CallStep, LifecycleStep, Shutdown, Acquire, Mark, StopOld, Snapshot, Resume,
         MarkRunning, TrackLifecycle, SetupLifecycle, UploadAsync, UploadSync, BeginCreate,
         BeginCall, Stop, Cleanup, MarkStopped, Exit, UploadDone, SetLimit, Signal, Drain,
         GracefulStop, CloseServer
    <3> QED
      BY <3>1 DEF WaitLifecycles
  <2>2. None \notin Lifecycles
    BY ServerAssumption
  <2>3. \A c \in Calls : call[c] # None => Knows(c) /\ Held(c)
    BY DEF ServerInv, CallAtPC, HeldIsTracked
  <2> QED
    BY <2>1, <2>2, <2>3 DEF Knows, Held
<1> QED
  BY <1>1, ServerInvariance, PTL DEF Spec, DrainSeesCheckpoint
=============================================================================
