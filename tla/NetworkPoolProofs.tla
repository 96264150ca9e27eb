-------------------------- MODULE NetworkPoolProofs --------------------------
(***************************************************************************)
(* Theorems about the pool of network slots, for any number of slots,      *)
(* sandboxes and channel sizes and under every fault. The lemmas X-Step    *)
(* preserve the conjuncts of PoolInv, one step per action.                 *)
(***************************************************************************)
EXTENDS NetworkPool, TLAPS, FiniteSetTheorems, SequenceTheorems

\* A send on a channel.
LEMMA Send ==
  ASSUME NEW q \in Seq(Slots), NEW s \in Slots
  PROVE  /\ Append(q, s) \in Seq(Slots) /\ Len(Append(q, s)) = Len(q) + 1
         /\ Range(Append(q, s)) = Range(q) \cup {s}
         /\ s \notin Range(q) /\ IsInjective(q) => IsInjective(Append(q, s))
<1>1. /\ Append(q, s) \in Seq(Slots) /\ Len(Append(q, s)) = Len(q) + 1
      /\ DOMAIN Append(q, s) = 1 .. (Len(q) + 1) /\ DOMAIN q = 1 .. Len(q) /\ Len(q) \in Nat
      /\ \A i \in 1 .. Len(q) : Append(q, s)[i] = q[i]
      /\ Append(q, s)[Len(q) + 1] = s
  BY AppendProperties, LenProperties
<1>2. Range(Append(q, s)) = Range(q) \cup {s}
  BY <1>1 DEF Range
<1>3. ASSUME s \notin Range(q), IsInjective(q) PROVE IsInjective(Append(q, s))
  BY <1>1, <1>3 DEF Range, IsInjective
<1> QED
  BY <1>1, <1>2, <1>3

\* A receive from a channel that is not empty.
LEMMA Receive ==
  ASSUME NEW q \in Seq(Slots), q # <<>>
  PROVE  /\ Head(q) \in Slots /\ Head(q) \in Range(q)
         /\ Tail(q) \in Seq(Slots) /\ Len(q) \in Nat /\ Len(Tail(q)) \in Nat /\ Len(Tail(q)) < Len(q)
         /\ IsInjective(q) => IsInjective(Tail(q)) /\ Range(Tail(q)) = Range(q) \ {Head(q)}
<1>1. /\ Head(q) \in Slots /\ Head(q) = q[1]
      /\ Tail(q) \in Seq(Slots) /\ Len(Tail(q)) = Len(q) - 1
      /\ Len(q) \in Nat \ {0}
      /\ DOMAIN Tail(q) = 1 .. (Len(q) - 1) /\ DOMAIN q = 1 .. Len(q)
      /\ \A i \in 1 .. (Len(q) - 1) : Tail(q)[i] = q[i + 1]
  BY HeadTailProperties, LenProperties, EmptySeq
<1>2. Head(q) \in Range(q)
  BY <1>1 DEF Range
<1>3. ASSUME IsInjective(q) PROVE IsInjective(Tail(q))
  BY <1>1, <1>3 DEF IsInjective
<1>4. ASSUME IsInjective(q) PROVE Range(Tail(q)) = Range(q) \ {Head(q)}
  <2>1. ASSUME NEW x \in Range(Tail(q)) PROVE x \in Range(q) \ {Head(q)}
    BY <1>1, <1>4, <2>1 DEF Range, IsInjective
  <2>2. ASSUME NEW x \in Range(q), x # Head(q) PROVE x \in Range(Tail(q))
    <3>1. PICK i \in 1 .. Len(q) : x = q[i]
      BY <1>1, <2>2 DEF Range
    <3>2. i - 1 \in 1 .. (Len(q) - 1) /\ Tail(q)[i - 1] = q[i]
      BY <1>1, <2>2, <3>1
    <3> QED
      BY <1>1, <3>1, <3>2 DEF Range
  <2> QED
    BY <2>1, <2>2
<1> QED
  BY <1>1, <1>2, <1>3, <1>4

\* The pool is empty and no thread has begun.
LEMMA PoolInit == Init => PoolInv
<1> SUFFICES ASSUME Init PROVE PoolInv
  OBVIOUS
<1> USE PoolAssumption
<1>1. newSlots = <<>> /\ reusedSlots = <<>> /\ Range(newSlots) = {} /\ Range(reusedSlots) = {}
  BY DEF Init, Range
<1>2. TypeOK
  <2>1. NoSandbox \in Sandbox /\ NoReturn \in Return
    BY DEF NoSandbox, NoReturn, Sandbox, Return, MainPC, PromisePC, ReturnPC
  <2>2. newSlots \in Seq(Slots) /\ reusedSlots \in Seq(Slots) /\ Len(newSlots) = 0 /\ Len(reusedSlots) = 0
    BY <1>1
  <2>3. sbx \in [Sandboxes -> Sandbox] /\ ret \in [Sandboxes -> Return]
    BY <2>1 DEF Init
  <2>4. pop \in [pc : {"loop", "create", "send", "stopped"}, slot : Slots \cup {None}]
    BY DEF Init
  <2>5. newClosed \in BOOLEAN /\ done \in BOOLEAN /\ closed \in BOOLEAN /\ crashed \in BOOLEAN
    BY DEF Init
  <2> QED
    BY <2>2, <2>3, <2>4, <2>5 DEF Init, TypeOK
<1>3. SlotAtPC
  BY DEF Init, SlotAtPC, NoSandbox, NoReturn, Returning
<1>4. SlotsApart
  <2>1. IsInjective(newSlots) /\ IsInjective(reusedSlots)
    BY DEF Init, IsInjective
  <2> QED
    BY <1>1, <2>1 DEF Init, SlotsApart, NoSandbox, NoReturn, Returning
<1>5. SlotsKept
  BY <1>1 DEF Init, SlotsKept, NoSandbox, NoReturn, Returning
<1>6. RoutesKnown
  BY DEF Init, RoutesKnown, NoSandbox, NoReturn
<1>7. Tracked = {} /\ ReturnsCounted
  <2>1. Tracked = {}
    BY DEF Init, Tracked, NoReturn
  <2> QED
    BY <2>1, FS_EmptySet DEF Init, ReturnsCounted, NoReturn
<1>8. ClosesInOrder
  BY DEF Init, ClosesInOrder
<1> QED
  BY <1>2, <1>3, <1>4, <1>5, <1>6, <1>7, <1>8 DEF PoolInv

\* The WaitGroup is not zero while a tracked return goes on.
LEMMA ReturnIsCounted ==
  ASSUME ReturnsCounted, TypeOK, NEW h \in Sandboxes, ret[h].tracked
  PROVE  /\ returnsWG \in Nat \ {0}
         /\ IsFiniteSet(Tracked) /\ Cardinality(Tracked \ {h}) = returnsWG - 1
<1>1. IsFiniteSet(Tracked) /\ h \in Tracked
  BY PoolAssumption, FS_Subset DEF Tracked
<1>2. Cardinality(Tracked \ {h}) = Cardinality(Tracked) - 1 /\ IsFiniteSet(Tracked \ {h})
  BY <1>1, FS_RemoveElement
<1>3. Cardinality(Tracked \ {h}) \in Nat /\ Cardinality(Tracked) \in Nat
  BY <1>1, <1>2, FS_CardinalityType
<1> QED
  BY <1>1, <1>2, <1>3 DEF ReturnsCounted

\* A return begins with the slot of its sandbox.
LEMMA ReturnBegins ==
  ASSUME TypeOK, NEW h \in Sandboxes, NEW notify \in BOOLEAN, ReturnAsync(h, notify)
  PROVE  /\ ret' \in [Sandboxes -> Return]
         /\ ret'[h].pc = "delay" /\ ret'[h].slot = sbx[h].slot
         /\ ret'[h].tracked <=> ~closed
         /\ ret'[h].notify <=> notify
         /\ \A g \in Sandboxes : g # h => ret'[g] = ret[g]
         /\ returnsWG' \in Nat
<1>1. sbx[h].slot \in Slots \cup {None} /\ ret \in [Sandboxes -> Return] /\ closed \in BOOLEAN
  BY DEF TypeOK, Sandbox
<1> DEFINE x == [pc |-> "delay", slot |-> sbx[h].slot, tracked |-> ~closed, notify |-> notify]
<1>2. x \in Return
  BY <1>1 DEF Return, ReturnPC
<1>3. ret' = [ret EXCEPT ![h] = x]
  BY DEF ReturnAsync
<1>4. returnsWG' \in Nat
  BY DEF ReturnAsync, TypeOK
<1>5. x.pc = "delay" /\ x.slot = sbx[h].slot /\ (x.tracked <=> ~closed) /\ (x.notify <=> notify)
  OBVIOUS
<1> HIDE DEF x
<1> QED
  BY <1>1, <1>2, <1>3, <1>4, <1>5

\* Every step keeps the types and the capacities of the channels.
LEMMA TypeStep == TypeOK /\ SlotAtPC /\ ReturnsCounted /\ [Next]_vars => TypeOK'
<1> SUFFICES ASSUME TypeOK, SlotAtPC, ReturnsCounted, [Next]_vars PROVE TypeOK'
  OBVIOUS
<1> USE PoolAssumption
<1>r. /\ newSlots # <<>> => Tail(newSlots) \in Seq(Slots) /\ Len(Tail(newSlots)) <= NewSize
      /\ reusedSlots # <<>> => Tail(reusedSlots) \in Seq(Slots) /\ Len(Tail(reusedSlots)) <= ReusedSize
      /\ newSlots \in Seq(Slots) /\ Len(newSlots) <= NewSize
      /\ reusedSlots \in Seq(Slots) /\ Len(reusedSlots) <= ReusedSize
  BY Receive DEF TypeOK
<1>0. sbx \in [Sandboxes -> Sandbox] /\ ret \in [Sandboxes -> Return]
  BY DEF TypeOK
<1>1. CASE UNCHANGED vars
  BY <1>1 DEF vars, TypeOK
<1>2. CASE PopulateAcquire
  BY <1>2 DEF PopulateAcquire, TypeOK, Cleanup
<1>3. CASE PopulateCreate
  BY <1>3 DEF PopulateCreate, TypeOK, Cleanup
<1>4. CASE PopulateSend
  <2>1. newSlots' \in Seq(Slots) /\ Len(newSlots') <= NewSize
    BY <1>4, Send DEF PopulateSend, TypeOK, SlotAtPC
  <2> QED
    BY <1>4, <2>1 DEF PopulateSend, TypeOK
<1>5. CASE PopulateStop
  BY <1>5 DEF PopulateStop, TypeOK, Cleanup
<1>6. CASE CloseBegin
  BY <1>6 DEF CloseBegin, TypeOK, Cleanup
<1>7. CASE CloseLock
  BY <1>7 DEF CloseLock, TypeOK, Cleanup
<1>8. CASE CloseWait
  BY <1>8 DEF CloseWait, TypeOK, Cleanup
<1>9. CASE CloseDrainNew
  <2>1. newSlots' \in Seq(Slots) /\ Len(newSlots') <= NewSize
    BY <1>9, <1>r, Zenon DEF CloseDrainNew
  <2> QED
    BY <1>9, <2>1 DEF CloseDrainNew, TypeOK, Cleanup
<1>10. CASE CloseDrainReused
  <2>1. reusedSlots' \in Seq(Slots) /\ Len(reusedSlots') <= ReusedSize
    BY <1>10, <1>r, Zenon DEF CloseDrainReused
  <2> QED
    BY <1>10, <2>1 DEF CloseDrainReused, TypeOK, Cleanup
<1>11. ASSUME NEW h \in Sandboxes, GetReused(h)
      PROVE  TypeOK'
  <2>0. reusedSlots # <<>> => Head(reusedSlots) \in Slots
    BY Receive DEF TypeOK
  <2>1. sbx' \in [Sandboxes -> Sandbox]
    BY <1>11, <1>0, <2>0 DEF GetReused, Promise, TakeSlot, Sandbox, MainPC, PromisePC
  <2>2. reusedSlots' \in Seq(Slots) /\ Len(reusedSlots') <= ReusedSize
    BY <1>11, <1>r, Zenon DEF GetReused
  <2> QED
    BY <1>11, <2>1, <2>2 DEF GetReused, Promise, TakeSlot, TypeOK, poolVars
<1>12. ASSUME NEW h \in Sandboxes, GetNew(h)
      PROVE  TypeOK'
  <2>0. newSlots # <<>> => Head(newSlots) \in Slots
    BY Receive DEF TypeOK
  <2>1. sbx' \in [Sandboxes -> Sandbox]
    BY <1>12, <1>0, <2>0 DEF GetNew, Promise, TakeSlot, Sandbox, MainPC, PromisePC
  <2>2. newSlots' \in Seq(Slots) /\ Len(newSlots') <= NewSize
    BY <1>12, <1>r, Zenon DEF GetNew
  <2> QED
    BY <1>12, <2>1, <2>2 DEF GetNew, Promise, TakeSlot, TypeOK, poolVars
<1>13. ASSUME NEW h \in Sandboxes, Configure(h)
      PROVE  TypeOK'
  <2>1. sbx' \in [Sandboxes -> Sandbox]
    BY <1>13, <1>0 DEF Configure, Promise, ReturnAsync, Sandbox, MainPC, PromisePC
  <2>2. ret' \in [Sandboxes -> Return] /\ returnsWG' \in Nat
    BY <1>13, ReturnBegins, <1>0 DEF Configure, Promise, TypeOK
  <2> QED
    BY <1>13, <2>1, <2>2 DEF Configure, Promise, ReturnAsync, TypeOK, poolVars
<1>14. ASSUME NEW h \in Sandboxes, CleanupAdd(h)
      PROVE  TypeOK'
  <2>1. sbx' \in [Sandboxes -> Sandbox]
    BY <1>14, <1>0 DEF CleanupAdd, Promise, ReturnAsync, Sandbox, MainPC, PromisePC
  <2>2. ret' \in [Sandboxes -> Return] /\ returnsWG' \in Nat
    BY <1>14, ReturnBegins, <1>0 DEF CleanupAdd, Promise, TypeOK
  <2> QED
    BY <1>14, <2>1, <2>2 DEF CleanupAdd, Promise, ReturnAsync, TypeOK, poolVars
<1>15. ASSUME NEW h \in Sandboxes, CleanupAppend(h)
      PROVE  TypeOK'
  <2>1. sbx' \in [Sandboxes -> Sandbox]
    BY <1>15, <1>0, ZenonT(60) DEF CleanupAppend, Sandbox, MainPC, PromisePC
  <2> QED
    BY <1>15, <2>1 DEF CleanupAppend, TypeOK, poolVars
<1>16. ASSUME NEW h \in Sandboxes, Start(h)
      PROVE  TypeOK'
  <2>1. sbx' \in [Sandboxes -> Sandbox]
    BY <1>16, <1>0, ZenonT(60) DEF Start, Sandbox, MainPC, PromisePC
  <2> QED
    BY <1>16, <2>1 DEF Start, TypeOK, poolVars
<1>17. ASSUME NEW h \in Sandboxes, WaitSlot(h)
      PROVE  TypeOK'
  <2>1. sbx' \in [Sandboxes -> Sandbox]
    BY <1>17, <1>0 DEF WaitSlot, Main, Sandbox, MainPC, PromisePC
  <2> QED
    BY <1>17, <2>1 DEF WaitSlot, Main, TypeOK, poolVars
<1>18. ASSUME NEW h \in Sandboxes, AssignNetwork(h)
      PROVE  TypeOK'
  <2>1. sbx' \in [Sandboxes -> Sandbox]
    BY <1>18, <1>0 DEF AssignNetwork, Main, Sandbox, MainPC, PromisePC
  <2> QED
    BY <1>18, <2>1 DEF AssignNetwork, Main, TypeOK, poolVars
<1>19. ASSUME NEW h \in Sandboxes, Stop(h)
      PROVE  TypeOK'
  <2>1. sbx' \in [Sandboxes -> Sandbox]
    BY <1>19, <1>0 DEF Stop, Main, Sandbox, MainPC, PromisePC
  <2> QED
    BY <1>19, <2>1 DEF Stop, Main, TypeOK, poolVars
<1>20. ASSUME NEW h \in Sandboxes, CleanupRun(h)
      PROVE  TypeOK'
  <2>1. sbx' \in [Sandboxes -> Sandbox]
    BY <1>20, <1>0, ZenonT(60) DEF CleanupRun, Sandbox, MainPC, PromisePC
  <2> QED
    BY <1>20, <2>1 DEF CleanupRun, TypeOK, poolVars
<1>21. ASSUME NEW h \in Sandboxes, CleanupBody(h)
      PROVE  TypeOK'
  <2>1. sbx' \in [Sandboxes -> Sandbox]
    BY <1>21, <1>0 DEF CleanupBody, Main, ReturnAsync, Sandbox, MainPC, PromisePC
  <2>2. ret' \in [Sandboxes -> Return] /\ returnsWG' \in Nat
    BY <1>21, ReturnBegins, <1>0 DEF CleanupBody, Main, TypeOK
  <2> QED
    BY <1>21, <2>1, <2>2 DEF CleanupBody, Main, ReturnAsync, TypeOK, poolVars
<1>22. ASSUME NEW h \in Sandboxes, CleanupDone(h)
      PROVE  TypeOK'
  <2>1. sbx' \in [Sandboxes -> Sandbox]
    BY <1>22, <1>0 DEF CleanupDone, Main, Sandbox, MainPC, PromisePC
  <2> QED
    BY <1>22, <2>1 DEF CleanupDone, Main, TypeOK, poolVars
<1>23. ASSUME NEW h \in Sandboxes, Retire(h)
      PROVE  TypeOK'
  <2>1. sbx' \in [Sandboxes -> Sandbox]
    BY <1>23, <1>0 DEF Retire, NoSandbox, Sandbox, MainPC, PromisePC
  <2> QED
    BY <1>23, <2>1 DEF Retire, NoSandbox, TypeOK, poolVars
<1>24. ASSUME NEW h \in Sandboxes, ReturnDelay(h)
      PROVE  TypeOK'
  <2>2. ret' \in [Sandboxes -> Return]
    BY <1>24, <1>0 DEF ReturnDelay, ReturnGoto, Return, ReturnPC
  <2> QED
    BY <1>24, <2>2 DEF ReturnDelay, ReturnGoto, TypeOK, poolVars
<1>25. ASSUME NEW h \in Sandboxes, ReturnNotify(h)
      PROVE  TypeOK'
  <2>2. ret' \in [Sandboxes -> Return]
    BY <1>25, <1>0 DEF ReturnNotify, Return, ReturnPC
  <2> QED
    BY <1>25, <2>2 DEF ReturnNotify, TypeOK, poolVars, NetworkReleased
<1>26. ASSUME NEW h \in Sandboxes, ReturnReset(h)
      PROVE  TypeOK'
  <2>2. ret' \in [Sandboxes -> Return]
    BY <1>26, <1>0 DEF ReturnReset, ReturnGoto, Return, ReturnPC
  <2> QED
    BY <1>26, <2>2 DEF ReturnReset, ReturnGoto, TypeOK, poolVars
<1>27. ASSUME NEW h \in Sandboxes, ReturnReuse(h)
      PROVE  TypeOK'
  <2>2. ret' \in [Sandboxes -> Return]
    BY <1>27, <1>0 DEF ReturnReuse, ReturnGoto, Return, ReturnPC
  <2>3. reusedSlots' \in Seq(Slots) /\ Len(reusedSlots') <= ReusedSize
    BY <1>27, Send, SMTT(30) DEF ReturnReuse, TypeOK, SlotAtPC, Returning, ReturnPC
  <2> QED
    BY <1>27, <2>2, <2>3 DEF ReturnReuse, ReturnGoto, TypeOK, poolVars
<1>28. ASSUME NEW h \in Sandboxes, ReturnClean(h)
      PROVE  TypeOK'
  <2>2. ret' \in [Sandboxes -> Return]
    BY <1>28, <1>0 DEF ReturnClean, ReturnGoto, Return, ReturnPC
  <2> QED
    BY <1>28, <2>2 DEF ReturnClean, ReturnGoto, TypeOK, poolVars, Cleanup
<1>29. ASSUME NEW h \in Sandboxes, ReturnEnd(h)
      PROVE  TypeOK'
  <2>2. ret' \in [Sandboxes -> Return]
    BY <1>29, <1>0 DEF ReturnEnd, NoReturn, Return, ReturnPC
  <2>3. returnsWG' \in Nat
    <3>1. CASE ret[h].tracked
      <4>1. returnsWG \in Nat \ {0}
        BY <3>1, ReturnIsCounted
      <4>2. returnsWG' = returnsWG - 1
        BY <1>29, <3>1 DEF ReturnEnd
      <4> QED
        BY <4>1, <4>2
    <3>2. CASE ~ret[h].tracked
      BY <1>29, <3>2 DEF ReturnEnd, TypeOK
    <3> QED
      BY <3>1, <3>2
  <2>4. network' \in [Slots -> Sandboxes \cup {None}]
    BY <1>29 DEF ReturnEnd, NetworkReleased, TypeOK
  <2> QED
    BY <1>29, <2>2, <2>3, <2>4 DEF ReturnEnd, TypeOK, poolVars
<1> QED
  BY <1>1, <1>2, <1>3, <1>4, <1>5, <1>6, <1>7, <1>8, <1>9, <1>10, <1>11, <1>12, <1>13, <1>14,
     <1>15, <1>16, <1>17, <1>18, <1>19, <1>20, <1>21, <1>22, <1>23, <1>24, <1>25, <1>26, <1>27,
     <1>28, <1>29 DEF Next, Populate, Close, PromiseStep, MainStep, ReturnStep

\* A thread has a slot where it should, and a sandbox returns its slot once.
LEMMA SlotStep == TypeOK /\ SlotAtPC /\ [Next]_vars => SlotAtPC'
<1> SUFFICES ASSUME TypeOK, SlotAtPC, [Next]_vars PROVE SlotAtPC'
  OBVIOUS
<1> USE PoolAssumption
    DEF Sandbox, Return, ReturnPC, Main, Promise, ReturnGoto, Cleanup,
        TakeSlot, ReturnAsync, NetworkReleased, NoSandbox, NoReturn, poolVars, SlotAtPC, Returning
<1>0. /\ sbx \in [Sandboxes -> Sandbox] /\ ret \in [Sandboxes -> Return]
      /\ pop \in [pc : {"loop", "create", "send", "stopped"}, slot : Slots \cup {None}]
  BY DEF TypeOK
<1>r. /\ newSlots # <<>> => Head(newSlots) \in Slots
      /\ reusedSlots # <<>> => Head(reusedSlots) \in Slots
  BY Receive DEF TypeOK
<1> USE <1>0, <1>r
<1>1. CASE UNCHANGED vars
  BY <1>1 DEF vars
<1>2. CASE PopulateAcquire
  BY <1>2 DEF PopulateAcquire
<1>3. CASE PopulateCreate
  BY <1>3 DEF PopulateCreate
<1>4. CASE PopulateSend
  BY <1>4 DEF PopulateSend
<1>5. CASE PopulateStop
  BY <1>5 DEF PopulateStop
<1>6. CASE CloseBegin
  BY <1>6 DEF CloseBegin
<1>7. CASE CloseLock
  BY <1>7 DEF CloseLock
<1>8. CASE CloseWait
  BY <1>8 DEF CloseWait
<1>9. CASE CloseDrainNew
  BY <1>9 DEF CloseDrainNew
<1>10. CASE CloseDrainReused
  BY <1>10 DEF CloseDrainReused
<1>11. ASSUME NEW h \in Sandboxes, GetReused(h)
      PROVE  SlotAtPC'
  BY <1>11 DEF GetReused
<1>12. ASSUME NEW h \in Sandboxes, GetNew(h)
      PROVE  SlotAtPC'
  BY <1>12 DEF GetNew
<1>13. ASSUME NEW h \in Sandboxes, Configure(h)
      PROVE  SlotAtPC'
  BY <1>13 DEF Configure
<1>14. ASSUME NEW h \in Sandboxes, CleanupAdd(h)
      PROVE  SlotAtPC'
  BY <1>14 DEF CleanupAdd
<1>15. ASSUME NEW h \in Sandboxes, CleanupAppend(h)
      PROVE  SlotAtPC'
  BY <1>15 DEF CleanupAppend
<1>16. ASSUME NEW h \in Sandboxes, Start(h)
      PROVE  SlotAtPC'
  BY <1>16 DEF Start
<1>17. ASSUME NEW h \in Sandboxes, WaitSlot(h)
      PROVE  SlotAtPC'
  BY <1>17 DEF WaitSlot
<1>18. ASSUME NEW h \in Sandboxes, AssignNetwork(h)
      PROVE  SlotAtPC'
  BY <1>18 DEF AssignNetwork
<1>19. ASSUME NEW h \in Sandboxes, Stop(h)
      PROVE  SlotAtPC'
  BY <1>19 DEF Stop
<1>20. ASSUME NEW h \in Sandboxes, CleanupRun(h)
      PROVE  SlotAtPC'
  BY <1>20 DEF CleanupRun
<1>21. ASSUME NEW h \in Sandboxes, CleanupBody(h)
      PROVE  SlotAtPC'
  BY <1>21 DEF CleanupBody
<1>22. ASSUME NEW h \in Sandboxes, CleanupDone(h)
      PROVE  SlotAtPC'
  BY <1>22 DEF CleanupDone
<1>23. ASSUME NEW h \in Sandboxes, Retire(h)
      PROVE  SlotAtPC'
  BY <1>23 DEF Retire
<1>24. ASSUME NEW h \in Sandboxes, ReturnDelay(h)
      PROVE  SlotAtPC'
  BY <1>24 DEF ReturnDelay
<1>25. ASSUME NEW h \in Sandboxes, ReturnNotify(h)
      PROVE  SlotAtPC'
  BY <1>25 DEF ReturnNotify
<1>26. ASSUME NEW h \in Sandboxes, ReturnReset(h)
      PROVE  SlotAtPC'
  BY <1>26 DEF ReturnReset
<1>27. ASSUME NEW h \in Sandboxes, ReturnReuse(h)
      PROVE  SlotAtPC'
  BY <1>27, SMTT(30) DEF ReturnReuse
<1>28. ASSUME NEW h \in Sandboxes, ReturnClean(h)
      PROVE  SlotAtPC'
  BY <1>28 DEF ReturnClean
<1>29. ASSUME NEW h \in Sandboxes, ReturnEnd(h)
      PROVE  SlotAtPC'
  BY <1>29 DEF ReturnEnd
<1> QED
  BY <1>1, <1>2, <1>3, <1>4, <1>5, <1>6, <1>7, <1>8, <1>9, <1>10, <1>11, <1>12, <1>13, <1>14,
     <1>15, <1>16, <1>17, <1>18, <1>19, <1>20, <1>21, <1>22, <1>23, <1>24, <1>25, <1>26, <1>27,
     <1>28, <1>29 DEF Next, Populate, Close, PromiseStep, MainStep, ReturnStep

\* The slots in the channels are slots of the storage, and a receive takes one out.
LEMMA ChannelsHoldSlots ==
  ASSUME TypeOK
  PROVE  Range(newSlots) \subseteq Slots /\ Range(reusedSlots) \subseteq Slots
<1>1. \A q \in Seq(Slots) : Range(q) \subseteq Slots
  BY ElementOfSeq, LenProperties DEF Range
<1> QED
  BY <1>1 DEF TypeOK

\* A slot that a sandbox hands to its return moves from the one to the other.
LEMMA HandOver ==
  ASSUME SlotsApart, SlotsKept, NEW h \in Sandboxes,
         \A g \in Sandboxes : Returning(g) => ret[g].slot \in Slots,
         sbx[h].slot \in Slots, ret[h].pc = "none", None \notin Slots,
         sbx'[h].slot = None, ret'[h].slot = sbx[h].slot, ret'[h].pc = "delay",
         \A g \in Sandboxes : g # h => sbx'[g] = sbx[g] /\ ret'[g] = ret[g],
         UNCHANGED <<acquired, newSlots, reusedSlots, pop>>,
         Range(newSlots) \cup Range(reusedSlots) \subseteq Slots
  PROVE  SlotsApart' /\ SlotsKept'
<1>1. Returning(h)' /\ \A g \in Sandboxes : g # h => (Returning(g)' <=> Returning(g))
  BY DEF Returning, ReturnPC
<1>2. ~Returning(h)
  BY DEF Returning
<1>3. SlotsApart'
  <2>1. \A g \in Sandboxes : g # h => sbx'[g].slot = sbx[g].slot /\ ret'[g].slot = ret[g].slot
    OBVIOUS
  <2>2. ASSUME NEW f \in Sandboxes
        PROVE  /\ sbx'[f].slot \notin Range(newSlots) \cup Range(reusedSlots)
               /\ sbx'[f].slot \in Slots => sbx'[f].slot # pop.slot
               /\ Returning(f)' => /\ ret'[f].slot \notin Range(newSlots) \cup Range(reusedSlots)
                                   /\ ret'[f].slot # pop.slot
    BY <1>1, <1>2, <2>1 DEF SlotsApart
  <2>3. ASSUME NEW f \in Sandboxes, NEW g \in Sandboxes
        PROVE  /\ sbx'[g].slot \in Slots /\ sbx'[g].slot = sbx'[f].slot => g = f
               /\ Returning(g)' /\ Returning(f)' /\ ret'[g].slot = ret'[f].slot => g = f
               /\ Returning(g)' => ret'[g].slot # sbx'[f].slot
    BY <1>1, <1>2, <2>1 DEF SlotsApart
  <2> QED
    BY <2>2, <2>3 DEF SlotsApart
<1>4. SlotsKept'
  BY <1>1, <1>2 DEF SlotsKept
<1> QED
  BY <1>3, <1>4

\* Steps that move no slot.
LEMMA NoMove ==
  ASSUME SlotsApart, SlotsKept,
         \A g \in Sandboxes : /\ sbx'[g].slot = sbx[g].slot
                              /\ ret'[g].slot = ret[g].slot
                              /\ Returning(g)' <=> Returning(g),
         UNCHANGED <<acquired, newSlots, reusedSlots, pop>>
  PROVE  SlotsApart' /\ SlotsKept'
<1>1. SlotsApart'
  BY DEF SlotsApart
<1>2. SlotsKept'
  BY DEF SlotsKept
<1> QED
  BY <1>1, <1>2

\* A slot moves from one place to another: it is never in two, it is never lost on
\* its way, and it is not released while it is somewhere.
LEMMA PlaceStep ==
  TypeOK /\ SlotAtPC /\ SlotsApart /\ SlotsKept /\ [Next]_vars => SlotsApart' /\ SlotsKept'
<1> SUFFICES ASSUME TypeOK, SlotAtPC, SlotsApart, SlotsKept, [Next]_vars PROVE SlotsApart' /\ SlotsKept'
  OBVIOUS
<1> USE PoolAssumption
    DEF Sandbox, Return, ReturnPC, Main, Promise, ReturnGoto, Cleanup,
        TakeSlot, ReturnAsync, NetworkReleased, NoSandbox, NoReturn, poolVars, SlotAtPC, Returning,
        SlotsApart, SlotsKept
<1>0. /\ sbx \in [Sandboxes -> Sandbox] /\ ret \in [Sandboxes -> Return]
      /\ pop \in [pc : {"loop", "create", "send", "stopped"}, slot : Slots \cup {None}]
      /\ Range(newSlots) \subseteq Slots /\ Range(reusedSlots) \subseteq Slots
  BY ChannelsHoldSlots DEF TypeOK
<1> USE <1>0
<1>1. CASE UNCHANGED vars
  BY <1>1 DEF vars
<1>2. CASE PopulateAcquire
  BY <1>2 DEF PopulateAcquire
<1>3. CASE PopulateCreate
  BY <1>3 DEF PopulateCreate
<1>4. CASE PopulateSend
  <2>1. pop.slot \in Slots /\ newSlots' = Append(newSlots, pop.slot)
    BY <1>4 DEF PopulateSend
  <2>2. Range(newSlots') = Range(newSlots) \cup {pop.slot} /\ IsInjective(newSlots')
    BY <2>1, Send DEF TypeOK
  <2>3. /\ pop' = [pc |-> "loop", slot |-> None]
        /\ UNCHANGED <<acquired, reusedSlots, sbx, ret>>
    BY <1>4 DEF PopulateSend
  <2> QED
    BY <2>1, <2>2, <2>3
<1>5. CASE PopulateStop
  BY <1>5 DEF PopulateStop
<1>6. CASE CloseBegin
  BY <1>6 DEF CloseBegin
<1>7. CASE CloseLock
  BY <1>7 DEF CloseLock
<1>8. CASE CloseWait
  BY <1>8 DEF CloseWait
<1>9. CASE CloseDrainNew
  <2>1. CASE newSlots # <<>> /\ Cleanup(Head(newSlots)) /\ newSlots' = Tail(newSlots)
    <3>1. /\ Head(newSlots) \in Slots /\ Head(newSlots) \in Range(newSlots)
          /\ Range(newSlots') = Range(newSlots) \ {Head(newSlots)} /\ IsInjective(newSlots')
      BY <2>1, Receive DEF TypeOK
    <3>2. acquired' = acquired \ {Head(newSlots)} /\ UNCHANGED <<reusedSlots, sbx, ret, pop>>
      BY <1>9, <2>1 DEF CloseDrainNew
    <3> QED
      BY <3>1, <3>2
  <2>2. CASE UNCHANGED <<acquired, newSlots>>
    BY <1>9, <2>2 DEF CloseDrainNew
  <2> QED
    BY <1>9, <2>1, <2>2 DEF CloseDrainNew
<1>10. CASE CloseDrainReused
  <2>1. CASE reusedSlots # <<>> /\ Cleanup(Head(reusedSlots)) /\ reusedSlots' = Tail(reusedSlots)
    <3>1. /\ Head(reusedSlots) \in Slots /\ Head(reusedSlots) \in Range(reusedSlots)
          /\ Range(reusedSlots') = Range(reusedSlots) \ {Head(reusedSlots)} /\ IsInjective(reusedSlots')
      BY <2>1, Receive DEF TypeOK
    <3>2. acquired' = acquired \ {Head(reusedSlots)} /\ UNCHANGED <<newSlots, sbx, ret, pop>>
      BY <1>10, <2>1 DEF CloseDrainReused
    <3> QED
      BY <3>1, <3>2
  <2>2. CASE UNCHANGED <<acquired, reusedSlots>>
    BY <1>10, <2>2 DEF CloseDrainReused
  <2> QED
    BY <1>10, <2>1, <2>2 DEF CloseDrainReused
<1>11. ASSUME NEW h \in Sandboxes, GetReused(h)
      PROVE  SlotsApart' /\ SlotsKept'
  <2>1. CASE reusedSlots # <<>> /\ TakeSlot(h, Head(reusedSlots)) /\ reusedSlots' = Tail(reusedSlots)
    <3>1. /\ Head(reusedSlots) \in Slots /\ Head(reusedSlots) \in Range(reusedSlots)
          /\ Range(reusedSlots') = Range(reusedSlots) \ {Head(reusedSlots)} /\ IsInjective(reusedSlots')
      BY <2>1, Receive DEF TypeOK
    <3>2. /\ sbx' = [sbx EXCEPT ![h].slot = Head(reusedSlots), ![h].promise = "configure"]
          /\ sbx[h].slot = None
          /\ UNCHANGED <<acquired, newSlots, ret, pop>>
      BY <1>11, <2>1 DEF GetReused
    <3> HIDE DEF TakeSlot
    <3> QED
      BY <3>1, <3>2
  <2>2. CASE \E l \in PromisePC : Promise(h, l) /\ UNCHANGED reusedSlots
    BY <1>11, <2>2 DEF GetReused
  <2> QED
    BY <1>11, <2>1, <2>2 DEF GetReused, PromisePC
<1>12. ASSUME NEW h \in Sandboxes, GetNew(h)
      PROVE  SlotsApart' /\ SlotsKept'
  <2>1. CASE newSlots # <<>> /\ TakeSlot(h, Head(newSlots)) /\ newSlots' = Tail(newSlots)
    <3>1. /\ Head(newSlots) \in Slots /\ Head(newSlots) \in Range(newSlots)
          /\ Range(newSlots') = Range(newSlots) \ {Head(newSlots)} /\ IsInjective(newSlots')
      BY <2>1, Receive DEF TypeOK
    <3>2. /\ sbx' = [sbx EXCEPT ![h].slot = Head(newSlots), ![h].promise = "configure"]
          /\ sbx[h].slot = None
          /\ UNCHANGED <<acquired, reusedSlots, ret, pop>>
      BY <1>12, <2>1 DEF GetNew
    <3> HIDE DEF TakeSlot
    <3> QED
      BY <3>1, <3>2
  <2>2. CASE \E l \in PromisePC : Promise(h, l) /\ UNCHANGED newSlots
    BY <1>12, <2>2 DEF GetNew
  <2>3. CASE UNCHANGED <<newSlots, sbx>>
    BY <1>12, <2>3 DEF GetNew
  <2> QED
    BY <1>12, <2>1, <2>2, <2>3 DEF GetNew, PromisePC
<1>13. ASSUME NEW h \in Sandboxes, Configure(h)
      PROVE  SlotsApart' /\ SlotsKept'
  <2>1. CASE ReturnAsync(h, FALSE) /\ sbx[h].slot \in Slots /\ sbx'[h].slot = None
    <3>1. /\ ret'[h].pc = "delay" /\ ret'[h].slot = sbx[h].slot
          /\ \A g \in Sandboxes : g # h => ret'[g] = ret[g]
      BY <2>1, ReturnBegins
    <3>2. /\ \A g \in Sandboxes : g # h => sbx'[g] = sbx[g]
          /\ ret[h].pc = "none" /\ UNCHANGED <<acquired, newSlots, reusedSlots, pop>>
      BY <1>13 DEF Configure
    <3>3. \A g \in Sandboxes : Returning(g) => ret[g].slot \in Slots
      OBVIOUS
    <3> HIDE DEF Returning, SlotsApart, SlotsKept
    <3> QED
      BY <2>1, <3>1, <3>2, <3>3, HandOver
  <2>2. CASE UNCHANGED ret
    <3>1. /\ \A g \in Sandboxes : sbx'[g].slot = sbx[g].slot
          /\ UNCHANGED <<acquired, newSlots, reusedSlots, pop>>
      BY <1>13, <2>2 DEF Configure
    <3> HIDE DEF Returning, SlotsApart, SlotsKept
    <3> QED
      BY <2>2, <3>1, NoMove DEF Returning
  <2> QED
    BY <1>13, <2>1, <2>2 DEF Configure
<1>14. ASSUME NEW h \in Sandboxes, CleanupAdd(h)
      PROVE  SlotsApart' /\ SlotsKept'
  <2>1. CASE ReturnAsync(h, TRUE) /\ sbx[h].slot \in Slots /\ sbx'[h].slot = None
    <3>1. /\ ret'[h].pc = "delay" /\ ret'[h].slot = sbx[h].slot
          /\ \A g \in Sandboxes : g # h => ret'[g] = ret[g]
      BY <2>1, ReturnBegins
    <3>2. /\ \A g \in Sandboxes : g # h => sbx'[g] = sbx[g]
          /\ ret[h].pc = "none" /\ UNCHANGED <<acquired, newSlots, reusedSlots, pop>>
      BY <1>14 DEF CleanupAdd
    <3>3. \A g \in Sandboxes : Returning(g) => ret[g].slot \in Slots
      OBVIOUS
    <3> HIDE DEF Returning, SlotsApart, SlotsKept
    <3> QED
      BY <2>1, <3>1, <3>2, <3>3, HandOver
  <2>2. CASE UNCHANGED ret
    <3>1. /\ \A g \in Sandboxes : sbx'[g].slot = sbx[g].slot
          /\ UNCHANGED <<acquired, newSlots, reusedSlots, pop>>
      BY <1>14, <2>2 DEF CleanupAdd
    <3> HIDE DEF Returning, SlotsApart, SlotsKept
    <3> QED
      BY <2>2, <3>1, NoMove DEF Returning
  <2> QED
    BY <1>14, <2>1, <2>2 DEF CleanupAdd
<1>15. ASSUME NEW h \in Sandboxes, CleanupAppend(h)
      PROVE  SlotsApart' /\ SlotsKept'
  <2>1. \A g \in Sandboxes :
           /\ sbx'[g].slot = sbx[g].slot /\ ret'[g].slot = ret[g].slot
           /\ Returning(g)' <=> Returning(g)
    BY <1>15 DEF CleanupAppend
  <2>2. UNCHANGED <<acquired, newSlots, reusedSlots, pop>>
    BY <1>15 DEF CleanupAppend
  <2> HIDE DEF Returning, SlotsApart, SlotsKept
  <2> QED
    BY <2>1, <2>2, NoMove
<1>16. ASSUME NEW h \in Sandboxes, Start(h)
      PROVE  SlotsApart' /\ SlotsKept'
  <2>1. \A g \in Sandboxes :
           /\ sbx'[g].slot = sbx[g].slot /\ ret'[g].slot = ret[g].slot
           /\ Returning(g)' <=> Returning(g)
    BY <1>16 DEF Start
  <2>2. UNCHANGED <<acquired, newSlots, reusedSlots, pop>>
    BY <1>16 DEF Start
  <2> HIDE DEF Returning, SlotsApart, SlotsKept
  <2> QED
    BY <2>1, <2>2, NoMove
<1>17. ASSUME NEW h \in Sandboxes, WaitSlot(h)
      PROVE  SlotsApart' /\ SlotsKept'
  <2>1. \A g \in Sandboxes :
           /\ sbx'[g].slot = sbx[g].slot /\ ret'[g].slot = ret[g].slot
           /\ Returning(g)' <=> Returning(g)
    BY <1>17 DEF WaitSlot
  <2>2. UNCHANGED <<acquired, newSlots, reusedSlots, pop>>
    BY <1>17 DEF WaitSlot
  <2> HIDE DEF Returning, SlotsApart, SlotsKept
  <2> QED
    BY <2>1, <2>2, NoMove
<1>18. ASSUME NEW h \in Sandboxes, AssignNetwork(h)
      PROVE  SlotsApart' /\ SlotsKept'
  <2>1. \A g \in Sandboxes :
           /\ sbx'[g].slot = sbx[g].slot /\ ret'[g].slot = ret[g].slot
           /\ Returning(g)' <=> Returning(g)
    BY <1>18 DEF AssignNetwork
  <2>2. UNCHANGED <<acquired, newSlots, reusedSlots, pop>>
    BY <1>18 DEF AssignNetwork
  <2> HIDE DEF Returning, SlotsApart, SlotsKept
  <2> QED
    BY <2>1, <2>2, NoMove
<1>19. ASSUME NEW h \in Sandboxes, Stop(h)
      PROVE  SlotsApart' /\ SlotsKept'
  <2>1. \A g \in Sandboxes :
           /\ sbx'[g].slot = sbx[g].slot /\ ret'[g].slot = ret[g].slot
           /\ Returning(g)' <=> Returning(g)
    BY <1>19 DEF Stop
  <2>2. UNCHANGED <<acquired, newSlots, reusedSlots, pop>>
    BY <1>19 DEF Stop
  <2> HIDE DEF Returning, SlotsApart, SlotsKept
  <2> QED
    BY <2>1, <2>2, NoMove
<1>20. ASSUME NEW h \in Sandboxes, CleanupRun(h)
      PROVE  SlotsApart' /\ SlotsKept'
  <2>1. \A g \in Sandboxes :
           /\ sbx'[g].slot = sbx[g].slot /\ ret'[g].slot = ret[g].slot
           /\ Returning(g)' <=> Returning(g)
    BY <1>20 DEF CleanupRun
  <2>2. UNCHANGED <<acquired, newSlots, reusedSlots, pop>>
    BY <1>20 DEF CleanupRun
  <2> HIDE DEF Returning, SlotsApart, SlotsKept
  <2> QED
    BY <2>1, <2>2, NoMove
<1>21. ASSUME NEW h \in Sandboxes, CleanupBody(h)
      PROVE  SlotsApart' /\ SlotsKept'
  <2>1. CASE sbx[h].listed
    <3>0. /\ sbx[h].promise = "added" /\ sbx[h].slot \in Slots /\ ret[h].pc = "none"
          /\ ReturnAsync(h, TRUE)
          /\ sbx' = [sbx EXCEPT ![h].main = "body", ![h].listed = FALSE, ![h].slot = None]
      BY <1>21, <2>1 DEF CleanupBody, PromisePC
    <3>1. /\ ret'[h].pc = "delay" /\ ret'[h].slot = sbx[h].slot
          /\ \A g \in Sandboxes : g # h => ret'[g] = ret[g]
      BY <3>0, ReturnBegins
    <3>2. /\ \A g \in Sandboxes : g # h => sbx'[g] = sbx[g]
          /\ sbx'[h].slot = None /\ UNCHANGED <<acquired, newSlots, reusedSlots, pop>>
      BY <1>21, <3>0 DEF CleanupBody
    <3>3. \A g \in Sandboxes : Returning(g) => ret[g].slot \in Slots
      OBVIOUS
    <3> HIDE DEF Returning, SlotsApart, SlotsKept
    <3> QED
      BY <3>0, <3>1, <3>2, <3>3, HandOver
  <2>2. CASE ~sbx[h].listed
    <3>1. /\ \A g \in Sandboxes : sbx'[g].slot = sbx[g].slot
          /\ UNCHANGED <<ret, acquired, newSlots, reusedSlots, pop>>
      BY <1>21, <2>2 DEF CleanupBody
    <3> HIDE DEF Returning, SlotsApart, SlotsKept
    <3> QED
      BY <3>1, NoMove DEF Returning
  <2> QED
    BY <2>1, <2>2
<1>22. ASSUME NEW h \in Sandboxes, CleanupDone(h)
      PROVE  SlotsApart' /\ SlotsKept'
  <2>1. \A g \in Sandboxes :
           /\ sbx'[g].slot = sbx[g].slot /\ ret'[g].slot = ret[g].slot
           /\ Returning(g)' <=> Returning(g)
    BY <1>22 DEF CleanupDone
  <2>2. UNCHANGED <<acquired, newSlots, reusedSlots, pop>>
    BY <1>22 DEF CleanupDone
  <2> HIDE DEF Returning, SlotsApart, SlotsKept
  <2> QED
    BY <2>1, <2>2, NoMove
<1>23. ASSUME NEW h \in Sandboxes, Retire(h)
      PROVE  SlotsApart' /\ SlotsKept'
  BY <1>23 DEF Retire
<1>24. ASSUME NEW h \in Sandboxes, ReturnDelay(h)
      PROVE  SlotsApart' /\ SlotsKept'
  <2>1. \A g \in Sandboxes :
           /\ sbx'[g].slot = sbx[g].slot /\ ret'[g].slot = ret[g].slot
           /\ Returning(g)' <=> Returning(g)
    BY <1>24 DEF ReturnDelay
  <2>2. UNCHANGED <<acquired, newSlots, reusedSlots, pop>>
    BY <1>24 DEF ReturnDelay
  <2> HIDE DEF Returning, SlotsApart, SlotsKept
  <2> QED
    BY <2>1, <2>2, NoMove
<1>25. ASSUME NEW h \in Sandboxes, ReturnNotify(h)
      PROVE  SlotsApart' /\ SlotsKept'
  <2>1. \A g \in Sandboxes :
           /\ sbx'[g].slot = sbx[g].slot /\ ret'[g].slot = ret[g].slot
           /\ Returning(g)' <=> Returning(g)
    BY <1>25 DEF ReturnNotify
  <2>2. UNCHANGED <<acquired, newSlots, reusedSlots, pop>>
    BY <1>25 DEF ReturnNotify
  <2> HIDE DEF Returning, SlotsApart, SlotsKept
  <2> QED
    BY <2>1, <2>2, NoMove
<1>26. ASSUME NEW h \in Sandboxes, ReturnReset(h)
      PROVE  SlotsApart' /\ SlotsKept'
  <2>1. \A g \in Sandboxes :
           /\ sbx'[g].slot = sbx[g].slot /\ ret'[g].slot = ret[g].slot
           /\ Returning(g)' <=> Returning(g)
    BY <1>26 DEF ReturnReset
  <2>2. UNCHANGED <<acquired, newSlots, reusedSlots, pop>>
    BY <1>26 DEF ReturnReset
  <2> HIDE DEF Returning, SlotsApart, SlotsKept
  <2> QED
    BY <2>1, <2>2, NoMove
<1>27. ASSUME NEW h \in Sandboxes, ReturnReuse(h)
      PROVE  SlotsApart' /\ SlotsKept'
  <2>1. CASE reusedSlots' = Append(reusedSlots, ret[h].slot) /\ ReturnGoto(h, "end")
    <3>1. ret[h].slot \in Slots /\ Returning(h)
      BY <1>27 DEF ReturnReuse
    <3>2. Range(reusedSlots') = Range(reusedSlots) \cup {ret[h].slot} /\ IsInjective(reusedSlots')
      BY <2>1, <3>1, Send DEF TypeOK
    <3>3. /\ ret' = [ret EXCEPT ![h].pc = "end"] /\ UNCHANGED <<acquired, newSlots, sbx, pop>>
      BY <1>27, <2>1 DEF ReturnReuse
    <3> QED
      BY <3>1, <3>2, <3>3
  <2>2. CASE UNCHANGED reusedSlots /\ ReturnGoto(h, "clean")
    <3>1. /\ ret' = [ret EXCEPT ![h].pc = "clean"] /\ ret[h].pc = "reuse"
          /\ UNCHANGED <<acquired, newSlots, reusedSlots, sbx, pop>>
      BY <1>27, <2>2 DEF ReturnReuse
    <3> QED
      BY <3>1
  <2> QED
    BY <1>27, <2>1, <2>2 DEF ReturnReuse
<1>28. ASSUME NEW h \in Sandboxes, ReturnClean(h)
      PROVE  SlotsApart' /\ SlotsKept'
  BY <1>28 DEF ReturnClean
<1>29. ASSUME NEW h \in Sandboxes, ReturnEnd(h)
      PROVE  SlotsApart' /\ SlotsKept'
  BY <1>29 DEF ReturnEnd
<1> QED
  BY <1>1, <1>2, <1>3, <1>4, <1>5, <1>6, <1>7, <1>8, <1>9, <1>10, <1>11, <1>12, <1>13, <1>14,
     <1>15, <1>16, <1>17, <1>18, <1>19, <1>20, <1>21, <1>22, <1>23, <1>24, <1>25, <1>26, <1>27,
     <1>28, <1>29 DEF Next, Populate, Close, PromiseStep, MainStep, ReturnStep

\* The routes stay right when none is set or dropped, and no sandbox loses the slot
\* of its route.
LEMMA RoutesSame ==
  ASSUME RoutesKnown, UNCHANGED network, ~done' => ~done,
         ~done => \A g \in Sandboxes, s \in Slots : MayRoute(g, s) => MayRoute(g, s)',
         \A g \in Sandboxes : sbx'[g].main = "up" =>
             sbx[g].main = "up" /\ sbx'[g].slot = sbx[g].slot,
         ~done => \A g \in Sandboxes :
             ret'[g].pc \in {"reset", "reuse", "clean", "end"} => ~ret'[g].notify
  PROVE  RoutesKnown'
  BY DEF RoutesKnown

\* While the pool is open, a route is dropped before its slot can be taken again.
LEMMA RouteStep ==
  TypeOK /\ SlotAtPC /\ SlotsApart /\ RoutesKnown /\ [Next]_vars => RoutesKnown'
<1> SUFFICES ASSUME TypeOK, SlotAtPC, SlotsApart, RoutesKnown, [Next]_vars PROVE RoutesKnown'
  OBVIOUS
<1> USE PoolAssumption
    DEF Sandbox, Return, ReturnPC, MainPC, PromisePC, Main, Promise, ReturnGoto, Cleanup,
        TakeSlot, ReturnAsync, NetworkReleased, NoSandbox, NoReturn, poolVars,
        SlotAtPC, Returning, SlotsApart, RoutesKnown, MayRoute
<1>0. /\ sbx \in [Sandboxes -> Sandbox] /\ ret \in [Sandboxes -> Return]
      /\ network \in [Slots -> Sandboxes \cup {None}]
  BY DEF TypeOK
<1>r. /\ newSlots # <<>> => Head(newSlots) \in Slots
      /\ reusedSlots # <<>> => Head(reusedSlots) \in Slots
  BY Receive DEF TypeOK
<1> USE <1>0, <1>r
<1>1. CASE UNCHANGED vars
  BY <1>1 DEF vars
<1>2. CASE PopulateAcquire
  BY <1>2 DEF PopulateAcquire
<1>3. CASE PopulateCreate
  BY <1>3 DEF PopulateCreate
<1>4. CASE PopulateSend
  BY <1>4 DEF PopulateSend
<1>5. CASE PopulateStop
  BY <1>5 DEF PopulateStop
<1>6. CASE CloseBegin
  BY <1>6 DEF CloseBegin
<1>7. CASE CloseLock
  BY <1>7 DEF CloseLock
<1>8. CASE CloseWait
  BY <1>8 DEF CloseWait
<1>9. CASE CloseDrainNew
  BY <1>9 DEF CloseDrainNew
<1>10. CASE CloseDrainReused
  BY <1>10 DEF CloseDrainReused
<1>11. ASSUME NEW h \in Sandboxes, GetReused(h)
      PROVE  RoutesKnown'
  <2>1. UNCHANGED <<network, done>>
    BY <1>11 DEF GetReused
  <2>2. ~done => \A g \in Sandboxes, s \in Slots : MayRoute(g, s) => MayRoute(g, s)'
    BY <1>11, SMTT(30) DEF GetReused
  <2>3. \A g \in Sandboxes : sbx'[g].main = "up" =>
           sbx[g].main = "up" /\ sbx'[g].slot = sbx[g].slot
    BY <1>11 DEF GetReused
  <2>4. ~done => \A g \in Sandboxes :
           ret'[g].pc \in {"reset", "reuse", "clean", "end"} => ~ret'[g].notify
    BY <1>11 DEF GetReused
  <2> HIDE DEF RoutesKnown, MayRoute
  <2> QED
    BY <2>1, <2>2, <2>3, <2>4, RoutesSame
<1>12. ASSUME NEW h \in Sandboxes, GetNew(h)
      PROVE  RoutesKnown'
  <2>1. UNCHANGED <<network, done>>
    BY <1>12 DEF GetNew
  <2>2. ~done => \A g \in Sandboxes, s \in Slots : MayRoute(g, s) => MayRoute(g, s)'
    BY <1>12 DEF GetNew
  <2>3. \A g \in Sandboxes : sbx'[g].main = "up" =>
           sbx[g].main = "up" /\ sbx'[g].slot = sbx[g].slot
    BY <1>12 DEF GetNew
  <2>4. ~done => \A g \in Sandboxes :
           ret'[g].pc \in {"reset", "reuse", "clean", "end"} => ~ret'[g].notify
    BY <1>12 DEF GetNew
  <2> HIDE DEF RoutesKnown, MayRoute
  <2> QED
    BY <2>1, <2>2, <2>3, <2>4, RoutesSame
<1>13. ASSUME NEW h \in Sandboxes, Configure(h)
      PROVE  RoutesKnown'
  <2>0. \/ UNCHANGED ret
        \/ /\ \A g \in Sandboxes : g # h => ret'[g] = ret[g]
           /\ ret'[h].pc = "delay"
    BY <1>13, ReturnBegins DEF Configure
  <2>a. ~sbx[h].listed /\ sbx[h].main # "up" /\ ret[h].pc = "none"
    BY <1>13 DEF Configure
  <2>b. sbx'[h].main = sbx[h].main /\ \A g \in Sandboxes : g # h => sbx'[g] = sbx[g]
    BY <1>13 DEF Configure
  <2>1. UNCHANGED <<network, done>>
    BY <1>13 DEF Configure
  <2>2. ~done => \A g \in Sandboxes, s \in Slots : MayRoute(g, s) => MayRoute(g, s)'
    BY <2>0, <2>a, <2>b
  <2>3. \A g \in Sandboxes : sbx'[g].main = "up" =>
           sbx[g].main = "up" /\ sbx'[g].slot = sbx[g].slot
    BY <2>a, <2>b
  <2>4. ~done => \A g \in Sandboxes :
           ret'[g].pc \in {"reset", "reuse", "clean", "end"} => ~ret'[g].notify
    BY <2>0
  <2> HIDE DEF RoutesKnown, MayRoute
  <2> QED
    BY <2>1, <2>2, <2>3, <2>4, RoutesSame
<1>14. ASSUME NEW h \in Sandboxes, CleanupAdd(h)
      PROVE  RoutesKnown'
  <2>0. \/ UNCHANGED ret
        \/ /\ \A g \in Sandboxes : g # h => ret'[g] = ret[g]
           /\ ret'[h].pc = "delay"
    BY <1>14, ReturnBegins DEF CleanupAdd
  <2>a. ~sbx[h].listed /\ sbx[h].main # "up" /\ ret[h].pc = "none"
    BY <1>14 DEF CleanupAdd
  <2>b. sbx'[h].main = sbx[h].main /\ \A g \in Sandboxes : g # h => sbx'[g] = sbx[g]
    BY <1>14 DEF CleanupAdd
  <2>1. UNCHANGED <<network, done>>
    BY <1>14 DEF CleanupAdd
  <2>2. ~done => \A g \in Sandboxes, s \in Slots : MayRoute(g, s) => MayRoute(g, s)'
    BY <2>0, <2>a, <2>b
  <2>3. \A g \in Sandboxes : sbx'[g].main = "up" =>
           sbx[g].main = "up" /\ sbx'[g].slot = sbx[g].slot
    BY <2>a, <2>b
  <2>4. ~done => \A g \in Sandboxes :
           ret'[g].pc \in {"reset", "reuse", "clean", "end"} => ~ret'[g].notify
    BY <2>0
  <2> HIDE DEF RoutesKnown, MayRoute
  <2> QED
    BY <2>1, <2>2, <2>3, <2>4, RoutesSame
<1>15. ASSUME NEW h \in Sandboxes, CleanupAppend(h)
      PROVE  RoutesKnown'
  BY <1>15 DEF CleanupAppend
<1>16. ASSUME NEW h \in Sandboxes, Start(h)
      PROVE  RoutesKnown'
  <2>1. UNCHANGED <<network, done>>
    BY <1>16 DEF Start
  <2>2. ~done => \A g \in Sandboxes, s \in Slots : MayRoute(g, s) => MayRoute(g, s)'
    BY <1>16 DEF Start
  <2>3. \A g \in Sandboxes : sbx'[g].main = "up" =>
           sbx[g].main = "up" /\ sbx'[g].slot = sbx[g].slot
    BY <1>16 DEF Start
  <2>4. ~done => \A g \in Sandboxes :
           ret'[g].pc \in {"reset", "reuse", "clean", "end"} => ~ret'[g].notify
    BY <1>16 DEF Start
  <2> HIDE DEF RoutesKnown, MayRoute
  <2> QED
    BY <2>1, <2>2, <2>3, <2>4, RoutesSame
<1>17. ASSUME NEW h \in Sandboxes, WaitSlot(h)
      PROVE  RoutesKnown'
  <2>1. UNCHANGED <<network, done>>
    BY <1>17 DEF WaitSlot
  <2>2. ~done => \A g \in Sandboxes, s \in Slots : MayRoute(g, s) => MayRoute(g, s)'
    BY <1>17 DEF WaitSlot
  <2>3. \A g \in Sandboxes : sbx'[g].main = "up" =>
           sbx[g].main = "up" /\ sbx'[g].slot = sbx[g].slot
    BY <1>17 DEF WaitSlot
  <2>4. ~done => \A g \in Sandboxes :
           ret'[g].pc \in {"reset", "reuse", "clean", "end"} => ~ret'[g].notify
    BY <1>17 DEF WaitSlot
  <2> HIDE DEF RoutesKnown, MayRoute
  <2> QED
    BY <2>1, <2>2, <2>3, <2>4, RoutesSame
<1>18. ASSUME NEW h \in Sandboxes, AssignNetwork(h)
      PROVE  RoutesKnown'
  BY <1>18 DEF AssignNetwork
<1>19. ASSUME NEW h \in Sandboxes, Stop(h)
      PROVE  RoutesKnown'
  BY <1>19 DEF Stop
<1>20. ASSUME NEW h \in Sandboxes, CleanupRun(h)
      PROVE  RoutesKnown'
  BY <1>20 DEF CleanupRun
<1>21. ASSUME NEW h \in Sandboxes, CleanupBody(h)
      PROVE  RoutesKnown'
  <2>0. \/ /\ sbx[h].listed /\ ret[h].pc = "none"
           /\ \A g \in Sandboxes : g # h => ret'[g] = ret[g]
           /\ ret'[h].pc = "delay" /\ ret'[h].slot = sbx[h].slot /\ ret'[h].notify
        \/ ~sbx[h].listed /\ UNCHANGED ret
    BY <1>21, ReturnBegins DEF CleanupBody
  <2>a. sbx'[h].main \in {"body", "ended"} /\ \A g \in Sandboxes : g # h => sbx'[g] = sbx[g]
    BY <1>21 DEF CleanupBody
  <2>1. UNCHANGED <<network, done>>
    BY <1>21 DEF CleanupBody
  <2>2. ~done => \A g \in Sandboxes, s \in Slots : MayRoute(g, s) => MayRoute(g, s)'
    BY <2>0, <2>a
  <2>3. \A g \in Sandboxes : sbx'[g].main = "up" =>
           sbx[g].main = "up" /\ sbx'[g].slot = sbx[g].slot
    BY <2>a
  <2>4. ~done => \A g \in Sandboxes :
           ret'[g].pc \in {"reset", "reuse", "clean", "end"} => ~ret'[g].notify
    BY <2>0
  <2> HIDE DEF RoutesKnown, MayRoute
  <2> QED
    BY <2>1, <2>2, <2>3, <2>4, RoutesSame
<1>22. ASSUME NEW h \in Sandboxes, CleanupDone(h)
      PROVE  RoutesKnown'
  BY <1>22 DEF CleanupDone
<1>23. ASSUME NEW h \in Sandboxes, Retire(h)
      PROVE  RoutesKnown'
  BY <1>23 DEF Retire
<1>24. ASSUME NEW h \in Sandboxes, ReturnDelay(h)
      PROVE  RoutesKnown'
  <2>1. UNCHANGED <<network, done>>
    BY <1>24 DEF ReturnDelay
  <2>2. ~done => \A g \in Sandboxes, s \in Slots : MayRoute(g, s) => MayRoute(g, s)'
    BY <1>24 DEF ReturnDelay
  <2>3. \A g \in Sandboxes : sbx'[g].main = "up" =>
           sbx[g].main = "up" /\ sbx'[g].slot = sbx[g].slot
    BY <1>24 DEF ReturnDelay
  <2>4. ~done => \A g \in Sandboxes :
           ret'[g].pc \in {"reset", "reuse", "clean", "end"} => ~ret'[g].notify
    BY <1>24 DEF ReturnDelay
  <2> HIDE DEF RoutesKnown, MayRoute
  <2> QED
    BY <2>1, <2>2, <2>3, <2>4, RoutesSame
<1>25. ASSUME NEW h \in Sandboxes, ReturnNotify(h)
      PROVE  RoutesKnown'
  BY <1>25 DEF ReturnNotify
<1>26. ASSUME NEW h \in Sandboxes, ReturnReset(h)
      PROVE  RoutesKnown'
  <2>1. UNCHANGED <<network, done>>
    BY <1>26 DEF ReturnReset
  <2>2. ~done => \A g \in Sandboxes, s \in Slots : MayRoute(g, s) => MayRoute(g, s)'
    BY <1>26 DEF ReturnReset
  <2>3. \A g \in Sandboxes : sbx'[g].main = "up" =>
           sbx[g].main = "up" /\ sbx'[g].slot = sbx[g].slot
    BY <1>26 DEF ReturnReset
  <2>a. /\ \A g \in Sandboxes : g # h => ret'[g] = ret[g]
        /\ ret'[h].notify <=> ret[h].notify /\ ret[h].pc \in {"reset", "reuse"}
    BY <1>26 DEF ReturnReset
  <2>4. ~done => \A g \in Sandboxes :
           ret'[g].pc \in {"reset", "reuse", "clean", "end"} => ~ret'[g].notify
    BY <2>a
  <2> HIDE DEF RoutesKnown, MayRoute
  <2> QED
    BY <2>1, <2>2, <2>3, <2>4, RoutesSame
<1>27. ASSUME NEW h \in Sandboxes, ReturnReuse(h)
      PROVE  RoutesKnown'
  <2>1. UNCHANGED <<network, done>>
    BY <1>27 DEF ReturnReuse
  <2>2. ~done => \A g \in Sandboxes, s \in Slots : MayRoute(g, s) => MayRoute(g, s)'
    BY <1>27 DEF ReturnReuse
  <2>3. \A g \in Sandboxes : sbx'[g].main = "up" =>
           sbx[g].main = "up" /\ sbx'[g].slot = sbx[g].slot
    BY <1>27 DEF ReturnReuse
  <2>a. /\ \A g \in Sandboxes : g # h => ret'[g] = ret[g]
        /\ ret'[h].notify <=> ret[h].notify /\ ret[h].pc \in {"reset", "reuse"}
    BY <1>27 DEF ReturnReuse
  <2>4. ~done => \A g \in Sandboxes :
           ret'[g].pc \in {"reset", "reuse", "clean", "end"} => ~ret'[g].notify
    BY <2>a
  <2> HIDE DEF RoutesKnown, MayRoute
  <2> QED
    BY <2>1, <2>2, <2>3, <2>4, RoutesSame
<1>28. ASSUME NEW h \in Sandboxes, ReturnClean(h)
      PROVE  RoutesKnown'
  BY <1>28 DEF ReturnClean
<1>29. ASSUME NEW h \in Sandboxes, ReturnEnd(h)
      PROVE  RoutesKnown'
  BY <1>29 DEF ReturnEnd
<1> QED
  BY <1>1, <1>2, <1>3, <1>4, <1>5, <1>6, <1>7, <1>8, <1>9, <1>10, <1>11, <1>12, <1>13, <1>14,
     <1>15, <1>16, <1>17, <1>18, <1>19, <1>20, <1>21, <1>22, <1>23, <1>24, <1>25, <1>26, <1>27,
     <1>28, <1>29 DEF Next, Populate, Close, PromiseStep, MainStep, ReturnStep

\* Steps that begin and end no return.
LEMMA SameReturns ==
  ASSUME ReturnsCounted, UNCHANGED returnsWG,
         \A g \in Sandboxes : /\ ret'[g].tracked <=> ret[g].tracked
                              /\ ret'[g].pc = "none" => ret[g].pc = "none"
  PROVE  ReturnsCounted' /\ Tracked' = Tracked
<1>1. Tracked' = Tracked
  BY DEF Tracked
<1> QED
  BY <1>1 DEF ReturnsCounted

\* A return that begins is tracked unless the pool is closed.
LEMMA OneMoreReturn ==
  ASSUME TypeOK, ReturnsCounted, NEW h \in Sandboxes, NEW notify \in BOOLEAN,
         ret[h].pc = "none", ReturnAsync(h, notify)
  PROVE  ReturnsCounted' /\ (closed => Tracked' = Tracked)
<1>1. /\ ret'[h].tracked <=> ~closed
      /\ ret'[h].pc = "delay"
      /\ \A g \in Sandboxes : g # h => ret'[g] = ret[g]
  BY ReturnBegins
<1>2. ~ret[h].tracked /\ h \notin Tracked
  BY DEF ReturnsCounted, Tracked
<1>3. CASE closed
  <2>1. Tracked' = Tracked /\ UNCHANGED returnsWG
    BY <1>1, <1>2, <1>3 DEF Tracked, ReturnAsync
  <2> QED
    BY <1>1, <2>1 DEF ReturnsCounted
<1>4. CASE ~closed
  <2>1. Tracked' = Tracked \cup {h} /\ returnsWG' = returnsWG + 1
    BY <1>1, <1>4 DEF Tracked, ReturnAsync
  <2>2. IsFiniteSet(Tracked)
    BY PoolAssumption, FS_Subset DEF Tracked
  <2>3. Cardinality(Tracked \cup {h}) = Cardinality(Tracked) + 1
    BY <1>2, <2>2, FS_AddElement
  <2> QED
    BY <1>1, <1>4, <2>1, <2>3 DEF ReturnsCounted
<1> QED
  BY <1>3, <1>4

\* The WaitGroup counts every tracked return, and none begins once the pool is closed.
LEMMA CountStep ==
  TypeOK /\ SlotAtPC /\ ReturnsCounted
    /\ [Next]_vars => ReturnsCounted' /\ (closed => Tracked' \subseteq Tracked)
<1> SUFFICES ASSUME TypeOK, SlotAtPC, ReturnsCounted, [Next]_vars
             PROVE  ReturnsCounted' /\ (closed => Tracked' \subseteq Tracked)
  OBVIOUS
<1>0. sbx \in [Sandboxes -> Sandbox] /\ ret \in [Sandboxes -> Return]
  BY DEF TypeOK
<1> USE <1>0 DEF SlotAtPC, Sandbox, Return, ReturnPC, Main, Promise, ReturnGoto, poolVars
<1>1. CASE UNCHANGED vars
  <2>1. UNCHANGED <<ret, returnsWG>>
    BY <1>1 DEF vars
  <2> QED
    BY <2>1, SameReturns
<1>2. CASE PopulateAcquire
  <2>1. UNCHANGED <<ret, returnsWG>>
    BY <1>2 DEF PopulateAcquire
  <2> QED
    BY <2>1, SameReturns
<1>3. CASE PopulateCreate
  <2>1. UNCHANGED <<ret, returnsWG>>
    BY <1>3 DEF PopulateCreate
  <2> QED
    BY <2>1, SameReturns
<1>4. CASE PopulateSend
  <2>1. UNCHANGED <<ret, returnsWG>>
    BY <1>4 DEF PopulateSend
  <2> QED
    BY <2>1, SameReturns
<1>5. CASE PopulateStop
  <2>1. UNCHANGED <<ret, returnsWG>>
    BY <1>5 DEF PopulateStop
  <2> QED
    BY <2>1, SameReturns
<1>6. CASE CloseBegin
  <2>1. UNCHANGED <<ret, returnsWG>>
    BY <1>6 DEF CloseBegin
  <2> QED
    BY <2>1, SameReturns
<1>7. CASE CloseLock
  <2>1. UNCHANGED <<ret, returnsWG>>
    BY <1>7 DEF CloseLock
  <2> QED
    BY <2>1, SameReturns
<1>8. CASE CloseWait
  <2>1. UNCHANGED <<ret, returnsWG>>
    BY <1>8 DEF CloseWait
  <2> QED
    BY <2>1, SameReturns
<1>9. CASE CloseDrainNew
  <2>1. UNCHANGED <<ret, returnsWG>>
    BY <1>9 DEF CloseDrainNew
  <2> QED
    BY <2>1, SameReturns
<1>10. CASE CloseDrainReused
  <2>1. UNCHANGED <<ret, returnsWG>>
    BY <1>10 DEF CloseDrainReused
  <2> QED
    BY <2>1, SameReturns
<1>11. ASSUME NEW h \in Sandboxes, GetReused(h)
      PROVE  ReturnsCounted' /\ (closed => Tracked' \subseteq Tracked)
  <2>1. UNCHANGED <<ret, returnsWG>>
    BY <1>11 DEF GetReused
  <2> QED
    BY <2>1, SameReturns
<1>12. ASSUME NEW h \in Sandboxes, GetNew(h)
      PROVE  ReturnsCounted' /\ (closed => Tracked' \subseteq Tracked)
  <2>1. UNCHANGED <<ret, returnsWG>>
    BY <1>12 DEF GetNew
  <2> QED
    BY <2>1, SameReturns
<1>13. ASSUME NEW h \in Sandboxes, Configure(h)
      PROVE  ReturnsCounted' /\ (closed => Tracked' \subseteq Tracked)
  <2>1. \/ ret[h].pc = "none" /\ ReturnAsync(h, FALSE)
        \/ UNCHANGED <<ret, returnsWG>>
    BY <1>13 DEF Configure
  <2>2. CASE UNCHANGED <<ret, returnsWG>>
    BY <2>2, SameReturns
  <2>3. CASE ret[h].pc = "none" /\ ReturnAsync(h, FALSE)
    BY <2>3, OneMoreReturn
  <2> QED
    BY <2>1, <2>2, <2>3
<1>14. ASSUME NEW h \in Sandboxes, CleanupAdd(h)
      PROVE  ReturnsCounted' /\ (closed => Tracked' \subseteq Tracked)
  <2>1. \/ ret[h].pc = "none" /\ ReturnAsync(h, TRUE)
        \/ UNCHANGED <<ret, returnsWG>>
    BY <1>14 DEF CleanupAdd
  <2>2. CASE UNCHANGED <<ret, returnsWG>>
    BY <2>2, SameReturns
  <2>3. CASE ret[h].pc = "none" /\ ReturnAsync(h, TRUE)
    BY <2>3, OneMoreReturn
  <2> QED
    BY <2>1, <2>2, <2>3
<1>15. ASSUME NEW h \in Sandboxes, CleanupAppend(h)
      PROVE  ReturnsCounted' /\ (closed => Tracked' \subseteq Tracked)
  <2>1. UNCHANGED <<ret, returnsWG>>
    BY <1>15 DEF CleanupAppend
  <2> QED
    BY <2>1, SameReturns
<1>16. ASSUME NEW h \in Sandboxes, Start(h)
      PROVE  ReturnsCounted' /\ (closed => Tracked' \subseteq Tracked)
  <2>1. UNCHANGED <<ret, returnsWG>>
    BY <1>16 DEF Start
  <2> QED
    BY <2>1, SameReturns
<1>17. ASSUME NEW h \in Sandboxes, WaitSlot(h)
      PROVE  ReturnsCounted' /\ (closed => Tracked' \subseteq Tracked)
  <2>1. UNCHANGED <<ret, returnsWG>>
    BY <1>17 DEF WaitSlot
  <2> QED
    BY <2>1, SameReturns
<1>18. ASSUME NEW h \in Sandboxes, AssignNetwork(h)
      PROVE  ReturnsCounted' /\ (closed => Tracked' \subseteq Tracked)
  <2>1. UNCHANGED <<ret, returnsWG>>
    BY <1>18 DEF AssignNetwork
  <2> QED
    BY <2>1, SameReturns
<1>19. ASSUME NEW h \in Sandboxes, Stop(h)
      PROVE  ReturnsCounted' /\ (closed => Tracked' \subseteq Tracked)
  <2>1. UNCHANGED <<ret, returnsWG>>
    BY <1>19 DEF Stop
  <2> QED
    BY <2>1, SameReturns
<1>20. ASSUME NEW h \in Sandboxes, CleanupRun(h)
      PROVE  ReturnsCounted' /\ (closed => Tracked' \subseteq Tracked)
  <2>1. UNCHANGED <<ret, returnsWG>>
    BY <1>20 DEF CleanupRun
  <2> QED
    BY <2>1, SameReturns
<1>21. ASSUME NEW h \in Sandboxes, CleanupBody(h)
      PROVE  ReturnsCounted' /\ (closed => Tracked' \subseteq Tracked)
  <2>1. \/ ret[h].pc = "none" /\ ReturnAsync(h, TRUE)
        \/ UNCHANGED <<ret, returnsWG>>
    BY <1>21 DEF CleanupBody, PromisePC
  <2>2. CASE UNCHANGED <<ret, returnsWG>>
    BY <2>2, SameReturns
  <2>3. CASE ret[h].pc = "none" /\ ReturnAsync(h, TRUE)
    BY <2>3, OneMoreReturn
  <2> QED
    BY <2>1, <2>2, <2>3
<1>22. ASSUME NEW h \in Sandboxes, CleanupDone(h)
      PROVE  ReturnsCounted' /\ (closed => Tracked' \subseteq Tracked)
  <2>1. UNCHANGED <<ret, returnsWG>>
    BY <1>22 DEF CleanupDone
  <2> QED
    BY <2>1, SameReturns
<1>23. ASSUME NEW h \in Sandboxes, Retire(h)
      PROVE  ReturnsCounted' /\ (closed => Tracked' \subseteq Tracked)
  <2>1. UNCHANGED <<ret, returnsWG>>
    BY <1>23 DEF Retire
  <2> QED
    BY <2>1, SameReturns
<1>24. ASSUME NEW h \in Sandboxes, ReturnDelay(h)
      PROVE  ReturnsCounted' /\ (closed => Tracked' \subseteq Tracked)
  <2>0. UNCHANGED returnsWG /\ \E l \in ReturnPC \ {"none"} : ret' = [ret EXCEPT ![h].pc = l]
    BY <1>24 DEF ReturnDelay
  <2>1. /\ UNCHANGED returnsWG
        /\ \A g \in Sandboxes :
             /\ ret'[g].tracked <=> ret[g].tracked
             /\ ret'[g].pc = "none" => ret[g].pc = "none"
    BY <2>0
  <2> QED
    BY <2>1, SameReturns
<1>25. ASSUME NEW h \in Sandboxes, ReturnNotify(h)
      PROVE  ReturnsCounted' /\ (closed => Tracked' \subseteq Tracked)
  <2>0. UNCHANGED returnsWG /\ ret' = [ret EXCEPT ![h].pc = "reset", ![h].notify = FALSE]
    BY <1>25 DEF ReturnNotify
  <2>1. /\ UNCHANGED returnsWG
        /\ \A g \in Sandboxes :
             /\ ret'[g].tracked <=> ret[g].tracked
             /\ ret'[g].pc = "none" => ret[g].pc = "none"
    BY <2>0
  <2> QED
    BY <2>1, SameReturns
<1>26. ASSUME NEW h \in Sandboxes, ReturnReset(h)
      PROVE  ReturnsCounted' /\ (closed => Tracked' \subseteq Tracked)
  <2>0. UNCHANGED returnsWG /\ \E l \in ReturnPC \ {"none"} : ret' = [ret EXCEPT ![h].pc = l]
    BY <1>26 DEF ReturnReset
  <2>1. /\ UNCHANGED returnsWG
        /\ \A g \in Sandboxes :
             /\ ret'[g].tracked <=> ret[g].tracked
             /\ ret'[g].pc = "none" => ret[g].pc = "none"
    BY <2>0
  <2> QED
    BY <2>1, SameReturns
<1>27. ASSUME NEW h \in Sandboxes, ReturnReuse(h)
      PROVE  ReturnsCounted' /\ (closed => Tracked' \subseteq Tracked)
  <2>0. UNCHANGED returnsWG /\ \E l \in ReturnPC \ {"none"} : ret' = [ret EXCEPT ![h].pc = l]
    BY <1>27 DEF ReturnReuse
  <2>1. /\ UNCHANGED returnsWG
        /\ \A g \in Sandboxes :
             /\ ret'[g].tracked <=> ret[g].tracked
             /\ ret'[g].pc = "none" => ret[g].pc = "none"
    BY <2>0
  <2> QED
    BY <2>1, SameReturns
<1>28. ASSUME NEW h \in Sandboxes, ReturnClean(h)
      PROVE  ReturnsCounted' /\ (closed => Tracked' \subseteq Tracked)
  <2>0. UNCHANGED returnsWG /\ \E l \in ReturnPC \ {"none"} : ret' = [ret EXCEPT ![h].pc = l]
    BY <1>28 DEF ReturnClean
  <2>1. /\ UNCHANGED returnsWG
        /\ \A g \in Sandboxes :
             /\ ret'[g].tracked <=> ret[g].tracked
             /\ ret'[g].pc = "none" => ret[g].pc = "none"
    BY <2>0
  <2> QED
    BY <2>1, SameReturns
<1>29. ASSUME NEW h \in Sandboxes, ReturnEnd(h)
      PROVE  ReturnsCounted' /\ (closed => Tracked' \subseteq Tracked)
  <2>1. /\ ~ret'[h].tracked /\ ret'[h].pc = "none"
        /\ \A g \in Sandboxes : g # h => ret'[g] = ret[g]
    BY <1>29 DEF ReturnEnd, NoReturn
  <2>2. Tracked' = Tracked \ {h}
    BY <2>1 DEF Tracked
  <2>3. \A g \in Sandboxes : ret'[g].pc = "none" => ~ret'[g].tracked
    BY <2>1 DEF ReturnsCounted
  <2>4. CASE ret[h].tracked
    <3>1. returnsWG' = returnsWG - 1
      BY <1>29, <2>4 DEF ReturnEnd
    <3>2. Cardinality(Tracked \ {h}) = returnsWG - 1
      BY <2>4, ReturnIsCounted
    <3> QED
      BY <2>2, <2>3, <3>1, <3>2 DEF ReturnsCounted
  <2>5. CASE ~ret[h].tracked
    <3>1. returnsWG' = returnsWG /\ Tracked \ {h} = Tracked
      BY <1>29, <2>5 DEF ReturnEnd, Tracked
    <3> QED
      BY <2>2, <2>3, <3>1 DEF ReturnsCounted
  <2> QED
    BY <2>4, <2>5
<1> QED
  BY <1>1, <1>2, <1>3, <1>4, <1>5, <1>6, <1>7, <1>8, <1>9, <1>10, <1>11, <1>12, <1>13, <1>14,
     <1>15, <1>16, <1>17, <1>18, <1>19, <1>20, <1>21, <1>22, <1>23, <1>24, <1>25, <1>26, <1>27,
     <1>28, <1>29 DEF Next, Populate, Close, PromiseStep, MainStep, ReturnStep

\* Close has waited for every tracked return when it drains the channels, and nothing
\* is sent on a channel that it has drained.
LEMMA CloseStep ==
  TypeOK /\ SlotAtPC /\ ReturnsCounted /\ ClosesInOrder /\ [Next]_vars => ClosesInOrder'
<1> SUFFICES ASSUME TypeOK, SlotAtPC, ReturnsCounted, ClosesInOrder, [Next]_vars PROVE ClosesInOrder'
  OBVIOUS
<1>0. closed => Tracked' \subseteq Tracked
  BY CountStep
<1> USE <1>0 DEF ClosesInOrder, poolVars
<1>1. CASE UNCHANGED vars
  BY <1>1 DEF vars
<1>2. CASE PopulateAcquire
  BY <1>2 DEF PopulateAcquire, TypeOK
<1>3. CASE PopulateCreate
  BY <1>3 DEF PopulateCreate, TypeOK
<1>4. CASE PopulateSend
  BY <1>4 DEF PopulateSend
<1>5. CASE PopulateStop
  BY <1>5 DEF PopulateStop
<1>6. CASE CloseBegin
  BY <1>6 DEF CloseBegin
<1>7. CASE CloseLock
  BY <1>7 DEF CloseLock
<1>8. CASE CloseWait
  <2>1. Tracked = {}
    <3>1. IsFiniteSet(Tracked)
      BY PoolAssumption, FS_Subset DEF Tracked
    <3>2. Cardinality(Tracked) = 0
      BY <1>8 DEF CloseWait, ReturnsCounted
    <3> QED
      BY <3>1, <3>2, FS_EmptySet
  <2> QED
    BY <1>8, <2>1 DEF CloseWait, Tracked
<1>9. CASE CloseDrainNew
  BY <1>9 DEF CloseDrainNew
<1>10. CASE CloseDrainReused
  BY <1>10 DEF CloseDrainReused
<1>11. ASSUME NEW h \in Sandboxes, GetReused(h)
      PROVE  ClosesInOrder'
  BY <1>11 DEF GetReused
<1>12. ASSUME NEW h \in Sandboxes, GetNew(h)
      PROVE  ClosesInOrder'
  BY <1>12 DEF GetNew
<1>13. ASSUME NEW h \in Sandboxes, Configure(h)
      PROVE  ClosesInOrder'
  BY <1>13 DEF Configure
<1>14. ASSUME NEW h \in Sandboxes, CleanupAdd(h)
      PROVE  ClosesInOrder'
  BY <1>14 DEF CleanupAdd
<1>15. ASSUME NEW h \in Sandboxes, CleanupAppend(h)
      PROVE  ClosesInOrder'
  BY <1>15 DEF CleanupAppend
<1>16. ASSUME NEW h \in Sandboxes, Start(h)
      PROVE  ClosesInOrder'
  BY <1>16 DEF Start
<1>17. ASSUME NEW h \in Sandboxes, WaitSlot(h)
      PROVE  ClosesInOrder'
  BY <1>17 DEF WaitSlot
<1>18. ASSUME NEW h \in Sandboxes, AssignNetwork(h)
      PROVE  ClosesInOrder'
  BY <1>18 DEF AssignNetwork
<1>19. ASSUME NEW h \in Sandboxes, Stop(h)
      PROVE  ClosesInOrder'
  BY <1>19 DEF Stop
<1>20. ASSUME NEW h \in Sandboxes, CleanupRun(h)
      PROVE  ClosesInOrder'
  BY <1>20 DEF CleanupRun
<1>21. ASSUME NEW h \in Sandboxes, CleanupBody(h)
      PROVE  ClosesInOrder'
  BY <1>21 DEF CleanupBody
<1>22. ASSUME NEW h \in Sandboxes, CleanupDone(h)
      PROVE  ClosesInOrder'
  BY <1>22 DEF CleanupDone
<1>23. ASSUME NEW h \in Sandboxes, Retire(h)
      PROVE  ClosesInOrder'
  BY <1>23 DEF Retire
<1>24. ASSUME NEW h \in Sandboxes, ReturnDelay(h)
      PROVE  ClosesInOrder'
  BY <1>24 DEF ReturnDelay
<1>25. ASSUME NEW h \in Sandboxes, ReturnNotify(h)
      PROVE  ClosesInOrder'
  BY <1>25 DEF ReturnNotify
<1>26. ASSUME NEW h \in Sandboxes, ReturnReset(h)
      PROVE  ClosesInOrder'
  BY <1>26 DEF ReturnReset
<1>27. ASSUME NEW h \in Sandboxes, ReturnReuse(h)
      PROVE  ClosesInOrder'
  BY <1>27 DEF ReturnReuse
<1>28. ASSUME NEW h \in Sandboxes, ReturnClean(h)
      PROVE  ClosesInOrder'
  BY <1>28 DEF ReturnClean
<1>29. ASSUME NEW h \in Sandboxes, ReturnEnd(h)
      PROVE  ClosesInOrder'
  BY <1>29 DEF ReturnEnd
<1> QED
  BY <1>1, <1>2, <1>3, <1>4, <1>5, <1>6, <1>7, <1>8, <1>9, <1>10, <1>11, <1>12, <1>13, <1>14,
     <1>15, <1>16, <1>17, <1>18, <1>19, <1>20, <1>21, <1>22, <1>23, <1>24, <1>25, <1>26, <1>27,
     <1>28, <1>29 DEF Next, Populate, Close, PromiseStep, MainStep, ReturnStep

\* PoolInv holds throughout.
THEOREM PoolInvariance == Spec => []PoolInv
<1>1. PoolInv /\ [Next]_vars => PoolInv'
  BY TypeStep, SlotStep, PlaceStep, RouteStep, CountStep, CloseStep DEF PoolInv
<1> QED
  BY <1>1, PoolInit, PTL DEF Spec

\* Every variable keeps its type; in particular no channel holds more than its
\* capacity and the WaitGroup never goes below zero.
THEOREM TypeCorrect == Spec => []TypeOK
<1>1. PoolInv => TypeOK
  BY DEF PoolInv
<1> QED
  BY <1>1, PoolInvariance, PTL

\* An acquired slot is in exactly one place, in every order of Get, ReturnAsync,
\* Populate and Close, for any channel sizes.
THEOREM SlotsHaveOneOwner == Spec => []SingleOwner
<1>1. PoolInv => SingleOwner
  <2> SUFFICES ASSUME PoolInv, NEW s \in Slots
               PROVE  Cardinality(Owners(s)) = IF s \in acquired THEN 1 ELSE 0
    BY DEF SingleOwner
  <2> DEFINE P == {x \in {pop} : x.slot = s}
             N == {i \in DOMAIN newSlots : newSlots[i] = s}
             R == {i \in DOMAIN reusedSlots : reusedSlots[i] = s}
             B == {h \in Sandboxes : sbx[h].slot = s}
             T == {h \in Sandboxes : Owns(h, s)}
  <2>0. P = {} \/ P = {pop}
    OBVIOUS
  <2>1. Owners(s) = {<<"populate", x>> : x \in P} \cup {<<"new", x>> : x \in N}
                      \cup {<<"reused", x>> : x \in R} \cup {<<"sandbox", x>> : x \in B}
                      \cup {<<"return", x>> : x \in T}
    BY DEF Owners
  <2>2. /\ P # {} <=> pop.slot = s
        /\ N # {} <=> s \in Range(newSlots)
        /\ R # {} <=> s \in Range(reusedSlots)
        /\ B # {} <=> \E h \in Sandboxes : s = sbx[h].slot
        /\ T # {} <=> \E h \in Sandboxes : Returning(h) /\ s = ret[h].slot
    BY DEF Range, Owns, Returning
  <2>3. /\ \A x, y \in P : x = y
        /\ \A x, y \in N : x = y
        /\ \A x, y \in R : x = y
    BY DEF PoolInv, SlotsApart, IsInjective
  <2>4. \A x, y \in B : x = y
    BY DEF PoolInv, SlotsApart
  <2>5. \A x, y \in T : x = y
    BY DEF PoolInv, SlotsApart, Owns, Returning
  <2>6. /\ P # {} => N = {} /\ R = {} /\ B = {} /\ T = {}
        /\ N # {} => R = {} /\ B = {} /\ T = {}
        /\ R # {} => B = {} /\ T = {}
        /\ B # {} => T = {}
    BY <2>2 DEF PoolInv, SlotsApart
  <2>7. s \in acquired <=> P # {} \/ N # {} \/ R # {} \/ B # {} \/ T # {}
    BY <2>2 DEF PoolInv, SlotsKept
  <2> HIDE DEF P, N, R, B, T
  <2>8. CASE s \notin acquired
    <3>1. Owners(s) = {}
      BY <2>1, <2>7, <2>8
    <3> QED
      BY <2>8, <3>1, FS_EmptySet
  <2>9. CASE s \in acquired
    <3>1. \E x : Owners(s) = {x}
      <4>1. CASE P # {}
        <5>1. PICK x : P = {x}
          BY <2>0, <4>1
        <5>2. Owners(s) = {<<"populate", x>>}
          BY <2>1, <2>6, <4>1, <5>1
        <5> QED
          BY <5>2
      <4>2. CASE P = {} /\ N # {}
        <5>1. PICK x : N = {x}
          BY <2>3, <4>2
        <5>2. Owners(s) = {<<"new", x>>}
          BY <2>1, <2>6, <4>2, <5>1
        <5> QED
          BY <5>2
      <4>3. CASE P = {} /\ N = {} /\ R # {}
        <5>1. PICK x : R = {x}
          BY <2>3, <4>3
        <5>2. Owners(s) = {<<"reused", x>>}
          BY <2>1, <2>6, <4>3, <5>1
        <5> QED
          BY <5>2
      <4>4. CASE P = {} /\ N = {} /\ R = {} /\ B # {}
        <5>1. PICK x : B = {x}
          BY <2>4, <4>4
        <5>2. Owners(s) = {<<"sandbox", x>>}
          BY <2>1, <2>6, <4>4, <5>1
        <5> QED
          BY <5>2
      <4>5. CASE P = {} /\ N = {} /\ R = {} /\ B = {} /\ T # {}
        <5>1. PICK x : T = {x}
          BY <2>5, <4>5
        <5>2. Owners(s) = {<<"return", x>>}
          BY <2>1, <4>5, <5>1
        <5> QED
          BY <5>2
      <4> QED
        BY <2>7, <2>9, <4>1, <4>2, <4>3, <4>4, <4>5
    <3> QED
      BY <2>9, <3>1, FS_Singleton
  <2> QED
    BY <2>8, <2>9
<1> QED
  BY <1>1, PoolInvariance, PTL

\* While the pool is open, a sandbox that is up receives its traffic and a slot that
\* waits in a channel has no route left over from its last holder.
THEOREM RoutesAreRight == Spec => []RoutesToHolder
<1>1. PoolInv => RoutesToHolder
  <2> SUFFICES ASSUME PoolInv, ~done PROVE RoutesToHolder
    BY DEF RoutesToHolder
  <2>1. /\ Range(newSlots) \subseteq Slots /\ Range(reusedSlots) \subseteq Slots
    BY ChannelsHoldSlots DEF PoolInv
  <2>2. ASSUME NEW s \in Range(newSlots) \cup Range(reusedSlots) PROVE network[s] = None
    <3>1. network[s] \in Sandboxes \cup {None}
      BY <2>1, <2>2 DEF PoolInv, TypeOK
    <3>2. \A h \in Sandboxes : ~MayRoute(h, s)
      BY <2>1, <2>2 DEF PoolInv, SlotsApart, MayRoute, Returning, ReturnPC
    <3> QED
      BY <2>1, <2>2, <3>1, <3>2 DEF PoolInv, RoutesKnown
  <2>3. /\ \A i \in DOMAIN newSlots : network[newSlots[i]] = None
        /\ \A i \in DOMAIN reusedSlots : network[reusedSlots[i]] = None
    BY <2>2 DEF Range
  <2> QED
    BY <2>3 DEF PoolInv, RoutesKnown, RoutesToHolder
<1> QED
  BY <1>1, PoolInvariance, PTL

\* When Close has returned, no slot is left in the pool: what is still acquired is
\* with a sandbox that has yet to return it, with the return it runs itself, or lost
\* to the race of Cleanup.Add with Cleanup.Run.
THEOREM CloseLeavesNothing == Spec => []ClosedPoolIsEmpty
<1>1. PoolInv => ClosedPoolIsEmpty
  <2> SUFFICES ASSUME PoolInv, closer = "closed", NEW s \in acquired
               PROVE  \E h \in Sandboxes :
                         \/ sbx[h].slot = s /\ (ToReturn(h) \/ AddedTooLate(h))
                         \/ Owns(h, s) /\ ~ret[h].tracked
    BY DEF ClosedPoolIsEmpty
  <2>1. s \in Slots /\ Range(newSlots) = {} /\ Range(reusedSlots) = {}
    BY DEF PoolInv, TypeOK, ClosesInOrder, Range
  <2>2. pop.slot # s /\ \A h \in Sandboxes : ~ret[h].tracked
    BY <2>1 DEF PoolInv, ClosesInOrder, SlotAtPC, Tracked
  <2>3. \E h \in Sandboxes : s = sbx[h].slot \/ (Returning(h) /\ s = ret[h].slot)
    BY <2>1, <2>2 DEF PoolInv, SlotsKept
  <2>4. ASSUME NEW h \in Sandboxes, sbx[h].slot = s PROVE ToReturn(h) \/ AddedTooLate(h)
    <3>1. sbx[h].promise \in PromisePC /\ sbx[h].slot \in Slots /\ s # None
      BY <2>1, <2>4, PoolAssumption DEF PoolInv, TypeOK, Sandbox
    <3>2. sbx[h].promise \in {"configure", "add", "append"} \/ (sbx[h].promise = "added" /\ sbx[h].listed)
      BY <2>4, <3>1 DEF PoolInv, SlotAtPC, PromisePC
    <3> QED
      BY <3>2 DEF ToReturn, AddedTooLate
  <2> QED
    BY <2>2, <2>3, <2>4 DEF Owns, Returning
<1> QED
  BY <1>1, PoolInvariance, PTL
=============================================================================
