---------------------- MODULE SandboxReservationsProofs ----------------------
(***************************************************************************)
(* Theorems about the reservations of a team, for any number of calls, IDs *)
(* and any limit, under every fault and however calls on an ID overlap.    *)
(* The lemmas X-Step preserve the conjuncts of ReservationInv, one step    *)
(* per action.                                                             *)
(***************************************************************************)
EXTENDS SandboxReservations, TLAPS, FiniteSetTheorems

\* No call has begun and Redis is empty.
LEMMA ReservationInit == Init => ReservationInv
<1> SUFFICES ASSUME Init PROVE ReservationInv
  OBVIOUS
<1>1. TypeOK /\ KnowsId
  BY DEF Init, TypeOK, KnowsId, Calls
<1>2. ResultsAreNew
  BY NoneAssumption DEF Init, ResultsAreNew, Calls
<1>3. HoldsId /\ VMsAccounted
  BY NoneAssumption DEF Init, HoldsId, Creating, Reserving, VMsAccounted, Removing, Calls
<1>4. SlotsCounted
  <2>1. Slots = {}
    BY DEF Init, Index, Fresh, Slots
  <2> QED
    BY <2>1, FS_EmptySet, ReservationAssumption DEF SlotsCounted
<1> QED
  BY <1>1, <1>2, <1>3, <1>4 DEF ReservationInv

\* Every command keeps the types, and a call keeps the ID it began with.
LEMMA TypeStep == TypeOK /\ KnowsId /\ [Next]_vars => TypeOK' /\ KnowsId'
<1> SUFFICES ASSUME TypeOK, KnowsId, [Next]_vars PROVE TypeOK' /\ KnowsId'
  OBVIOUS
<1> USE NoneAssumption, ReservationAssumption DEF TypeOK, KnowsId, Calls, CreatorPC, RemoverPC,
        Goto, Return, Arrives,
        Granted, Fresh, EncodeResult, Mix
<1>1. CASE UNCHANGED vars
  BY <1>1 DEF vars
<1>2. ASSUME NEW r \in Creators, NEW i \in Ids, Reserve(r, i)
      PROVE  TypeOK' /\ KnowsId'
  BY <1>2 DEF Reserve
<1>3. ASSUME NEW r \in Creators, NEW i \in Ids, ReserveStored(r, i)
      PROVE  TypeOK' /\ KnowsId'
  BY <1>3 DEF ReserveStored
<1>4. ASSUME NEW r \in Creators, NEW i \in Ids, ReservePending(r, i)
      PROVE  TypeOK' /\ KnowsId'
  BY <1>4 DEF ReservePending
<1>5. ASSUME NEW r \in Creators, NEW i \in Ids, ReserveLimited(r, i)
      PROVE  TypeOK' /\ KnowsId'
  BY <1>5 DEF ReserveLimited
<1>6. ASSUME NEW r \in Creators, Start(r)
      PROVE  TypeOK' /\ KnowsId'
  BY <1>6 DEF Start
<1>7. ASSUME NEW r \in Creators, Add(r)
      PROVE  TypeOK' /\ KnowsId'
  BY <1>7 DEF Add
<1>8. ASSUME NEW r \in Creators, FinishStart(r)
      PROVE  TypeOK' /\ KnowsId'
  BY <1>8 DEF FinishStart
<1>9. ASSUME NEW r \in Creators, GetRecord(r)
      PROVE  TypeOK' /\ KnowsId'
  BY <1>9 DEF GetRecord
<1>10. ASSUME NEW r \in Creators, WaitResult(r)
      PROVE  TypeOK' /\ KnowsId'
  BY <1>10 DEF WaitResult
<1>11. ASSUME NEW r \in Creators, WaitPending(r)
      PROVE  TypeOK' /\ KnowsId'
  BY <1>11 DEF WaitPending
<1>12. ASSUME NEW r \in Creators, StartFails(r)
      PROVE  TypeOK' /\ KnowsId'
  BY <1>12 DEF StartFails
<1>13. ASSUME NEW r \in Creators, AddFails(r)
      PROVE  TypeOK' /\ KnowsId'
  BY <1>13 DEF AddFails
<1>14. ASSUME NEW r \in Creators, FinishFails(r)
      PROVE  TypeOK' /\ KnowsId'
  BY <1>14 DEF FinishFails
<1>15. ASSUME NEW r \in Creators, WaitFails(r)
      PROVE  TypeOK' /\ KnowsId'
  BY <1>15 DEF WaitFails
<1>16. ASSUME NEW r \in Creators, KillUnstored(r)
      PROVE  TypeOK' /\ KnowsId'
  BY <1>16 DEF KillUnstored
<1>17. ASSUME NEW r \in Creators, Reconcile(r)
      PROVE  TypeOK' /\ KnowsId'
  BY <1>17 DEF Reconcile
<1>18. ASSUME NEW m \in Removers, NEW i \in Ids, BeginRemove(m, i)
      PROVE  TypeOK' /\ KnowsId'
  BY <1>18 DEF BeginRemove
<1>19. ASSUME NEW m \in Removers, RemoveFromNode(m)
      PROVE  TypeOK' /\ KnowsId'
  BY <1>19 DEF RemoveFromNode
<1>20. ASSUME NEW m \in Removers, RemoveRecord(m)
      PROVE  TypeOK' /\ KnowsId'
  BY <1>20 DEF RemoveRecord
<1>21. ASSUME NEW m \in Removers, Release(m)
      PROVE  TypeOK' /\ KnowsId'
  BY <1>21 DEF Release
<1>22. ASSUME NEW m \in Removers, RemoveFromNodeFails(m)
      PROVE  TypeOK' /\ KnowsId'
  BY <1>22 DEF RemoveFromNodeFails
<1>23. ASSUME NEW m \in Removers, RemoveFails(m)
      PROVE  TypeOK' /\ KnowsId'
  BY <1>23 DEF RemoveFails
<1>24. ASSUME NEW c \in Calls, Crash(c)
      PROVE  TypeOK' /\ KnowsId'
  BY <1>24 DEF Crash
<1>25. ASSUME NEW i \in Ids, GrowStale(i)
      PROVE  TypeOK' /\ KnowsId'
  BY <1>25 DEF GrowStale
<1>26. ASSUME NEW i \in Ids, ResultExpires(i)
      PROVE  TypeOK' /\ KnowsId'
  BY <1>26 DEF ResultExpires
<1> QED
  BY <1>1, <1>2, <1>3, <1>4, <1>5, <1>6, <1>7, <1>8, <1>9, <1>10, <1>11, <1>12, <1>13, <1>14,
     <1>15, <1>16, <1>17, <1>18, <1>19, <1>20, <1>21, <1>22, <1>23, <1>24, <1>25, <1>26 DEF Next,
     CreatorStep, RemoverStep

\* A result is written by a call that is not over and together with the removal of
\* the pending entry, and a new reservation deletes it: no fault changes that.
LEMMA ResultStep == TypeOK /\ KnowsId /\ ResultsAreNew /\ [Next]_vars => ResultsAreNew'
<1> SUFFICES ASSUME TypeOK, KnowsId, ResultsAreNew, [Next]_vars PROVE ResultsAreNew'
  OBVIOUS
<1> USE NoneAssumption, ReservationAssumption
    DEF TypeOK, KnowsId, Calls, CreatorPC, RemoverPC, Goto, Return, Arrives,
        Granted, Fresh, EncodeResult, ResultsAreNew
<1>1. CASE UNCHANGED vars
  BY <1>1 DEF vars
<1>2. ASSUME NEW r \in Creators, NEW i \in Ids, Reserve(r, i)
      PROVE  ResultsAreNew'
  BY <1>2 DEF Reserve
<1>3. ASSUME NEW r \in Creators, NEW i \in Ids, ReserveStored(r, i)
      PROVE  ResultsAreNew'
  BY <1>3 DEF ReserveStored
<1>4. ASSUME NEW r \in Creators, NEW i \in Ids, ReservePending(r, i)
      PROVE  ResultsAreNew'
  <2> DEFINE over == {h \in holders : sid[h] = i /\ pc[h] \in {"done", "dead"}}
  <2>1. /\ pc[r] = "idle" /\ i \in pending /\ pending' \subseteq pending
        /\ UNCHANGED <<result, got>>
        /\ joined' = [joined EXCEPT ![r] = over] /\ Goto(r, "waitResult")
        /\ sid' = [sid EXCEPT ![r] = i]
    BY <1>4 DEF ReservePending
  <2>2. /\ over \subseteq Creators /\ got[r] \notin over /\ None \notin over
        /\ \A h \in over : h # r /\ pc[h] \in {"done", "dead"}
    BY <1>4, <2>1 DEF ReservePending
  <2>3. result[i] = None
    BY <2>1
  <2> HIDE DEF over
  <2> QED
    BY <2>1, <2>2, <2>3
<1>5. ASSUME NEW r \in Creators, NEW i \in Ids, ReserveLimited(r, i)
      PROVE  ResultsAreNew'
  BY <1>5 DEF ReserveLimited
<1>6. ASSUME NEW r \in Creators, Start(r)
      PROVE  ResultsAreNew'
  BY <1>6 DEF Start
<1>7. ASSUME NEW r \in Creators, Add(r)
      PROVE  ResultsAreNew'
  BY <1>7 DEF Add
<1>8. ASSUME NEW r \in Creators, FinishStart(r)
      PROVE  ResultsAreNew'
  BY <1>8 DEF FinishStart
<1>9. ASSUME NEW r \in Creators, GetRecord(r)
      PROVE  ResultsAreNew'
  BY <1>9 DEF GetRecord
<1>10. ASSUME NEW r \in Creators, WaitResult(r)
      PROVE  ResultsAreNew'
  BY <1>10 DEF WaitResult
<1>11. ASSUME NEW r \in Creators, WaitPending(r)
      PROVE  ResultsAreNew'
  BY <1>11 DEF WaitPending
<1>12. ASSUME NEW r \in Creators, StartFails(r)
      PROVE  ResultsAreNew'
  BY <1>12 DEF StartFails
<1>13. ASSUME NEW r \in Creators, AddFails(r)
      PROVE  ResultsAreNew'
  BY <1>13 DEF AddFails
<1>14. ASSUME NEW r \in Creators, FinishFails(r)
      PROVE  ResultsAreNew'
  BY <1>14 DEF FinishFails
<1>15. ASSUME NEW r \in Creators, WaitFails(r)
      PROVE  ResultsAreNew'
  BY <1>15 DEF WaitFails
<1>16. ASSUME NEW r \in Creators, KillUnstored(r)
      PROVE  ResultsAreNew'
  BY <1>16 DEF KillUnstored
<1>17. ASSUME NEW r \in Creators, Reconcile(r)
      PROVE  ResultsAreNew'
  BY <1>17 DEF Reconcile
<1>18. ASSUME NEW m \in Removers, NEW i \in Ids, BeginRemove(m, i)
      PROVE  ResultsAreNew'
  BY <1>18 DEF BeginRemove
<1>19. ASSUME NEW m \in Removers, RemoveFromNode(m)
      PROVE  ResultsAreNew'
  BY <1>19 DEF RemoveFromNode
<1>20. ASSUME NEW m \in Removers, RemoveRecord(m)
      PROVE  ResultsAreNew'
  BY <1>20 DEF RemoveRecord
<1>21. ASSUME NEW m \in Removers, Release(m)
      PROVE  ResultsAreNew'
  BY <1>21 DEF Release
<1>22. ASSUME NEW m \in Removers, RemoveFromNodeFails(m)
      PROVE  ResultsAreNew'
  BY <1>22 DEF RemoveFromNodeFails
<1>23. ASSUME NEW m \in Removers, RemoveFails(m)
      PROVE  ResultsAreNew'
  BY <1>23 DEF RemoveFails
<1>24. ASSUME NEW c \in Calls, Crash(c)
      PROVE  ResultsAreNew'
  BY <1>24 DEF Crash
<1>25. ASSUME NEW i \in Ids, GrowStale(i)
      PROVE  ResultsAreNew'
  BY <1>25 DEF GrowStale
<1>26. ASSUME NEW i \in Ids, ResultExpires(i)
      PROVE  ResultsAreNew'
  BY <1>26 DEF ResultExpires
<1> QED
  BY <1>1, <1>2, <1>3, <1>4, <1>5, <1>6, <1>7, <1>8, <1>9, <1>10, <1>11, <1>12, <1>13, <1>14,
     <1>15, <1>16, <1>17, <1>18, <1>19, <1>20, <1>21, <1>22, <1>23, <1>24, <1>25, <1>26 DEF Next,
     CreatorStep, RemoverStep

\* Nobody takes the pending entry or the ID of a creator, or the record of a removal.
LEMMA HoldStep == TypeOK /\ KnowsId /\ HoldsId /\ [Next]_vars => HoldsId'
<1> SUFFICES ASSUME TypeOK, KnowsId, HoldsId, [Next]_vars PROVE HoldsId'
  OBVIOUS
<1> USE NoneAssumption, ReservationAssumption
    DEF TypeOK, KnowsId, Calls, CreatorPC, RemoverPC, Goto, Return, Arrives,
        Granted, Fresh, Index, Mix, HoldsId, Creating, Reserving
<1>1. CASE UNCHANGED vars
  BY <1>1 DEF vars
<1>2. ASSUME NEW r \in Creators, NEW i \in Ids, Reserve(r, i)
      PROVE  HoldsId'
  BY <1>2 DEF Reserve, Overlaps
<1>3. ASSUME NEW r \in Creators, NEW i \in Ids, ReserveStored(r, i)
      PROVE  HoldsId'
  BY <1>3 DEF ReserveStored
<1>4. ASSUME NEW r \in Creators, NEW i \in Ids, ReservePending(r, i)
      PROVE  HoldsId'
  BY <1>4 DEF ReservePending
<1>5. ASSUME NEW r \in Creators, NEW i \in Ids, ReserveLimited(r, i)
      PROVE  HoldsId'
  BY <1>5 DEF ReserveLimited
<1>6. ASSUME NEW r \in Creators, Start(r)
      PROVE  HoldsId'
  BY <1>6 DEF Start
<1>7. ASSUME NEW r \in Creators, Add(r)
      PROVE  HoldsId'
  BY <1>7 DEF Add
<1>8. ASSUME NEW r \in Creators, FinishStart(r)
      PROVE  HoldsId'
  BY <1>8 DEF FinishStart
<1>9. ASSUME NEW r \in Creators, GetRecord(r)
      PROVE  HoldsId'
  BY <1>9 DEF GetRecord
<1>10. ASSUME NEW r \in Creators, WaitResult(r)
      PROVE  HoldsId'
  BY <1>10 DEF WaitResult
<1>11. ASSUME NEW r \in Creators, WaitPending(r)
      PROVE  HoldsId'
  BY <1>11 DEF WaitPending
<1>12. ASSUME NEW r \in Creators, StartFails(r)
      PROVE  HoldsId'
  BY <1>12 DEF StartFails
<1>13. ASSUME NEW r \in Creators, AddFails(r)
      PROVE  HoldsId'
  BY <1>13 DEF AddFails
<1>14. ASSUME NEW r \in Creators, FinishFails(r)
      PROVE  HoldsId'
  BY <1>14 DEF FinishFails
<1>15. ASSUME NEW r \in Creators, WaitFails(r)
      PROVE  HoldsId'
  BY <1>15 DEF WaitFails
<1>16. ASSUME NEW r \in Creators, KillUnstored(r)
      PROVE  HoldsId'
  BY <1>16 DEF KillUnstored
<1>17. ASSUME NEW r \in Creators, Reconcile(r)
      PROVE  HoldsId'
  BY <1>17 DEF Reconcile
<1>18. ASSUME NEW m \in Removers, NEW i \in Ids, BeginRemove(m, i)
      PROVE  HoldsId'
  BY <1>18 DEF BeginRemove
<1>19. ASSUME NEW m \in Removers, RemoveFromNode(m)
      PROVE  HoldsId'
  BY <1>19 DEF RemoveFromNode
<1>20. ASSUME NEW m \in Removers, RemoveRecord(m)
      PROVE  HoldsId'
  BY <1>20 DEF RemoveRecord
<1>21. ASSUME NEW m \in Removers, Release(m)
      PROVE  HoldsId'
  BY <1>21 DEF Release
<1>22. ASSUME NEW m \in Removers, RemoveFromNodeFails(m)
      PROVE  HoldsId'
  BY <1>22 DEF RemoveFromNodeFails
<1>23. ASSUME NEW m \in Removers, RemoveFails(m)
      PROVE  HoldsId'
  BY <1>23 DEF RemoveFails
<1>24. ASSUME NEW c \in Calls, Crash(c)
      PROVE  HoldsId'
  BY <1>24 DEF Crash
<1>25. ASSUME NEW i \in Ids, GrowStale(i)
      PROVE  HoldsId'
  BY <1>25 DEF GrowStale, Overlaps
<1>26. ASSUME NEW i \in Ids, ResultExpires(i)
      PROVE  HoldsId'
  BY <1>26 DEF ResultExpires
<1> QED
  BY <1>1, <1>2, <1>3, <1>4, <1>5, <1>6, <1>7, <1>8, <1>9, <1>10, <1>11, <1>12, <1>13, <1>14,
     <1>15, <1>16, <1>17, <1>18, <1>19, <1>20, <1>21, <1>22, <1>23, <1>24, <1>25, <1>26 DEF Next,
     CreatorStep, RemoverStep

\* A VM stays with its record until its removal stops it.
LEMMA VMStep ==
  TypeOK /\ KnowsId /\ HoldsId /\ VMsAccounted
    /\ [Next]_vars => VMsAccounted'
<1> SUFFICES ASSUME TypeOK, KnowsId, HoldsId, VMsAccounted, [Next]_vars
             PROVE  VMsAccounted'
  OBVIOUS
<1> USE NoneAssumption, ReservationAssumption
    DEF TypeOK, KnowsId, Calls, CreatorPC, RemoverPC, Goto, Return, Arrives,
        Granted, HoldsId, Creating, VMsAccounted, EncodeResult, Mix, Removing
<1>1. CASE UNCHANGED vars
  BY <1>1 DEF vars
<1>2. ASSUME NEW r \in Creators, NEW i \in Ids, Reserve(r, i)
      PROVE  VMsAccounted'
  BY <1>2 DEF Reserve
<1>3. ASSUME NEW r \in Creators, NEW i \in Ids, ReserveStored(r, i)
      PROVE  VMsAccounted'
  BY <1>3 DEF ReserveStored
<1>4. ASSUME NEW r \in Creators, NEW i \in Ids, ReservePending(r, i)
      PROVE  VMsAccounted'
  BY <1>4 DEF ReservePending
<1>5. ASSUME NEW r \in Creators, NEW i \in Ids, ReserveLimited(r, i)
      PROVE  VMsAccounted'
  BY <1>5 DEF ReserveLimited
<1>6. ASSUME NEW r \in Creators, Start(r)
      PROVE  VMsAccounted'
  BY <1>6 DEF Start
<1>7. ASSUME NEW r \in Creators, Add(r)
      PROVE  VMsAccounted'
  BY <1>7 DEF Add
<1>8. ASSUME NEW r \in Creators, FinishStart(r)
      PROVE  VMsAccounted'
  BY <1>8 DEF FinishStart
<1>9. ASSUME NEW r \in Creators, GetRecord(r)
      PROVE  VMsAccounted'
  BY <1>9 DEF GetRecord
<1>10. ASSUME NEW r \in Creators, WaitResult(r)
      PROVE  VMsAccounted'
  BY <1>10 DEF WaitResult
<1>11. ASSUME NEW r \in Creators, WaitPending(r)
      PROVE  VMsAccounted'
  BY <1>11 DEF WaitPending
<1>12. ASSUME NEW r \in Creators, StartFails(r)
      PROVE  VMsAccounted'
  BY <1>12 DEF StartFails
<1>13. ASSUME NEW r \in Creators, AddFails(r)
      PROVE  VMsAccounted'
  BY <1>13 DEF AddFails
<1>14. ASSUME NEW r \in Creators, FinishFails(r)
      PROVE  VMsAccounted'
  BY <1>14 DEF FinishFails
<1>15. ASSUME NEW r \in Creators, WaitFails(r)
      PROVE  VMsAccounted'
  BY <1>15 DEF WaitFails
<1>16. ASSUME NEW r \in Creators, KillUnstored(r)
      PROVE  VMsAccounted'
  BY <1>16 DEF KillUnstored
<1>17. ASSUME NEW r \in Creators, Reconcile(r)
      PROVE  VMsAccounted'
  BY <1>17 DEF Reconcile
<1>18. ASSUME NEW m \in Removers, NEW i \in Ids, BeginRemove(m, i)
      PROVE  VMsAccounted'
  BY <1>18 DEF BeginRemove
<1>19. ASSUME NEW m \in Removers, RemoveFromNode(m)
      PROVE  VMsAccounted'
  BY <1>19 DEF RemoveFromNode
<1>20. ASSUME NEW m \in Removers, RemoveRecord(m)
      PROVE  VMsAccounted'
  BY <1>20 DEF RemoveRecord
<1>21. ASSUME NEW m \in Removers, Release(m)
      PROVE  VMsAccounted'
  BY <1>21 DEF Release
<1>22. ASSUME NEW m \in Removers, RemoveFromNodeFails(m)
      PROVE  VMsAccounted'
  BY <1>22 DEF RemoveFromNodeFails
<1>23. ASSUME NEW m \in Removers, RemoveFails(m)
      PROVE  VMsAccounted'
  BY <1>23 DEF RemoveFails
<1>24. ASSUME NEW c \in Calls, Crash(c)
      PROVE  VMsAccounted'
  BY <1>24 DEF Crash
<1>25. ASSUME NEW i \in Ids, GrowStale(i)
      PROVE  VMsAccounted'
  BY <1>25 DEF GrowStale
<1>26. ASSUME NEW i \in Ids, ResultExpires(i)
      PROVE  VMsAccounted'
  BY <1>26 DEF ResultExpires
<1> QED
  BY <1>1, <1>2, <1>3, <1>4, <1>5, <1>6, <1>7, <1>8, <1>9, <1>10, <1>11, <1>12, <1>13, <1>14,
     <1>15, <1>16, <1>17, <1>18, <1>19, <1>20, <1>21, <1>22, <1>23, <1>24, <1>25, <1>26 DEF Next,
     CreatorStep, RemoverStep

\* One more element in the union of two finite sets.
LEMMA AddOne ==
  ASSUME NEW S, NEW T, NEW x, IsFiniteSet(S), IsFiniteSet(T)
  PROVE  /\ Cardinality((S \cup T) \cup {x}) <= Cardinality(S) + Cardinality(T) + 1
         /\ Cardinality((S \cup T) \cup {x}) \in Nat
         /\ Cardinality(S) \in Nat /\ Cardinality(T) \in Nat
<1>1. /\ IsFiniteSet(S \cup T)
      /\ Cardinality(S \cup T) = Cardinality(S) + Cardinality(T) - Cardinality(S \cap T)
  BY FS_Union
<1>2. IsFiniteSet(S \cap T)
  BY FS_Intersection
<1>3. /\ Cardinality(S) \in Nat /\ Cardinality(T) \in Nat
      /\ Cardinality(S \cap T) \in Nat /\ Cardinality(S \cup T) \in Nat
  BY <1>1, <1>2, FS_CardinalityType
<1>4. \/ Cardinality((S \cup T) \cup {x}) = Cardinality(S \cup T)
      \/ Cardinality((S \cup T) \cup {x}) = Cardinality(S \cup T) + 1
  BY <1>1, FS_AddElement, Zenon
<1> QED
  BY <1>1, <1>3, <1>4

\* What the limit is compared with is a finite set of IDs.
LEMMA SlotsFinite == ASSUME TypeOK PROVE IsFiniteSet(Slots)
  BY ReservationAssumption, FS_Subset DEF TypeOK, Index, Fresh, Slots

\* Only Reserve makes the stored and the pending sandboxes more.
LEMMA SlotsShrink ==
  ASSUME TypeOK, SlotsCounted, Slots' \subseteq Slots
  PROVE  SlotsCounted'
<1>1. IsFiniteSet(Slots)
  BY SlotsFinite
<1>2. IsFiniteSet(Slots') /\ Cardinality(Slots') <= Cardinality(Slots)
  BY <1>1, FS_Subset
<1>3. Cardinality(Slots) \in Nat /\ Cardinality(Slots') \in Nat
  BY <1>1, <1>2, FS_CardinalityType
<1> QED
  BY <1>2, <1>3, ReservationAssumption DEF SlotsCounted

\* A reservation is granted below the limit, and storing a record turns a pending
\* sandbox into a stored one.
LEMMA LimitStep == TypeOK /\ KnowsId /\ HoldsId /\ SlotsCounted /\ [Next]_vars => SlotsCounted'
<1> SUFFICES ASSUME TypeOK, KnowsId, HoldsId, SlotsCounted, [Next]_vars PROVE SlotsCounted'
  OBVIOUS
<1> USE NoneAssumption, ReservationAssumption
    DEF TypeOK, Calls, Goto, Return, Arrives, Granted, HoldsId, Creating,
        KnowsId, Index, Fresh, Slots, Mix
<1>1. CASE UNCHANGED vars
  <2>1. Slots' \subseteq Slots
    BY <1>1 DEF vars
  <2> QED
    BY <2>1, SlotsShrink
<1>2. ASSUME NEW r \in Creators, NEW i \in Ids, Reserve(r, i)
      PROVE  SlotsCounted'
  <2>1. /\ Index' = Index /\ Fresh' = Fresh \cup {i}
        /\ mixed \subseteq mixed' /\ HasRoom
    BY <1>2 DEF Reserve
  <2>2. IsFiniteSet(Index) /\ IsFiniteSet(Fresh)
    BY FS_Subset
  <2> DEFINE counted == (Index \cup Fresh) \cup {i}
  <2>3. Slots' \subseteq counted
    BY <2>1
  <2> HIDE DEF Index, Fresh, Slots
  <2>4. /\ Cardinality(counted) <= Cardinality(Index) + Cardinality(Fresh) + 1
        /\ Cardinality(Index) \in Nat /\ Cardinality(Fresh) \in Nat
        /\ Cardinality(counted) \in Nat
    BY <2>2, AddOne
  <2>5. IsFiniteSet(counted)
    BY <2>2, FS_Union, FS_Singleton
  <2> HIDE DEF counted
  <2>6. Cardinality(counted) <= Limit
    BY <2>1, <2>4 DEF HasRoom
  <2>7. IsFiniteSet(Slots') /\ Cardinality(Slots') <= Cardinality(counted)
    BY <2>3, <2>5, FS_Subset
  <2>8. Cardinality(Slots') \in Nat
    BY <2>7, FS_CardinalityType
  <2> QED
    BY <2>4, <2>6, <2>7, <2>8 DEF SlotsCounted
<1>3. ASSUME NEW r \in Creators, NEW i \in Ids, ReserveStored(r, i)
      PROVE  SlotsCounted'
  <2>1. Slots' \subseteq Slots
    BY <1>3 DEF ReserveStored
  <2> QED
    BY <2>1, SlotsShrink
<1>4. ASSUME NEW r \in Creators, NEW i \in Ids, ReservePending(r, i)
      PROVE  SlotsCounted'
  <2>1. Slots' \subseteq Slots
    BY <1>4 DEF ReservePending
  <2> QED
    BY <2>1, SlotsShrink
<1>5. ASSUME NEW r \in Creators, NEW i \in Ids, ReserveLimited(r, i)
      PROVE  SlotsCounted'
  <2>1. Slots' \subseteq Slots
    BY <1>5 DEF ReserveLimited
  <2> QED
    BY <2>1, SlotsShrink
<1>6. ASSUME NEW r \in Creators, Start(r)
      PROVE  SlotsCounted'
  <2>1. Slots' \subseteq Slots
    BY <1>6 DEF Start
  <2> QED
    BY <2>1, SlotsShrink
<1>7. ASSUME NEW r \in Creators, Add(r)
      PROVE  SlotsCounted'
  <2>1. Slots' \subseteq Slots
    BY <1>7 DEF Add
  <2> QED
    BY <2>1, SlotsShrink
<1>8. ASSUME NEW r \in Creators, FinishStart(r)
      PROVE  SlotsCounted'
  <2>1. Slots' \subseteq Slots
    BY <1>8 DEF FinishStart
  <2> QED
    BY <2>1, SlotsShrink
<1>9. ASSUME NEW r \in Creators, GetRecord(r)
      PROVE  SlotsCounted'
  <2>1. Slots' \subseteq Slots
    BY <1>9 DEF GetRecord
  <2> QED
    BY <2>1, SlotsShrink
<1>10. ASSUME NEW r \in Creators, WaitResult(r)
      PROVE  SlotsCounted'
  <2>1. Slots' \subseteq Slots
    BY <1>10 DEF WaitResult
  <2> QED
    BY <2>1, SlotsShrink
<1>11. ASSUME NEW r \in Creators, WaitPending(r)
      PROVE  SlotsCounted'
  <2>1. Slots' \subseteq Slots
    BY <1>11 DEF WaitPending
  <2> QED
    BY <2>1, SlotsShrink
<1>12. ASSUME NEW r \in Creators, StartFails(r)
      PROVE  SlotsCounted'
  <2>1. Slots' \subseteq Slots
    BY <1>12 DEF StartFails
  <2> QED
    BY <2>1, SlotsShrink
<1>13. ASSUME NEW r \in Creators, AddFails(r)
      PROVE  SlotsCounted'
  <2>1. Slots' \subseteq Slots
    BY <1>13 DEF AddFails
  <2> QED
    BY <2>1, SlotsShrink
<1>14. ASSUME NEW r \in Creators, FinishFails(r)
      PROVE  SlotsCounted'
  <2>1. Slots' \subseteq Slots
    BY <1>14 DEF FinishFails
  <2> QED
    BY <2>1, SlotsShrink
<1>15. ASSUME NEW r \in Creators, WaitFails(r)
      PROVE  SlotsCounted'
  <2>1. Slots' \subseteq Slots
    BY <1>15 DEF WaitFails
  <2> QED
    BY <2>1, SlotsShrink
<1>16. ASSUME NEW r \in Creators, KillUnstored(r)
      PROVE  SlotsCounted'
  <2>1. Slots' \subseteq Slots
    BY <1>16 DEF KillUnstored
  <2> QED
    BY <2>1, SlotsShrink
<1>17. ASSUME NEW r \in Creators, Reconcile(r)
      PROVE  SlotsCounted'
  <2>1. Slots' \subseteq Slots
    BY <1>17 DEF Reconcile
  <2> QED
    BY <2>1, SlotsShrink
<1>18. ASSUME NEW m \in Removers, NEW i \in Ids, BeginRemove(m, i)
      PROVE  SlotsCounted'
  <2>1. Slots' \subseteq Slots
    BY <1>18 DEF BeginRemove
  <2> QED
    BY <2>1, SlotsShrink
<1>19. ASSUME NEW m \in Removers, RemoveFromNode(m)
      PROVE  SlotsCounted'
  <2>1. Slots' \subseteq Slots
    BY <1>19 DEF RemoveFromNode
  <2> QED
    BY <2>1, SlotsShrink
<1>20. ASSUME NEW m \in Removers, RemoveRecord(m)
      PROVE  SlotsCounted'
  <2>1. Slots' \subseteq Slots
    BY <1>20 DEF RemoveRecord
  <2> QED
    BY <2>1, SlotsShrink
<1>21. ASSUME NEW m \in Removers, Release(m)
      PROVE  SlotsCounted'
  <2>1. Slots' \subseteq Slots
    BY <1>21 DEF Release
  <2> QED
    BY <2>1, SlotsShrink
<1>22. ASSUME NEW m \in Removers, RemoveFromNodeFails(m)
      PROVE  SlotsCounted'
  <2>1. Slots' \subseteq Slots
    BY <1>22 DEF RemoveFromNodeFails
  <2> QED
    BY <2>1, SlotsShrink
<1>23. ASSUME NEW m \in Removers, RemoveFails(m)
      PROVE  SlotsCounted'
  <2>1. Slots' \subseteq Slots
    BY <1>23 DEF RemoveFails
  <2> QED
    BY <2>1, SlotsShrink
<1>24. ASSUME NEW c \in Calls, Crash(c)
      PROVE  SlotsCounted'
  <2>1. Slots' \subseteq Slots
    BY <1>24 DEF Crash
  <2> QED
    BY <2>1, SlotsShrink
<1>25. ASSUME NEW i \in Ids, GrowStale(i)
      PROVE  SlotsCounted'
  <2>1. Slots' \subseteq Slots
    BY <1>25 DEF GrowStale
  <2> QED
    BY <2>1, SlotsShrink
<1>26. ASSUME NEW i \in Ids, ResultExpires(i)
      PROVE  SlotsCounted'
  <2>1. Slots' \subseteq Slots
    BY <1>26 DEF ResultExpires
  <2> QED
    BY <2>1, SlotsShrink
<1> QED
  BY <1>1, <1>2, <1>3, <1>4, <1>5, <1>6, <1>7, <1>8, <1>9, <1>10, <1>11, <1>12, <1>13, <1>14,
     <1>15, <1>16, <1>17, <1>18, <1>19, <1>20, <1>21, <1>22, <1>23, <1>24, <1>25, <1>26 DEF Next,
     CreatorStep, RemoverStep

\* The types hold in every behaviour, under every fault.
THEOREM TypeCorrect == Spec => []TypeOK
<1>1. Init => TypeOK /\ KnowsId
  BY ReservationInit DEF ReservationInv
<1> QED
  BY <1>1, TypeStep, PTL DEF Spec

\* A call that waited is never given the sandbox of an attempt that was over when
\* it began to wait, under every fault: removals and creations that overlap, slow
\* creators, lost answers and crashes included.
THEOREM ResultsAreOfTheAttempt == Spec => []NoStaleResult
<1>1. Init => TypeOK /\ KnowsId /\ ResultsAreNew
  BY ReservationInit DEF ReservationInv
<1>2. ResultsAreNew => NoStaleResult
  BY DEF ResultsAreNew, NoStaleResult
<1> QED
  BY <1>1, <1>2, TypeStep, ResultStep, PTL DEF Spec

\* What the theorems below share: every creator holds its ID and the limit counts
\* every sandbox, but for IDs reserved before an earlier call on them was over.
LEMMA Holding ==
  Spec => [](TypeOK /\ KnowsId /\ ResultsAreNew /\ HoldsId /\ SlotsCounted)
<1> DEFINE Inv == TypeOK /\ KnowsId /\ ResultsAreNew /\ HoldsId /\ SlotsCounted
<1>1. Init => Inv
  BY ReservationInit DEF ReservationInv
<1>2. Inv /\ [Next]_vars => Inv'
  BY TypeStep, ResultStep, HoldStep, LimitStep
<1>3. Init /\ [][Next]_vars => []Inv
  BY <1>1, <1>2, PTL
<1> QED
  BY <1>3 DEF Spec

\* At most one call creates a sandbox ID at a time, and none beside a record, even
\* when scripts fail, answers are lost and instances die; IDs excepted that were
\* reserved before an earlier call on them had made its last write.
THEOREM SingleCreator == Spec => []OneCreator
<1>1. HoldsId => OneCreator
  BY DEF HoldsId, OneCreator, Reserving
<1> QED
  BY <1>1, Holding, PTL

\* The team never has more sandboxes, stored or being created, than its limit, the
\* same IDs excepted.
THEOREM LimitHolds == Spec => []WithinLimit
<1>1. TypeOK /\ KnowsId /\ HoldsId /\ SlotsCounted => WithinLimit
  <2> SUFFICES ASSUME TypeOK, KnowsId, HoldsId, SlotsCounted PROVE WithinLimit
    OBVIOUS
  <2> DEFINE there == (Index \cup {sid[r] : r \in {c \in Creators : Creating(c)}}) \ mixed
  <2>1. there \subseteq Slots
    BY DEF HoldsId, Slots
  <2>2. /\ IsFiniteSet(there) /\ IsFiniteSet(Slots)
        /\ Cardinality(there) <= Cardinality(Slots)
    BY <2>1, SlotsFinite, FS_Subset
  <2>3. Cardinality(there) \in Nat /\ Cardinality(Slots) \in Nat
    BY <2>2, FS_CardinalityType
  <2> HIDE DEF there
  <2>4. Cardinality(there) <= Limit
    BY <2>2, <2>3, ReservationAssumption DEF SlotsCounted
  <2> QED
    BY <2>4 DEF there, WithinLimit
<1> QED
  BY <1>1, Holding, PTL

\* ReservationInv holds throughout: between two commands of a creation or a removal
\* nothing takes away what the first one established.
THEOREM ReservationInvariance == Spec => []ReservationInv
<1>1. ReservationInv /\ [Next]_vars => ReservationInv'
  BY TypeStep, ResultStep, HoldStep, LimitStep, VMStep
  DEF ReservationInv
<1> QED
  BY <1>1, ReservationInit, PTL DEF Spec

\* The VM of a creation that succeeded has its record until a removal has stopped it
\* or has failed to reach its node, the same IDs excepted.
THEOREM StoredVMsAreKnown == Spec => []NoLostVM
<1>1. ReservationInv => NoLostVM
  BY DEF ReservationInv, VMsAccounted, NoLostVM
<1> QED
  BY <1>1, ReservationInvariance, PTL
=============================================================================
