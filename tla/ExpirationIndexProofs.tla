------------------------ MODULE ExpirationIndexProofs ------------------------
(***************************************************************************)
(* Theorems about the expiration index, for any set of calls and any       *)
(* timeouts, whichever calls overlap and whatever fails. IndexInv is       *)
(* inductive; the lemmas X-Step preserve its conjuncts, one step per       *)
(* action.                                                                 *)
(***************************************************************************)
EXTENDS ExpirationIndex, TLAPS

\* No call has begun and Redis is empty.
LEMMA IndexInit == Init => IndexInv
<1> SUFFICES ASSUME Init PROVE IndexInv
  OBVIOUS
<1>1. TypeOK
  BY DEF Init, TypeOK, Calls
<1>2. UnderLock /\ AddsAlone /\ RemovesOwn /\ EntryKept
  BY DEF Init, UnderLock, AddsAlone, RemovesOwn, EntryKept, Running, Calls
<1> QED
  BY <1>1, <1>2 DEF IndexInv

\* Every command keeps the types, whatever fails.
LEMMA TypeStep == TypeOK /\ [Next]_vars => TypeOK'
<1> SUFFICES ASSUME TypeOK, [Next]_vars PROVE TypeOK'
  OBVIOUS
<1> USE IndexAssumption DEF TypeOK, Calls, Goto, Unlock, Record, Running, Lesser
<1>1. CASE UNCHANGED vars
  BY <1>1 DEF vars
<1>2. CASE Tick
  BY <1>2 DEF Tick
<1>3. ASSUME NEW a \in Adders, NEW d \in Durations, AddBegin(a, d)
      PROVE  TypeOK'
  BY <1>3 DEF AddBegin
<1>4. ASSUME NEW u \in Updaters, UpdateBegin(u)
      PROVE  TypeOK'
  BY <1>4 DEF UpdateBegin
<1>5. ASSUME NEW m \in Removers, RemoveBegin(m)
      PROVE  TypeOK'
  BY <1>5 DEF RemoveBegin
<1>6. ASSUME NEW a \in Adders, AddIndex(a)
      PROVE  TypeOK'
  BY <1>6 DEF AddIndex
<1>7. ASSUME NEW a \in Adders, AddRecord(a)
      PROVE  TypeOK'
  BY <1>7 DEF AddRecord
<1>8. ASSUME NEW u \in Updaters, UpdateRefused(u)
      PROVE  TypeOK'
  BY <1>8 DEF UpdateRefused
<1>9. ASSUME NEW u \in Updaters, UpdateIndex(u)
      PROVE  TypeOK'
  BY <1>9 DEF UpdateIndex
<1>10. ASSUME NEW u \in Updaters, NEW d \in Durations, UpdateRecord(u, d)
      PROVE  TypeOK'
  <2>1. /\ now + d \in Nat /\ rec \in Record
        /\ rec' = [rec EXCEPT !.end = now + d] /\ end' = [end EXCEPT ![u] = now + d]
        /\ UNCHANGED <<score, now, scan>> /\ found' = FALSE
    BY <1>10 DEF UpdateRecord
  <2>2. rec' \in Record /\ end' \in [Calls -> Nat]
    BY <2>1
  <2> QED
    BY <1>10, <2>1, <2>2 DEF UpdateRecord
<1>11. ASSUME NEW m \in Removers, RemoveObtain(m)
      PROVE  TypeOK'
  BY <1>11 DEF RemoveObtain
<1>12. ASSUME NEW m \in Removers, RemoveRecord(m)
      PROVE  TypeOK'
  BY <1>12 DEF RemoveRecord
<1>13. ASSUME NEW m \in Removers, RemoveIndex(m)
      PROVE  TypeOK'
  BY <1>13 DEF RemoveIndex
<1>14. CASE ScanIndex
  BY <1>14 DEF ScanIndex
<1>15. CASE ScanRecord
  <2>1. found' \in BOOLEAN
    BY <1>15, Zenon DEF ScanRecord, Evictable
  <2> QED
    BY <1>15, <2>1 DEF ScanRecord
<1>16. CASE ScanClean
  BY <1>16 DEF ScanClean
<1>17. CASE ScanFails
  BY <1>17 DEF ScanFails
<1>18. ASSUME NEW c \in Calls, Fails(c)
      PROVE  TypeOK'
  BY <1>18 DEF Fails
<1> QED
  BY <1>1, <1>2, <1>3, <1>4, <1>5, <1>6, <1>7, <1>8, <1>9, <1>10, <1>11, <1>12, <1>13, <1>14,
     <1>15, <1>16, <1>17, <1>18 DEF Next, CallStep, Scan

\* An Update or a Remove keeps the lock until it is done: the others do not take it.
LEMMA LockStep == TypeOK /\ UnderLock /\ [Next]_vars => UnderLock'
<1> SUFFICES ASSUME TypeOK, UnderLock, [Next]_vars PROVE UnderLock'
  OBVIOUS
<1> USE IndexAssumption DEF TypeOK, Calls, UnderLock, Goto, Unlock
<1>1. CASE UNCHANGED vars
  BY <1>1 DEF vars
<1>2. CASE Tick
  BY <1>2 DEF Tick
<1>3. ASSUME NEW a \in Adders, NEW d \in Durations, AddBegin(a, d)
      PROVE  UnderLock'
  BY <1>3 DEF AddBegin
<1>4. ASSUME NEW u \in Updaters, UpdateBegin(u)
      PROVE  UnderLock'
  BY <1>4 DEF UpdateBegin
<1>5. ASSUME NEW m \in Removers, RemoveBegin(m)
      PROVE  UnderLock'
  BY <1>5 DEF RemoveBegin
<1>6. ASSUME NEW a \in Adders, AddIndex(a)
      PROVE  UnderLock'
  BY <1>6 DEF AddIndex
<1>7. ASSUME NEW a \in Adders, AddRecord(a)
      PROVE  UnderLock'
  BY <1>7 DEF AddRecord
<1>8. ASSUME NEW u \in Updaters, UpdateRefused(u)
      PROVE  UnderLock'
  BY <1>8 DEF UpdateRefused
<1>9. ASSUME NEW u \in Updaters, UpdateIndex(u)
      PROVE  UnderLock'
  BY <1>9 DEF UpdateIndex
<1>10. ASSUME NEW u \in Updaters, NEW d \in Durations, UpdateRecord(u, d)
      PROVE  UnderLock'
  BY <1>10 DEF UpdateRecord
<1>11. ASSUME NEW m \in Removers, RemoveObtain(m)
      PROVE  UnderLock'
  BY <1>11 DEF RemoveObtain
<1>12. ASSUME NEW m \in Removers, RemoveRecord(m)
      PROVE  UnderLock'
  BY <1>12 DEF RemoveRecord
<1>13. ASSUME NEW m \in Removers, RemoveIndex(m)
      PROVE  UnderLock'
  BY <1>13 DEF RemoveIndex
<1>14. CASE ScanIndex
  BY <1>14 DEF ScanIndex
<1>15. CASE ScanRecord
  BY <1>15 DEF ScanRecord
<1>16. CASE ScanClean
  BY <1>16 DEF ScanClean
<1>17. CASE ScanFails
  BY <1>17 DEF ScanFails
<1>18. ASSUME NEW c \in Calls, Fails(c)
      PROVE  UnderLock'
  BY <1>18 DEF Fails
<1> QED
  BY <1>1, <1>2, <1>3, <1>4, <1>5, <1>6, <1>7, <1>8, <1>9, <1>10, <1>11, <1>12, <1>13, <1>14,
     <1>15, <1>16, <1>17, <1>18 DEF Next, CallStep, Scan

\* Nothing comes between the two writes of an Add but a ZREM of the entry.
LEMMA AddStep == IndexInv /\ [Next]_vars => AddsAlone'
<1> SUFFICES ASSUME IndexInv, [Next]_vars PROVE AddsAlone'
  OBVIOUS
<1> USE IndexAssumption DEF IndexInv, TypeOK, Calls, UnderLock, AddsAlone, RemovesOwn,
        EntryKept, Goto,
        EntryDoomed, Running, Record
<1>1. CASE UNCHANGED vars
  BY <1>1 DEF vars
<1>2. CASE Tick
  BY <1>2 DEF Tick
<1>3. ASSUME NEW a \in Adders, NEW d \in Durations, AddBegin(a, d)
      PROVE  AddsAlone'
  BY <1>3 DEF AddBegin
<1>4. ASSUME NEW u \in Updaters, UpdateBegin(u)
      PROVE  AddsAlone'
  BY <1>4 DEF UpdateBegin
<1>5. ASSUME NEW m \in Removers, RemoveBegin(m)
      PROVE  AddsAlone'
  BY <1>5 DEF RemoveBegin
<1>6. ASSUME NEW a \in Adders, AddIndex(a)
      PROVE  AddsAlone'
  BY <1>6 DEF AddIndex
<1>7. ASSUME NEW a \in Adders, AddRecord(a)
      PROVE  AddsAlone'
  BY <1>7 DEF AddRecord
<1>8. ASSUME NEW u \in Updaters, UpdateRefused(u)
      PROVE  AddsAlone'
  BY <1>8 DEF UpdateRefused
<1>9. ASSUME NEW u \in Updaters, UpdateIndex(u)
      PROVE  AddsAlone'
  BY <1>9 DEF UpdateIndex
<1>10. ASSUME NEW u \in Updaters, NEW d \in Durations, UpdateRecord(u, d)
      PROVE  AddsAlone'
  BY <1>10 DEF UpdateRecord
<1>11. ASSUME NEW m \in Removers, RemoveObtain(m)
      PROVE  AddsAlone'
  BY <1>11 DEF RemoveObtain
<1>12. ASSUME NEW m \in Removers, RemoveRecord(m)
      PROVE  AddsAlone'
  BY <1>12 DEF RemoveRecord
<1>13. ASSUME NEW m \in Removers, RemoveIndex(m)
      PROVE  AddsAlone'
  BY <1>13 DEF RemoveIndex
<1>14. CASE ScanIndex
  BY <1>14 DEF ScanIndex
<1>15. CASE ScanRecord
  BY <1>15 DEF ScanRecord
<1>16. CASE ScanClean
  BY <1>16 DEF ScanClean
<1>17. CASE ScanFails
  BY <1>17 DEF ScanFails
<1>18. ASSUME NEW c \in Calls, Fails(c)
      PROVE  AddsAlone'
  BY <1>18 DEF Fails
<1> QED
  BY <1>1, <1>2, <1>3, <1>4, <1>5, <1>6, <1>7, <1>8, <1>9, <1>10, <1>11, <1>12, <1>13, <1>14,
     <1>15, <1>16, <1>17, <1>18 DEF Next, CallStep, Scan

\* Nothing takes the record from a removal that goes on.
LEMMA RemoveStep == IndexInv /\ [Next]_vars => RemovesOwn'
<1> SUFFICES ASSUME IndexInv, [Next]_vars PROVE RemovesOwn'
  OBVIOUS
<1> USE IndexAssumption DEF IndexInv, TypeOK, Calls, UnderLock, AddsAlone, RemovesOwn,
        EntryKept, Goto,
        EntryDoomed, Running, Record
<1>1. CASE UNCHANGED vars
  BY <1>1 DEF vars
<1>2. CASE Tick
  BY <1>2 DEF Tick
<1>3. ASSUME NEW a \in Adders, NEW d \in Durations, AddBegin(a, d)
      PROVE  RemovesOwn'
  BY <1>3 DEF AddBegin
<1>4. ASSUME NEW u \in Updaters, UpdateBegin(u)
      PROVE  RemovesOwn'
  BY <1>4 DEF UpdateBegin
<1>5. ASSUME NEW m \in Removers, RemoveBegin(m)
      PROVE  RemovesOwn'
  <2>1. rec \in Record /\ rec' = [state |-> "removing", end |-> Lesser(now, rec.end)]
    BY <1>5 DEF RemoveBegin
  <2>2. rec' \in Record /\ rec'.state = "removing"
    BY <2>1 DEF Lesser
  <2> QED
    BY <1>5, <2>2 DEF RemoveBegin
<1>6. ASSUME NEW a \in Adders, AddIndex(a)
      PROVE  RemovesOwn'
  BY <1>6 DEF AddIndex
<1>7. ASSUME NEW a \in Adders, AddRecord(a)
      PROVE  RemovesOwn'
  BY <1>7 DEF AddRecord
<1>8. ASSUME NEW u \in Updaters, UpdateRefused(u)
      PROVE  RemovesOwn'
  BY <1>8 DEF UpdateRefused
<1>9. ASSUME NEW u \in Updaters, UpdateIndex(u)
      PROVE  RemovesOwn'
  BY <1>9 DEF UpdateIndex
<1>10. ASSUME NEW u \in Updaters, NEW d \in Durations, UpdateRecord(u, d)
      PROVE  RemovesOwn'
  BY <1>10 DEF UpdateRecord
<1>11. ASSUME NEW m \in Removers, RemoveObtain(m)
      PROVE  RemovesOwn'
  BY <1>11 DEF RemoveObtain
<1>12. ASSUME NEW m \in Removers, RemoveRecord(m)
      PROVE  RemovesOwn'
  BY <1>12 DEF RemoveRecord
<1>13. ASSUME NEW m \in Removers, RemoveIndex(m)
      PROVE  RemovesOwn'
  BY <1>13 DEF RemoveIndex
<1>14. CASE ScanIndex
  BY <1>14 DEF ScanIndex
<1>15. CASE ScanRecord
  BY <1>15 DEF ScanRecord
<1>16. CASE ScanClean
  BY <1>16 DEF ScanClean
<1>17. CASE ScanFails
  BY <1>17 DEF ScanFails
<1>18. ASSUME NEW c \in Calls, Fails(c)
      PROVE  RemovesOwn'
  BY <1>18 DEF Fails
<1> QED
  BY <1>1, <1>2, <1>3, <1>4, <1>5, <1>6, <1>7, <1>8, <1>9, <1>10, <1>11, <1>12, <1>13, <1>14,
     <1>15, <1>16, <1>17, <1>18 DEF Next, CallStep, Scan

\* Nothing removes the entry of a stored record that was not raced, or lets it
\* disagree.
LEMMA EntryStep == IndexInv /\ [Next]_vars => EntryKept'
<1> SUFFICES ASSUME IndexInv, [Next]_vars PROVE EntryKept'
  OBVIOUS
<1> USE IndexAssumption DEF IndexInv, TypeOK, Calls, UnderLock, AddsAlone, RemovesOwn,
        EntryKept, Goto,
        EntryDoomed, Running, Record
<1>1. CASE UNCHANGED vars
  BY <1>1 DEF vars
<1>2. CASE Tick
  BY <1>2 DEF Tick
<1>3. ASSUME NEW a \in Adders, NEW d \in Durations, AddBegin(a, d)
      PROVE  EntryKept'
  BY <1>3 DEF AddBegin
<1>4. ASSUME NEW u \in Updaters, UpdateBegin(u)
      PROVE  EntryKept'
  BY <1>4 DEF UpdateBegin
<1>5. ASSUME NEW m \in Removers, RemoveBegin(m)
      PROVE  EntryKept'
  BY <1>5 DEF RemoveBegin
<1>6. ASSUME NEW a \in Adders, AddIndex(a)
      PROVE  EntryKept'
  BY <1>6 DEF AddIndex
<1>7. ASSUME NEW a \in Adders, AddRecord(a)
      PROVE  EntryKept'
  BY <1>7 DEF AddRecord
<1>8. ASSUME NEW u \in Updaters, UpdateRefused(u)
      PROVE  EntryKept'
  BY <1>8 DEF UpdateRefused
<1>9. ASSUME NEW u \in Updaters, UpdateIndex(u)
      PROVE  EntryKept'
  BY <1>9 DEF UpdateIndex
<1>10. ASSUME NEW u \in Updaters, NEW d \in Durations, UpdateRecord(u, d)
      PROVE  EntryKept'
  BY <1>10 DEF UpdateRecord
<1>11. ASSUME NEW m \in Removers, RemoveObtain(m)
      PROVE  EntryKept'
  BY <1>11 DEF RemoveObtain
<1>12. ASSUME NEW m \in Removers, RemoveRecord(m)
      PROVE  EntryKept'
  BY <1>12 DEF RemoveRecord
<1>13. ASSUME NEW m \in Removers, RemoveIndex(m)
      PROVE  EntryKept'
  BY <1>13 DEF RemoveIndex
<1>14. CASE ScanIndex
  BY <1>14 DEF ScanIndex
<1>15. CASE ScanRecord
  BY <1>15 DEF ScanRecord
<1>16. CASE ScanClean
  BY <1>16 DEF ScanClean
<1>17. CASE ScanFails
  BY <1>17 DEF ScanFails
<1>18. ASSUME NEW c \in Calls, Fails(c)
      PROVE  EntryKept'
  BY <1>18 DEF Fails
<1> QED
  BY <1>1, <1>2, <1>3, <1>4, <1>5, <1>6, <1>7, <1>8, <1>9, <1>10, <1>11, <1>12, <1>13, <1>14,
     <1>15, <1>16, <1>17, <1>18 DEF Next, CallStep, Scan

\* The types hold in every behaviour, whatever races.
THEOREM TypeCorrect == Spec => []TypeOK
<1>1. Init => TypeOK
  BY IndexInit DEF IndexInv
<1> QED
  BY <1>1, TypeStep, PTL DEF Spec

\* IndexInv holds throughout: what a call relies on between two of its commands
\* on the record and on the index is still true at the second.
THEOREM IndexInvariant == Spec => []IndexInv
<1>1. IndexInv /\ [Next]_vars => IndexInv'
  BY TypeStep, LockStep, AddStep, RemoveStep, EntryStep DEF IndexInv
<1> QED
  BY <1>1, IndexInit, PTL DEF Spec

\* An entry is lost to a ZREM between the two writes of its record's own Add, or
\* under way at the second, and to nothing else: commands that fail, instances that
\* die between the two writes of Add, Update and Remove, and everything that
\* happens to the record once it is stored leak no sandbox.
THEOREM StoredIsIndexed == Spec => []LeaksOnlyInAdd
<1>1. IndexInv => LeaksOnlyInAdd
  BY DEF IndexInv, EntryKept, LeaksOnlyInAdd
<1> QED
  BY <1>1, IndexInvariant, PTL

\* The entry of a running sandbox whose Add was not raced carries its end time
\* whenever the lock is free, unless an Update stopped between its two writes.
THEOREM IndexCarriesEnd == Spec => []IndexAgrees
<1>1. IndexInv => IndexAgrees
  BY IndexAssumption DEF IndexInv, TypeOK, Calls, UnderLock, EntryKept, IndexAgrees
<1> QED
  BY <1>1, IndexInvariant, PTL
=============================================================================
