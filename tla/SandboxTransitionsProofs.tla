---------------------- MODULE SandboxTransitionsProofs ----------------------
(***************************************************************************)
(* Theorems about the state transitions of a sandbox, for any set of       *)
(* requests, executions, durations and faults. The lemmas X-Step show that *)
(* the conjuncts of TransitionInv are preserved, one step per action; the  *)
(* theorems at the end put them together.                                  *)
(***************************************************************************)
EXTENDS SandboxTransitions, TLAPS

\* No request has begun and Redis is empty: the types, and what each request
\* knows at its command, hold at the start.
LEMMA TypeInit == Init => TypeOK /\ OpAtPC
  BY NoneAssumption, ParameterAssumption
  DEF Init, TypeOK, OpAtPC, Transitions, Action, Operation, PC, Outcome, ActivePC, HolderPC,
      WaitPC, RemovePC, RestorePC, CallbackPC

\* The copy of a record that StartRemoving, Update and restoreToRunning write
\* back is a record with the fields they set and the others as they were.
LEMMA AmendFields ==
  ASSUME NEW s \in Sandbox, NEW st \in State, NEW e \in Nat
  PROVE  /\ Amend(s, st, e) \in Sandbox
         /\ Amend(s, st, e) # None
         /\ Amend(s, st, e).exec = s.exec
         /\ Amend(s, st, e).state = st
         /\ Amend(s, st, e).start = s.start
         /\ Amend(s, st, e).end = e
<1>1. Amend(s, st, e) \in Sandbox
  BY DEF Amend, Sandbox
<1> QED
  BY <1>1, NoneAssumption DEF Amend

\* Every command of a handler, every failure and every expiry keeps the types.
LEMMA TypeStep == TypeOK /\ OpAtPC /\ [Next]_vars => TypeOK'
<1> SUFFICES ASSUME TypeOK, OpAtPC, [Next]_vars PROVE TypeOK'
  OBVIOUS
<1> USE NoneAssumption, ParameterAssumption
    DEF TypeOK, PC, ActivePC, HolderPC, WaitPC, RemovePC, RestorePC, Outcome, Goto, Return,
        Release, ReleaseCb, redis, local
<1>1. CASE UNCHANGED vars
  BY <1>1 DEF vars
<1>2. CASE Tick
  BY <1>2 DEF Tick
<1>3. ASSUME NEW e \in Executions, NEW d \in Durations, NEW a \in AutoPause, Create(e, d, a)
      PROVE  TypeOK'
  BY <1>3 DEF Create, Sandbox, State, Lesser
<1>4. ASSUME NEW r \in Requests, NEW o \in Ops, Begin(r, o)
      PROVE  TypeOK'
  BY <1>4 DEF Begin
<1>5. ASSUME NEW r \in Requests, BeginEviction(r)
      PROVE  TypeOK'
  BY <1>5 DEF BeginEviction, Operation, Action
<1>6. ASSUME NEW r \in Requests, Obtain(r)
      PROVE  TypeOK'
  BY <1>6 DEF Obtain
<1>7. ASSUME NEW r \in Requests, GetMissing(r)
      PROVE  TypeOK'
  BY <1>7 DEF GetMissing
<1>8. ASSUME NEW r \in Requests, Get(r)
      PROVE  TypeOK'
  BY <1>8 DEF Get
<1>9. ASSUME NEW r \in Requests, RefuseEviction(r)
      PROVE  TypeOK'
  BY <1>9 DEF RefuseEviction
<1>10. ASSUME NEW r \in Requests, JoinTransition(r)
      PROVE  TypeOK'
  BY <1>10 DEF JoinTransition
<1>11. ASSUME NEW r \in Requests, AlreadyInState(r)
      PROVE  TypeOK'
  BY <1>11 DEF AlreadyInState
<1>12. ASSUME NEW r \in Requests, RejectTransition(r)
      PROVE  TypeOK'
  BY <1>12 DEF RejectTransition
<1>13. ASSUME NEW r \in Requests, AcceptTransition(r)
      PROVE  TypeOK'
  BY <1>13 DEF AcceptTransition
<1>14. ASSUME NEW r \in Requests, StartTransition(r)
      PROVE  TypeOK'
  <2>1. /\ sbx[r] \in Sandbox /\ TargetState(op[r]) \in State
        /\ Id(r) \in Transitions
    BY <1>14 DEF StartTransition, OpAtPC, TargetState, State, Id, Transitions
  <2>2. PICK e \in Nat : rec' = Amend(sbx[r], TargetState(op[r]), e)
    BY <1>14, <2>1 DEF StartTransition, Sandbox
  <2>3. rec' \in Sandbox
    BY <2>1, <2>2, AmendFields
  <2>4. key' \in Transitions /\ result' \in [Transitions -> {"none", "ok", "error"}]
    BY <1>14, <2>1 DEF StartTransition
  <2> QED
    BY <1>14, <2>3, <2>4 DEF StartTransition
<1>15. ASSUME NEW r \in Requests, UpdateRefused(r)
      PROVE  TypeOK'
  BY <1>15 DEF UpdateRefused
<1>16. ASSUME NEW r \in Requests, NEW d \in Durations, NEW shorter \in BOOLEAN, Update(r, d, shorter)
      PROVE  TypeOK'
  BY <1>16 DEF Update, Sandbox, State, OpAtPC, Amend, KeepAliveEnd, Lesser
<1>17. ASSUME NEW r \in Requests, NodeRemoves(r)
      PROVE  TypeOK'
  BY <1>17 DEF NodeRemoves, OpAtPC, Sandbox
<1>18. ASSUME NEW r \in Requests, NodeRemoveFails(r)
      PROVE  TypeOK'
  BY <1>18 DEF NodeRemoveFails, OpAtPC, Sandbox
<1>19. ASSUME NEW r \in Requests, NEW o \in {"ok", "failed"}, Checkpoint(r, o)
      PROVE  TypeOK'
  BY <1>19 DEF Checkpoint
<1>20. ASSUME NEW r \in Requests, CheckpointFails(r)
      PROVE  TypeOK'
  BY <1>20 DEF CheckpointFails, OpAtPC, Sandbox
<1>21. ASSUME NEW r \in Requests, RemoveObtain(r)
      PROVE  TypeOK'
  BY <1>21 DEF RemoveObtain
<1>22. ASSUME NEW r \in Requests, RemoveRecord(r)
      PROVE  TypeOK'
  BY <1>22 DEF RemoveRecord
<1>23. ASSUME NEW r \in Requests, RemoveFails(r)
      PROVE  TypeOK'
  BY <1>23 DEF RemoveFails
<1>24. ASSUME NEW r \in Requests, RestoreObtain(r)
      PROVE  TypeOK'
  BY <1>24 DEF RestoreObtain
<1>25. ASSUME NEW r \in Requests, RestoreGet(r)
      PROVE  TypeOK'
  BY <1>25 DEF RestoreGet
<1>26. ASSUME NEW r \in Requests, RestoreSet(r)
      PROVE  TypeOK'
  BY <1>26 DEF RestoreSet, Restored, Sandbox, State, OpAtPC, Amend
<1>27. ASSUME NEW r \in Requests, RestoreFails(r)
      PROVE  TypeOK'
  <2>1. rec' \in Sandbox \cup {None}
    BY <1>27 DEF RestoreFails, Restored, Sandbox, State, OpAtPC, Amend
  <2> QED
    BY <1>27, <2>1 DEF RestoreFails, GiveUpRestore
<1>28. ASSUME NEW r \in Requests, CallbackObtain(r)
      PROVE  TypeOK'
  BY <1>28 DEF CallbackObtain
<1>29. ASSUME NEW r \in Requests, CallbackSet(r)
      PROVE  TypeOK'
  BY <1>29 DEF CallbackSet, OpAtPC, ResultValue
<1>30. ASSUME NEW r \in Requests, CallbackDel(r)
      PROVE  TypeOK'
  BY <1>30 DEF CallbackDel
<1>31. ASSUME NEW r \in Requests, CallbackPublish(r)
      PROVE  TypeOK'
  <2>1. Id(r) \in Transitions
    BY <1>31 DEF CallbackPublish, OpAtPC, Id, Transitions
  <2>2. published' \subseteq Transitions
    BY <1>31, <2>1 DEF CallbackPublish
  <2> QED
    BY <1>31, <2>2 DEF CallbackPublish, AfterCallback, Operation, Action
<1>32. ASSUME NEW r \in Requests, CallbackObtainFails(r)
      PROVE  TypeOK'
  BY <1>32 DEF CallbackObtainFails, AfterCallback, Operation, Action
<1>33. ASSUME NEW r \in Requests, AwaitKey(r)
      PROVE  TypeOK'
  BY <1>33 DEF AwaitKey
<1>34. ASSUME NEW r \in Requests, Subscribe(r)
      PROVE  TypeOK'
  BY <1>34 DEF Subscribe
<1>35. ASSUME NEW r \in Requests, CheckKey(r)
      PROVE  TypeOK'
  BY <1>35 DEF CheckKey
<1>36. ASSUME NEW r \in Requests, Woken(r)
      PROVE  TypeOK'
  BY <1>36 DEF Woken
<1>37. ASSUME NEW r \in Requests, Poll(r)
      PROVE  TypeOK'
  BY <1>37 DEF Poll
<1>38. ASSUME NEW r \in Requests, CheckResult(r)
      PROVE  TypeOK'
  BY <1>38 DEF CheckResult, ErrorOutcome
<1>39. ASSUME NEW r \in Requests, Crash(r)
      PROVE  TypeOK'
  BY <1>39 DEF Crash
<1>40. ASSUME NEW r \in Requests, Cancel(r)
      PROVE  TypeOK'
  BY <1>40 DEF Cancel
<1>41. ASSUME NEW id \in Transitions, Dispatch(id)
      PROVE  TypeOK'
  BY <1>41 DEF Dispatch
<1>42. ASSUME NEW id \in Transitions, ResultExpires(id)
      PROVE  TypeOK'
  BY <1>42 DEF ResultExpires
<1>43. CASE LockExpires
  BY <1>43 DEF LockExpires
<1>44. CASE CbLockExpires
  BY <1>44 DEF CbLockExpires
<1>45. CASE KeyExpires
  BY <1>45 DEF KeyExpires
<1>46. ASSUME NEW r \in Requests, RestoreMissing(r)
      PROVE  TypeOK'
  BY <1>46 DEF RestoreMissing, GiveUpRestore
<1>47. ASSUME NEW r \in Requests, LostCheck(r)
      PROVE  TypeOK'
  BY <1>47 DEF LostCheck
<1>48. ASSUME NEW r \in Requests, CommandFails(r)
      PROVE  TypeOK'
  BY <1>48 DEF CommandFails, ErrorOutcome
<1> QED
  BY <1>1, <1>2, <1>3, <1>4, <1>5, <1>6, <1>7, <1>8, <1>9, <1>10, <1>11, <1>12, <1>13,
     <1>14, <1>15, <1>16, <1>17, <1>18, <1>19, <1>20, <1>21, <1>22, <1>23, <1>24, <1>25,
     <1>26, <1>27, <1>28, <1>29, <1>30, <1>31, <1>32, <1>33, <1>34, <1>35, <1>36, <1>37,
     <1>38, <1>39, <1>40, <1>41, <1>42, <1>43, <1>44, <1>45, <1>46, <1>47, <1>48 DEF
     Next, Step, Failure

\* At every command a request runs an operation that can reach it: only a
\* snapshot restores, only a kill or pause removes, only these wait.
LEMMA OpStep == TypeOK /\ OpAtPC /\ [Next]_vars => OpAtPC'
<1> SUFFICES ASSUME TypeOK, OpAtPC, [Next]_vars PROVE OpAtPC'
  OBVIOUS
<1> USE NoneAssumption, ParameterAssumption
    DEF OpAtPC, ActivePC, CallbackPC, WaitPC, RemovePC, RestorePC, Goto, Return, redis, local
<1>1. CASE UNCHANGED vars
  BY <1>1 DEF vars, TypeOK, Action, Operation
<1>2. CASE Tick
  BY <1>2 DEF Tick, TypeOK, Action, Operation
<1>3. ASSUME NEW e \in Executions, NEW d \in Durations, NEW a \in AutoPause, Create(e, d, a)
      PROVE  OpAtPC'
  BY <1>3 DEF Create, TypeOK, Action, Operation
<1>4. ASSUME NEW r \in Requests, NEW o \in Ops, Begin(r, o)
      PROVE  OpAtPC'
  BY <1>4 DEF Begin, TypeOK, Action, Operation
<1>5. ASSUME NEW r \in Requests, BeginEviction(r)
      PROVE  OpAtPC'
  BY <1>5 DEF BeginEviction, TypeOK, Action, Operation
<1>6. ASSUME NEW r \in Requests, Obtain(r)
      PROVE  OpAtPC'
  BY <1>6 DEF Obtain, TypeOK, Action, Operation
<1>7. ASSUME NEW r \in Requests, GetMissing(r)
      PROVE  OpAtPC'
  BY <1>7 DEF GetMissing, TypeOK, Action, Operation
<1>8. ASSUME NEW r \in Requests, Get(r)
      PROVE  OpAtPC'
  BY <1>8 DEF Get, TypeOK, Action, Operation
<1>9. ASSUME NEW r \in Requests, RefuseEviction(r)
      PROVE  OpAtPC'
  BY <1>9 DEF RefuseEviction, TypeOK, Action, Operation
<1>10. ASSUME NEW r \in Requests, JoinTransition(r)
      PROVE  OpAtPC'
  BY <1>10 DEF JoinTransition, TypeOK, Action, Operation
<1>11. ASSUME NEW r \in Requests, AlreadyInState(r)
      PROVE  OpAtPC'
  BY <1>11 DEF AlreadyInState, TypeOK, Action, Operation
<1>12. ASSUME NEW r \in Requests, RejectTransition(r)
      PROVE  OpAtPC'
  BY <1>12 DEF RejectTransition, TypeOK, Action, Operation
<1>13. ASSUME NEW r \in Requests, AcceptTransition(r)
      PROVE  OpAtPC'
  BY <1>13 DEF AcceptTransition, TypeOK, Action, Operation
<1>14. ASSUME NEW r \in Requests, StartTransition(r)
      PROVE  OpAtPC'
  BY <1>14 DEF StartTransition, TypeOK, Action, Operation
<1>15. ASSUME NEW r \in Requests, UpdateRefused(r)
      PROVE  OpAtPC'
  BY <1>15 DEF UpdateRefused, TypeOK, Action, Operation
<1>16. ASSUME NEW r \in Requests, NEW d \in Durations, NEW shorter \in BOOLEAN, Update(r, d, shorter)
      PROVE  OpAtPC'
  BY <1>16 DEF Update, TypeOK, Action, Operation
<1>17. ASSUME NEW r \in Requests, NodeRemoves(r)
      PROVE  OpAtPC'
  BY <1>17 DEF NodeRemoves, TypeOK, Action, Operation, Transient
<1>18. ASSUME NEW r \in Requests, NodeRemoveFails(r)
      PROVE  OpAtPC'
  BY <1>18 DEF NodeRemoveFails, TypeOK, Action, Operation, Transient
<1>19. ASSUME NEW r \in Requests, NEW o \in {"ok", "failed"}, Checkpoint(r, o)
      PROVE  OpAtPC'
  BY <1>19 DEF Checkpoint, TypeOK, Action, Operation, Transient
<1>20. ASSUME NEW r \in Requests, CheckpointFails(r)
      PROVE  OpAtPC'
  BY <1>20 DEF CheckpointFails, TypeOK, Action, Operation, Transient
<1>21. ASSUME NEW r \in Requests, RemoveObtain(r)
      PROVE  OpAtPC'
  BY <1>21 DEF RemoveObtain, TypeOK, Action, Operation
<1>22. ASSUME NEW r \in Requests, RemoveRecord(r)
      PROVE  OpAtPC'
  BY <1>22 DEF RemoveRecord, TypeOK, Action, Operation
<1>23. ASSUME NEW r \in Requests, RemoveFails(r)
      PROVE  OpAtPC'
  BY <1>23 DEF RemoveFails, TypeOK, Action, Operation
<1>24. ASSUME NEW r \in Requests, RestoreObtain(r)
      PROVE  OpAtPC'
  BY <1>24 DEF RestoreObtain, TypeOK, Action, Operation
<1>25. ASSUME NEW r \in Requests, RestoreGet(r)
      PROVE  OpAtPC'
  BY <1>25 DEF RestoreGet, TypeOK, Action, Operation
<1>26. ASSUME NEW r \in Requests, RestoreSet(r)
      PROVE  OpAtPC'
  BY <1>26 DEF RestoreSet, Restored, TypeOK, Action, Operation
<1>27. ASSUME NEW r \in Requests, RestoreFails(r)
      PROVE  OpAtPC'
  BY <1>27 DEF RestoreFails, GiveUpRestore, Restored, TypeOK, Action, Operation
<1>28. ASSUME NEW r \in Requests, CallbackObtain(r)
      PROVE  OpAtPC'
  BY <1>28 DEF CallbackObtain, TypeOK, Action, Operation
<1>29. ASSUME NEW r \in Requests, CallbackSet(r)
      PROVE  OpAtPC'
  BY <1>29 DEF CallbackSet, TypeOK, Action, Operation
<1>30. ASSUME NEW r \in Requests, CallbackDel(r)
      PROVE  OpAtPC'
  BY <1>30 DEF CallbackDel, TypeOK, Action, Operation
<1>31. ASSUME NEW r \in Requests, CallbackPublish(r)
      PROVE  OpAtPC'
  BY <1>31 DEF CallbackPublish, TypeOK, Action, Operation, AfterCallback, Transient
<1>32. ASSUME NEW r \in Requests, CallbackObtainFails(r)
      PROVE  OpAtPC'
  BY <1>32 DEF CallbackObtainFails, TypeOK, Action, Operation, AfterCallback, Transient
<1>33. ASSUME NEW r \in Requests, AwaitKey(r)
      PROVE  OpAtPC'
  BY <1>33 DEF AwaitKey, TypeOK, Action, Operation
<1>34. ASSUME NEW r \in Requests, Subscribe(r)
      PROVE  OpAtPC'
  BY <1>34 DEF Subscribe, TypeOK, Action, Operation
<1>35. ASSUME NEW r \in Requests, CheckKey(r)
      PROVE  OpAtPC'
  BY <1>35 DEF CheckKey, TypeOK, Action, Operation
<1>36. ASSUME NEW r \in Requests, Woken(r)
      PROVE  OpAtPC'
  BY <1>36 DEF Woken, TypeOK, Action, Operation
<1>37. ASSUME NEW r \in Requests, Poll(r)
      PROVE  OpAtPC'
  BY <1>37 DEF Poll, TypeOK, Action, Operation
<1>38. ASSUME NEW r \in Requests, CheckResult(r)
      PROVE  OpAtPC'
  BY <1>38 DEF CheckResult, ErrorOutcome, TypeOK, Action, Operation
<1>39. ASSUME NEW r \in Requests, Crash(r)
      PROVE  OpAtPC'
  BY <1>39 DEF Crash, TypeOK, Action, Operation
<1>40. ASSUME NEW r \in Requests, Cancel(r)
      PROVE  OpAtPC'
  BY <1>40 DEF Cancel, TypeOK, Action, Operation
<1>41. ASSUME NEW id \in Transitions, Dispatch(id)
      PROVE  OpAtPC'
  BY <1>41 DEF Dispatch, TypeOK, Action, Operation
<1>42. ASSUME NEW id \in Transitions, ResultExpires(id)
      PROVE  OpAtPC'
  BY <1>42 DEF ResultExpires, TypeOK, Action, Operation
<1>43. CASE LockExpires
  BY <1>43 DEF LockExpires, TypeOK, Action, Operation
<1>44. CASE CbLockExpires
  BY <1>44 DEF CbLockExpires, TypeOK, Action, Operation
<1>45. CASE KeyExpires
  BY <1>45 DEF KeyExpires, TypeOK, Action, Operation
<1>46. ASSUME NEW r \in Requests, RestoreMissing(r)
      PROVE  OpAtPC'
  BY <1>46 DEF RestoreMissing, GiveUpRestore, TypeOK, Action, Operation
<1>47. ASSUME NEW r \in Requests, LostCheck(r)
      PROVE  OpAtPC'
  BY <1>47 DEF LostCheck, TypeOK, Action, Operation
<1>48. ASSUME NEW r \in Requests, CommandFails(r)
      PROVE  OpAtPC'
  BY <1>48 DEF CommandFails, ErrorOutcome, TypeOK, Action, Operation
<1> QED
  BY <1>1, <1>2, <1>3, <1>4, <1>5, <1>6, <1>7, <1>8, <1>9, <1>10, <1>11, <1>12, <1>13,
     <1>14, <1>15, <1>16, <1>17, <1>18, <1>19, <1>20, <1>21, <1>22, <1>23, <1>24, <1>25,
     <1>26, <1>27, <1>28, <1>29, <1>30, <1>31, <1>32, <1>33, <1>34, <1>35, <1>36, <1>37,
     <1>38, <1>39, <1>40, <1>41, <1>42, <1>43, <1>44, <1>45, <1>46, <1>47, <1>48 DEF
     Next, Step, Failure

\* The commands between lockService.Obtain and lock.Release run with the lock
\* on the sandbox key, unless the lock expires under its holder.
LEMMA LockStep ==
  ASSUME "slowHolder" \notin Faults, TypeOK, HoldersHoldLock, [Next]_vars
  PROVE  HoldersHoldLock'
<1> USE NoneAssumption
    DEF TypeOK, HoldersHoldLock, HolderPC, Goto, Return, Release, redis, local
<1>1. CASE UNCHANGED vars
  BY <1>1 DEF vars
<1>2. CASE Tick
  BY <1>2 DEF Tick
<1>3. ASSUME NEW e \in Executions, NEW d \in Durations, NEW a \in AutoPause, Create(e, d, a)
      PROVE  HoldersHoldLock'
  BY <1>3 DEF Create
<1>4. ASSUME NEW r \in Requests, NEW o \in Ops, Begin(r, o)
      PROVE  HoldersHoldLock'
  BY <1>4 DEF Begin
<1>5. ASSUME NEW r \in Requests, BeginEviction(r)
      PROVE  HoldersHoldLock'
  BY <1>5 DEF BeginEviction
<1>6. ASSUME NEW r \in Requests, Obtain(r)
      PROVE  HoldersHoldLock'
  BY <1>6 DEF Obtain
<1>7. ASSUME NEW r \in Requests, GetMissing(r)
      PROVE  HoldersHoldLock'
  BY <1>7 DEF GetMissing
<1>8. ASSUME NEW r \in Requests, Get(r)
      PROVE  HoldersHoldLock'
  BY <1>8 DEF Get
<1>9. ASSUME NEW r \in Requests, RefuseEviction(r)
      PROVE  HoldersHoldLock'
  BY <1>9 DEF RefuseEviction
<1>10. ASSUME NEW r \in Requests, JoinTransition(r)
      PROVE  HoldersHoldLock'
  BY <1>10 DEF JoinTransition
<1>11. ASSUME NEW r \in Requests, AlreadyInState(r)
      PROVE  HoldersHoldLock'
  BY <1>11 DEF AlreadyInState
<1>12. ASSUME NEW r \in Requests, RejectTransition(r)
      PROVE  HoldersHoldLock'
  BY <1>12 DEF RejectTransition
<1>13. ASSUME NEW r \in Requests, AcceptTransition(r)
      PROVE  HoldersHoldLock'
  BY <1>13 DEF AcceptTransition
<1>14. ASSUME NEW r \in Requests, StartTransition(r)
      PROVE  HoldersHoldLock'
  BY <1>14 DEF StartTransition
<1>15. ASSUME NEW r \in Requests, UpdateRefused(r)
      PROVE  HoldersHoldLock'
  BY <1>15 DEF UpdateRefused
<1>16. ASSUME NEW r \in Requests, NEW d \in Durations, NEW shorter \in BOOLEAN, Update(r, d, shorter)
      PROVE  HoldersHoldLock'
  BY <1>16 DEF Update
<1>17. ASSUME NEW r \in Requests, NodeRemoves(r)
      PROVE  HoldersHoldLock'
  BY <1>17 DEF NodeRemoves
<1>18. ASSUME NEW r \in Requests, NodeRemoveFails(r)
      PROVE  HoldersHoldLock'
  BY <1>18 DEF NodeRemoveFails
<1>19. ASSUME NEW r \in Requests, NEW o \in {"ok", "failed"}, Checkpoint(r, o)
      PROVE  HoldersHoldLock'
  BY <1>19 DEF Checkpoint
<1>20. ASSUME NEW r \in Requests, CheckpointFails(r)
      PROVE  HoldersHoldLock'
  BY <1>20 DEF CheckpointFails
<1>21. ASSUME NEW r \in Requests, RemoveObtain(r)
      PROVE  HoldersHoldLock'
  BY <1>21 DEF RemoveObtain
<1>22. ASSUME NEW r \in Requests, RemoveRecord(r)
      PROVE  HoldersHoldLock'
  BY <1>22 DEF RemoveRecord
<1>23. ASSUME NEW r \in Requests, RemoveFails(r)
      PROVE  HoldersHoldLock'
  BY <1>23 DEF RemoveFails, RemovePC
<1>24. ASSUME NEW r \in Requests, RestoreObtain(r)
      PROVE  HoldersHoldLock'
  BY <1>24 DEF RestoreObtain
<1>25. ASSUME NEW r \in Requests, RestoreGet(r)
      PROVE  HoldersHoldLock'
  BY <1>25 DEF RestoreGet
<1>26. ASSUME NEW r \in Requests, RestoreSet(r)
      PROVE  HoldersHoldLock'
  BY <1>26 DEF RestoreSet, Restored
<1>27. ASSUME NEW r \in Requests, RestoreFails(r)
      PROVE  HoldersHoldLock'
  BY <1>27 DEF RestoreFails, GiveUpRestore, Restored, RestorePC
<1>28. ASSUME NEW r \in Requests, CallbackObtain(r)
      PROVE  HoldersHoldLock'
  BY <1>28 DEF CallbackObtain
<1>29. ASSUME NEW r \in Requests, CallbackSet(r)
      PROVE  HoldersHoldLock'
  BY <1>29 DEF CallbackSet
<1>30. ASSUME NEW r \in Requests, CallbackDel(r)
      PROVE  HoldersHoldLock'
  BY <1>30 DEF CallbackDel
<1>31. ASSUME NEW r \in Requests, CallbackPublish(r)
      PROVE  HoldersHoldLock'
  BY <1>31 DEF CallbackPublish, AfterCallback
<1>32. ASSUME NEW r \in Requests, CallbackObtainFails(r)
      PROVE  HoldersHoldLock'
  BY <1>32 DEF CallbackObtainFails, AfterCallback
<1>33. ASSUME NEW r \in Requests, AwaitKey(r)
      PROVE  HoldersHoldLock'
  BY <1>33 DEF AwaitKey
<1>34. ASSUME NEW r \in Requests, Subscribe(r)
      PROVE  HoldersHoldLock'
  BY <1>34 DEF Subscribe
<1>35. ASSUME NEW r \in Requests, CheckKey(r)
      PROVE  HoldersHoldLock'
  BY <1>35 DEF CheckKey
<1>36. ASSUME NEW r \in Requests, Woken(r)
      PROVE  HoldersHoldLock'
  BY <1>36 DEF Woken
<1>37. ASSUME NEW r \in Requests, Poll(r)
      PROVE  HoldersHoldLock'
  BY <1>37 DEF Poll
<1>38. ASSUME NEW r \in Requests, CheckResult(r)
      PROVE  HoldersHoldLock'
  BY <1>38 DEF CheckResult, ErrorOutcome
<1>39. ASSUME NEW r \in Requests, Crash(r)
      PROVE  HoldersHoldLock'
  BY <1>39 DEF Crash
<1>40. ASSUME NEW r \in Requests, Cancel(r)
      PROVE  HoldersHoldLock'
  BY <1>40 DEF Cancel
<1>41. ASSUME NEW id \in Transitions, Dispatch(id)
      PROVE  HoldersHoldLock'
  BY <1>41 DEF Dispatch
<1>42. ASSUME NEW id \in Transitions, ResultExpires(id)
      PROVE  HoldersHoldLock'
  BY <1>42 DEF ResultExpires
<1>43. CASE LockExpires
  BY <1>43 DEF LockExpires
<1>44. CASE CbLockExpires
  BY <1>44 DEF CbLockExpires
<1>45. CASE KeyExpires
  BY <1>45 DEF KeyExpires
<1>46. ASSUME NEW r \in Requests, RestoreMissing(r)
      PROVE  HoldersHoldLock'
  BY <1>46 DEF RestoreMissing, GiveUpRestore
<1>47. ASSUME NEW r \in Requests, LostCheck(r)
      PROVE  HoldersHoldLock'
  BY <1>47 DEF LostCheck
<1>48. ASSUME NEW r \in Requests, CommandFails(r)
      PROVE  HoldersHoldLock'
  BY <1>48 DEF CommandFails, ErrorOutcome
<1> QED
  BY <1>1, <1>2, <1>3, <1>4, <1>5, <1>6, <1>7, <1>8, <1>9, <1>10, <1>11, <1>12, <1>13,
     <1>14, <1>15, <1>16, <1>17, <1>18, <1>19, <1>20, <1>21, <1>22, <1>23, <1>24, <1>25,
     <1>26, <1>27, <1>28, <1>29, <1>30, <1>31, <1>32, <1>33, <1>34, <1>35, <1>36, <1>37,
     <1>38, <1>39, <1>40, <1>41, <1>42, <1>43, <1>44, <1>45, <1>46, <1>47, <1>48 DEF
     Next, Step, Failure

\* From startTransitionScript to the DEL of its callback the transition key
\* holds the ID of its owner, and what StartRemoving checked before the script
\* still holds when the script runs.
LEMMA KeyStep ==
  ASSUME "slowTransition" \notin Faults, TypeOK, OpAtPC, HoldersHoldLock, OwnerHasKey,
         ChecksStillHold, [Next]_vars
  PROVE  OwnerHasKey' /\ ChecksStillHold'
<1> USE NoneAssumption, ParameterAssumption
    DEF TypeOK, HoldersHoldLock, OwnerHasKey, ChecksStillHold, Active, Id, ActivePC, RemovePC,
        RestorePC, HolderPC, IsExpired, Goto, Return, redis, local
<1>1. CASE UNCHANGED vars
  BY <1>1 DEF vars
<1>2. CASE Tick
  BY <1>2 DEF Tick, OpAtPC, Sandbox
<1>3. ASSUME NEW e \in Executions, NEW d \in Durations, NEW a \in AutoPause, Create(e, d, a)
      PROVE  OwnerHasKey' /\ ChecksStillHold'
  BY <1>3 DEF Create
<1>4. ASSUME NEW r \in Requests, NEW o \in Ops, Begin(r, o)
      PROVE  OwnerHasKey' /\ ChecksStillHold'
  BY <1>4 DEF Begin
<1>5. ASSUME NEW r \in Requests, BeginEviction(r)
      PROVE  OwnerHasKey' /\ ChecksStillHold'
  BY <1>5 DEF BeginEviction
<1>6. ASSUME NEW r \in Requests, Obtain(r)
      PROVE  OwnerHasKey' /\ ChecksStillHold'
  BY <1>6 DEF Obtain
<1>7. ASSUME NEW r \in Requests, GetMissing(r)
      PROVE  OwnerHasKey' /\ ChecksStillHold'
  BY <1>7 DEF GetMissing
<1>8. ASSUME NEW r \in Requests, Get(r)
      PROVE  OwnerHasKey' /\ ChecksStillHold'
  BY <1>8 DEF Get
<1>9. ASSUME NEW r \in Requests, RefuseEviction(r)
      PROVE  OwnerHasKey' /\ ChecksStillHold'
  BY <1>9 DEF RefuseEviction
<1>10. ASSUME NEW r \in Requests, JoinTransition(r)
      PROVE  OwnerHasKey' /\ ChecksStillHold'
  BY <1>10 DEF JoinTransition
<1>11. ASSUME NEW r \in Requests, AlreadyInState(r)
      PROVE  OwnerHasKey' /\ ChecksStillHold'
  BY <1>11 DEF AlreadyInState
<1>12. ASSUME NEW r \in Requests, RejectTransition(r)
      PROVE  OwnerHasKey' /\ ChecksStillHold'
  BY <1>12 DEF RejectTransition
<1>13. ASSUME NEW r \in Requests, AcceptTransition(r)
      PROVE  OwnerHasKey' /\ ChecksStillHold'
  BY <1>13 DEF AcceptTransition, EvictionHolds
<1>14. ASSUME NEW r \in Requests, StartTransition(r)
      PROVE  OwnerHasKey' /\ ChecksStillHold'
  <2>1. \A s \in Requests : s # r => pc[s] \notin HolderPC
    BY <1>14 DEF StartTransition
  <2>2. \A s \in Requests : ~Active(s)
    <3> SUFFICES ASSUME NEW s \in Requests, Active(s) PROVE FALSE
      OBVIOUS
    <3>1. Id(s) \in Transitions
      BY DEF OpAtPC, Transitions
    <3>2. key = None
      BY <1>14 DEF StartTransition
    <3> QED
      BY <3>1, <3>2
  <2> QED
    BY <1>14, <2>1, <2>2 DEF StartTransition
<1>15. ASSUME NEW r \in Requests, UpdateRefused(r)
      PROVE  OwnerHasKey' /\ ChecksStillHold'
  BY <1>15 DEF UpdateRefused
<1>16. ASSUME NEW r \in Requests, NEW d \in Durations, NEW shorter \in BOOLEAN, Update(r, d, shorter)
      PROVE  OwnerHasKey' /\ ChecksStillHold'
  BY <1>16 DEF Update
<1>17. ASSUME NEW r \in Requests, NodeRemoves(r)
      PROVE  OwnerHasKey' /\ ChecksStillHold'
  BY <1>17 DEF NodeRemoves
<1>18. ASSUME NEW r \in Requests, NodeRemoveFails(r)
      PROVE  OwnerHasKey' /\ ChecksStillHold'
  BY <1>18 DEF NodeRemoveFails
<1>19. ASSUME NEW r \in Requests, NEW o \in {"ok", "failed"}, Checkpoint(r, o)
      PROVE  OwnerHasKey' /\ ChecksStillHold'
  BY <1>19 DEF Checkpoint
<1>20. ASSUME NEW r \in Requests, CheckpointFails(r)
      PROVE  OwnerHasKey' /\ ChecksStillHold'
  BY <1>20 DEF CheckpointFails
<1>21. ASSUME NEW r \in Requests, RemoveObtain(r)
      PROVE  OwnerHasKey' /\ ChecksStillHold'
  BY <1>21 DEF RemoveObtain
<1>22. ASSUME NEW r \in Requests, RemoveRecord(r)
      PROVE  OwnerHasKey' /\ ChecksStillHold'
  BY <1>22 DEF RemoveRecord
<1>23. ASSUME NEW r \in Requests, RemoveFails(r)
      PROVE  OwnerHasKey' /\ ChecksStillHold'
  BY <1>23 DEF RemoveFails
<1>24. ASSUME NEW r \in Requests, RestoreObtain(r)
      PROVE  OwnerHasKey' /\ ChecksStillHold'
  BY <1>24 DEF RestoreObtain
<1>25. ASSUME NEW r \in Requests, RestoreGet(r)
      PROVE  OwnerHasKey' /\ ChecksStillHold'
  BY <1>25 DEF RestoreGet
<1>26. ASSUME NEW r \in Requests, RestoreSet(r)
      PROVE  OwnerHasKey' /\ ChecksStillHold'
  BY <1>26 DEF RestoreSet, Restored
<1>27. ASSUME NEW r \in Requests, RestoreFails(r)
      PROVE  OwnerHasKey' /\ ChecksStillHold'
  BY <1>27 DEF RestoreFails, GiveUpRestore, Restored
<1>28. ASSUME NEW r \in Requests, CallbackObtain(r)
      PROVE  OwnerHasKey' /\ ChecksStillHold'
  BY <1>28 DEF CallbackObtain
<1>29. ASSUME NEW r \in Requests, CallbackSet(r)
      PROVE  OwnerHasKey' /\ ChecksStillHold'
  BY <1>29 DEF CallbackSet
<1>30. ASSUME NEW r \in Requests, CallbackDel(r)
      PROVE  OwnerHasKey' /\ ChecksStillHold'
  BY <1>30 DEF CallbackDel
<1>31. ASSUME NEW r \in Requests, CallbackPublish(r)
      PROVE  OwnerHasKey' /\ ChecksStillHold'
  BY <1>31 DEF CallbackPublish, AfterCallback
<1>32. ASSUME NEW r \in Requests, CallbackObtainFails(r)
      PROVE  OwnerHasKey' /\ ChecksStillHold'
  BY <1>32 DEF CallbackObtainFails, AfterCallback
<1>33. ASSUME NEW r \in Requests, AwaitKey(r)
      PROVE  OwnerHasKey' /\ ChecksStillHold'
  BY <1>33 DEF AwaitKey
<1>34. ASSUME NEW r \in Requests, Subscribe(r)
      PROVE  OwnerHasKey' /\ ChecksStillHold'
  BY <1>34 DEF Subscribe
<1>35. ASSUME NEW r \in Requests, CheckKey(r)
      PROVE  OwnerHasKey' /\ ChecksStillHold'
  BY <1>35 DEF CheckKey
<1>36. ASSUME NEW r \in Requests, Woken(r)
      PROVE  OwnerHasKey' /\ ChecksStillHold'
  BY <1>36 DEF Woken
<1>37. ASSUME NEW r \in Requests, Poll(r)
      PROVE  OwnerHasKey' /\ ChecksStillHold'
  BY <1>37 DEF Poll
<1>38. ASSUME NEW r \in Requests, CheckResult(r)
      PROVE  OwnerHasKey' /\ ChecksStillHold'
  BY <1>38 DEF CheckResult, ErrorOutcome
<1>39. ASSUME NEW r \in Requests, Crash(r)
      PROVE  OwnerHasKey' /\ ChecksStillHold'
  BY <1>39 DEF Crash
<1>40. ASSUME NEW r \in Requests, Cancel(r)
      PROVE  OwnerHasKey' /\ ChecksStillHold'
  BY <1>40 DEF Cancel
<1>41. ASSUME NEW id \in Transitions, Dispatch(id)
      PROVE  OwnerHasKey' /\ ChecksStillHold'
  BY <1>41 DEF Dispatch
<1>42. ASSUME NEW id \in Transitions, ResultExpires(id)
      PROVE  OwnerHasKey' /\ ChecksStillHold'
  BY <1>42 DEF ResultExpires
<1>43. CASE LockExpires
  BY <1>43 DEF LockExpires
<1>44. CASE CbLockExpires
  BY <1>44 DEF CbLockExpires
<1>45. CASE KeyExpires
  BY <1>45 DEF KeyExpires, Owned
<1>46. ASSUME NEW r \in Requests, RestoreMissing(r)
      PROVE  OwnerHasKey' /\ ChecksStillHold'
  BY <1>46 DEF RestoreMissing, GiveUpRestore
<1>47. ASSUME NEW r \in Requests, LostCheck(r)
      PROVE  OwnerHasKey' /\ ChecksStillHold'
  BY <1>47 DEF LostCheck
<1>48. ASSUME NEW r \in Requests, CommandFails(r)
      PROVE  OwnerHasKey' /\ ChecksStillHold'
  BY <1>48 DEF CommandFails, ErrorOutcome
<1> HIDE DEF TypeOK, HoldersHoldLock, OwnerHasKey, ChecksStillHold, Active, Id, IsExpired
<1> QED
  BY <1>1, <1>2, <1>3, <1>4, <1>5, <1>6, <1>7, <1>8, <1>9, <1>10, <1>11, <1>12, <1>13,
     <1>14, <1>15, <1>16, <1>17, <1>18, <1>19, <1>20, <1>21, <1>22, <1>23, <1>24, <1>25,
     <1>26, <1>27, <1>28, <1>29, <1>30, <1>31, <1>32, <1>33, <1>34, <1>35, <1>36, <1>37,
     <1>38, <1>39, <1>40, <1>41, <1>42, <1>43, <1>44, <1>45, <1>46, <1>47, <1>48 DEF
     Next, Step, Failure

\* The key holds one ID, so at most one request owns a transition.
LEMMA OneOwner == TypeOK /\ OpAtPC /\ OwnerHasKey => OneTransition
<1> SUFFICES ASSUME TypeOK, OwnerHasKey, NEW r \in Requests, NEW s \in Requests, Active(r), Active(s)
             PROVE  r = s
  BY DEF OneTransition
<1>1. <<r, op[r]>> = <<s, op[s]>>
  BY DEF OwnerHasKey, Id
<1> QED
  BY <1>1

\* Without a transition key nobody owns a transition.
LEMMA NoOwnerWithoutKey ==
  TypeOK /\ OpAtPC /\ OwnerHasKey /\ key = None => \A r \in Requests : ~Active(r)
<1> SUFFICES ASSUME TypeOK, OpAtPC, OwnerHasKey, key = None, NEW r \in Requests, Active(r)
             PROVE  FALSE
  OBVIOUS
<1>1. Id(r) \in Transitions
  BY DEF TypeOK, OpAtPC, Active, Id, Transitions
<1> QED
  BY <1>1, NoneAssumption DEF OwnerHasKey

\* The end time of KeepAliveFor is a time.
LEMMA KeepAliveEndType ==
  ASSUME TypeOK, NEW r \in Requests, sbx[r] # None, NEW d \in Durations
  PROVE  KeepAliveEnd(r, d) \in Nat
  BY ParameterAssumption DEF TypeOK, KeepAliveEnd, Lesser, Sandbox

\* No command changes the record under a request that has read it under the
\* lock, nor under a transition's owner, except the owner's own.
LEMMA RecordStep ==
  ASSUME TypeOK, OpAtPC, HoldersHoldLock, OwnerHasKey, ChecksStillHold,
         NoLostUpdate, OwnerKeepsRecord, RestoredBeforeRelease, [Next]_vars
  PROVE  NoLostUpdate' /\ OwnerKeepsRecord' /\ RestoredBeforeRelease'
<1>a. OneTransition
  BY OneOwner
<1> USE NoneAssumption, ParameterAssumption
    DEF TypeOK, HoldersHoldLock, NoLostUpdate, OwnerKeepsRecord, RestoredBeforeRelease,
        HolderPC, RemovePC, RestorePC, Goto, Return, redis, local
<1>1. CASE UNCHANGED vars
  BY <1>1 DEF vars
<1>2. CASE Tick
  BY <1>2 DEF Tick
<1>3. ASSUME NEW e \in Executions, NEW d \in Durations, NEW a \in AutoPause, Create(e, d, a)
      PROVE  NoLostUpdate' /\ OwnerKeepsRecord' /\ RestoredBeforeRelease'
  BY <1>3 DEF Create, OpAtPC, ActivePC
<1>4. ASSUME NEW r \in Requests, NEW o \in Ops, Begin(r, o)
      PROVE  NoLostUpdate' /\ OwnerKeepsRecord' /\ RestoredBeforeRelease'
  BY <1>4 DEF Begin
<1>5. ASSUME NEW r \in Requests, BeginEviction(r)
      PROVE  NoLostUpdate' /\ OwnerKeepsRecord' /\ RestoredBeforeRelease'
  BY <1>5 DEF BeginEviction
<1>6. ASSUME NEW r \in Requests, Obtain(r)
      PROVE  NoLostUpdate' /\ OwnerKeepsRecord' /\ RestoredBeforeRelease'
  BY <1>6 DEF Obtain
<1>7. ASSUME NEW r \in Requests, GetMissing(r)
      PROVE  NoLostUpdate' /\ OwnerKeepsRecord' /\ RestoredBeforeRelease'
  BY <1>7 DEF GetMissing
<1>8. ASSUME NEW r \in Requests, Get(r)
      PROVE  NoLostUpdate' /\ OwnerKeepsRecord' /\ RestoredBeforeRelease'
  BY <1>8 DEF Get
<1>9. ASSUME NEW r \in Requests, RefuseEviction(r)
      PROVE  NoLostUpdate' /\ OwnerKeepsRecord' /\ RestoredBeforeRelease'
  BY <1>9 DEF RefuseEviction
<1>10. ASSUME NEW r \in Requests, JoinTransition(r)
      PROVE  NoLostUpdate' /\ OwnerKeepsRecord' /\ RestoredBeforeRelease'
  BY <1>10 DEF JoinTransition
<1>11. ASSUME NEW r \in Requests, AlreadyInState(r)
      PROVE  NoLostUpdate' /\ OwnerKeepsRecord' /\ RestoredBeforeRelease'
  BY <1>11 DEF AlreadyInState
<1>12. ASSUME NEW r \in Requests, RejectTransition(r)
      PROVE  NoLostUpdate' /\ OwnerKeepsRecord' /\ RestoredBeforeRelease'
  BY <1>12 DEF RejectTransition
<1>13. ASSUME NEW r \in Requests, AcceptTransition(r)
      PROVE  NoLostUpdate' /\ OwnerKeepsRecord' /\ RestoredBeforeRelease'
  BY <1>13 DEF AcceptTransition
<1>14. ASSUME NEW r \in Requests, StartTransition(r)
      PROVE  NoLostUpdate' /\ OwnerKeepsRecord' /\ RestoredBeforeRelease'
  <2>1. \A s \in Requests : s # r => pc[s] \notin HolderPC
    BY <1>14 DEF StartTransition
  <2>2. \A s \in Requests : pc[s] \notin ActivePC
    BY <1>14, NoOwnerWithoutKey DEF StartTransition, ChecksStillHold, Active
  <2>3. sbx[r] \in Sandbox /\ TargetState(op[r]) \in State
    BY <1>14 DEF StartTransition, OpAtPC, TargetState, State
  <2>4. PICK e \in Nat : rec' = Amend(sbx[r], TargetState(op[r]), e)
    BY <1>14, <2>3 DEF StartTransition, Sandbox
  <2>5. rec' # None /\ rec'.exec = sbx[r].exec /\ rec'.state = TargetState(op[r])
    BY <2>3, <2>4, AmendFields
  <2> QED
    BY <1>14, <2>1, <2>2, <2>5 DEF StartTransition, ActivePC
<1>15. ASSUME NEW r \in Requests, UpdateRefused(r)
      PROVE  NoLostUpdate' /\ OwnerKeepsRecord' /\ RestoredBeforeRelease'
  BY <1>15 DEF UpdateRefused
<1>16. ASSUME NEW r \in Requests, NEW d \in Durations, NEW shorter \in BOOLEAN, Update(r, d, shorter)
      PROVE  NoLostUpdate' /\ OwnerKeepsRecord' /\ RestoredBeforeRelease'
  <2>1. \A s \in Requests : s # r => pc[s] \notin HolderPC
    BY <1>16 DEF Update
  <2>2. rec # None /\ rec.state = "running" /\ rec'.state = "running" /\ rec' # None
    <3>1. sbx[r] \in Sandbox /\ rec = sbx[r] /\ sbx[r].state = "running"
      BY <1>16 DEF Update, OpAtPC
    <3>2. KeepAliveEnd(r, d) \in Nat
      BY <3>1, KeepAliveEndType
    <3>3. PICK e \in Nat : rec' = sbx[r] \/ rec' = Amend(sbx[r], "running", e)
      BY <1>16, <3>1, <3>2 DEF Update
    <3>4. "running" \in State
      BY DEF State
    <3>5. CASE rec' = sbx[r]
      BY <3>1, <3>5
    <3>6. CASE rec' = Amend(sbx[r], "running", e)
      <4>1. rec' # None /\ rec'.state = "running"
        BY <3>1, <3>3, <3>4, <3>6 DEF Amend, Sandbox
      <4> QED
        BY <3>1, <4>1
    <3> QED
      BY <3>3, <3>5, <3>6
  <2>3. \A s \in Requests : pc[s] \notin {"work"} \cup RemovePC \cup RestorePC
    BY <2>2 DEF TargetState
  <2> QED
    BY <1>16, <2>1, <2>2, <2>3 DEF Update
<1>17. ASSUME NEW r \in Requests, NodeRemoves(r)
      PROVE  NoLostUpdate' /\ OwnerKeepsRecord' /\ RestoredBeforeRelease'
  BY <1>17 DEF NodeRemoves, OpAtPC, Transient
<1>18. ASSUME NEW r \in Requests, NodeRemoveFails(r)
      PROVE  NoLostUpdate' /\ OwnerKeepsRecord' /\ RestoredBeforeRelease'
  BY <1>18 DEF NodeRemoveFails, OpAtPC, Transient
<1>19. ASSUME NEW r \in Requests, NEW o \in {"ok", "failed"}, Checkpoint(r, o)
      PROVE  NoLostUpdate' /\ OwnerKeepsRecord' /\ RestoredBeforeRelease'
  BY <1>19 DEF Checkpoint, OpAtPC, Transient
<1>20. ASSUME NEW r \in Requests, CheckpointFails(r)
      PROVE  NoLostUpdate' /\ OwnerKeepsRecord' /\ RestoredBeforeRelease'
  BY <1>20 DEF CheckpointFails, OpAtPC, Transient
<1>21. ASSUME NEW r \in Requests, RemoveObtain(r)
      PROVE  NoLostUpdate' /\ OwnerKeepsRecord' /\ RestoredBeforeRelease'
  BY <1>21 DEF RemoveObtain
<1>22. ASSUME NEW r \in Requests, RemoveRecord(r)
      PROVE  NoLostUpdate' /\ OwnerKeepsRecord' /\ RestoredBeforeRelease'
  <2>1. \A s \in Requests : s # r => pc[s] \notin HolderPC \cup ActivePC
    BY <1>22, <1>a DEF RemoveRecord, OneTransition, Active, ActivePC
  <2> QED
    BY <1>22, <2>1 DEF RemoveRecord, OpAtPC, ActivePC
<1>23. ASSUME NEW r \in Requests, RemoveFails(r)
      PROVE  NoLostUpdate' /\ OwnerKeepsRecord' /\ RestoredBeforeRelease'
  BY <1>23 DEF RemoveFails, OpAtPC
<1>24. ASSUME NEW r \in Requests, RestoreObtain(r)
      PROVE  NoLostUpdate' /\ OwnerKeepsRecord' /\ RestoredBeforeRelease'
  BY <1>24 DEF RestoreObtain
<1>25. ASSUME NEW r \in Requests, RestoreGet(r)
      PROVE  NoLostUpdate' /\ OwnerKeepsRecord' /\ RestoredBeforeRelease'
  BY <1>25 DEF RestoreGet
<1>26. ASSUME NEW r \in Requests, RestoreSet(r)
      PROVE  NoLostUpdate' /\ OwnerKeepsRecord' /\ RestoredBeforeRelease'
  <2>1. \A s \in Requests : s # r => pc[s] \notin HolderPC \cup ActivePC
    BY <1>26, <1>a DEF RestoreSet, Restored, OneTransition, Active, ActivePC
  <2>2. rec' = Amend(sbx[r], "running", sbx[r].end)
    BY <1>26 DEF RestoreSet, Restored
  <2>3. rec' # None /\ rec'.state = "running"
    BY <2>2, <1>26 DEF RestoreSet, Restored, OpAtPC, ActivePC, Amend, Sandbox, State
  <2> QED
    BY <1>26, <2>1, <2>3 DEF RestoreSet, Restored, ActivePC
<1>27. ASSUME NEW r \in Requests, RestoreFails(r)
      PROVE  NoLostUpdate' /\ OwnerKeepsRecord' /\ RestoredBeforeRelease'
  <2>1. \A s \in Requests : s # r => pc[s] \notin ActivePC
    BY <1>27, <1>a DEF RestoreFails, OneTransition, Active, ActivePC
  <2>2. rec' # rec => \A s \in Requests : s # r => pc[s] \notin HolderPC
    BY <1>27 DEF RestoreFails
  <2> QED
    BY <1>27, <2>1, <2>2 DEF RestoreFails, GiveUpRestore, ActivePC
<1>28. ASSUME NEW r \in Requests, CallbackObtain(r)
      PROVE  NoLostUpdate' /\ OwnerKeepsRecord' /\ RestoredBeforeRelease'
  BY <1>28 DEF CallbackObtain
<1>29. ASSUME NEW r \in Requests, CallbackSet(r)
      PROVE  NoLostUpdate' /\ OwnerKeepsRecord' /\ RestoredBeforeRelease'
  BY <1>29 DEF CallbackSet
<1>30. ASSUME NEW r \in Requests, CallbackDel(r)
      PROVE  NoLostUpdate' /\ OwnerKeepsRecord' /\ RestoredBeforeRelease'
  BY <1>30 DEF CallbackDel
<1>31. ASSUME NEW r \in Requests, CallbackPublish(r)
      PROVE  NoLostUpdate' /\ OwnerKeepsRecord' /\ RestoredBeforeRelease'
  BY <1>31 DEF CallbackPublish, AfterCallback
<1>32. ASSUME NEW r \in Requests, CallbackObtainFails(r)
      PROVE  NoLostUpdate' /\ OwnerKeepsRecord' /\ RestoredBeforeRelease'
  BY <1>32 DEF CallbackObtainFails, AfterCallback
<1>33. ASSUME NEW r \in Requests, AwaitKey(r)
      PROVE  NoLostUpdate' /\ OwnerKeepsRecord' /\ RestoredBeforeRelease'
  BY <1>33 DEF AwaitKey
<1>34. ASSUME NEW r \in Requests, Subscribe(r)
      PROVE  NoLostUpdate' /\ OwnerKeepsRecord' /\ RestoredBeforeRelease'
  BY <1>34 DEF Subscribe
<1>35. ASSUME NEW r \in Requests, CheckKey(r)
      PROVE  NoLostUpdate' /\ OwnerKeepsRecord' /\ RestoredBeforeRelease'
  BY <1>35 DEF CheckKey
<1>36. ASSUME NEW r \in Requests, Woken(r)
      PROVE  NoLostUpdate' /\ OwnerKeepsRecord' /\ RestoredBeforeRelease'
  BY <1>36 DEF Woken
<1>37. ASSUME NEW r \in Requests, Poll(r)
      PROVE  NoLostUpdate' /\ OwnerKeepsRecord' /\ RestoredBeforeRelease'
  BY <1>37 DEF Poll
<1>38. ASSUME NEW r \in Requests, CheckResult(r)
      PROVE  NoLostUpdate' /\ OwnerKeepsRecord' /\ RestoredBeforeRelease'
  BY <1>38 DEF CheckResult, ErrorOutcome
<1>39. ASSUME NEW r \in Requests, Crash(r)
      PROVE  NoLostUpdate' /\ OwnerKeepsRecord' /\ RestoredBeforeRelease'
  BY <1>39 DEF Crash
<1>40. ASSUME NEW r \in Requests, Cancel(r)
      PROVE  NoLostUpdate' /\ OwnerKeepsRecord' /\ RestoredBeforeRelease'
  BY <1>40 DEF Cancel
<1>41. ASSUME NEW id \in Transitions, Dispatch(id)
      PROVE  NoLostUpdate' /\ OwnerKeepsRecord' /\ RestoredBeforeRelease'
  BY <1>41 DEF Dispatch
<1>42. ASSUME NEW id \in Transitions, ResultExpires(id)
      PROVE  NoLostUpdate' /\ OwnerKeepsRecord' /\ RestoredBeforeRelease'
  BY <1>42 DEF ResultExpires
<1>43. CASE LockExpires
  BY <1>43 DEF LockExpires
<1>44. CASE CbLockExpires
  BY <1>44 DEF CbLockExpires
<1>45. CASE KeyExpires
  BY <1>45 DEF KeyExpires
<1>46. ASSUME NEW r \in Requests, RestoreMissing(r)
      PROVE  NoLostUpdate' /\ OwnerKeepsRecord' /\ RestoredBeforeRelease'
  BY <1>46 DEF RestoreMissing, GiveUpRestore
<1>47. ASSUME NEW r \in Requests, LostCheck(r)
      PROVE  NoLostUpdate' /\ OwnerKeepsRecord' /\ RestoredBeforeRelease'
  BY <1>47 DEF LostCheck
<1>48. ASSUME NEW r \in Requests, CommandFails(r)
      PROVE  NoLostUpdate' /\ OwnerKeepsRecord' /\ RestoredBeforeRelease'
  BY <1>48 DEF CommandFails, ErrorOutcome
<1> HIDE DEF TypeOK, HoldersHoldLock, NoLostUpdate, OwnerKeepsRecord, RestoredBeforeRelease
<1> QED
  BY <1>1, <1>2, <1>3, <1>4, <1>5, <1>6, <1>7, <1>8, <1>9, <1>10, <1>11, <1>12, <1>13,
     <1>14, <1>15, <1>16, <1>17, <1>18, <1>19, <1>20, <1>21, <1>22, <1>23, <1>24, <1>25,
     <1>26, <1>27, <1>28, <1>29, <1>30, <1>31, <1>32, <1>33, <1>34, <1>35, <1>36, <1>37,
     <1>38, <1>39, <1>40, <1>41, <1>42, <1>43, <1>44, <1>45, <1>46, <1>47, <1>48 DEF
     Next, Step, Failure
\* A record in the running state, or in a snapshot that may go back to it, keeps
\* its VM: only the owner of a kill, a pause or a failed checkpoint stops it,
\* and then the record is not running and cannot become running again.
LEMMA VMStep ==
  ASSUME TypeOK, OpAtPC, HoldersHoldLock, OwnerHasKey, ChecksStillHold, NoLostUpdate,
         OwnerKeepsRecord, RunningHasVM, SnapshotHasVM, [Next]_vars
  PROVE  RunningHasVM' /\ SnapshotHasVM'
<1>a. OneTransition
  BY OneOwner
<1> USE NoneAssumption, ParameterAssumption
    DEF TypeOK, RunningHasVM, SnapshotHasVM, RestorePC, Goto, Return, redis, local, Sandbox
<1>1. CASE UNCHANGED vars
  BY <1>1 DEF vars
<1>2. CASE Tick
  BY <1>2 DEF Tick
<1>3. ASSUME NEW e \in Executions, NEW d \in Durations, NEW a \in AutoPause, Create(e, d, a)
      PROVE  RunningHasVM' /\ SnapshotHasVM'
  <2>1. \A s \in Requests : pc[s] \notin {"work"} \cup RestorePC
    BY <1>3 DEF Create, OwnerKeepsRecord
  <2> QED
    BY <1>3, <2>1 DEF Create, Lesser
<1>4. ASSUME NEW r \in Requests, NEW o \in Ops, Begin(r, o)
      PROVE  RunningHasVM' /\ SnapshotHasVM'
  BY <1>4 DEF Begin
<1>5. ASSUME NEW r \in Requests, BeginEviction(r)
      PROVE  RunningHasVM' /\ SnapshotHasVM'
  BY <1>5 DEF BeginEviction
<1>6. ASSUME NEW r \in Requests, Obtain(r)
      PROVE  RunningHasVM' /\ SnapshotHasVM'
  BY <1>6 DEF Obtain
<1>7. ASSUME NEW r \in Requests, GetMissing(r)
      PROVE  RunningHasVM' /\ SnapshotHasVM'
  BY <1>7 DEF GetMissing
<1>8. ASSUME NEW r \in Requests, Get(r)
      PROVE  RunningHasVM' /\ SnapshotHasVM'
  BY <1>8 DEF Get
<1>9. ASSUME NEW r \in Requests, RefuseEviction(r)
      PROVE  RunningHasVM' /\ SnapshotHasVM'
  BY <1>9 DEF RefuseEviction
<1>10. ASSUME NEW r \in Requests, JoinTransition(r)
      PROVE  RunningHasVM' /\ SnapshotHasVM'
  BY <1>10 DEF JoinTransition
<1>11. ASSUME NEW r \in Requests, AlreadyInState(r)
      PROVE  RunningHasVM' /\ SnapshotHasVM'
  BY <1>11 DEF AlreadyInState
<1>12. ASSUME NEW r \in Requests, RejectTransition(r)
      PROVE  RunningHasVM' /\ SnapshotHasVM'
  BY <1>12 DEF RejectTransition
<1>13. ASSUME NEW r \in Requests, AcceptTransition(r)
      PROVE  RunningHasVM' /\ SnapshotHasVM'
  BY <1>13 DEF AcceptTransition
<1>14. ASSUME NEW r \in Requests, StartTransition(r)
      PROVE  RunningHasVM' /\ SnapshotHasVM'
  <2>1. sbx[r] \in Sandbox /\ rec = sbx[r]
    BY <1>14 DEF StartTransition, OpAtPC, NoLostUpdate
  <2>2. TargetState(op[r]) \in State /\ TargetState(op[r]) # "running"
    BY DEF TargetState, State
  <2>3. PICK e \in Nat : rec' = Amend(sbx[r], TargetState(op[r]), e)
    BY <1>14, <2>1, <2>2 DEF StartTransition
  <2>4. rec'.state # "running"
    BY <2>1, <2>2, <2>3, AmendFields
  <2>5. op[r] = "snapshot" => rec.state = "running"
    BY <1>14, <2>1 DEF StartTransition, ChecksStillHold, AllowedTransitions, TargetState
  <2> QED
    BY <1>14, <2>1, <2>4, <2>5 DEF StartTransition
<1>15. ASSUME NEW r \in Requests, UpdateRefused(r)
      PROVE  RunningHasVM' /\ SnapshotHasVM'
  BY <1>15 DEF UpdateRefused
<1>16. ASSUME NEW r \in Requests, NEW d \in Durations, NEW shorter \in BOOLEAN, Update(r, d, shorter)
      PROVE  RunningHasVM' /\ SnapshotHasVM'
  <2>1. sbx[r] \in Sandbox /\ rec = sbx[r] /\ sbx[r].state = "running"
    BY <1>16 DEF Update, OpAtPC, NoLostUpdate
  <2>2. rec' = sbx[r] \/ rec'.exec = sbx[r].exec
    BY <1>16, <2>1 DEF Update, Amend
  <2> QED
    BY <1>16, <2>1, <2>2 DEF Update
<1>17. ASSUME NEW r \in Requests, NodeRemoves(r)
      PROVE  RunningHasVM' /\ SnapshotHasVM'
  <2>1. \A s \in Requests : s # r => pc[s] \notin ActivePC
    BY <1>17, <1>a DEF NodeRemoves, OneTransition, Active, ActivePC
  <2>2. rec.exec = sbx[r].exec /\ rec.state # "running"
    BY <1>17 DEF NodeRemoves, OwnerKeepsRecord, OpAtPC, TargetState, Transient
  <2> QED
    BY <1>17, <2>1, <2>2 DEF NodeRemoves, ActivePC, OpAtPC
<1>18. ASSUME NEW r \in Requests, NodeRemoveFails(r)
      PROVE  RunningHasVM' /\ SnapshotHasVM'
  <2>1. \A s \in Requests : s # r => pc[s] \notin ActivePC
    BY <1>18, <1>a DEF NodeRemoveFails, OneTransition, Active, ActivePC
  <2>2. rec.exec = sbx[r].exec /\ rec.state # "running"
    BY <1>18 DEF NodeRemoveFails, OwnerKeepsRecord, OpAtPC, TargetState, Transient
  <2> QED
    BY <1>18, <2>1, <2>2 DEF NodeRemoveFails, ActivePC, OpAtPC
<1>19. ASSUME NEW r \in Requests, NEW o \in {"ok", "failed"}, Checkpoint(r, o)
      PROVE  RunningHasVM' /\ SnapshotHasVM'
  BY <1>19 DEF Checkpoint
<1>20. ASSUME NEW r \in Requests, CheckpointFails(r)
      PROVE  RunningHasVM' /\ SnapshotHasVM'
  <2>1. \A s \in Requests : s # r => pc[s] \notin ActivePC
    BY <1>20, <1>a DEF CheckpointFails, OneTransition, Active, ActivePC
  <2>2. rec.exec = sbx[r].exec /\ rec.state # "running"
    BY <1>20 DEF CheckpointFails, OwnerKeepsRecord, OpAtPC, TargetState, Transient
  <2> QED
    BY <1>20, <2>1, <2>2 DEF CheckpointFails, ActivePC, OpAtPC
<1>21. ASSUME NEW r \in Requests, RemoveObtain(r)
      PROVE  RunningHasVM' /\ SnapshotHasVM'
  BY <1>21 DEF RemoveObtain
<1>22. ASSUME NEW r \in Requests, RemoveRecord(r)
      PROVE  RunningHasVM' /\ SnapshotHasVM'
  BY <1>22 DEF RemoveRecord
<1>23. ASSUME NEW r \in Requests, RemoveFails(r)
      PROVE  RunningHasVM' /\ SnapshotHasVM'
  BY <1>23 DEF RemoveFails
<1>24. ASSUME NEW r \in Requests, RestoreObtain(r)
      PROVE  RunningHasVM' /\ SnapshotHasVM'
  BY <1>24 DEF RestoreObtain
<1>25. ASSUME NEW r \in Requests, RestoreGet(r)
      PROVE  RunningHasVM' /\ SnapshotHasVM'
  BY <1>25 DEF RestoreGet, OwnerKeepsRecord
<1>26. ASSUME NEW r \in Requests, RestoreSet(r)
      PROVE  RunningHasVM' /\ SnapshotHasVM'
  <2>1. sbx[r] \in Sandbox /\ rec = sbx[r] /\ vm[sbx[r].exec] = "up"
    BY <1>26 DEF RestoreSet, OpAtPC, NoLostUpdate, ActivePC
  <2>2. rec' = sbx[r] \/ rec'.exec = sbx[r].exec
    BY <1>26, <2>1 DEF RestoreSet, Restored, Amend
  <2> QED
    BY <1>26, <2>1, <2>2 DEF RestoreSet
<1>27. ASSUME NEW r \in Requests, RestoreFails(r)
      PROVE  RunningHasVM' /\ SnapshotHasVM'
  <2>1. pc[r] = "restoreSet" => sbx[r] \in Sandbox /\ rec = sbx[r] /\ vm[sbx[r].exec] = "up"
    BY <1>27 DEF RestoreFails, OpAtPC, NoLostUpdate, ActivePC
  <2>2. rec' = rec \/ (pc[r] = "restoreSet" /\ (rec' = sbx[r] \/ rec'.exec = sbx[r].exec))
    BY <1>27, <2>1 DEF RestoreFails, Restored, Amend
  <2> QED
    BY <1>27, <2>1, <2>2 DEF RestoreFails, GiveUpRestore
<1>28. ASSUME NEW r \in Requests, CallbackObtain(r)
      PROVE  RunningHasVM' /\ SnapshotHasVM'
  BY <1>28 DEF CallbackObtain
<1>29. ASSUME NEW r \in Requests, CallbackSet(r)
      PROVE  RunningHasVM' /\ SnapshotHasVM'
  BY <1>29 DEF CallbackSet
<1>30. ASSUME NEW r \in Requests, CallbackDel(r)
      PROVE  RunningHasVM' /\ SnapshotHasVM'
  BY <1>30 DEF CallbackDel
<1>31. ASSUME NEW r \in Requests, CallbackPublish(r)
      PROVE  RunningHasVM' /\ SnapshotHasVM'
  BY <1>31 DEF CallbackPublish, AfterCallback
<1>32. ASSUME NEW r \in Requests, CallbackObtainFails(r)
      PROVE  RunningHasVM' /\ SnapshotHasVM'
  BY <1>32 DEF CallbackObtainFails, AfterCallback
<1>33. ASSUME NEW r \in Requests, AwaitKey(r)
      PROVE  RunningHasVM' /\ SnapshotHasVM'
  BY <1>33 DEF AwaitKey
<1>34. ASSUME NEW r \in Requests, Subscribe(r)
      PROVE  RunningHasVM' /\ SnapshotHasVM'
  BY <1>34 DEF Subscribe
<1>35. ASSUME NEW r \in Requests, CheckKey(r)
      PROVE  RunningHasVM' /\ SnapshotHasVM'
  BY <1>35 DEF CheckKey
<1>36. ASSUME NEW r \in Requests, Woken(r)
      PROVE  RunningHasVM' /\ SnapshotHasVM'
  BY <1>36 DEF Woken
<1>37. ASSUME NEW r \in Requests, Poll(r)
      PROVE  RunningHasVM' /\ SnapshotHasVM'
  BY <1>37 DEF Poll
<1>38. ASSUME NEW r \in Requests, CheckResult(r)
      PROVE  RunningHasVM' /\ SnapshotHasVM'
  BY <1>38 DEF CheckResult
<1>39. ASSUME NEW r \in Requests, Crash(r)
      PROVE  RunningHasVM' /\ SnapshotHasVM'
  BY <1>39 DEF Crash
<1>40. ASSUME NEW r \in Requests, Cancel(r)
      PROVE  RunningHasVM' /\ SnapshotHasVM'
  BY <1>40 DEF Cancel
<1>41. ASSUME NEW id \in Transitions, Dispatch(id)
      PROVE  RunningHasVM' /\ SnapshotHasVM'
  BY <1>41 DEF Dispatch
<1>42. ASSUME NEW id \in Transitions, ResultExpires(id)
      PROVE  RunningHasVM' /\ SnapshotHasVM'
  BY <1>42 DEF ResultExpires
<1>43. CASE LockExpires
  BY <1>43 DEF LockExpires
<1>44. CASE CbLockExpires
  BY <1>44 DEF CbLockExpires
<1>45. CASE KeyExpires
  BY <1>45 DEF KeyExpires
<1>46. ASSUME NEW r \in Requests, RestoreMissing(r)
      PROVE  RunningHasVM' /\ SnapshotHasVM'
  BY <1>46 DEF RestoreMissing, GiveUpRestore
<1>47. ASSUME NEW r \in Requests, LostCheck(r)
      PROVE  RunningHasVM' /\ SnapshotHasVM'
  BY <1>47 DEF LostCheck
<1>48. ASSUME NEW r \in Requests, CommandFails(r)
      PROVE  RunningHasVM' /\ SnapshotHasVM'
  BY <1>48 DEF CommandFails, ErrorOutcome
<1> HIDE DEF TypeOK, RunningHasVM, SnapshotHasVM
<1> QED
  BY <1>1, <1>2, <1>3, <1>4, <1>5, <1>6, <1>7, <1>8, <1>9, <1>10, <1>11, <1>12, <1>13,
     <1>14, <1>15, <1>16, <1>17, <1>18, <1>19, <1>20, <1>21, <1>22, <1>23, <1>24, <1>25,
     <1>26, <1>27, <1>28, <1>29, <1>30, <1>31, <1>32, <1>33, <1>34, <1>35, <1>36, <1>37,
     <1>38, <1>39, <1>40, <1>41, <1>42, <1>43, <1>44, <1>45, <1>46, <1>47, <1>48 DEF
     Next, Step, Failure

\* getMaxAllowedTTL keeps the end time of KeepAliveFor within the maximum
\* length, although it is computed from a clock reading older than the check.
LEMMA KeepAliveEndBound ==
  ASSUME TypeOK, ClockReadings, NEW r \in Requests, sbx[r] # None, NEW d \in Durations,
         now - sbx[r].start <= MaxInstanceLength
  PROVE  KeepAliveEnd(r, d) <= sbx[r].start + MaxInstanceLength
<1>1. /\ t0[r] \in Nat /\ now \in Nat /\ t0[r] <= now
      /\ sbx[r].start \in Nat /\ d \in Nat /\ MaxInstanceLength \in Nat
  BY ParameterAssumption DEF TypeOK, ClockReadings, Sandbox
<1> QED
  BY <1>1 DEF KeepAliveEnd, Lesser

\* No write of an end time moves it past the maximum instance length.
LEMMA LengthStep ==
  ASSUME TypeOK, OpAtPC, ClockReadings, CopiesWithin, WithinMaxLength, [Next]_vars
  PROVE  ClockReadings' /\ CopiesWithin' /\ WithinMaxLength'
<1> USE NoneAssumption, ParameterAssumption
    DEF TypeOK, ClockReadings, CopiesWithin, WithinMaxLength, Goto, Return, redis, local, Sandbox
<1>1. CASE UNCHANGED vars
  BY <1>1 DEF vars
<1>2. CASE Tick
  BY <1>2 DEF Tick
<1>3. ASSUME NEW e \in Executions, NEW d \in Durations, NEW a \in AutoPause, Create(e, d, a)
      PROVE  ClockReadings' /\ CopiesWithin' /\ WithinMaxLength'
  BY <1>3 DEF Create, Lesser
<1>4. ASSUME NEW r \in Requests, NEW o \in Ops, Begin(r, o)
      PROVE  ClockReadings' /\ CopiesWithin' /\ WithinMaxLength'
  BY <1>4 DEF Begin
<1>5. ASSUME NEW r \in Requests, BeginEviction(r)
      PROVE  ClockReadings' /\ CopiesWithin' /\ WithinMaxLength'
  BY <1>5 DEF BeginEviction
<1>6. ASSUME NEW r \in Requests, Obtain(r)
      PROVE  ClockReadings' /\ CopiesWithin' /\ WithinMaxLength'
  BY <1>6 DEF Obtain
<1>7. ASSUME NEW r \in Requests, GetMissing(r)
      PROVE  ClockReadings' /\ CopiesWithin' /\ WithinMaxLength'
  BY <1>7 DEF GetMissing
<1>8. ASSUME NEW r \in Requests, Get(r)
      PROVE  ClockReadings' /\ CopiesWithin' /\ WithinMaxLength'
  BY <1>8 DEF Get
<1>9. ASSUME NEW r \in Requests, RefuseEviction(r)
      PROVE  ClockReadings' /\ CopiesWithin' /\ WithinMaxLength'
  BY <1>9 DEF RefuseEviction
<1>10. ASSUME NEW r \in Requests, JoinTransition(r)
      PROVE  ClockReadings' /\ CopiesWithin' /\ WithinMaxLength'
  BY <1>10 DEF JoinTransition
<1>11. ASSUME NEW r \in Requests, AlreadyInState(r)
      PROVE  ClockReadings' /\ CopiesWithin' /\ WithinMaxLength'
  BY <1>11 DEF AlreadyInState
<1>12. ASSUME NEW r \in Requests, RejectTransition(r)
      PROVE  ClockReadings' /\ CopiesWithin' /\ WithinMaxLength'
  BY <1>12 DEF RejectTransition
<1>13. ASSUME NEW r \in Requests, AcceptTransition(r)
      PROVE  ClockReadings' /\ CopiesWithin' /\ WithinMaxLength'
  BY <1>13 DEF AcceptTransition
<1>14. ASSUME NEW r \in Requests, StartTransition(r)
      PROVE  ClockReadings' /\ CopiesWithin' /\ WithinMaxLength'
  <2>1. sbx[r] \in Sandbox /\ sbx[r].end <= sbx[r].start + MaxInstanceLength
    BY <1>14 DEF StartTransition, OpAtPC, ActivePC, RestorePC
  <2>2. rec'.start = sbx[r].start /\ rec'.end \in Nat /\ rec'.end <= sbx[r].end
    BY <1>14, <2>1 DEF StartTransition, Restored, Amend, IsExpired
  <2> QED
    BY <1>14, <2>1, <2>2 DEF StartTransition
<1>15. ASSUME NEW r \in Requests, UpdateRefused(r)
      PROVE  ClockReadings' /\ CopiesWithin' /\ WithinMaxLength'
  BY <1>15 DEF UpdateRefused
<1>16. ASSUME NEW r \in Requests, NEW d \in Durations, NEW shorter \in BOOLEAN, Update(r, d, shorter)
      PROVE  ClockReadings' /\ CopiesWithin' /\ WithinMaxLength'
  <2>1. /\ sbx[r] \in Sandbox /\ sbx[r].end <= sbx[r].start + MaxInstanceLength
        /\ now - sbx[r].start <= MaxInstanceLength
    BY <1>16 DEF Update, OpAtPC
  <2>2. KeepAliveEnd(r, d) <= sbx[r].start + MaxInstanceLength
    BY <2>1, KeepAliveEndBound
  <2>3. rec' = sbx[r] \/ (rec'.start = sbx[r].start /\ rec'.end = KeepAliveEnd(r, d))
    BY <1>16, <2>1 DEF Update, Amend
  <2> QED
    BY <1>16, <2>1, <2>2, <2>3 DEF Update
<1>17. ASSUME NEW r \in Requests, NodeRemoves(r)
      PROVE  ClockReadings' /\ CopiesWithin' /\ WithinMaxLength'
  BY <1>17 DEF NodeRemoves
<1>18. ASSUME NEW r \in Requests, NodeRemoveFails(r)
      PROVE  ClockReadings' /\ CopiesWithin' /\ WithinMaxLength'
  BY <1>18 DEF NodeRemoveFails
<1>19. ASSUME NEW r \in Requests, NEW o \in {"ok", "failed"}, Checkpoint(r, o)
      PROVE  ClockReadings' /\ CopiesWithin' /\ WithinMaxLength'
  BY <1>19 DEF Checkpoint
<1>20. ASSUME NEW r \in Requests, CheckpointFails(r)
      PROVE  ClockReadings' /\ CopiesWithin' /\ WithinMaxLength'
  BY <1>20 DEF CheckpointFails
<1>21. ASSUME NEW r \in Requests, RemoveObtain(r)
      PROVE  ClockReadings' /\ CopiesWithin' /\ WithinMaxLength'
  BY <1>21 DEF RemoveObtain
<1>22. ASSUME NEW r \in Requests, RemoveRecord(r)
      PROVE  ClockReadings' /\ CopiesWithin' /\ WithinMaxLength'
  BY <1>22 DEF RemoveRecord
<1>23. ASSUME NEW r \in Requests, RemoveFails(r)
      PROVE  ClockReadings' /\ CopiesWithin' /\ WithinMaxLength'
  BY <1>23 DEF RemoveFails
<1>24. ASSUME NEW r \in Requests, RestoreObtain(r)
      PROVE  ClockReadings' /\ CopiesWithin' /\ WithinMaxLength'
  BY <1>24 DEF RestoreObtain
<1>25. ASSUME NEW r \in Requests, RestoreGet(r)
      PROVE  ClockReadings' /\ CopiesWithin' /\ WithinMaxLength'
  BY <1>25 DEF RestoreGet
<1>26. ASSUME NEW r \in Requests, RestoreSet(r)
      PROVE  ClockReadings' /\ CopiesWithin' /\ WithinMaxLength'
  <2>1. sbx[r] \in Sandbox /\ sbx[r].end <= sbx[r].start + MaxInstanceLength
    BY <1>26 DEF RestoreSet, OpAtPC, ActivePC, RestorePC
  <2>2. rec'.start = sbx[r].start /\ rec'.end = sbx[r].end
    BY <1>26, <2>1 DEF RestoreSet, Restored, Amend, IsExpired
  <2> QED
    BY <1>26, <2>1, <2>2 DEF RestoreSet
<1>27. ASSUME NEW r \in Requests, RestoreFails(r)
      PROVE  ClockReadings' /\ CopiesWithin' /\ WithinMaxLength'
  <2>1. pc[r] = "restoreSet" => sbx[r] \in Sandbox /\ sbx[r].end <= sbx[r].start + MaxInstanceLength
    BY <1>27 DEF RestoreFails, OpAtPC, ActivePC, RestorePC
  <2>2. rec' = rec \/ (pc[r] = "restoreSet" /\ rec'.start = sbx[r].start /\ rec'.end = sbx[r].end)
    BY <1>27, <2>1 DEF RestoreFails, Restored, Amend
  <2> QED
    BY <1>27, <2>1, <2>2 DEF RestoreFails, GiveUpRestore
<1>28. ASSUME NEW r \in Requests, CallbackObtain(r)
      PROVE  ClockReadings' /\ CopiesWithin' /\ WithinMaxLength'
  BY <1>28 DEF CallbackObtain
<1>29. ASSUME NEW r \in Requests, CallbackSet(r)
      PROVE  ClockReadings' /\ CopiesWithin' /\ WithinMaxLength'
  BY <1>29 DEF CallbackSet
<1>30. ASSUME NEW r \in Requests, CallbackDel(r)
      PROVE  ClockReadings' /\ CopiesWithin' /\ WithinMaxLength'
  BY <1>30 DEF CallbackDel
<1>31. ASSUME NEW r \in Requests, CallbackPublish(r)
      PROVE  ClockReadings' /\ CopiesWithin' /\ WithinMaxLength'
  BY <1>31 DEF CallbackPublish, AfterCallback
<1>32. ASSUME NEW r \in Requests, CallbackObtainFails(r)
      PROVE  ClockReadings' /\ CopiesWithin' /\ WithinMaxLength'
  BY <1>32 DEF CallbackObtainFails, AfterCallback
<1>33. ASSUME NEW r \in Requests, AwaitKey(r)
      PROVE  ClockReadings' /\ CopiesWithin' /\ WithinMaxLength'
  BY <1>33 DEF AwaitKey
<1>34. ASSUME NEW r \in Requests, Subscribe(r)
      PROVE  ClockReadings' /\ CopiesWithin' /\ WithinMaxLength'
  BY <1>34 DEF Subscribe
<1>35. ASSUME NEW r \in Requests, CheckKey(r)
      PROVE  ClockReadings' /\ CopiesWithin' /\ WithinMaxLength'
  BY <1>35 DEF CheckKey
<1>36. ASSUME NEW r \in Requests, Woken(r)
      PROVE  ClockReadings' /\ CopiesWithin' /\ WithinMaxLength'
  BY <1>36 DEF Woken
<1>37. ASSUME NEW r \in Requests, Poll(r)
      PROVE  ClockReadings' /\ CopiesWithin' /\ WithinMaxLength'
  BY <1>37 DEF Poll
<1>38. ASSUME NEW r \in Requests, CheckResult(r)
      PROVE  ClockReadings' /\ CopiesWithin' /\ WithinMaxLength'
  BY <1>38 DEF CheckResult
<1>39. ASSUME NEW r \in Requests, Crash(r)
      PROVE  ClockReadings' /\ CopiesWithin' /\ WithinMaxLength'
  BY <1>39 DEF Crash
<1>40. ASSUME NEW r \in Requests, Cancel(r)
      PROVE  ClockReadings' /\ CopiesWithin' /\ WithinMaxLength'
  BY <1>40 DEF Cancel
<1>41. ASSUME NEW id \in Transitions, Dispatch(id)
      PROVE  ClockReadings' /\ CopiesWithin' /\ WithinMaxLength'
  BY <1>41 DEF Dispatch
<1>42. ASSUME NEW id \in Transitions, ResultExpires(id)
      PROVE  ClockReadings' /\ CopiesWithin' /\ WithinMaxLength'
  BY <1>42 DEF ResultExpires
<1>43. CASE LockExpires
  BY <1>43 DEF LockExpires
<1>44. CASE CbLockExpires
  BY <1>44 DEF CbLockExpires
<1>45. CASE KeyExpires
  BY <1>45 DEF KeyExpires
<1>46. ASSUME NEW r \in Requests, RestoreMissing(r)
      PROVE  ClockReadings' /\ CopiesWithin' /\ WithinMaxLength'
  BY <1>46 DEF RestoreMissing, GiveUpRestore
<1>47. ASSUME NEW r \in Requests, LostCheck(r)
      PROVE  ClockReadings' /\ CopiesWithin' /\ WithinMaxLength'
  BY <1>47 DEF LostCheck
<1>48. ASSUME NEW r \in Requests, CommandFails(r)
      PROVE  ClockReadings' /\ CopiesWithin' /\ WithinMaxLength'
  BY <1>48 DEF CommandFails, ErrorOutcome
<1> HIDE DEF TypeOK, ClockReadings, CopiesWithin, WithinMaxLength
<1> QED
  BY <1>1, <1>2, <1>3, <1>4, <1>5, <1>6, <1>7, <1>8, <1>9, <1>10, <1>11, <1>12, <1>13,
     <1>14, <1>15, <1>16, <1>17, <1>18, <1>19, <1>20, <1>21, <1>22, <1>23, <1>24, <1>25,
     <1>26, <1>27, <1>28, <1>29, <1>30, <1>31, <1>32, <1>33, <1>34, <1>35, <1>36, <1>37,
     <1>38, <1>39, <1>40, <1>41, <1>42, <1>43, <1>44, <1>45, <1>46, <1>47, <1>48 DEF
     Next, Step, Failure

\* An eviction at its start script has found the record expired.
EvictionsDue == \A r \in Requests : pc[r] = "script" /\ evict[r] => IsExpired(sbx[r])

\* Only the holder of the lock writes a record that somebody has read under it: for
\* this the transition key is not needed.
LEMMA SerialStep ==
  ASSUME TypeOK, OpAtPC, HoldersHoldLock, NoLostUpdate, EvictionsDue, [Next]_vars
  PROVE  NoLostUpdate' /\ EvictionsDue'
<1> USE NoneAssumption, ParameterAssumption DEF TypeOK, HoldersHoldLock, NoLostUpdate,
    EvictionsDue, IsExpired, HolderPC, RemovePC, RestorePC, Goto, Return, redis, local
<1>1. CASE UNCHANGED vars
  BY <1>1 DEF vars
<1>2. CASE Tick
  BY <1>2 DEF Tick, OpAtPC, Sandbox
<1>3. ASSUME NEW e \in Executions, NEW d \in Durations, NEW a \in AutoPause, Create(e, d, a)
      PROVE  NoLostUpdate' /\ EvictionsDue'
  BY <1>3 DEF Create, OpAtPC, ActivePC
<1>4. ASSUME NEW r \in Requests, NEW o \in Ops, Begin(r, o)
      PROVE  NoLostUpdate' /\ EvictionsDue'
  BY <1>4 DEF Begin
<1>5. ASSUME NEW r \in Requests, BeginEviction(r)
      PROVE  NoLostUpdate' /\ EvictionsDue'
  BY <1>5 DEF BeginEviction, Fresh
<1>6. ASSUME NEW r \in Requests, Obtain(r)
      PROVE  NoLostUpdate' /\ EvictionsDue'
  BY <1>6 DEF Obtain
<1>7. ASSUME NEW r \in Requests, GetMissing(r)
      PROVE  NoLostUpdate' /\ EvictionsDue'
  BY <1>7 DEF GetMissing
<1>8. ASSUME NEW r \in Requests, Get(r)
      PROVE  NoLostUpdate' /\ EvictionsDue'
  BY <1>8 DEF Get
<1>9. ASSUME NEW r \in Requests, RefuseEviction(r)
      PROVE  NoLostUpdate' /\ EvictionsDue'
  BY <1>9 DEF RefuseEviction
<1>10. ASSUME NEW r \in Requests, JoinTransition(r)
      PROVE  NoLostUpdate' /\ EvictionsDue'
  BY <1>10 DEF JoinTransition
<1>11. ASSUME NEW r \in Requests, AlreadyInState(r)
      PROVE  NoLostUpdate' /\ EvictionsDue'
  BY <1>11 DEF AlreadyInState
<1>12. ASSUME NEW r \in Requests, RejectTransition(r)
      PROVE  NoLostUpdate' /\ EvictionsDue'
  BY <1>12 DEF RejectTransition
<1>13. ASSUME NEW r \in Requests, AcceptTransition(r)
      PROVE  NoLostUpdate' /\ EvictionsDue'
  BY <1>13 DEF AcceptTransition, EvictionHolds
<1>14. ASSUME NEW r \in Requests, StartTransition(r)
      PROVE  NoLostUpdate' /\ EvictionsDue'
  BY <1>14 DEF StartTransition
<1>15. ASSUME NEW r \in Requests, UpdateRefused(r)
      PROVE  NoLostUpdate' /\ EvictionsDue'
  BY <1>15 DEF UpdateRefused
<1>16. ASSUME NEW r \in Requests, NEW d \in Durations, NEW shorter \in BOOLEAN, Update(r, d, shorter)
      PROVE  NoLostUpdate' /\ EvictionsDue'
  BY <1>16 DEF Update
<1>17. ASSUME NEW r \in Requests, NodeRemoves(r)
      PROVE  NoLostUpdate' /\ EvictionsDue'
  BY <1>17 DEF NodeRemoves
<1>18. ASSUME NEW r \in Requests, NodeRemoveFails(r)
      PROVE  NoLostUpdate' /\ EvictionsDue'
  BY <1>18 DEF NodeRemoveFails
<1>19. ASSUME NEW r \in Requests, NEW o \in {"ok", "failed"}, Checkpoint(r, o)
      PROVE  NoLostUpdate' /\ EvictionsDue'
  BY <1>19 DEF Checkpoint
<1>20. ASSUME NEW r \in Requests, CheckpointFails(r)
      PROVE  NoLostUpdate' /\ EvictionsDue'
  BY <1>20 DEF CheckpointFails
<1>21. ASSUME NEW r \in Requests, RemoveObtain(r)
      PROVE  NoLostUpdate' /\ EvictionsDue'
  BY <1>21 DEF RemoveObtain
<1>22. ASSUME NEW r \in Requests, RemoveRecord(r)
      PROVE  NoLostUpdate' /\ EvictionsDue'
  BY <1>22 DEF RemoveRecord
<1>23. ASSUME NEW r \in Requests, RemoveFails(r)
      PROVE  NoLostUpdate' /\ EvictionsDue'
  BY <1>23 DEF RemoveFails
<1>24. ASSUME NEW r \in Requests, RestoreObtain(r)
      PROVE  NoLostUpdate' /\ EvictionsDue'
  BY <1>24 DEF RestoreObtain
<1>25. ASSUME NEW r \in Requests, RestoreGet(r)
      PROVE  NoLostUpdate' /\ EvictionsDue'
  BY <1>25 DEF RestoreGet
<1>26. ASSUME NEW r \in Requests, RestoreSet(r)
      PROVE  NoLostUpdate' /\ EvictionsDue'
  BY <1>26 DEF RestoreSet, Restored
<1>27. ASSUME NEW r \in Requests, RestoreFails(r)
      PROVE  NoLostUpdate' /\ EvictionsDue'
  BY <1>27 DEF RestoreFails, GiveUpRestore, Restored
<1>28. ASSUME NEW r \in Requests, CallbackObtain(r)
      PROVE  NoLostUpdate' /\ EvictionsDue'
  BY <1>28 DEF CallbackObtain
<1>29. ASSUME NEW r \in Requests, CallbackSet(r)
      PROVE  NoLostUpdate' /\ EvictionsDue'
  BY <1>29 DEF CallbackSet
<1>30. ASSUME NEW r \in Requests, CallbackDel(r)
      PROVE  NoLostUpdate' /\ EvictionsDue'
  BY <1>30 DEF CallbackDel
<1>31. ASSUME NEW r \in Requests, CallbackPublish(r)
      PROVE  NoLostUpdate' /\ EvictionsDue'
  BY <1>31 DEF CallbackPublish, AfterCallback
<1>32. ASSUME NEW r \in Requests, CallbackObtainFails(r)
      PROVE  NoLostUpdate' /\ EvictionsDue'
  BY <1>32 DEF CallbackObtainFails, AfterCallback
<1>33. ASSUME NEW r \in Requests, AwaitKey(r)
      PROVE  NoLostUpdate' /\ EvictionsDue'
  BY <1>33 DEF AwaitKey
<1>34. ASSUME NEW r \in Requests, Subscribe(r)
      PROVE  NoLostUpdate' /\ EvictionsDue'
  BY <1>34 DEF Subscribe
<1>35. ASSUME NEW r \in Requests, CheckKey(r)
      PROVE  NoLostUpdate' /\ EvictionsDue'
  BY <1>35 DEF CheckKey
<1>36. ASSUME NEW r \in Requests, Woken(r)
      PROVE  NoLostUpdate' /\ EvictionsDue'
  BY <1>36 DEF Woken
<1>37. ASSUME NEW r \in Requests, Poll(r)
      PROVE  NoLostUpdate' /\ EvictionsDue'
  BY <1>37 DEF Poll
<1>38. ASSUME NEW r \in Requests, CheckResult(r)
      PROVE  NoLostUpdate' /\ EvictionsDue'
  BY <1>38 DEF CheckResult, ErrorOutcome
<1>39. ASSUME NEW r \in Requests, Crash(r)
      PROVE  NoLostUpdate' /\ EvictionsDue'
  BY <1>39 DEF Crash
<1>40. ASSUME NEW r \in Requests, Cancel(r)
      PROVE  NoLostUpdate' /\ EvictionsDue'
  BY <1>40 DEF Cancel
<1>41. ASSUME NEW id \in Transitions, Dispatch(id)
      PROVE  NoLostUpdate' /\ EvictionsDue'
  BY <1>41 DEF Dispatch
<1>42. ASSUME NEW id \in Transitions, ResultExpires(id)
      PROVE  NoLostUpdate' /\ EvictionsDue'
  BY <1>42 DEF ResultExpires
<1>43. CASE LockExpires
  BY <1>43 DEF LockExpires
<1>44. CASE CbLockExpires
  BY <1>44 DEF CbLockExpires
<1>45. CASE KeyExpires
  BY <1>45 DEF KeyExpires, Owned
<1>46. ASSUME NEW r \in Requests, RestoreMissing(r)
      PROVE  NoLostUpdate' /\ EvictionsDue'
  BY <1>46 DEF RestoreMissing, GiveUpRestore
<1>47. ASSUME NEW r \in Requests, LostCheck(r)
      PROVE  NoLostUpdate' /\ EvictionsDue'
  BY <1>47 DEF LostCheck
<1>48. ASSUME NEW r \in Requests, CommandFails(r)
      PROVE  NoLostUpdate' /\ EvictionsDue'
  BY <1>48 DEF CommandFails, ErrorOutcome
<1> HIDE DEF TypeOK, HoldersHoldLock, NoLostUpdate, EvictionsDue, IsExpired, HolderPC, RemovePC,
    RestorePC, Goto, Return, redis, local
<1> QED
  BY <1>1, <1>2, <1>3, <1>4, <1>5, <1>6, <1>7, <1>8, <1>9, <1>10, <1>11, <1>12, <1>13, <1>14,
     <1>15, <1>16, <1>17, <1>18, <1>19, <1>20, <1>21, <1>22, <1>23, <1>24, <1>25, <1>26, <1>27,
     <1>28, <1>29, <1>30, <1>31, <1>32, <1>33, <1>34, <1>35, <1>36, <1>37, <1>38, <1>39, <1>40,
     <1>41, <1>42, <1>43, <1>44, <1>45, <1>46, <1>47, <1>48 DEF Next, Step, Failure

\* A step that leaves the record's state, the transition key and the claim on
\* the record alone is no step of the lifecycle.
LEMMA LifecycleStutter ==
  ASSUME UNCHANGED <<RecordState, key>>, Claimed' <=> Claimed
  PROVE  UNCHANGED Lifecycle!lifecycle
  BY DEF Lifecycle!lifecycle, Claimed

\* Every command of a handler is a step of the store's contract or none: the
\* start script is Start, the DEL in Store.Remove is Remove, restoreToRunning is
\* Restore, a failure or a lost owner is Abandon, the end of the transition key
\* is Finish.
LEMMA LifecycleStep ==
  ASSUME TypeOK, TransitionInv, [Next]_vars, "slowTransition" \notin Faults
  PROVE  [Lifecycle!Next]_(Lifecycle!lifecycle)
<1>a. OneTransition
  BY OneOwner DEF TransitionInv
<1>b. \A r, s \in Requests : pc[r] \in ActivePC /\ r # s => pc[s] \notin ClaimPC
  BY <1>a DEF OneTransition, Active, ActivePC, ClaimPC
<1> DEFINE Stutter == UNCHANGED <<RecordState, key>> /\ (Claimed' <=> Claimed)
<1> DEFINE Goal == Lifecycle!Next \/ Stutter
<1> USE NoneAssumption, ParameterAssumption
    DEF TypeOK, RecordState, Claimed, ClaimPC, RemovePC, RestorePC, Goto, Return, redis, local
<1>1. ASSUME UNCHANGED vars
      PROVE  Goal
  BY <1>1 DEF vars
<1>2. ASSUME Tick
      PROVE  Goal
  BY <1>2 DEF Tick
<1>3. ASSUME NEW e \in Executions, NEW d \in Durations, NEW a \in AutoPause, Create(e, d, a)
      PROVE  Goal
  <2>1. RecordState = "absent" /\ RecordState' = "running"
    BY <1>3 DEF Create, Sandbox, State, Lesser
  <2>2. UNCHANGED key /\ Claimed' = Claimed
    BY <1>3 DEF Create
  <2> QED
    BY <2>1, <2>2 DEF Lifecycle!Next, Lifecycle!Create
<1>4. ASSUME NEW r \in Requests, NEW o \in Ops, Begin(r, o)
      PROVE  Goal
  BY <1>4 DEF Begin
<1>5. ASSUME NEW r \in Requests, BeginEviction(r)
      PROVE  Goal
  BY <1>5 DEF BeginEviction, Fresh
<1>6. ASSUME NEW r \in Requests, Obtain(r)
      PROVE  Goal
  BY <1>6 DEF Obtain
<1>7. ASSUME NEW r \in Requests, GetMissing(r)
      PROVE  Goal
  BY <1>7 DEF GetMissing
<1>8. ASSUME NEW r \in Requests, Get(r)
      PROVE  Goal
  BY <1>8 DEF Get
<1>9. ASSUME NEW r \in Requests, RefuseEviction(r)
      PROVE  Goal
  BY <1>9 DEF RefuseEviction
<1>10. ASSUME NEW r \in Requests, JoinTransition(r)
      PROVE  Goal
  BY <1>10 DEF JoinTransition
<1>11. ASSUME NEW r \in Requests, AlreadyInState(r)
      PROVE  Goal
  BY <1>11 DEF AlreadyInState
<1>12. ASSUME NEW r \in Requests, RejectTransition(r)
      PROVE  Goal
  BY <1>12 DEF RejectTransition
<1>13. ASSUME NEW r \in Requests, AcceptTransition(r)
      PROVE  Goal
  BY <1>13 DEF AcceptTransition
<1>14. ASSUME NEW r \in Requests, StartTransition(r)
      PROVE  Goal
  <2>1. /\ sbx[r] \in Sandbox /\ rec = sbx[r] /\ op[r] \in Action /\ key = None
        /\ <<sbx[r].state, TargetState(op[r])>> \in AllowedTransitions
    BY <1>14 DEF StartTransition, TransitionInv, OpAtPC, NoLostUpdate, ChecksStillHold
  <2>2. TargetState(op[r]) \in State
    BY DEF TargetState, State
  <2>3. PICK e \in Nat : rec' = Amend(sbx[r], TargetState(op[r]), e)
    BY <1>14, <2>1, <2>2 DEF StartTransition, Sandbox
  <2>4. RecordState' = TargetState(op[r])
    BY <2>1, <2>2, <2>3 DEF Amend, Sandbox
  <2>5. RecordState = sbx[r].state
    BY <2>1
  <2>6. key' = Id(r) /\ Id(r) \in Transitions
    BY <1>14, <2>1 DEF StartTransition, Id, Transitions
  <2>7. Claimed' \in BOOLEAN
    OBVIOUS
  <2>8. Lifecycle!Start(Id(r), op[r])
    BY <2>1, <2>4, <2>5, <2>6, <2>7
    DEF Lifecycle!Start, Lifecycle!TargetState, TargetState,
        Lifecycle!AllowedTransitions, AllowedTransitions
  <2> QED
    <3>1. op[r] \in Lifecycle!Action
      BY <2>1 DEF Lifecycle!Action, Action
    <3> HIDE DEF TypeOK, RecordState, Claimed, ClaimPC
    <3>2. \E id \in Transitions, a \in Lifecycle!Action : Lifecycle!Start(id, a)
      BY <2>6, <2>8, <3>1, Zenon
    <3> QED
      BY <3>2 DEF Lifecycle!Next
<1>15. ASSUME NEW r \in Requests, UpdateRefused(r)
      PROVE  Goal
  BY <1>15 DEF UpdateRefused
<1>16. ASSUME NEW r \in Requests, NEW d \in Durations, NEW shorter \in BOOLEAN, Update(r, d, shorter)
      PROVE  Goal
  <2>1. sbx[r] \in Sandbox /\ rec = sbx[r] /\ sbx[r].state = "running"
    BY <1>16 DEF Update, TransitionInv, OpAtPC, NoLostUpdate
  <2>2. KeepAliveEnd(r, d) \in Nat
    BY <2>1, KeepAliveEndType
  <2>3. rec' = sbx[r] \/ rec' = Amend(sbx[r], "running", KeepAliveEnd(r, d))
    BY <1>16, <2>1 DEF Update
  <2>4. RecordState' = "running" /\ RecordState = "running"
    BY <2>1, <2>2, <2>3 DEF Amend, Sandbox, State
  <2> QED
    BY <1>16, <2>4 DEF Update
<1>17. ASSUME NEW r \in Requests, NodeRemoves(r)
      PROVE  Goal
  BY <1>17 DEF NodeRemoves
<1>18. ASSUME NEW r \in Requests, NodeRemoveFails(r)
      PROVE  Goal
  BY <1>18 DEF NodeRemoveFails
<1>19. ASSUME NEW r \in Requests, NEW o \in {"ok", "failed"}, Checkpoint(r, o)
      PROVE  Goal
  BY <1>19 DEF Checkpoint
<1>20. ASSUME NEW r \in Requests, CheckpointFails(r)
      PROVE  Goal
  <2>1. Claimed /\ ~Claimed'
    BY <1>20, <1>b DEF CheckpointFails, ActivePC
  <2>2. UNCHANGED <<RecordState, key>>
    BY <1>20 DEF CheckpointFails
  <2> QED
    BY <2>1, <2>2 DEF Lifecycle!Next, Lifecycle!Abandon
<1>21. ASSUME NEW r \in Requests, RemoveObtain(r)
      PROVE  Goal
  BY <1>21 DEF RemoveObtain
<1>22. ASSUME NEW r \in Requests, RemoveRecord(r)
      PROVE  Goal
  <2>1. Claimed /\ ~Claimed'
    BY <1>22, <1>b DEF RemoveRecord, ActivePC
  <2>2. RecordState \in {"pausing", "killing"}
    BY <1>22 DEF RemoveRecord, TransitionInv, OwnerKeepsRecord, OpAtPC, ActivePC, Action, TargetState
  <2>3. RecordState' = "absent" /\ UNCHANGED key
    BY <1>22 DEF RemoveRecord
  <2> QED
    BY <2>1, <2>2, <2>3 DEF Lifecycle!Next, Lifecycle!Remove
<1>23. ASSUME NEW r \in Requests, RemoveFails(r)
      PROVE  Goal
  <2>1. Claimed /\ ~Claimed'
    BY <1>23, <1>b DEF RemoveFails, ActivePC
  <2>2. UNCHANGED <<RecordState, key>>
    BY <1>23 DEF RemoveFails
  <2> QED
    BY <2>1, <2>2 DEF Lifecycle!Next, Lifecycle!Abandon
<1>24. ASSUME NEW r \in Requests, RestoreObtain(r)
      PROVE  Goal
  BY <1>24 DEF RestoreObtain
<1>25. ASSUME NEW r \in Requests, RestoreGet(r)
      PROVE  Goal
  BY <1>25 DEF RestoreGet
<1>26. ASSUME NEW r \in Requests, RestoreSet(r)
      PROVE  Goal
  <2>1. Claimed /\ ~Claimed'
    BY <1>26, <1>b DEF RestoreSet, ActivePC
  <2>2. RecordState = "snapshotting" /\ rec = sbx[r] /\ op[r] = "snapshot" /\ sbx[r] \in Sandbox
    BY <1>26 DEF RestoreSet, TransitionInv, OwnerKeepsRecord, NoLostUpdate, OpAtPC, TargetState
  <2>3. RecordState' = "running" /\ UNCHANGED key
    BY <1>26, <2>2 DEF RestoreSet, Restored, Amend, Sandbox, State, TargetState
  <2> QED
    BY <2>1, <2>2, <2>3 DEF Lifecycle!Next, Lifecycle!Restore
<1>27. ASSUME NEW r \in Requests, RestoreFails(r)
      PROVE  Goal
  <2>1. Claimed /\ ~Claimed'
    BY <1>27, <1>b DEF RestoreFails, GiveUpRestore, ActivePC
  <2>2. UNCHANGED key
    BY <1>27 DEF RestoreFails, GiveUpRestore
  <2>3. CASE UNCHANGED rec
    BY <2>1, <2>2, <2>3 DEF Lifecycle!Next, Lifecycle!Abandon
  <2>4. CASE pc[r] = "restoreSet" /\ rec' = Restored(r)
    <3>1. RecordState = "snapshotting" /\ rec = sbx[r] /\ op[r] = "snapshot" /\ sbx[r] \in Sandbox
      BY <2>4 DEF TransitionInv, OwnerKeepsRecord, NoLostUpdate, OpAtPC, TargetState
    <3>2. RecordState' = "running"
      BY <2>4, <3>1 DEF Restored, Amend, Sandbox, State, TargetState
    <3> QED
      BY <2>1, <2>2, <3>1, <3>2 DEF Lifecycle!Next, Lifecycle!Restore
  <2> QED
    BY <1>27, <2>3, <2>4 DEF RestoreFails
<1>28. ASSUME NEW r \in Requests, CallbackObtain(r)
      PROVE  Goal
  BY <1>28 DEF CallbackObtain
<1>29. ASSUME NEW r \in Requests, CallbackSet(r)
      PROVE  Goal
  BY <1>29 DEF CallbackSet
<1>30. ASSUME NEW r \in Requests, CallbackDel(r)
      PROVE  Goal
  <2>1. ~Claimed /\ ~Claimed'
    BY <1>30, <1>b DEF CallbackDel, ActivePC
  <2>2. UNCHANGED RecordState
    BY <1>30 DEF CallbackDel
  <2>3. CASE key' = None
    <3>1. key \in Transitions
      BY <1>30 DEF CallbackDel, TransitionInv, OwnerHasKey, Active, ActivePC, Id, OpAtPC, Transitions
    <3> QED
      BY <2>1, <2>2, <2>3, <3>1 DEF Lifecycle!Next, Lifecycle!Finish
  <2>4. CASE UNCHANGED key
    BY <2>1, <2>2, <2>4
  <2> QED
    BY <1>30, <2>3, <2>4 DEF CallbackDel
<1>31. ASSUME NEW r \in Requests, CallbackPublish(r)
      PROVE  Goal
  BY <1>31 DEF CallbackPublish, AfterCallback
<1>32. ASSUME NEW r \in Requests, CallbackObtainFails(r)
      PROVE  Goal
  BY <1>32 DEF CallbackObtainFails, AfterCallback
<1>33. ASSUME NEW r \in Requests, AwaitKey(r)
      PROVE  Goal
  BY <1>33 DEF AwaitKey
<1>34. ASSUME NEW r \in Requests, Subscribe(r)
      PROVE  Goal
  BY <1>34 DEF Subscribe
<1>35. ASSUME NEW r \in Requests, CheckKey(r)
      PROVE  Goal
  BY <1>35 DEF CheckKey
<1>36. ASSUME NEW r \in Requests, Woken(r)
      PROVE  Goal
  BY <1>36 DEF Woken
<1>37. ASSUME NEW r \in Requests, Poll(r)
      PROVE  Goal
  BY <1>37 DEF Poll
<1>38. ASSUME NEW r \in Requests, CheckResult(r)
      PROVE  Goal
  BY <1>38 DEF CheckResult
<1>39. ASSUME NEW r \in Requests, Crash(r)
      PROVE  Goal
  <2>1. CASE pc[r] \in ClaimPC
    <3>1. Claimed /\ ~Claimed'
      BY <1>39, <1>b, <2>1 DEF Crash, ActivePC
    <3>2. UNCHANGED <<RecordState, key>>
      BY <1>39 DEF Crash
    <3> QED
      BY <3>1, <3>2 DEF Lifecycle!Next, Lifecycle!Abandon
  <2>2. CASE pc[r] \notin ClaimPC
    BY <1>39, <2>2 DEF Crash
  <2> QED
    BY <2>1, <2>2
<1>40. ASSUME NEW r \in Requests, Cancel(r)
      PROVE  Goal
  <2>1. CASE pc[r] \in ClaimPC
    <3>1. Claimed /\ ~Claimed'
      BY <1>40, <1>b, <2>1 DEF Cancel, ActivePC
    <3>2. UNCHANGED <<RecordState, key>>
      BY <1>40 DEF Cancel
    <3> QED
      BY <3>1, <3>2 DEF Lifecycle!Next, Lifecycle!Abandon
  <2>2. CASE pc[r] \notin ClaimPC
    BY <1>40, <2>2 DEF Cancel
  <2> QED
    BY <2>1, <2>2
<1>41. ASSUME NEW id \in Transitions, Dispatch(id)
      PROVE  Goal
  BY <1>41 DEF Dispatch
<1>42. ASSUME NEW id \in Transitions, ResultExpires(id)
      PROVE  Goal
  BY <1>42 DEF ResultExpires
<1>43. ASSUME LockExpires
      PROVE  Goal
  BY <1>43 DEF LockExpires
<1>44. ASSUME CbLockExpires
      PROVE  Goal
  BY <1>44 DEF CbLockExpires
<1>45. ASSUME KeyExpires
      PROVE  Goal
  <2>1. ~Claimed
    BY <1>45 DEF KeyExpires, Owned, TransitionInv, OwnerHasKey, Active, ActivePC
  <2>2. UNCHANGED RecordState /\ ~Claimed'
    BY <1>45, <2>1 DEF KeyExpires
  <2> QED
    BY <1>45, <2>1, <2>2 DEF KeyExpires, Lifecycle!Next, Lifecycle!Finish
<1>46. ASSUME NEW r \in Requests, RestoreMissing(r)
      PROVE  Goal
  <2>1. Claimed /\ ~Claimed'
    BY <1>46, <1>b DEF RestoreMissing, GiveUpRestore, ActivePC
  <2>2. UNCHANGED <<RecordState, key>>
    BY <1>46 DEF RestoreMissing, GiveUpRestore
  <2> QED
    BY <2>1, <2>2 DEF Lifecycle!Next, Lifecycle!Abandon
<1>47. ASSUME NEW r \in Requests, LostCheck(r)
      PROVE  Goal
  BY <1>47 DEF LostCheck
<1>48. ASSUME NEW r \in Requests, CommandFails(r)
      PROVE  Goal
  BY <1>48 DEF CommandFails, ErrorOutcome
<1> HIDE DEF Goal, TypeOK, RecordState, Claimed
<1>z. Goal
  BY <1>1, <1>2, <1>3, <1>4, <1>5, <1>6, <1>7, <1>8, <1>9, <1>10, <1>11, <1>12, <1>13,
     <1>14, <1>15, <1>16, <1>17, <1>18, <1>19, <1>20, <1>21, <1>22, <1>23, <1>24, <1>25,
     <1>26, <1>27, <1>28, <1>29, <1>30, <1>31, <1>32, <1>33, <1>34, <1>35, <1>36, <1>37,
     <1>38, <1>39, <1>40, <1>41, <1>42, <1>43, <1>44, <1>45, <1>46, <1>47, <1>48 DEF
     Next, Step, Failure
<1> USE DEF Goal
<1> QED
  BY <1>z, LifecycleStutter

\* The invariant holds in an empty store.
LEMMA InvInit == Init => TransitionInv
  BY NoneAssumption, ParameterAssumption
  DEF Init, TransitionInv, HoldersHoldLock, OwnerHasKey, OpAtPC, NoLostUpdate, ChecksStillHold,
      OwnerKeepsRecord, RunningHasVM, SnapshotHasVM, RestoredBeforeRelease, ClockReadings,
      CopiesWithin, WithinMaxLength, Active, ActivePC, HolderPC, WaitPC, RemovePC, RestorePC, CallbackPC

\* The invariant is inductive as long as no lock and no transition key expires
\* under its live holder.
LEMMA InvStep ==
  ASSUME TypeOK, TransitionInv, [Next]_vars,
         "slowHolder" \notin Faults, "slowTransition" \notin Faults
  PROVE  TransitionInv'
<1> USE DEF TransitionInv
<1>1. HoldersHoldLock'
  BY LockStep
<1>2. OwnerHasKey' /\ ChecksStillHold'
  BY KeyStep
<1>3. OpAtPC'
  BY OpStep
<1>4. NoLostUpdate' /\ OwnerKeepsRecord' /\ RestoredBeforeRelease'
  BY RecordStep
<1>5. RunningHasVM' /\ SnapshotHasVM'
  BY VMStep
<1>6. ClockReadings' /\ CopiesWithin' /\ WithinMaxLength'
  BY LengthStep
<1> QED
  BY <1>1, <1>2, <1>3, <1>4, <1>5, <1>6

\* The strengthening of AlreadyDoneIsDone needs every transition to be completed by
\* its owner: no fault but those of the node and of the publication.
NoLoss == Faults \subseteq {"node", "pubsub"}

\* Only the owner deletes the transition key, in its callback.
LEMMA KeyOwnedStep ==
  ASSUME NoLoss, TypeOK, OpAtPC, OwnerHasKey, ChecksStillHold, KeyIsOwned, [Next]_vars
  PROVE  KeyIsOwned'
<1> USE NoneAssumption, ParameterAssumption DEF TypeOK, KeyIsOwned, Owned, Active, Id, ActivePC,
    RemovePC, RestorePC, Goto, Return, redis, local
<1>1. CASE UNCHANGED vars
  BY <1>1 DEF vars
<1>2. CASE Tick
  BY <1>2 DEF Tick
<1>3. ASSUME NEW e \in Executions, NEW d \in Durations, NEW a \in AutoPause, Create(e, d, a)
      PROVE  KeyIsOwned'
  BY <1>3 DEF Create
<1>4. ASSUME NEW r \in Requests, NEW o \in Ops, Begin(r, o)
      PROVE  KeyIsOwned'
  BY <1>4 DEF Begin
<1>5. ASSUME NEW r \in Requests, BeginEviction(r)
      PROVE  KeyIsOwned'
  BY <1>5 DEF BeginEviction, Fresh
<1>6. ASSUME NEW r \in Requests, Obtain(r)
      PROVE  KeyIsOwned'
  BY <1>6 DEF Obtain
<1>7. ASSUME NEW r \in Requests, GetMissing(r)
      PROVE  KeyIsOwned'
  BY <1>7 DEF GetMissing
<1>8. ASSUME NEW r \in Requests, Get(r)
      PROVE  KeyIsOwned'
  BY <1>8 DEF Get
<1>9. ASSUME NEW r \in Requests, RefuseEviction(r)
      PROVE  KeyIsOwned'
  BY <1>9 DEF RefuseEviction
<1>10. ASSUME NEW r \in Requests, JoinTransition(r)
      PROVE  KeyIsOwned'
  BY <1>10 DEF JoinTransition
<1>11. ASSUME NEW r \in Requests, AlreadyInState(r)
      PROVE  KeyIsOwned'
  BY <1>11 DEF AlreadyInState
<1>12. ASSUME NEW r \in Requests, RejectTransition(r)
      PROVE  KeyIsOwned'
  BY <1>12 DEF RejectTransition
<1>13. ASSUME NEW r \in Requests, AcceptTransition(r)
      PROVE  KeyIsOwned'
  BY <1>13 DEF AcceptTransition
<1>14. ASSUME NEW r \in Requests, StartTransition(r)
      PROVE  KeyIsOwned'
  <2>1. /\ key' = Id(r) /\ pc'[r] = "work" /\ UNCHANGED op
    BY <1>14 DEF StartTransition, NoLoss
  <2> QED
    BY <2>1
<1>15. ASSUME NEW r \in Requests, UpdateRefused(r)
      PROVE  KeyIsOwned'
  BY <1>15 DEF UpdateRefused
<1>16. ASSUME NEW r \in Requests, NEW d \in Durations, NEW shorter \in BOOLEAN, Update(r, d, shorter)
      PROVE  KeyIsOwned'
  BY <1>16 DEF Update
<1>17. ASSUME NEW r \in Requests, NodeRemoves(r)
      PROVE  KeyIsOwned'
  BY <1>17 DEF NodeRemoves
<1>18. ASSUME NEW r \in Requests, NodeRemoveFails(r)
      PROVE  KeyIsOwned'
  BY <1>18 DEF NodeRemoveFails
<1>19. ASSUME NEW r \in Requests, NEW o \in {"ok", "failed"}, Checkpoint(r, o)
      PROVE  KeyIsOwned'
  BY <1>19 DEF Checkpoint
<1>20. ASSUME NEW r \in Requests, CheckpointFails(r)
      PROVE  KeyIsOwned'
  BY <1>20 DEF CheckpointFails
<1>21. ASSUME NEW r \in Requests, RemoveObtain(r)
      PROVE  KeyIsOwned'
  BY <1>21 DEF RemoveObtain
<1>22. ASSUME NEW r \in Requests, RemoveRecord(r)
      PROVE  KeyIsOwned'
  BY <1>22 DEF RemoveRecord
<1>23. ASSUME NEW r \in Requests, RemoveFails(r)
      PROVE  KeyIsOwned'
  BY <1>23 DEF RemoveFails, NoLoss
<1>24. ASSUME NEW r \in Requests, RestoreObtain(r)
      PROVE  KeyIsOwned'
  BY <1>24 DEF RestoreObtain
<1>25. ASSUME NEW r \in Requests, RestoreGet(r)
      PROVE  KeyIsOwned'
  BY <1>25 DEF RestoreGet
<1>26. ASSUME NEW r \in Requests, RestoreSet(r)
      PROVE  KeyIsOwned'
  BY <1>26 DEF RestoreSet, Restored
<1>27. ASSUME NEW r \in Requests, RestoreFails(r)
      PROVE  KeyIsOwned'
  BY <1>27 DEF RestoreFails, NoLoss
<1>28. ASSUME NEW r \in Requests, CallbackObtain(r)
      PROVE  KeyIsOwned'
  BY <1>28 DEF CallbackObtain
<1>29. ASSUME NEW r \in Requests, CallbackSet(r)
      PROVE  KeyIsOwned'
  BY <1>29 DEF CallbackSet
<1>30. ASSUME NEW r \in Requests, CallbackDel(r)
      PROVE  KeyIsOwned'
  BY <1>30 DEF CallbackDel, NoLoss
<1>31. ASSUME NEW r \in Requests, CallbackPublish(r)
      PROVE  KeyIsOwned'
  BY <1>31 DEF CallbackPublish, AfterCallback
<1>32. ASSUME NEW r \in Requests, CallbackObtainFails(r)
      PROVE  KeyIsOwned'
  BY <1>32 DEF CallbackObtainFails, NoLoss
<1>33. ASSUME NEW r \in Requests, AwaitKey(r)
      PROVE  KeyIsOwned'
  BY <1>33 DEF AwaitKey
<1>34. ASSUME NEW r \in Requests, Subscribe(r)
      PROVE  KeyIsOwned'
  BY <1>34 DEF Subscribe
<1>35. ASSUME NEW r \in Requests, CheckKey(r)
      PROVE  KeyIsOwned'
  BY <1>35 DEF CheckKey
<1>36. ASSUME NEW r \in Requests, Woken(r)
      PROVE  KeyIsOwned'
  BY <1>36 DEF Woken
<1>37. ASSUME NEW r \in Requests, Poll(r)
      PROVE  KeyIsOwned'
  BY <1>37 DEF Poll
<1>38. ASSUME NEW r \in Requests, CheckResult(r)
      PROVE  KeyIsOwned'
  BY <1>38 DEF CheckResult, ErrorOutcome
<1>39. ASSUME NEW r \in Requests, Crash(r)
      PROVE  KeyIsOwned'
  BY <1>39 DEF Crash, NoLoss
<1>40. ASSUME NEW r \in Requests, Cancel(r)
      PROVE  KeyIsOwned'
  BY <1>40 DEF Cancel, NoLoss
<1>41. ASSUME NEW id \in Transitions, Dispatch(id)
      PROVE  KeyIsOwned'
  BY <1>41 DEF Dispatch
<1>42. ASSUME NEW id \in Transitions, ResultExpires(id)
      PROVE  KeyIsOwned'
  BY <1>42 DEF ResultExpires
<1>43. CASE LockExpires
  BY <1>43 DEF LockExpires
<1>44. CASE CbLockExpires
  BY <1>44 DEF CbLockExpires
<1>45. CASE KeyExpires
  BY <1>45 DEF KeyExpires, Owned
<1>46. ASSUME NEW r \in Requests, RestoreMissing(r)
      PROVE  KeyIsOwned'
  BY <1>46 DEF RestoreMissing, GiveUpRestore
<1>47. ASSUME NEW r \in Requests, LostCheck(r)
      PROVE  KeyIsOwned'
  BY <1>47 DEF LostCheck, NoLoss
<1>48. ASSUME NEW r \in Requests, CommandFails(r)
      PROVE  KeyIsOwned'
  BY <1>48 DEF CommandFails, NoLoss
<1> HIDE DEF TypeOK, KeyIsOwned, Owned, Active, Id, ActivePC, RemovePC, RestorePC, Goto, Return,
    redis, local
<1> QED
  BY <1>1, <1>2, <1>3, <1>4, <1>5, <1>6, <1>7, <1>8, <1>9, <1>10, <1>11, <1>12, <1>13, <1>14,
     <1>15, <1>16, <1>17, <1>18, <1>19, <1>20, <1>21, <1>22, <1>23, <1>24, <1>25, <1>26, <1>27,
     <1>28, <1>29, <1>30, <1>31, <1>32, <1>33, <1>34, <1>35, <1>36, <1>37, <1>38, <1>39, <1>40,
     <1>41, <1>42, <1>43, <1>44, <1>45, <1>46, <1>47, <1>48 DEF Next, Step, Failure

\* Only its owner moves a record out of the killing or pausing state.
LEMMA RemovedStep ==
  ASSUME NoLoss, TypeOK, OpAtPC, OwnerHasKey, NoLostUpdate, OwnerKeepsRecord,
         OneTransition, RemovedByOwner, [Next]_vars
  PROVE  RemovedByOwner'
<1> USE NoneAssumption, ParameterAssumption DEF TypeOK, RemovedByOwner, Active, Id, ActivePC,
    RemovePC, RestorePC, Goto, Return, redis, local
<1>1. CASE UNCHANGED vars
  BY <1>1 DEF vars
<1>2. CASE Tick
  BY <1>2 DEF Tick
<1>3. ASSUME NEW e \in Executions, NEW d \in Durations, NEW a \in AutoPause, Create(e, d, a)
      PROVE  RemovedByOwner'
  <2>1. rec' = [exec |-> e, state |-> "running", start |-> now,
               end |-> now + Lesser(d, MaxInstanceLength), auto |-> a]
    BY <1>3 DEF Create
  <2>2. rec'.state = "running"
    BY <2>1
  <2> QED
    BY <2>2
<1>4. ASSUME NEW r \in Requests, NEW o \in Ops, Begin(r, o)
      PROVE  RemovedByOwner'
  BY <1>4 DEF Begin
<1>5. ASSUME NEW r \in Requests, BeginEviction(r)
      PROVE  RemovedByOwner'
  BY <1>5 DEF BeginEviction, Fresh
<1>6. ASSUME NEW r \in Requests, Obtain(r)
      PROVE  RemovedByOwner'
  BY <1>6 DEF Obtain
<1>7. ASSUME NEW r \in Requests, GetMissing(r)
      PROVE  RemovedByOwner'
  BY <1>7 DEF GetMissing
<1>8. ASSUME NEW r \in Requests, Get(r)
      PROVE  RemovedByOwner'
  BY <1>8 DEF Get
<1>9. ASSUME NEW r \in Requests, RefuseEviction(r)
      PROVE  RemovedByOwner'
  BY <1>9 DEF RefuseEviction
<1>10. ASSUME NEW r \in Requests, JoinTransition(r)
      PROVE  RemovedByOwner'
  BY <1>10 DEF JoinTransition
<1>11. ASSUME NEW r \in Requests, AlreadyInState(r)
      PROVE  RemovedByOwner'
  BY <1>11 DEF AlreadyInState
<1>12. ASSUME NEW r \in Requests, RejectTransition(r)
      PROVE  RemovedByOwner'
  BY <1>12 DEF RejectTransition
<1>13. ASSUME NEW r \in Requests, AcceptTransition(r)
      PROVE  RemovedByOwner'
  BY <1>13 DEF AcceptTransition
<1>14. ASSUME NEW r \in Requests, StartTransition(r)
      PROVE  RemovedByOwner'
  <2>1. pc'[r] = "work"
    BY <1>14 DEF StartTransition, NoLoss
  <2> QED
    BY <2>1
<1>15. ASSUME NEW r \in Requests, UpdateRefused(r)
      PROVE  RemovedByOwner'
  BY <1>15 DEF UpdateRefused
<1>16. ASSUME NEW r \in Requests, NEW d \in Durations, NEW shorter \in BOOLEAN, Update(r, d, shorter)
      PROVE  RemovedByOwner'
  <2>1. rec'.state = "running"
    BY <1>16 DEF Update, Amend
  <2> QED
    BY <2>1
<1>17. ASSUME NEW r \in Requests, NodeRemoves(r)
      PROVE  RemovedByOwner'
  BY <1>17 DEF NodeRemoves
<1>18. ASSUME NEW r \in Requests, NodeRemoveFails(r)
      PROVE  RemovedByOwner'
  BY <1>18 DEF NodeRemoveFails
<1>19. ASSUME NEW r \in Requests, NEW o \in {"ok", "failed"}, Checkpoint(r, o)
      PROVE  RemovedByOwner'
  BY <1>19 DEF Checkpoint, OwnerKeepsRecord, TargetState, Transient, OneTransition
<1>20. ASSUME NEW r \in Requests, CheckpointFails(r)
      PROVE  RemovedByOwner'
  BY <1>20 DEF CheckpointFails, OwnerKeepsRecord, TargetState, Transient, OneTransition
<1>21. ASSUME NEW r \in Requests, RemoveObtain(r)
      PROVE  RemovedByOwner'
  BY <1>21 DEF RemoveObtain
<1>22. ASSUME NEW r \in Requests, RemoveRecord(r)
      PROVE  RemovedByOwner'
  BY <1>22 DEF RemoveRecord
<1>23. ASSUME NEW r \in Requests, RemoveFails(r)
      PROVE  RemovedByOwner'
  BY <1>23 DEF RemoveFails, NoLoss
<1>24. ASSUME NEW r \in Requests, RestoreObtain(r)
      PROVE  RemovedByOwner'
  BY <1>24 DEF RestoreObtain
<1>25. ASSUME NEW r \in Requests, RestoreGet(r)
      PROVE  RemovedByOwner'
  BY <1>25 DEF RestoreGet
<1>26. ASSUME NEW r \in Requests, RestoreSet(r)
      PROVE  RemovedByOwner'
  <2>1. rec'.state = "running"
    BY <1>26 DEF RestoreSet, Restored, NoLostUpdate, OwnerKeepsRecord, Amend
  <2> QED
    BY <2>1
<1>27. ASSUME NEW r \in Requests, RestoreFails(r)
      PROVE  RemovedByOwner'
  BY <1>27 DEF RestoreFails, NoLoss
<1>28. ASSUME NEW r \in Requests, CallbackObtain(r)
      PROVE  RemovedByOwner'
  BY <1>28 DEF CallbackObtain
<1>29. ASSUME NEW r \in Requests, CallbackSet(r)
      PROVE  RemovedByOwner'
  BY <1>29 DEF CallbackSet
<1>30. ASSUME NEW r \in Requests, CallbackDel(r)
      PROVE  RemovedByOwner'
  BY <1>30 DEF CallbackDel
<1>31. ASSUME NEW r \in Requests, CallbackPublish(r)
      PROVE  RemovedByOwner'
  BY <1>31 DEF CallbackPublish, AfterCallback
<1>32. ASSUME NEW r \in Requests, CallbackObtainFails(r)
      PROVE  RemovedByOwner'
  BY <1>32 DEF CallbackObtainFails, NoLoss
<1>33. ASSUME NEW r \in Requests, AwaitKey(r)
      PROVE  RemovedByOwner'
  BY <1>33 DEF AwaitKey
<1>34. ASSUME NEW r \in Requests, Subscribe(r)
      PROVE  RemovedByOwner'
  BY <1>34 DEF Subscribe
<1>35. ASSUME NEW r \in Requests, CheckKey(r)
      PROVE  RemovedByOwner'
  BY <1>35 DEF CheckKey
<1>36. ASSUME NEW r \in Requests, Woken(r)
      PROVE  RemovedByOwner'
  BY <1>36 DEF Woken
<1>37. ASSUME NEW r \in Requests, Poll(r)
      PROVE  RemovedByOwner'
  BY <1>37 DEF Poll
<1>38. ASSUME NEW r \in Requests, CheckResult(r)
      PROVE  RemovedByOwner'
  BY <1>38 DEF CheckResult, ErrorOutcome
<1>39. ASSUME NEW r \in Requests, Crash(r)
      PROVE  RemovedByOwner'
  BY <1>39 DEF Crash, NoLoss
<1>40. ASSUME NEW r \in Requests, Cancel(r)
      PROVE  RemovedByOwner'
  BY <1>40 DEF Cancel, NoLoss
<1>41. ASSUME NEW id \in Transitions, Dispatch(id)
      PROVE  RemovedByOwner'
  BY <1>41 DEF Dispatch
<1>42. ASSUME NEW id \in Transitions, ResultExpires(id)
      PROVE  RemovedByOwner'
  BY <1>42 DEF ResultExpires
<1>43. CASE LockExpires
  BY <1>43 DEF LockExpires
<1>44. CASE CbLockExpires
  BY <1>44 DEF CbLockExpires
<1>45. CASE KeyExpires
  BY <1>45 DEF KeyExpires, Owned
<1>46. ASSUME NEW r \in Requests, RestoreMissing(r)
      PROVE  RemovedByOwner'
  BY <1>46 DEF RestoreMissing, GiveUpRestore
<1>47. ASSUME NEW r \in Requests, LostCheck(r)
      PROVE  RemovedByOwner'
  BY <1>47 DEF LostCheck, NoLoss
<1>48. ASSUME NEW r \in Requests, CommandFails(r)
      PROVE  RemovedByOwner'
  BY <1>48 DEF CommandFails, NoLoss
<1> HIDE DEF TypeOK, RemovedByOwner, Active, Id, ActivePC, RemovePC, RestorePC, Goto, Return,
    redis, local
<1> QED
  BY <1>1, <1>2, <1>3, <1>4, <1>5, <1>6, <1>7, <1>8, <1>9, <1>10, <1>11, <1>12, <1>13, <1>14,
     <1>15, <1>16, <1>17, <1>18, <1>19, <1>20, <1>21, <1>22, <1>23, <1>24, <1>25, <1>26, <1>27,
     <1>28, <1>29, <1>30, <1>31, <1>32, <1>33, <1>34, <1>35, <1>36, <1>37, <1>38, <1>39, <1>40,
     <1>41, <1>42, <1>43, <1>44, <1>45, <1>46, <1>47, <1>48 DEF Next, Step, Failure

\* The evictor starts removals only, and StartRemoving lets it wait for nothing.
LEMMA EvictorsStep ==
  ASSUME NoLoss, TypeOK, OpAtPC, EvictorsRemove, [Next]_vars
  PROVE  EvictorsRemove'
<1> USE NoneAssumption, ParameterAssumption DEF TypeOK, EvictorsRemove, WaitPC, Active, Id,
    ActivePC, RemovePC, RestorePC, Goto, Return, redis, local
<1>1. CASE UNCHANGED vars
  BY <1>1 DEF vars
<1>2. CASE Tick
  BY <1>2 DEF Tick
<1>3. ASSUME NEW e \in Executions, NEW d \in Durations, NEW a \in AutoPause, Create(e, d, a)
      PROVE  EvictorsRemove'
  BY <1>3 DEF Create
<1>4. ASSUME NEW r \in Requests, NEW o \in Ops, Begin(r, o)
      PROVE  EvictorsRemove'
  BY <1>4 DEF Begin
<1>5. ASSUME NEW r \in Requests, BeginEviction(r)
      PROVE  EvictorsRemove'
  BY <1>5 DEF BeginEviction, Fresh
<1>6. ASSUME NEW r \in Requests, Obtain(r)
      PROVE  EvictorsRemove'
  BY <1>6 DEF Obtain
<1>7. ASSUME NEW r \in Requests, GetMissing(r)
      PROVE  EvictorsRemove'
  BY <1>7 DEF GetMissing
<1>8. ASSUME NEW r \in Requests, Get(r)
      PROVE  EvictorsRemove'
  BY <1>8 DEF Get
<1>9. ASSUME NEW r \in Requests, RefuseEviction(r)
      PROVE  EvictorsRemove'
  BY <1>9 DEF RefuseEviction
<1>10. ASSUME NEW r \in Requests, JoinTransition(r)
      PROVE  EvictorsRemove'
  BY <1>10 DEF JoinTransition
<1>11. ASSUME NEW r \in Requests, AlreadyInState(r)
      PROVE  EvictorsRemove'
  BY <1>11 DEF AlreadyInState
<1>12. ASSUME NEW r \in Requests, RejectTransition(r)
      PROVE  EvictorsRemove'
  BY <1>12 DEF RejectTransition
<1>13. ASSUME NEW r \in Requests, AcceptTransition(r)
      PROVE  EvictorsRemove'
  BY <1>13 DEF AcceptTransition
<1>14. ASSUME NEW r \in Requests, StartTransition(r)
      PROVE  EvictorsRemove'
  BY <1>14 DEF StartTransition
<1>15. ASSUME NEW r \in Requests, UpdateRefused(r)
      PROVE  EvictorsRemove'
  BY <1>15 DEF UpdateRefused
<1>16. ASSUME NEW r \in Requests, NEW d \in Durations, NEW shorter \in BOOLEAN, Update(r, d, shorter)
      PROVE  EvictorsRemove'
  BY <1>16 DEF Update
<1>17. ASSUME NEW r \in Requests, NodeRemoves(r)
      PROVE  EvictorsRemove'
  BY <1>17 DEF NodeRemoves
<1>18. ASSUME NEW r \in Requests, NodeRemoveFails(r)
      PROVE  EvictorsRemove'
  BY <1>18 DEF NodeRemoveFails
<1>19. ASSUME NEW r \in Requests, NEW o \in {"ok", "failed"}, Checkpoint(r, o)
      PROVE  EvictorsRemove'
  BY <1>19 DEF Checkpoint
<1>20. ASSUME NEW r \in Requests, CheckpointFails(r)
      PROVE  EvictorsRemove'
  BY <1>20 DEF CheckpointFails
<1>21. ASSUME NEW r \in Requests, RemoveObtain(r)
      PROVE  EvictorsRemove'
  BY <1>21 DEF RemoveObtain
<1>22. ASSUME NEW r \in Requests, RemoveRecord(r)
      PROVE  EvictorsRemove'
  BY <1>22 DEF RemoveRecord
<1>23. ASSUME NEW r \in Requests, RemoveFails(r)
      PROVE  EvictorsRemove'
  BY <1>23 DEF RemoveFails, NoLoss
<1>24. ASSUME NEW r \in Requests, RestoreObtain(r)
      PROVE  EvictorsRemove'
  BY <1>24 DEF RestoreObtain
<1>25. ASSUME NEW r \in Requests, RestoreGet(r)
      PROVE  EvictorsRemove'
  BY <1>25 DEF RestoreGet
<1>26. ASSUME NEW r \in Requests, RestoreSet(r)
      PROVE  EvictorsRemove'
  BY <1>26 DEF RestoreSet, Restored
<1>27. ASSUME NEW r \in Requests, RestoreFails(r)
      PROVE  EvictorsRemove'
  BY <1>27 DEF RestoreFails, NoLoss
<1>28. ASSUME NEW r \in Requests, CallbackObtain(r)
      PROVE  EvictorsRemove'
  BY <1>28 DEF CallbackObtain
<1>29. ASSUME NEW r \in Requests, CallbackSet(r)
      PROVE  EvictorsRemove'
  BY <1>29 DEF CallbackSet
<1>30. ASSUME NEW r \in Requests, CallbackDel(r)
      PROVE  EvictorsRemove'
  BY <1>30 DEF CallbackDel
<1>31. ASSUME NEW r \in Requests, CallbackPublish(r)
      PROVE  EvictorsRemove'
  BY <1>31 DEF CallbackPublish, AfterCallback
<1>32. ASSUME NEW r \in Requests, CallbackObtainFails(r)
      PROVE  EvictorsRemove'
  BY <1>32 DEF CallbackObtainFails, NoLoss
<1>33. ASSUME NEW r \in Requests, AwaitKey(r)
      PROVE  EvictorsRemove'
  BY <1>33 DEF AwaitKey, OpAtPC
<1>34. ASSUME NEW r \in Requests, Subscribe(r)
      PROVE  EvictorsRemove'
  BY <1>34 DEF Subscribe
<1>35. ASSUME NEW r \in Requests, CheckKey(r)
      PROVE  EvictorsRemove'
  BY <1>35 DEF CheckKey
<1>36. ASSUME NEW r \in Requests, Woken(r)
      PROVE  EvictorsRemove'
  BY <1>36 DEF Woken
<1>37. ASSUME NEW r \in Requests, Poll(r)
      PROVE  EvictorsRemove'
  BY <1>37 DEF Poll
<1>38. ASSUME NEW r \in Requests, CheckResult(r)
      PROVE  EvictorsRemove'
  BY <1>38 DEF CheckResult, ErrorOutcome
<1>39. ASSUME NEW r \in Requests, Crash(r)
      PROVE  EvictorsRemove'
  BY <1>39 DEF Crash, NoLoss
<1>40. ASSUME NEW r \in Requests, Cancel(r)
      PROVE  EvictorsRemove'
  BY <1>40 DEF Cancel, NoLoss
<1>41. ASSUME NEW id \in Transitions, Dispatch(id)
      PROVE  EvictorsRemove'
  BY <1>41 DEF Dispatch
<1>42. ASSUME NEW id \in Transitions, ResultExpires(id)
      PROVE  EvictorsRemove'
  BY <1>42 DEF ResultExpires
<1>43. CASE LockExpires
  BY <1>43 DEF LockExpires
<1>44. CASE CbLockExpires
  BY <1>44 DEF CbLockExpires
<1>45. CASE KeyExpires
  BY <1>45 DEF KeyExpires, Owned
<1>46. ASSUME NEW r \in Requests, RestoreMissing(r)
      PROVE  EvictorsRemove'
  BY <1>46 DEF RestoreMissing, GiveUpRestore
<1>47. ASSUME NEW r \in Requests, LostCheck(r)
      PROVE  EvictorsRemove'
  BY <1>47 DEF LostCheck, NoLoss
<1>48. ASSUME NEW r \in Requests, CommandFails(r)
      PROVE  EvictorsRemove'
  BY <1>48 DEF CommandFails, NoLoss
<1> HIDE DEF TypeOK, EvictorsRemove, WaitPC, Active, Id, ActivePC, RemovePC, RestorePC, Goto,
    Return, redis, local
<1> QED
  BY <1>1, <1>2, <1>3, <1>4, <1>5, <1>6, <1>7, <1>8, <1>9, <1>10, <1>11, <1>12, <1>13, <1>14,
     <1>15, <1>16, <1>17, <1>18, <1>19, <1>20, <1>21, <1>22, <1>23, <1>24, <1>25, <1>26, <1>27,
     <1>28, <1>29, <1>30, <1>31, <1>32, <1>33, <1>34, <1>35, <1>36, <1>37, <1>38, <1>39, <1>40,
     <1>41, <1>42, <1>43, <1>44, <1>45, <1>46, <1>47, <1>48 DEF Next, Step, Failure

\* The callback publishes the ID of its transition after the DEL.
LEMMA PublishedStep ==
  ASSUME NoLoss, TypeOK, OpAtPC, IdsAreNew, PublishedIsOver, [Next]_vars
  PROVE  PublishedIsOver'
<1> USE NoneAssumption, ParameterAssumption DEF TypeOK, PublishedIsOver, Active, Id, ActivePC,
    RemovePC, RestorePC, Goto, Return, redis, local
<1>1. CASE UNCHANGED vars
  BY <1>1 DEF vars
<1>2. CASE Tick
  BY <1>2 DEF Tick
<1>3. ASSUME NEW e \in Executions, NEW d \in Durations, NEW a \in AutoPause, Create(e, d, a)
      PROVE  PublishedIsOver'
  BY <1>3 DEF Create
<1>4. ASSUME NEW r \in Requests, NEW o \in Ops, Begin(r, o)
      PROVE  PublishedIsOver'
  BY <1>4 DEF Begin
<1>5. ASSUME NEW r \in Requests, BeginEviction(r)
      PROVE  PublishedIsOver'
  BY <1>5 DEF BeginEviction, Fresh
<1>6. ASSUME NEW r \in Requests, Obtain(r)
      PROVE  PublishedIsOver'
  BY <1>6 DEF Obtain
<1>7. ASSUME NEW r \in Requests, GetMissing(r)
      PROVE  PublishedIsOver'
  BY <1>7 DEF GetMissing
<1>8. ASSUME NEW r \in Requests, Get(r)
      PROVE  PublishedIsOver'
  BY <1>8 DEF Get
<1>9. ASSUME NEW r \in Requests, RefuseEviction(r)
      PROVE  PublishedIsOver'
  BY <1>9 DEF RefuseEviction
<1>10. ASSUME NEW r \in Requests, JoinTransition(r)
      PROVE  PublishedIsOver'
  BY <1>10 DEF JoinTransition
<1>11. ASSUME NEW r \in Requests, AlreadyInState(r)
      PROVE  PublishedIsOver'
  BY <1>11 DEF AlreadyInState
<1>12. ASSUME NEW r \in Requests, RejectTransition(r)
      PROVE  PublishedIsOver'
  BY <1>12 DEF RejectTransition
<1>13. ASSUME NEW r \in Requests, AcceptTransition(r)
      PROVE  PublishedIsOver'
  BY <1>13 DEF AcceptTransition
<1>14. ASSUME NEW r \in Requests, StartTransition(r)
      PROVE  PublishedIsOver'
  <2>1. Id(r) \notin published
    BY <1>14 DEF StartTransition, IdsAreNew, MayStart, StartPC, OpAtPC
  <2> QED
    BY <1>14, <2>1 DEF StartTransition
<1>15. ASSUME NEW r \in Requests, UpdateRefused(r)
      PROVE  PublishedIsOver'
  BY <1>15 DEF UpdateRefused
<1>16. ASSUME NEW r \in Requests, NEW d \in Durations, NEW shorter \in BOOLEAN, Update(r, d, shorter)
      PROVE  PublishedIsOver'
  BY <1>16 DEF Update
<1>17. ASSUME NEW r \in Requests, NodeRemoves(r)
      PROVE  PublishedIsOver'
  BY <1>17 DEF NodeRemoves
<1>18. ASSUME NEW r \in Requests, NodeRemoveFails(r)
      PROVE  PublishedIsOver'
  BY <1>18 DEF NodeRemoveFails
<1>19. ASSUME NEW r \in Requests, NEW o \in {"ok", "failed"}, Checkpoint(r, o)
      PROVE  PublishedIsOver'
  BY <1>19 DEF Checkpoint
<1>20. ASSUME NEW r \in Requests, CheckpointFails(r)
      PROVE  PublishedIsOver'
  BY <1>20 DEF CheckpointFails
<1>21. ASSUME NEW r \in Requests, RemoveObtain(r)
      PROVE  PublishedIsOver'
  BY <1>21 DEF RemoveObtain
<1>22. ASSUME NEW r \in Requests, RemoveRecord(r)
      PROVE  PublishedIsOver'
  BY <1>22 DEF RemoveRecord
<1>23. ASSUME NEW r \in Requests, RemoveFails(r)
      PROVE  PublishedIsOver'
  BY <1>23 DEF RemoveFails, NoLoss
<1>24. ASSUME NEW r \in Requests, RestoreObtain(r)
      PROVE  PublishedIsOver'
  BY <1>24 DEF RestoreObtain
<1>25. ASSUME NEW r \in Requests, RestoreGet(r)
      PROVE  PublishedIsOver'
  BY <1>25 DEF RestoreGet
<1>26. ASSUME NEW r \in Requests, RestoreSet(r)
      PROVE  PublishedIsOver'
  BY <1>26 DEF RestoreSet, Restored
<1>27. ASSUME NEW r \in Requests, RestoreFails(r)
      PROVE  PublishedIsOver'
  BY <1>27 DEF RestoreFails, NoLoss
<1>28. ASSUME NEW r \in Requests, CallbackObtain(r)
      PROVE  PublishedIsOver'
  BY <1>28 DEF CallbackObtain
<1>29. ASSUME NEW r \in Requests, CallbackSet(r)
      PROVE  PublishedIsOver'
  BY <1>29 DEF CallbackSet
<1>30. ASSUME NEW r \in Requests, CallbackDel(r)
      PROVE  PublishedIsOver'
  BY <1>30 DEF CallbackDel
<1>31. ASSUME NEW r \in Requests, CallbackPublish(r)
      PROVE  PublishedIsOver'
  BY <1>31 DEF CallbackPublish, AfterCallback
<1>32. ASSUME NEW r \in Requests, CallbackObtainFails(r)
      PROVE  PublishedIsOver'
  BY <1>32 DEF CallbackObtainFails, NoLoss
<1>33. ASSUME NEW r \in Requests, AwaitKey(r)
      PROVE  PublishedIsOver'
  BY <1>33 DEF AwaitKey
<1>34. ASSUME NEW r \in Requests, Subscribe(r)
      PROVE  PublishedIsOver'
  BY <1>34 DEF Subscribe
<1>35. ASSUME NEW r \in Requests, CheckKey(r)
      PROVE  PublishedIsOver'
  BY <1>35 DEF CheckKey
<1>36. ASSUME NEW r \in Requests, Woken(r)
      PROVE  PublishedIsOver'
  BY <1>36 DEF Woken
<1>37. ASSUME NEW r \in Requests, Poll(r)
      PROVE  PublishedIsOver'
  BY <1>37 DEF Poll
<1>38. ASSUME NEW r \in Requests, CheckResult(r)
      PROVE  PublishedIsOver'
  BY <1>38 DEF CheckResult, ErrorOutcome
<1>39. ASSUME NEW r \in Requests, Crash(r)
      PROVE  PublishedIsOver'
  BY <1>39 DEF Crash, NoLoss
<1>40. ASSUME NEW r \in Requests, Cancel(r)
      PROVE  PublishedIsOver'
  BY <1>40 DEF Cancel, NoLoss
<1>41. ASSUME NEW id \in Transitions, Dispatch(id)
      PROVE  PublishedIsOver'
  BY <1>41 DEF Dispatch
<1>42. ASSUME NEW id \in Transitions, ResultExpires(id)
      PROVE  PublishedIsOver'
  BY <1>42 DEF ResultExpires
<1>43. CASE LockExpires
  BY <1>43 DEF LockExpires
<1>44. CASE CbLockExpires
  BY <1>44 DEF CbLockExpires
<1>45. CASE KeyExpires
  BY <1>45 DEF KeyExpires, Owned
<1>46. ASSUME NEW r \in Requests, RestoreMissing(r)
      PROVE  PublishedIsOver'
  BY <1>46 DEF RestoreMissing, GiveUpRestore
<1>47. ASSUME NEW r \in Requests, LostCheck(r)
      PROVE  PublishedIsOver'
  BY <1>47 DEF LostCheck, NoLoss
<1>48. ASSUME NEW r \in Requests, CommandFails(r)
      PROVE  PublishedIsOver'
  BY <1>48 DEF CommandFails, NoLoss
<1> HIDE DEF TypeOK, PublishedIsOver, Active, Id, ActivePC, RemovePC, RestorePC, Goto, Return,
    redis, local
<1> QED
  BY <1>1, <1>2, <1>3, <1>4, <1>5, <1>6, <1>7, <1>8, <1>9, <1>10, <1>11, <1>12, <1>13, <1>14,
     <1>15, <1>16, <1>17, <1>18, <1>19, <1>20, <1>21, <1>22, <1>23, <1>24, <1>25, <1>26, <1>27,
     <1>28, <1>29, <1>30, <1>31, <1>32, <1>33, <1>34, <1>35, <1>36, <1>37, <1>38, <1>39, <1>40,
     <1>41, <1>42, <1>43, <1>44, <1>45, <1>46, <1>47, <1>48 DEF Next, Step, Failure

\* A request starts a transition for an action at most once.
LEMMA IdsStep ==
  ASSUME NoLoss, TypeOK, OpAtPC, EvictorsRemove, IdsAreNew, [Next]_vars
  PROVE  IdsAreNew'
<1> USE NoneAssumption, ParameterAssumption DEF TypeOK, IdsAreNew, MayStart, StartPC, WaitPC,
    Fresh, Active, Id, ActivePC, RemovePC, RestorePC, Goto, Return, redis, local
<1>1. CASE UNCHANGED vars
  BY <1>1 DEF vars
<1>2. CASE Tick
  BY <1>2 DEF Tick
<1>3. ASSUME NEW e \in Executions, NEW d \in Durations, NEW a \in AutoPause, Create(e, d, a)
      PROVE  IdsAreNew'
  BY <1>3 DEF Create
<1>4. ASSUME NEW r \in Requests, NEW o \in Ops, Begin(r, o)
      PROVE  IdsAreNew'
  BY <1>4 DEF Begin
<1>5. ASSUME NEW r \in Requests, BeginEviction(r)
      PROVE  IdsAreNew'
  BY <1>5 DEF BeginEviction, Fresh
<1>6. ASSUME NEW r \in Requests, Obtain(r)
      PROVE  IdsAreNew'
  BY <1>6 DEF Obtain
<1>7. ASSUME NEW r \in Requests, GetMissing(r)
      PROVE  IdsAreNew'
  BY <1>7 DEF GetMissing
<1>8. ASSUME NEW r \in Requests, Get(r)
      PROVE  IdsAreNew'
  BY <1>8 DEF Get
<1>9. ASSUME NEW r \in Requests, RefuseEviction(r)
      PROVE  IdsAreNew'
  BY <1>9 DEF RefuseEviction
<1>10. ASSUME NEW r \in Requests, JoinTransition(r)
      PROVE  IdsAreNew'
  BY <1>10 DEF JoinTransition
<1>11. ASSUME NEW r \in Requests, AlreadyInState(r)
      PROVE  IdsAreNew'
  BY <1>11 DEF AlreadyInState
<1>12. ASSUME NEW r \in Requests, RejectTransition(r)
      PROVE  IdsAreNew'
  BY <1>12 DEF RejectTransition
<1>13. ASSUME NEW r \in Requests, AcceptTransition(r)
      PROVE  IdsAreNew'
  BY <1>13 DEF AcceptTransition
<1>14. ASSUME NEW r \in Requests, StartTransition(r)
      PROVE  IdsAreNew'
  BY <1>14 DEF StartTransition
<1>15. ASSUME NEW r \in Requests, UpdateRefused(r)
      PROVE  IdsAreNew'
  BY <1>15 DEF UpdateRefused
<1>16. ASSUME NEW r \in Requests, NEW d \in Durations, NEW shorter \in BOOLEAN, Update(r, d, shorter)
      PROVE  IdsAreNew'
  BY <1>16 DEF Update
<1>17. ASSUME NEW r \in Requests, NodeRemoves(r)
      PROVE  IdsAreNew'
  BY <1>17 DEF NodeRemoves
<1>18. ASSUME NEW r \in Requests, NodeRemoveFails(r)
      PROVE  IdsAreNew'
  BY <1>18 DEF NodeRemoveFails
<1>19. ASSUME NEW r \in Requests, NEW o \in {"ok", "failed"}, Checkpoint(r, o)
      PROVE  IdsAreNew'
  BY <1>19 DEF Checkpoint
<1>20. ASSUME NEW r \in Requests, CheckpointFails(r)
      PROVE  IdsAreNew'
  BY <1>20 DEF CheckpointFails
<1>21. ASSUME NEW r \in Requests, RemoveObtain(r)
      PROVE  IdsAreNew'
  BY <1>21 DEF RemoveObtain
<1>22. ASSUME NEW r \in Requests, RemoveRecord(r)
      PROVE  IdsAreNew'
  BY <1>22 DEF RemoveRecord
<1>23. ASSUME NEW r \in Requests, RemoveFails(r)
      PROVE  IdsAreNew'
  BY <1>23 DEF RemoveFails, NoLoss
<1>24. ASSUME NEW r \in Requests, RestoreObtain(r)
      PROVE  IdsAreNew'
  BY <1>24 DEF RestoreObtain
<1>25. ASSUME NEW r \in Requests, RestoreGet(r)
      PROVE  IdsAreNew'
  BY <1>25 DEF RestoreGet
<1>26. ASSUME NEW r \in Requests, RestoreSet(r)
      PROVE  IdsAreNew'
  BY <1>26 DEF RestoreSet, Restored
<1>27. ASSUME NEW r \in Requests, RestoreFails(r)
      PROVE  IdsAreNew'
  BY <1>27 DEF RestoreFails, NoLoss
<1>28. ASSUME NEW r \in Requests, CallbackObtain(r)
      PROVE  IdsAreNew'
  BY <1>28 DEF CallbackObtain
<1>29. ASSUME NEW r \in Requests, CallbackSet(r)
      PROVE  IdsAreNew'
  BY <1>29 DEF CallbackSet
<1>30. ASSUME NEW r \in Requests, CallbackDel(r)
      PROVE  IdsAreNew'
  BY <1>30 DEF CallbackDel, Transitions
<1>31. ASSUME NEW r \in Requests, CallbackPublish(r)
      PROVE  IdsAreNew'
  <2>1. \A a \in Action : MayStart(r, a)' => MayStart(r, a) /\ a # op[r]
    <3>1. CASE Transient(op[r]) /\ err[r] = "op"
      BY <1>31, <3>1 DEF CallbackPublish, AfterCallback, Transient, EvictorsRemove
    <3>2. CASE ~(Transient(op[r]) /\ err[r] = "op")
      <4>1. pc'[r] = "done" /\ (r \in Evictors => outcome'[r] \in {"ok", "failed"})
        BY <1>31, <3>2 DEF CallbackPublish, AfterCallback, Transient, EvictorsRemove
      <4> QED
        BY <4>1
    <3> QED
      BY <3>1, <3>2
  <2>2. \A s \in Requests, a \in Action : s # r => (MayStart(s, a)' => MayStart(s, a))
    BY <1>31 DEF CallbackPublish, AfterCallback
  <2>3. UNCHANGED <<key, waitFor>> /\ published' = published \cup {<<r, op[r]>>}
    BY <1>31 DEF CallbackPublish
  <2> HIDE DEF MayStart, TypeOK
  <2> QED
    BY <2>1, <2>2, <2>3
<1>32. ASSUME NEW r \in Requests, CallbackObtainFails(r)
      PROVE  IdsAreNew'
  BY <1>32 DEF CallbackObtainFails, NoLoss
<1>33. ASSUME NEW r \in Requests, AwaitKey(r)
      PROVE  IdsAreNew'
  BY <1>33 DEF AwaitKey
<1>34. ASSUME NEW r \in Requests, Subscribe(r)
      PROVE  IdsAreNew'
  BY <1>34 DEF Subscribe
<1>35. ASSUME NEW r \in Requests, CheckKey(r)
      PROVE  IdsAreNew'
  BY <1>35 DEF CheckKey
<1>36. ASSUME NEW r \in Requests, Woken(r)
      PROVE  IdsAreNew'
  BY <1>36 DEF Woken
<1>37. ASSUME NEW r \in Requests, Poll(r)
      PROVE  IdsAreNew'
  BY <1>37 DEF Poll
<1>38. ASSUME NEW r \in Requests, CheckResult(r)
      PROVE  IdsAreNew'
  <2>1. \A a \in Action : None # <<r, a>>
    BY DEF Transitions
  <2>2. \A a \in Action : MayStart(r, a)' => MayStart(r, a)
    BY <1>38 DEF CheckResult, ErrorOutcome, EvictorsRemove
  <2>3. \A s \in Requests, a \in Action : s # r => (MayStart(s, a)' => MayStart(s, a))
    BY <1>38 DEF CheckResult
  <2>4. UNCHANGED <<key, published>> /\ waitFor' = [waitFor EXCEPT ![r] = None]
    BY <1>38 DEF CheckResult
  <2>5. \A s \in Requests : waitFor'[s] = waitFor[s] \/ waitFor'[s] = None
    BY <2>4
  <2>6. \A s \in Requests, a \in Action : None # <<s, a>>
    BY DEF Transitions
  <2> HIDE DEF MayStart, TypeOK
  <2> QED
    BY <2>2, <2>3, <2>4, <2>5, <2>6
<1>39. ASSUME NEW r \in Requests, Crash(r)
      PROVE  IdsAreNew'
  BY <1>39 DEF Crash, NoLoss
<1>40. ASSUME NEW r \in Requests, Cancel(r)
      PROVE  IdsAreNew'
  BY <1>40 DEF Cancel, NoLoss
<1>41. ASSUME NEW id \in Transitions, Dispatch(id)
      PROVE  IdsAreNew'
  BY <1>41 DEF Dispatch
<1>42. ASSUME NEW id \in Transitions, ResultExpires(id)
      PROVE  IdsAreNew'
  BY <1>42 DEF ResultExpires
<1>43. CASE LockExpires
  BY <1>43 DEF LockExpires
<1>44. CASE CbLockExpires
  BY <1>44 DEF CbLockExpires
<1>45. CASE KeyExpires
  BY <1>45 DEF KeyExpires, Transitions
<1>46. ASSUME NEW r \in Requests, RestoreMissing(r)
      PROVE  IdsAreNew'
  BY <1>46 DEF RestoreMissing, GiveUpRestore
<1>47. ASSUME NEW r \in Requests, LostCheck(r)
      PROVE  IdsAreNew'
  BY <1>47 DEF LostCheck, NoLoss
<1>48. ASSUME NEW r \in Requests, CommandFails(r)
      PROVE  IdsAreNew'
  BY <1>48 DEF CommandFails, NoLoss
<1> HIDE DEF TypeOK, IdsAreNew, MayStart, StartPC, WaitPC, Fresh, Active, Id, ActivePC, RemovePC,
    RestorePC, Goto, Return, redis, local
<1> QED
  BY <1>1, <1>2, <1>3, <1>4, <1>5, <1>6, <1>7, <1>8, <1>9, <1>10, <1>11, <1>12, <1>13, <1>14,
     <1>15, <1>16, <1>17, <1>18, <1>19, <1>20, <1>21, <1>22, <1>23, <1>24, <1>25, <1>26, <1>27,
     <1>28, <1>29, <1>30, <1>31, <1>32, <1>33, <1>34, <1>35, <1>36, <1>37, <1>38, <1>39, <1>40,
     <1>41, <1>42, <1>43, <1>44, <1>45, <1>46, <1>47, <1>48 DEF Next, Step, Failure

\* The owner of a removal stops the VM or reports its error.
LEMMA StoppedStep ==
  ASSUME NoLoss, TypeOK, OpAtPC, StoppedOrTold, [Next]_vars
  PROVE  StoppedOrTold'
<1> USE NoneAssumption, ParameterAssumption DEF TypeOK, StoppedOrTold, Active, Id, ActivePC,
    RemovePC, RestorePC, Goto, Return, redis, local
<1>1. CASE UNCHANGED vars
  BY <1>1 DEF vars
<1>2. CASE Tick
  BY <1>2 DEF Tick
<1>3. ASSUME NEW e \in Executions, NEW d \in Durations, NEW a \in AutoPause, Create(e, d, a)
      PROVE  StoppedOrTold'
  BY <1>3 DEF Create
<1>4. ASSUME NEW r \in Requests, NEW o \in Ops, Begin(r, o)
      PROVE  StoppedOrTold'
  BY <1>4 DEF Begin
<1>5. ASSUME NEW r \in Requests, BeginEviction(r)
      PROVE  StoppedOrTold'
  BY <1>5 DEF BeginEviction, Fresh
<1>6. ASSUME NEW r \in Requests, Obtain(r)
      PROVE  StoppedOrTold'
  BY <1>6 DEF Obtain
<1>7. ASSUME NEW r \in Requests, GetMissing(r)
      PROVE  StoppedOrTold'
  BY <1>7 DEF GetMissing
<1>8. ASSUME NEW r \in Requests, Get(r)
      PROVE  StoppedOrTold'
  BY <1>8 DEF Get
<1>9. ASSUME NEW r \in Requests, RefuseEviction(r)
      PROVE  StoppedOrTold'
  BY <1>9 DEF RefuseEviction
<1>10. ASSUME NEW r \in Requests, JoinTransition(r)
      PROVE  StoppedOrTold'
  BY <1>10 DEF JoinTransition
<1>11. ASSUME NEW r \in Requests, AlreadyInState(r)
      PROVE  StoppedOrTold'
  BY <1>11 DEF AlreadyInState
<1>12. ASSUME NEW r \in Requests, RejectTransition(r)
      PROVE  StoppedOrTold'
  BY <1>12 DEF RejectTransition
<1>13. ASSUME NEW r \in Requests, AcceptTransition(r)
      PROVE  StoppedOrTold'
  BY <1>13 DEF AcceptTransition
<1>14. ASSUME NEW r \in Requests, StartTransition(r)
      PROVE  StoppedOrTold'
  BY <1>14 DEF StartTransition
<1>15. ASSUME NEW r \in Requests, UpdateRefused(r)
      PROVE  StoppedOrTold'
  BY <1>15 DEF UpdateRefused
<1>16. ASSUME NEW r \in Requests, NEW d \in Durations, NEW shorter \in BOOLEAN, Update(r, d, shorter)
      PROVE  StoppedOrTold'
  BY <1>16 DEF Update
<1>17. ASSUME NEW r \in Requests, NodeRemoves(r)
      PROVE  StoppedOrTold'
  <2>1. sbx[r].exec \in Executions
    BY <1>17 DEF NodeRemoves, OpAtPC, Sandbox
  <2>2. vm'[sbx[r].exec] = "down" /\ \A e \in Executions : vm[e] = "down" => vm'[e] = "down"
    BY <1>17, <2>1 DEF NodeRemoves
  <2>3. \A s \in Requests : pc[s] \in ActivePC => sbx[s].exec \in Executions
    BY DEF OpAtPC, Sandbox
  <2> QED
    BY <1>17, <2>2, <2>3 DEF NodeRemoves
<1>18. ASSUME NEW r \in Requests, NodeRemoveFails(r)
      PROVE  StoppedOrTold'
  BY <1>18 DEF NodeRemoveFails
<1>19. ASSUME NEW r \in Requests, NEW o \in {"ok", "failed"}, Checkpoint(r, o)
      PROVE  StoppedOrTold'
  BY <1>19 DEF Checkpoint
<1>20. ASSUME NEW r \in Requests, CheckpointFails(r)
      PROVE  StoppedOrTold'
  BY <1>20 DEF CheckpointFails
<1>21. ASSUME NEW r \in Requests, RemoveObtain(r)
      PROVE  StoppedOrTold'
  BY <1>21 DEF RemoveObtain
<1>22. ASSUME NEW r \in Requests, RemoveRecord(r)
      PROVE  StoppedOrTold'
  BY <1>22 DEF RemoveRecord
<1>23. ASSUME NEW r \in Requests, RemoveFails(r)
      PROVE  StoppedOrTold'
  BY <1>23 DEF RemoveFails, NoLoss
<1>24. ASSUME NEW r \in Requests, RestoreObtain(r)
      PROVE  StoppedOrTold'
  BY <1>24 DEF RestoreObtain
<1>25. ASSUME NEW r \in Requests, RestoreGet(r)
      PROVE  StoppedOrTold'
  BY <1>25 DEF RestoreGet
<1>26. ASSUME NEW r \in Requests, RestoreSet(r)
      PROVE  StoppedOrTold'
  BY <1>26 DEF RestoreSet, OpAtPC
<1>27. ASSUME NEW r \in Requests, RestoreFails(r)
      PROVE  StoppedOrTold'
  BY <1>27 DEF RestoreFails, NoLoss
<1>28. ASSUME NEW r \in Requests, CallbackObtain(r)
      PROVE  StoppedOrTold'
  BY <1>28 DEF CallbackObtain
<1>29. ASSUME NEW r \in Requests, CallbackSet(r)
      PROVE  StoppedOrTold'
  <2>1. op[r] \in {"kill", "pause"} => result'[Id(r)] = "error" \/ vm[sbx[r].exec] = "down"
    BY <1>29 DEF CallbackSet, ResultValue, Transient, NoLoss, OpAtPC, Transitions, Action
  <2>2. \A s \in Requests : s # r /\ pc[s] = "cbDel" => result'[Id(s)] = result[Id(s)]
    BY <1>29 DEF CallbackSet, OpAtPC, Transitions
  <2> QED
    BY <1>29, <2>1, <2>2 DEF CallbackSet
<1>30. ASSUME NEW r \in Requests, CallbackDel(r)
      PROVE  StoppedOrTold'
  BY <1>30 DEF CallbackDel
<1>31. ASSUME NEW r \in Requests, CallbackPublish(r)
      PROVE  StoppedOrTold'
  BY <1>31 DEF CallbackPublish, AfterCallback
<1>32. ASSUME NEW r \in Requests, CallbackObtainFails(r)
      PROVE  StoppedOrTold'
  BY <1>32 DEF CallbackObtainFails, NoLoss
<1>33. ASSUME NEW r \in Requests, AwaitKey(r)
      PROVE  StoppedOrTold'
  BY <1>33 DEF AwaitKey
<1>34. ASSUME NEW r \in Requests, Subscribe(r)
      PROVE  StoppedOrTold'
  BY <1>34 DEF Subscribe
<1>35. ASSUME NEW r \in Requests, CheckKey(r)
      PROVE  StoppedOrTold'
  BY <1>35 DEF CheckKey
<1>36. ASSUME NEW r \in Requests, Woken(r)
      PROVE  StoppedOrTold'
  BY <1>36 DEF Woken
<1>37. ASSUME NEW r \in Requests, Poll(r)
      PROVE  StoppedOrTold'
  BY <1>37 DEF Poll
<1>38. ASSUME NEW r \in Requests, CheckResult(r)
      PROVE  StoppedOrTold'
  BY <1>38 DEF CheckResult, ErrorOutcome
<1>39. ASSUME NEW r \in Requests, Crash(r)
      PROVE  StoppedOrTold'
  BY <1>39 DEF Crash, NoLoss
<1>40. ASSUME NEW r \in Requests, Cancel(r)
      PROVE  StoppedOrTold'
  BY <1>40 DEF Cancel, NoLoss
<1>41. ASSUME NEW id \in Transitions, Dispatch(id)
      PROVE  StoppedOrTold'
  BY <1>41 DEF Dispatch
<1>42. ASSUME NEW id \in Transitions, ResultExpires(id)
      PROVE  StoppedOrTold'
  <2>1. \A s \in Requests : pc[s] = "cbDel" => Id(s) # id
    BY <1>42 DEF ResultExpires, NoLoss
  <2>2. \A x \in Transitions : x # id => result'[x] = result[x]
    BY <1>42 DEF ResultExpires
  <2>3. \A s \in Requests : pc[s] = "cbDel" => Id(s) \in Transitions
    BY DEF OpAtPC, Transitions
  <2> QED
    BY <1>42, <2>1, <2>2, <2>3 DEF ResultExpires
<1>43. CASE LockExpires
  BY <1>43 DEF LockExpires
<1>44. CASE CbLockExpires
  BY <1>44 DEF CbLockExpires
<1>45. CASE KeyExpires
  BY <1>45 DEF KeyExpires, Owned
<1>46. ASSUME NEW r \in Requests, RestoreMissing(r)
      PROVE  StoppedOrTold'
  BY <1>46 DEF RestoreMissing, GiveUpRestore
<1>47. ASSUME NEW r \in Requests, LostCheck(r)
      PROVE  StoppedOrTold'
  BY <1>47 DEF LostCheck, NoLoss
<1>48. ASSUME NEW r \in Requests, CommandFails(r)
      PROVE  StoppedOrTold'
  BY <1>48 DEF CommandFails, NoLoss
<1> HIDE DEF TypeOK, StoppedOrTold, Active, Id, ActivePC, RemovePC, RestorePC, Goto, Return,
    redis, local
<1> QED
  BY <1>1, <1>2, <1>3, <1>4, <1>5, <1>6, <1>7, <1>8, <1>9, <1>10, <1>11, <1>12, <1>13, <1>14,
     <1>15, <1>16, <1>17, <1>18, <1>19, <1>20, <1>21, <1>22, <1>23, <1>24, <1>25, <1>26, <1>27,
     <1>28, <1>29, <1>30, <1>31, <1>32, <1>33, <1>34, <1>35, <1>36, <1>37, <1>38, <1>39, <1>40,
     <1>41, <1>42, <1>43, <1>44, <1>45, <1>46, <1>47, <1>48 DEF Next, Step, Failure

\* A request is told that a removal was done once its VM is stopped.
LEMMA ToldStep ==
  ASSUME NoLoss, TypeOK, OpAtPC, OwnerHasKey, NoLostUpdate, RemovedByOwner,
         WaitersSeeRemoval, ToldIsDone, [Next]_vars
  PROVE  ToldIsDone'
<1> USE NoneAssumption, ParameterAssumption DEF TypeOK, ToldIsDone, Active, Id, ActivePC,
    RemovePC, RestorePC, Goto, Return, redis, local
<1>1. CASE UNCHANGED vars
  BY <1>1 DEF vars
<1>2. CASE Tick
  BY <1>2 DEF Tick
<1>3. ASSUME NEW e \in Executions, NEW d \in Durations, NEW a \in AutoPause, Create(e, d, a)
      PROVE  ToldIsDone'
  BY <1>3 DEF Create
<1>4. ASSUME NEW r \in Requests, NEW o \in Ops, Begin(r, o)
      PROVE  ToldIsDone'
  BY <1>4 DEF Begin
<1>5. ASSUME NEW r \in Requests, BeginEviction(r)
      PROVE  ToldIsDone'
  BY <1>5 DEF BeginEviction, Fresh
<1>6. ASSUME NEW r \in Requests, Obtain(r)
      PROVE  ToldIsDone'
  BY <1>6 DEF Obtain
<1>7. ASSUME NEW r \in Requests, GetMissing(r)
      PROVE  ToldIsDone'
  BY <1>7 DEF GetMissing
<1>8. ASSUME NEW r \in Requests, Get(r)
      PROVE  ToldIsDone'
  BY <1>8 DEF Get
<1>9. ASSUME NEW r \in Requests, RefuseEviction(r)
      PROVE  ToldIsDone'
  BY <1>9 DEF RefuseEviction
<1>10. ASSUME NEW r \in Requests, JoinTransition(r)
      PROVE  ToldIsDone'
  BY <1>10 DEF JoinTransition
<1>11. ASSUME NEW r \in Requests, AlreadyInState(r)
      PROVE  ToldIsDone'
  <2>1. ~(rec # None /\ rec.state \in {"killing", "pausing"})
    <3>1. key = None
      BY <1>11 DEF AlreadyInState
    <3>2. \A s \in Requests : ~Active(s)
      BY <3>1, NoOwnerWithoutKey
    <3> QED
      BY <3>2 DEF RemovedByOwner
  <2>2. rec = sbx[r] /\ sbx[r] # None
    BY <1>11 DEF AlreadyInState, NoLostUpdate, OpAtPC
  <2>3. op[r] \in Action /\ sbx[r].state = TargetState(op[r])
    BY <1>11 DEF AlreadyInState, OpAtPC
  <2>4. Transient(op[r])
    BY <2>1, <2>2, <2>3 DEF Transient, TargetState, Action
  <2> QED
    BY <1>11, <2>4 DEF AlreadyInState
<1>12. ASSUME NEW r \in Requests, RejectTransition(r)
      PROVE  ToldIsDone'
  BY <1>12 DEF RejectTransition
<1>13. ASSUME NEW r \in Requests, AcceptTransition(r)
      PROVE  ToldIsDone'
  BY <1>13 DEF AcceptTransition
<1>14. ASSUME NEW r \in Requests, StartTransition(r)
      PROVE  ToldIsDone'
  BY <1>14 DEF StartTransition
<1>15. ASSUME NEW r \in Requests, UpdateRefused(r)
      PROVE  ToldIsDone'
  BY <1>15 DEF UpdateRefused
<1>16. ASSUME NEW r \in Requests, NEW d \in Durations, NEW shorter \in BOOLEAN, Update(r, d, shorter)
      PROVE  ToldIsDone'
  BY <1>16 DEF Update
<1>17. ASSUME NEW r \in Requests, NodeRemoves(r)
      PROVE  ToldIsDone'
  BY <1>17 DEF NodeRemoves
<1>18. ASSUME NEW r \in Requests, NodeRemoveFails(r)
      PROVE  ToldIsDone'
  BY <1>18 DEF NodeRemoveFails
<1>19. ASSUME NEW r \in Requests, NEW o \in {"ok", "failed"}, Checkpoint(r, o)
      PROVE  ToldIsDone'
  BY <1>19 DEF Checkpoint
<1>20. ASSUME NEW r \in Requests, CheckpointFails(r)
      PROVE  ToldIsDone'
  BY <1>20 DEF CheckpointFails
<1>21. ASSUME NEW r \in Requests, RemoveObtain(r)
      PROVE  ToldIsDone'
  BY <1>21 DEF RemoveObtain
<1>22. ASSUME NEW r \in Requests, RemoveRecord(r)
      PROVE  ToldIsDone'
  BY <1>22 DEF RemoveRecord
<1>23. ASSUME NEW r \in Requests, RemoveFails(r)
      PROVE  ToldIsDone'
  BY <1>23 DEF RemoveFails, NoLoss
<1>24. ASSUME NEW r \in Requests, RestoreObtain(r)
      PROVE  ToldIsDone'
  BY <1>24 DEF RestoreObtain
<1>25. ASSUME NEW r \in Requests, RestoreGet(r)
      PROVE  ToldIsDone'
  BY <1>25 DEF RestoreGet
<1>26. ASSUME NEW r \in Requests, RestoreSet(r)
      PROVE  ToldIsDone'
  BY <1>26 DEF RestoreSet, Restored
<1>27. ASSUME NEW r \in Requests, RestoreFails(r)
      PROVE  ToldIsDone'
  BY <1>27 DEF RestoreFails, NoLoss
<1>28. ASSUME NEW r \in Requests, CallbackObtain(r)
      PROVE  ToldIsDone'
  BY <1>28 DEF CallbackObtain
<1>29. ASSUME NEW r \in Requests, CallbackSet(r)
      PROVE  ToldIsDone'
  BY <1>29 DEF CallbackSet
<1>30. ASSUME NEW r \in Requests, CallbackDel(r)
      PROVE  ToldIsDone'
  BY <1>30 DEF CallbackDel
<1>31. ASSUME NEW r \in Requests, CallbackPublish(r)
      PROVE  ToldIsDone'
  BY <1>31 DEF CallbackPublish, AfterCallback
<1>32. ASSUME NEW r \in Requests, CallbackObtainFails(r)
      PROVE  ToldIsDone'
  BY <1>32 DEF CallbackObtainFails, NoLoss
<1>33. ASSUME NEW r \in Requests, AwaitKey(r)
      PROVE  ToldIsDone'
  BY <1>33 DEF AwaitKey
<1>34. ASSUME NEW r \in Requests, Subscribe(r)
      PROVE  ToldIsDone'
  BY <1>34 DEF Subscribe
<1>35. ASSUME NEW r \in Requests, CheckKey(r)
      PROVE  ToldIsDone'
  BY <1>35 DEF CheckKey
<1>36. ASSUME NEW r \in Requests, Woken(r)
      PROVE  ToldIsDone'
  BY <1>36 DEF Woken
<1>37. ASSUME NEW r \in Requests, Poll(r)
      PROVE  ToldIsDone'
  BY <1>37 DEF Poll
<1>38. ASSUME NEW r \in Requests, CheckResult(r)
      PROVE  ToldIsDone'
  <2>1. ASSUME outcome'[r] = "alreadyDone"
        PROVE  pc'[r] = "done" /\ sbx[r] # None /\ vm[sbx[r].exec] = "down"
    <3>1. /\ pc[r] = "result" /\ outcome[r] # "alreadyDone"
      BY <1>38 DEF CheckResult
    <3>2. /\ result[waitFor[r]] # "error" /\ pc'[r] = "done"
          /\ op[r] # "await" /\ ~Transient(op[r]) /\ sbx[r].state = TargetState(op[r])
      BY <1>38, <2>1, <3>1 DEF CheckResult, ErrorOutcome
    <3>3. op[r] \in {"kill", "pause"} /\ sbx[r] # None
      BY <3>1, <3>2 DEF OpAtPC, WaitPC, Transient, Operation, Action
    <3>4. AwaitsRemoval(r) /\ ~RemovalRuns(r)
      BY <3>1, <3>2, <3>3 DEF AwaitsRemoval, RemovalRuns, WaitPC
    <3> QED
      BY <3>2, <3>3, <3>4 DEF WaitersSeeRemoval
  <2>2. UNCHANGED <<sbx, vm>> /\ \A s \in Requests : s # r => UNCHANGED <<outcome[s], pc[s]>>
    BY <1>38 DEF CheckResult
  <2> QED
    BY <2>1, <2>2
<1>39. ASSUME NEW r \in Requests, Crash(r)
      PROVE  ToldIsDone'
  BY <1>39 DEF Crash, NoLoss
<1>40. ASSUME NEW r \in Requests, Cancel(r)
      PROVE  ToldIsDone'
  BY <1>40 DEF Cancel, NoLoss
<1>41. ASSUME NEW id \in Transitions, Dispatch(id)
      PROVE  ToldIsDone'
  BY <1>41 DEF Dispatch
<1>42. ASSUME NEW id \in Transitions, ResultExpires(id)
      PROVE  ToldIsDone'
  BY <1>42 DEF ResultExpires
<1>43. CASE LockExpires
  BY <1>43 DEF LockExpires
<1>44. CASE CbLockExpires
  BY <1>44 DEF CbLockExpires
<1>45. CASE KeyExpires
  BY <1>45 DEF KeyExpires, Owned
<1>46. ASSUME NEW r \in Requests, RestoreMissing(r)
      PROVE  ToldIsDone'
  BY <1>46 DEF RestoreMissing, GiveUpRestore
<1>47. ASSUME NEW r \in Requests, LostCheck(r)
      PROVE  ToldIsDone'
  BY <1>47 DEF LostCheck, NoLoss
<1>48. ASSUME NEW r \in Requests, CommandFails(r)
      PROVE  ToldIsDone'
  BY <1>48 DEF CommandFails, NoLoss
<1> HIDE DEF TypeOK, ToldIsDone, Active, Id, ActivePC, RemovePC, RestorePC, Goto, Return, redis,
    local
<1> QED
  BY <1>1, <1>2, <1>3, <1>4, <1>5, <1>6, <1>7, <1>8, <1>9, <1>10, <1>11, <1>12, <1>13, <1>14,
     <1>15, <1>16, <1>17, <1>18, <1>19, <1>20, <1>21, <1>22, <1>23, <1>24, <1>25, <1>26, <1>27,
     <1>28, <1>29, <1>30, <1>31, <1>32, <1>33, <1>34, <1>35, <1>36, <1>37, <1>38, <1>39, <1>40,
     <1>41, <1>42, <1>43, <1>44, <1>45, <1>46, <1>47, <1>48 DEF Next, Step, Failure

\* A waiter leaves its wait when the removal it waits for is over.
LEMMA WaitersStep ==
  ASSUME NoLoss, TypeOK, OpAtPC, OwnerHasKey, KeyIsOwned, NoLostUpdate, OwnerKeepsRecord,
         OneTransition, RemovedByOwner, IdsAreNew, PublishedIsOver, StoppedOrTold,
         WaitersSeeRemoval, [Next]_vars
  PROVE  WaitersSeeRemoval'
<1> USE NoneAssumption, ParameterAssumption DEF TypeOK, WaitersSeeRemoval, AwaitsRemoval,
    RemovalRuns, Owned, WaitPC, Active, Id, ActivePC, RemovePC, RestorePC, Goto, Return, redis,
    local
<1>1. CASE UNCHANGED vars
  BY <1>1 DEF vars
<1>2. CASE Tick
  BY <1>2 DEF Tick
<1>3. ASSUME NEW e \in Executions, NEW d \in Durations, NEW a \in AutoPause, Create(e, d, a)
      PROVE  WaitersSeeRemoval'
  BY <1>3 DEF Create
<1>4. ASSUME NEW r \in Requests, NEW o \in Ops, Begin(r, o)
      PROVE  WaitersSeeRemoval'
  BY <1>4 DEF Begin
<1>5. ASSUME NEW r \in Requests, BeginEviction(r)
      PROVE  WaitersSeeRemoval'
  BY <1>5 DEF BeginEviction, Fresh
<1>6. ASSUME NEW r \in Requests, Obtain(r)
      PROVE  WaitersSeeRemoval'
  BY <1>6 DEF Obtain
<1>7. ASSUME NEW r \in Requests, GetMissing(r)
      PROVE  WaitersSeeRemoval'
  BY <1>7 DEF GetMissing
<1>8. ASSUME NEW r \in Requests, Get(r)
      PROVE  WaitersSeeRemoval'
  BY <1>8 DEF Get
<1>9. ASSUME NEW r \in Requests, RefuseEviction(r)
      PROVE  WaitersSeeRemoval'
  BY <1>9 DEF RefuseEviction
<1>10. ASSUME NEW r \in Requests, JoinTransition(r)
      PROVE  WaitersSeeRemoval'
  <2>1. UNCHANGED <<op, sbx, signal, vm, result>> /\ waitFor' = [waitFor EXCEPT ![r] = key]
    BY <1>10 DEF JoinTransition
  <2>2. pc[r] = "getKey" /\ key # None /\ pc' = [pc EXCEPT ![r] = "subscribe"]
    BY <1>10 DEF JoinTransition
  <2>3. ASSUME AwaitsRemoval(r)' PROVE RemovalRuns(r)'
    <3>1. rec = sbx[r] /\ rec # None /\ rec.state = TargetState(op[r]) /\ op[r] \in {"kill", "pause"}
      BY <2>1, <2>2, <2>3 DEF NoLostUpdate, OpAtPC
    <3>2. rec.state \in {"killing", "pausing"}
      BY <3>1 DEF TargetState
    <3>3. PICK s \in Requests : pc[s] \in {"work"} \cup RemovePC
      BY <3>1, <3>2 DEF RemovedByOwner
    <3>4. rec.exec = sbx[s].exec /\ rec.state = TargetState(op[s]) /\ key = Id(s)
      BY <3>3 DEF OwnerKeepsRecord, OwnerHasKey
    <3>5. op[s] \in {"kill", "pause"}
      BY <3>2, <3>3, <3>4 DEF TargetState, OpAtPC, Action
    <3>6. s # r
      BY <2>2, <3>3
    <3> QED
      BY <2>1, <2>2, <3>1, <3>3, <3>4, <3>5, <3>6
  <2>4. ASSUME NEW w \in Requests, w # r
        PROVE  /\ AwaitsRemoval(w)' <=> AwaitsRemoval(w)
               /\ RemovalRuns(w)' <=> RemovalRuns(w)
               /\ waitFor'[w] = waitFor[w] /\ (Owned(waitFor[w])' <=> Owned(waitFor[w]))
    BY <2>1, <2>2, <2>4
  <2> HIDE DEF RemovalRuns, AwaitsRemoval, Owned, TypeOK
  <2> QED
    BY <2>1, <2>3, <2>4
<1>11. ASSUME NEW r \in Requests, AlreadyInState(r)
      PROVE  WaitersSeeRemoval'
  BY <1>11 DEF AlreadyInState
<1>12. ASSUME NEW r \in Requests, RejectTransition(r)
      PROVE  WaitersSeeRemoval'
  BY <1>12 DEF RejectTransition
<1>13. ASSUME NEW r \in Requests, AcceptTransition(r)
      PROVE  WaitersSeeRemoval'
  BY <1>13 DEF AcceptTransition
<1>14. ASSUME NEW r \in Requests, StartTransition(r)
      PROVE  WaitersSeeRemoval'
  <2>1. /\ UNCHANGED <<op, sbx, waitFor, signal, vm>>
        /\ result' = [result EXCEPT ![Id(r)] = "ok"] /\ pc[r] = "script"
        /\ pc' = [pc EXCEPT ![r] = "work"]
    BY <1>14 DEF StartTransition, NoLoss
  <2>2. \A w \in Requests : waitFor[w] # Id(r)
    BY <2>1 DEF IdsAreNew, MayStart, StartPC, OpAtPC
  <2>3. \A w \in Requests : result'[waitFor[w]] = result[waitFor[w]] \/ waitFor[w] = None
    BY <2>1, <2>2
  <2> QED
    BY <2>1, <2>2, <2>3
<1>15. ASSUME NEW r \in Requests, UpdateRefused(r)
      PROVE  WaitersSeeRemoval'
  BY <1>15 DEF UpdateRefused
<1>16. ASSUME NEW r \in Requests, NEW d \in Durations, NEW shorter \in BOOLEAN, Update(r, d, shorter)
      PROVE  WaitersSeeRemoval'
  BY <1>16 DEF Update
<1>17. ASSUME NEW r \in Requests, NodeRemoves(r)
      PROVE  WaitersSeeRemoval'
  BY <1>17 DEF NodeRemoves
<1>18. ASSUME NEW r \in Requests, NodeRemoveFails(r)
      PROVE  WaitersSeeRemoval'
  BY <1>18 DEF NodeRemoveFails
<1>19. ASSUME NEW r \in Requests, NEW o \in {"ok", "failed"}, Checkpoint(r, o)
      PROVE  WaitersSeeRemoval'
  BY <1>19 DEF Checkpoint
<1>20. ASSUME NEW r \in Requests, CheckpointFails(r)
      PROVE  WaitersSeeRemoval'
  BY <1>20 DEF CheckpointFails
<1>21. ASSUME NEW r \in Requests, RemoveObtain(r)
      PROVE  WaitersSeeRemoval'
  BY <1>21 DEF RemoveObtain
<1>22. ASSUME NEW r \in Requests, RemoveRecord(r)
      PROVE  WaitersSeeRemoval'
  BY <1>22 DEF RemoveRecord
<1>23. ASSUME NEW r \in Requests, RemoveFails(r)
      PROVE  WaitersSeeRemoval'
  BY <1>23 DEF RemoveFails, NoLoss
<1>24. ASSUME NEW r \in Requests, RestoreObtain(r)
      PROVE  WaitersSeeRemoval'
  BY <1>24 DEF RestoreObtain
<1>25. ASSUME NEW r \in Requests, RestoreGet(r)
      PROVE  WaitersSeeRemoval'
  BY <1>25 DEF RestoreGet, OpAtPC
<1>26. ASSUME NEW r \in Requests, RestoreSet(r)
      PROVE  WaitersSeeRemoval'
  BY <1>26 DEF RestoreSet, Restored
<1>27. ASSUME NEW r \in Requests, RestoreFails(r)
      PROVE  WaitersSeeRemoval'
  BY <1>27 DEF RestoreFails, NoLoss
<1>28. ASSUME NEW r \in Requests, CallbackObtain(r)
      PROVE  WaitersSeeRemoval'
  BY <1>28 DEF CallbackObtain
<1>29. ASSUME NEW r \in Requests, CallbackSet(r)
      PROVE  WaitersSeeRemoval'
  BY <1>29 DEF CallbackSet
<1>30. ASSUME NEW r \in Requests, CallbackDel(r)
      PROVE  WaitersSeeRemoval'
  <2>1. UNCHANGED <<op, sbx, waitFor, signal, vm, result>>
    BY <1>30 DEF CallbackDel
  <2>2. pc[r] = "cbDel" /\ pc' = [pc EXCEPT ![r] = "cbPublish"]
    BY <1>30 DEF CallbackDel
  <2>3. op[r] \in {"kill", "pause"} => result[Id(r)] = "error" \/ vm[sbx[r].exec] = "down"
    BY <2>2 DEF StoppedOrTold
  <2>4. Id(r) \in Transitions /\ Id(r) # None
    BY <2>2 DEF OpAtPC, Transitions
  <2>5. ASSUME NEW w \in Requests, AwaitsRemoval(w)'
        PROVE  \/ RemovalRuns(w)'
               \/ /\ waitFor[w] # None /\ ~Owned(waitFor[w])'
                  /\ result[waitFor[w]] = "error" \/ vm[sbx[w].exec] = "down"
    <3>1. w # r /\ AwaitsRemoval(w)
      BY <2>1, <2>2, <2>5
    <3>2. ~Owned(Id(r))'
      BY <2>1, <2>2
    <3>3. CASE RemovalRuns(w) /\ waitFor[w] = Id(r)
      <4>1. op[r] \in {"kill", "pause"} /\ sbx[r].exec = sbx[w].exec
        BY <3>3
      <4> QED
        BY <2>1, <2>3, <2>4, <3>2, <3>3, <4>1
    <3>4. CASE RemovalRuns(w) /\ waitFor[w] # Id(r)
      BY <2>1, <2>2, <3>1, <3>4
    <3>5. CASE ~RemovalRuns(w)
      BY <2>1, <2>2, <3>1, <3>5
    <3> QED
      BY <3>3, <3>4, <3>5
  <2> HIDE DEF RemovalRuns, AwaitsRemoval, Owned, TypeOK
  <2> QED
    BY <2>1, <2>5
<1>31. ASSUME NEW r \in Requests, CallbackPublish(r)
      PROVE  WaitersSeeRemoval'
  BY <1>31 DEF CallbackPublish, AfterCallback
<1>32. ASSUME NEW r \in Requests, CallbackObtainFails(r)
      PROVE  WaitersSeeRemoval'
  BY <1>32 DEF CallbackObtainFails, NoLoss
<1>33. ASSUME NEW r \in Requests, AwaitKey(r)
      PROVE  WaitersSeeRemoval'
  <2>1. op[r] = "await" /\ UNCHANGED <<op, sbx, vm, result>>
    BY <1>33 DEF AwaitKey, OpAtPC
  <2> QED
    BY <1>33, <2>1 DEF AwaitKey
<1>34. ASSUME NEW r \in Requests, Subscribe(r)
      PROVE  WaitersSeeRemoval'
  BY <1>34 DEF Subscribe
<1>35. ASSUME NEW r \in Requests, CheckKey(r)
      PROVE  WaitersSeeRemoval'
  <2>1. /\ pc[r] = "check" /\ pc'[r] \in {"wait", "result"}
        /\ UNCHANGED <<op, sbx, waitFor, signal, vm, result>>
    BY <1>35 DEF CheckKey
  <2>2. pc'[r] = "result" => key # waitFor[r]
    BY <1>35 DEF CheckKey
  <2>3. \A s \in Requests : s # r => pc'[s] = pc[s]
    BY <1>35 DEF CheckKey
  <2>4. \A s \in Requests : (Active(s)' <=> Active(s)) /\ Id(s)' = Id(s)
    BY <2>1, <2>3
  <2>5. ASSUME NEW w \in Requests, AwaitsRemoval(w)'
        PROVE  \/ RemovalRuns(w)'
               \/ /\ waitFor[w] # None /\ ~Owned(waitFor[w])'
                  /\ result[waitFor[w]] = "error" \/ vm[sbx[w].exec] = "down"
    <3>1. AwaitsRemoval(w)
      BY <2>1, <2>3, <2>5
    <3>2. CASE RemovalRuns(w)
      <4>1. w = r => pc'[w] = "wait"
        BY <2>1, <2>2, <3>2 DEF OwnerHasKey
      <4>2. pc'[w] # "result" /\ (pc'[w] # "subscribe" => ~signal'[w])
        BY <2>1, <2>3, <3>2, <4>1
      <4>3. \E s \in Requests : /\ Active(s)' /\ Id(s)' = waitFor'[w]
                                /\ op'[s] \in {"kill", "pause"} /\ sbx'[s].exec = sbx'[w].exec
        <5> HIDE DEF Active, Id
        <5> QED
          BY <2>1, <2>4, <3>2
      <4> QED
        BY <4>2, <4>3
    <3>3. CASE ~RemovalRuns(w)
      BY <2>1, <2>4, <3>1, <3>3
    <3> QED
      BY <3>2, <3>3
  <2> HIDE DEF RemovalRuns, AwaitsRemoval, Owned, TypeOK
  <2> QED
    BY <2>1, <2>5
<1>36. ASSUME NEW r \in Requests, Woken(r)
      PROVE  WaitersSeeRemoval'
  BY <1>36 DEF Woken
<1>37. ASSUME NEW r \in Requests, Poll(r)
      PROVE  WaitersSeeRemoval'
  BY <1>37 DEF Poll, OwnerHasKey
<1>38. ASSUME NEW r \in Requests, CheckResult(r)
      PROVE  WaitersSeeRemoval'
  BY <1>38 DEF CheckResult, ErrorOutcome
<1>39. ASSUME NEW r \in Requests, Crash(r)
      PROVE  WaitersSeeRemoval'
  BY <1>39 DEF Crash, NoLoss
<1>40. ASSUME NEW r \in Requests, Cancel(r)
      PROVE  WaitersSeeRemoval'
  BY <1>40 DEF Cancel, NoLoss
<1>41. ASSUME NEW id \in Transitions, Dispatch(id)
      PROVE  WaitersSeeRemoval'
  <2>1. UNCHANGED <<pc, op, sbx, waitFor, vm, result>>
    BY <1>41 DEF Dispatch
  <2>2. ASSUME NEW w \in Requests, RemovalRuns(w)
        PROVE  signal'[w] = signal[w]
    <3>1. PICK s \in Requests : Active(s) /\ Id(s) = waitFor[w]
      BY <2>2
    <3>2. Id(s) \notin published /\ id \in published
      BY <1>41, <3>1 DEF Dispatch, PublishedIsOver
    <3>3. waitFor[w] # id
      BY <3>1, <3>2
    <3> QED
      BY <1>41, <3>3 DEF Dispatch, Waiters
  <2> QED
    BY <2>1, <2>2
<1>42. ASSUME NEW id \in Transitions, ResultExpires(id)
      PROVE  WaitersSeeRemoval'
  <2>1. UNCHANGED <<pc, op, sbx, waitFor, signal, vm>>
    BY <1>42 DEF ResultExpires
  <2>2. Owned(id)
    BY <1>42 DEF ResultExpires, KeyIsOwned, NoLoss
  <2>3. \A x \in Transitions : x # id => result'[x] = result[x]
    BY <1>42 DEF ResultExpires
  <2> QED
    BY <2>1, <2>2, <2>3
<1>43. CASE LockExpires
  BY <1>43 DEF LockExpires
<1>44. CASE CbLockExpires
  BY <1>44 DEF CbLockExpires
<1>45. CASE KeyExpires
  BY <1>45 DEF KeyExpires, Owned
<1>46. ASSUME NEW r \in Requests, RestoreMissing(r)
      PROVE  WaitersSeeRemoval'
  BY <1>46 DEF RestoreMissing, GiveUpRestore
<1>47. ASSUME NEW r \in Requests, LostCheck(r)
      PROVE  WaitersSeeRemoval'
  BY <1>47 DEF LostCheck, NoLoss
<1>48. ASSUME NEW r \in Requests, CommandFails(r)
      PROVE  WaitersSeeRemoval'
  BY <1>48 DEF CommandFails, NoLoss
<1> HIDE DEF TypeOK, WaitersSeeRemoval, AwaitsRemoval, RemovalRuns, Owned, WaitPC, Active, Id,
    ActivePC, RemovePC, RestorePC, Goto, Return, redis, local
<1> QED
  BY <1>1, <1>2, <1>3, <1>4, <1>5, <1>6, <1>7, <1>8, <1>9, <1>10, <1>11, <1>12, <1>13, <1>14,
     <1>15, <1>16, <1>17, <1>18, <1>19, <1>20, <1>21, <1>22, <1>23, <1>24, <1>25, <1>26, <1>27,
     <1>28, <1>29, <1>30, <1>31, <1>32, <1>33, <1>34, <1>35, <1>36, <1>37, <1>38, <1>39, <1>40,
     <1>41, <1>42, <1>43, <1>44, <1>45, <1>46, <1>47, <1>48 DEF Next, Step, Failure

\* No request has started.
LEMMA RemovalInit == Init => RemovalInv
<1> SUFFICES ASSUME Init PROVE RemovalInv
  OBVIOUS
<1> USE NoneAssumption DEF Init
<1>1. KeyIsOwned /\ RemovedByOwner /\ ToldIsDone
  BY DEF KeyIsOwned, RemovedByOwner, ToldIsDone
<1>2. IdsAreNew
  BY DEF IdsAreNew, Transitions
<1>3. PublishedIsOver /\ EvictorsRemove
  BY ParameterAssumption DEF PublishedIsOver, EvictorsRemove, Active, WaitPC
<1>4. StoppedOrTold /\ WaitersSeeRemoval
  BY DEF StoppedOrTold, WaitersSeeRemoval, AwaitsRemoval, WaitPC, RemovePC
<1> QED
  BY <1>1, <1>2, <1>3, <1>4 DEF RemovalInv

\* Every variable of the store and of its handlers keeps its type, under every
\* fault.
THEOREM TypeCorrectness == Spec => []TypeOK
<1>1. Init => TypeOK /\ OpAtPC
  BY TypeInit
<1>2. TypeOK /\ OpAtPC /\ [Next]_vars => TypeOK' /\ OpAtPC'
  BY TypeStep, OpStep
<1> QED
  BY <1>1, <1>2, PTL DEF Spec

\* What ties the lock, the transition key and the record to the command each
\* handler runs next holds throughout, for any number of requests and any fault
\* other than a key that expires under its live holder. (lockTimeout, a minute,
\* and transitionKeyTTL, 70 seconds, are meant to exceed what a holder may take;
\* the handlers of the evictor and the callback of a snapshot have no deadline,
\* so this is an assumption on them.)
THEOREM TransitionInvariance ==
  ASSUME "slowHolder" \notin Faults, "slowTransition" \notin Faults
  PROVE  Spec => []TransitionInv
<1>1. Init => TransitionInv
  BY InvInit
<1>2. TypeOK /\ TransitionInv /\ [Next]_vars => TransitionInv'
  BY InvStep
<1> QED
  BY <1>1, <1>2, TypeCorrectness, PTL DEF Spec

\* StartRemoving lets at most one transition of a sandbox run at a time.
THEOREM MutualExclusion ==
  ASSUME "slowHolder" \notin Faults, "slowTransition" \notin Faults
  PROVE  Spec => []OneTransition
<1>1. TypeOK /\ TransitionInv => OneTransition
  BY OneOwner DEF TransitionInv
<1> QED
  BY <1>1, TypeCorrectness, TransitionInvariance, PTL

\* RemoveSandbox and the snapshot callback find the record as their transition
\* left it: same execution, same state, until they remove or restore it.
THEOREM OwnershipOfRecord ==
  ASSUME "slowHolder" \notin Faults, "slowTransition" \notin Faults
  PROVE  Spec => []OwnerKeepsRecord
<1>1. TransitionInv => OwnerKeepsRecord
  BY DEF TransitionInv
<1> QED
  BY <1>1, TransitionInvariance, PTL

\* A snapshot that was taken is back in the running state before its callback
\* deletes the transition key.
THEOREM SnapshotIsRestored ==
  ASSUME "slowHolder" \notin Faults, "slowTransition" \notin Faults
  PROVE  Spec => []RestoredBeforeRelease
<1>1. TransitionInv => RestoredBeforeRelease
  BY DEF TransitionInv
<1> QED
  BY <1>1, TransitionInvariance, PTL

\* The part of the invariant that rests on the lock alone.
LEMMA SerialInvariance ==
  ASSUME "slowHolder" \notin Faults
  PROVE  Spec => [](HoldersHoldLock /\ OpAtPC /\ NoLostUpdate /\ EvictionsDue)
<1> DEFINE Inv == TypeOK /\ HoldersHoldLock /\ OpAtPC /\ NoLostUpdate /\ EvictionsDue
<1>1. Init => Inv
  <2> SUFFICES ASSUME Init PROVE Inv
    OBVIOUS
  <2>1. TypeOK /\ OpAtPC
    BY TypeInit
  <2>2. HoldersHoldLock /\ NoLostUpdate
    BY InvInit DEF TransitionInv
  <2>3. EvictionsDue
    BY DEF Init, EvictionsDue
  <2> QED
    BY <2>1, <2>2, <2>3
<1>2. Inv /\ [Next]_vars => Inv'
  BY TypeStep, OpStep, LockStep, SerialStep
<1> QED
  BY <1>1, <1>2, PTL DEF Spec

\* What StartRemoving, Update and restoreToRunning write back is computed from
\* the record as it is: no update is lost. A transition key that expires under its
\* owner does no harm here.
THEOREM UpdatesAreSerial ==
  ASSUME "slowHolder" \notin Faults
  PROVE  Spec => []NoLostUpdate
  BY SerialInvariance, PTL

\* A record that says running has a VM that nobody was told to stop.
THEOREM RunningIsAlive ==
  ASSUME "slowHolder" \notin Faults, "slowTransition" \notin Faults
  PROVE  Spec => []RunningHasVM
<1>1. TransitionInv => RunningHasVM
  BY DEF TransitionInv
<1> QED
  BY <1>1, TransitionInvariance, PTL

\* The start script of an eviction runs only on a record that has expired, also
\* when a KeepAliveFor ran between the scan of the evictor and the script.
THEOREM EvictionIsDue ==
  ASSUME "slowHolder" \notin Faults
  PROVE  Spec => []EvictsOnlyExpired
<1>1. TypeOK /\ OpAtPC /\ NoLostUpdate /\ EvictionsDue => EvictsOnlyExpired
  BY DEF TypeOK, OpAtPC, NoLostUpdate, EvictionsDue, EvictsOnlyExpired, IsExpired
<1> QED
  BY <1>1, TypeCorrectness, SerialInvariance, PTL

\* No sequence of KeepAliveFor calls and transitions moves the end time past the
\* maximum instance length, under every fault: what is computed from an old record
\* that a holder without its lock still has in hand respects the limit as well.
THEOREM LengthIsBounded == Spec => []WithinMaxLength
<1> DEFINE Inv == TypeOK /\ OpAtPC /\ ClockReadings /\ CopiesWithin /\ WithinMaxLength
<1>1. Init => Inv
  BY TypeInit, InvInit DEF TransitionInv
<1>2. Inv /\ [Next]_vars => Inv'
  BY TypeStep, OpStep, LengthStep
<1> QED
  BY <1>1, <1>2, PTL DEF Spec

\* What requests that find a removal in progress rely on, while owners complete their
\* transitions: a fault of the node or a lost message may happen, a Redis error, a
\* crash, a cancelled owner or a key that expires may not.
THEOREM RemovalInvariance ==
  ASSUME NoLoss
  PROVE  Spec => []RemovalInv
<1>1. "slowHolder" \notin Faults /\ "slowTransition" \notin Faults
  BY DEF NoLoss
<1>2. ASSUME TypeOK, TransitionInv, RemovalInv, [Next]_vars PROVE RemovalInv'
  <2>1. OneTransition
    BY <1>2, OneOwner DEF TransitionInv
  <2> QED
    BY <1>2, <2>1, KeyOwnedStep, RemovedStep, EvictorsStep, PublishedStep, IdsStep, StoppedStep,
       ToldStep, WaitersStep DEF RemovalInv, TransitionInv
<1> QED
  BY <1>1, <1>2, RemovalInit, TypeCorrectness, TransitionInvariance, PTL DEF Spec

\* A kill or pause that joins another's transition, or finds the record in its target
\* state, and is told that the removal was done finds the VM it read stopped: the
\* result of the transition is read only when it is over, and the one of a removal
\* that failed is an error until then.
THEOREM RemovalIsSeen ==
  ASSUME NoLoss
  PROVE  Spec => []AlreadyDoneIsDone
<1>1. RemovalInv => AlreadyDoneIsDone
  BY DEF RemovalInv, ToldIsDone, AlreadyDoneIsDone
<1> QED
  BY <1>1, RemovalInvariance, PTL

\* The handlers together implement the store's contract SandboxLifecycle.
THEOREM LifecycleRefinement ==
  ASSUME "slowHolder" \notin Faults, "slowTransition" \notin Faults
  PROVE  Spec => ImplementsLifecycle
<1>1. Init => Lifecycle!Init
  BY DEF Init, Lifecycle!Init, RecordState, Claimed, ClaimPC, RemovePC, RestorePC
<1>2. TypeOK /\ TransitionInv /\ [Next]_vars => [Lifecycle!Next]_(Lifecycle!lifecycle)
  BY LifecycleStep
<1> QED
  BY <1>1, <1>2, TypeCorrectness, TransitionInvariance, PTL
  DEF Spec, ImplementsLifecycle, Lifecycle!Spec

=============================================================================
