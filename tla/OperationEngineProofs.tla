------------------------ MODULE OperationEngineProofs ------------------------
(***************************************************************************)
(* The safety of OperationEngine for every number of steps, every set of   *)
(* idempotent effects and every number of faults.                          *)
(***************************************************************************)
EXTENDS OperationEngine, TLAPS

\* Where a call stands in the loop over the steps
LoopPCs == {"next", "mark", "inspect", "apply", "check", "mark_applied", "mark_failed",
            "reinspect", "remark_applied", "reopen", "retry", "to_verifying"}
StepPCs == LoopPCs \ {"next", "to_verifying"}
RollbackStepPCs == {"rb_inspect", "rb_call", "rb_check", "rb_done"}
RollbackPCs == RollbackStepPCs \cup {"rollback", "finish", "rb_failed"}
ForwardStates == {"pending", "executing", "applied", "failed"}

\* What the journal alone says about the host, whatever the running call knows.
JournalInv ==
  /\ \A i \in Steps : step[i] = "pending" => i \notin Touched
  /\ \A i \in Steps : step[i] = "rolled_back" => ext[i] = "original"
  /\ op \in {"pending", "validated", "snapshotted", "executing", "verifying"} =>
       \A i \in Steps : /\ step[i] \in ForwardStates
                        /\ step[i] = "applied" => ext[i] = "proposed"
  /\ op \in {"verifying", "committed"} => \A i \in Steps : ext[i] = "proposed"
  /\ op = "rolled_back" => \A i \in Touched : ext[i] = "original"
  /\ IsTerminal(op) => pc = "idle"

\* What the Record says about the host while a call runs.
RecordInv ==
  pc # "idle" => \A i \in Steps : /\ mstep[i] = "pending" => i \notin Touched
                                  /\ mstep[i] = "rolled_back" => ext[i] = "original"

\* Journal, Record and position of a call that is still going forward.
ForwardInv ==
  /\ pc \in {"abandon", "begin"} => op = "snapshotted" /\ mop = op /\ step = mstep
  /\ pc = "abandon" => \A i \in Steps : mstep[i] = "pending"
  /\ pc = "begin" => idx = 1
  /\ pc \in LoopPCs => /\ op = "executing" /\ mop = op /\ step = mstep /\ idx > 0
                       /\ \A j \in Steps : j < idx => mstep[j] = "applied"
  /\ pc \in StepPCs => idx \in Steps
  /\ pc = "mark" => mstep[idx] = "pending"
  /\ pc \in {"mark", "inspect", "apply"} => idx \notin called
  /\ pc \in {"inspect", "apply", "check", "mark_applied", "mark_failed", "retry"} =>
       mstep[idx] = "executing"
  /\ pc \in {"reinspect", "remark_applied", "reopen"} => mstep[idx] \in {"executing", "failed"}
  /\ pc \in {"mark_applied", "remark_applied"} => ext[idx] = "proposed"
  /\ pc \in {"reopen", "retry"} => idx \in Idempotent
  /\ pc = "to_verifying" => idx = N + 1
  /\ pc \in {"verify", "to_committed"} => op = "verifying" /\ mop = op /\ step = mstep

\* ... and of a call that undoes the operation.  A lost acknowledgement may have
\* left the Record behind the journal when the rollback starts.
BackwardInv ==
  /\ pc = "fail" => /\ mop \in {"executing", "verifying"}
                    /\ \A i \in Steps : mstep[i] \in ForwardStates
  /\ pc \in RollbackPCs => op = "rolling_back" /\ mop = op
  /\ pc = "rollback" => /\ idx \in 0..N
                        /\ \A j \in Steps : j <= idx /\ mstep[j] = "rolling_back"
                                              => step[j] = "rolling_back"
  /\ pc \in RollbackStepPCs => /\ idx \in Steps
                               /\ mstep[idx] = "rolling_back" /\ step[idx] = "rolling_back"
                               /\ \A j \in Steps : j < idx /\ mstep[j] = "rolling_back"
                                              => step[j] = "rolling_back"
  /\ pc \in RollbackStepPCs \cup {"rollback"} =>
       \A j \in Touched : j > idx => ext[j] = "original"
  /\ pc = "rb_done" => ext[idx] = "original"
  /\ pc = "finish" => \A j \in Touched : ext[j] = "original"

IInv == /\ TypeOK
        /\ JournalInv
        /\ RecordInv
        /\ ForwardInv
        /\ BackwardInv
        /\ NonIdempotentOnce

-----------------------------------------------------------------------------
\* The invariant is inductive: one step per action of Next.
LEMMA Inductive == IInv /\ [Next]_vars => IInv'
<1> SUFFICES ASSUME IInv, [Next]_vars PROVE IInv'
  OBVIOUS
<1> USE NAssumption, IdempotentAssumption, MaxFaultsAssumption
<1> USE DEF IInv, TypeOK, JournalInv, RecordInv, ForwardInv, BackwardInv, NonIdempotentOnce,
            Steps, OpStates, StepStates, Fingerprints, PCs, LoopPCs, StepPCs, RollbackPCs,
            RollbackStepPCs, ForwardStates, Touched, IsTerminal, Fault, NoFault, Goto, FailTo,
            journal, record, history
<1>1. CASE Execute
  <2>1. TypeOK'
    <3>1. idx' = 1 /\ recovery' = FALSE /\ pc' = "begin"
      BY <1>1 DEF Execute
    <3>2. op' = op /\ mop' = op /\ step' = step /\ mstep' = step /\ UNCHANGED <<ext, called, again, undone, faults>>
      BY <1>1 DEF Execute
    <3>3. pc' \in PCs /\ idx' \in 0..(N + 1)
      BY <3>1
    <3>4. recovery' \in BOOLEAN
      BY <3>1, Zenon
    <3> QED
      BY <3>2, <3>3, <3>4
  <2>2. JournalInv'
    BY <1>1 DEF Execute
  <2>3. RecordInv'
    BY <1>1 DEF Execute
  <2>4. ForwardInv'
    BY <1>1 DEF Execute
  <2>5. BackwardInv'
    BY <1>1 DEF Execute
  <2>6. NonIdempotentOnce'
    BY <1>1 DEF Execute
  <2> QED
    BY <2>1, <2>2, <2>3, <2>4, <2>5, <2>6
<1>2. CASE Recover
  BY <1>2 DEF Recover, RecoverEntry
<1>3. CASE Crash
  BY <1>3 DEF Crash
<1>4. CASE Expire
  BY <1>4 DEF Expire, OperationTransition, ValidOperation
<1>5. CASE Reject
  BY <1>5 DEF Reject, OperationTransition, ValidOperation
<1>6. CASE Abandon
  BY <1>6 DEF Abandon, OperationTransition, ValidOperation
<1>7. CASE Begin
  <2>1. TypeOK'
    BY <1>7 DEF Begin, OperationTransition, ValidOperation
  <2>2. JournalInv'
    BY <1>7 DEF Begin, OperationTransition, ValidOperation
  <2>3. RecordInv'
    BY <1>7 DEF Begin, OperationTransition, ValidOperation
  <2>4. ForwardInv'
    BY <1>7 DEF Begin, OperationTransition, ValidOperation
  <2>5. BackwardInv'
    BY <1>7 DEF Begin, OperationTransition, ValidOperation
  <2>6. NonIdempotentOnce'
    BY <1>7 DEF Begin, OperationTransition, ValidOperation
  <2> QED
    BY <2>1, <2>2, <2>3, <2>4, <2>5, <2>6
<1>8. CASE NextStep
  BY <1>8 DEF NextStep, StepEntry
<1>9. CASE Mark
  <2>1. TypeOK'
    BY <1>9 DEF Mark, StepTransition, ValidStep
  <2>2. JournalInv'
    BY <1>9 DEF Mark, StepTransition, ValidStep
  <2>3. RecordInv'
    BY <1>9 DEF Mark, StepTransition, ValidStep
  <2>4. ForwardInv'
    BY <1>9 DEF Mark, StepTransition, ValidStep
  <2>5. BackwardInv'
    BY <1>9 DEF Mark, StepTransition, ValidStep
  <2>6. NonIdempotentOnce'
    BY <1>9 DEF Mark, StepTransition, ValidStep
  <2> QED
    BY <2>1, <2>2, <2>3, <2>4, <2>5, <2>6
<1>10. CASE Inspect
  BY <1>10 DEF Inspect
<1>11. CASE ApplyEffect
  <2>1. PICK f \in Fingerprints : ext' = [ext EXCEPT ![idx] = f]
    BY <1>11 DEF ApplyEffect, Apply
  <2>2. /\ pc' \in {"check", "mark_failed"} /\ called' = called \cup {idx}
        /\ again' = IF idx \in called THEN again \cup {idx} ELSE again
        /\ UNCHANGED <<op, step, mop, mstep, idx, recovery, undone>>
    BY <1>11 DEF ApplyEffect, Apply
  <2>3. faults' \in 0..MaxFaults
    BY <1>11 DEF ApplyEffect, Apply
  <2>4. /\ pc = "apply" /\ op = "executing" /\ mop = op /\ step = mstep /\ idx \in Steps
        /\ mstep[idx] = "executing" /\ idx \notin called
    BY <1>11 DEF ApplyEffect
  <2>5. TypeOK'
    BY <2>1, <2>2, <2>3, <2>4
  <2>6. JournalInv'
    BY <2>1, <2>2, <2>4
  <2>7. RecordInv'
    BY <2>1, <2>2, <2>4
  <2>8. ForwardInv'
    BY <2>1, <2>2, <2>4
  <2>9. BackwardInv' /\ NonIdempotentOnce'
    BY <2>1, <2>2, <2>4
  <2> QED
    BY <2>5, <2>6, <2>7, <2>8, <2>9
<1>12. CASE Check
  BY <1>12 DEF Check
<1>13. CASE MarkApplied
  <2>1. TypeOK'
    BY <1>13 DEF MarkApplied, StepTransition, ValidStep
  <2>2. JournalInv'
    BY <1>13 DEF MarkApplied, StepTransition, ValidStep
  <2>3. RecordInv'
    BY <1>13 DEF MarkApplied, StepTransition, ValidStep
  <2>4. ForwardInv'
    BY <1>13 DEF MarkApplied, StepTransition, ValidStep
  <2>5. BackwardInv'
    BY <1>13 DEF MarkApplied, StepTransition, ValidStep
  <2>6. NonIdempotentOnce'
    BY <1>13 DEF MarkApplied, StepTransition, ValidStep
  <2> QED
    BY <2>1, <2>2, <2>3, <2>4, <2>5, <2>6
<1>14. CASE MarkFailed
  <2>1. TypeOK'
    BY <1>14 DEF MarkFailed, StepTransition, ValidStep
  <2>2. JournalInv'
    BY <1>14 DEF MarkFailed, StepTransition, ValidStep
  <2>3. RecordInv'
    BY <1>14 DEF MarkFailed, StepTransition, ValidStep
  <2>4. ForwardInv'
    BY <1>14 DEF MarkFailed, StepTransition, ValidStep
  <2>5. BackwardInv'
    BY <1>14 DEF MarkFailed, StepTransition, ValidStep
  <2>6. NonIdempotentOnce'
    BY <1>14 DEF MarkFailed, StepTransition, ValidStep
  <2> QED
    BY <2>1, <2>2, <2>3, <2>4, <2>5, <2>6
<1>15. CASE Reinspect
  BY <1>15 DEF Reinspect
<1>16. CASE RemarkApplied
  <2>1. TypeOK'
    BY <1>16 DEF RemarkApplied, StepTransition, ValidStep
  <2>2. JournalInv'
    BY <1>16 DEF RemarkApplied, StepTransition, ValidStep
  <2>3. RecordInv'
    BY <1>16 DEF RemarkApplied, StepTransition, ValidStep
  <2>4. ForwardInv'
    BY <1>16 DEF RemarkApplied, StepTransition, ValidStep
  <2>5. BackwardInv'
    BY <1>16 DEF RemarkApplied, StepTransition, ValidStep
  <2>6. NonIdempotentOnce'
    BY <1>16 DEF RemarkApplied, StepTransition, ValidStep
  <2> QED
    BY <2>1, <2>2, <2>3, <2>4, <2>5, <2>6
<1>17. CASE Reopen
  <2>1. TypeOK'
    BY <1>17 DEF Reopen, StepTransition, ValidStep
  <2>2. JournalInv'
    BY <1>17 DEF Reopen, StepTransition, ValidStep
  <2>3. RecordInv'
    BY <1>17 DEF Reopen, StepTransition, ValidStep
  <2>4. ForwardInv'
    BY <1>17 DEF Reopen, StepTransition, ValidStep
  <2>5. BackwardInv'
    BY <1>17 DEF Reopen, StepTransition, ValidStep
  <2>6. NonIdempotentOnce'
    BY <1>17 DEF Reopen, StepTransition, ValidStep
  <2> QED
    BY <2>1, <2>2, <2>3, <2>4, <2>5, <2>6
<1>18. CASE Retry
  <2>1. PICK f \in Fingerprints : ext' = [ext EXCEPT ![idx] = f]
    BY <1>18 DEF Retry, Apply
  <2>2. /\ pc' \in {"check", "fail"} /\ called' = called \cup {idx}
        /\ again' = IF idx \in called THEN again \cup {idx} ELSE again
        /\ UNCHANGED <<op, step, mop, mstep, idx, recovery, undone>>
    BY <1>18 DEF Retry, Apply
  <2>3. faults' \in 0..MaxFaults
    BY <1>18 DEF Retry, Apply
  <2>4. /\ pc = "retry" /\ op = "executing" /\ mop = op /\ step = mstep /\ idx \in Steps
        /\ mstep[idx] = "executing" /\ idx \in Idempotent
    BY <1>18 DEF Retry
  <2>5. TypeOK'
    BY <2>1, <2>2, <2>3, <2>4
  <2>6. JournalInv'
    BY <2>1, <2>2, <2>4
  <2>7. RecordInv'
    BY <2>1, <2>2, <2>4
  <2>8. ForwardInv'
    BY <2>1, <2>2, <2>4
  <2>9. BackwardInv' /\ NonIdempotentOnce'
    BY <2>1, <2>2, <2>4
  <2> QED
    BY <2>5, <2>6, <2>7, <2>8, <2>9
<1>19. CASE ToVerifying
  BY <1>19 DEF ToVerifying, OperationTransition, ValidOperation
<1>20. CASE Verify
  BY <1>20 DEF Verify
<1>21. CASE ToCommitted
  BY <1>21 DEF ToCommitted, OperationTransition, ValidOperation
<1>22. CASE Fail
  <2>1. TypeOK'
    BY <1>22 DEF Fail, OperationTransition, ValidOperation
  <2>2. JournalInv'
    BY <1>22 DEF Fail, OperationTransition, ValidOperation
  <2>3. RecordInv'
    BY <1>22 DEF Fail, OperationTransition, ValidOperation
  <2>4. ForwardInv'
    BY <1>22 DEF Fail, OperationTransition, ValidOperation
  <2>5. BackwardInv'
    BY <1>22 DEF Fail, OperationTransition, ValidOperation
  <2>6. NonIdempotentOnce'
    BY <1>22 DEF Fail, OperationTransition, ValidOperation
  <2> QED
    BY <2>1, <2>2, <2>3, <2>4, <2>5, <2>6
<1>23. CASE RollbackNext
  <2>1. TypeOK'
    BY <1>23 DEF RollbackNext, StepTransition, ValidStep, RollbackNeeded
  <2>2. JournalInv'
    BY <1>23 DEF RollbackNext, StepTransition, ValidStep, RollbackNeeded
  <2>3. RecordInv'
    BY <1>23 DEF RollbackNext, StepTransition, ValidStep, RollbackNeeded
  <2>4. ForwardInv'
    BY <1>23 DEF RollbackNext, StepTransition, ValidStep, RollbackNeeded
  <2>5. BackwardInv'
    BY <1>23 DEF RollbackNext, StepTransition, ValidStep, RollbackNeeded
  <2>6. NonIdempotentOnce'
    BY <1>23 DEF RollbackNext, StepTransition, ValidStep, RollbackNeeded
  <2> QED
    BY <2>1, <2>2, <2>3, <2>4, <2>5, <2>6
<1>24. CASE RollbackInspect
  <2>1. TypeOK'
    BY <1>24 DEF RollbackInspect
  <2>2. JournalInv'
    BY <1>24 DEF RollbackInspect
  <2>3. RecordInv'
    BY <1>24 DEF RollbackInspect
  <2>4. ForwardInv'
    BY <1>24 DEF RollbackInspect
  <2>5. BackwardInv'
    BY <1>24 DEF RollbackInspect
  <2>6. NonIdempotentOnce'
    BY <1>24 DEF RollbackInspect
  <2> QED
    BY <2>1, <2>2, <2>3, <2>4, <2>5, <2>6
<1>25. CASE RollbackEffect
  <2>1. PICK f \in Fingerprints : ext' = [ext EXCEPT ![idx] = f]
    BY <1>25 DEF RollbackEffect
  <2>2. /\ pc' \in {"rb_check", "rb_failed"} /\ undone' = undone \cup {idx}
        /\ UNCHANGED <<op, step, mop, mstep, idx, recovery, called, again>>
    BY <1>25 DEF RollbackEffect
  <2>3. faults' \in 0..MaxFaults
    BY <1>25 DEF RollbackEffect
  <2>4. pc = "rb_call" /\ op = "rolling_back" /\ step[idx] = "rolling_back"
        /\ mstep[idx] = "rolling_back" /\ idx \in Steps
    BY <1>25 DEF RollbackEffect
  <2>5. TypeOK'
    BY <2>1, <2>2, <2>3, <2>4
  <2>6. JournalInv' /\ RecordInv'
    BY <2>1, <2>2, <2>4
  <2>7. ForwardInv' /\ NonIdempotentOnce'
    BY <2>2
  <2>8. BackwardInv'
    BY <2>1, <2>2, <2>4
  <2> QED
    BY <2>5, <2>6, <2>7, <2>8
<1>26. CASE RollbackCheck
  <2>1. TypeOK'
    BY <1>26 DEF RollbackCheck
  <2>2. JournalInv'
    BY <1>26 DEF RollbackCheck
  <2>3. RecordInv'
    BY <1>26 DEF RollbackCheck
  <2>4. ForwardInv'
    BY <1>26 DEF RollbackCheck
  <2>5. BackwardInv'
    BY <1>26 DEF RollbackCheck
  <2>6. NonIdempotentOnce'
    BY <1>26 DEF RollbackCheck
  <2> QED
    BY <2>1, <2>2, <2>3, <2>4, <2>5, <2>6
<1>27. CASE RollbackDone
  <2>1. TypeOK'
    BY <1>27 DEF RollbackDone, StepTransition, ValidStep
  <2>2. JournalInv'
    BY <1>27 DEF RollbackDone, StepTransition, ValidStep
  <2>3. RecordInv'
    BY <1>27 DEF RollbackDone, StepTransition, ValidStep
  <2>4. ForwardInv'
    BY <1>27 DEF RollbackDone, StepTransition, ValidStep
  <2>5. BackwardInv'
    BY <1>27 DEF RollbackDone, StepTransition, ValidStep
  <2>6. NonIdempotentOnce'
    BY <1>27 DEF RollbackDone, StepTransition, ValidStep
  <2> QED
    BY <2>1, <2>2, <2>3, <2>4, <2>5, <2>6
<1>28. CASE FinishRolledBack
  BY <1>28 DEF FinishRolledBack, OperationTransition, ValidOperation
<1>29. CASE RollbackFailed
  BY <1>29 DEF RollbackFailed, OperationTransition, ValidOperation
<1>30. CASE UNCHANGED vars
  BY <1>30 DEF vars
<1> QED
  BY <1>1, <1>2, <1>3, <1>4, <1>5, <1>6, <1>7, <1>8, <1>9, <1>10, <1>11, <1>12, <1>13, <1>14, <1>15, <1>16, <1>17, <1>18, <1>19, <1>20, <1>21, <1>22, <1>23, <1>24, <1>25, <1>26, <1>27, <1>28, <1>29, <1>30 DEF Next, Engine

\* The properties of every run of the engine, whatever the plan and however
\* often it fails, loses an acknowledgement or is killed.
THEOREM Invariance == Spec => []IInv
<1>1. Init => IInv
  <2> SUFFICES ASSUME Init PROVE IInv
    OBVIOUS
  <2>1. recovery \in BOOLEAN
    BY Zenon DEF Init
  <2>2. TypeOK
    BY <2>1, NAssumption, IdempotentAssumption, MaxFaultsAssumption
    DEF Init, TypeOK, Steps, OpStates, StepStates, Fingerprints, PCs
  <2>3. JournalInv /\ RecordInv
    BY DEF Init, JournalInv, RecordInv, ForwardStates, Touched, IsTerminal
  <2>4. ForwardInv /\ BackwardInv /\ NonIdempotentOnce
    BY DEF Init, ForwardInv, BackwardInv, NonIdempotentOnce, LoopPCs, StepPCs, RollbackPCs,
           RollbackStepPCs
  <2> QED
    BY <2>2, <2>3, <2>4 DEF IInv
<1> QED
  BY <1>1, Inductive, PTL DEF Spec

\* The variables keep their types (Record, StepRecord, the journal's columns).
THEOREM TypeCorrect == Spec => []TypeOK
<1>1. IInv => TypeOK
  BY DEF IInv
<1> QED
  BY <1>1, Invariance, PTL

\* A rolled back operation has restored every effect it touched (rollback).
THEOREM RollbackIsComplete == Spec => []RolledBackRestores
<1>1. IInv => RolledBackRestores
  BY DEF IInv, JournalInv, RolledBackRestores
<1> QED
  BY <1>1, Invariance, PTL

\* A committed operation shows every proposed effect (Execute, recoverExecuting).
THEOREM CommitIsComplete == Spec => []CommittedMeansProposed
<1>1. IInv => CommittedMeansProposed
  BY DEF IInv, JournalInv, CommittedMeansProposed
<1> QED
  BY <1>1, Invariance, PTL

\* The journal never misses an effect (applyStep).
THEOREM WriteAhead == Spec => []JournalledBeforeEffect
<1>1. IInv => JournalledBeforeEffect
  BY DEF IInv, TypeOK, JournalInv, JournalledBeforeEffect, Touched
<1> QED
  BY <1>1, Invariance, PTL

\* A non-idempotent effect is applied once (recoverExecuting, applyStep).
THEOREM AtMostOnce == Spec => []NonIdempotentOnce
<1>1. IInv => NonIdempotentOnce
  BY DEF IInv
<1> QED
  BY <1>1, Invariance, PTL

\* Effects are undone last first (rollback).
THEOREM ReverseOrder == Spec => []RollbackInReverse
<1>1. IInv => RollbackInReverse
  BY DEF IInv, BackwardInv, RollbackStepPCs, RollbackInReverse
<1> QED
  BY <1>1, Invariance, PTL

-----------------------------------------------------------------------------
(* The transaction that the steps add up to. *)

\* Before the engine runs for the first time no step has left the pending state.
Unbegun == op \in {"pending", "validated"} => \A i \in Steps : step[i] = "pending"

\* A change of the operation's state is one of validOperationTransition, and nothing else.
LEMMA OnlyTransitions ==
  ASSUME IInv, [Next]_vars
  PROVE  /\ op' = op \/ (ValidOperation(op, op') /\ step' = step)
         /\ op' # op => UNCHANGED <<ext, called, undone>>
<1>1. ASSUME NEW to, NEW ok, NEW err, OperationTransition(to, ok, err)
      PROVE  op' = op \/ (ValidOperation(op, op') /\ step' = step)
  BY <1>1 DEF OperationTransition, Fault, NoFault
<1>2. CASE Expire \/ Reject \/ Abandon \/ Begin
  BY <1>1, <1>2 DEF Expire, Reject, Abandon, Begin, history
<1>3. CASE ToVerifying \/ ToCommitted \/ Fail \/ FinishRolledBack \/ RollbackFailed
  BY <1>1, <1>3 DEF ToVerifying, ToCommitted, Fail, FinishRolledBack, RollbackFailed, history
<1>4. CASE Execute \/ Recover \/ Crash
  BY <1>4 DEF Execute, Recover, Crash, journal
<1>5. CASE NextStep \/ Inspect \/ ApplyEffect \/ Check \/ Reinspect \/ Retry \/ Verify
  BY <1>5 DEF NextStep, Inspect, ApplyEffect, Check, Reinspect, Retry, Verify, Apply, journal
<1>6. CASE RollbackInspect \/ RollbackEffect \/ RollbackCheck
  BY <1>6 DEF RollbackInspect, RollbackEffect, RollbackCheck, journal
<1>7. CASE Mark \/ MarkApplied \/ MarkFailed \/ RemarkApplied \/ Reopen \/ RollbackDone
  BY <1>7 DEF Mark, MarkApplied, MarkFailed, RemarkApplied, Reopen, RollbackDone, StepTransition
<1>8. CASE RollbackNext
  BY <1>8 DEF RollbackNext
<1>9. CASE UNCHANGED vars
  BY <1>9 DEF vars
<1> QED BY <1>2, <1>3, <1>4, <1>5, <1>6, <1>7, <1>8, <1>9 DEF Next, Engine

\* A step of the journal is written, and an effect called, only by an operation that
\* is executing or rolling back.
LEMMA OnlyRunning ==
  ASSUME IInv, [Next]_vars
  PROVE  /\ op \notin {"executing", "verifying", "rolling_back"} => step' = step
         /\ \/ UNCHANGED <<ext, called, undone>>
            \/ /\ op \in {"executing", "rolling_back"} /\ op' = op /\ idx \in Steps
               /\ \E f \in Fingerprints : ext' = [ext EXCEPT ![idx] = f]
               /\ called' \cup undone' = called \cup undone \cup {idx}
<1> USE DEF IInv, ForwardInv, BackwardInv, LoopPCs, StepPCs, RollbackPCs, RollbackStepPCs
<1>1. CASE ApplyEffect \/ Retry
  <2>1. pc \in {"apply", "retry"} /\ Apply("check", IF pc = "apply" THEN "mark_failed" ELSE "fail")
    BY <1>1 DEF ApplyEffect, Retry
  <2>2. op = "executing" /\ idx \in Steps
    BY <2>1
  <2>3. UNCHANGED <<op, step, undone>> /\ called' = called \cup {idx}
    BY <2>1 DEF Apply, journal
  <2>4. \E f \in Fingerprints : ext' = [ext EXCEPT ![idx] = f]
    BY <2>1 DEF Apply, Fingerprints
  <2> QED BY <2>2, <2>3, <2>4
<1>2. CASE RollbackEffect
  <2>1. op = "rolling_back" /\ idx \in Steps
    BY <1>2 DEF RollbackEffect
  <2>2. UNCHANGED <<op, step, called>> /\ undone' = undone \cup {idx}
    BY <1>2 DEF RollbackEffect, journal
  <2>3. \E f \in Fingerprints : ext' = [ext EXCEPT ![idx] = f]
    BY <1>2 DEF RollbackEffect, Fingerprints
  <2> QED BY <2>1, <2>2, <2>3
<1>3. CASE Expire \/ Reject \/ Abandon \/ Begin \/ ToVerifying \/ ToCommitted
  BY <1>3 DEF Expire, Reject, Abandon, Begin, ToVerifying, ToCommitted, OperationTransition, history
<1>4. CASE Fail \/ FinishRolledBack \/ RollbackFailed
  BY <1>4 DEF Fail, FinishRolledBack, RollbackFailed, OperationTransition, history
<1>5. CASE Execute \/ Recover \/ Crash
  BY <1>5 DEF Execute, Recover, Crash, journal, history
<1>6. CASE NextStep \/ Inspect \/ Check \/ Reinspect \/ Verify \/ RollbackInspect \/ RollbackCheck
  BY <1>6 DEF NextStep, Inspect, Check, Reinspect, Verify, RollbackInspect, RollbackCheck, journal, history
<1>7. CASE Mark \/ MarkApplied \/ MarkFailed \/ RemarkApplied \/ Reopen
  BY <1>7 DEF Mark, MarkApplied, MarkFailed, RemarkApplied, Reopen, history
<1>8. CASE RollbackDone \/ RollbackNext
  BY <1>8 DEF RollbackDone, RollbackNext, history
<1>9. CASE UNCHANGED vars
  BY <1>9 DEF vars
<1> QED BY <1>1, <1>2, <1>3, <1>4, <1>5, <1>6, <1>7, <1>8, <1>9 DEF Next, Engine

\* So Unbegun is inductive.
LEMMA UnbegunStep ==
  ASSUME IInv, Unbegun, [Next]_vars
  PROVE  Unbegun'
<1>1. op' = op \/ (ValidOperation(op, op') /\ step' = step)
  BY OnlyTransitions
<1>2. op \notin {"executing", "verifying", "rolling_back"} => step' = step
  BY OnlyRunning
<1> QED BY <1>1, <1>2 DEF Unbegun, ValidOperation

\* Nothing has been touched when the engine is created.
LEMMA TransactionInit == Init => Promise!Init
BY DEF Init, Promise!Init, Outcome, Touched

\* A change of the operation's state is a decision of the transaction, or none.
LEMMA TransactionDecides ==
  ASSUME IInv, Unbegun, [Next]_vars, op' # op
  PROVE  Promise!Next \/ UNCHANGED Promise!vars
<1>1. ValidOperation(op, op') /\ UNCHANGED <<ext, called, undone>> /\ step' = step
  BY OnlyTransitions
<1>2. UNCHANGED <<ext, Touched>>
  BY <1>1 DEF Touched
<1>3. CASE op' \in {"rejected", "expired"}
  <2>1. op \in {"pending", "validated"}
    BY <1>1, <1>3 DEF ValidOperation
  <2>2. Touched = {}
    BY <2>1 DEF Unbegun, IInv, TypeOK, JournalInv, Touched
  <2>3. Promise!Refuse
    BY <1>2, <1>3, <2>1, <2>2 DEF Promise!Refuse, Outcome
  <2> QED BY <2>3 DEF Promise!Next
<1>4. CASE op' = "committed"
  <2>1. op = "verifying"
    BY <1>1, <1>4 DEF ValidOperation
  <2>2. \A i \in Steps : ext[i] = "proposed"
    BY <2>1 DEF IInv, JournalInv
  <2>3. Promise!Commit
    BY <1>2, <1>4, <2>1, <2>2 DEF Promise!Commit, Outcome
  <2> QED BY <2>3 DEF Promise!Next
<1>5. CASE op' = "rolled_back"
  <2>1. op = "rolling_back"
    BY <1>1, <1>5 DEF ValidOperation
  <2>2. IInv'
    BY Inductive
  <2>3. (\A i \in Touched : ext[i] = "original")'
    BY <1>5, <2>2 DEF IInv, JournalInv
  <2>4. \A i \in Touched : ext[i] = "original"
    BY <1>2, <2>3
  <2>5. Promise!RollBack
    BY <1>2, <1>5, <2>1, <2>4 DEF Promise!RollBack, Outcome
  <2> QED BY <2>5 DEF Promise!Next
<1>6. CASE op' = "rollback_failed"
  <2>1. op = "rolling_back"
    BY <1>1, <1>6 DEF ValidOperation
  <2>2. Promise!GiveUp
    BY <1>2, <1>6, <2>1 DEF Promise!GiveUp, Outcome
  <2> QED BY <2>2 DEF Promise!Next
<1>7. CASE op' = "rolling_back"
  <2>1. op \in {"snapshotted", "executing", "verifying"}
    BY <1>1, <1>7 DEF ValidOperation
  <2>2. Promise!Turn
    BY <1>2, <1>7, <2>1 DEF Promise!Turn, Outcome
  <2> QED BY <2>2 DEF Promise!Next
<1>8. CASE op' \in {"validated", "snapshotted", "executing", "verifying"}
  <2>1. op \in {"pending", "validated", "snapshotted", "executing"}
    BY <1>1, <1>8 DEF ValidOperation
  <2>2. Outcome = "open" /\ Outcome' = "open"
    BY <1>8, <2>1 DEF Outcome
  <2> QED BY <1>2, <2>2 DEF Promise!vars
<1> QED BY <1>1, <1>3, <1>4, <1>5, <1>6, <1>7, <1>8 DEF ValidOperation

\* Everything else is work on one effect, while the operation is under way.
LEMMA TransactionWorks ==
  ASSUME IInv, [Next]_vars, op' = op
  PROVE  Promise!Next \/ UNCHANGED Promise!vars
<1>1. Outcome' = Outcome
  BY DEF Outcome
<1>2. CASE UNCHANGED <<ext, called, undone>>
  BY <1>1, <1>2 DEF Promise!vars, Touched
<1>3. CASE /\ op \in {"executing", "rolling_back"} /\ idx \in Steps
           /\ \E f \in Fingerprints : ext' = [ext EXCEPT ![idx] = f]
           /\ called' \cup undone' = called \cup undone \cup {idx}
  <2>1. Outcome \in {"open", "undoing"}
    BY <1>3 DEF Outcome
  <2>2. Touched' = Touched \cup {idx}
    BY <1>3 DEF Touched
  <2>3. Promise!Work
    BY <1>1, <1>3, <2>1, <2>2 DEF Promise!Work
  <2> QED BY <2>3 DEF Promise!Next
<1> QED BY <1>2, <1>3, OnlyRunning

\* The engine is one transaction: whatever fails, is lost or crashes in Execute, Recover
\* and rollback, it ends once, it commits only what shows every proposed effect, it is
\* rolled back only with every touched effect restored, it never commits after it has
\* turned back, and no effect changes once it has ended.
THEOREM EngineIsTransaction == Spec => IsTransaction
<1>1. Spec => []Unbegun
  <2>1. Init => Unbegun
    BY DEF Init, Unbegun
  <2>2. IInv /\ Unbegun /\ [Next]_vars => Unbegun'
    BY UnbegunStep
  <2> QED BY Invariance, <2>1, <2>2, PTL DEF Spec
<1>2. IInv /\ Unbegun /\ [Next]_vars => [Promise!Next]_(Promise!vars)
  BY TransactionDecides, TransactionWorks
<1> QED BY TransactionInit, Invariance, <1>1, <1>2, PTL DEF Spec, IsTransaction, Promise!Spec
=============================================================================
