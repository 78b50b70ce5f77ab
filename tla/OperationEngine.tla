--------------------------- MODULE OperationEngine ---------------------------
(***************************************************************************)
(* The durable operation engine of the agent,                              *)
(* src/src/internal/agent/operation/engine.go, on one operation of N       *)
(* steps.                                                                  *)
(*                                                                         *)
(* The journal (op, step) survives a crash; the Record handed to Execute   *)
(* or Recover (mop, mstep) does not.  Every journal write and every call   *)
(* of an effect is a step of its own, so a crash can fall between any two. *)
(* A journal write is a compare-and-swap from the Record's state: it can   *)
(* succeed, fail without effect, or take effect while its acknowledgement  *)
(* is lost (a cancelled context), which leaves the Record behind.          *)
(*                                                                         *)
(* An effect is known to the engine only by the fingerprint Inspect        *)
(* returns: the original one, the proposed one, or something else.         *)
(***************************************************************************)
EXTENDS Integers

CONSTANTS
  N,            \* number of steps of the plan
  Idempotent,   \* the steps whose effect says Idempotent()
  MaxFaults     \* bound on the faults of a behaviour (errors, lost acks, crashes)

ASSUME NAssumption == N \in Nat \ {0}
ASSUME IdempotentAssumption == Idempotent \subseteq 1..N
ASSUME MaxFaultsAssumption == MaxFaults \in Nat

VARIABLES
  op, step,     \* the journal: operation state and state of each step
  mop, mstep,   \* the Record of the running call
  pc,           \* where Execute or Recover stands; "idle" when neither runs
  idx,          \* the step the call works on
  recovery,     \* TRUE while Recover runs
  ext,          \* fingerprint of each effect on the host
  called,       \* history: steps whose Apply was called
  again,        \* history: steps whose Apply was called a second time
  undone,       \* history: steps whose Rollback was called
  faults        \* faults so far

journal == <<op, step>>
record == <<mop, mstep>>
history == <<called, again, undone>>
vars == <<op, step, mop, mstep, pc, idx, recovery, ext, called, again, undone, faults>>

Steps == 1..N
OpStates == {"pending", "validated", "snapshotted", "executing", "verifying",
             "committed", "rolling_back", "rolled_back", "rollback_failed",
             "rejected", "expired"}
StepStates == {"pending", "executing", "applied", "failed", "rolling_back", "rolled_back"}
Fingerprints == {"original", "proposed", "other"}

IsTerminal(s) == s \in {"committed", "rolled_back", "rollback_failed", "rejected", "expired"}

\* validOperationTransition
ValidOperation(from, to) ==
  <<from, to>> \in
    {<<"pending", "validated">>, <<"pending", "rejected">>, <<"pending", "expired">>,
     <<"validated", "snapshotted">>, <<"validated", "rejected">>,
     <<"snapshotted", "executing">>, <<"snapshotted", "rolling_back">>,
     <<"executing", "verifying">>, <<"executing", "rolling_back">>,
     <<"verifying", "committed">>, <<"verifying", "rolling_back">>,
     <<"rolling_back", "rolled_back">>, <<"rolling_back", "rollback_failed">>}

\* validStepTransition
ValidStep(from, to) ==
  <<from, to>> \in
    {<<"pending", "executing">>,
     <<"executing", "applied">>, <<"executing", "failed">>, <<"executing", "rolling_back">>,
     <<"failed", "executing">>, <<"failed", "rolling_back">>,
     <<"applied", "rolling_back">>,
     <<"rolling_back", "rolled_back">>}

Fault == faults < MaxFaults /\ faults' = faults + 1
NoFault == faults' = faults

\* operationTransition: the Record's state is the expected one; ok and err are
\* the places where the call continues.
OperationTransition(to, ok, err) ==
  /\ \/ /\ ValidOperation(mop, to) /\ op = mop
        /\ op' = to /\ mop' = to /\ pc' = ok /\ NoFault
     \/ /\ ~(ValidOperation(mop, to) /\ op = mop)
        /\ pc' = err /\ NoFault /\ UNCHANGED <<op, mop>>
     \/ /\ ValidOperation(mop, to) /\ Fault
        /\ op' \in {op, IF op = mop THEN to ELSE op}
        /\ pc' = err /\ UNCHANGED mop
  /\ UNCHANGED <<step, mstep>>

\* stepTransition, for the step the call works on
StepTransition(to, ok, err) ==
  /\ \/ /\ ValidStep(mstep[idx], to) /\ step[idx] = mstep[idx]
        /\ step' = [step EXCEPT ![idx] = to]
        /\ mstep' = [mstep EXCEPT ![idx] = to]
        /\ pc' = ok /\ NoFault
     \/ /\ ~(ValidStep(mstep[idx], to) /\ step[idx] = mstep[idx])
        /\ pc' = err /\ NoFault /\ UNCHANGED <<step, mstep>>
     \/ /\ ValidStep(mstep[idx], to) /\ Fault
        /\ step' \in {step, IF step[idx] = mstep[idx]
                            THEN [step EXCEPT ![idx] = to] ELSE step}
        /\ pc' = err /\ UNCHANGED mstep
  /\ UNCHANGED <<op, mop>>

Goto(l) == pc' = l /\ NoFault
FailTo(l) == pc' = l /\ Fault

\* The effect's Apply: when it works the proposed fingerprint shows; when it
\* does not, anything may show, whether or not it reports an error.
Apply(ok, err) ==
  /\ called' = called \cup {idx}
  /\ again' = IF idx \in called THEN again \cup {idx} ELSE again
  /\ \/ ext' = [ext EXCEPT ![idx] = "proposed"] /\ Goto(ok)
     \/ \E f \in Fingerprints, l \in {ok, err} :
          ext' = [ext EXCEPT ![idx] = f] /\ FailTo(l)
  /\ UNCHANGED <<journal, record, idx, recovery, undone>>

-----------------------------------------------------------------------------
(* Entry points *)

\* The state a caller can bring an operation to before the engine runs.
Init ==
  /\ op \in {"pending", "validated", "snapshotted"}
  /\ step = [i \in Steps |-> "pending"]
  /\ mop = op /\ mstep = step
  /\ pc = "idle" /\ idx = 1 /\ recovery = FALSE
  /\ ext \in [Steps -> Fingerprints]
  /\ called = {} /\ again = {} /\ undone = {}
  /\ faults = 0

Execute ==
  /\ pc = "idle" /\ op = "snapshotted"
  /\ mop' = op /\ mstep' = step
  /\ pc' = "begin" /\ idx' = 1 /\ recovery' = FALSE
  /\ UNCHANGED <<journal, ext, history, faults>>

\* Mistake: an operation that was rolling back is left alone.
RecoverEntryForward ==
  CASE op = "pending" -> "expire"
    [] op = "validated" -> "reject"
    [] op = "snapshotted" -> "abandon"
    [] op = "executing" -> "next"
    [] op = "verifying" -> "verify"
    [] OTHER -> "idle"

\* The switch at the head of Recover.
RecoverEntry ==
  CASE op = "pending" -> "expire"
    [] op = "validated" -> "reject"
    [] op = "snapshotted" -> IF \A i \in Steps : step[i] = "pending" THEN "abandon" ELSE "begin"
    [] op = "executing" -> "next"
    [] op = "verifying" -> "verify"
    [] op = "rolling_back" -> "rollback"
    [] OTHER -> "idle"

Recover ==
  /\ pc = "idle" /\ ~IsTerminal(op)
  /\ mop' = op /\ mstep' = step
  /\ pc' = RecoverEntry /\ recovery' = TRUE
  /\ idx' = IF op = "rolling_back" THEN N ELSE 1
  /\ UNCHANGED <<journal, ext, history, faults>>

Crash ==
  /\ pc # "idle" /\ FailTo("idle")
  /\ UNCHANGED <<journal, record, idx, recovery, ext, history>>

Expire == pc = "expire" /\ OperationTransition("expired", "idle", "idle")
          /\ UNCHANGED <<idx, recovery, ext, history>>
Reject == pc = "reject" /\ OperationTransition("rejected", "idle", "idle")
          /\ UNCHANGED <<idx, recovery, ext, history>>
Abandon == pc = "abandon" /\ OperationTransition("rolling_back", "finish", "idle")
           /\ UNCHANGED <<idx, recovery, ext, history>>
Begin == pc = "begin" /\ OperationTransition("executing", "next", "idle")
         /\ UNCHANGED <<idx, recovery, ext, history>>

-----------------------------------------------------------------------------
(* The loop over the steps: of Execute (every step through applyStep) and   *)
(* of recoverExecuting (which looks at the state the step was left in).     *)

\* The switch of recoverExecuting; Execute accepts a pending step only.
StepEntry ==
  CASE mstep[idx] = "pending" -> "mark"
    [] recovery /\ mstep[idx] = "applied" -> "next"
    [] recovery /\ mstep[idx] \in {"executing", "failed"} -> "reinspect"
    [] OTHER -> "fail"

NextStep ==
  /\ pc = "next"
  /\ \/ idx > N /\ Goto("to_verifying") /\ idx' = idx
     \/ idx <= N /\ Goto(StepEntry) /\ idx' = IF StepEntry = "next" THEN idx + 1 ELSE idx
  /\ UNCHANGED <<journal, record, recovery, ext, history>>

\* Mistake: the effect is looked at, and applied, although the journal write failed.
MarkIgnoresError == pc = "mark" /\ StepTransition("executing", "inspect", "inspect")
                    /\ UNCHANGED <<idx, recovery, ext, history>>

\* applyStep: the step is journalled as executing before anything is looked at
Mark == pc = "mark" /\ StepTransition("executing", "inspect", "fail")
        /\ UNCHANGED <<idx, recovery, ext, history>>

Inspect ==
  /\ pc = "inspect"
  /\ \/ FailTo("mark_failed")
     \/ ext[idx] = "proposed" /\ Goto("mark_applied")
     \/ /\ ext[idx] = "original"
        /\ Goto(IF recovery /\ idx \notin Idempotent THEN "fail" ELSE "apply")
     \/ ext[idx] = "other" /\ Goto("fail")
  /\ UNCHANGED <<journal, record, idx, recovery, ext, history>>

ApplyEffect == pc = "apply" /\ Apply("check", "mark_failed")

\* Mistake: verifyStep asks whether Inspect works, not what it returns.
CheckErrorOnly ==
  /\ pc = "check"
  /\ FailTo("mark_failed") \/ Goto("mark_applied")
  /\ UNCHANGED <<journal, record, idx, recovery, ext, history>>

\* verifyStep
Check ==
  /\ pc = "check"
  /\ \/ FailTo("mark_failed")
     \/ Goto(IF ext[idx] = "proposed" THEN "mark_applied" ELSE "mark_failed")
  /\ UNCHANGED <<journal, record, idx, recovery, ext, history>>

MarkApplied ==
  /\ pc = "mark_applied" /\ StepTransition("applied", "next", "fail")
  /\ idx' = IF pc' = "next" THEN idx + 1 ELSE idx
  /\ UNCHANGED <<recovery, ext, history>>

\* The result of this write is ignored.
MarkFailed == pc = "mark_failed" /\ StepTransition("failed", "fail", "fail")
              /\ UNCHANGED <<idx, recovery, ext, history>>

\* Mistake: recovery retries every effect that still shows its original state.
ReinspectRetriesAll ==
  /\ pc = "reinspect"
  /\ \/ FailTo("fail")
     \/ ext[idx] = "proposed" /\ Goto("remark_applied")
     \/ /\ ext[idx] = "original"
        /\ Goto(IF mstep[idx] = "failed" THEN "reopen" ELSE "retry")
     \/ ext[idx] = "other" /\ Goto("fail")
  /\ UNCHANGED <<journal, record, idx, recovery, ext, history>>

\* recoverExecuting on a step left executing or failed
Reinspect ==
  /\ pc = "reinspect"
  /\ \/ FailTo("fail")
     \/ ext[idx] = "proposed" /\ Goto("remark_applied")
     \/ /\ ext[idx] = "original" /\ idx \in Idempotent
        /\ Goto(IF mstep[idx] = "failed" THEN "reopen" ELSE "retry")
     \/ /\ ext[idx] = "other" \/ (ext[idx] = "original" /\ idx \notin Idempotent)
        /\ Goto("fail")
  /\ UNCHANGED <<journal, record, idx, recovery, ext, history>>

\* An error here is returned without a rollback.
RemarkApplied ==
  /\ pc = "remark_applied" /\ StepTransition("applied", "next", "idle")
  /\ idx' = IF pc' = "next" THEN idx + 1 ELSE idx
  /\ UNCHANGED <<recovery, ext, history>>

Reopen == pc = "reopen" /\ StepTransition("executing", "retry", "idle")
          /\ UNCHANGED <<idx, recovery, ext, history>>

Retry == pc = "retry" /\ Apply("check", "fail")

ToVerifying ==
  /\ pc = "to_verifying"
  /\ OperationTransition("verifying", "verify", IF recovery THEN "idle" ELSE "fail")
  /\ UNCHANGED <<idx, recovery, ext, history>>

\* The caller's VerifyFunc
Verify ==
  /\ pc = "verify"
  /\ Goto("to_committed") \/ FailTo("fail")
  /\ UNCHANGED <<journal, record, idx, recovery, ext, history>>

ToCommitted == pc = "to_committed" /\ OperationTransition("committed", "idle", "idle")
               /\ UNCHANGED <<idx, recovery, ext, history>>

-----------------------------------------------------------------------------
(* Rollback, last step first *)

\* failAndRollback
Fail ==
  /\ pc = "fail" /\ OperationTransition("rolling_back", "rollback", "idle")
  /\ idx' = N
  /\ UNCHANGED <<recovery, ext, history>>

\* Mistake: the rollback only looks at the steps journalled as applied.
RollbackNeededAppliedOnly(s) == s \in {"applied", "rolling_back"}

\* The steps the rollback has to look at
RollbackNeeded(s) == s \in {"applied", "executing", "failed", "rolling_back"}

RollbackNext ==
  /\ pc = "rollback"
  /\ \/ /\ idx = 0
        /\ Goto("finish") /\ UNCHANGED <<step, mstep, idx>>
     \/ /\ idx > 0 /\ ~RollbackNeeded(mstep[idx])
        /\ Goto("rollback") /\ idx' = idx - 1 /\ UNCHANGED <<step, mstep>>
     \/ /\ idx > 0 /\ mstep[idx] = "rolling_back"
        /\ Goto("rb_inspect") /\ UNCHANGED <<step, mstep, idx>>
     \/ /\ idx > 0 /\ RollbackNeeded(mstep[idx]) /\ mstep[idx] # "rolling_back"
        /\ StepTransition("rolling_back", "rb_inspect", "rb_failed")
        /\ UNCHANGED idx
  /\ UNCHANGED <<op, mop, recovery, ext, history>>

RollbackInspect ==
  /\ pc = "rb_inspect"
  /\ \/ FailTo("rb_failed")
     \/ Goto(IF ext[idx] = "original" THEN "rb_done" ELSE "rb_call")
  /\ UNCHANGED <<journal, record, idx, recovery, ext, history>>

RollbackEffect ==
  /\ pc = "rb_call"
  /\ undone' = undone \cup {idx}
  /\ \/ ext' = [ext EXCEPT ![idx] = "original"] /\ Goto("rb_check")
     \/ \E f \in Fingerprints, l \in {"rb_check", "rb_failed"} :
          ext' = [ext EXCEPT ![idx] = f] /\ FailTo(l)
  /\ UNCHANGED <<journal, record, idx, recovery, called, again>>

\* Mistake: a step that cannot be put back is skipped and the rollback goes on.
RollbackCheckContinues ==
  /\ pc = "rb_check"
  /\ IF ext[idx] = "original" THEN Goto("rb_done") /\ idx' = idx
                              ELSE Goto("rollback") /\ idx' = idx - 1
  /\ UNCHANGED <<journal, record, recovery, ext, history>>

RollbackCheck ==
  /\ pc = "rb_check"
  /\ \/ FailTo("rb_failed")
     \/ Goto(IF ext[idx] = "original" THEN "rb_done" ELSE "rb_failed")
  /\ UNCHANGED <<journal, record, idx, recovery, ext, history>>

RollbackDone ==
  /\ pc = "rb_done" /\ StepTransition("rolled_back", "rollback", "rb_failed")
  /\ idx' = IF pc' = "rollback" THEN idx - 1 ELSE idx
  /\ UNCHANGED <<recovery, ext, history>>

FinishRolledBack == pc = "finish" /\ OperationTransition("rolled_back", "idle", "idle")
                    /\ UNCHANGED <<idx, recovery, ext, history>>
RollbackFailed == pc = "rb_failed" /\ OperationTransition("rollback_failed", "idle", "idle")
                  /\ UNCHANGED <<idx, recovery, ext, history>>

-----------------------------------------------------------------------------
\* One step of a running Execute or Recover
Engine ==
  \/ Expire \/ Reject \/ Abandon \/ Begin
  \/ NextStep \/ Mark \/ Inspect \/ ApplyEffect \/ Check \/ MarkApplied \/ MarkFailed
  \/ Reinspect \/ RemarkApplied \/ Reopen \/ Retry
  \/ ToVerifying \/ Verify \/ ToCommitted
  \/ Fail \/ RollbackNext \/ RollbackInspect \/ RollbackEffect \/ RollbackCheck
  \/ RollbackDone \/ FinishRolledBack \/ RollbackFailed

Next == Execute \/ Recover \/ Crash \/ Engine

Spec == Init /\ [][Next]_vars

\* A running call keeps running, and an operation left behind is recovered at
\* the next start: faults are bounded, so neither can be prevented for ever.
FairSpec == Spec /\ WF_vars(Engine) /\ WF_vars(Recover)

-----------------------------------------------------------------------------
(* Properties *)

PCs == {"idle", "expire", "reject", "abandon", "begin", "next", "mark", "inspect",
        "apply", "check", "mark_applied", "mark_failed", "reinspect", "remark_applied",
        "reopen", "retry", "to_verifying", "verify", "to_committed", "fail", "rollback",
        "rb_inspect", "rb_call", "rb_check", "rb_done", "finish", "rb_failed"}

\* Type invariant of the journal, the Record, the host and the history.
TypeOK ==
  /\ op \in OpStates /\ mop \in OpStates
  /\ step \in [Steps -> StepStates] /\ mstep \in [Steps -> StepStates]
  /\ pc \in PCs /\ idx \in 0..(N + 1) /\ recovery \in BOOLEAN
  /\ ext \in [Steps -> Fingerprints]
  /\ called \subseteq Steps /\ again \subseteq Steps /\ undone \subseteq Steps
  /\ faults \in 0..MaxFaults

Touched == called \cup undone

\* An operation journalled as rolled back has put back the original state of
\* every effect whose Apply or Rollback was ever called, across all crashes,
\* errors and lost acknowledgements (rollback, finishRolledBack).
RolledBackRestores ==
  op = "rolled_back" => \A i \in Touched : ext[i] = "original"

\* An operation journalled as committed shows the proposed state of every
\* effect, also when Recover, not Execute, committed it.
CommittedMeansProposed ==
  op = "committed" => \A i \in Steps : ext[i] = "proposed"

\* The steps of the engine add up to one transaction: it ends once, nothing touches the
\* host afterwards, a rollback that has begun never ends in a commit, and a rejected or
\* expired operation has touched nothing (validOperationTransition, Execute, Recover).
Outcome ==
  CASE op \in {"rejected", "expired"} -> "refused"
    [] op = "rolling_back" -> "undoing"
    [] op \in {"committed", "rolled_back", "rollback_failed"} -> op
    [] OTHER -> "open"
Promise == INSTANCE Transaction WITH
  Parts <- Steps, outcome <- Outcome, state <- ext, touched <- Touched
IsTransaction == Promise!Spec

\* No effect is called before its step left the pending state in the journal:
\* a crash never hides an effect from Recover (applyStep journals first).
JournalledBeforeEffect ==
  \A i \in Touched : step[i] # "pending"

\* Across any number of crashes and recoveries a non-idempotent effect is
\* applied at most once ("It never retries an ambiguous or non-idempotent effect").
NonIdempotentOnce == again \subseteq Idempotent

\* Rollback runs strictly backwards: an effect is undone only while every later
\* effect that was ever touched is back in its original state, also when the
\* rollback itself was interrupted and resumed (rollback's descending loop).
RollbackInReverse ==
  pc = "rb_call" => \A j \in Touched : j > idx => ext[j] = "original"

\* A step left failed whose effect nevertheless shows the proposed state:
\* recoverExecuting asks for failed -> applied, which the table does not allow.
Wedged ==
  /\ op = "executing"
  /\ \E i \in Steps : step[i] = "failed" /\ ext[i] = "proposed"

\* Every operation gets an outcome, or is wedged as described above.
ResolvesOrWedged == <>(IsTerminal(op) \/ Wedged)

=============================================================================
