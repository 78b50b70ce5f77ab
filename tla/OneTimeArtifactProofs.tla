----------------------- MODULE OneTimeArtifactProofs -----------------------
(***************************************************************************)
(* Proofs about OneTimeArtifact for any artifacts, requests and bounds.    *)
(*                                                                         *)
(* That a secret is handed out once is not inductive: it rests on the row  *)
(* being claimed by one request only (ClaimInv), which in turn needs that  *)
(* nothing was handed out before the claim.                                *)
(***************************************************************************)
EXTENDS OneTimeArtifact, TLAPS

Holding(r) == pc[r] \in {"open", "deliver", "finalize"}

\* A request that holds an artifact has claimed its row, alone; before it delivers
\* nothing has been handed out, and neither has anything from an unclaimed row.
ClaimInv ==
  /\ \A r \in Requests : Holding(r) => row[art[r]] \in {"consuming", "removed"}
  /\ \A r, s \in Requests : Holding(r) /\ Holding(s) /\ art[r] = art[s] => r = s
  /\ \A r \in Requests : pc[r] \in {"open", "deliver"} => handed[art[r]] = 0
  /\ \A a \in Artifacts : row[a] \in {"none", "ready"} => handed[a] = 0

\* A request that has answered without an error has left its row finished.
AnswerInv ==
  \A r \in Requests :
    /\ pc[r] \in {"begin", "open", "deliver"} => result[r] = "none"
    /\ pc[r] = "idle" /\ result[r] = "ok" =>
         art[r] \in Artifacts /\ row[art[r]] \in {"consumed", "removed"}

IInv == TypeOK /\ ClaimInv /\ AnswerInv /\ HandedOutOnce /\ CiphertextFollowsRow

LEMMA InitInv == Init => IInv
BY TimeAssumption
   DEF Init, IInv, TypeOK, ClaimInv, AnswerInv, HandedOutOnce, CiphertextFollowsRow, Holding

LEMMA CreateStep ==
  ASSUME IInv, NEW a \in Artifacts, CreateOneTime(a)
  PROVE  IInv'
<1> USE TimeAssumption, NoArtifactAssumption
<1>1. TypeOK'
  BY DEF IInv, TypeOK, CreateOneTime, Fault
<1>2. ClaimInv'
  BY DEF IInv, TypeOK, ClaimInv, CreateOneTime, Holding
<1>3. AnswerInv'
  BY DEF IInv, TypeOK, AnswerInv, CreateOneTime
<1>4. (HandedOutOnce /\ CiphertextFollowsRow)'
  BY DEF IInv, TypeOK, HandedOutOnce, CiphertextFollowsRow, CreateOneTime
<1> QED BY <1>1, <1>2, <1>3, <1>4 DEF IInv

LEMMA ConsumeStep ==
  ASSUME IInv, NEW a \in Artifacts, NEW r \in Requests, Consume(r, a)
  PROVE  IInv'
<1> USE DEF rows
<1>1. TypeOK'
  BY DEF IInv, TypeOK, Consume, Goto, Result
<1>2. ClaimInv'
  BY DEF IInv, TypeOK, ClaimInv, Consume, Goto, Holding
<1>3. AnswerInv'
  BY DEF IInv, TypeOK, AnswerInv, Consume, Goto, Result
<1>4. (HandedOutOnce /\ CiphertextFollowsRow)'
  BY DEF IInv, HandedOutOnce, CiphertextFollowsRow, Consume
<1> QED BY <1>1, <1>2, <1>3, <1>4 DEF IInv

LEMMA BeginStep ==
  ASSUME IInv, NEW r \in Requests, BeginOneTimeConsume(r)
  PROVE  IInv'
<1> USE TimeAssumption
<1>1. TypeOK'
  BY DEF IInv, TypeOK, BeginOneTimeConsume, Goto, Result, Fault
<1>2. ClaimInv'
  BY DEF IInv, TypeOK, ClaimInv, BeginOneTimeConsume, Goto, Holding
<1>3. AnswerInv'
  BY DEF IInv, TypeOK, AnswerInv, BeginOneTimeConsume, Goto, Result
<1>4. (HandedOutOnce /\ CiphertextFollowsRow)'
  BY DEF IInv, TypeOK, HandedOutOnce, CiphertextFollowsRow, BeginOneTimeConsume
<1> QED BY <1>1, <1>2, <1>3, <1>4 DEF IInv

LEMMA OpenStep ==
  ASSUME IInv, NEW r \in Requests, Open(r)
  PROVE  IInv'
<1> USE TimeAssumption DEF rows
<1>1. TypeOK'
  BY DEF IInv, TypeOK, Open, Goto, Result, Fault
<1>2. ClaimInv'
  BY DEF IInv, TypeOK, ClaimInv, Open, Goto, Holding
<1>3. AnswerInv'
  BY DEF IInv, TypeOK, AnswerInv, Open, Goto, Result
<1>4. (HandedOutOnce /\ CiphertextFollowsRow)'
  BY DEF IInv, HandedOutOnce, CiphertextFollowsRow, Open
<1> QED BY <1>1, <1>2, <1>3, <1>4 DEF IInv

\* The only step that hands out: the count was 0 before it.
LEMMA DeliverStep ==
  ASSUME IInv, NEW r \in Requests, Deliver(r)
  PROVE  IInv'
<1> USE TimeAssumption DEF rows
<1>1. PICK n \in {0, 1} : handed' = [handed EXCEPT ![art[r]] = @ + n]
  BY DEF Deliver
<1>2. art[r] \in Artifacts /\ handed[art[r]] = 0 /\ row[art[r]] \in {"consuming", "removed"}
  BY DEF IInv, TypeOK, ClaimInv, Deliver, Holding
<1>3. TypeOK'
  BY <1>1, <1>2 DEF IInv, TypeOK, Deliver, Goto, Result, Fault
<1>4. ClaimInv'
  BY <1>1, <1>2 DEF IInv, TypeOK, ClaimInv, Deliver, Goto, Holding
<1>5. AnswerInv'
  BY DEF IInv, TypeOK, AnswerInv, Deliver, Goto, Result
<1>6. (HandedOutOnce /\ CiphertextFollowsRow)'
  BY <1>1, <1>2 DEF IInv, TypeOK, HandedOutOnce, CiphertextFollowsRow, Deliver
<1> QED BY <1>3, <1>4, <1>5, <1>6 DEF IInv

LEMMA FinalizeStep ==
  ASSUME IInv, NEW r \in Requests, FinalizeOneTimeConsume(r)
  PROVE  IInv'
<1> USE TimeAssumption
<1>1. art[r] \in Artifacts /\ row[art[r]] \in {"consuming", "removed"}
  BY DEF IInv, TypeOK, ClaimInv, FinalizeOneTimeConsume, Holding
<1>2. TypeOK'
  BY <1>1 DEF IInv, TypeOK, FinalizeOneTimeConsume, Finalized, Goto, Result, Fault
<1>3. ClaimInv'
  BY <1>1 DEF IInv, TypeOK, ClaimInv, FinalizeOneTimeConsume, Finalized, Goto, Holding
<1>4. AnswerInv'
  BY <1>1 DEF IInv, TypeOK, AnswerInv, FinalizeOneTimeConsume, Finalized, Goto, Result
<1>5. (HandedOutOnce /\ CiphertextFollowsRow)'
  BY <1>1 DEF IInv, TypeOK, HandedOutOnce, CiphertextFollowsRow, FinalizeOneTimeConsume, Finalized
<1> QED BY <1>2, <1>3, <1>4, <1>5 DEF IInv

LEMMA EndContextStep ==
  ASSUME IInv, NEW r \in Requests, EndContext(r)
  PROVE  IInv'
BY DEF IInv, TypeOK, ClaimInv, AnswerInv, HandedOutOnce, CiphertextFollowsRow, Holding,
       EndContext, rows

LEMMA RemovalStep ==
  ASSUME IInv, FinalizeInterfaceRemoval
  PROVE  IInv'
<1>1. TypeOK'
  BY DEF IInv, TypeOK, FinalizeInterfaceRemoval
<1>2. ClaimInv'
  BY DEF IInv, TypeOK, ClaimInv, FinalizeInterfaceRemoval, Holding
<1>3. AnswerInv'
  BY DEF IInv, TypeOK, AnswerInv, FinalizeInterfaceRemoval
<1>4. (HandedOutOnce /\ CiphertextFollowsRow)'
  BY DEF IInv, TypeOK, HandedOutOnce, CiphertextFollowsRow, FinalizeInterfaceRemoval
<1> QED BY <1>1, <1>2, <1>3, <1>4 DEF IInv

LEMMA CrashStep ==
  ASSUME IInv, Crash
  PROVE  IInv'
<1> USE TimeAssumption DEF rows
<1>1. up' \in BOOLEAN
  BY ZenonT(20) DEF Crash
<1>2. TypeOK'
  <2>1. faults' \in 0..MaxFaults
    BY DEF IInv, TypeOK, Crash, Fault
  <2> QED BY <1>1, <2>1 DEF IInv, TypeOK, Crash
<1>3. ClaimInv' /\ AnswerInv'
  BY DEF IInv, TypeOK, ClaimInv, AnswerInv, Holding, Crash
<1>4. (HandedOutOnce /\ CiphertextFollowsRow)'
  BY DEF IInv, HandedOutOnce, CiphertextFollowsRow, Crash
<1> QED BY <1>2, <1>3, <1>4 DEF IInv

\* While the agent is down it has no requests; the clean-up finds them all idle.
LEMMA CleanupStep ==
  ASSUME IInv, CleanupOneTime, ~up => \A r \in Requests : pc[r] = "idle"
  PROVE  IInv'
<1> USE TimeAssumption
<1>1. \A r \in Requests : pc[r] = "idle"
  BY DEF CleanupOneTime
<1>2. TypeOK'
  <2>1. up' \in BOOLEAN
    BY ZenonT(20) DEF IInv, TypeOK, CleanupOneTime
  <2>2. faults' \in 0..MaxFaults
    BY DEF IInv, TypeOK, CleanupOneTime, Fault
  <2>3. row' \in [Artifacts -> {"none", "ready", "consuming", "consumed", "expired", "removed"}]
        /\ envelopes' \subseteq Artifacts
    BY DEF IInv, TypeOK, CleanupOneTime, Stale
  <2>4. \A a \in Artifacts : row'[a] = "none" <=> expires'[a] = 0
    BY DEF IInv, TypeOK, CleanupOneTime, Stale
  <2> QED BY <2>1, <2>2, <2>3, <2>4 DEF IInv, TypeOK, CleanupOneTime
<1>3. ClaimInv'
  BY <1>1 DEF IInv, TypeOK, ClaimInv, CleanupOneTime, Holding
<1>4. AnswerInv'
  BY <1>1 DEF IInv, TypeOK, AnswerInv, CleanupOneTime, Stale
<1>5. (HandedOutOnce /\ CiphertextFollowsRow)'
  BY DEF IInv, TypeOK, HandedOutOnce, CiphertextFollowsRow, CleanupOneTime, Stale
<1> QED BY <1>2, <1>3, <1>4, <1>5 DEF IInv

LEMMA TickStep ==
  ASSUME IInv, Tick
  PROVE  IInv'
BY TimeAssumption
   DEF IInv, TypeOK, ClaimInv, AnswerInv, HandedOutOnce, CiphertextFollowsRow, Holding, Tick, rows

DownInv == ~up => \A r \in Requests : pc[r] = "idle"

LEMMA DownStep ==
  ASSUME TypeOK, DownInv, [Next]_vars
  PROVE  DownInv'
BY DEF TypeOK, DownInv, Next, vars, rows, CreateOneTime, Consume, Step, BeginOneTimeConsume, Open,
       Deliver, FinalizeOneTimeConsume, EndContext, FinalizeInterfaceRemoval, Crash,
       CleanupOneTime, Tick, Goto

LEMMA NextStep ==
  ASSUME IInv, DownInv, [Next]_vars
  PROVE  IInv'
<1>1. CASE UNCHANGED vars
  BY <1>1 DEF vars, IInv, TypeOK, ClaimInv, AnswerInv, HandedOutOnce, CiphertextFollowsRow, Holding
<1>2. CASE \E a \in Artifacts : CreateOneTime(a) \/ \E r \in Requests : Consume(r, a)
  BY <1>2, CreateStep, ConsumeStep
<1>3. CASE \E r \in Requests : Step(r) \/ EndContext(r)
  BY <1>3, BeginStep, OpenStep, DeliverStep, FinalizeStep, EndContextStep DEF Step
<1>4. CASE FinalizeInterfaceRemoval \/ Crash \/ CleanupOneTime \/ Tick
  BY <1>4, RemovalStep, CrashStep, CleanupStep, TickStep DEF DownInv
<1> QED BY <1>1, <1>2, <1>3, <1>4 DEF Next

\* The inductive invariant holds in every reachable state.
THEOREM Invariance == Spec => [](IInv /\ DownInv)
<1>1. Init => DownInv
  BY DEF Init, DownInv
<1>2. IInv /\ DownInv /\ [Next]_vars => (IInv /\ DownInv)'
  BY NextStep, DownStep DEF IInv
<1> QED BY InitInv, <1>1, <1>2, PTL DEF Spec

\* Rows, requests and the clock keep their types for any bounds.
THEOREM TypeCorrect == Spec => []TypeOK
<1>1. IInv => TypeOK
  BY DEF IInv
<1> QED BY Invariance, <1>1, PTL

\* However many requests race for a token, and wherever the agent dies, the secret
\* behind it goes out at most once.
THEOREM SecretLeavesOnce == Spec => []HandedOutOnce
<1>1. IInv => HandedOutOnce
  BY DEF IInv
<1> QED BY Invariance, <1>1, PTL

\* No ciphertext outlives its row's use, and no usable row lacks its ciphertext.
THEOREM NoOrphanCiphertext == Spec => []CiphertextFollowsRow
<1>1. IInv => CiphertextFollowsRow
  BY DEF IInv
<1> QED BY Invariance, <1>1, PTL

\* An answer without an error means that the secret is erased, and stays so.
THEOREM SuccessMeansErased == Spec => []SuccessErases
<1>1. IInv => SuccessErases
  BY DEF IInv, AnswerInv, SuccessErases, CiphertextFollowsRow
<1> QED BY Invariance, <1>1, PTL
=============================================================================
