-------------------------- MODULE ConfigFileProofs --------------------------
(***************************************************************************)
(* Proofs about the files WireGate edits: ConfigExchange, how a file is    *)
(* replaced, and ConfigDocument, what is written into it.                  *)
(*                                                                         *)
(* ConfigExchange.  Both properties speak of the moment after a call; what *)
(* they rest on is where the two contents are in the middle of one.        *)
(* Untouched says where the original is while nobody edits, Accounted      *)
(* where the editor's last change is, at each place of the call.  With     *)
(* Checked, what a call has verified, each system call is a step of        *)
(* CompareAndSwap or none.                                                 *)
(*                                                                         *)
(* ConfigDocument.  Every edit is a block put into a document or cut out   *)
(* of it (Inserts), a patch is both; so one lemma each says what that does *)
(* to the gate (InsertSafe) and to what the peers say (InsertSaid).  Below *)
(* them are facts about elements selected from a sequence and about blocks *)
(* between headers, beside them what a patched and a new block say         *)
(* (PatchedIs, NewBlockIs), above them the invariant DocumentInv.          *)
(*                                                                         *)
(* A file may end inside the block of a peer, without a newline; then      *)
(* only the last line of that block is open (OnlyLastOpen).  A patch that  *)
(* Spoils writes behind it: the block becomes another one, and what is     *)
(* proved of it is that no other peer's is touched (SpoiltIs).             *)
(***************************************************************************)
EXTENDS ConfigDocument, ConfigExchange, SequenceTheorems, FiniteSetTheorems, TLAPS

(* The exchange of files. *)

Before == {"read", "create", "write", "swap"}

\* The proposal is made from the expected content, and written before the exchange;
\* what the exchange brought to the stage path is whole, and so is any evidence.
Prepared ==
  /\ proposed.edit = expected.edit
  /\ pc = "swap" => stage = proposed
  /\ pc \in Before \cup InPlace => ~keepStage
  /\ pc \in InPlace \/ (pc = "cleanup" /\ keepStage) => stage \in Contents
  /\ before <= edits /\ raced <= edits

\* While nobody has edited since the call began, the original is at the path, or
\* beside it as long as the agent's file is in its place.
Untouched ==
  edits = before =>
    /\ pc \in Before => conf = expected
    /\ pc \in InPlace => conf = proposed /\ stage = expected
    /\ pc = "cleanup" /\ result \in {"conflict", "error"} =>
         conf = expected \/ (conf = proposed /\ stage = expected /\ keepStage)

Settled == raced = edits \/ \E f \in kept : f.edit = edits

\* The editor's last change is at the path; or in the stage file while that can
\* still be swapped back; or settled before.
Accounted ==
  \/ Settled
  \/ /\ pc \in {"idle", "sync"} \cup Before => conf.edit = edits
     /\ pc \in InPlace => stage.edit = edits
     /\ pc = "verify" => stage = expected
     /\ pc = "cleanup" => conf.edit = edits \/ (stage.edit = edits /\ keepStage)

ExchangeInv == ExchangeTypeOK /\ Prepared /\ Untouched /\ Accounted /\ FailureKeepsOriginal

LEMMA BoundsAre == MaxEdits \in Nat /\ MaxCalls \in Nat /\ MaxFaults \in Nat
BY BoundsAssumption

LEMMA ExchangeInitInv == ExchangeInit => ExchangeInv
<1> SUFFICES ASSUME ExchangeInit PROVE ExchangeInv
  OBVIOUS
<1>1. conf \in Contents
  BY BoundsAre DEF ExchangeInit, Contents
<1>2. ExchangeTypeOK
  <2>1. pc = "idle" /\ result = "none" /\ keepStage \in BOOLEAN /\ kept = {}
    BY DEF ExchangeInit
  <2>2. stage \in StageFiles /\ expected \in Contents /\ proposed \in Contents
    BY <1>1 DEF ExchangeInit, StageFiles
  <2>3. edits = 0 /\ before = 0 /\ raced = 0 /\ calls = 0 /\ faults = 0
    BY DEF ExchangeInit
  <2> QED BY <1>1, <2>1, <2>2, <2>3, BoundsAre DEF ExchangeTypeOK
<1>3. Prepared /\ Untouched /\ FailureKeepsOriginal
  BY DEF ExchangeInit, Prepared, Untouched, FailureKeepsOriginal, Before, InPlace, Idle
<1>4. Accounted
  BY DEF ExchangeInit, Accounted, Settled
<1> QED BY <1>2, <1>3, <1>4 DEF ExchangeInv

LEMMA CallStep == ASSUME ExchangeInv, Call PROVE ExchangeInv'
<1> USE BoundsAre
<1>1. proposed' \in Contents
  <2>1. conf \in Contents /\ proposed' = [conf EXCEPT !.version = 1 - @]
    BY DEF ExchangeInv, ExchangeTypeOK, Call
  <2> QED BY <2>1 DEF Contents
<1>2. ExchangeTypeOK'
  <2>1. keepStage' \in BOOLEAN
    BY DEF Call
  <2>2. calls' \in 0..MaxCalls
    BY DEF ExchangeInv, ExchangeTypeOK, Call
  <2> QED BY <1>1, <2>1, <2>2 DEF ExchangeInv, ExchangeTypeOK, Call
<1>3. Prepared' /\ Untouched' /\ FailureKeepsOriginal'
  BY DEF ExchangeInv, ExchangeTypeOK, Call, Prepared, Untouched, FailureKeepsOriginal, Before, InPlace, Idle,
         Contents
<1>4. Accounted'
  BY DEF ExchangeInv, ExchangeTypeOK, Call, Accounted, Settled, Before, InPlace, Idle
<1> QED BY <1>2, <1>3, <1>4 DEF ExchangeInv

LEMMA ReadStep == ASSUME ExchangeInv, Read PROVE ExchangeInv'
<1> USE BoundsAre DEF Goto, Fault
<1>1. ExchangeTypeOK'
  BY DEF ExchangeInv, ExchangeTypeOK, Read
<1>2. Prepared' /\ Untouched' /\ FailureKeepsOriginal'
  BY DEF ExchangeInv, ExchangeTypeOK, Read, Prepared, Untouched, FailureKeepsOriginal, Before, InPlace, Idle
<1>3. Accounted'
  BY DEF ExchangeInv, ExchangeTypeOK, Read, Accounted, Settled, Before, InPlace, Idle
<1> QED BY <1>1, <1>2, <1>3 DEF ExchangeInv

LEMMA CreateStageStep == ASSUME ExchangeInv, CreateStage PROVE ExchangeInv'
<1> USE BoundsAre DEF Goto, Fault
<1>1. ExchangeTypeOK'
  BY DEF ExchangeInv, ExchangeTypeOK, CreateStage, StageFiles
<1>2. Prepared' /\ Untouched' /\ FailureKeepsOriginal'
  BY DEF ExchangeInv, ExchangeTypeOK, CreateStage, Prepared, Untouched, FailureKeepsOriginal, Before, InPlace, Idle
<1>3. Accounted'
  BY DEF ExchangeInv, ExchangeTypeOK, CreateStage, Accounted, Settled, Before, InPlace, Idle
<1> QED BY <1>1, <1>2, <1>3 DEF ExchangeInv

LEMMA WriteStageStep == ASSUME ExchangeInv, WriteStage PROVE ExchangeInv'
<1> USE BoundsAre DEF Goto, Fault, Return
<1>1. ExchangeTypeOK'
  BY DEF ExchangeInv, ExchangeTypeOK, WriteStage, StageFiles
<1>2. Prepared' /\ Untouched' /\ FailureKeepsOriginal'
  BY DEF ExchangeInv, ExchangeTypeOK, WriteStage, Prepared, Untouched, FailureKeepsOriginal, Before, InPlace, Idle
<1>3. Accounted'
  BY DEF ExchangeInv, ExchangeTypeOK, WriteStage, Accounted, Settled, Before, InPlace, Idle
<1> QED BY <1>1, <1>2, <1>3 DEF ExchangeInv

\* The exchange moves the original, and an edit that came before it, to the stage.
LEMMA SwapStep == ASSUME ExchangeInv, Swap PROVE ExchangeInv'
<1> USE BoundsAre DEF Goto, Fault, Return
<1>1. ExchangeTypeOK'
  BY DEF ExchangeInv, ExchangeTypeOK, Prepared, Swap, StageFiles
<1>2. Prepared' /\ Untouched' /\ FailureKeepsOriginal'
  BY DEF ExchangeInv, ExchangeTypeOK, Swap, Prepared, Untouched, FailureKeepsOriginal, Before, InPlace, Idle
<1>3. Accounted'
  BY DEF ExchangeInv, ExchangeTypeOK, Swap, Accounted, Settled, Before, InPlace, Idle
<1> QED BY <1>1, <1>2, <1>3 DEF ExchangeInv

LEMMA CheckDisplacedStep == ASSUME ExchangeInv, CheckDisplaced PROVE ExchangeInv'
<1> USE BoundsAre DEF Goto, Fault
<1>1. ExchangeTypeOK'
  BY DEF ExchangeInv, ExchangeTypeOK, CheckDisplaced
<1>2. Prepared' /\ Untouched' /\ FailureKeepsOriginal'
  BY DEF ExchangeInv, ExchangeTypeOK, CheckDisplaced, Prepared, Untouched, FailureKeepsOriginal, Before, InPlace,
         Idle
<1>3. Accounted'
  BY DEF ExchangeInv, ExchangeTypeOK, CheckDisplaced, Accounted, Settled, Before, InPlace, Idle
<1> QED BY <1>1, <1>2, <1>3 DEF ExchangeInv

\* The proposal is as recent as the content it displaced.
LEMMA VerifyStep == ASSUME ExchangeInv, VerifyDestination PROVE ExchangeInv'
<1> USE BoundsAre DEF Goto, Fault
<1>1. ExchangeTypeOK'
  BY DEF ExchangeInv, ExchangeTypeOK, VerifyDestination
<1>2. Prepared' /\ Untouched' /\ FailureKeepsOriginal'
  BY DEF ExchangeInv, ExchangeTypeOK, VerifyDestination, Prepared, Untouched, FailureKeepsOriginal, Before,
         InPlace, Idle
<1>3. Accounted'
  BY DEF ExchangeInv, ExchangeTypeOK, Prepared, VerifyDestination, Accounted, Settled, Before, InPlace, Idle
<1> QED BY <1>1, <1>2, <1>3 DEF ExchangeInv

LEMMA SyncStep == ASSUME ExchangeInv, SyncDirectory PROVE ExchangeInv'
<1> USE BoundsAre DEF Goto, Fault, Return
<1>1. ExchangeTypeOK'
  BY DEF ExchangeInv, ExchangeTypeOK, SyncDirectory
<1>2. Prepared' /\ Untouched' /\ FailureKeepsOriginal'
  BY DEF ExchangeInv, ExchangeTypeOK, SyncDirectory, Prepared, Untouched, FailureKeepsOriginal, Before, InPlace,
         Idle
<1>3. Accounted'
  BY DEF ExchangeInv, ExchangeTypeOK, SyncDirectory, Accounted, Settled, Before, InPlace, Idle
<1> QED BY <1>1, <1>2, <1>3 DEF ExchangeInv

\* What the exchange back finds in the stage file is the original, or the last change.
LEMMA SwapBackStep == ASSUME ExchangeInv, SwapBack PROVE ExchangeInv'
<1> USE BoundsAre DEF Goto, Fault, Return
<1>1. stage \in Contents /\ stage' \in Contents /\ conf' \in Contents
  BY DEF ExchangeInv, ExchangeTypeOK, Prepared, SwapBack, InPlace
<1>2. ExchangeTypeOK'
  <2>1. keepStage' \in BOOLEAN
    BY DEF ExchangeInv, ExchangeTypeOK, SwapBack
  <2>2. faults' \in 0..MaxFaults
    BY DEF ExchangeInv, ExchangeTypeOK, SwapBack
  <2>3. result' \in {"conflict", "error"} /\ pc' = "cleanup"
    BY DEF SwapBack
  <2> QED BY <1>1, <2>1, <2>2, <2>3 DEF ExchangeInv, ExchangeTypeOK, SwapBack, StageFiles
<1>3. Prepared' /\ Untouched' /\ FailureKeepsOriginal'
  BY <1>1 DEF ExchangeInv, ExchangeTypeOK, SwapBack, Prepared, Untouched, FailureKeepsOriginal, Before, InPlace, Idle
<1>4. Accounted'
  BY DEF ExchangeInv, ExchangeTypeOK, SwapBack, Accounted, Settled, Before, InPlace, Idle
<1> QED BY <1>2, <1>3, <1>4 DEF ExchangeInv

\* A stage file that is not evidence holds nothing that is not at the path as well.
LEMMA CleanupStep == ASSUME ExchangeInv, Cleanup PROVE ExchangeInv'
<1> USE BoundsAre DEF Goto
<1>1. \A x \in Contents : x # NoFile
  BY DEF Contents, NoFile
<1>2. ExchangeTypeOK'
  BY <1>1 DEF ExchangeInv, ExchangeTypeOK, Prepared, Cleanup, StageFiles
<1>3. Prepared' /\ Untouched' /\ FailureKeepsOriginal'
  BY DEF ExchangeInv, ExchangeTypeOK, Cleanup, Prepared, Untouched, FailureKeepsOriginal, Before, InPlace, Idle
<1>4. Accounted'
  BY DEF ExchangeInv, ExchangeTypeOK, Cleanup, Accounted, Settled, Before, InPlace, Idle
<1> QED BY <1>2, <1>3, <1>4 DEF ExchangeInv

\* The stage file outlives the agent, and with it the change it may hold.
LEMMA CrashStep == ASSUME ExchangeInv, Crash PROVE ExchangeInv'
<1> USE BoundsAre DEF Goto, Fault
<1>1. ExchangeTypeOK'
  BY DEF ExchangeInv, ExchangeTypeOK, Crash, StageFiles
<1>2. Prepared' /\ Untouched' /\ FailureKeepsOriginal'
  BY DEF ExchangeInv, ExchangeTypeOK, Crash, Prepared, Untouched, FailureKeepsOriginal, Before, InPlace, Idle
<1>3. stage.edit = edits => stage # NoFile
  BY DEF ExchangeInv, ExchangeTypeOK, NoFile
<1>4. Accounted'
  BY <1>3 DEF ExchangeInv, ExchangeTypeOK, Crash, Accounted, Settled, Before, InPlace, Idle
<1> QED BY <1>1, <1>2, <1>4 DEF ExchangeInv

LEMMA EditStep == ASSUME ExchangeInv, Edit PROVE ExchangeInv'
<1> USE BoundsAre
<1>1. ExchangeTypeOK'
  BY DEF ExchangeInv, ExchangeTypeOK, Edit, Contents
<1>2. Prepared' /\ Untouched' /\ FailureKeepsOriginal'
  BY DEF ExchangeInv, ExchangeTypeOK, Edit, Prepared, Untouched, FailureKeepsOriginal
<1>3. Accounted'
  BY DEF ExchangeInv, ExchangeTypeOK, Edit, Accounted, Settled, InPlace
<1> QED BY <1>1, <1>2, <1>3 DEF ExchangeInv

LEMMA ExchangeStutter == ASSUME ExchangeInv, UNCHANGED exchangeVars PROVE ExchangeInv'
BY DEF ExchangeInv, ExchangeTypeOK, Prepared, Untouched, Accounted, Settled, FailureKeepsOriginal, Idle, exchangeVars

LEMMA ExchangeInductive == ExchangeSpec => []ExchangeInv
<1>1. ExchangeInv /\ [ExchangeNext]_exchangeVars => ExchangeInv'
  BY CallStep, ReadStep, CreateStageStep, WriteStageStep, SwapStep, CheckDisplacedStep, VerifyStep,
     SyncStep, SwapBackStep, CleanupStep, CrashStep, EditStep, ExchangeStutter DEF ExchangeNext
<1> QED BY ExchangeInitInv, <1>1, PTL DEF ExchangeSpec

\* The path of the configuration holds a whole configuration at every step of
\* ExchangeConfig, crashes included, however many calls and edits there are.
THEOREM ExchangeTyped == ExchangeSpec => []ExchangeTypeOK
<1>1. ExchangeInv => ExchangeTypeOK
  BY DEF ExchangeInv
<1> QED BY ExchangeInductive, <1>1, PTL

\* A call of ExchangeConfig that fails while nobody edits has put the original back,
\* or keeps it beside the path.
THEOREM OriginalIsKept == ExchangeSpec => []FailureKeepsOriginal
<1>1. ExchangeInv => FailureKeepsOriginal
  BY DEF ExchangeInv
<1> QED BY ExchangeInductive, <1>1, PTL

\* Between calls the administrator's last change is at the path or among the files
\* kept as evidence, unless it was made while the agent's own file was in place.
THEOREM LastEditIsKept == ExchangeSpec => []EditKeptUnlessRaced
<1>1. ExchangeInv => EditKeptUnlessRaced
  BY DEF ExchangeInv, Accounted, Settled, EditKeptUnlessRaced, Idle
<1> QED BY ExchangeInductive, <1>1, PTL

(* The compare-and-swap that the calls add up to. *)

\* No file contains an edit that has not been made, and what has passed the check is
\* what the caller has seen.
Checked ==
  /\ conf.edit <= edits /\ stage.edit <= edits /\ expected.edit <= edits
  /\ pc \in {"verify", "sync"} => stage = expected

LEMMA CheckedInit == ExchangeInit => Checked
BY DEF ExchangeInit, Checked, NoFile

LEMMA CheckedStep ==
  ASSUME ExchangeInv, Checked, [ExchangeNext]_exchangeVars
  PROVE  Checked'
<1>1. /\ edits \in Nat /\ proposed.edit = expected.edit /\ conf \in Contents
      /\ pc = "swap" => stage = proposed
  BY DEF ExchangeInv, ExchangeTypeOK, Prepared
<1>2. CASE Call
  BY <1>1, <1>2 DEF Checked, Call
<1>3. CASE Read \/ CheckDisplaced \/ VerifyDestination \/ SyncDirectory
  BY <1>3 DEF Checked, Read, CheckDisplaced, VerifyDestination, SyncDirectory, Goto, Return
<1>4. CASE CreateStage \/ WriteStage
  BY <1>1, <1>4 DEF Checked, CreateStage, WriteStage, Goto, Return, Partial
<1>5. CASE Swap \/ SwapBack
  BY <1>5 DEF Checked, Swap, SwapBack, Goto, Return
<1>6. CASE Cleanup \/ Crash
  BY <1>1, <1>6 DEF Checked, Cleanup, Crash, Goto, NoFile
<1>7. CASE Edit
  <2>1. stage.edit \in Int /\ expected.edit \in Int
    BY DEF ExchangeInv, ExchangeTypeOK, StageFiles, Contents, Partial, NoFile
  <2>2. UNCHANGED <<stage, expected, pc>> /\ conf'.edit = edits + 1 /\ edits' = edits + 1
    BY <1>7 DEF Edit
  <2> QED BY <1>1, <2>1, <2>2 DEF Checked
<1>8. CASE UNCHANGED exchangeVars
  BY <1>8 DEF Checked, exchangeVars
<1> QED BY <1>2, <1>3, <1>4, <1>5, <1>6, <1>7, <1>8 DEF ExchangeNext

PromisedStep == Promise!Next \/ UNCHANGED Promise!vars

LEMMA PromisedInit == ExchangeInit => Promise!Init
<1> SUFFICES ASSUME ExchangeInit PROVE Promise!Init
  OBVIOUS
<1>1. conf \in Contents
  BY BoundsAre DEF ExchangeInit, Contents
<1> QED BY <1>1 DEF ExchangeInit, Promise!Init, LateEdit, InPlace

\* What the path holds in the end: the proposal, or the edit that came on top of it.
LEMMA WhatStays ==
  ASSUME ExchangeInv, pc \in InPlace
  PROVE  conf = IF LateEdit = NoFile THEN proposed ELSE LateEdit
<1>1. conf # NoFile
  BY DEF ExchangeInv, ExchangeTypeOK, Contents, NoFile
<1> QED BY <1>1 DEF LateEdit

LEMMA CallPromised == ASSUME ExchangeInv, Call PROVE Promise!Next
<1>1. conf \in Contents /\ proposed' = [conf EXCEPT !.version = 1 - @]
  BY DEF ExchangeInv, ExchangeTypeOK, Call
<1>2. proposed' \in Contents
  BY <1>1 DEF Contents
<1>3. Promise!Ask
  BY <1>2 DEF Promise!Ask, Call, Idle, LateEdit, InPlace
<1> QED BY <1>3 DEF Promise!Next

\* Nothing of these steps is seen from outside, unless they end the call.
LEMMA PreparationPromised ==
  ASSUME ExchangeInv, Read \/ CreateStage \/ WriteStage
  PROVE  PromisedStep
<1>1. CASE Read /\ pc' = "idle"
  <2>1. Promise!Refuse
    BY <1>1 DEF Read, Promise!Refuse, Promise!Settle, LateEdit, InPlace, Goto
  <2> QED BY <2>1 DEF Promise!Next, PromisedStep
<1>2. CASE Read /\ pc' # "idle"
  BY <1>2 DEF Read, PromisedStep, Promise!vars, LateEdit, InPlace, Goto
<1>3. CASE CreateStage /\ pc' = "idle"
  <2>1. Promise!Refuse
    BY <1>3 DEF CreateStage, Promise!Refuse, Promise!Settle, LateEdit, InPlace, Goto
  <2> QED BY <2>1 DEF Promise!Next, PromisedStep
<1>4. CASE CreateStage /\ pc' # "idle"
  BY <1>4 DEF CreateStage, PromisedStep, Promise!vars, LateEdit, InPlace, Goto
<1>5. CASE WriteStage /\ pc' = "cleanup"
  <2>1. ~keepStage
    BY <1>5 DEF ExchangeInv, Prepared, Before, WriteStage
  <2>2. Promise!Refuse
    BY <1>5, <2>1 DEF WriteStage, Promise!Refuse, Promise!Settle, LateEdit, InPlace, Goto, Return
  <2> QED BY <2>2 DEF Promise!Next, PromisedStep
<1>6. CASE WriteStage /\ pc' # "cleanup"
  BY <1>6 DEF WriteStage, PromisedStep, Promise!vars, LateEdit, InPlace, Goto, Return
<1> QED BY <1>1, <1>2, <1>3, <1>4, <1>5, <1>6

\* The exchange itself is not seen: the displaced file still counts.
LEMMA SwapPromised == ASSUME ExchangeInv, Swap PROVE PromisedStep
<1>1. pc = "swap" /\ stage = proposed /\ ~keepStage /\ proposed' = proposed /\ keepStage' = keepStage
  BY DEF ExchangeInv, Prepared, Before, Swap
<1>2. CASE pc' = "cleanup"
  <2>1. Promise!Refuse
    BY <1>1, <1>2 DEF Swap, Promise!Refuse, Promise!Settle, LateEdit, InPlace, Goto, Return
  <2> QED BY <2>1 DEF Promise!Next, PromisedStep
<1>3. CASE pc' # "cleanup"
  <2>1. pc' = "displaced" /\ conf' = proposed /\ stage' = conf
    BY <1>1, <1>3 DEF Swap, Goto, Return
  <2>2. UNCHANGED <<kept, expected, proposed, result, keepStage, edits>>
    BY <1>3 DEF Swap, Goto, Return
  <2>3. LateEdit = NoFile /\ LateEdit' = NoFile
    BY <1>1, <2>1 DEF LateEdit, InPlace
  <2>4. pc \notin InPlace /\ pc' \in InPlace /\ pc # "cleanup" /\ pc' # "cleanup"
    BY <1>1, <2>1 DEF InPlace
  <2> QED BY <1>1, <2>1, <2>2, <2>3, <2>4 DEF PromisedStep, Promise!vars
<1> QED BY <1>2, <1>3

LEMMA ChecksPromised ==
  ASSUME ExchangeInv, CheckDisplaced \/ VerifyDestination
  PROVE  PromisedStep
<1>1. pc \in InPlace /\ pc' \in InPlace
  BY DEF CheckDisplaced, VerifyDestination, Goto, InPlace
<1>2. UNCHANGED <<conf, stage, kept, expected, proposed, result, keepStage, edits>>
  BY DEF CheckDisplaced, VerifyDestination
<1> QED BY <1>1, <1>2 DEF PromisedStep, Promise!vars, LateEdit, InPlace

\* Here a successful call takes effect.
LEMMA SyncPromised == ASSUME ExchangeInv, Checked, SyncDirectory PROVE PromisedStep
<1>1. pc = "sync" /\ stage = expected /\ ~keepStage
  BY DEF ExchangeInv, Prepared, Checked, InPlace, SyncDirectory
<1>2. UNCHANGED <<conf, stage, kept, expected, proposed, keepStage, edits>>
  BY DEF SyncDirectory
<1>3. CASE pc' = "cleanup"
  <2>1. result' = "ok"
    BY <1>3 DEF SyncDirectory, Goto, Return
  <2>2. conf = IF LateEdit = NoFile THEN proposed ELSE LateEdit
    BY <1>1, WhatStays DEF InPlace
  <2>3. LateEdit' = NoFile
    BY <1>3 DEF LateEdit, InPlace
  <2>4. Promise!Succeed
    BY <1>1, <1>2, <1>3, <2>1, <2>2, <2>3 DEF Promise!Succeed, Promise!Settle, Promise!Replace, InPlace
  <2> QED BY <2>4 DEF Promise!Next, PromisedStep
<1>4. CASE pc' # "cleanup"
  <2>1. pc' = "undo_error" /\ result' = result
    BY <1>4 DEF SyncDirectory, Goto, Return
  <2> QED BY <1>1, <1>2, <2>1 DEF PromisedStep, Promise!vars, LateEdit, InPlace
<1> QED BY <1>3, <1>4

\* A late edit is lost by a successful exchange back, and stays when that fails.
LEMMA SwapBackPromised == ASSUME ExchangeInv, SwapBack PROVE Promise!Next
<1>1. /\ pc \in InPlace /\ pc \notin {"idle", "cleanup"} /\ ~keepStage
      /\ pc' = "cleanup" /\ result' \in {"conflict", "error"}
  BY DEF ExchangeInv, Prepared, InPlace, SwapBack, Goto, Return
<1>2. UNCHANGED <<kept, expected, proposed, edits>>
  BY DEF SwapBack
<1>3. LateEdit' = NoFile /\ pc' \notin InPlace
  BY <1>1 DEF LateEdit, InPlace
<1>4. CASE conf' = stage /\ UNCHANGED keepStage
  <2>1. Promise!Refuse
    BY <1>1, <1>2, <1>3, <1>4 DEF Promise!Refuse, Promise!Settle
  <2> QED BY <2>1 DEF Promise!Next
<1>5. CASE keepStage' = TRUE /\ UNCHANGED <<conf, stage>>
  <2>1. conf = IF LateEdit = NoFile THEN proposed ELSE LateEdit
    BY <1>1, WhatStays
  <2>2. Promise!LeaveBehind
    BY <1>1, <1>2, <1>3, <1>5, <2>1 DEF Promise!LeaveBehind, Promise!Settle, Promise!Replace
  <2> QED BY <2>2 DEF Promise!Next
<1> QED BY <1>4, <1>5 DEF SwapBack

LEMMA CleanupPromised == ASSUME ExchangeInv, Cleanup PROVE PromisedStep
BY DEF Cleanup, Goto, PromisedStep, Promise!vars, LateEdit, InPlace

\* The agent dies with its file in place, or with the old one.
LEMMA CrashPromised == ASSUME ExchangeInv, Crash PROVE Promise!Next
<1>1. pc' = "idle" /\ result' = "none" /\ UNCHANGED <<conf, expected, proposed, keepStage, edits>>
  BY DEF Crash, Goto
<1>2. LateEdit' = NoFile
  BY <1>1 DEF LateEdit, InPlace
<1>3. CASE pc \in InPlace
  <2>1. stage \in Contents
    BY <1>3 DEF ExchangeInv, Prepared
  <2>2. kept' = kept \cup {stage}
    BY <2>1 DEF Crash, Contents, NoFile
  <2>3. conf = IF LateEdit = NoFile THEN proposed ELSE LateEdit
    BY <1>3, WhatStays
  <2>4. pc \notin {"idle", "cleanup"}
    BY <1>3 DEF InPlace
  <2>5. Promise!LeaveBehind
    BY <1>1, <1>2, <1>3, <2>2, <2>3, <2>4 DEF Promise!LeaveBehind, Promise!Settle, Promise!Replace, InPlace
  <2> QED BY <2>5 DEF Promise!Next
<1>4. CASE pc \notin InPlace
  <2>1. LateEdit = NoFile
    BY <1>4 DEF LateEdit
  <2>2. pc = "cleanup" /\ keepStage => stage # NoFile
    BY DEF ExchangeInv, Prepared, Contents, NoFile
  <2>3. Promise!Die
    BY <1>1, <1>2, <1>4, <2>1, <2>2 DEF Promise!Die, Crash, InPlace
  <2> QED BY <2>3 DEF Promise!Next
<1> QED BY <1>3, <1>4

LEMMA EditPromised == ASSUME ExchangeInv, Checked, Edit PROVE Promise!Next
<1>1. /\ conf' = [edit |-> edits + 1, version |-> 0] /\ edits' = edits + 1
      /\ UNCHANGED <<stage, kept, pc, expected, proposed, result, keepStage>>
  BY DEF Edit
<1>2. conf' \in Contents
  BY BoundsAre, <1>1 DEF ExchangeInv, ExchangeTypeOK, Edit, Contents
<1>3. CASE pc \in InPlace
  <2>1. proposed.edit <= edits /\ edits \in Nat
    BY DEF ExchangeInv, ExchangeTypeOK, Prepared, Checked
  <2>2. conf' # proposed
    BY <1>1, <2>1
  <2>3. LateEdit' = conf' /\ pc \notin {"idle", "cleanup"}
    BY <1>1, <1>3, <2>2 DEF LateEdit, InPlace
  <2>4. Promise!Edit
    BY <1>1, <1>2, <1>3, <2>3 DEF Promise!Edit
  <2> QED BY <2>4 DEF Promise!Next
<1>4. CASE pc \notin InPlace
  <2>1. LateEdit' = LateEdit
    BY <1>1, <1>4 DEF LateEdit
  <2>2. Promise!Edit
    BY <1>1, <1>2, <1>4, <2>1 DEF Promise!Edit
  <2> QED BY <2>2 DEF Promise!Next
<1> QED BY <1>3, <1>4

LEMMA PromisedSteps ==
  ASSUME ExchangeInv, Checked, [ExchangeNext]_exchangeVars
  PROVE  [Promise!Next]_(Promise!vars)
<1>1. CASE Call \/ SwapBack \/ Crash \/ Edit
  BY <1>1, CallPromised, SwapBackPromised, CrashPromised, EditPromised
<1>2. CASE Read \/ CreateStage \/ WriteStage \/ Swap \/ Cleanup
  BY <1>2, PreparationPromised, SwapPromised, CleanupPromised DEF PromisedStep
<1>3. CASE CheckDisplaced \/ VerifyDestination \/ SyncDirectory
  BY <1>3, ChecksPromised, SyncPromised DEF PromisedStep
<1>4. CASE UNCHANGED exchangeVars
  BY <1>4 DEF exchangeVars, Promise!vars, LateEdit
<1> QED BY <1>1, <1>2, <1>3, <1>4 DEF ExchangeNext

\* The system calls of ExchangeConfig, with whatever fails, dies or edits between them,
\* implement a single compare-and-swap: nothing but an edit of the agent's own file, made
\* before the call has finished its checks, can be lost.
THEOREM ExchangeIsCompareAndSwap == ExchangeSpec => IsCompareAndSwap
<1>1. ExchangeSpec => []Checked
  <2>1. ExchangeInv /\ Checked /\ [ExchangeNext]_exchangeVars => Checked'
    BY CheckedStep
  <2> QED BY CheckedInit, ExchangeInductive, <2>1, PTL DEF ExchangeSpec
<1>2. ExchangeInv /\ Checked /\ [ExchangeNext]_exchangeVars => [Promise!Next]_(Promise!vars)
  BY PromisedSteps
<1> QED BY PromisedInit, ExchangeInductive, <1>1, <1>2, PTL
        DEF ExchangeSpec, IsCompareAndSwap, Promise!Spec
-----------------------------------------------------------------------------
(* Numbers, and the elements of a sequence at some indices. *)

\* Every set of numbers that is not empty has a least element.
LEMMA LeastNumber ==
  ASSUME NEW S \in SUBSET Nat, S # {}
  PROVE  \E m \in S : \A n \in S : m <= n
<1> DEFINE R == OpToRel(<, Nat)
<1>1. IsWellFoundedOn(R, Nat)
  BY NatLessThanWellFounded, Zenon
<1>2. \A x, y \in Nat : x < y => <<x, y>> \in R
  BY DEF OpToRel
<1> HIDE DEF R
<1>3. PICK m \in S : \A n \in S : ~(<<n, m>> \in R)
  BY <1>1, WFMin
<1>4. \A n \in S : ~(n < m)
  BY <1>2, <1>3, Zenon
<1>5. \A n \in S : m <= n
  BY <1>4
<1> QED BY <1>5

\* The operators of the community modules are choices; here is what they choose.
LEMMA MinIs ==
  ASSUME NEW S \in SUBSET Int, NEW m \in S, \A x \in S : m <= x
  PROVE  Min(S) = m
<1>1. \A y \in S : (\A x \in S : y =< x) => y = m
  OBVIOUS
<1> QED BY <1>1 DEF Min

LEMMA MaxIs ==
  ASSUME NEW S \in SUBSET Int, NEW m \in S, \A x \in S : x <= m
  PROVE  Max(S) = m
<1>1. \A y \in S : (\A x \in S : y >= x) => y = m
  OBVIOUS
<1>2. m \in S /\ \A x \in S : m >= x
  OBVIOUS
<1> QED BY <1>1, <1>2 DEF Max

LEMMA MinFact ==
  ASSUME NEW S \in SUBSET Nat, S # {}
  PROVE  Min(S) \in S /\ \A x \in S : Min(S) <= x
<1>1. PICK m \in S : \A x \in S : m <= x
  BY LeastNumber
<1>2. Min(S) = m
  BY <1>1, MinIs
<1> QED BY <1>1, <1>2

LEMMA MaxFact ==
  ASSUME NEW n \in Nat, NEW S \in SUBSET (1 .. n), S # {}
  PROVE  Max(S) \in S /\ \A x \in S : x <= Max(S)
<1> DEFINE T == {n - x : x \in S}
<1>1. T \in SUBSET Nat /\ T # {}
  <2>1. PICK x \in S : TRUE
    OBVIOUS
  <2>2. n - x \in T
    OBVIOUS
  <2>3. \A y \in S : n - y \in Nat
    OBVIOUS
  <2> QED BY <2>2, <2>3
<1>2. S \in SUBSET Int
  OBVIOUS
<1> HIDE DEF T
<1>3. PICK t \in T : \A y \in T : t <= y
  BY <1>1, LeastNumber
<1>4. PICK m \in S : t = n - m
  BY DEF T
<1>5. \A x \in S : x <= m
  <2> TAKE x \in S
  <2>1. n - x \in T
    BY DEF T
  <2> QED BY <2>1, <1>3, <1>4
<1>6. Max(S) = m
  BY <1>5, <1>2, MaxIs
<1> QED BY <1>5, <1>6

\* g lists S in order.
InOrder(g, n, S) ==
  /\ g \in [1 .. n -> S]
  /\ \A i, j \in 1 .. n : i < j => g[i] < g[j]
  /\ \A x \in S : \E i \in 1 .. n : g[i] = x

\* A list of the elements in ascending order is the one Nth gives.
LEMMA NthIs ==
  ASSUME NEW S \in SUBSET Nat, NEW n \in Nat, NEW g, InOrder(g, n, S)
  PROVE  Cardinality(S) = n /\ \A i \in 1 .. n : Nth(S, i) = g[i]
<1>1. /\ g \in [1 .. n -> S]
      /\ \A i, j \in 1 .. n : i < j => g[i] < g[j]
      /\ \A x \in S : \E i \in 1 .. n : g[i] = x
  BY DEF InOrder
<1>2. \A i \in 1 .. n : g[i] \in Nat /\ g[i] \in S
  BY <1>1
<1>3. \A i, j \in 1 .. n : g[i] = g[j] => i = j
  <2> SUFFICES ASSUME NEW i \in 1 .. n, NEW j \in 1 .. n, i < j PROVE g[i] # g[j]
    OBVIOUS
  <2>1. g[i] < g[j]
    BY <1>1
  <2> QED BY <2>1, <1>2
<1>4. g \in Bijection(1 .. n, S)
  BY <1>1, <1>3, Zenon DEF Bijection, Injection, Surjection, IsInjective
<1>5. Cardinality(S) = n
  BY <1>4, FS_CountingElements, Zenon DEF ExistsBijection
<1>6. ASSUME NEW i \in 1 .. n PROVE Cardinality({j \in S : j <= g[i]}) = i
  <2> DEFINE h == [k \in 1 .. i |-> g[k]]
             T == {j \in S : j <= g[i]}
  <2>1. \A k \in 1 .. i : g[k] \in T
    <3> TAKE k \in 1 .. i
    <3>1. k = i \/ g[k] < g[i]
      BY <1>1
    <3> QED BY <3>1, <1>2
  <2>2. \A x \in T : \E k \in 1 .. i : g[k] = x
    <3> TAKE x \in T
    <3>1. PICK k \in 1 .. n : g[k] = x
      BY <1>1
    <3>2. ~(i < k)
      BY <3>1, <1>1, <1>2
    <3> QED BY <3>1, <3>2
  <2>3. \A k, l \in 1 .. i : h[k] = h[l] => k = l
    BY <1>3
  <2>4. h \in [1 .. i -> T] /\ \A x \in T : \E k \in 1 .. i : h[k] = x
    BY <2>1, <2>2
  <2>5. i \in Nat
    OBVIOUS
  <2> HIDE DEF h, T
  <2>6. h \in Bijection(1 .. i, T)
    BY <2>3, <2>4, Zenon DEF Bijection, Injection, Surjection, IsInjective
  <2>7. Cardinality(T) = i
    BY <2>6, <2>5, FS_CountingElements, Zenon DEF ExistsBijection
  <2> QED BY <2>7 DEF T
<1>7. ASSUME NEW i \in 1 .. n PROVE Nth(S, i) = g[i]
  <2>1. g[i] \in S
    BY <1>2
  <2>2. \A x \in S : Cardinality({j \in S : j <= x}) = i => x = g[i]
    <3> SUFFICES ASSUME NEW x \in S, Cardinality({j \in S : j <= x}) = i PROVE x = g[i]
      OBVIOUS
    <3>1. PICK k \in 1 .. n : g[k] = x
      BY <1>1
    <3>2. k = i
      BY <1>6, <3>1
    <3> QED BY <3>1, <3>2
  <2>3. Cardinality({j \in S : j <= g[i]}) = i
    BY <1>6
  <2> DEFINE P(x) == Cardinality({j \in S : j <= x}) = i
  <2>4. Nth(S, i) = CHOOSE x \in S : P(x)
    BY DEF Nth
  <2>5. P(g[i]) /\ \A x \in S : P(x) => x = g[i]
    BY <2>2, <2>3
  <2> HIDE DEF P
  <2> QED BY <2>1, <2>4, <2>5
<1> QED BY <1>5, <1>7

\* Every finite set of positions is listed by Nth.
LEMMA NthLists ==
  ASSUME NEW m \in Nat, NEW S \in SUBSET (1 .. m)
  PROVE  /\ IsFiniteSet(S) /\ Cardinality(S) \in Nat
         /\ InOrder([i \in 1 .. Cardinality(S) |-> Nth(S, i)], Cardinality(S), S)
<1>1. S \in SUBSET Int
  OBVIOUS
<1>2. IsFiniteSet(S)
  BY FS_Interval, FS_Subset, 1 \in Int, m \in Int
<1>3. PICK n : n = Cardinality(S)
  OBVIOUS
<1>4. n \in Nat
  BY <1>2, <1>3, FS_CardinalityType
<1> DEFINE T(x) == {j \in S : j <= x}
           r == [x \in S |-> Cardinality(T(x))]
<1>5. ASSUME NEW x \in S PROVE IsFiniteSet(T(x)) /\ r[x] \in 1 .. n /\ r[x] = Cardinality(T(x))
  <2>1. T(x) \in SUBSET S /\ x \in T(x)
    OBVIOUS
  <2>2. IsFiniteSet(T(x)) /\ Cardinality(T(x)) <= n
    BY <1>2, <1>3, <2>1, FS_Subset
  <2>3. Cardinality(T(x)) \in Nat /\ Cardinality(T(x)) # 0
    BY <2>1, <2>2, FS_CardinalityType, FS_EmptySet
  <2>4. r[x] = Cardinality(T(x))
    OBVIOUS
  <2> HIDE DEF T, r
  <2> QED BY <2>2, <2>3, <2>4, <1>4
<1>6. ASSUME NEW x \in S, NEW y \in S, x < y PROVE r[x] < r[y]
  <2>1. x \in Int /\ y \in Int /\ \A z \in S : z \in Int
    BY <1>1
  <2>2. T(x) \in SUBSET T(y) /\ y \in T(y) /\ y \notin T(x)
    <3>1. \A z \in S : z <= x => z <= y
      BY <1>6, <2>1
    <3>2. y <= y /\ ~(y <= x)
      BY <1>6, <2>1
    <3> QED BY <3>1, <3>2
  <2>3. IsFiniteSet(T(y)) /\ r[x] = Cardinality(T(x)) /\ r[y] = Cardinality(T(y))
    BY <1>5
  <2>4. Cardinality(T(x)) <= Cardinality(T(y)) /\ (Cardinality(T(y)) = Cardinality(T(x)) => T(y) = T(x))
    BY <2>2, <2>3, FS_Subset
  <2>5. T(y) # T(x)
    BY <2>2
  <2>6. r[x] \in Int /\ r[y] \in Int
    BY <1>5
  <2> HIDE DEF T, r
  <2> QED BY <2>3, <2>4, <2>5, <2>6
<1>7. r \in [S -> 1 .. n]
  <2>1. r = [x \in S |-> r[x]]
    OBVIOUS
  <2> HIDE DEF r
  <2> QED BY <1>5, <2>1
<1>8. \A x, y \in S : r[x] = r[y] => x = y
  <2> SUFFICES ASSUME NEW x \in S, NEW y \in S, x < y PROVE r[x] # r[y]
    OBVIOUS
  <2>1. r[x] < r[y]
    BY <1>6
  <2>2. r[x] \in Int /\ r[y] \in Int
    BY <1>5
  <2> HIDE DEF r
  <2> QED BY <2>1, <2>2
<1>9. \A i \in 1 .. n : \E x \in S : r[x] = i
  <2> HIDE DEF r
  <2>1. r \in Injection(S, 1 .. n)
    BY <1>7, <1>8, Zenon DEF Injection, IsInjective
  <2>2. IsFiniteSet(1 .. n) /\ Cardinality(1 .. n) = n
    BY <1>4, FS_Interval
  <2>3. r \in Surjection(S, 1 .. n)
    BY <2>1, <2>2, <1>3, FS_Injection, Zenon
  <2> QED BY <2>3, Zenon DEF Surjection
<1>10. ASSUME NEW i \in 1 .. n PROVE Nth(S, i) \in S /\ r[Nth(S, i)] = i
  <2>1. PICK x \in S : r[x] = i
    BY <1>9
  <2> DEFINE P(y) == Cardinality(T(y)) = i
  <2>2. Nth(S, i) = CHOOSE y \in S : P(y)
    BY DEF Nth
  <2>3. P(x)
    BY <2>1, <1>5
  <2>4. Nth(S, i) \in S /\ P(Nth(S, i))
    <3> HIDE DEF P
    <3> QED BY <2>2, <2>3
  <2>5. r[Nth(S, i)] = Cardinality(T(Nth(S, i)))
    BY <2>4, <1>5
  <2> HIDE DEF r, T
  <2> QED BY <2>4, <2>5 DEF P
<1> DEFINE g == [i \in 1 .. n |-> Nth(S, i)]
<1>11. g \in [1 .. n -> S]
  BY <1>10
<1>12. \A i, j \in 1 .. n : i < j => g[i] < g[j]
  <2> SUFFICES ASSUME NEW i \in 1 .. n, NEW j \in 1 .. n, i < j, ~(g[i] < g[j]) PROVE FALSE
    OBVIOUS
  <2>1. g[i] \in S /\ g[j] \in S /\ r[g[i]] = i /\ r[g[j]] = j
    BY <1>10
  <2>2. g[j] = g[i] \/ g[j] < g[i]
    <3>1. g[i] \in Int /\ g[j] \in Int
      BY <1>1, <2>1
    <3> HIDE DEF g
    <3> QED BY <3>1
  <2>3. CASE g[j] = g[i]
    <3> HIDE DEF r, g
    <3> QED BY <2>1, <2>3
  <2>4. CASE g[j] < g[i]
    <3> HIDE DEF r, g
    <3>1. r[g[j]] < r[g[i]]
      BY <1>6, <2>1, <2>4
    <3> QED BY <2>1, <3>1
  <2> QED BY <2>2, <2>3, <2>4
<1>13. \A x \in S : \E i \in 1 .. n : g[i] = x
  <2> TAKE x \in S
  <2>1. r[x] \in 1 .. n
    BY <1>5
  <2>2. g[r[x]] \in S /\ r[g[r[x]]] = r[x]
    BY <2>1, <1>10
  <2>3. g[r[x]] = x
    <3> HIDE DEF r, g
    <3> QED BY <1>8, <2>2
  <2> QED BY <2>1, <2>3
<1>14. InOrder(g, n, S)
  <2> HIDE DEF g
  <2> QED BY <1>11, <1>12, <1>13 DEF InOrder
<1> QED BY <1>2, <1>3, <1>4, <1>14

\* What SelectIndices gives, by any ascending list of the indices.
LEMMA SelectIs ==
  ASSUME NEW S \in SUBSET Nat, NEW n \in Nat, NEW g, InOrder(g, n, S), NEW d
  PROVE  SelectIndices(d, S) = [i \in 1 .. n |-> d[g[i]]]
BY NthIs DEF SelectIndices

\* SelectIndices gives a sequence, with as many elements as there are indices.
LEMMA SelectFact ==
  ASSUME NEW T, NEW x \in Seq(T), NEW S \in SUBSET (1 .. Len(x))
  PROVE  \E n \in Nat : \E g :
           /\ InOrder(g, n, S) /\ n = Cardinality(S)
           /\ SelectIndices(x, S) = [i \in 1 .. n |-> x[g[i]]]
           /\ SelectIndices(x, S) \in Seq(T) /\ Len(SelectIndices(x, S)) = n
<1>1. PICK m : m = Len(x)
  OBVIOUS
<1>2. m \in Nat /\ \A i \in 1 .. m : x[i] \in T
  BY <1>1
<1>3. PICK n : n = Cardinality(S)
  OBVIOUS
<1>4. PICK g : g = [i \in 1 .. n |-> Nth(S, i)]
  OBVIOUS
<1>5. n \in Nat /\ InOrder(g, n, S)
  BY <1>1, <1>2, <1>3, <1>4, NthLists
<1>6. S \in SUBSET Nat
  BY <1>1, <1>2
<1>7. SelectIndices(x, S) = [i \in 1 .. n |-> x[g[i]]]
  BY <1>5, <1>6, SelectIs
<1>8. \A i \in 1 .. n : g[i] \in S
  BY <1>5 DEF InOrder
<1>9. \A i \in 1 .. n : x[g[i]] \in T
  BY <1>1, <1>2, <1>8
<1>10. SelectIndices(x, S) \in Seq(T) /\ Len(SelectIndices(x, S)) = n
  BY <1>5, <1>7, <1>9
<1> QED BY <1>3, <1>5, <1>7, <1>10

\* Only the elements at the indices matter.
LEMMA SelectSame ==
  ASSUME NEW m \in Nat, NEW S \in SUBSET (1 .. m), NEW x, NEW y, \A i \in S : x[i] = y[i]
  PROVE  SelectIndices(x, S) = SelectIndices(y, S)
<1>1. PICK n : n = Cardinality(S)
  OBVIOUS
<1>2. PICK g : g = [i \in 1 .. n |-> Nth(S, i)]
  OBVIOUS
<1>3. n \in Nat /\ InOrder(g, n, S)
  BY <1>1, <1>2, NthLists
<1>4. S \in SUBSET Nat
  OBVIOUS
<1>5. \A i \in 1 .. n : x[g[i]] = y[g[i]]
  BY <1>3 DEF InOrder
<1>6. SelectIndices(x, S) = [i \in 1 .. n |-> x[g[i]]]
  BY <1>3, <1>4, SelectIs
<1>7. SelectIndices(y, S) = [i \in 1 .. n |-> y[g[i]]]
  BY <1>3, <1>4, SelectIs
<1> QED BY <1>5, <1>6, <1>7

\* All indices give the whole sequence.
LEMMA SelectAll ==
  ASSUME NEW T, NEW x \in Seq(T)
  PROVE  SelectIndices(x, 1 .. Len(x)) = x
<1>1. PICK n : n = Len(x)
  OBVIOUS
<1>2. n \in Nat /\ x = [i \in 1 .. n |-> x[i]]
  BY <1>1
<1>3. PICK g : g = [i \in 1 .. n |-> i]
  OBVIOUS
<1>4. InOrder(g, n, 1 .. n)
  BY <1>2, <1>3 DEF InOrder
<1>5. (1 .. n) \in SUBSET Nat
  BY <1>2
<1>6. PICK S : S = 1 .. n
  OBVIOUS
<1>7. S \in SUBSET Nat /\ InOrder(g, n, S)
  BY <1>4, <1>5, <1>6
<1>8. SelectIndices(x, S) = [i \in 1 .. n |-> x[g[i]]]
  <2>1. n \in Nat
    BY <1>2
  <2>2. Cardinality(S) = n /\ \A i \in 1 .. n : Nth(S, i) = g[i]
    BY <2>1, <1>7, NthIs
  <2> QED BY <2>2 DEF SelectIndices
<1>9. SelectIndices(x, 1 .. n) = [i \in 1 .. n |-> x[g[i]]]
  BY <1>6, <1>8
<1>10. SelectIndices(x, 1 .. n) = x
  BY <1>2, <1>3, <1>9
<1> QED BY <1>1, <1>10

\* Selecting twice is selecting once.
LEMMA SelectSelect ==
  ASSUME NEW T, NEW x \in Seq(T), NEW S \in SUBSET (1 .. Len(x)), NEW n \in Nat, NEW g,
         InOrder(g, n, S), NEW U \in SUBSET (1 .. n)
  PROVE  SelectIndices(SelectIndices(x, S), U) = SelectIndices(x, {g[i] : i \in U})
<1>1. PICK m : m = Len(x)
  OBVIOUS
<1>2. m \in Nat /\ S \in SUBSET (1 .. m) /\ S \in SUBSET Nat
  BY <1>1
<1>3. InOrder(g, n, S)
  OBVIOUS
<1>4. PICK k, h : /\ k \in Nat /\ InOrder(h, k, U) /\ k = Cardinality(U)
                  /\ h = [i \in 1 .. k |-> Nth(U, i)]
  <2>1. PICK k : k = Cardinality(U)
    OBVIOUS
  <2>2. PICK h : h = [i \in 1 .. k |-> Nth(U, i)]
    OBVIOUS
  <2> QED BY <2>1, <2>2, NthLists
<1>5. PICK z : z = SelectIndices(x, S)
  OBVIOUS
<1>6. SelectIndices(x, S) = [i \in 1 .. n |-> x[g[i]]]
  BY <1>2, <1>3, SelectIs
<1>7. z = [i \in 1 .. n |-> x[g[i]]]
  BY <1>5, <1>6
<1>8. U \in SUBSET Nat
  OBVIOUS
<1>9. SelectIndices(z, U) = [i \in 1 .. k |-> z[h[i]]]
  BY <1>4, <1>8, SelectIs
<1>10. /\ \A i \in 1 .. k : h[i] \in U /\ h[i] \in 1 .. n
       /\ \A i, j \in 1 .. k : i < j => h[i] < h[j]
       /\ \A y \in U : \E i \in 1 .. k : h[i] = y
  BY <1>4 DEF InOrder
<1>11. /\ \A i \in 1 .. n : g[i] \in S /\ g[i] \in Nat
       /\ \A i, j \in 1 .. n : i < j => g[i] < g[j]
  BY <1>2 DEF InOrder
<1>12. PICK W : W = {g[i] : i \in U}
  OBVIOUS
<1>13. PICK f : f = [i \in 1 .. k |-> g[h[i]]]
  OBVIOUS
<1>14. \A i \in 1 .. k : g[h[i]] \in W
  BY <1>10, <1>12
<1>15. \A y \in W : \E i \in 1 .. k : g[h[i]] = y
  BY <1>10, <1>12
<1>16. \A i, j \in 1 .. k : i < j => g[h[i]] < g[h[j]]
  BY <1>10, <1>11
<1>17. InOrder(f, k, W)
  BY <1>13, <1>14, <1>15, <1>16 DEF InOrder
<1>18. W \in SUBSET Nat
  BY <1>11, <1>12
<1>19. SelectIndices(x, W) = [i \in 1 .. k |-> x[f[i]]]
  BY <1>4, <1>17, <1>18, SelectIs
<1>20. \A i \in 1 .. k : z[h[i]] = x[f[i]]
  BY <1>7, <1>10, <1>13
<1> QED BY <1>5, <1>9, <1>12, <1>19, <1>20

\* W is S with the numbers of U behind n.
Follows(W, S, U, n) == W = S \cup {i + n : i \in U}
Both(x, y) == x \o y

\* Selecting from two sequences behind each other is selecting from each of them.
LEMMA SelectConcat ==
  ASSUME NEW T, NEW x \in Seq(T), NEW y \in Seq(T), NEW S \in SUBSET (1 .. Len(x)),
         NEW U \in SUBSET (1 .. Len(y)), NEW W, Follows(W, S, U, Len(x))
  PROVE  SelectIndices(Both(x, y), W) = Both(SelectIndices(x, S), SelectIndices(y, U))
<1>1. PICK m : m = Len(x)
  OBVIOUS
<1>2. m \in Nat /\ S \in SUBSET (1 .. m)
  BY <1>1
<1>3. PICK n \in Nat : \E g :
         /\ InOrder(g, n, S) /\ SelectIndices(x, S) = [i \in 1 .. n |-> x[g[i]]]
         /\ SelectIndices(x, S) \in Seq(T) /\ Len(SelectIndices(x, S)) = n
  BY SelectFact
<1>4. PICK g :
         /\ InOrder(g, n, S) /\ SelectIndices(x, S) = [i \in 1 .. n |-> x[g[i]]]
         /\ SelectIndices(x, S) \in Seq(T) /\ Len(SelectIndices(x, S)) = n
  BY <1>3
<1>5. PICK k \in Nat : \E h :
         /\ InOrder(h, k, U) /\ SelectIndices(y, U) = [i \in 1 .. k |-> y[h[i]]]
         /\ SelectIndices(y, U) \in Seq(T) /\ Len(SelectIndices(y, U)) = k
  BY SelectFact
<1>6. PICK h :
         /\ InOrder(h, k, U) /\ SelectIndices(y, U) = [i \in 1 .. k |-> y[h[i]]]
         /\ SelectIndices(y, U) \in Seq(T) /\ Len(SelectIndices(y, U)) = k
  BY <1>5
<1>7. W = S \cup {i + m : i \in U}
  BY <1>1 DEF Follows
<1>8. PICK f : f = [i \in 1 .. n + k |-> IF i <= n THEN g[i] ELSE h[i - n] + m]
  OBVIOUS
<1>9. /\ \A i \in 1 .. n : g[i] \in S /\ g[i] \in 1 .. m
      /\ \A i, j \in 1 .. n : i < j => g[i] < g[j]
      /\ \A z \in S : \E i \in 1 .. n : g[i] = z
  BY <1>2, <1>4 DEF InOrder
<1>10. /\ \A i \in 1 .. k : h[i] \in U /\ h[i] \in 1 .. Len(y)
       /\ \A i, j \in 1 .. k : i < j => h[i] < h[j]
       /\ \A z \in U : \E i \in 1 .. k : h[i] = z
  BY <1>6 DEF InOrder
<1>11. \A i \in 1 .. n : f[i] = g[i]
  BY <1>8
<1>12. \A i \in 1 .. k : f[i + n] = h[i] + m
  <2> TAKE i \in 1 .. k
  <2>1. i + n \in 1 .. n + k /\ ~(i + n <= n) /\ i + n - n = i
    OBVIOUS
  <2> QED BY <1>8, <2>1
<1>13. \A i \in 1 .. n + k : i \in 1 .. n \/ \E j \in 1 .. k : i = j + n
  <2> TAKE i \in 1 .. n + k
  <2>1. i > n => i - n \in 1 .. k /\ i = (i - n) + n
    OBVIOUS
  <2> QED BY <2>1
<1>14. \A i \in 1 .. k : h[i] \in Nat /\ h[i] > 0
  BY <1>10
<1>15. \A u \in U : u + m \in W
  BY <1>7
<1>16. \A i \in 1 .. n + k : f[i] \in W
  <2> TAKE i \in 1 .. n + k
  <2>1. CASE i \in 1 .. n
    BY <1>7, <1>9, <1>11, <2>1
  <2>2. CASE i \notin 1 .. n
    <3>1. PICK j \in 1 .. k : i = j + n
      BY <1>13, <2>2
    <3> QED BY <1>10, <1>12, <1>15, <3>1
  <2> QED BY <2>1, <2>2
<1>17. \A i, j \in 1 .. n + k : i < j => f[i] < f[j]
  <2> SUFFICES ASSUME NEW i \in 1 .. n + k, NEW j \in 1 .. n + k, i < j PROVE f[i] < f[j]
    OBVIOUS
  <2>1. CASE j <= n
    BY <1>9, <1>11, <2>1
  <2>2. CASE j > n
    <3>1. PICK jj \in 1 .. k : j = jj + n
      BY <1>13, <2>2
    <3>2. f[j] = h[jj] + m /\ h[jj] \in Nat /\ h[jj] > 0
      BY <1>12, <1>14, <3>1
    <3>3. CASE i <= n
      BY <1>2, <1>9, <1>11, <3>2, <3>3
    <3>4. CASE i > n
      <4>1. PICK ii \in 1 .. k : i = ii + n
        BY <1>13, <3>4
      <4>2. f[i] = h[ii] + m /\ h[ii] \in Nat /\ ii < jj
        BY <1>12, <1>14, <3>1, <4>1
      <4> QED BY <1>2, <1>10, <3>2, <4>2
    <3> QED BY <3>3, <3>4
  <2> QED BY <2>1, <2>2
<1>18. \A z \in W : \E i \in 1 .. n + k : f[i] = z
  <2> TAKE z \in W
  <2>1. CASE z \in S
    <3>1. PICK i \in 1 .. n : g[i] = z
      BY <1>9, <2>1
    <3> QED BY <1>11, <3>1
  <2>2. CASE z \notin S
    <3>1. PICK u \in U : z = u + m
      BY <1>7, <2>2
    <3>2. PICK i \in 1 .. k : h[i] = u
      BY <1>10, <3>1
    <3>3. i + n \in 1 .. n + k
      OBVIOUS
    <3> QED BY <1>12, <3>1, <3>2, <3>3
  <2> QED BY <2>1, <2>2
<1>19. f \in [1 .. n + k -> W]
  BY <1>8, <1>16
<1>20. InOrder(f, n + k, W)
  BY <1>17, <1>18, <1>19 DEF InOrder
<1>21. W \in SUBSET Nat
  <2>1. \A u \in U : u \in Nat
    OBVIOUS
  <2>2. \A u \in U : u + m \in Nat
    BY <1>2, <2>1
  <2>3. \A u \in S : u \in Nat
    BY <1>2
  <2> QED BY <1>7, <2>2, <2>3
<1>22. PICK z : z = x \o y
  OBVIOUS
<1>23. SelectIndices(z, W) = [i \in 1 .. n + k |-> z[f[i]]]
  <2>1. PICK r \in Nat : r = n + k
    OBVIOUS
  <2>2. InOrder(f, r, W)
    BY <1>20, <2>1
  <2>3. SelectIndices(z, W) = [i \in 1 .. r |-> z[f[i]]]
    <3>1. Cardinality(W) = r /\ \A i \in 1 .. r : Nth(W, i) = f[i]
      BY <1>21, <2>1, <2>2, NthIs
    <3> QED BY <3>1 DEF SelectIndices
  <2> QED BY <2>1, <2>3
<1>24. /\ \A i \in 1 .. m : z[i] = x[i]
       /\ \A i \in 1 .. Len(y) : z[i + m] = y[i]
  <2>1. Len(y) \in Nat
    OBVIOUS
  <2>2. \A i \in 1 .. m + Len(y) : z[i] = IF i <= m THEN x[i] ELSE y[i - m]
    BY <1>1, <1>22, ConcatProperties
  <2>3. ASSUME NEW i \in 1 .. m PROVE z[i] = x[i]
    <3>1. i \in 1 .. m + Len(y) /\ i <= m
      BY <1>2, <2>1
    <3> QED BY Zenon, <2>2, <3>1
  <2>4. ASSUME NEW i \in 1 .. Len(y) PROVE z[i + m] = y[i]
    <3>1. PICK j : j = i + m
      OBVIOUS
    <3>2. j \in 1 .. m + Len(y) /\ ~(j <= m) /\ j - m = i
      BY <1>2, <2>1, <3>1
    <3>3. z[j] = y[j - m]
      BY Zenon, <2>2, <3>2
    <3> QED BY Zenon, <3>1, <3>2, <3>3
  <2> QED BY <2>3, <2>4
<1>25. PICK p : p = SelectIndices(x, S)
  OBVIOUS
<1>26. PICK q : q = SelectIndices(y, U)
  OBVIOUS
<1>27. /\ p \in Seq(T) /\ q \in Seq(T) /\ Len(p) = n /\ Len(q) = k
       /\ \A i \in 1 .. n : p[i] = x[g[i]]
       /\ \A i \in 1 .. k : q[i] = y[h[i]]
  BY <1>4, <1>6, <1>25, <1>26
<1>28. /\ p \o q \in Seq(T) /\ Len(p \o q) = n + k
       /\ \A i \in 1 .. n + k : (p \o q)[i] = IF i <= n THEN p[i] ELSE q[i - n]
  <2>1. p \o q \in Seq(T) /\ Len(p \o q) = Len(p) + Len(q)
    BY <1>27, ConcatProperties
  <2>2. \A i \in 1 .. Len(p) + Len(q) : (p \o q)[i] = IF i <= Len(p) THEN p[i] ELSE q[i - Len(p)]
    BY <1>27, ConcatProperties
  <2> QED BY <1>27, <2>1, <2>2
<1>29. \A i \in 1 .. n + k : z[f[i]] = (p \o q)[i]
  <2> TAKE i \in 1 .. n + k
  <2>1. CASE i \in 1 .. n
    <3>1. f[i] = g[i] /\ z[g[i]] = x[g[i]]
      BY <1>9, <1>11, <1>24, <2>1
    <3>2. (p \o q)[i] = p[i] /\ p[i] = x[g[i]]
      BY <1>27, <1>28, <2>1
    <3> QED BY <3>1, <3>2
  <2>2. CASE i \notin 1 .. n
    <3>1. PICK j \in 1 .. k : i = j + n
      BY <1>13, <2>2
    <3>2. z[f[i]] = y[h[j]]
      BY <1>10, <1>12, <1>24, <3>1
    <3>3. (p \o q)[i] = q[j]
      <4>1. i \in 1 .. n + k /\ ~(i <= n) /\ i - n = j
        BY <3>1
      <4>2. (p \o q)[i] = q[i - n]
        BY Zenon, <1>28, <4>1
      <4> QED BY Zenon, <4>1, <4>2
    <3> QED BY <1>27, <3>2, <3>3
  <2> QED BY <2>1, <2>2
<1>30. PICK r : r = p \o q
  OBVIOUS
<1>31. r \in Seq(T) /\ Len(r) = n + k
  BY <1>28, <1>30
<1>32. r = [i \in 1 .. n + k |-> r[i]]
  BY <1>31
<1>33. r = [i \in 1 .. n + k |-> z[f[i]]]
  BY <1>29, <1>30, <1>32
<1>34. p \o q = [i \in 1 .. n + k |-> z[f[i]]]
  BY <1>30, <1>33
<1>35. SelectIndices(x \o y, W) = SelectIndices(x, S) \o SelectIndices(y, U)
  BY <1>22, <1>23, <1>25, <1>26, <1>34
<1> QED BY <1>35 DEF Both

-----------------------------------------------------------------------------
(* Blocks, and the gate. *)

PeerHeaders(d) == {h \in Headers(d) : d[h].key = "peer"}
BlockAt(d, h) == SubSeq(d, h, BlockEnd(d, h))
Block(d, h) == [first |-> h, last |-> BlockEnd(d, h), lines |-> BlockAt(d, h)]
HeadersOf(d, p) == {h \in PeerHeaders(d) : PublicKey(BlockAt(d, h)) = p}

Ends(d, h, e) ==
  /\ e \in Int /\ h <= e /\ e <= Len(d)
  /\ \A i \in h + 1 .. e : d[i].kind # "header"
  /\ e = Len(d) \/ d[e + 1].kind = "header"

\* A block ends in front of the next header, or with the document.
LEMMA EndFact ==
  ASSUME NEW T, NEW d \in Seq(T), NEW h \in Headers(d)
  PROVE  Ends(d, h, BlockEnd(d, h)) /\ BlockEnd(d, h) \in Nat /\ h \in Nat /\ h > 0
<1>1. PICK n : n = Len(d)
  OBVIOUS
<1>2. n \in Nat /\ DOMAIN d = 1 .. n
  BY <1>1
<1>3. h \in 1 .. n /\ d[h].kind = "header"
  BY <1>2 DEF Headers
<1>4. PICK S : S = {i \in Headers(d) : i > h} \cup {n + 1}
  OBVIOUS
<1>5. \A i \in S : i = n + 1 \/ (i \in 1 .. n /\ i > h /\ d[i].kind = "header")
  BY <1>2, <1>4 DEF Headers
<1>6. \A i \in S : i \in Nat
  BY <1>2, <1>5
<1>7. S \in SUBSET Nat /\ S # {}
  BY <1>4, <1>6
<1>8. PICK m : m = Min(S)
  OBVIOUS
<1>9. m \in S /\ \A i \in S : m <= i
  BY <1>7, <1>8, MinFact
<1>10. BlockEnd(d, h) = m - 1
  BY <1>1, <1>4, <1>8 DEF BlockEnd
<1>11. m \in Nat /\ m > h /\ m <= n + 1 /\ n + 1 \in S
  BY <1>2, <1>3, <1>4, <1>5, <1>6, <1>9
<1>12. \A i \in h + 1 .. m - 1 : d[i].kind # "header"
  <2> SUFFICES ASSUME NEW i \in h + 1 .. m - 1, d[i].kind = "header" PROVE FALSE
    OBVIOUS
  <2>1. i \in 1 .. n /\ i > h /\ i < m
    BY <1>2, <1>3, <1>11
  <2>2. i \in S
    BY <1>2, <1>4, <2>1 DEF Headers
  <2> QED BY <1>9, <1>11, <2>1, <2>2
<1>13. m - 1 = n \/ d[m - 1 + 1].kind = "header"
  BY <1>2, <1>5, <1>9, <1>11
<1> QED BY <1>1, <1>2, <1>3, <1>10, <1>11, <1>12, <1>13 DEF Ends

LEMMA EndIs ==
  ASSUME NEW T, NEW d \in Seq(T), NEW h \in Headers(d), NEW e, Ends(d, h, e)
  PROVE  BlockEnd(d, h) = e
<1>1. PICK n : n = Len(d)
  OBVIOUS
<1>2. n \in Nat /\ DOMAIN d = 1 .. n
  BY <1>1
<1>3. h \in 1 .. n /\ d[h].kind = "header"
  BY <1>2 DEF Headers
<1>4. PICK f : f = BlockEnd(d, h)
  OBVIOUS
<1>5. /\ f \in Int /\ h <= f /\ f <= n
      /\ \A i \in h + 1 .. f : d[i].kind # "header"
      /\ f = n \/ d[f + 1].kind = "header"
  BY <1>1, <1>4, EndFact DEF Ends
<1>6. /\ e \in Int /\ h <= e /\ e <= n
      /\ \A i \in h + 1 .. e : d[i].kind # "header"
      /\ e = n \/ d[e + 1].kind = "header"
  BY <1>1 DEF Ends
<1>7. ~(e < f)
  BY <1>2, <1>3, <1>5, <1>6
<1>8. ~(f < e)
  BY <1>2, <1>3, <1>5, <1>6
<1> QED BY <1>4, <1>5, <1>6, <1>7, <1>8

\* Blocks and FindPeer by the headers alone.
LEMMA BlocksAre ==
  ASSUME NEW d
  PROVE  /\ Blocks(d) = {Block(d, h) : h \in PeerHeaders(d)}
         /\ \A p : FindPeer(d, p) = {Block(d, h) : h \in HeadersOf(d, p)}
<1>1. Blocks(d) = {Block(d, h) : h \in PeerHeaders(d)}
  BY DEF Blocks, Block, BlockAt, PeerHeaders
<1>2. \A h : Block(d, h).lines = BlockAt(d, h)
  BY DEF Block
<1> QED BY <1>1, <1>2 DEF FindPeer, HeadersOf

\* Cardinalities of 0 and 1, without counting.
LEMMA AtMostOne ==
  ASSUME NEW S, IsFiniteSet(S)
  PROVE  Cardinality(S) <= 1 <=> \A x, y \in S : x = y
<1>1. Cardinality(S) \in Nat /\ (Cardinality(S) = 0 <=> S = {})
  BY FS_EmptySet, FS_CardinalityType
<1>2. CASE S = {}
  BY <1>1, <1>2
<1>3. CASE S # {}
  <2>1. PICK x : x \in S
    BY <1>3
  <2>2. PICK U : U = S \ {x}
    OBVIOUS
  <2>3. IsFiniteSet(U) /\ Cardinality(U) = Cardinality(S) - 1
    BY <2>1, <2>2, FS_RemoveElement
  <2>4. Cardinality(U) \in Nat /\ (Cardinality(U) = 0 <=> U = {})
    BY <2>3, FS_EmptySet, FS_CardinalityType
  <2>5. U = {} <=> \A y, z \in S : y = z
    BY <2>1, <2>2
  <2> QED BY <1>1, <2>3, <2>4, <2>5
<1> QED BY <1>2, <1>3

LEMMA ExactlyOne ==
  ASSUME NEW S, IsFiniteSet(S)
  PROVE  Cardinality(S) = 1 <=> \E x : S = {x}
<1>1. Cardinality(S) \in Nat /\ (Cardinality(S) = 0 <=> S = {})
  BY FS_EmptySet, FS_CardinalityType
<1>2. Cardinality(S) <= 1 <=> \A x, y \in S : x = y
  BY AtMostOne
<1>3. Cardinality(S) = 1 <=> S # {} /\ \A x, y \in S : x = y
  BY <1>1, <1>2
<1>4. (S # {} /\ \A x, y \in S : x = y) <=> \E x : S = {x}
  OBVIOUS
<1> QED BY <1>3, <1>4

LEMMA Finitely ==
  ASSUME NEW T, NEW d \in Seq(T)
  PROVE  /\ IsFiniteSet(Headers(d)) /\ IsFiniteSet(InterfaceHeaders(d))
         /\ \A key : IsFiniteSet(Assigned(d, key))
         /\ IsFiniteSet(Blocks(d)) /\ \A p : IsFiniteSet(FindPeer(d, p))
<1>1. IsFiniteSet(DOMAIN d)
  <2>1. DOMAIN d = 1 .. Len(d) /\ 1 \in Int /\ Len(d) \in Int
    OBVIOUS
  <2> QED BY <2>1, FS_Interval
<1>2. /\ Headers(d) \in SUBSET DOMAIN d /\ InterfaceHeaders(d) \in SUBSET DOMAIN d
      /\ \A key : Assigned(d, key) \in SUBSET DOMAIN d
  BY DEF Headers, InterfaceHeaders, Assigned
<1>3. PeerHeaders(d) \in SUBSET DOMAIN d
  BY DEF Headers, PeerHeaders
<1>4. IsFiniteSet(PeerHeaders(d))
  BY <1>1, <1>3, FS_Subset
<1>5. IsFiniteSet({Block(d, h) : h \in PeerHeaders(d)})
  <2>1. PICK f : f = [h \in PeerHeaders(d) |-> Block(d, h)]
    OBVIOUS
  <2>2. PICK B : B = {Block(d, h) : h \in PeerHeaders(d)}
    OBVIOUS
  <2>3. f \in Surjection(PeerHeaders(d), B)
    BY <2>1, <2>2 DEF Surjection
  <2>4. IsFiniteSet(B)
    BY <1>4, <2>3, FS_Surjection
  <2> QED BY <2>2, <2>4
<1>6. IsFiniteSet(Blocks(d))
  BY <1>5, BlocksAre
<1>7. \A p : FindPeer(d, p) \in SUBSET Blocks(d)
  BY DEF FindPeer
<1> QED BY <1>1, <1>2, <1>6, <1>7, FS_Subset

\* the nearest header at or above the line opens the interface's section
InInterface(d, i) ==
  \E h \in Headers(d) : /\ h <= i /\ d[h].key = "interface"
                        /\ \A j \in h + 1 .. i : d[j].kind # "header"
PrivateKeys(d) == {i \in Assigned(d, "privatekey") : InInterface(d, i)}

Safe(d) ==
  /\ \E h : InterfaceHeaders(d) = {h}
  /\ \A i \in DOMAIN d : d[i].kind # "raw"
  /\ \A h \in Headers(d) : d[h].key \in {"interface", "peer"}
  /\ \A i \in DOMAIN d : d[i].kind = "assignment" => \E h \in Headers(d) : h < i
  /\ \E i : PrivateKeys(d) = {i} /\ ValidSecret(d[i].val)
  /\ \A h \in PeerHeaders(d) : BlockIsSafe(BlockAt(d, h))
  /\ \A g, h \in PeerHeaders(d) : PublicKey(BlockAt(d, g)) = PublicKey(BlockAt(d, h)) => g = h

\* The section of a line, without a maximum.
LEMMA SectionIs ==
  ASSUME NEW T, NEW d \in Seq(T), NEW i \in DOMAIN d
  PROVE  Section(d, i) = "interface" <=> InInterface(d, i)
<1>1. PICK n : n = Len(d)
  OBVIOUS
<1>2. n \in Nat /\ DOMAIN d = 1 .. n /\ i \in 1 .. n
  BY <1>1
<1>3. PICK S : S = {h \in Headers(d) : h <= i}
  OBVIOUS
<1>4. S \in SUBSET (1 .. n)
  BY <1>2, <1>3 DEF Headers
<1>5. \A h \in 1 .. n : h \in S <=> d[h].kind = "header" /\ h <= i
  BY <1>2, <1>3 DEF Headers
<1>6. CASE S = {}
  <2>1. Section(d, i) = ""
    BY <1>3, <1>6 DEF Section
  <2>2. ~InInterface(d, i)
    BY <1>3, <1>6 DEF InInterface
  <2> QED BY <2>1, <2>2
<1>7. CASE S # {}
  <2>1. PICK m : m = Max(S)
    OBVIOUS
  <2>2. m \in S /\ \A h \in S : h <= m
    BY <1>2, <1>4, <1>7, <2>1, MaxFact
  <2>3. Section(d, i) = d[m].key
    BY <1>3, <1>7, <2>1 DEF Section
  <2>4. m \in 1 .. n /\ m <= i /\ m \in Headers(d) /\ d[m].kind = "header"
    BY <1>2, <1>3, <1>4, <1>5, <2>2
  <2>5. \A j \in m + 1 .. i : d[j].kind # "header"
    <3> SUFFICES ASSUME NEW j \in m + 1 .. i, d[j].kind = "header" PROVE FALSE
      OBVIOUS
    <3>1. j \in 1 .. n /\ j <= i /\ m < j
      BY <1>2, <2>4
    <3>2. j \in S
      BY <1>5, <3>1
    <3> QED BY <2>2, <2>4, <3>1, <3>2
  <2>6. \A h \in Headers(d) : h <= i /\ (\A j \in h + 1 .. i : d[j].kind # "header") => h = m
    <3> SUFFICES ASSUME NEW h \in Headers(d), h <= i, \A j \in h + 1 .. i : d[j].kind # "header"
                 PROVE  h = m
      OBVIOUS
    <3>1. h \in 1 .. n /\ h \in S
      BY <1>2, <1>3 DEF Headers
    <3>2. h <= m
      BY <2>2, <3>1
    <3>3. ~(h < m)
      <4> SUFFICES ASSUME h < m PROVE FALSE
        OBVIOUS
      <4>1. m \in h + 1 .. i
        BY <2>4, <3>1, <1>2
      <4> QED BY <4>1, <2>4
    <3> QED BY <2>4, <3>1, <3>2, <3>3
  <2>7. InInterface(d, i) <=> d[m].key = "interface"
    BY <2>4, <2>5, <2>6 DEF InInterface
  <2> QED BY <2>3, <2>7
<1> QED BY <1>6, <1>7

\* The gate every edit passes, as a statement about single lines and headers.
LEMMA SafeIs ==
  ASSUME NEW T, NEW d \in Seq(T)
  PROVE  AdoptionSafe(d) <=> Safe(d)
<1>1. PICK n : n = Len(d)
  OBVIOUS
<1>2. n \in Nat /\ DOMAIN d = 1 .. n
  BY <1>1
<1>3. Cardinality(InterfaceHeaders(d)) = 1 <=> \E h : InterfaceHeaders(d) = {h}
  BY Finitely, ExactlyOne
<1>4. {i \in Assigned(d, "privatekey") : Section(d, i) = "interface"} = PrivateKeys(d)
  <2>1. \A i \in Assigned(d, "privatekey") : i \in DOMAIN d
    BY DEF Assigned
  <2>2. \A i \in Assigned(d, "privatekey") : Section(d, i) = "interface" <=> InInterface(d, i)
    BY <2>1, SectionIs
  <2> QED BY <2>2 DEF PrivateKeys
<1>5. PrivateKeyIsSafe(d) <=> \E i : PrivateKeys(d) = {i} /\ ValidSecret(d[i].val)
  BY <1>4 DEF PrivateKeyIsSafe
<1>6. ~HasUnknown(d) <=>
        /\ \A i \in DOMAIN d : d[i].kind # "raw"
        /\ \A h \in Headers(d) : d[h].key \in {"interface", "peer"}
        /\ \A i \in DOMAIN d : d[i].kind = "assignment" => \E h \in Headers(d) : h < i
  <2>1. PICK S : S = Headers(d) \cup {n + 1}
    OBVIOUS
  <2>2. \A i \in S : i \in Nat
    BY <1>2, <2>1 DEF Headers
  <2>3. S \in SUBSET Nat /\ S # {}
    BY <2>1, <2>2
  <2>4. PICK m : m = Min(S)
    OBVIOUS
  <2>5. m \in S /\ \A i \in S : m <= i
    BY <2>3, <2>4, MinFact
  <2>6. m \in Nat /\ (m \in Headers(d) \/ m = n + 1)
    BY <2>1, <2>3, <2>5
  <2>7. \A i \in 1 .. n : d[i].kind = "assignment" =>
            (i \in 1 .. m - 1 <=> ~\E h \in Headers(d) : h < i)
    <3> SUFFICES ASSUME NEW i \in 1 .. n, d[i].kind = "assignment"
                 PROVE  i \in 1 .. m - 1 <=> ~\E h \in Headers(d) : h < i
      OBVIOUS
    <3>1. m # i
      BY <1>2, <2>6 DEF Headers
    <3>2. i < m <=> ~\E h \in Headers(d) : h < i
      <4>1. ASSUME i < m PROVE \A h \in Headers(d) : ~(h < i)
        <5>1. \A h \in Headers(d) : m <= h /\ h \in Nat
          BY <2>1, <2>2, <2>5
        <5> QED BY <2>6, <4>1, <5>1
      <4>2. ASSUME ~(i < m) PROVE \E h \in Headers(d) : h < i
        <5>1. m < i
          BY <2>6, <3>1, <4>2
        <5>2. m \in Headers(d)
          BY <1>2, <2>6, <5>1
        <5> QED BY <5>1, <5>2
      <4> QED BY <4>1, <4>2
    <3> QED BY <2>6, <3>2
  <2>8. \A i \in 1 .. m - 1 : i \in 1 .. n
    <3>1. m <= n + 1
      BY <2>1, <2>5
    <3> QED BY <1>2, <2>6, <3>1
  <2>9. (\E i \in 1 .. m - 1 : d[i].kind = "assignment")
          <=> ~\A i \in DOMAIN d : d[i].kind = "assignment" => \E h \in Headers(d) : h < i
    BY <1>2, <2>7, <2>8
  <2>10. HasUnknown(d) <=> \/ \E i \in DOMAIN d : d[i].kind = "raw"
                           \/ \E i \in Headers(d) : d[i].key \notin {"interface", "peer"}
                           \/ \E i \in 1 .. m - 1 : d[i].kind = "assignment"
    BY <1>1, <2>1, <2>4 DEF HasUnknown
  <2> QED BY <2>9, <2>10
<1>7. (\A b \in Blocks(d) : BlockIsSafe(b.lines))
        <=> \A h \in PeerHeaders(d) : BlockIsSafe(BlockAt(d, h))
  <2>1. \A h : Block(d, h).lines = BlockAt(d, h)
    BY DEF Block
  <2> QED BY <2>1, BlocksAre
<1>8. ASSUME \A h \in PeerHeaders(d) : BlockIsSafe(BlockAt(d, h))
      PROVE  PeersAreDistinct(d) <=>
        \A g, h \in PeerHeaders(d) : PublicKey(BlockAt(d, g)) = PublicKey(BlockAt(d, h)) => g = h
  <2>1. \A h \in PeerHeaders(d) : PublicKey(BlockAt(d, h)) \in Peers
    <3> TAKE h \in PeerHeaders(d)
    <3>1. PICK b : b = BlockAt(d, h)
      OBVIOUS
    <3>2. BlockIsSafe(b)
      BY <1>8, <3>1
    <3>3. PICK S : S = {i \in Assigned(b, "publickey") : ValidKey(b[i].val)}
      OBVIOUS
    <3>4. PublicKey(b) # Absent
      BY <3>2 DEF BlockIsSafe
    <3>5. LastValue(b, S) # <<>> /\ PublicKey(b) = LastValue(b, S)[1]
      BY <3>3, <3>4 DEF PublicKey
    <3>6. S # {}
      BY <3>5 DEF LastValue
    <3>7. PICK m : m = Max(S)
      OBVIOUS
    <3>8. m \in S
      <4>1. \E l \in Nat : DOMAIN b = 1 .. l
        <5>1. BlockEnd(d, h) \in Nat /\ h \in Nat /\ BlockEnd(d, h) <= Len(d)
          BY EndFact DEF Ends, PeerHeaders
        <5>2. PICK e : e = BlockEnd(d, h)
          OBVIOUS
        <5>3. b = SubSeq(d, h, e) /\ h \in Nat /\ e \in Nat /\ h \in 1 .. n /\ e <= n
          BY <1>1, <1>2, <3>1, <5>1, <5>2 DEF BlockAt, PeerHeaders, Headers
        <5>4. b \in Seq(T)
          BY <1>1, <5>3
        <5>5. Len(b) \in Nat /\ DOMAIN b = 1 .. Len(b)
          BY <5>4
        <5> QED BY <5>5
      <4>2. PICK l \in Nat : DOMAIN b = 1 .. l
        BY <4>1
      <4>3. S \in SUBSET (1 .. l)
        BY <3>3, <4>2 DEF Assigned
      <4> QED BY <3>6, <3>7, <4>2, <4>3, MaxFact
    <3>9. ValidKey(b[m].val) /\ LastValue(b, S) = b[m].val
      BY <3>3, <3>6, <3>7, <3>8 DEF LastValue
    <3> QED BY <3>1, <3>5, <3>9 DEF ValidKey
  <2>2. \A p : Cardinality(FindPeer(d, p)) <= 1 <=> \A g, h \in HeadersOf(d, p) : g = h
    <3> TAKE p
    <3>1. Cardinality(FindPeer(d, p)) <= 1 <=> \A x, y \in FindPeer(d, p) : x = y
      BY Finitely, AtMostOne
    <3>2. \A g, h : Block(d, g) = Block(d, h) <=> g = h
      <4>1. \A h : Block(d, h).first = h
        BY DEF Block
      <4> QED BY <4>1
    <3>3. FindPeer(d, p) = {Block(d, h) : h \in HeadersOf(d, p)}
      BY BlocksAre
    <3>4. PICK F : F = FindPeer(d, p)
      OBVIOUS
    <3>5. PICK H : H = HeadersOf(d, p)
      OBVIOUS
    <3>6. F = {Block(d, h) : h \in H}
      BY <3>3, <3>4, <3>5
    <3>7. ASSUME \A x, y \in F : x = y PROVE \A g, h \in H : g = h
      <4>1. \A h \in H : Block(d, h) \in F
        BY <3>6
      <4> QED BY <3>2, <3>7, <4>1
    <3>8. ASSUME \A g, h \in H : g = h PROVE \A x, y \in F : x = y
      <4>1. \A x \in F : \E h \in H : x = Block(d, h)
        BY <3>6
      <4> QED BY <3>8, <4>1
    <3>9. (\A x, y \in F : x = y) <=> \A g, h \in H : g = h
      BY <3>7, <3>8
    <3> QED BY <3>1, <3>4, <3>5, <3>9
  <2> QED BY <2>1, <2>2 DEF PeersAreDistinct, HeadersOf
<1> QED BY <1>3, <1>5, <1>6, <1>7, <1>8 DEF AdoptionSafe, Safe

-----------------------------------------------------------------------------
(* Adding a block to a document, and cutting it out again. *)

LEMMA BlockFact ==
  ASSUME NEW T, NEW d \in Seq(T), NEW h \in Headers(d)
  PROVE  /\ h \in 1 .. Len(d) /\ BlockEnd(d, h) \in h .. Len(d)
         /\ BlockAt(d, h) \in Seq(T) /\ Len(BlockAt(d, h)) = BlockEnd(d, h) - h + 1
         /\ \A i \in 1 .. Len(BlockAt(d, h)) : BlockAt(d, h)[i] = d[h + i - 1]
<1>1. PICK n : n = Len(d)
  OBVIOUS
<1>2. n \in Nat /\ DOMAIN d = 1 .. n /\ h \in 1 .. n
  BY <1>1 DEF Headers
<1>3. PICK e : e = BlockEnd(d, h)
  OBVIOUS
<1>4. e \in Int /\ h <= e /\ e <= n
  BY <1>1, <1>3, EndFact DEF Ends
<1>5. \A i \in h .. e : d[i] \in T
  BY <1>1, <1>2, <1>4
<1>6. PICK b : b = SubSeq(d, h, e)
  OBVIOUS
<1>7. /\ b \in Seq(T) /\ Len(b) = e - h + 1
      /\ \A i \in 1 .. e - h + 1 : b[i] = d[h + i - 1]
  <2>1. h <= e => Len(SubSeq(d, h, e)) = e - h + 1
    BY <1>2, <1>4, <1>5, SubSeqProperties
  <2>2. \A i \in 1 .. e - h + 1 : SubSeq(d, h, e)[i] = d[h + i - 1]
    BY <1>2, <1>4, <1>5, SubSeqProperties
  <2>3. SubSeq(d, h, e) \in Seq(T)
    BY <1>2, <1>4, <1>5, SubSeqProperties
  <2> QED BY <1>4, <1>6, <2>1, <2>2, <2>3
<1>8. b = BlockAt(d, h)
  BY <1>3, <1>6 DEF BlockAt
<1> QED BY <1>1, <1>2, <1>3, <1>4, <1>7, <1>8

LEMMA BlockIs ==
  ASSUME NEW T, NEW d \in Seq(T), NEW h \in Headers(d), NEW e, Ends(d, h, e),
         NEW b \in Seq(T), Len(b) = e - h + 1, \A i \in 1 .. e - h + 1 : b[i] = d[h + i - 1]
  PROVE  BlockAt(d, h) = b
<1>1. PICK c : c = BlockAt(d, h)
  OBVIOUS
<1>2. BlockEnd(d, h) = e
  BY EndIs
<1>3. c \in Seq(T) /\ Len(c) = e - h + 1 /\ \A i \in 1 .. e - h + 1 : c[i] = d[h + i - 1]
  BY <1>1, <1>2, BlockFact
<1>4. Len(b) = Len(c) /\ \A i \in 1 .. Len(b) : b[i] = c[i]
  BY <1>3
<1>5. b = c
  BY <1>3, <1>4, SeqEqual
<1> QED BY <1>1, <1>5

\* A block of a peer: a header and lines without another one.
Chunk(c) ==
  /\ Len(c) > 0 /\ c[1].kind = "header" /\ c[1].key = "peer"
  /\ \A i \in 2 .. Len(c) : c[i].kind # "header"

\* full is rest with the block c put in behind line n, at the end of a section.
Inserts(rest, n, c, full) ==
  /\ n \in 0 .. Len(rest) /\ (n = Len(rest) \/ rest[n + 1].kind = "header")
  /\ Len(full) = Len(rest) + Len(c)
  /\ \A i \in 1 .. n : full[i] = rest[i]
  /\ \A i \in 1 .. Len(c) : full[n + i] = c[i]
  /\ \A i \in n + 1 .. Len(rest) : full[i + Len(c)] = rest[i]

Moved(n, c, i) == IF i <= n THEN i ELSE i + Len(c)

\* Every line of full is one of rest, moved, or one of c.
Placed(rest, n, c, full) ==
  /\ \A i \in 1 .. Len(rest) : Moved(n, c, i) \in 1 .. Len(full) /\ full[Moved(n, c, i)] = rest[i]
  /\ \A i \in 1 .. Len(c) : n + i \in 1 .. Len(full) /\ full[n + i] = c[i]
  /\ \A j \in 1 .. Len(full) : \/ \E i \in 1 .. Len(rest) : j = Moved(n, c, i)
                               \/ \E i \in 1 .. Len(c) : j = n + i
  /\ \A i, j \in 1 .. Len(rest) : i < j <=> Moved(n, c, i) < Moved(n, c, j)

\* Where the lines of a document go when a block is put in.
LEMMA InsertedLines ==
  ASSUME NEW T, NEW rest \in Seq(T), NEW c \in Seq(T), NEW full \in Seq(T), NEW n,
         Inserts(rest, n, c, full), Chunk(c)
  PROVE  Placed(rest, n, c, full)
<1>1. PICK m : m = Len(c)
  OBVIOUS
<1>2. PICK r : r = Len(rest)
  OBVIOUS
<1>3. /\ m \in Nat /\ m > 0 /\ r \in Nat /\ n \in 0 .. r /\ Len(full) = r + m
      /\ \A i \in 1 .. n : full[i] = rest[i]
      /\ \A i \in 1 .. m : full[n + i] = c[i]
      /\ \A i \in n + 1 .. r : full[i + m] = rest[i]
  BY <1>1, <1>2 DEF Inserts, Chunk
<1>4. \A i \in 1 .. r : i <= n => Moved(n, c, i) = i
  BY DEF Moved
<1>5. \A i \in 1 .. r : ~(i <= n) => Moved(n, c, i) = i + m /\ i \in n + 1 .. r
  BY <1>1, <1>3 DEF Moved
<1>6. \A i \in 1 .. r : Moved(n, c, i) \in 1 .. r + m /\ full[Moved(n, c, i)] = rest[i]
  BY <1>3, <1>4, <1>5
<1>7. \A j \in 1 .. r + m : \/ \E i \in 1 .. r : j = Moved(n, c, i)
                            \/ \E i \in 1 .. m : j = n + i
  <2> TAKE j \in 1 .. r + m
  <2>1. CASE j <= n
    BY <1>3, <1>4, <2>1
  <2>2. CASE n < j /\ j <= n + m
    <3>1. j - n \in 1 .. m /\ j = n + (j - n)
      BY <1>3, <2>2
    <3> QED BY <3>1
  <2>3. CASE n + m < j
    <3>1. PICK i : i = j - m
      OBVIOUS
    <3>2. i \in 1 .. r /\ ~(i <= n) /\ j = i + m
      BY <1>3, <2>3, <3>1
    <3> QED BY <1>5, <3>2
  <2> QED BY <1>3, <2>1, <2>2, <2>3
<1>8. \A i, j \in 1 .. r : i < j <=> Moved(n, c, i) < Moved(n, c, j)
  BY <1>3, <1>4, <1>5
<1>9. \A i \in 1 .. m : n + i \in 1 .. r + m
  BY <1>3
<1>10. \A i \in 1 .. Len(rest) : Moved(n, c, i) \in 1 .. Len(full) /\ full[Moved(n, c, i)] = rest[i]
  BY <1>2, <1>3, <1>6
<1>11. \A i \in 1 .. Len(c) : n + i \in 1 .. Len(full) /\ full[n + i] = c[i]
  BY <1>1, <1>3, <1>9
<1>12. \A j \in 1 .. Len(full) : \/ \E i \in 1 .. Len(rest) : j = Moved(n, c, i)
                                 \/ \E i \in 1 .. Len(c) : j = n + i
  BY <1>1, <1>2, <1>3, <1>7
<1>13. \A i, j \in 1 .. Len(rest) : i < j <=> Moved(n, c, i) < Moved(n, c, j)
  BY <1>2, <1>8
<1> QED BY <1>10, <1>11, <1>12, <1>13, Zenon DEF Placed

\* The headers of full are those of rest, moved, and the first line of c, which
\* has c as its block; the blocks of the others stay as they are.
PlacedBlocks(rest, n, c, full) ==
  /\ Headers(full) = {Moved(n, c, h) : h \in Headers(rest)} \cup {n + 1}
  /\ \A h \in Headers(rest) : /\ full[Moved(n, c, h)] = rest[h] /\ Moved(n, c, h) # n + 1
                              /\ BlockAt(full, Moved(n, c, h)) = BlockAt(rest, h)
  /\ full[n + 1] = c[1] /\ BlockAt(full, n + 1) = c
  /\ \A g, h \in Headers(rest) : Moved(n, c, g) = Moved(n, c, h) => g = h

\* The blocks stay what they were, and the new one is among them.
LEMMA InsertedHeaders ==
  ASSUME NEW T, NEW rest \in Seq(T), NEW c \in Seq(T), NEW full \in Seq(T), NEW n,
         Inserts(rest, n, c, full), Chunk(c)
  PROVE  PlacedBlocks(rest, n, c, full)
<1>1. PICK m : m = Len(c)
  OBVIOUS
<1>2. PICK r : r = Len(rest)
  OBVIOUS
<1>3. /\ m \in Nat /\ m > 0 /\ r \in Nat /\ n \in 0 .. r /\ Len(full) = r + m
      /\ n = r \/ rest[n + 1].kind = "header"
      /\ DOMAIN rest = 1 .. r /\ DOMAIN full = 1 .. r + m
      /\ c[1].kind = "header" /\ \A i \in 2 .. m : c[i].kind # "header"
  BY <1>1, <1>2 DEF Inserts, Chunk
<1>4. /\ \A i \in 1 .. n : full[i] = rest[i]
      /\ \A i \in 1 .. m : full[n + i] = c[i]
      /\ \A i \in n + 1 .. r : full[i + m] = rest[i]
  BY <1>1, <1>2 DEF Inserts
<1>5. /\ \A i \in 1 .. r : Moved(n, c, i) \in 1 .. r + m /\ full[Moved(n, c, i)] = rest[i]
      /\ \A j \in 1 .. r + m : \/ \E i \in 1 .. r : j = Moved(n, c, i)
                               \/ \E i \in 1 .. m : j = n + i
      /\ \A i, j \in 1 .. r : i < j <=> Moved(n, c, i) < Moved(n, c, j)
  <2>1. Placed(rest, n, c, full)
    BY InsertedLines
  <2> QED BY <1>1, <1>2, <1>3, <2>1 DEF Placed
<1>6. \A i \in 1 .. r : (i <= n => Moved(n, c, i) = i)
                        /\ (~(i <= n) => Moved(n, c, i) = i + m /\ i \in n + 1 .. r)
  BY <1>1, <1>3 DEF Moved
<1>7. 1 \in 1 .. m /\ n + 1 \in 1 .. r + m /\ full[n + 1] = c[1]
  BY <1>3, <1>4
<1>8. Headers(full) = {Moved(n, c, h) : h \in Headers(rest)} \cup {n + 1}
  <2>1. ASSUME NEW j \in Headers(full) PROVE j = n + 1 \/ \E h \in Headers(rest) : j = Moved(n, c, h)
    <3>1. j \in 1 .. r + m /\ full[j].kind = "header"
      BY <1>3 DEF Headers
    <3>2. CASE \E i \in 1 .. r : j = Moved(n, c, i)
      <4>1. PICK i \in 1 .. r : j = Moved(n, c, i)
        BY <3>2
      <4>2. i \in Headers(rest)
        BY <1>3, <1>5, <3>1, <4>1 DEF Headers
      <4> QED BY <4>1, <4>2
    <3>3. CASE \E i \in 1 .. m : j = n + i
      <4>1. PICK i \in 1 .. m : j = n + i
        BY <3>3
      <4>2. c[i].kind = "header"
        BY <1>4, <3>1, <4>1
      <4>3. i = 1
        BY <1>3, <4>2
      <4> QED BY <4>1, <4>3
    <3> QED BY <1>5, <3>1, <3>2, <3>3
  <2>2. ASSUME NEW h \in Headers(rest) PROVE Moved(n, c, h) \in Headers(full)
    BY <1>3, <1>5 DEF Headers
  <2>3. n + 1 \in Headers(full)
    BY <1>3, <1>7 DEF Headers
  <2>4. \A j : j \in Headers(full) <=> j \in {Moved(n, c, h) : h \in Headers(rest)} \cup {n + 1}
    BY <2>1, <2>2, <2>3
  <2> QED BY <2>4
<1>9. ASSUME NEW h \in Headers(rest)
      PROVE  /\ full[Moved(n, c, h)] = rest[h] /\ Moved(n, c, h) # n + 1
             /\ BlockAt(full, Moved(n, c, h)) = BlockAt(rest, h)
  <2>1. h \in 1 .. r /\ rest[h].kind = "header"
    BY <1>3 DEF Headers
  <2>2. full[Moved(n, c, h)] = rest[h] /\ Moved(n, c, h) # n + 1
    BY <1>3, <1>5, <1>6, <2>1
  <2>3. PICK e : e = BlockEnd(rest, h)
    OBVIOUS
  <2>4. /\ e \in Int /\ h <= e /\ e <= r
        /\ \A i \in h + 1 .. e : rest[i].kind # "header"
        /\ e = r \/ rest[e + 1].kind = "header"
    BY <1>2, <2>3, EndFact DEF Ends
  <2>5. PICK b : b = BlockAt(rest, h)
    OBVIOUS
  <2>6. b \in Seq(T) /\ Len(b) = e - h + 1 /\ \A i \in 1 .. e - h + 1 : b[i] = rest[h + i - 1]
    BY <2>3, <2>5, BlockFact
  <2>7. CASE h <= n
    <3>1. e <= n
      <4> SUFFICES ASSUME e > n PROVE FALSE
        BY <1>3, <2>4
      <4>1. n + 1 \in h + 1 .. e /\ n # r
        BY <1>3, <2>1, <2>4, <2>7
      <4> QED BY <1>3, <2>4, <4>1
    <3>2. Moved(n, c, h) = h
      BY <1>6, <2>1, <2>7
    <3>3. \A i \in 1 .. n : full[i] = rest[i]
      BY <1>4
    <3>4. \A i \in h + 1 .. e : full[i].kind # "header"
      BY <1>3, <2>1, <2>4, <3>1, <3>3
    <3>5. full[e + 1].kind = "header"
      <4>1. CASE e = n
        BY <1>3, <1>7, <4>1
      <4>2. CASE e < n
        BY <1>3, <2>1, <2>4, <3>3, <4>2
      <4> QED BY <1>3, <2>4, <3>1, <4>1, <4>2
    <3>6. Ends(full, h, e)
      BY <1>3, <2>4, <3>4, <3>5 DEF Ends
    <3>7. h \in Headers(full)
      BY <1>8, <3>2
    <3>8. \A i \in 1 .. e - h + 1 : b[i] = full[h + i - 1]
      BY <1>3, <2>1, <2>4, <2>6, <3>1, <3>3
    <3>9. BlockAt(full, h) = b
      BY <2>6, <3>6, <3>7, <3>8, BlockIs
    <3> QED BY <2>2, <2>5, <3>2, <3>9
  <2>8. CASE ~(h <= n)
    <3>1. Moved(n, c, h) = h + m /\ h > n
      BY <1>3, <1>6, <2>1, <2>8
    <3>2. PICK g : g = h + m
      OBVIOUS
    <3>3. PICK f : f = e + m
      OBVIOUS
    <3>4. \A i \in g + 1 .. f : full[i].kind # "header"
      <4> TAKE i \in g + 1 .. f
      <4>1. PICK j : j = i - m
        OBVIOUS
      <4>2. j \in h + 1 .. e /\ i = j + m /\ j \in n + 1 .. r
        BY <1>3, <2>1, <2>4, <3>1, <3>2, <3>3, <4>1
      <4> QED BY <1>4, <2>4, <4>2
    <3>5. f = r + m \/ full[f + 1].kind = "header"
      <4>1. CASE e = r
        BY <3>3, <4>1
      <4>2. CASE e # r
        <5>1. e + 1 \in n + 1 .. r /\ f + 1 = (e + 1) + m
          BY <1>3, <2>1, <2>4, <3>1, <3>3, <4>2
        <5> QED BY <1>4, <2>4, <4>2, <5>1
      <4> QED BY <4>1, <4>2
    <3>6. Ends(full, g, f)
      BY <1>3, <2>1, <2>4, <3>2, <3>3, <3>4, <3>5 DEF Ends
    <3>7. g \in Headers(full)
      BY <1>8, <3>1, <3>2
    <3>8. \A i \in 1 .. f - g + 1 : b[i] = full[g + i - 1]
      <4> TAKE i \in 1 .. f - g + 1
      <4>1. PICK j : j = h + i - 1
        OBVIOUS
      <4>2. i \in 1 .. e - h + 1 /\ g + i - 1 = j + m /\ j \in n + 1 .. r
        BY <1>3, <2>1, <2>4, <3>1, <3>2, <3>3, <4>1
      <4> QED BY <1>4, <2>6, <4>1, <4>2
    <3>9. f - g + 1 = e - h + 1
      BY <1>3, <2>1, <2>4, <3>2, <3>3
    <3>10. BlockAt(full, g) = b
      BY <2>6, <3>6, <3>7, <3>8, <3>9, BlockIs
    <3> QED BY <2>2, <2>5, <3>1, <3>2, <3>10
  <2> QED BY <2>7, <2>8
<1>10. BlockAt(full, n + 1) = c
  <2>1. PICK g : g = n + 1
    OBVIOUS
  <2>2. PICK f : f = n + m
    OBVIOUS
  <2>3. \A i \in g + 1 .. f : full[i].kind # "header"
    <3> TAKE i \in g + 1 .. f
    <3>1. PICK j : j = i - n
      OBVIOUS
    <3>2. j \in 2 .. m /\ j \in 1 .. m /\ i = n + j
      BY <1>3, <2>1, <2>2, <3>1
    <3> QED BY <1>3, <1>4, <3>2
  <2>4. f = r + m \/ full[f + 1].kind = "header"
    <3>1. CASE n = r
      BY <2>2, <3>1
    <3>2. CASE n # r
      <4>1. n + 1 \in n + 1 .. r /\ f + 1 = (n + 1) + m
        BY <1>3, <2>2, <3>2
      <4> QED BY <1>3, <1>4, <3>2, <4>1
    <3> QED BY <3>1, <3>2
  <2>5. Ends(full, g, f)
    BY <1>3, <2>1, <2>2, <2>3, <2>4 DEF Ends
  <2>6. g \in Headers(full)
    BY <1>8, <2>1
  <2>7. f - g + 1 = m /\ \A i \in 1 .. m : g + i - 1 = n + i
    BY <1>3, <2>1, <2>2
  <2>8. Len(c) = f - g + 1 /\ \A i \in 1 .. f - g + 1 : c[i] = full[g + i - 1]
    BY <1>1, <1>4, <2>7
  <2>9. BlockAt(full, g) = c
    BY <2>5, <2>6, <2>8, BlockIs
  <2> QED BY <2>1, <2>9
<1>11. \A g, h \in Headers(rest) : Moved(n, c, g) = Moved(n, c, h) => g = h
  <2>1. \A g \in Headers(rest) : g \in 1 .. r
    BY <1>3 DEF Headers
  <2> QED BY <1>3, <1>6, <2>1
<1> QED BY <1>7, <1>8, <1>9, <1>10, <1>11 DEF PlacedBlocks

\* Putting a block in moves no line into the interface section or out of it.
LEMMA MovedInInterface ==
  ASSUME NEW T, NEW rest \in Seq(T), NEW c \in Seq(T), NEW full \in Seq(T), NEW n,
         Inserts(rest, n, c, full), Chunk(c), NEW i \in DOMAIN rest
  PROVE  InInterface(full, Moved(n, c, i)) <=> InInterface(rest, i)
<1>1. PICK m : m = Len(c)
  OBVIOUS
<1>2. PICK r : r = Len(rest)
  OBVIOUS
<1>3. /\ m \in Nat /\ m > 0 /\ r \in Nat /\ n \in 0 .. r /\ Len(full) = r + m
      /\ n = r \/ rest[n + 1].kind = "header"
      /\ DOMAIN rest = 1 .. r /\ DOMAIN full = 1 .. r + m
      /\ c[1].key = "peer"
  BY <1>1, <1>2 DEF Inserts, Chunk
<1>4. /\ \A k \in 1 .. r : Moved(n, c, k) \in 1 .. r + m /\ full[Moved(n, c, k)] = rest[k]
      /\ \A k, j \in 1 .. r : k < j <=> Moved(n, c, k) < Moved(n, c, j)
  <2>1. Placed(rest, n, c, full)
    BY InsertedLines
  <2> QED BY <1>1, <1>2, <1>3, <2>1 DEF Placed
<1>5. \A k \in 1 .. r : (k <= n => Moved(n, c, k) = k)
                        /\ (~(k <= n) => Moved(n, c, k) = k + m)
  BY <1>1, <1>3 DEF Moved
<1>6. PlacedBlocks(rest, n, c, full)
  BY InsertedHeaders
<1>7. Headers(full) = {Moved(n, c, h) : h \in Headers(rest)} \cup {n + 1} /\ full[n + 1].key = "peer"
  BY <1>3, <1>6 DEF PlacedBlocks
<1>8. /\ \A h : h \in Headers(rest) <=> h \in 1 .. r /\ rest[h].kind = "header"
      /\ \A h : h \in Headers(full) <=> h \in 1 .. r + m /\ full[h].kind = "header"
  BY <1>3 DEF Headers
<1>9. ASSUME InInterface(rest, i) PROVE InInterface(full, Moved(n, c, i))
  <2>1. PICK h \in Headers(rest) : /\ h <= i /\ rest[h].key = "interface"
                                   /\ \A j \in h + 1 .. i : rest[j].kind # "header"
    BY <1>9 DEF InInterface
  <2>2. PICK mh : mh = Moved(n, c, h)
    OBVIOUS
  <2>3. PICK mi : mi = Moved(n, c, i)
    OBVIOUS
  <2>4. mh \in Headers(full) /\ full[mh].key = "interface" /\ mh \in Nat /\ mi \in Nat /\ mi \in 1 .. r + m
    BY <1>3, <1>4, <1>7, <1>8, <2>1, <2>2, <2>3
  <2>5. mh <= mi
    BY <1>3, <1>4, <1>8, <2>1, <2>2, <2>3
  <2>6. ASSUME NEW j \in mh + 1 .. mi, full[j].kind = "header" PROVE FALSE
    <3>1. j \in Headers(full)
      <4>1. j \in 1 .. r + m
        BY <1>3, <2>4
      <4> QED BY <1>8, <2>6, <4>1
    <3>2. CASE j = n + 1
      <4>1. h <= n /\ i > n
        BY <1>3, <1>5, <1>8, <2>1, <2>2, <2>3, <2>4, <3>2, SMTT(30)
      <4>2. n + 1 \in h + 1 .. i /\ n # r
        BY <1>3, <1>8, <2>1, <4>1
      <4> QED BY <1>3, <2>1, <4>2
    <3>3. CASE j # n + 1
      <4>1. PICK g \in Headers(rest) : j = Moved(n, c, g)
        BY <1>7, <3>1, <3>3
      <4>2. h \in 1 .. r /\ g \in 1 .. r /\ i \in 1 .. r
        BY <1>3, <1>8, <4>1
      <4>3. (h < g <=> mh < j) /\ (i < g <=> mi < j)
        BY <1>4, <2>2, <2>3, <4>1, <4>2
      <4>4. g \in h + 1 .. i
        BY <1>3, <2>4, <4>2, <4>3
      <4> QED BY <1>8, <2>1, <4>1, <4>4
    <3> QED BY <3>2, <3>3
  <2> QED BY <2>3, <2>4, <2>5, <2>6 DEF InInterface
<1>10. ASSUME InInterface(full, Moved(n, c, i)) PROVE InInterface(rest, i)
  <2>1. PICK mi : mi = Moved(n, c, i)
    OBVIOUS
  <2>2. PICK mh \in Headers(full) : /\ mh <= mi /\ full[mh].key = "interface"
                                    /\ \A j \in mh + 1 .. mi : full[j].kind # "header"
    BY <1>10, <2>1 DEF InInterface
  <2>3. PICK h \in Headers(rest) : mh = Moved(n, c, h)
    BY <1>7, <2>2
  <2>4. /\ mh \in Nat /\ mi \in Nat /\ h \in 1 .. r /\ i \in 1 .. r
        /\ rest[h].key = "interface"
    BY <1>3, <1>4, <1>8, <2>1, <2>2, <2>3
  <2>5. h <= i
    BY <1>4, <2>1, <2>2, <2>3, <2>4
  <2>6. ASSUME NEW j \in h + 1 .. i, rest[j].kind = "header" PROVE FALSE
    <3>1. j \in 1 .. r /\ h < j /\ ~(i < j)
      BY <1>3, <2>4
    <3>2. PICK mj : mj = Moved(n, c, j)
      OBVIOUS
    <3>3. mh < mj /\ ~(mi < mj) /\ mj \in Nat /\ full[mj].kind = "header"
      BY <1>3, <1>4, <2>1, <2>3, <2>4, <2>6, <3>1, <3>2
    <3>4. mj \in mh + 1 .. mi
      BY <2>4, <3>3
    <3> QED BY <2>2, <3>3, <3>4
  <2> QED BY <2>3, <2>4, <2>5, <2>6 DEF InInterface
<1> QED BY <1>9, <1>10

LEMMA ChunkNotInInterface ==
  ASSUME NEW T, NEW rest \in Seq(T), NEW c \in Seq(T), NEW full \in Seq(T), NEW n,
         Inserts(rest, n, c, full), Chunk(c), NEW i \in DOMAIN c
  PROVE  ~InInterface(full, n + i)
<1>1. PICK m : m = Len(c)
  OBVIOUS
<1>2. PICK r : r = Len(rest)
  OBVIOUS
<1>3. /\ m \in Nat /\ m > 0 /\ r \in Nat /\ n \in 0 .. r /\ Len(full) = r + m
      /\ DOMAIN c = 1 .. m /\ DOMAIN full = 1 .. r + m
      /\ c[1].key = "peer" /\ c[1].kind = "header" /\ \A j \in 2 .. m : c[j].kind # "header"
      /\ \A j \in 1 .. m : full[n + j] = c[j]
  BY <1>1, <1>2 DEF Inserts, Chunk
<1>4. \A h : h \in Headers(full) <=> h \in 1 .. r + m /\ full[h].kind = "header"
  BY <1>3 DEF Headers
<1>5. full[n + 1] = c[1]
  BY <1>3
<1> SUFFICES ASSUME NEW h \in Headers(full), h <= n + i, full[h].key = "interface",
                    \A j \in h + 1 .. n + i : full[j].kind # "header"
             PROVE  FALSE
  BY DEF InInterface
<1>6. CASE h = n + 1
  BY <1>3, <1>5, <1>6
<1>7. CASE h < n + 1
  <2>1. n + 1 \in h + 1 .. n + i
    BY <1>3, <1>4, <1>7
  <2> QED BY <1>3, <1>5, <2>1
<1>8. CASE h > n + 1
  <2>1. PICK j : j = h - n
    OBVIOUS
  <2>2. j \in 2 .. m /\ j \in 1 .. m /\ h = n + j
    <3>1. i \in 1 .. m /\ h \in Int
      BY <1>3, <1>4
    <3> QED BY <1>3, <1>8, <2>1, <3>1
  <2>3. full[h].kind = "header" /\ full[h] = c[j]
    BY <1>3, <1>4, <2>2
  <2> QED BY <1>3, <2>2, <2>3
<1> QED BY <1>3, <1>4, <1>6, <1>7, <1>8

LEMMA MovedPrivateKeys ==
  ASSUME NEW T, NEW rest \in Seq(T), NEW c \in Seq(T), NEW full \in Seq(T), NEW n,
         Inserts(rest, n, c, full), Chunk(c)
  PROVE  /\ PrivateKeys(full) = {Moved(n, c, i) : i \in PrivateKeys(rest)}
         /\ \A i \in PrivateKeys(rest) : i \in DOMAIN rest /\ full[Moved(n, c, i)] = rest[i]
<1>1. /\ \A i \in DOMAIN rest : Moved(n, c, i) \in DOMAIN full /\ full[Moved(n, c, i)] = rest[i]
      /\ \A j \in DOMAIN full : \/ \E i \in DOMAIN rest : j = Moved(n, c, i)
                                \/ \E i \in DOMAIN c : j = n + i
  <2>1. Placed(rest, n, c, full)
    BY InsertedLines
  <2>2. DOMAIN rest = 1 .. Len(rest) /\ DOMAIN c = 1 .. Len(c) /\ DOMAIN full = 1 .. Len(full)
    OBVIOUS
  <2> QED BY <2>1, <2>2, Zenon DEF Placed
<1>2. \A i : i \in PrivateKeys(rest) <=> /\ i \in DOMAIN rest /\ rest[i].kind = "assignment"
                                         /\ rest[i].key = "privatekey" /\ InInterface(rest, i)
  BY DEF PrivateKeys, Assigned
<1>3. \A i : i \in PrivateKeys(full) <=> /\ i \in DOMAIN full /\ full[i].kind = "assignment"
                                         /\ full[i].key = "privatekey" /\ InInterface(full, i)
  BY DEF PrivateKeys, Assigned
<1>4. \A i \in DOMAIN rest : InInterface(full, Moved(n, c, i)) <=> InInterface(rest, i)
  BY MovedInInterface
<1>5. \A i \in DOMAIN c : ~InInterface(full, n + i)
  BY ChunkNotInInterface
<1>6. \A j \in PrivateKeys(full) : \E i \in PrivateKeys(rest) : j = Moved(n, c, i)
  BY <1>1, <1>2, <1>3, <1>4, <1>5
<1>7. \A i \in PrivateKeys(rest) : Moved(n, c, i) \in PrivateKeys(full)
  BY <1>1, <1>2, <1>3, <1>4
<1> QED BY <1>1, <1>2, <1>6, <1>7

SaidBy(d, p) == {ReadSettings(BlockAt(d, h)) : h \in HeadersOf(d, p)}
ChunkIsSafe(c) == (\A i \in DOMAIN c : c[i].kind # "raw") /\ BlockIsSafe(c)
AllEnded(b) == \A i \in DOMAIN b : b[i].nl = TRUE
OnlyLastOpen(b) == \A i \in 1 .. Len(b) - 1 : b[i].nl = TRUE

LEMMA InsertedPeers ==
  ASSUME NEW T, NEW rest \in Seq(T), NEW c \in Seq(T), NEW full \in Seq(T), NEW n,
         Inserts(rest, n, c, full), Chunk(c)
  PROVE  PeerHeaders(full) = {Moved(n, c, h) : h \in PeerHeaders(rest)} \cup {n + 1}
<1>1. PlacedBlocks(rest, n, c, full)
  BY InsertedHeaders
<1>2. /\ Headers(full) = {Moved(n, c, h) : h \in Headers(rest)} \cup {n + 1}
      /\ \A h \in Headers(rest) : full[Moved(n, c, h)] = rest[h]
      /\ full[n + 1] = c[1] /\ c[1].key = "peer"
  BY <1>1 DEF PlacedBlocks, Chunk
<1>3. /\ \A h : h \in PeerHeaders(full) <=> h \in Headers(full) /\ full[h].key = "peer"
      /\ \A h : h \in PeerHeaders(rest) <=> h \in Headers(rest) /\ rest[h].key = "peer"
  BY DEF PeerHeaders
<1> QED BY <1>2, <1>3

\* A document with a block put in is safe exactly if it was safe without it, the block is, and
\* nobody else has its public key: read forwards this is adding, backwards removing.
LEMMA InsertSafe ==
  ASSUME NEW T, NEW rest \in Seq(T), NEW c \in Seq(T), NEW full \in Seq(T), NEW n,
         Inserts(rest, n, c, full), Chunk(c)
  PROVE  Safe(full) <=> /\ Safe(rest) /\ ChunkIsSafe(c)
                        /\ HeadersOf(rest, PublicKey(c)) = {}
<1>1. /\ n \in Nat /\ Len(c) \in Nat /\ Len(c) > 0 /\ n <= Len(rest) /\ Len(rest) \in Nat
      /\ n = Len(rest) \/ rest[n + 1].kind = "header"
      /\ c[1].key = "peer" /\ c[1].kind = "header"
  BY DEF Inserts, Chunk
<1>2. /\ \A i \in DOMAIN rest : Moved(n, c, i) \in DOMAIN full /\ full[Moved(n, c, i)] = rest[i]
      /\ \A i \in DOMAIN c : n + i \in DOMAIN full /\ full[n + i] = c[i]
      /\ \A j \in DOMAIN full : \/ \E i \in DOMAIN rest : j = Moved(n, c, i)
                                \/ \E i \in DOMAIN c : j = n + i
      /\ \A i, j \in DOMAIN rest : i < j <=> Moved(n, c, i) < Moved(n, c, j)
  <2>1. Placed(rest, n, c, full)
    BY InsertedLines
  <2>2. DOMAIN rest = 1 .. Len(rest) /\ DOMAIN c = 1 .. Len(c) /\ DOMAIN full = 1 .. Len(full)
    OBVIOUS
  <2> QED BY <2>1, <2>2, Zenon DEF Placed
<1>3. /\ Headers(full) = {Moved(n, c, h) : h \in Headers(rest)} \cup {n + 1}
      /\ \A h \in Headers(rest) : /\ full[Moved(n, c, h)] = rest[h] /\ Moved(n, c, h) # n + 1
                                  /\ BlockAt(full, Moved(n, c, h)) = BlockAt(rest, h)
      /\ full[n + 1] = c[1] /\ BlockAt(full, n + 1) = c
      /\ \A g, h \in Headers(rest) : Moved(n, c, g) = Moved(n, c, h) => g = h
  <2>1. PlacedBlocks(rest, n, c, full)
    BY InsertedHeaders
  <2> QED BY <2>1 DEF PlacedBlocks
<1>4. PeerHeaders(full) = {Moved(n, c, h) : h \in PeerHeaders(rest)} \cup {n + 1}
  BY InsertedPeers
<1>5. \A i : (i <= n => Moved(n, c, i) = i) /\ (~(i <= n) => Moved(n, c, i) = i + Len(c))
  BY DEF Moved
<1>6. (\E h : InterfaceHeaders(full) = {h}) <=> \E h : InterfaceHeaders(rest) = {h}
  <2>1. /\ \A h : h \in InterfaceHeaders(full) <=> h \in Headers(full) /\ full[h].key = "interface"
        /\ \A h : h \in InterfaceHeaders(rest) <=> h \in Headers(rest) /\ rest[h].key = "interface"
    BY DEF InterfaceHeaders
  <2>2. InterfaceHeaders(full) = {Moved(n, c, h) : h \in InterfaceHeaders(rest)}
    BY <1>1, <1>3, <2>1, SMTT(30)
  <2>3. \A g, h \in InterfaceHeaders(rest) : Moved(n, c, g) = Moved(n, c, h) => g = h
    BY <1>3, <2>1
  <2>4. ASSUME NEW h, InterfaceHeaders(rest) = {h} PROVE InterfaceHeaders(full) = {Moved(n, c, h)}
    BY <2>2, <2>4
  <2>5. ASSUME NEW h, InterfaceHeaders(full) = {h} PROVE \E g : InterfaceHeaders(rest) = {g}
    <3>1. PICK g \in InterfaceHeaders(rest) : h = Moved(n, c, g)
      BY <2>2, <2>5
    <3>2. \A f \in InterfaceHeaders(rest) : f = g
      <4> TAKE f \in InterfaceHeaders(rest)
      <4>1. Moved(n, c, f) \in InterfaceHeaders(full)
        BY <2>2
      <4>2. Moved(n, c, f) = h
        BY <2>5, <4>1
      <4> QED BY <2>3, <3>1, <4>2
    <3> QED BY <3>1, <3>2
  <2> QED BY <2>4, <2>5
<1>7. (\A i \in DOMAIN full : full[i].kind # "raw")
        <=> (\A i \in DOMAIN rest : rest[i].kind # "raw") /\ \A i \in DOMAIN c : c[i].kind # "raw"
  BY <1>2
<1>8. (\A h \in Headers(full) : full[h].key \in {"interface", "peer"})
        <=> \A h \in Headers(rest) : rest[h].key \in {"interface", "peer"}
  BY <1>1, <1>3
<1>9. (\A i \in DOMAIN full : full[i].kind = "assignment" => \E h \in Headers(full) : h < i)
        <=> (\A i \in DOMAIN rest : rest[i].kind = "assignment" => \E h \in Headers(rest) : h < i)
  <2>1. \A h \in Headers(rest) : h \in DOMAIN rest
    BY DEF Headers
  <2>2. ASSUME \A i \in DOMAIN rest : rest[i].kind = "assignment" => \E h \in Headers(rest) : h < i,
               NEW j \in DOMAIN full, full[j].kind = "assignment"
        PROVE  \E h \in Headers(full) : h < j
    <3>1. CASE \E i \in DOMAIN rest : j = Moved(n, c, i)
      <4>1. PICK i \in DOMAIN rest : j = Moved(n, c, i)
        BY <3>1
      <4>2. PICK h \in Headers(rest) : h < i
        BY <1>2, <2>2, <4>1
      <4>3. Moved(n, c, h) < j /\ Moved(n, c, h) \in Headers(full)
        BY <1>2, <1>3, <2>1, <4>1, <4>2
      <4> QED BY <4>3
    <3>2. CASE \E i \in DOMAIN c : j = n + i
      <4>1. PICK i \in DOMAIN c : j = n + i
        BY <3>2
      <4>2. c[i].kind = "assignment"
        BY <1>2, <2>2, <4>1
      <4>3. i # 1 /\ i \in 1 .. Len(c)
        BY <1>1, <4>2
      <4>4. n + 1 < j /\ n + 1 \in Headers(full)
        BY <1>1, <1>3, <4>1, <4>3
      <4> QED BY <4>4
    <3> QED BY <1>2, <3>1, <3>2
  <2>3. ASSUME \A i \in DOMAIN full : full[i].kind = "assignment" => \E h \in Headers(full) : h < i,
               NEW j \in DOMAIN rest, rest[j].kind = "assignment"
        PROVE  \E h \in Headers(rest) : h < j
    <3>1. PICK k \in DOMAIN full : k = Moved(n, c, j) /\ full[k].kind = "assignment"
      BY <1>2, <2>3
    <3>2. PICK g \in Headers(full) : g < k
      BY <2>3, <3>1
    <3>3. CASE g = n + 1
      <4>1. j \in 1 .. Len(rest)
        OBVIOUS
      <4>2. j > n
        BY <1>1, <1>5, <3>1, <3>2, <3>3, <4>1
      <4>3. n + 1 \in 1 .. Len(rest) /\ rest[n + 1].kind = "header" /\ DOMAIN rest = 1 .. Len(rest)
        BY <1>1, <4>1, <4>2
      <4>4. n + 1 \in Headers(rest)
        BY <4>3 DEF Headers
      <4>5. j # n + 1
        BY <2>3, <4>3
      <4> QED BY <1>1, <4>1, <4>2, <4>4, <4>5
    <3>4. CASE g # n + 1
      <4>1. PICK h \in Headers(rest) : g = Moved(n, c, h)
        BY <1>3, <3>4
      <4>2. h < j
        BY <1>2, <2>1, <3>1, <3>2, <4>1
      <4> QED BY <4>2
    <3> QED BY <3>3, <3>4
  <2> QED BY <2>2, <2>3
<1>10. (\E i : PrivateKeys(full) = {i} /\ ValidSecret(full[i].val))
         <=> \E i : PrivateKeys(rest) = {i} /\ ValidSecret(rest[i].val)
  <2>1. /\ PrivateKeys(full) = {Moved(n, c, i) : i \in PrivateKeys(rest)}
        /\ \A i \in PrivateKeys(rest) : i \in DOMAIN rest /\ full[Moved(n, c, i)] = rest[i]
    BY MovedPrivateKeys
  <2>2. \A i, j \in PrivateKeys(rest) : Moved(n, c, i) = Moved(n, c, j) => i = j
    <3>1. \A i \in PrivateKeys(rest) : i \in 1 .. Len(rest)
      BY <2>1
    <3> QED BY <1>1, <1>5, <3>1
  <2>3. ASSUME NEW i, PrivateKeys(rest) = {i}, ValidSecret(rest[i].val)
        PROVE  \E j : PrivateKeys(full) = {j} /\ ValidSecret(full[j].val)
    <3>1. PrivateKeys(full) = {Moved(n, c, i)} /\ full[Moved(n, c, i)] = rest[i]
      BY <2>1, <2>3
    <3> QED BY <2>3, <3>1
  <2>4. ASSUME NEW j, PrivateKeys(full) = {j}, ValidSecret(full[j].val)
        PROVE  \E i : PrivateKeys(rest) = {i} /\ ValidSecret(rest[i].val)
    <3>1. PICK i \in PrivateKeys(rest) : j = Moved(n, c, i)
      BY <2>1, <2>4
    <3>2. \A k \in PrivateKeys(rest) : k = i
      <4> TAKE k \in PrivateKeys(rest)
      <4>1. Moved(n, c, k) \in PrivateKeys(full)
        BY <2>1
      <4>2. Moved(n, c, k) = j
        BY <2>4, <4>1
      <4> QED BY <2>2, <3>1, <4>2
    <3>3. full[j] = rest[i]
      BY <2>1, <3>1
    <3>4. PrivateKeys(rest) = {i} /\ ValidSecret(rest[i].val)
      BY <2>4, <3>1, <3>2, <3>3
    <3> QED BY <3>4
  <2> QED BY <2>3, <2>4
<1>11. \A h \in PeerHeaders(rest) : h \in Headers(rest)
  BY DEF PeerHeaders
<1>12. (\A h \in PeerHeaders(full) : BlockIsSafe(BlockAt(full, h)))
         <=> (\A h \in PeerHeaders(rest) : BlockIsSafe(BlockAt(rest, h))) /\ BlockIsSafe(c)
  BY <1>3, <1>4, <1>11
<1>13. (\A g, h \in PeerHeaders(full) : PublicKey(BlockAt(full, g)) = PublicKey(BlockAt(full, h)) => g = h)
         <=> /\ \A g, h \in PeerHeaders(rest) : PublicKey(BlockAt(rest, g)) = PublicKey(BlockAt(rest, h)) => g = h
             /\ HeadersOf(rest, PublicKey(c)) = {}
  <2>1. PICK P : P = PeerHeaders(rest)
    OBVIOUS
  <2>2. PICK key : key = [h \in P |-> PublicKey(BlockAt(rest, h))]
    OBVIOUS
  <2>3. /\ \A h \in P : PublicKey(BlockAt(full, Moved(n, c, h))) = key[h] /\ Moved(n, c, h) # n + 1
        /\ PublicKey(BlockAt(full, n + 1)) = PublicKey(c)
        /\ \A g, h \in P : Moved(n, c, g) = Moved(n, c, h) => g = h
        /\ PeerHeaders(full) = {Moved(n, c, h) : h \in P} \cup {n + 1}
        /\ \A h \in P : PublicKey(BlockAt(rest, h)) = key[h]
    BY <1>3, <1>4, <1>11, <2>1, <2>2
  <2>4. HeadersOf(rest, PublicKey(c)) = {} <=> \A h \in P : key[h] # PublicKey(c)
    BY <2>1, <2>3 DEF HeadersOf
  <2>5. ASSUME \A g, h \in PeerHeaders(full) :
                  PublicKey(BlockAt(full, g)) = PublicKey(BlockAt(full, h)) => g = h
        PROVE  (\A g, h \in P : key[g] = key[h] => g = h) /\ \A h \in P : key[h] # PublicKey(c)
    <3>1. n + 1 \in PeerHeaders(full) /\ \A h \in P : Moved(n, c, h) \in PeerHeaders(full)
      BY <2>3
    <3>2. \A g, h \in P : key[g] = key[h] => g = h
      BY <2>3, <2>5, <3>1
    <3>3. \A h \in P : key[h] # PublicKey(c)
      BY <2>3, <2>5, <3>1
    <3> QED BY <3>2, <3>3
  <2>6. ASSUME \A g, h \in P : key[g] = key[h] => g = h, \A h \in P : key[h] # PublicKey(c),
               NEW x \in PeerHeaders(full), NEW y \in PeerHeaders(full),
               PublicKey(BlockAt(full, x)) = PublicKey(BlockAt(full, y))
        PROVE  x = y
    <3>1. CASE x = n + 1 /\ y = n + 1
      BY <3>1
    <3>2. CASE x # n + 1 /\ y # n + 1
      BY <2>3, <2>6, <3>2
    <3>3. CASE x # n + 1 /\ y = n + 1
      BY <2>3, <2>6, <3>3
    <3>4. CASE x = n + 1 /\ y # n + 1
      BY <2>3, <2>6, <3>4
    <3> QED BY <3>1, <3>2, <3>3, <3>4
  <2>7. (\A g, h \in PeerHeaders(rest) : PublicKey(BlockAt(rest, g)) = PublicKey(BlockAt(rest, h)) => g = h)
          <=> \A g, h \in P : key[g] = key[h] => g = h
    BY <2>1, <2>3
  <2> QED BY <2>4, <2>5, <2>6, <2>7
<1> QED BY <1>6, <1>7, <1>8, <1>9, <1>10, <1>12, <1>13, Zenon DEF Safe, ChunkIsSafe

\* The peers of a document with a block put in are those without it and the one of the block.
LEMMA InsertSaid ==
  ASSUME NEW T, NEW rest \in Seq(T), NEW c \in Seq(T), NEW full \in Seq(T), NEW n,
         Inserts(rest, n, c, full), Chunk(c), NEW p
  PROVE  /\ SaidBy(full, p) = SaidBy(rest, p) \cup {r \in {ReadSettings(c)} : PublicKey(c) = p}
         /\ HeadersOf(full, p) = {} <=> HeadersOf(rest, p) = {} /\ PublicKey(c) # p
<1>1. PICK P : P = PeerHeaders(rest)
  OBVIOUS
<1>2. /\ \A h \in P : BlockAt(full, Moved(n, c, h)) = BlockAt(rest, h)
      /\ BlockAt(full, n + 1) = c
  <2>1. PlacedBlocks(rest, n, c, full)
    BY InsertedHeaders
  <2> QED BY <1>1, <2>1 DEF PlacedBlocks, PeerHeaders
<1>3. PeerHeaders(full) = {Moved(n, c, h) : h \in P} \cup {n + 1}
  BY <1>1, InsertedPeers
<1>4. /\ \A h : h \in HeadersOf(rest, p) <=> h \in P /\ PublicKey(BlockAt(rest, h)) = p
      /\ \A h : h \in HeadersOf(full, p) <=> h \in PeerHeaders(full) /\ PublicKey(BlockAt(full, h)) = p
  BY <1>1 DEF HeadersOf
<1>5. \A h : h \in HeadersOf(full, p) <=>
               \/ \E g \in HeadersOf(rest, p) : h = Moved(n, c, g)
               \/ h = n + 1 /\ PublicKey(c) = p
  BY <1>2, <1>3, <1>4
<1>6. \A r : r \in SaidBy(full, p) <=> \E h \in HeadersOf(full, p) : r = ReadSettings(BlockAt(full, h))
  BY DEF SaidBy
<1>7. \A r : r \in SaidBy(rest, p) <=> \E h \in HeadersOf(rest, p) : r = ReadSettings(BlockAt(rest, h))
  BY DEF SaidBy
<1>8. \A r : r \in SaidBy(full, p) <=> r \in SaidBy(rest, p) \/ (r = ReadSettings(c) /\ PublicKey(c) = p)
  BY <1>2, <1>4, <1>5, <1>6, <1>7
<1>9. HeadersOf(full, p) = {} <=> HeadersOf(rest, p) = {} /\ PublicKey(c) # p
  BY <1>5
<1> QED BY <1>8, <1>9

\* full is d with c in place of the lines h .. e.
Replaced(d, h, e, c, full) ==
  /\ Len(full) = Len(d) - (e - h + 1) + Len(c)
  /\ \A i \in 1 .. h - 1 : full[i] = d[i]
  /\ \A i \in 1 .. Len(c) : full[h - 1 + i] = c[i]
  /\ \A i \in e + 1 .. Len(d) : full[i - (e - h + 1) + Len(c)] = d[i]

Joins(v, x, y, z) ==
  /\ Len(v) = Len(x) + Len(y) + Len(z)
  /\ \A i \in 1 .. Len(x) : v[i] = x[i]
  /\ \A i \in 1 .. Len(y) : v[Len(x) + i] = y[i]
  /\ \A i \in 1 .. Len(z) : v[Len(x) + Len(y) + i] = z[i]

\* What stands where in three sequences behind each other.
LEMMA Three ==
  ASSUME NEW T, NEW x \in Seq(T), NEW y \in Seq(T), NEW z \in Seq(T)
  PROVE  x \o y \o z \in Seq(T) /\ Joins(x \o y \o z, x, y, z)
<1>1. PICK a : a = Len(x)
  OBVIOUS
<1>2. PICK b : b = Len(y)
  OBVIOUS
<1>3. PICK c : c = Len(z)
  OBVIOUS
<1>4. a \in Nat /\ b \in Nat /\ c \in Nat
  BY <1>1, <1>2, <1>3
<1>5. PICK u : u = x \o y
  OBVIOUS
<1>6. u \in Seq(T) /\ Len(u) = a + b /\ \A i \in 1 .. a + b : u[i] = IF i <= a THEN x[i] ELSE y[i - a]
  BY <1>1, <1>2, <1>5, ConcatProperties
<1>7. PICK v : v = u \o z
  OBVIOUS
<1>8. v \in Seq(T) /\ Len(v) = a + b + c
      /\ \A i \in 1 .. a + b + c : v[i] = IF i <= a + b THEN u[i] ELSE z[i - (a + b)]
  <2>1. /\ v \in Seq(T) /\ Len(v) = Len(u) + Len(z)
        /\ \A i \in 1 .. Len(u) + Len(z) : v[i] = IF i <= Len(u) THEN u[i] ELSE z[i - Len(u)]
    BY <1>6, <1>7, ConcatProperties
  <2> QED BY <1>3, <1>6, <2>1
<1>9. \A i \in 1 .. a : v[i] = x[i]
  BY <1>4, <1>6, <1>8
<1>10. \A i \in 1 .. b : v[a + i] = y[i]
  <2> TAKE i \in 1 .. b
  <2>1. a + i \in 1 .. a + b /\ ~(a + i <= a) /\ (a + i) - a = i
    BY <1>4
  <2>2. a + i \in 1 .. a + b + c /\ a + i <= a + b
    BY <1>4
  <2> QED BY <1>6, <1>8, <2>1, <2>2
<1>11. \A i \in 1 .. c : v[a + b + i] = z[i]
  <2> TAKE i \in 1 .. c
  <2>1. a + b + i \in 1 .. a + b + c /\ ~(a + b + i <= a + b) /\ (a + b + i) - (a + b) = i
    BY <1>4
  <2> QED BY <1>8, <2>1
<1>12. Joins(v, x, y, z)
  BY <1>1, <1>2, <1>3, <1>8, <1>9, <1>10, <1>11 DEF Joins
<1> QED BY <1>5, <1>7, <1>8, <1>12

\* Lines that are all ended are parsed again as they were written.
LEMMA RenderIs ==
  ASSUME NEW x \in Seq(Lines), \A i \in 1 .. Len(x) - 1 : x[i].nl = TRUE
  PROVE  Render(x) = x
<1>1. {i \in 1 .. Len(x) - 1 : ~x[i].nl} = {}
  OBVIOUS
<1> QED BY <1>1 DEF Render

LEMMA Ended ==
  ASSUME NEW d
  PROVE  WellFormed(d) <=> d \in Seq(Lines) /\ \A i \in 1 .. Len(d) - 1 : d[i].nl = TRUE
<1>1. ASSUME d \in Seq(Lines) PROVE \A i \in 1 .. Len(d) - 1 : d[i].nl \in BOOLEAN
  <2>1. \A i \in 1 .. Len(d) - 1 : d[i] \in Lines
    BY <1>1
  <2> QED BY <2>1 DEF Lines
<1> QED BY <1>1 DEF WellFormed

\* Only the block at the end of the file can end without a newline.
LEMMA BlockEnds ==
  ASSUME NEW d, WellFormed(d), NEW h \in PeerHeaders(d)
  PROVE  /\ OnlyLastOpen(BlockAt(d, h))
         /\ AllEnded(BlockAt(d, h)) \/ BlockEnd(d, h) = Len(d)
<1>1. PICK n : n = Len(d)
  OBVIOUS
<1>2. PICK e : e = BlockEnd(d, h)
  OBVIOUS
<1>3. PICK b : b = BlockAt(d, h)
  OBVIOUS
<1>4. d \in Seq(Lines) /\ \A i \in 1 .. n - 1 : d[i].nl = TRUE
  BY <1>1, Ended
<1>5. /\ n \in Nat /\ h \in 1 .. n /\ e \in h .. n
      /\ b \in Seq(Lines) /\ Len(b) = e - h + 1 /\ \A i \in 1 .. Len(b) : b[i] = d[h + i - 1]
  BY <1>1, <1>2, <1>3, <1>4, BlockFact DEF PeerHeaders
<1>6. ASSUME NEW i \in 1 .. Len(b), h + i - 1 < n PROVE b[i].nl = TRUE
  <2>1. h + i - 1 \in 1 .. n - 1
    BY <1>5, <1>6
  <2> QED BY <1>4, <1>5, <2>1
<1>7. OnlyLastOpen(b)
  <2>1. \A i \in 1 .. Len(b) - 1 : i \in 1 .. Len(b) /\ h + i - 1 < n
    BY <1>5
  <2> QED BY <1>6, <2>1 DEF OnlyLastOpen
<1>8. ASSUME e # n PROVE AllEnded(b)
  <2>1. \A i \in 1 .. Len(b) : h + i - 1 < n
    BY <1>5, <1>8
  <2>2. DOMAIN b = 1 .. Len(b)
    BY <1>5
  <2> QED BY <1>6, <2>1, <2>2 DEF AllEnded
<1> QED BY <1>1, <1>2, <1>3, <1>7, <1>8

\* ReplaceNodeRange puts exactly the given lines in the place of the block.
LEMMA Replace ==
  ASSUME NEW d, WellFormed(d), NEW h \in PeerHeaders(d),
         NEW c \in Seq(Lines), OnlyLastOpen(c), AllEnded(c) \/ BlockEnd(d, h) = Len(d)
  PROVE  LET full == ReplaceNodeRange(d, Block(d, h), c)
         IN  /\ WellFormed(full) /\ Replaced(d, h, BlockEnd(d, h), c, full)
             /\ full = SubSeq(d, 1, h - 1) \o c \o SubSeq(d, BlockEnd(d, h) + 1, Len(d))
<1>1. PICK n : n = Len(d)
  OBVIOUS
<1>2. PICK e : e = BlockEnd(d, h)
  OBVIOUS
<1>3. d \in Seq(Lines) /\ \A i \in 1 .. n - 1 : d[i].nl = TRUE
  BY <1>1, Ended
<1>4. n \in Nat /\ h \in 1 .. n /\ e \in h .. n
  BY <1>1, <1>2, <1>3, BlockFact DEF PeerHeaders
<1>6. PICK x : x = SubSeq(d, 1, h - 1)
  OBVIOUS
<1>7. PICK z : z = SubSeq(d, e + 1, n)
  OBVIOUS
<1>8. x \in Seq(Lines) /\ Len(x) = h - 1 /\ \A i \in 1 .. h - 1 : x[i] = d[i]
  <2>1. \A i \in 1 .. h - 1 : d[i] \in Lines
    BY <1>1, <1>3, <1>4
  <2>2. SubSeq(d, 1, h - 1) \in Seq(Lines)
    BY <1>4, <2>1, SubSeqProperties
  <2>3. Len(SubSeq(d, 1, h - 1)) = IF 1 <= h - 1 THEN h - 1 - 1 + 1 ELSE 0
    BY <1>4, <2>1, SubSeqProperties
  <2>4. \A i \in 1 .. h - 1 - 1 + 1 : SubSeq(d, 1, h - 1)[i] = d[1 + i - 1]
    BY <1>4, <2>1, SubSeqProperties
  <2> QED BY <1>4, <1>6, <2>2, <2>3, <2>4
<1>9. z \in Seq(Lines) /\ Len(z) = n - e /\ \A i \in 1 .. n - e : z[i] = d[e + i]
  <2>1. \A i \in e + 1 .. n : d[i] \in Lines
    BY <1>1, <1>3, <1>4
  <2>2. SubSeq(d, e + 1, n) \in Seq(Lines)
    BY <1>4, <2>1, SubSeqProperties
  <2>3. Len(SubSeq(d, e + 1, n)) = IF e + 1 <= n THEN n - (e + 1) + 1 ELSE 0
    BY <1>4, <2>1, SubSeqProperties
  <2>4. \A i \in 1 .. n - (e + 1) + 1 : SubSeq(d, e + 1, n)[i] = d[e + 1 + i - 1]
    BY <1>4, <2>1, SubSeqProperties
  <2> QED BY <1>4, <1>7, <2>2, <2>3, <2>4
<1>10. PICK k : k = Len(c)
  OBVIOUS
<1>11. /\ k \in Nat /\ \A i \in 1 .. k - 1 : c[i].nl = TRUE
       /\ (\A i \in 1 .. k : c[i].nl = TRUE) \/ e = n
  BY <1>1, <1>2, <1>10 DEF AllEnded, OnlyLastOpen
<1>12. PICK full : full = x \o c \o z
  OBVIOUS
<1>13. /\ full \in Seq(Lines) /\ Len(full) = (h - 1) + k + (n - e)
       /\ \A i \in 1 .. h - 1 : full[i] = x[i]
       /\ \A i \in 1 .. k : full[h - 1 + i] = c[i]
       /\ \A i \in 1 .. n - e : full[h - 1 + k + i] = z[i]
  <2>1. full \in Seq(Lines) /\ Joins(full, x, c, z)
    BY <1>8, <1>9, <1>12, Three
  <2> QED BY <1>8, <1>9, <1>10, <2>1 DEF Joins
<1>14. \A i \in e + 1 .. n : full[i - (e - h + 1) + k] = d[i]
  <2> TAKE i \in e + 1 .. n
  <2>1. PICK j : j = i - e
    OBVIOUS
  <2>2. j \in 1 .. n - e /\ e + j = i /\ i - (e - h + 1) + k = h - 1 + k + j
    BY <1>4, <1>11, <2>1
  <2> QED BY <1>9, <1>13, <2>2
<1>15. \A i \in 1 .. Len(full) - 1 : full[i].nl = TRUE
  <2> TAKE i \in 1 .. Len(full) - 1
  <2>1. i \in Int /\ 1 <= i /\ i < h - 1 + k + (n - e)
    BY <1>4, <1>11, <1>13
  <2>2. CASE i <= h - 1
    <3>1. i \in 1 .. h - 1 /\ i \in 1 .. n - 1
      BY <1>4, <2>1, <2>2
    <3>2. full[i] = d[i]
      BY <1>8, <1>13, <3>1
    <3> QED BY <1>3, <3>1, <3>2
  <2>3. CASE h - 1 < i /\ i <= h - 1 + k
    <3>1. PICK j : j = i - (h - 1)
      OBVIOUS
    <3>2. j \in 1 .. k /\ i = h - 1 + j
      BY <1>4, <1>11, <2>1, <2>3, <3>1
    <3>3. c[j].nl = TRUE
      <4>1. j \in 1 .. k - 1 \/ j = k
        BY <1>11, <3>2
      <4>2. e = n => j # k
        BY <1>4, <1>11, <2>1, <3>2
      <4> QED BY <1>11, <3>2, <4>1, <4>2
    <3> QED BY <1>13, <3>2, <3>3
  <2>4. CASE h - 1 + k < i
    <3>1. PICK j : j = i - (h - 1 + k)
      OBVIOUS
    <3>2. j \in 1 .. n - e /\ i = h - 1 + k + j /\ e + j \in 1 .. n - 1
      BY <1>4, <1>11, <2>1, <2>4, <3>1
    <3> QED BY <1>3, <1>9, <1>13, <3>2
  <2>5. i <= h - 1 \/ (h - 1 < i /\ i <= h - 1 + k) \/ h - 1 + k < i
    BY <1>4, <1>11, <2>1
  <2> QED BY <2>2, <2>3, <2>4, <2>5
<1>16. Render(full) = full
  BY <1>13, <1>15, RenderIs
<1>17. ReplaceNodeRange(d, Block(d, h), c) = full
  <2>1. Block(d, h).first = h /\ Block(d, h).last = e
    BY <1>2 DEF Block
  <2> QED BY <1>1, <1>6, <1>7, <1>12, <1>16, <2>1 DEF ReplaceNodeRange
<1>18. WellFormed(full)
  BY <1>13, <1>15, Ended
<1>19. Replaced(d, h, e, c, full)
  <2>1. Len(full) = n - (e - h + 1) + k
    BY <1>4, <1>11, <1>13
  <2> QED BY <1>1, <1>8, <1>10, <1>13, <1>14, <2>1 DEF Replaced
<1> QED BY <1>1, <1>2, <1>6, <1>7, <1>12, <1>17, <1>18, <1>19

\* A document is what is left of it with the block put in again.
LEMMA CutOut ==
  ASSUME NEW T, NEW d \in Seq(T), NEW h \in PeerHeaders(d), NEW rest \in Seq(T),
         Replaced(d, h, BlockEnd(d, h), <<>>, rest)
  PROVE  Inserts(rest, h - 1, BlockAt(d, h), d) /\ Chunk(BlockAt(d, h))
<1>1. PICK n : n = Len(d)
  OBVIOUS
<1>2. PICK e : e = BlockEnd(d, h)
  OBVIOUS
<1>3. PICK c : c = BlockAt(d, h)
  OBVIOUS
<1>4. h \in Headers(d) /\ d[h].key = "peer" /\ d[h].kind = "header"
  BY DEF PeerHeaders, Headers
<1>5. /\ n \in Nat /\ h \in 1 .. n /\ e \in h .. n
      /\ c \in Seq(T) /\ Len(c) = e - h + 1
      /\ \A i \in 1 .. Len(c) : c[i] = d[h + i - 1]
  BY <1>1, <1>2, <1>3, <1>4, BlockFact
<1>6. /\ \A i \in h + 1 .. e : d[i].kind # "header"
      /\ e = n \/ d[e + 1].kind = "header"
  BY <1>1, <1>2, <1>4, EndFact DEF Ends
<1>7. /\ Len(rest) = n - (e - h + 1)
      /\ \A i \in 1 .. h - 1 : rest[i] = d[i]
      /\ \A i \in e + 1 .. n : rest[i - (e - h + 1)] = d[i]
  <2>1. Len(<<>>) = 0
    OBVIOUS
  <2>2. /\ Len(rest) = n - (e - h + 1) + 0
        /\ \A i \in 1 .. h - 1 : rest[i] = d[i]
        /\ \A i \in e + 1 .. n : rest[i - (e - h + 1) + 0] = d[i]
    BY <1>1, <1>2, <2>1 DEF Replaced
  <2>3. \A i \in e + 1 .. n : i - (e - h + 1) + 0 = i - (e - h + 1)
    BY <1>5
  <2> QED BY <1>5, <2>2, <2>3
<1>8. Chunk(c)
  <2>1. Len(c) > 0 /\ c[1] = d[h]
    BY <1>5
  <2>2. \A i \in 2 .. Len(c) : c[i].kind # "header"
    <3> TAKE i \in 2 .. Len(c)
    <3>1. i \in 1 .. Len(c) /\ h + i - 1 \in h + 1 .. e
      BY <1>5
    <3> QED BY <1>5, <1>6, <3>1
  <2> QED BY <1>4, <2>1, <2>2 DEF Chunk
<1>9. Inserts(rest, h - 1, c, d)
  <2>1. h - 1 \in 0 .. Len(rest) /\ n = Len(rest) + Len(c)
    BY <1>5, <1>7
  <2>2. h - 1 = Len(rest) \/ rest[h - 1 + 1].kind = "header"
    <3>1. CASE e = n
      BY <1>5, <1>7, <3>1
    <3>2. CASE e # n
      <4>1. e + 1 \in e + 1 .. n /\ (e + 1) - (e - h + 1) = h /\ h - 1 + 1 = h
        BY <1>5, <3>2
      <4> QED BY <1>6, <1>7, <3>2, <4>1
    <3> QED BY <3>1, <3>2
  <2>3. \A i \in 1 .. h - 1 : d[i] = rest[i]
    BY <1>7
  <2>4. \A i \in 1 .. Len(c) : d[h - 1 + i] = c[i]
    <3>1. \A i \in 1 .. Len(c) : h - 1 + i = h + i - 1
      BY <1>5
    <3> QED BY <1>5, <3>1
  <2>5. \A i \in h - 1 + 1 .. Len(rest) : d[i + Len(c)] = rest[i]
    <3> TAKE i \in h - 1 + 1 .. Len(rest)
    <3>1. PICK j : j = i + Len(c)
      OBVIOUS
    <3>2. j \in e + 1 .. n /\ j - (e - h + 1) = i
      BY <1>5, <1>7, <3>1
    <3> QED BY <1>7, <3>1, <3>2
  <2> QED BY <1>1, <2>1, <2>2, <2>3, <2>4, <2>5 DEF Inserts
<1> QED BY <1>3, <1>8, <1>9

\* Replacing a block is putting the new one in where the old one was cut out.
LEMMA PutIn ==
  ASSUME NEW T, NEW d \in Seq(T), NEW h \in PeerHeaders(d), NEW rest \in Seq(T), NEW full \in Seq(T),
         Replaced(d, h, BlockEnd(d, h), <<>>, rest),
         NEW c \in Seq(T), Replaced(d, h, BlockEnd(d, h), c, full)
  PROVE  Inserts(rest, h - 1, c, full)
<1>1. PICK n : n = Len(d)
  OBVIOUS
<1>2. PICK e : e = BlockEnd(d, h)
  OBVIOUS
<1>3. PICK k : k = Len(c)
  OBVIOUS
<1>4. n \in Nat /\ h \in 1 .. n /\ e \in h .. n /\ k \in Nat
  BY <1>1, <1>2, <1>3, BlockFact DEF PeerHeaders
<1>5. e = n \/ d[e + 1].kind = "header"
  BY <1>1, <1>2, EndFact DEF Ends, PeerHeaders
<1>6. /\ Len(rest) = n - (e - h + 1)
      /\ \A i \in 1 .. h - 1 : rest[i] = d[i]
      /\ \A i \in e + 1 .. n : rest[i - (e - h + 1)] = d[i]
  <2>1. Len(<<>>) = 0
    OBVIOUS
  <2>2. /\ Len(rest) = n - (e - h + 1) + 0
        /\ \A i \in 1 .. h - 1 : rest[i] = d[i]
        /\ \A i \in e + 1 .. n : rest[i - (e - h + 1) + 0] = d[i]
    BY <1>1, <1>2, <2>1 DEF Replaced
  <2>3. \A i \in e + 1 .. n : i - (e - h + 1) + 0 = i - (e - h + 1)
    BY <1>4
  <2> QED BY <1>4, <2>2, <2>3
<1>7. /\ Len(full) = n - (e - h + 1) + k
      /\ \A i \in 1 .. h - 1 : full[i] = d[i]
      /\ \A i \in 1 .. k : full[h - 1 + i] = c[i]
      /\ \A i \in e + 1 .. n : full[i - (e - h + 1) + k] = d[i]
  BY <1>1, <1>2, <1>3 DEF Replaced
<1>8. h - 1 \in 0 .. Len(rest) /\ Len(full) = Len(rest) + k
  BY <1>4, <1>6, <1>7
<1>9. h - 1 = Len(rest) \/ rest[h - 1 + 1].kind = "header"
  <2>1. CASE e = n
    BY <1>4, <1>6, <2>1
  <2>2. CASE e # n
    <3>1. e + 1 \in e + 1 .. n /\ (e + 1) - (e - h + 1) = h /\ h - 1 + 1 = h
      BY <1>4, <2>2
    <3> QED BY <1>5, <1>6, <2>2, <3>1
  <2> QED BY <2>1, <2>2
<1>10. \A i \in 1 .. h - 1 : full[i] = rest[i]
  BY <1>6, <1>7
<1>11. \A i \in h - 1 + 1 .. Len(rest) : full[i + k] = rest[i]
  <2> TAKE i \in h - 1 + 1 .. Len(rest)
  <2>1. PICK j : j = i + (e - h + 1)
    OBVIOUS
  <2>2. j \in e + 1 .. n /\ j - (e - h + 1) = i /\ j - (e - h + 1) + k = i + k
    BY <1>4, <1>6, <2>1
  <2> QED BY <1>6, <1>7, <2>2
<1> QED BY <1>3, <1>7, <1>8, <1>9, <1>10, <1>11 DEF Inserts

-----------------------------------------------------------------------------
(* The separator in front of an appended block. *)

ReadKeys == Fields \cup {"publickey"}

\* b and c assign the same values to the keys that are read, in the same lines.
Alike(b, c) ==
  \A key \in ReadKeys : /\ Assigned(b, key) = Assigned(c, key)
                        /\ \A i \in Assigned(b, key) : b[i].val = c[i].val

LEMMA LastIs ==
  ASSUME NEW T, NEW b \in Seq(T), NEW key, NEW S \in SUBSET Assigned(b, key), S # {}
  PROVE  Max(S) \in S /\ (\A i \in S : i <= Max(S)) /\ LastValue(b, S) = b[Max(S)].val
<1>1. PICK n : n = Len(b)
  OBVIOUS
<1>2. n \in Nat /\ S \in SUBSET (1 .. n)
  BY <1>1 DEF Assigned
<1>3. Max(S) \in S /\ \A i \in S : i <= Max(S)
  BY <1>2, MaxFact
<1> QED BY <1>3 DEF LastValue

\* Blocks with the same assignments in the same lines say the same.
LEMMA AlikeReads ==
  ASSUME NEW T, NEW b \in Seq(T), NEW c \in Seq(T), Alike(b, c)
  PROVE  /\ PublicKey(b) = PublicKey(c) /\ ReadSettings(b) = ReadSettings(c)
         /\ BlockIsSafe(b) <=> BlockIsSafe(c)
<1>1. \A key \in ReadKeys : /\ Assigned(b, key) = Assigned(c, key)
                            /\ \A i \in Assigned(b, key) : b[i].val = c[i].val
  BY DEF Alike
<1>2. ASSUME NEW key \in ReadKeys, NEW S \in SUBSET Assigned(b, key) PROVE LastValue(b, S) = LastValue(c, S)
  <2>1. CASE S = {}
    BY <2>1 DEF LastValue
  <2>2. CASE S # {}
    <3>1. Max(S) \in S /\ LastValue(b, S) = b[Max(S)].val
      BY <2>2, LastIs
    <3>2. LastValue(c, S) = c[Max(S)].val
      BY <2>2 DEF LastValue
    <3> QED BY <1>1, <3>1, <3>2
  <2> QED BY <2>1, <2>2
<1>3. "publickey" \in ReadKeys /\ \A f \in Fields : f \in ReadKeys
  BY DEF ReadKeys
<1>4. PublicKey(b) = PublicKey(c) /\ {i \in Assigned(b, "publickey") : ValidKey(b[i].val)}
                                       = {i \in Assigned(c, "publickey") : ValidKey(c[i].val)}
  <2>1. PICK S : S = {i \in Assigned(b, "publickey") : ValidKey(b[i].val)}
    OBVIOUS
  <2>2. S = {i \in Assigned(c, "publickey") : ValidKey(c[i].val)}
    BY <1>1, <1>3, <2>1
  <2>3. S \in SUBSET Assigned(b, "publickey")
    BY <2>1
  <2>4. LastValue(b, S) = LastValue(c, S)
    BY <1>2, <1>3, <2>3
  <2> QED BY <2>1, <2>2, <2>4 DEF PublicKey
<1>5. BlockIsSafe(b) <=> BlockIsSafe(c)
  <2>1. "presharedkey" \in ReadKeys
    BY DEF ReadKeys, Fields
  <2>2. /\ Assigned(b, "publickey") = Assigned(c, "publickey")
        /\ \A i \in Assigned(b, "publickey") : b[i].val = c[i].val
        /\ Assigned(b, "presharedkey") = Assigned(c, "presharedkey")
    BY <1>1, <1>3, <2>1
  <2> QED BY <1>4, <2>2 DEF BlockIsSafe
<1>6. AllowedIPs(b) = AllowedIPs(c)
  <2>1. "allowedips" \in ReadKeys
    BY DEF ReadKeys, Fields
  <2>2. PICK S : S = Assigned(b, "allowedips")
    OBVIOUS
  <2>3. S = Assigned(c, "allowedips") /\ \A i \in S : b[i].val = c[i].val
    BY <1>1, <2>1, <2>2
  <2>4. {Range(b[i].val) \cap Cidrs : i \in S} = {Range(c[i].val) \cap Cidrs : i \in S}
    BY <2>3
  <2> QED BY <2>2, <2>3, <2>4 DEF AllowedIPs
<1>7. ASSUME NEW f \in Fields
      PROVE  /\ LastValue(b, Assigned(b, f)) = LastValue(c, Assigned(c, f))
             /\ LastValue(b, {i \in Assigned(b, f) : IsKeepalive(b[i].val)})
                  = LastValue(c, {i \in Assigned(c, f) : IsKeepalive(c[i].val)})
  <2>1. PICK S : S = {i \in Assigned(b, f) : IsKeepalive(b[i].val)}
    OBVIOUS
  <2>2. S = {i \in Assigned(c, f) : IsKeepalive(c[i].val)} /\ Assigned(b, f) = Assigned(c, f)
    BY <1>1, <1>3, <2>1
  <2>3. S \in SUBSET Assigned(b, f) /\ Assigned(b, f) \in SUBSET Assigned(b, f)
    BY <2>1
  <2>4. LastValue(b, S) = LastValue(c, S) /\ LastValue(b, Assigned(b, f)) = LastValue(c, Assigned(b, f))
    BY <1>2, <1>3, <2>3
  <2> QED BY <2>1, <2>2, <2>4
<1>8. ReadSettings(b) = ReadSettings(c)
  BY <1>6, <1>7 DEF ReadSettings
<1> QED BY <1>4, <1>5, <1>8

\* s is d up to newlines and a line behind the end that says nothing.
Padded(d, s) ==
  /\ Len(s) \in {Len(d), Len(d) + 1}
  /\ \A i \in 1 .. Len(d) : s[i].kind = d[i].kind /\ s[i].key = d[i].key /\ s[i].val = d[i].val
  /\ \A i \in 1 .. Len(s) : i > Len(d) => s[i].kind = "blank"

LEMMA PaddedAlike ==
  ASSUME NEW T, NEW d \in Seq(T), NEW s \in Seq(T), Padded(d, s)
  PROVE  Alike(d, s)
<1>1. PICK n : n = Len(d)
  OBVIOUS
<1>2. /\ n \in Nat /\ DOMAIN d = 1 .. n /\ DOMAIN s = 1 .. Len(s) /\ Len(s) \in {n, n + 1}
      /\ \A i \in 1 .. n : s[i].kind = d[i].kind /\ s[i].key = d[i].key /\ s[i].val = d[i].val
      /\ \A i \in 1 .. Len(s) : i > n => s[i].kind = "blank"
  BY <1>1 DEF Padded
<1>3. Len(s) \in Nat /\ \A i \in 1 .. n : i \in 1 .. Len(s)
  <2>1. PICK l : l = Len(s)
    OBVIOUS
  <2>2. Len(s) \in Nat /\ Len(d) \in Nat
    OBVIOUS
  <2>3. l \in {n, n + 1}
    BY <1>1, <2>1 DEF Padded
  <2>4. l \in Nat /\ (l = n \/ l = n + 1)
    BY <1>1, <2>1, <2>2, <2>3
  <2>5. \A i \in 1 .. n : i \in 1 .. l
    BY <1>1, <2>4, <2>2
  <2> QED BY <2>1, <2>4, <2>5
<1>4. ASSUME NEW key PROVE /\ Assigned(d, key) = Assigned(s, key)
                           /\ \A i \in Assigned(d, key) : d[i].val = s[i].val
  <2>1. \A i : i \in Assigned(d, key) => i \in Assigned(s, key) /\ d[i].val = s[i].val
    BY <1>2, <1>3 DEF Assigned
  <2>2. \A i : i \in Assigned(s, key) => i \in Assigned(d, key)
    <3> SUFFICES ASSUME NEW i \in Assigned(s, key) PROVE i \in Assigned(d, key)
      OBVIOUS
    <3>1. i \in 1 .. Len(s) /\ s[i].kind = "assignment" /\ s[i].key = key
      BY <1>2 DEF Assigned
    <3>2. ~(i > n)
      BY <1>2, <3>1
    <3>3. i \in 1 .. n
      <4>1. n \in Nat /\ Len(s) \in Nat
        BY <1>2, <1>3
      <4> QED BY <3>1, <3>2, <4>1
    <3> QED BY <1>2, <3>1, <3>3 DEF Assigned
  <2> QED BY <2>1, <2>2
<1> QED BY <1>4 DEF Alike

\* The separator in front of an appended block changes no block.
LEMMA PaddedBlocks ==
  ASSUME NEW T, NEW d \in Seq(T), NEW s \in Seq(T), Padded(d, s)
  PROVE  /\ Headers(s) = Headers(d) /\ PeerHeaders(s) = PeerHeaders(d)
         /\ \A h \in Headers(d) : Alike(BlockAt(d, h), BlockAt(s, h))
<1>1. PICK n : n = Len(d)
  OBVIOUS
<1>2. PICK l : l = Len(s)
  OBVIOUS
<1>3. /\ n \in Nat /\ DOMAIN d = 1 .. n /\ DOMAIN s = 1 .. l /\ l \in {n, n + 1}
      /\ \A i \in 1 .. n : s[i].kind = d[i].kind /\ s[i].key = d[i].key /\ s[i].val = d[i].val
      /\ \A i \in 1 .. l : i > n => s[i].kind = "blank"
  BY <1>1, <1>2 DEF Padded
<1>4. l \in Nat /\ n <= l /\ l <= n + 1 /\ \A i \in 1 .. n : i \in 1 .. l
  BY <1>3
<1>5. \A i : i \in Headers(s) <=> i \in Headers(d)
  <2> SUFFICES ASSUME NEW i PROVE i \in Headers(s) <=> i \in Headers(d)
    OBVIOUS
  <2>1. i \in Headers(d) => i \in Headers(s)
    BY <1>3 DEF Headers
  <2>2. ASSUME i \in Headers(s) PROVE i \in Headers(d)
    <3>1. i \in 1 .. l /\ s[i].kind = "header"
      BY <1>3, <2>2 DEF Headers
    <3>2. ~(i > n)
      BY <1>3, <3>1
    <3>3. i \in 1 .. n
      BY <1>3, <3>1, <3>2
    <3> QED BY <1>3, <3>1, <3>3 DEF Headers
  <2> QED BY <2>1, <2>2
<1>6. Headers(s) = Headers(d)
  BY <1>5
<1>7. \A h \in Headers(d) : h \in 1 .. n /\ s[h].key = d[h].key /\ s[h].kind = "header"
  BY <1>3 DEF Headers
<1>8. PeerHeaders(s) = PeerHeaders(d)
  BY <1>6, <1>7 DEF PeerHeaders
<1>9. ASSUME NEW h \in Headers(d) PROVE Alike(BlockAt(d, h), BlockAt(s, h))
  <2>1. PICK e : e = BlockEnd(d, h)
    OBVIOUS
  <2>2. PICK f : f = BlockEnd(s, h)
    OBVIOUS
  <2>3. PICK b : b = BlockAt(d, h)
    OBVIOUS
  <2>4. PICK c : c = BlockAt(s, h)
    OBVIOUS
  <2>5. /\ h \in 1 .. n /\ e \in h .. n /\ b \in Seq(T) /\ Len(b) = e - h + 1
        /\ \A i \in 1 .. Len(b) : b[i] = d[h + i - 1]
        /\ \A i \in h + 1 .. e : d[i].kind # "header"
        /\ e = n \/ d[e + 1].kind = "header"
    BY <1>1, <2>1, <2>3, BlockFact, EndFact DEF Ends
  <2>6. h \in Headers(s)
    BY <1>6
  <2>7. /\ f \in h .. l /\ c \in Seq(T) /\ Len(c) = f - h + 1
        /\ \A i \in 1 .. Len(c) : c[i] = s[h + i - 1]
        /\ \A i \in h + 1 .. f : s[i].kind # "header"
        /\ f = l \/ s[f + 1].kind = "header"
    BY <1>2, <2>2, <2>4, <2>6, BlockFact, EndFact DEF Ends
  <2>8. \A i \in 1 .. l : s[i].kind = "header" => i \in 1 .. n /\ d[i].kind = "header"
    BY <1>3
  <2>9. /\ h \in Int /\ e \in Int /\ f \in Int /\ n \in Int /\ l \in Int
        /\ 1 <= h /\ h <= e /\ e <= n /\ h <= f /\ f <= l /\ n <= l /\ l <= n + 1
    BY <1>3, <1>4, <2>5, <2>7
  <2>10. f = e \/ (e = n /\ f = n + 1)
    <3>1. CASE e = n
      <4>1. \A i \in h + 1 .. n : s[i].kind # "header"
        <5> TAKE i \in h + 1 .. n
        <5>1. i \in 1 .. n /\ i \in h + 1 .. e
          BY <2>9, <3>1
        <5> QED BY <1>3, <2>5, <5>1
      <4>2. ~(f < n)
        <5> SUFFICES ASSUME f < n PROVE FALSE
          OBVIOUS
        <5>1. f # l /\ f + 1 \in h + 1 .. n
          BY <2>9
        <5> QED BY <2>7, <4>1, <5>1
      <4> QED BY <2>9, <3>1, <4>2
    <3>2. CASE e # n
      <4>1. e + 1 \in 1 .. n /\ e + 1 \in 1 .. l /\ s[e + 1].kind = "header"
        BY <1>3, <2>5, <3>2
      <4>2. ~(f > e)
        BY <1>3, <2>5, <2>7, <4>1, SMTT(30)
      <4>3. ~(f < e)
        <5> SUFFICES ASSUME f < e PROVE FALSE
          OBVIOUS
        <5>1. f + 1 \in h + 1 .. e /\ f + 1 \in 1 .. n /\ f + 1 \in 1 .. l /\ f # l
          BY <1>3, <2>5, <2>7
        <5> QED BY <1>3, <2>5, <2>7, <5>1
      <4> QED BY <1>3, <2>5, <2>7, <4>2, <4>3
    <3> QED BY <3>1, <3>2
  <2>11. \A i \in 1 .. Len(b) : h + i - 1 \in 1 .. n /\ i \in 1 .. Len(c)
    <3> TAKE i \in 1 .. Len(b)
    <3>1. i \in Int /\ 1 <= i /\ i <= e - h + 1
      BY <2>5, <2>9
    <3>2. h + i - 1 \in 1 .. n /\ i \in 1 .. f - h + 1
      BY <2>10, <2>9, <3>1
    <3> QED BY <2>7, <3>2
  <2>12. \A i \in 1 .. Len(b) : c[i].kind = b[i].kind /\ c[i].key = b[i].key /\ c[i].val = b[i].val
    BY <1>3, <2>5, <2>7, <2>11
  <2>13. Len(c) \in {Len(b), Len(b) + 1}
    BY <1>3, <2>5, <2>7, <2>10
  <2>14. \A i \in 1 .. Len(c) : i > Len(b) => c[i].kind = "blank"
    <3> SUFFICES ASSUME NEW i \in 1 .. Len(c), i > Len(b) PROVE c[i].kind = "blank"
      OBVIOUS
    <3>1. h + i - 1 \in 1 .. l /\ h + i - 1 > n
      BY <1>3, <2>5, <2>7, <2>10
    <3> QED BY <1>3, <2>7, <3>1
  <2>15. Padded(b, c)
    BY <2>12, <2>13, <2>14 DEF Padded
  <2> QED BY <2>3, <2>4, <2>5, <2>7, <2>15, PaddedAlike
<1> QED BY <1>6, <1>8, <1>9

LEMMA PaddedPrivateKeys ==
  ASSUME NEW T, NEW d \in Seq(T), NEW s \in Seq(T), Padded(d, s)
  PROVE  PrivateKeys(s) = PrivateKeys(d)
<1>1. DOMAIN d = 1 .. Len(d) /\ DOMAIN s = 1 .. Len(s) /\ Len(d) \in Nat /\ Len(s) \in Nat
  OBVIOUS
<1>2. Len(s) = Len(d) \/ Len(s) = Len(d) + 1
  BY DEF Padded
<1>3. /\ \A i \in DOMAIN d : s[i].kind = d[i].kind /\ s[i].key = d[i].key /\ i \in DOMAIN s
      /\ \A i \in DOMAIN s : s[i].kind # "blank" => i \in DOMAIN d
  <2>1. \A i \in DOMAIN d : i \in DOMAIN s
    <3>1. PICK n : n = Len(d)
      OBVIOUS
    <3>2. PICK l : l = Len(s)
      OBVIOUS
    <3>3. n \in Nat /\ l \in Nat /\ (l = n \/ l = n + 1)
      BY <1>1, <1>2, <3>1, <3>2
    <3>4. \A i \in 1 .. n : i \in 1 .. l
      BY <3>3
    <3> QED BY <1>1, <3>1, <3>2, <3>4
  <2>2. \A i \in DOMAIN s : s[i].kind # "blank" => i \in DOMAIN d
    <3> SUFFICES ASSUME NEW i \in DOMAIN s, s[i].kind # "blank" PROVE i \in DOMAIN d
      OBVIOUS
    <3>1. ~(i > Len(d))
      BY <1>1 DEF Padded
    <3>2. i \in 1 .. Len(s)
      BY <1>1
    <3>3. i \in 1 .. Len(d)
      BY <1>1, <3>1, <3>2
    <3> QED BY <1>1, <3>3
  <2> QED BY <1>1, <2>1, <2>2 DEF Padded
<1>4. Headers(s) = Headers(d)
  BY PaddedBlocks
<1>5. ASSUME NEW i \in DOMAIN d PROVE InInterface(s, i) <=> InInterface(d, i)
  <2>1. \A h \in Headers(d) : h \in DOMAIN d /\ s[h].key = d[h].key
    BY <1>3 DEF Headers
  <2>2. ASSUME NEW h \in Headers(d)
        PROVE  (\A j \in h + 1 .. i : d[j].kind # "header") <=> \A j \in h + 1 .. i : s[j].kind # "header"
    <3>1. h \in 1 .. Len(d) /\ i \in 1 .. Len(d)
      BY <1>1, <2>1
    <3>2. \A j \in h + 1 .. i : j \in DOMAIN d
      BY <1>1, <3>1
    <3> QED BY <1>3, <3>2
  <2> QED BY <1>4, <2>1, <2>2 DEF InInterface
<1>6. \A i : i \in PrivateKeys(s) <=> /\ i \in DOMAIN s /\ s[i].kind = "assignment"
                                      /\ s[i].key = "privatekey" /\ InInterface(s, i)
  BY DEF PrivateKeys, Assigned
<1>7. \A i : i \in PrivateKeys(d) <=> /\ i \in DOMAIN d /\ d[i].kind = "assignment"
                                      /\ d[i].key = "privatekey" /\ InInterface(d, i)
  BY DEF PrivateKeys, Assigned
<1>8. \A i : i \in PrivateKeys(s) => i \in PrivateKeys(d)
  BY <1>3, <1>5, <1>6, <1>7
<1>9. \A i : i \in PrivateKeys(d) => i \in PrivateKeys(s)
  BY <1>3, <1>5, <1>6, <1>7
<1> QED BY <1>8, <1>9

\* ... and neither the safety of the document nor what the peers say.
LEMMA PaddedSafe ==
  ASSUME NEW T, NEW d \in Seq(T), NEW s \in Seq(T), Padded(d, s)
  PROVE  /\ Safe(s) <=> Safe(d)
         /\ \A p : HeadersOf(s, p) = HeadersOf(d, p) /\ SaidBy(s, p) = SaidBy(d, p)
<1>1. DOMAIN d = 1 .. Len(d) /\ DOMAIN s = 1 .. Len(s) /\ Len(d) \in Nat /\ Len(s) \in Nat
  OBVIOUS
<1>2. Len(s) = Len(d) \/ Len(s) = Len(d) + 1
  BY DEF Padded
<1>3. /\ \A i \in DOMAIN d : s[i].kind = d[i].kind /\ s[i].key = d[i].key /\ s[i].val = d[i].val
      /\ \A i \in DOMAIN d : i \in DOMAIN s
      /\ \A i \in DOMAIN s : i \in DOMAIN d \/ s[i].kind = "blank"
  <2>1. \A i \in DOMAIN d : i \in DOMAIN s
    <3>1. PICK n : n = Len(d)
      OBVIOUS
    <3>2. PICK l : l = Len(s)
      OBVIOUS
    <3>3. n \in Nat /\ l \in Nat /\ (l = n \/ l = n + 1)
      BY <1>1, <1>2, <3>1, <3>2
    <3>4. \A i \in 1 .. n : i \in 1 .. l
      BY <3>3
    <3> QED BY <1>1, <3>1, <3>2, <3>4
  <2>2. \A i \in DOMAIN s : i \in DOMAIN d \/ s[i].kind = "blank"
    <3> SUFFICES ASSUME NEW i \in DOMAIN s, s[i].kind # "blank" PROVE i \in DOMAIN d
      OBVIOUS
    <3>1. ~(i > Len(d))
      BY <1>1 DEF Padded
    <3>2. i \in 1 .. Len(s)
      BY <1>1
    <3>3. i \in 1 .. Len(d)
      BY <1>1, <3>1, <3>2
    <3> QED BY <1>1, <3>3
  <2> QED BY <1>1, <2>1, <2>2 DEF Padded
<1>4. /\ Headers(s) = Headers(d) /\ PeerHeaders(s) = PeerHeaders(d)
      /\ \A h \in Headers(d) : Alike(BlockAt(d, h), BlockAt(s, h))
  BY PaddedBlocks
<1>5. \A h \in Headers(d) : h \in DOMAIN d /\ s[h].key = d[h].key
  BY <1>3 DEF Headers
<1>6. InterfaceHeaders(s) = InterfaceHeaders(d)
  BY <1>4, <1>5 DEF InterfaceHeaders
<1>7. ASSUME NEW h \in PeerHeaders(d)
      PROVE  /\ PublicKey(BlockAt(s, h)) = PublicKey(BlockAt(d, h))
             /\ ReadSettings(BlockAt(s, h)) = ReadSettings(BlockAt(d, h))
             /\ BlockIsSafe(BlockAt(s, h)) <=> BlockIsSafe(BlockAt(d, h))
  <2>1. h \in Headers(d) /\ h \in Headers(s)
    BY <1>4 DEF PeerHeaders
  <2>2. BlockAt(d, h) \in Seq(T) /\ BlockAt(s, h) \in Seq(T)
    BY <2>1, BlockFact
  <2> QED BY <1>4, <2>1, <2>2, AlikeReads
<1>8. (\A i \in DOMAIN s : s[i].kind # "raw") <=> \A i \in DOMAIN d : d[i].kind # "raw"
  BY <1>3
<1>9. (\A h \in Headers(s) : s[h].key \in {"interface", "peer"})
        <=> \A h \in Headers(d) : d[h].key \in {"interface", "peer"}
  BY <1>4, <1>5
<1>10. (\A i \in DOMAIN s : s[i].kind = "assignment" => \E h \in Headers(s) : h < i)
         <=> \A i \in DOMAIN d : d[i].kind = "assignment" => \E h \in Headers(d) : h < i
  BY <1>3, <1>4
<1>11. PrivateKeys(s) = PrivateKeys(d) /\ \A i \in PrivateKeys(d) : s[i].val = d[i].val
  BY <1>3, PaddedPrivateKeys DEF PrivateKeys, Assigned
<1>12. (\E i : PrivateKeys(s) = {i} /\ ValidSecret(s[i].val))
         <=> \E i : PrivateKeys(d) = {i} /\ ValidSecret(d[i].val)
  BY <1>11
<1>13. (\A h \in PeerHeaders(s) : BlockIsSafe(BlockAt(s, h)))
         <=> \A h \in PeerHeaders(d) : BlockIsSafe(BlockAt(d, h))
  BY <1>4, <1>7
<1>14. (\A g, h \in PeerHeaders(s) : PublicKey(BlockAt(s, g)) = PublicKey(BlockAt(s, h)) => g = h)
         <=> \A g, h \in PeerHeaders(d) : PublicKey(BlockAt(d, g)) = PublicKey(BlockAt(d, h)) => g = h
  BY <1>4, <1>7
<1>15. Safe(s) <=> Safe(d)
  BY <1>6, <1>8, <1>9, <1>10, <1>12, <1>13, <1>14, Zenon DEF Safe
<1>16. ASSUME NEW p PROVE HeadersOf(s, p) = HeadersOf(d, p) /\ SaidBy(s, p) = SaidBy(d, p)
  <2>1. HeadersOf(s, p) = HeadersOf(d, p) /\ \A h \in HeadersOf(d, p) : h \in PeerHeaders(d)
    BY <1>4, <1>7 DEF HeadersOf
  <2>2. SaidBy(s, p) = SaidBy(d, p)
    BY <1>7, <2>1 DEF SaidBy
  <2> QED BY <2>1, <2>2
<1> QED BY <1>15, <1>16

\* A line by its parts.
LEMMA LineType ==
  ASSUME NEW l
  PROVE  l \in Lines <=>
           /\ l = [kind |-> l.kind, key |-> l.key, val |-> l.val, nl |-> l.nl]
           /\ l.kind \in Kinds /\ l.key \in Keys /\ l.val \in Seq(Words) /\ l.nl \in BOOLEAN
           /\ l.kind = "assignment" /\ l.key \in {"endpoint", "presharedkey"} =>
                Range(l.val) \subseteq Values[l.key]
BY DEF Lines

\* The separator ends the last line and adds a blank one at most.
LEMMA SeparatedIs ==
  ASSUME NEW d, WellFormed(d)
  PROVE  /\ Separated(d) \in Seq(Lines) /\ Padded(d, Separated(d))
         /\ AllEnded(Separated(d))
         /\ \A i \in 1 .. Len(d) : [Separated(d)[i] EXCEPT !.nl = d[i].nl] = d[i]
<1>1. PICK n : n = Len(d)
  OBVIOUS
<1>2. PICK s : s = Separated(d)
  OBVIOUS
<1>3. d \in Seq(Lines) /\ n \in Nat /\ DOMAIN d = 1 .. n /\ \A i \in 1 .. n - 1 : d[i].nl = TRUE
  <2>1. d \in Seq(Lines) /\ \A i \in 1 .. Len(d) - 1 : d[i].nl = TRUE
    BY Ended
  <2> QED BY <1>1, <2>1
<1>4. \A i \in 1 .. n : d[i] \in Lines
  BY <1>1, <1>3
<1>5. \A i \in 1 .. n : [d[i] EXCEPT !.nl = d[i].nl] = d[i]
  BY <1>4 DEF Lines
<1>6. CASE d = <<>> \/ EndsWithBlankLine(d)
  <2>1. s = d
    BY <1>2, <1>6 DEF Separated
  <2>2. \A i \in 1 .. n : d[i].nl = TRUE
    <3>1. CASE d = <<>>
      BY <1>1, <3>1
    <3>2. CASE EndsWithBlankLine(d)
      <4>1. BlankLine.nl = TRUE
        BY DEF BlankLine
      <4>2. n > 1 /\ d[n].nl = TRUE
        BY <1>1, <3>2, <4>1 DEF EndsWithBlankLine
      <4>3. \A i \in 1 .. n : i = n \/ i \in 1 .. n - 1
        BY <1>3
      <4> QED BY <1>3, <4>2, <4>3
    <3> QED BY <1>6, <3>1, <3>2
  <2>3. Padded(d, s)
    BY <1>1, <1>3, <2>1 DEF Padded
  <2>4. AllEnded(s)
    BY <1>3, <2>1, <2>2 DEF AllEnded
  <2> QED BY <1>1, <1>2, <1>3, <1>5, <2>1, <2>3, <2>4
<1>7. CASE ~(d = <<>> \/ EndsWithBlankLine(d))
  <2>1. PICK x : x = [d EXCEPT ![n].nl = TRUE]
    OBVIOUS
  <2>2. s = Append(x, BlankLine)
    BY <1>1, <1>2, <1>7, <2>1 DEF Separated
  <2>3. n > 0
    BY <1>1, <1>3, <1>7
  <2>4. BlankLine \in Lines
    <3>1. "" \in Keys /\ "blank" \in Kinds /\ <<>> \in Seq(Words)
      BY DEF Keys, Kinds
    <3> QED BY <3>1 DEF BlankLine, Lines
  <2>5. /\ \A i \in 1 .. n - 1 : x[i] = d[i]
        /\ x[n] = [d[n] EXCEPT !.nl = TRUE]
        /\ DOMAIN x = 1 .. n
    <3>1. n \in 1 .. n /\ \A i \in 1 .. n - 1 : i \in 1 .. n /\ i # n
      BY <1>3, <2>3
    <3> QED BY <1>3, <2>1, <3>1
  <2>6. /\ x[n] \in Lines /\ x[n].nl = TRUE /\ x[n].kind = d[n].kind /\ x[n].key = d[n].key /\ x[n].val = d[n].val
        /\ [x[n] EXCEPT !.nl = d[n].nl] = d[n]
    <3>1. d[n] \in Lines
      BY <1>3, <1>4, <2>3
    <3>2. PICK l : l = d[n]
      OBVIOUS
    <3>3. PICK t : t = [l EXCEPT !.nl = TRUE]
      OBVIOUS
    <3>4. t = [kind |-> l.kind, key |-> l.key, val |-> l.val, nl |-> TRUE]
      BY <3>1, <3>2, <3>3 DEF Lines
    <3>5. t \in Lines
      BY <3>1, <3>2, <3>4 DEF Lines
    <3>6. [t EXCEPT !.nl = l.nl] = l
      BY <3>1, <3>2, <3>4 DEF Lines
    <3> QED BY <2>5, <3>2, <3>3, <3>4, <3>5, <3>6
  <2>7. \A i \in 1 .. n : i = n \/ i \in 1 .. n - 1
    BY <1>3
  <2>8. ASSUME NEW i \in 1 .. n
        PROVE  /\ x[i] \in Lines /\ x[i].nl = TRUE /\ x[i].kind = d[i].kind
               /\ x[i].key = d[i].key /\ x[i].val = d[i].val
               /\ [x[i] EXCEPT !.nl = d[i].nl] = d[i]
    <3>1. CASE i = n
      BY <2>6, <3>1
    <3>2. CASE i \in 1 .. n - 1
      BY <1>3, <1>4, <1>5, <2>5, <3>2
    <3> QED BY <2>7, <3>1, <3>2
  <2>9. x = [i \in 1 .. n |-> x[i]]
    BY <1>3, <2>1
  <2>10. x \in Seq(Lines) /\ Len(x) = n
    <3>1. \A i \in 1 .. n : x[i] \in Lines
      BY <2>8
    <3> QED BY <1>3, <2>9, <3>1
  <2>11. /\ s \in Seq(Lines) /\ Len(s) = n + 1 /\ s[n + 1] = BlankLine
         /\ \A i \in 1 .. n : s[i] = x[i]
    BY <1>3, <2>2, <2>4, <2>10, AppendProperties
  <2>12. \A i \in 1 .. n + 1 : i = n + 1 \/ i \in 1 .. n
    BY <1>3
  <2>13. BlankLine.kind = "blank" /\ BlankLine.nl = TRUE
    BY DEF BlankLine
  <2>14. Padded(d, s)
    <3>1. s[n + 1].kind = "blank"
      BY <2>11, <2>13
    <3>2. \A i \in 1 .. n + 1 : i > n => s[i].kind = "blank"
      BY <1>3, <2>12, <3>1
    <3> QED BY <1>1, <2>8, <2>11, <3>2 DEF Padded
  <2>15. AllEnded(s)
    <3>1. s[n + 1].nl = TRUE
      BY <2>11, <2>13
    <3>2. \A i \in 1 .. n + 1 : s[i].nl = TRUE
      BY <2>8, <2>11, <2>12, <3>1
    <3>3. DOMAIN s = 1 .. n + 1
      BY <2>11
    <3> QED BY <3>2, <3>3 DEF AllEnded
  <2> QED BY <1>1, <1>2, <2>8, <2>11, <2>14, <2>15
<1> QED BY <1>6, <1>7

\* A block behind ended lines is a block put in at the end.
LEMMA AppendBlock ==
  ASSUME NEW s \in Seq(Lines), AllEnded(s), NEW c \in Seq(Lines), OnlyLastOpen(c)
  PROVE  /\ WellFormed(s \o c)
         /\ Inserts(s, Len(s), c, s \o c)
         /\ \A i \in 1 .. Len(s) : (s \o c)[i] = s[i]
<1>1. PICK n : n = Len(s)
  OBVIOUS
<1>2. PICK k : k = Len(c)
  OBVIOUS
<1>3. PICK z : z = s \o c
  OBVIOUS
<1>4. n \in Nat /\ k \in Nat
  BY <1>1, <1>2
<1>5. /\ z \in Seq(Lines) /\ Len(z) = n + k
      /\ \A i \in 1 .. n + k : z[i] = IF i <= n THEN s[i] ELSE c[i - n]
  <2>1. /\ z \in Seq(Lines) /\ Len(z) = Len(s) + Len(c)
        /\ \A i \in 1 .. Len(s) + Len(c) : z[i] = IF i <= Len(s) THEN s[i] ELSE c[i - Len(s)]
    BY <1>3, ConcatProperties
  <2> QED BY <1>1, <1>2, <2>1
<1>6. \A i \in 1 .. n : z[i] = s[i]
  BY <1>4, <1>5
<1>7. \A i \in 1 .. k : z[n + i] = c[i]
  <2> TAKE i \in 1 .. k
  <2>1. PICK j : j = n + i
    OBVIOUS
  <2>2. j \in 1 .. n + k /\ ~(j <= n) /\ j - n = i
    BY <1>4, <2>1
  <2>3. z[j] = c[j - n]
    BY <1>5, <2>2
  <2> QED BY <2>1, <2>2, <2>3
<1>8. \A i \in 1 .. n + k - 1 : z[i].nl = TRUE
  <2> TAKE i \in 1 .. n + k - 1
  <2>1. CASE i <= n
    BY <1>1, <1>4, <1>6, <2>1 DEF AllEnded
  <2>2. CASE ~(i <= n)
    <3>1. PICK j : j = i - n
      OBVIOUS
    <3>2. j \in 1 .. k - 1 /\ j \in 1 .. k /\ i = n + j
      BY <1>4, <2>2, <3>1
    <3> QED BY <1>2, <1>7, <3>2 DEF OnlyLastOpen
  <2> QED BY <2>1, <2>2
<1>9. WellFormed(z)
  <2>1. PICK l : l = Len(z)
    OBVIOUS
  <2>2. l = n + k
    BY <1>5, <2>1
  <2>3. \A i \in 1 .. l - 1 : z[i].nl = TRUE
    BY <1>4, <1>8, <2>2
  <2>4. \A i \in 1 .. Len(z) - 1 : z[i].nl = TRUE
    BY <2>1, <2>3, Zenon
  <2> QED BY <1>5, <2>4, Ended
<1>10. Inserts(s, n, c, z)
  BY <1>1, <1>2, <1>4, <1>5, <1>6, <1>7 DEF Inserts
<1> QED BY <1>1, <1>3, <1>6, <1>9, <1>10

-----------------------------------------------------------------------------
(* What a block says depends on the assignments of each key. *)

\* Dropping duplicates drops no value.
LEMMA CanonicalKeepsRange ==
  ASSUME NEW T, NEW list \in Seq(T)
  PROVE  /\ CanonicalPrefixes(list) \in Seq(T)
         /\ Range(CanonicalPrefixes(list)) = Range(list)
         /\ CanonicalPrefixes(list) = <<>> <=> list = <<>>
<1>1. PICK m : m = Len(list)
  OBVIOUS
<1>2. m \in Nat /\ DOMAIN list = 1 .. m
  BY <1>1
<1>3. PICK S : S = {i \in 1 .. m : \A j \in 1 .. i - 1 : list[j] # list[i]}
  OBVIOUS
<1>4. S \in SUBSET (1 .. Len(list))
  BY <1>1, <1>3
<1>5. PICK z : z = SelectIndices(list, S)
  OBVIOUS
<1>6. z = CanonicalPrefixes(list)
  BY <1>2, <1>3, <1>5 DEF CanonicalPrefixes
<1>7. PICK n \in Nat : \E g : /\ InOrder(g, n, S) /\ z = [i \in 1 .. n |-> list[g[i]]]
                              /\ z \in Seq(T) /\ Len(z) = n
  BY <1>4, <1>5, SelectFact
<1>8. PICK g : InOrder(g, n, S) /\ z = [i \in 1 .. n |-> list[g[i]]] /\ z \in Seq(T) /\ Len(z) = n
  BY <1>7
<1>9. /\ \A i \in 1 .. n : g[i] \in S
      /\ \A x \in S : \E i \in 1 .. n : g[i] = x
  BY <1>8 DEF InOrder
<1>10. \A i \in 1 .. n : z[i] \in Range(list)
  BY <1>2, <1>3, <1>8, <1>9 DEF Range
<1>11. ASSUME NEW v \in Range(list) PROVE \E i \in 1 .. n : z[i] = v
  <2>1. PICK U : U = {i \in 1 .. m : list[i] = v}
    OBVIOUS
  <2>2. U \in SUBSET Nat /\ U # {}
    BY <1>2, <2>1 DEF Range
  <2>3. PICK k : k = Min(U)
    OBVIOUS
  <2>4. k \in U /\ \A i \in U : k <= i
    BY <2>2, <2>3, MinFact
  <2>5. k \in 1 .. m /\ list[k] = v /\ k \in Nat
    BY <2>1, <2>4
  <2>6. ASSUME NEW j \in 1 .. k - 1, list[j] = list[k] PROVE FALSE
    <3>1. j \in 1 .. m /\ j < k
      BY <1>2, <2>5
    <3>2. j \in U
      BY <2>1, <2>5, <2>6, <3>1
    <3> QED BY <2>4, <2>5, <3>1, <3>2
  <2>7. k \in S
    BY <1>3, <2>5, <2>6
  <2>8. PICK i \in 1 .. n : g[i] = k
    BY <1>9, <2>7
  <2> QED BY <1>8, <2>5, <2>8
<1>12. Range(z) = Range(list)
  <2>1. DOMAIN z = 1 .. n
    BY <1>8
  <2>2. \A v : v \in Range(z) <=> \E i \in 1 .. n : z[i] = v
    BY <2>1 DEF Range
  <2> QED BY <1>10, <1>11, <2>2
<1>13. \A s \in Seq(T) : s = <<>> <=> Range(s) = {}
  <2> TAKE s \in Seq(T)
  <2>1. DOMAIN s = 1 .. Len(s) /\ Len(s) \in Nat
    OBVIOUS
  <2>2. Range(s) = {} <=> Len(s) = 0
    <3>1. Len(s) > 0 => 1 \in DOMAIN s
      BY <2>1
    <3>2. Len(s) > 0 => Range(s) # {}
      BY <3>1 DEF Range
    <3>3. Len(s) = 0 => Range(s) = {}
      BY <2>1 DEF Range
    <3> QED BY <2>1, <3>2, <3>3
  <2>3. s = <<>> <=> Len(s) = 0
    BY EmptySeq
  <2> QED BY <2>2, <2>3
<1> QED BY <1>6, <1>8, <1>12, <1>13

LEMMA ValuesAre ==
  /\ Values["allowedips"] = Cidrs /\ Values["endpoint"] = Endpoints \cup {Garbled}
  /\ Values["persistentkeepalive"] = Keepalives /\ Values["presharedkey"] = Secrets \cup {Garbled}
  /\ "allowedips" \in Fields /\ "endpoint" \in Fields
  /\ "persistentkeepalive" \in Fields /\ "presharedkey" \in Fields
  /\ \A f \in Fields : Values[f] \subseteq Words /\ f \in Keys
BY DEF Values, Fields, Words, Keys

\* What is written for a field says what was asked.
LEMMA WrittenIs ==
  ASSUME NEW f \in Fields, NEW w, w[f] \in Lists(f)
  PROVE  /\ Written(f, w) \in Seq(Words) /\ Range(Written(f, w)) \subseteq Values[f]
         /\ Range(Written(f, w)) = Range(w[f])
         /\ Written(f, w) = <<>> <=> w[f] = <<>>
         /\ f # "allowedips" => w[f] = <<>> \/ \E v \in Values[f] \ {Garbled} : w[f] = <<v>>
         /\ f # "allowedips" => Written(f, w) = w[f]
<1>1. CASE f = "allowedips"
  <2>1. w[f] \in Seq(Cidrs) /\ Written(f, w) = CanonicalPrefixes(w[f]) /\ Values[f] = Cidrs
    BY <1>1, ValuesAre DEF Lists, Written
  <2>2. PICK z : z = CanonicalPrefixes(w[f])
    OBVIOUS
  <2>3. z \in Seq(Cidrs) /\ Range(z) = Range(w[f]) /\ (z = <<>> <=> w[f] = <<>>)
    BY <2>1, <2>2, CanonicalKeepsRange
  <2>4. \A i \in DOMAIN z : z[i] \in Cidrs
    BY <2>3
  <2>5. Range(z) \subseteq Cidrs
    BY <2>4 DEF Range
  <2>6. Cidrs \subseteq Words
    BY DEF Words
  <2>7. z \in Seq(Words)
    BY <2>3, <2>4, <2>6
  <2> QED BY <1>1, <2>1, <2>2, <2>3, <2>5, <2>7
<1>2. CASE f # "allowedips"
  <2>1. w[f] = <<>> \/ \E v \in Values[f] \ {Garbled} : w[f] = <<v>>
    BY <1>2 DEF Lists
  <2>2. Written(f, w) = w[f]
    BY <1>2 DEF Written
  <2>3. ASSUME NEW v \in Values[f] \ {Garbled}, w[f] = <<v>>
        PROVE  w[f] \in Seq(Words) /\ Range(w[f]) \subseteq Values[f]
    <3>1. v \in Words
      BY ValuesAre
    <3>2. Range(<<v>>) = {v}
      BY DEF Range
    <3>3. <<v>> \in Seq(Words)
      BY <3>1
    <3> QED BY <2>3, <3>2, <3>3
  <2>4. <<>> \in Seq(Words) /\ Range(<<>>) = {}
    BY DEF Range
  <2>5. w[f] \in Seq(Words) /\ Range(w[f]) \subseteq Values[f]
    BY <2>1, <2>3, <2>4
  <2> QED BY <1>2, <2>1, <2>2, <2>5
<1> QED BY <1>1, <1>2

LEMMA AssignmentIs ==
  ASSUME NEW f \in Fields, NEW v \in Seq(Words), Range(v) \subseteq Values[f]
  PROVE  /\ Assignment(f, v) \in Lines /\ Assignment(f, v).kind = "assignment"
         /\ Assignment(f, v).key = f /\ Assignment(f, v).val = v /\ Assignment(f, v).nl = TRUE
<1>1. f \in Keys /\ "assignment" \in Kinds
  BY ValuesAre DEF Kinds
<1>2. [kind |-> "assignment", key |-> f, val |-> v, nl |-> TRUE]
        \in [kind : Kinds, key : Keys, val : Seq(Words), nl : BOOLEAN]
  BY <1>1
<1>3. Assignment(f, v) \in Lines
  BY <1>2 DEF Assignment, Lines
<1> QED BY <1>3 DEF Assignment

\* g maps the assignments of key in c to those in b, in order and onto them.
KeyMap(b, c, key, g) ==
  /\ \A i \in Assigned(c, key) : g[i] \in Assigned(b, key) /\ b[g[i]].val = c[i].val
  /\ \A i, j \in Assigned(c, key) : i < j => g[i] < g[j]
  /\ \A k \in Assigned(b, key) : \E i \in Assigned(c, key) : g[i] = k
SameKey(b, c, key) == \E g : KeyMap(b, c, key, g)

\* Of the values in A, the last one of key is the same in b and c.
SameLast(b, c, key, A) ==
  LastValue(b, {i \in Assigned(b, key) : b[i].val \in A})
    = LastValue(c, {i \in Assigned(c, key) : c[i].val \in A})

\* The last accepted value depends on the assignments of the key and their order alone.
LEMMA LastSame ==
  ASSUME NEW T, NEW b \in Seq(T), NEW c \in Seq(T), NEW key, SameKey(b, c, key), NEW A
  PROVE  SameLast(b, c, key, A)
<1>1. PICK g : KeyMap(b, c, key, g)
  BY DEF SameKey
<1>2. PICK P : P = {i \in Assigned(b, key) : b[i].val \in A}
  OBVIOUS
<1>3. PICK Q : Q = {i \in Assigned(c, key) : c[i].val \in A}
  OBVIOUS
<1>4. /\ \A i \in Q : g[i] \in P /\ b[g[i]].val = c[i].val
      /\ \A i, j \in Q : i < j => g[i] < g[j]
      /\ \A k \in P : \E i \in Q : g[i] = k
  BY <1>1, <1>2, <1>3 DEF KeyMap
<1>5. P \in SUBSET Assigned(b, key) /\ Q \in SUBSET Assigned(c, key)
  BY <1>2, <1>3
<1>6. (\A i \in P : i \in Nat) /\ \A i \in Q : i \in Nat
  <2>1. \A i \in DOMAIN b : i \in Nat
    OBVIOUS
  <2>2. \A i \in DOMAIN c : i \in Nat
    OBVIOUS
  <2> QED BY <1>5, <2>1, <2>2 DEF Assigned
<1>7. CASE Q = {}
  <2>1. P = {}
    BY <1>4, <1>7
  <2> QED BY <1>2, <1>3, <1>7, <2>1 DEF LastValue, SameLast
<1>8. CASE Q # {}
  <2>1. PICK m : m = Max(Q)
    OBVIOUS
  <2>2. m \in Q /\ (\A i \in Q : i <= m) /\ LastValue(c, Q) = c[m].val
    BY <1>5, <1>8, <2>1, LastIs
  <2>3. g[m] \in P
    BY <1>4, <2>2
  <2>4. \A k \in P : k <= g[m]
    <3> TAKE k \in P
    <3>1. PICK i \in Q : g[i] = k
      BY <1>4
    <3>2. i = m \/ i < m
      BY <1>6, <2>2
    <3>3. i < m => g[i] < g[m]
      BY <1>4, <2>2
    <3>4. k \in Nat /\ g[m] \in Nat
      BY <1>6, <2>3
    <3> QED BY <3>1, <3>2, <3>3, <3>4
  <2>5. P \in SUBSET Int
    BY <1>6
  <2>6. Max(P) = g[m]
    BY <2>3, <2>4, <2>5, MaxIs
  <2>7. LastValue(b, P) = b[g[m]].val
    BY <2>3, <2>6 DEF LastValue
  <2>8. LastValue(b, P) = LastValue(c, Q)
    BY <1>4, <2>2, <2>7
  <2> QED BY <1>2, <1>3, <2>8 DEF SameLast
<1> QED BY <1>7, <1>8

AtMostOneOf(b, key) == \A i, j \in Assigned(b, key) : i = j

LEMMA SafeBlockIs ==
  ASSUME NEW T, NEW b \in Seq(T)
  PROVE  BlockIsSafe(b) <=> /\ PublicKey(b) # Absent
                            /\ \A i \in Assigned(b, "publickey") : ValidKey(b[i].val)
                            /\ AtMostOneOf(b, "publickey") /\ AtMostOneOf(b, "presharedkey")
<1>1. \A key : Cardinality(Assigned(b, key)) <= 1 <=> AtMostOneOf(b, key)
  BY Finitely, AtMostOne DEF AtMostOneOf
<1> QED BY <1>1 DEF BlockIsSafe

LEMMA SameKeyOne ==
  ASSUME NEW T, NEW b \in Seq(T), NEW c \in Seq(T), NEW key, SameKey(b, c, key), AtMostOneOf(b, key)
  PROVE  AtMostOneOf(c, key)
<1>1. PICK g : KeyMap(b, c, key, g)
  BY DEF SameKey
<1>2. \A i \in Assigned(c, key) : i \in Nat /\ g[i] \in Assigned(b, key)
  BY <1>1 DEF KeyMap, Assigned
<1>3. \A i \in Assigned(b, key) : i \in Nat
  BY DEF Assigned
<1>4. ASSUME NEW i \in Assigned(c, key), NEW j \in Assigned(c, key), i # j PROVE FALSE
  <2>1. i < j \/ j < i
    BY <1>2, <1>4
  <2>2. g[i] = g[j] /\ g[i] \in Nat /\ g[j] \in Nat
    BY <1>2, <1>3 DEF AtMostOneOf
  <2>3. g[i] < g[j] \/ g[j] < g[i]
    BY <1>1, <2>1 DEF KeyMap
  <2> QED BY <2>2, <2>3
<1> QED BY <1>4 DEF AtMostOneOf

LEMMA SamePublicKey ==
  ASSUME NEW T, NEW b \in Seq(T), NEW c \in Seq(T), SameKey(b, c, "publickey")
  PROVE  /\ PublicKey(c) = PublicKey(b)
         /\ (\A i \in Assigned(b, "publickey") : ValidKey(b[i].val))
              => \A i \in Assigned(c, "publickey") : ValidKey(c[i].val)
<1>1. PICK g : KeyMap(b, c, "publickey", g)
  BY DEF SameKey
<1>2. PICK A : A = {v \in {b[i].val : i \in DOMAIN b} \cup {c[i].val : i \in DOMAIN c} : ValidKey(v)}
  OBVIOUS
<1>3. {i \in Assigned(b, "publickey") : b[i].val \in A} = {i \in Assigned(b, "publickey") : ValidKey(b[i].val)}
  BY <1>2 DEF Assigned
<1>4. {i \in Assigned(c, "publickey") : c[i].val \in A} = {i \in Assigned(c, "publickey") : ValidKey(c[i].val)}
  BY <1>2 DEF Assigned
<1>5. PICK key : key = "publickey"
  OBVIOUS
<1>6. SameKey(b, c, key)
  BY <1>5
<1>7. SameLast(b, c, key, A)
  BY <1>6, LastSame
<1>8. LastValue(b, {i \in Assigned(b, key) : b[i].val \in A})
        = LastValue(c, {i \in Assigned(c, key) : c[i].val \in A})
  BY <1>7 DEF SameLast
<1>9. PublicKey(c) = PublicKey(b)
  BY <1>3, <1>4, <1>5, <1>8 DEF PublicKey
<1>10. \A i \in Assigned(c, "publickey") : g[i] \in Assigned(b, "publickey") /\ b[g[i]].val = c[i].val
  BY <1>1 DEF KeyMap
<1> QED BY <1>9, <1>10

LEMMA SameSetting ==
  ASSUME NEW T, NEW b \in Seq(T), NEW c \in Seq(T), NEW f \in Fields, SameKey(b, c, f)
  PROVE  ReadSettings(c)[f] = ReadSettings(b)[f]
<1>1. PICK g : KeyMap(b, c, f, g)
  BY DEF SameKey
<1>2. PICK A : A = {v \in {b[i].val : i \in DOMAIN b} \cup {c[i].val : i \in DOMAIN c} : IsKeepalive(v)}
  OBVIOUS
<1>3. {i \in Assigned(b, f) : b[i].val \in A} = {i \in Assigned(b, f) : IsKeepalive(b[i].val)}
  BY <1>2 DEF Assigned
<1>4. {i \in Assigned(c, f) : c[i].val \in A} = {i \in Assigned(c, f) : IsKeepalive(c[i].val)}
  BY <1>2 DEF Assigned
<1>5. LastValue(b, {i \in Assigned(b, f) : IsKeepalive(b[i].val)})
        = LastValue(c, {i \in Assigned(c, f) : IsKeepalive(c[i].val)})
  <2>1. SameLast(b, c, f, A)
    BY LastSame
  <2> QED BY <1>3, <1>4, <2>1 DEF SameLast
<1>6. PICK B : B = {b[i].val : i \in DOMAIN b} \cup {c[i].val : i \in DOMAIN c}
  OBVIOUS
<1>7. /\ {i \in Assigned(b, f) : b[i].val \in B} = Assigned(b, f)
      /\ {i \in Assigned(c, f) : c[i].val \in B} = Assigned(c, f)
  BY <1>6 DEF Assigned
<1>8. LastValue(b, Assigned(b, f)) = LastValue(c, Assigned(c, f))
  <2>1. SameLast(b, c, f, B)
    BY LastSame
  <2> QED BY <1>7, <2>1 DEF SameLast
<1>9. CASE f = "allowedips"
  <2>1. /\ \A i \in Assigned(c, f) : g[i] \in Assigned(b, f) /\ b[g[i]].val = c[i].val
        /\ \A k \in Assigned(b, f) : \E i \in Assigned(c, f) : g[i] = k
    BY <1>1 DEF KeyMap
  <2>2. {Range(b[i].val) \cap Cidrs : i \in Assigned(b, f)} = {Range(c[i].val) \cap Cidrs : i \in Assigned(c, f)}
    <3>1. \A r : r \in {Range(c[i].val) \cap Cidrs : i \in Assigned(c, f)}
                  => r \in {Range(b[i].val) \cap Cidrs : i \in Assigned(b, f)}
      BY <2>1
    <3>2. \A r : r \in {Range(b[i].val) \cap Cidrs : i \in Assigned(b, f)}
                  => r \in {Range(c[i].val) \cap Cidrs : i \in Assigned(c, f)}
      BY <2>1
    <3> QED BY <3>1, <3>2
  <2>3. AllowedIPs(b) = AllowedIPs(c)
    BY <1>9, <2>2 DEF AllowedIPs
  <2> QED BY <1>9, <2>3 DEF ReadSettings
<1>10. CASE f = "persistentkeepalive"
  BY <1>5, <1>10 DEF ReadSettings
<1>11. CASE f \notin {"allowedips", "persistentkeepalive"}
  BY <1>8, <1>11 DEF ReadSettings
<1> QED BY <1>9, <1>10, <1>11

\* c assigns v to the key, once, or does not mention it if v is empty.
SetTo(c, key, v) ==
  IF v = <<>> THEN Assigned(c, key) = {}
  ELSE \E k : Assigned(c, key) = {k} /\ c[k].val = v

\* A key assigned once, or not at all, says what was asked.
LEMMA SetToReads ==
  ASSUME NEW T, NEW c \in Seq(T), NEW f \in Fields, NEW w, w[f] \in Lists(f), SetTo(c, f, Written(f, w))
  PROVE  ReadSettings(c)[f] = Range(w[f]) \ {Off} /\ AtMostOneOf(c, f)
<1>1. PICK v : v = Written(f, w)
  OBVIOUS
<1>2. /\ v \in Seq(Words) /\ Range(v) \subseteq Values[f] /\ Range(v) = Range(w[f])
      /\ f # "allowedips" => v = <<>> \/ \E x \in Values[f] \ {Garbled} : v = <<x>>
  BY <1>1, WrittenIs
<1>3. Range(<<>>) = {} /\ (\A x : Range(<<x>>) = {x})
  BY DEF Range
<1>4. AtMostOneOf(c, f)
  BY DEF SetTo, AtMostOneOf
<1>5. f # "persistentkeepalive" => Off \notin Range(v)
  <2>1. ASSUME f = "allowedips" PROVE Off \notin Range(v)
    BY <1>2, <2>1, NamesAssumption, ValuesAre
  <2>2. ASSUME f \notin {"allowedips", "persistentkeepalive"} PROVE Off \notin Range(v)
    <3>1. f \in {"endpoint", "presharedkey"}
      BY <2>2 DEF Fields
    <3>2. Values[f] \subseteq Endpoints \cup Secrets \cup {Garbled}
      BY <3>1, ValuesAre
    <3> QED BY <1>2, <3>2, NamesAssumption
  <2> QED BY <2>1, <2>2
<1>6. CASE v = <<>>
  <2>1. Assigned(c, f) = {}
    BY <1>1, <1>6 DEF SetTo
  <2>2. Range(w[f]) = {}
    BY <1>2, <1>3, <1>6
  <2>3. ReadSettings(c)[f] = {}
    <3>1. {i \in Assigned(c, f) : IsKeepalive(c[i].val)} = {}
      BY <2>1
    <3>2. CASE f = "allowedips"
      BY <2>1, <3>2 DEF ReadSettings, AllowedIPs
    <3>3. CASE f = "persistentkeepalive"
      BY <1>3, <3>1, <3>3 DEF ReadSettings, LastValue
    <3>4. CASE f \notin {"allowedips", "persistentkeepalive"}
      BY <1>3, <2>1, <3>4 DEF ReadSettings, LastValue
    <3> QED BY <3>2, <3>3, <3>4
  <2> QED BY <1>4, <2>2, <2>3
<1>7. CASE v # <<>>
  <2>1. PICK k : Assigned(c, f) = {k} /\ c[k].val = v
    BY <1>1, <1>7 DEF SetTo
  <2>2. \A S : S = {k} => LastValue(c, S) = v
    <3> SUFFICES ASSUME NEW S, S = {k} PROVE LastValue(c, S) = v
      OBVIOUS
    <3>1. S \in SUBSET Assigned(c, f) /\ S # {}
      BY <2>1
    <3>2. Max(S) \in S /\ LastValue(c, S) = c[Max(S)].val
      BY <3>1, LastIs
    <3> QED BY <2>1, <3>2
  <2>3. CASE f = "allowedips"
    <3>1. Range(v) \subseteq Cidrs
      BY <1>2, <2>3, ValuesAre
    <3>2. AllowedIPs(c) = Range(v)
      <4>1. {Range(c[i].val) \cap Cidrs : i \in Assigned(c, "allowedips")} = {Range(v)}
        BY <2>1, <2>3, <3>1
      <4> QED BY <4>1 DEF AllowedIPs
    <3>3. ReadSettings(c)[f] = Range(v)
      BY <2>3, <3>2 DEF ReadSettings
    <3> QED BY <1>2, <1>4, <1>5, <2>3, <3>3
  <2>4. CASE f = "persistentkeepalive"
    <3>1. PICK x \in Keepalives : v = <<x>>
      BY <1>2, <1>7, <2>4, ValuesAre
    <3>2. IsKeepalive(v)
      BY <3>1 DEF IsKeepalive
    <3>3. {i \in Assigned(c, f) : IsKeepalive(c[i].val)} = {k}
      BY <2>1, <3>2
    <3>4. ReadSettings(c)[f] = Range(v) \ {Off}
      BY <2>2, <2>4, <3>3 DEF ReadSettings
    <3> QED BY <1>2, <1>4, <3>4
  <2>5. CASE f \notin {"allowedips", "persistentkeepalive"}
    <3>1. ReadSettings(c)[f] = Range(v)
      BY <2>1, <2>2, <2>5 DEF ReadSettings
    <3> QED BY <1>2, <1>4, <1>5, <2>5, <3>1
  <2> QED BY <2>3, <2>4, <2>5
<1> QED BY <1>6, <1>7

-----------------------------------------------------------------------------
(* A patched block, and a new one. *)

Unselected(b, fields) == {i \in DOMAIN b : ~(b[i].kind = "assignment" /\ b[i].key \in fields)}
Kept(b, fields) == SelectIndices(b, Unselected(b, fields))
Good(x) == x \in Seq(Lines) /\ Chunk(x) /\ OnlyLastOpen(x) /\ \A i \in DOMAIN x : x[i].kind # "raw"

\* y is x, with one more assignment to f behind it if there is one.
Extends(x, y, f, on, v) ==
  /\ Good(y) /\ (AllEnded(x) => AllEnded(y))
  /\ \A key : key # f => Assigned(y, key) = Assigned(x, key)
  /\ \A i \in DOMAIN x : i \in DOMAIN y /\ y[i] = x[i]
  /\ ~on => y = x
  /\ on => \E k : Assigned(y, f) = Assigned(x, f) \cup {k} /\ y[k].val = v
  /\ \A fields : f \in fields => Kept(y, fields) = Kept(x, fields)

\* A line appended to a block adds its assignment and nothing else.
LEMMA LineAdded ==
  ASSUME NEW x, Good(x), NEW f \in Fields, NEW v \in Seq(Words), Range(v) \subseteq Values[f],
         NEW on \in BOOLEAN, on => AllEnded(x)
  PROVE  Extends(x, x \o (IF on THEN <<Assignment(f, v)>> ELSE <<>>), f, on, v)
<1>1. PICK y : y = x \o (IF on THEN <<Assignment(f, v)>> ELSE <<>>)
  OBVIOUS
<1>2. x \in Seq(Lines) /\ Chunk(x) /\ \A i \in DOMAIN x : x[i].kind # "raw"
  BY DEF Good
<1>3. CASE ~on
  <2>1. y = x
    BY <1>1, <1>2, <1>3, ConcatEmptySeq
  <2> QED BY <1>1, <1>3, <2>1 DEF Extends
<1>4. CASE on
  <2>1. PICK l : l = Assignment(f, v)
    OBVIOUS
  <2>2. l \in Lines /\ l.kind = "assignment" /\ l.key = f /\ l.val = v /\ l.nl = TRUE
    BY <2>1, AssignmentIs
  <2>3. y = x \o <<l>>
    BY <1>1, <1>4, <2>1
  <2>4. PICK n : n = Len(x)
    OBVIOUS
  <2>5. n \in Nat /\ DOMAIN x = 1 .. n
    BY <1>2, <2>4
  <2>6. /\ y \in Seq(Lines) /\ Len(y) = n + 1 /\ DOMAIN y = 1 .. n + 1
        /\ \A i \in 1 .. n : y[i] = x[i]
        /\ y[n + 1] = l
    <3>1. y = Append(x, l)
      BY <1>2, <2>2, <2>3
    <3> QED BY <1>2, <2>2, <2>4, <3>1, AppendProperties
  <2>7. \A i \in 1 .. n + 1 : i = n + 1 \/ i \in 1 .. n
    BY <2>5
  <2>8. \A i \in DOMAIN x : i \in DOMAIN y /\ y[i] = x[i]
    BY <2>5, <2>6
  <2>9. Good(y) /\ AllEnded(y)
    <3>1. Len(y) > 0 /\ y[1].kind = "header" /\ y[1].key = "peer"
      BY <1>2, <2>4, <2>5, <2>6 DEF Chunk
    <3>2. \A i \in 2 .. n + 1 : y[i].kind # "header"
      <4> TAKE i \in 2 .. n + 1
      <4>1. CASE i = n + 1
        BY <2>2, <2>6, <4>1
      <4>2. CASE i # n + 1
        <5>1. i \in 2 .. n /\ i \in 1 .. n
          BY <2>5, <4>2
        <5> QED BY <1>2, <2>4, <2>6, <5>1 DEF Chunk
      <4> QED BY <4>1, <4>2
    <3>3. \A i \in 1 .. n + 1 : y[i].nl = TRUE /\ y[i].kind # "raw"
      BY <1>2, <1>4, <2>2, <2>5, <2>6, <2>7 DEF AllEnded
    <3>4. AllEnded(y) /\ OnlyLastOpen(y)
      BY <2>5, <2>6, <3>3 DEF AllEnded, OnlyLastOpen
    <3> QED BY <2>6, <3>1, <3>2, <3>3, <3>4 DEF Good, Chunk
  <2>10. \A key : key # f => Assigned(y, key) = Assigned(x, key)
    BY <2>2, <2>5, <2>6, <2>7, <2>8 DEF Assigned
  <2>11. Assigned(y, f) = Assigned(x, f) \cup {n + 1} /\ y[n + 1].val = v
    <3>1. \A i : i \in Assigned(y, f) => i \in Assigned(x, f) \cup {n + 1}
      BY <2>5, <2>6, <2>7 DEF Assigned
    <3>2. \A i \in Assigned(x, f) : i \in Assigned(y, f)
      BY <2>8 DEF Assigned
    <3>3. n + 1 \in Assigned(y, f)
      BY <2>2, <2>5, <2>6 DEF Assigned
    <3> QED BY <2>2, <2>6, <3>1, <3>2, <3>3
  <2>12. ASSUME NEW fields, f \in fields PROVE Kept(y, fields) = Kept(x, fields)
    <3>1. PICK U : U = Unselected(x, fields)
      OBVIOUS
    <3>2. U \in SUBSET (1 .. n)
      BY <2>5, <3>1 DEF Unselected
    <3>3. Unselected(y, fields) = U
      <4>1. \A i : i \in Unselected(y, fields) => i \in U
        BY <2>2, <2>5, <2>6, <2>7, <2>12, <3>1 DEF Unselected
      <4>2. \A i : i \in U => i \in Unselected(y, fields)
        BY <2>8, <3>1 DEF Unselected
      <4> QED BY <4>1, <4>2
    <3>4. \A i \in U : y[i] = x[i]
      BY <2>6, <3>2
    <3>5. SelectIndices(y, U) = SelectIndices(x, U)
      BY <2>5, <3>2, <3>4, SelectSame
    <3> QED BY <3>1, <3>3, <3>5 DEF Kept
  <2> QED BY <1>1, <1>4, <2>8, <2>9, <2>10, <2>11, <2>12 DEF Extends
<1> QED BY <1>3, <1>4

\* A line with another value.
WithValue(l, v) == [l EXCEPT !.val = v]

LEMMA WithValueIs ==
  ASSUME NEW l \in Lines, NEW v \in Seq(Words),
         l.kind = "assignment" /\ l.key \in {"endpoint", "presharedkey"} => Range(v) \subseteq Values[l.key]
  PROVE  /\ WithValue(l, v) \in Lines /\ WithValue(l, v).kind = l.kind /\ WithValue(l, v).key = l.key
         /\ WithValue(l, v).val = v /\ WithValue(l, v).nl = l.nl
<1>1. l = [kind |-> l.kind, key |-> l.key, val |-> l.val, nl |-> l.nl]
  BY DEF Lines
<1>2. l.kind \in Kinds /\ l.key \in Keys /\ l.nl \in BOOLEAN
  BY DEF Lines
<1>3. PICK t : t = [l EXCEPT !.val = v]
  OBVIOUS
<1>4. t = [kind |-> l.kind, key |-> l.key, val |-> v, nl |-> l.nl]
  BY <1>1, <1>3
<1>5. t \in [kind : Kinds, key : Keys, val : Seq(Words), nl : BOOLEAN]
  BY <1>2, <1>4
<1>6. t.kind = l.kind /\ t.key = l.key /\ t.val = v /\ t.nl = l.nl
  BY <1>4
<1>7. t \in Lines
  BY <1>5, <1>6 DEF Lines
<1> QED BY <1>3, <1>6, <1>7 DEF WithValue

\* The lines of the block before any is left out.
Rewrites(b, w) ==
  [i \in DOMAIN b |-> IF Selects(b[i], w) /\ i = FirstOf(b, b[i].key)
                      THEN [b[i] EXCEPT !.val = Written(b[i].key, w)]
                      ELSE b[i]]

LEMMA FirstIs ==
  ASSUME NEW T, NEW b \in Seq(T), NEW f, Assigned(b, f) # {}
  PROVE  FirstOf(b, f) \in Assigned(b, f)
<1>1. Assigned(b, f) \in SUBSET Nat
  BY DEF Assigned
<1> QED BY <1>1, MinFact DEF FirstOf

\* The lines of a block with the new values in their places.
LEMMA RewritesIs ==
  ASSUME NEW b \in Seq(Lines), NEW w, \A f \in Fields : w[f] = Keep \/ w[f] \in Lists(f)
  PROVE  /\ Rewrites(b, w) \in Seq(Lines) /\ DOMAIN Rewrites(b, w) = DOMAIN b
         /\ \A i \in DOMAIN b :
              /\ Rewrites(b, w)[i].kind = b[i].kind /\ Rewrites(b, w)[i].key = b[i].key
              /\ Rewrites(b, w)[i].nl = b[i].nl
              /\ Selects(b[i], w) /\ i = FirstOf(b, b[i].key)
                   => Rewrites(b, w)[i].val = Written(b[i].key, w)
              /\ ~Selects(b[i], w) => Rewrites(b, w)[i] = b[i]
<1>1. PICK r : r = Rewrites(b, w)
  OBVIOUS
<1>2. PICK m : m = Len(b)
  OBVIOUS
<1>3. m \in Nat /\ DOMAIN b = 1 .. m /\ DOMAIN r = 1 .. m /\ r = [i \in 1 .. m |-> r[i]]
  BY <1>1, <1>2 DEF Rewrites
<1>4. ASSUME NEW i \in 1 .. m
      PROVE  /\ r[i] \in Lines /\ r[i].kind = b[i].kind /\ r[i].key = b[i].key /\ r[i].nl = b[i].nl
             /\ Selects(b[i], w) /\ i = FirstOf(b, b[i].key) => r[i].val = Written(b[i].key, w)
             /\ ~Selects(b[i], w) => r[i] = b[i]
  <2>1. b[i] \in Lines
    BY <1>2
  <2>2. CASE Selects(b[i], w) /\ i = FirstOf(b, b[i].key)
    <3>1. PICK f : f = b[i].key
      OBVIOUS
    <3>2. f \in Fields /\ w[f] \in Lists(f)
      BY <2>2, <3>1 DEF Selects, Mentioned
    <3>3. Written(f, w) \in Seq(Words) /\ Range(Written(f, w)) \subseteq Values[f]
      BY <3>2, WrittenIs
    <3>4. r[i] = WithValue(b[i], Written(f, w))
      BY <1>1, <1>3, <2>2, <3>1 DEF Rewrites, WithValue
    <3> QED BY <2>1, <2>2, <3>1, <3>3, <3>4, WithValueIs
  <2>3. CASE ~(Selects(b[i], w) /\ i = FirstOf(b, b[i].key))
    <3>1. r[i] = b[i]
      BY <1>1, <1>3, <2>3 DEF Rewrites
    <3> QED BY <2>1, <2>3, <3>1
  <2> QED BY <2>2, <2>3
<1>5. r \in Seq(Lines)
  <2>1. \A i \in 1 .. m : r[i] \in Lines
    BY <1>4
  <2> QED BY <1>3, <2>1
<1> QED BY <1>1, <1>3, <1>4, <1>5

\* What the lines of a rewritten block are.
RewrittenFrom(b, w, g, n, S) ==
  /\ S = {i \in DOMAIN b : Stays(b, i, w)} /\ S \in SUBSET (1 .. Len(b))
  /\ n \in Nat /\ InOrder(g, n, S)
  /\ Rewritten(b, w) \in Seq(Lines) /\ Len(Rewritten(b, w)) = n
  /\ \A i \in 1 .. n : Rewritten(b, w)[i] = Rewrites(b, w)[g[i]]

LEMMA RewrittenIs ==
  ASSUME NEW b \in Seq(Lines), NEW w, \A f \in Fields : w[f] = Keep \/ w[f] \in Lists(f)
  PROVE  \E g, n, S : RewrittenFrom(b, w, g, n, S)
<1>1. PICK r : r = Rewrites(b, w)
  OBVIOUS
<1>2. PICK S : S = {i \in DOMAIN b : Stays(b, i, w)}
  OBVIOUS
<1>3. r \in Seq(Lines) /\ DOMAIN r = DOMAIN b /\ Len(r) = Len(b) /\ DOMAIN b = 1 .. Len(b)
  <2>1. r \in Seq(Lines) /\ DOMAIN r = DOMAIN b
    BY <1>1, RewritesIs
  <2>2. DOMAIN b = 1 .. Len(b) /\ DOMAIN r = 1 .. Len(r) /\ Len(b) \in Nat /\ Len(r) \in Nat
    BY <2>1
  <2> QED BY <2>1, <2>2
<1>4. S \in SUBSET (1 .. Len(r))
  BY <1>2, <1>3
<1>5. PICK z : z = SelectIndices(r, S)
  OBVIOUS
<1>6. z = Rewritten(b, w)
  BY <1>1, <1>2, <1>5 DEF Rewritten, Rewrites
<1>7. PICK n \in Nat : \E g : /\ InOrder(g, n, S) /\ z = [i \in 1 .. n |-> r[g[i]]]
                              /\ z \in Seq(Lines) /\ Len(z) = n
  BY <1>3, <1>4, <1>5, SelectFact
<1>8. PICK g : InOrder(g, n, S) /\ z = [i \in 1 .. n |-> r[g[i]]] /\ z \in Seq(Lines) /\ Len(z) = n
  BY <1>7
<1>9. RewrittenFrom(b, w, g, n, S)
  BY <1>1, <1>2, <1>3, <1>4, <1>6, <1>8 DEF RewrittenFrom
<1> QED BY <1>9

Wanted(w) == \A f \in Fields : w[f] = Keep \/ w[f] \in Lists(f)

\* The rewritten block is a block.
LEMMA RewrittenGood ==
  ASSUME NEW b, Good(b), NEW w, Wanted(w)
  PROVE  Good(Rewritten(b, w)) /\ (AllEnded(b) => AllEnded(Rewritten(b, w)))
<1>1. b \in Seq(Lines) /\ Chunk(b) /\ OnlyLastOpen(b) /\ \A i \in DOMAIN b : b[i].kind # "raw"
  BY DEF Good
<1>2. \E g, n, S : RewrittenFrom(b, w, g, n, S)
  BY <1>1, RewrittenIs DEF Wanted
<1>3. PICK g : \E n, S : RewrittenFrom(b, w, g, n, S)
  BY <1>2
<1>4. PICK n : \E S : RewrittenFrom(b, w, g, n, S)
  BY <1>3
<1>5. PICK S : RewrittenFrom(b, w, g, n, S)
  BY <1>4
<1>6. PICK z : z = Rewritten(b, w)
  OBVIOUS
<1>7. PICK r : r = Rewrites(b, w)
  OBVIOUS
<1>8. PICK m : m = Len(b)
  OBVIOUS
<1>9. /\ m \in Nat /\ m > 0 /\ DOMAIN b = 1 .. m
      /\ S = {i \in 1 .. m : Stays(b, i, w)}
      /\ n \in Nat /\ z \in Seq(Lines) /\ Len(z) = n /\ DOMAIN z = 1 .. n
      /\ \A i \in 1 .. n : z[i] = r[g[i]]
  <2>1. DOMAIN b = 1 .. m /\ m \in Nat /\ m > 0
    BY <1>1, <1>8 DEF Chunk
  <2>2. z \in Seq(Lines) /\ Len(z) = n /\ n \in Nat
    BY <1>5, <1>6 DEF RewrittenFrom
  <2>3. DOMAIN z = 1 .. n
    BY <2>2
  <2>4. S = {i \in 1 .. m : Stays(b, i, w)} /\ \A i \in 1 .. n : z[i] = r[g[i]]
    BY <1>5, <1>6, <1>7, <2>1 DEF RewrittenFrom
  <2> QED BY <2>1, <2>2, <2>3, <2>4
<1>10. /\ \A i \in 1 .. n : g[i] \in S /\ g[i] \in 1 .. m
       /\ \A i, j \in 1 .. n : i < j => g[i] < g[j]
       /\ \A x \in S : \E i \in 1 .. n : g[i] = x
  BY <1>5, <1>9 DEF RewrittenFrom, InOrder
<1>11. \A i \in 1 .. m : r[i].kind = b[i].kind /\ r[i].key = b[i].key /\ r[i].nl = b[i].nl
  BY <1>1, <1>7, <1>9, RewritesIs DEF Wanted
<1>12. 1 \in 1 .. m /\ ~Selects(b[1], w) /\ 1 \in S
  BY <1>1, <1>9 DEF Chunk, Selects, Stays
<1>13. n > 0 /\ g[1] = 1
  <2>1. PICK i \in 1 .. n : g[i] = 1
    BY <1>10, <1>12
  <2>2. 1 \in 1 .. n /\ n > 0
    BY <1>9, <2>1
  <2>3. ~(1 < i)
    BY <1>10, <2>1, <2>2
  <2>4. i = 1
    BY <2>1, <2>3
  <2> QED BY <2>1, <2>2, <2>4
<1>14. \A i \in 1 .. n : z[i].kind = b[g[i]].kind /\ z[i].key = b[g[i]].key /\ z[i].nl = b[g[i]].nl
  BY <1>9, <1>10, <1>11
<1>15. z[1].kind = "header" /\ z[1].key = "peer"
  BY <1>1, <1>9, <1>13, <1>14 DEF Chunk
<1>16. \A i \in 2 .. n : z[i].kind # "header"
  <2> TAKE i \in 2 .. n
  <2>1. 1 < i /\ i \in 1 .. n /\ 1 \in 1 .. n
    BY <1>9
  <2>2. g[1] < g[i] /\ g[i] \in 1 .. m
    BY <1>10, <2>1
  <2>3. g[i] \in 2 .. m
    BY <1>9, <1>13, <2>2
  <2> QED BY <1>1, <1>8, <1>14, <2>1, <2>3 DEF Chunk
<1>17. OnlyLastOpen(z)
  <2> SUFFICES ASSUME NEW i \in 1 .. n - 1 PROVE z[i].nl = TRUE
    BY <1>9 DEF OnlyLastOpen
  <2>1. i \in 1 .. n /\ n \in 1 .. n /\ i < n
    BY <1>9
  <2>2. g[i] < g[n] /\ g[i] \in 1 .. m /\ g[n] \in 1 .. m
    BY <1>10, <2>1
  <2>3. g[i] \in 1 .. m - 1
    BY <1>9, <2>2
  <2>4. b[g[i]].nl = TRUE
    BY <1>1, <1>8, <2>3 DEF OnlyLastOpen
  <2> QED BY <1>14, <2>1, <2>4
<1>18. Chunk(z)
  BY <1>9, <1>13, <1>15, <1>16 DEF Chunk
<1>19. \A i \in DOMAIN z : z[i].kind # "raw"
  BY <1>1, <1>9, <1>10, <1>14
<1>20. AllEnded(b) => AllEnded(z)
  BY <1>9, <1>10, <1>14 DEF AllEnded
<1> QED BY <1>6, <1>9, <1>17, <1>18, <1>19, <1>20 DEF Good

\* Keys that were not mentioned are assigned what they were, in the old order; mentioned ones
\* are assigned once, or not at all.
LEMMA RewrittenReads ==
  ASSUME NEW b \in Seq(Lines), NEW w, Wanted(w)
  PROVE  /\ \A key : key \notin Mentioned(w) => SameKey(b, Rewritten(b, w), key)
         /\ \A f \in Mentioned(w) :
              IF Assigned(b, f) = {} \/ Written(f, w) = <<>> THEN Assigned(Rewritten(b, w), f) = {}
              ELSE \E k : Assigned(Rewritten(b, w), f) = {k} /\ Rewritten(b, w)[k].val = Written(f, w)
<1>1. \E g, n, S : RewrittenFrom(b, w, g, n, S)
  BY RewrittenIs DEF Wanted
<1>2. PICK g : \E n, S : RewrittenFrom(b, w, g, n, S)
  BY <1>1
<1>3. PICK n : \E S : RewrittenFrom(b, w, g, n, S)
  BY <1>2
<1>4. PICK S : RewrittenFrom(b, w, g, n, S)
  BY <1>3
<1>5. PICK z : z = Rewritten(b, w)
  OBVIOUS
<1>6. PICK r : r = Rewrites(b, w)
  OBVIOUS
<1>7. /\ S = {i \in DOMAIN b : Stays(b, i, w)}
      /\ n \in Nat /\ DOMAIN z = 1 .. n
      /\ \A i \in 1 .. n : z[i] = r[g[i]]
  <2>1. z \in Seq(Lines) /\ Len(z) = n /\ n \in Nat
    BY <1>4, <1>5 DEF RewrittenFrom
  <2>2. DOMAIN z = 1 .. n
    BY <2>1
  <2>3. S = {i \in DOMAIN b : Stays(b, i, w)} /\ \A i \in 1 .. n : z[i] = r[g[i]]
    BY <1>4, <1>5, <1>6 DEF RewrittenFrom
  <2> QED BY <2>1, <2>2, <2>3
<1>8. /\ \A i \in 1 .. n : g[i] \in S /\ g[i] \in DOMAIN b
      /\ \A i, j \in 1 .. n : i < j => g[i] < g[j]
      /\ \A x \in S : \E i \in 1 .. n : g[i] = x
  BY <1>4, <1>7 DEF RewrittenFrom, InOrder
<1>9. \A i \in DOMAIN b :
        /\ r[i].kind = b[i].kind /\ r[i].key = b[i].key
        /\ Selects(b[i], w) /\ i = FirstOf(b, b[i].key) => r[i].val = Written(b[i].key, w)
        /\ ~Selects(b[i], w) => r[i] = b[i]
  BY <1>6, RewritesIs DEF Wanted
<1>10. \A i \in 1 .. n : z[i].kind = b[g[i]].kind /\ z[i].key = b[g[i]].key
  BY <1>7, <1>8, <1>9
<1>11. \A key : \A i : i \in Assigned(z, key) <=> i \in 1 .. n /\ g[i] \in Assigned(b, key)
  BY <1>7, <1>8, <1>10 DEF Assigned
<1>12. ASSUME NEW key, key \notin Mentioned(w) PROVE SameKey(b, z, key)
  <2>1. \A i \in Assigned(b, key) : ~Selects(b[i], w) /\ i \in S
    BY <1>7, <1>12 DEF Assigned, Selects, Stays
  <2>2. \A i \in Assigned(z, key) : g[i] \in Assigned(b, key) /\ b[g[i]].val = z[i].val
    <3> TAKE i \in Assigned(z, key)
    <3>1. i \in 1 .. n /\ g[i] \in Assigned(b, key)
      BY <1>11
    <3>2. g[i] \in DOMAIN b /\ r[g[i]] = b[g[i]]
      BY <1>8, <1>9, <2>1, <3>1
    <3> QED BY <1>7, <3>1, <3>2
  <2>3. \A i, j \in Assigned(z, key) : i < j => g[i] < g[j]
    BY <1>8, <1>11
  <2>4. \A k \in Assigned(b, key) : \E i \in Assigned(z, key) : g[i] = k
    BY <1>8, <1>11, <2>1
  <2>5. KeyMap(b, z, key, g)
    BY <2>2, <2>3, <2>4 DEF KeyMap
  <2> QED BY <2>5 DEF SameKey
<1>13. ASSUME NEW f \in Mentioned(w)
       PROVE  IF Assigned(b, f) = {} \/ Written(f, w) = <<>> THEN Assigned(z, f) = {}
              ELSE \E k : Assigned(z, f) = {k} /\ z[k].val = Written(f, w)
  <2>1. \A i \in Assigned(b, f) : i \in DOMAIN b /\ Selects(b[i], w) /\ b[i].key = f
    BY DEF Assigned, Selects
  <2>2. \A i \in Assigned(b, f) : i \in S <=> Written(f, w) # <<>> /\ i = FirstOf(b, f)
    BY <1>7, <2>1 DEF Stays
  <2>3. CASE Assigned(b, f) = {} \/ Written(f, w) = <<>>
    BY <1>8, <1>11, <2>2, <2>3
  <2>4. CASE ~(Assigned(b, f) = {} \/ Written(f, w) = <<>>)
    <3>1. PICK x : x = FirstOf(b, f)
      OBVIOUS
    <3>2. x \in Assigned(b, f)
      BY <2>4, <3>1, FirstIs
    <3>3. x \in S
      BY <2>2, <2>4, <3>1, <3>2
    <3>4. PICK k \in 1 .. n : g[k] = x
      BY <1>8, <3>3
    <3>5. k \in Assigned(z, f)
      BY <1>11, <3>2, <3>4
    <3>6. \A i \in Assigned(z, f) : i = k
      <4> TAKE i \in Assigned(z, f)
      <4>1. i \in 1 .. n /\ g[i] \in Assigned(b, f) /\ g[i] \in S
        BY <1>8, <1>11
      <4>2. g[i] = x
        BY <2>2, <3>1, <4>1
      <4>3. x \in Nat
        BY <3>2 DEF Assigned
      <4>4. ~(i < k) /\ ~(k < i)
        BY <1>8, <3>4, <4>1, <4>2, <4>3
      <4> QED BY <3>4, <4>1, <4>4
    <3>7. z[k].val = Written(f, w)
      BY <1>7, <1>9, <2>1, <3>1, <3>2, <3>4
    <3> QED BY <2>4, <3>5, <3>6, <3>7
  <2> QED BY <2>3, <2>4
<1> QED BY <1>5, <1>12, <1>13

\* No other line of the block is touched.
LEMMA RewrittenKeeps ==
  ASSUME NEW b \in Seq(Lines), NEW w, Wanted(w)
  PROVE  Kept(Rewritten(b, w), Mentioned(w)) = Kept(b, Mentioned(w))
<1>1. \E g, n, S : RewrittenFrom(b, w, g, n, S)
  BY RewrittenIs DEF Wanted
<1>2. PICK g : \E n, S : RewrittenFrom(b, w, g, n, S)
  BY <1>1
<1>3. PICK n : \E S : RewrittenFrom(b, w, g, n, S)
  BY <1>2
<1>4. PICK S : RewrittenFrom(b, w, g, n, S)
  BY <1>3
<1>5. PICK z : z = Rewritten(b, w)
  OBVIOUS
<1>6. PICK r : r = Rewrites(b, w)
  OBVIOUS
<1>7. PICK m : m = Len(b)
  OBVIOUS
<1>8. /\ m \in Nat /\ DOMAIN b = 1 .. m /\ r \in Seq(Lines) /\ Len(r) = m
      /\ S = {i \in 1 .. m : Stays(b, i, w)}
      /\ n \in Nat /\ DOMAIN z = 1 .. n /\ InOrder(g, n, S)
      /\ z = SelectIndices(r, S)
      /\ \A i \in 1 .. n : z[i] = r[g[i]]
  <2>1. r \in Seq(Lines) /\ DOMAIN r = DOMAIN b
    BY <1>6, RewritesIs DEF Wanted
  <2>2. m \in Nat /\ DOMAIN b = 1 .. m
    BY <1>7
  <2>3. Len(r) = m
    <3>1. DOMAIN r = 1 .. Len(r) /\ Len(r) \in Nat
      BY <2>1
    <3> QED BY <2>1, <2>2, <3>1
  <2>4. z \in Seq(Lines) /\ Len(z) = n /\ n \in Nat
    BY <1>4, <1>5 DEF RewrittenFrom
  <2>5. DOMAIN z = 1 .. n
    BY <2>4
  <2>6. S = {i \in 1 .. m : Stays(b, i, w)} /\ InOrder(g, n, S) /\ \A i \in 1 .. n : z[i] = r[g[i]]
    BY <1>4, <1>5, <1>6, <2>2 DEF RewrittenFrom
  <2>7. z = SelectIndices(r, S)
    BY <1>5, <1>6, <2>2, <2>6 DEF Rewritten, Rewrites
  <2> QED BY <2>1, <2>2, <2>3, <2>4, <2>5, <2>6, <2>7
<1>9. /\ \A i \in 1 .. n : g[i] \in S /\ g[i] \in 1 .. m
      /\ \A x \in S : \E i \in 1 .. n : g[i] = x
  BY <1>8 DEF InOrder
<1>10. \A i \in 1 .. m :
         /\ r[i].kind = b[i].kind /\ r[i].key = b[i].key
         /\ ~Selects(b[i], w) => r[i] = b[i]
  BY <1>6, <1>8, RewritesIs DEF Wanted
<1>11. PICK U : U = Unselected(z, Mentioned(w))
  OBVIOUS
<1>12. PICK V : V = Unselected(b, Mentioned(w))
  OBVIOUS
<1>13. \A i : i \in V <=> i \in 1 .. m /\ ~Selects(b[i], w)
  BY <1>8, <1>12 DEF Unselected, Selects
<1>14. \A i : i \in V => i \in S
  BY <1>8, <1>13 DEF Stays
<1>15. \A i : i \in U <=> i \in 1 .. n /\ g[i] \in V
  <2>1. \A i \in 1 .. n : z[i].kind = b[g[i]].kind /\ z[i].key = b[g[i]].key
    BY <1>8, <1>9, <1>10
  <2>2. \A i \in 1 .. n : i \in U <=> ~Selects(b[g[i]], w)
    BY <1>8, <1>11, <2>1 DEF Unselected, Selects
  <2>3. \A i \in U : i \in 1 .. n
    BY <1>8, <1>11 DEF Unselected
  <2> QED BY <1>9, <1>13, <2>2, <2>3
<1>16. V = {g[i] : i \in U}
  BY <1>9, <1>14, <1>15
<1>17. U \in SUBSET (1 .. n) /\ S \in SUBSET (1 .. Len(r)) /\ V \in SUBSET (1 .. m)
  BY <1>8, <1>13, <1>15
<1>18. SelectIndices(z, U) = SelectIndices(r, V)
  BY <1>8, <1>16, <1>17, SelectSelect
<1>19. \A i \in V : r[i] = b[i]
  BY <1>10, <1>13
<1>20. SelectIndices(r, V) = SelectIndices(b, V)
  BY <1>8, <1>17, <1>19, SelectSame
<1> QED BY <1>5, <1>11, <1>12, <1>18, <1>20 DEF Kept

\* y is x with an assignment behind it for every field of F that is on.
Grows(x, y, F, on, v) ==
  /\ Good(y) /\ (AllEnded(x) => AllEnded(y))
  /\ \A i \in DOMAIN x : i \in DOMAIN y /\ y[i] = x[i]
  /\ \A key : ~(key \in F /\ on[key]) => Assigned(y, key) = Assigned(x, key)
  /\ \A f \in F : on[f] => \E k : Assigned(y, f) = Assigned(x, f) \cup {k} /\ y[k].val = v[f]
  /\ \A fields : (\A f \in F : on[f] => f \in fields) => Kept(y, fields) = Kept(x, fields)

LEMMA GrowsNot ==
  ASSUME NEW x, Good(x), NEW on, NEW v
  PROVE  Grows(x, x, {}, on, v)
BY DEF Grows

LEMMA GrowsOn ==
  ASSUME NEW x, NEW y, NEW z, NEW F, NEW on, NEW v, NEW f, f \notin F,
         Grows(x, y, F, on, v), Extends(y, z, f, on[f], v[f])
  PROVE  Grows(x, z, F \cup {f}, on, v)
<1>1. /\ Good(y) /\ (AllEnded(x) => AllEnded(y))
      /\ \A i \in DOMAIN x : i \in DOMAIN y /\ y[i] = x[i]
      /\ \A key : ~(key \in F /\ on[key]) => Assigned(y, key) = Assigned(x, key)
      /\ \A g \in F : on[g] => \E k : Assigned(y, g) = Assigned(x, g) \cup {k} /\ y[k].val = v[g]
      /\ \A fields : (\A g \in F : on[g] => g \in fields) => Kept(y, fields) = Kept(x, fields)
  BY DEF Grows
<1>2. /\ Good(z) /\ (AllEnded(y) => AllEnded(z))
      /\ \A key : key # f => Assigned(z, key) = Assigned(y, key)
      /\ \A i \in DOMAIN y : i \in DOMAIN z /\ z[i] = y[i]
      /\ ~on[f] => z = y
      /\ on[f] => \E k : Assigned(z, f) = Assigned(y, f) \cup {k} /\ z[k].val = v[f]
      /\ \A fields : f \in fields => Kept(z, fields) = Kept(y, fields)
  BY DEF Extends
<1>3. \A i \in DOMAIN x : i \in DOMAIN z /\ z[i] = x[i]
  BY <1>1, <1>2
<1>4. ASSUME NEW key, ~(key \in F \cup {f} /\ on[key]) PROVE Assigned(z, key) = Assigned(x, key)
  <2>1. Assigned(y, key) = Assigned(x, key)
    BY <1>1, <1>4
  <2>2. Assigned(z, key) = Assigned(y, key)
    BY <1>2, <1>4
  <2> QED BY <2>1, <2>2
<1>5. ASSUME NEW g \in F \cup {f}, on[g]
      PROVE  \E k : Assigned(z, g) = Assigned(x, g) \cup {k} /\ z[k].val = v[g]
  <2>1. CASE g = f
    <3>1. Assigned(y, f) = Assigned(x, f)
      BY <1>1
    <3> QED BY <1>2, <1>5, <2>1, <3>1
  <2>2. CASE g # f
    <3>1. PICK k : Assigned(y, g) = Assigned(x, g) \cup {k} /\ y[k].val = v[g]
      BY <1>1, <1>5, <2>2
    <3>2. k \in DOMAIN y
      BY <3>1 DEF Assigned
    <3> QED BY <1>2, <2>2, <3>1, <3>2
  <2> QED BY <2>1, <2>2
<1>6. ASSUME NEW fields, \A g \in F \cup {f} : on[g] => g \in fields PROVE Kept(z, fields) = Kept(x, fields)
  <2>1. Kept(y, fields) = Kept(x, fields)
    BY <1>1, <1>6
  <2>2. Kept(z, fields) = Kept(y, fields)
    <3>1. CASE on[f]
      BY <1>2, <1>6, <3>1
    <3>2. CASE ~on[f]
      BY <1>2, <3>2
    <3> QED BY <3>1, <3>2
  <2> QED BY <2>1, <2>2
<1>7. Good(z) /\ (AllEnded(x) => AllEnded(z))
  BY <1>1, <1>2
<1> QED BY <1>3, <1>4, <1>5, <1>6, <1>7 DEF Grows

LEMMA OptionalLine ==
  ASSUME NEW x, Good(x), NEW f \in Fields, NEW w, NEW on \in BOOLEAN, on => w[f] \in Lists(f) /\ AllEnded(x)
  PROVE  Extends(x, x \o (IF on THEN <<Assignment(f, Written(f, w))>> ELSE <<>>), f, on, Written(f, w))
<1>1. CASE on
  <2>1. Written(f, w) \in Seq(Words) /\ Range(Written(f, w)) \subseteq Values[f]
    BY <1>1, WrittenIs
  <2> QED BY <2>1, LineAdded
<1>2. CASE ~on
  <2>1. x \in Seq(Lines)
    BY DEF Good
  <2>2. x \o (IF on THEN <<Assignment(f, Written(f, w))>> ELSE <<>>) = x
    BY <1>2, <2>1, ConcatEmptySeq
  <2>3. Extends(x, x, f, on, Written(f, w))
    BY <1>2 DEF Extends
  <2> QED BY <2>2, <2>3
<1> QED BY <1>1, <1>2

LEMMA GrownSame ==
  ASSUME NEW b, NEW x, NEW y, NEW F, NEW on, NEW v, Grows(x, y, F, on, v),
         NEW key, ~(key \in F /\ on[key])
  PROVE  /\ SameKey(b, x, key) => SameKey(b, y, key)
         /\ \A i \in Assigned(y, key) : i \in Assigned(x, key) /\ y[i] = x[i]
<1>1. Assigned(y, key) = Assigned(x, key) /\ \A i \in Assigned(x, key) : y[i] = x[i]
  <2>1. Assigned(y, key) = Assigned(x, key) /\ \A i \in DOMAIN x : y[i] = x[i]
    BY DEF Grows
  <2>2. \A i \in Assigned(x, key) : i \in DOMAIN x
    BY DEF Assigned
  <2> QED BY <2>1, <2>2
<1>2. \A g : KeyMap(b, x, key, g) => KeyMap(b, y, key, g)
  BY <1>1 DEF KeyMap
<1> QED BY <1>1, <1>2 DEF SameKey

LEMMA FieldsAre ==
  /\ Fields = {"allowedips", "endpoint", "persistentkeepalive", "presharedkey"}
  /\ "publickey" \notin Fields
BY DEF Fields

\* The block with the lines appended to it.
PatchOn(b, w) == [f \in Fields |-> f \in Mentioned(w) /\ Assigned(b, f) = {} /\ Written(f, w) # <<>>]
WrittenTo(w) == [f \in Fields |-> Written(f, w)]

\* The patched block is the rewritten one with the missing keys behind it.
LEMMA PatchedGrows ==
  ASSUME NEW b, Good(b), NEW w, Wanted(w), ~Spoils(b, w)
  PROVE  Grows(Rewritten(b, w), PatchedBlock(b, w), Fields, PatchOn(b, w), WrittenTo(w))
<1>1. PICK on : on = PatchOn(b, w)
  OBVIOUS
<1>2. PICK v : v = WrittenTo(w)
  OBVIOUS
<1>3. \A f \in Fields : /\ on[f] \in BOOLEAN /\ v[f] = Written(f, w) /\ (on[f] => w[f] \in Lists(f))
                        /\ Appended(b, f, w) = IF on[f] THEN <<Assignment(f, v[f])>> ELSE <<>>
  BY <1>1, <1>2 DEF PatchOn, WrittenTo, Appended, Mentioned, Wanted
<1>4. ASSUME NEW x, Good(x), NEW f \in Fields, on[f] => AllEnded(x)
      PROVE  Extends(x, x \o Appended(b, f, w), f, on[f], v[f])
  BY <1>3, <1>4, OptionalLine
<1>5. PICK x0 : x0 = Rewritten(b, w)
  OBVIOUS
<1>6. PICK x1 : x1 = x0 \o Appended(b, "allowedips", w)
  OBVIOUS
<1>7. PICK x2 : x2 = x1 \o Appended(b, "endpoint", w)
  OBVIOUS
<1>8. PICK x3 : x3 = x2 \o Appended(b, "persistentkeepalive", w)
  OBVIOUS
<1>9. PICK x4 : x4 = x3 \o Appended(b, "presharedkey", w)
  OBVIOUS
<1>17. ASSUME NEW f \in Fields, on[f] PROVE AllEnded(x0)
  <2>1. Appended(b, f, w) # <<>>
    BY <1>3, <1>17
  <2>2. \A i \in DOMAIN x0 : ~(~x0[i].nl)
    BY <1>5, <2>1 DEF Spoils
  <2>3. x0 \in Seq(Lines)
    BY <1>5, RewrittenGood DEF Good
  <2>4. \A i \in DOMAIN x0 : x0[i].nl \in BOOLEAN
    BY <2>3, LineType
  <2> QED BY <2>2, <2>4 DEF AllEnded
<1>10. Grows(x0, x0, {}, on, v)
  BY <1>5, RewrittenGood, GrowsNot
<1>11. ASSUME NEW x, NEW F, Grows(x0, x, F, on, v), NEW f \in Fields, f \notin F
       PROVE  Grows(x0, x \o Appended(b, f, w), F \cup {f}, on, v)
  <2>1. Good(x) /\ (AllEnded(x0) => AllEnded(x))
    BY <1>11 DEF Grows
  <2>2. on[f] => AllEnded(x)
    BY <1>17, <2>1
  <2> QED BY <1>4, <1>11, <2>1, <2>2, GrowsOn
<1>12. Grows(x0, x1, {"allowedips"}, on, v)
  <2>1. Grows(x0, x1, {} \cup {"allowedips"}, on, v)
    BY <1>6, <1>10, <1>11, FieldsAre
  <2> QED BY <2>1
<1>13. Grows(x0, x2, {"allowedips", "endpoint"}, on, v)
  <2>1. Grows(x0, x2, {"allowedips"} \cup {"endpoint"}, on, v)
    BY <1>7, <1>12, <1>11, FieldsAre
  <2>2. {"allowedips"} \cup {"endpoint"} = {"allowedips", "endpoint"}
    OBVIOUS
  <2> QED BY <2>1, <2>2
<1>14. Grows(x0, x3, {"allowedips", "endpoint", "persistentkeepalive"}, on, v)
  <2>1. Grows(x0, x3, {"allowedips", "endpoint"} \cup {"persistentkeepalive"}, on, v)
    BY <1>8, <1>13, <1>11, FieldsAre
  <2>2. {"allowedips", "endpoint"} \cup {"persistentkeepalive"} = {"allowedips", "endpoint", "persistentkeepalive"}
    OBVIOUS
  <2> QED BY <2>1, <2>2
<1>15. Grows(x0, x4, Fields, on, v)
  <2>1. Grows(x0, x4, {"allowedips", "endpoint", "persistentkeepalive"} \cup {"presharedkey"}, on, v)
    BY <1>9, <1>14, <1>11, FieldsAre
  <2>2. {"allowedips", "endpoint", "persistentkeepalive"} \cup {"presharedkey"} = Fields
    BY FieldsAre
  <2> QED BY <2>1, <2>2
<1>16. x4 = PatchedBlock(b, w)
  BY <1>5, <1>6, <1>7, <1>8, <1>9 DEF PatchedBlock
<1> QED BY <1>1, <1>2, <1>5, <1>15, <1>16

\* PatchedBlock gives a safe block of the same peer, which says what was asked and keeps every line
\* that was not selected.
LEMMA PatchedIs ==
  ASSUME NEW b, Good(b), BlockIsSafe(b), NEW w, Wanted(w), ~Spoils(b, w)
  PROVE  /\ Good(PatchedBlock(b, w)) /\ BlockIsSafe(PatchedBlock(b, w))
         /\ PublicKey(PatchedBlock(b, w)) = PublicKey(b)
         /\ \A f \in Fields : ReadSettings(PatchedBlock(b, w))[f] =
              IF w[f] = Keep THEN ReadSettings(b)[f] ELSE Range(w[f]) \ {Off}
         /\ Kept(PatchedBlock(b, w), Mentioned(w)) = Kept(b, Mentioned(w))
         /\ AllEnded(b) => AllEnded(PatchedBlock(b, w))
<1>1. PICK x : x = Rewritten(b, w)
  OBVIOUS
<1>2. PICK y : y = PatchedBlock(b, w)
  OBVIOUS
<1>3. PICK on : on = PatchOn(b, w)
  OBVIOUS
<1>4. PICK v : v = WrittenTo(w)
  OBVIOUS
<1>5. Grows(x, y, Fields, on, v)
  BY <1>1, <1>2, <1>3, <1>4, PatchedGrows
<1>6. b \in Seq(Lines) /\ y \in Seq(Lines) /\ Good(y)
  BY <1>5 DEF Grows, Good
<1>7. \A f \in Fields : /\ v[f] = Written(f, w)
                        /\ on[f] <=> f \in Mentioned(w) /\ Assigned(b, f) = {} /\ Written(f, w) # <<>>
  BY <1>3, <1>4 DEF PatchOn, WrittenTo
<1>8. \A key : key \notin Mentioned(w) => SameKey(b, x, key)
  BY <1>1, <1>6, RewrittenReads
<1>9. \A f \in Mentioned(w) :
        IF Assigned(b, f) = {} \/ Written(f, w) = <<>> THEN Assigned(x, f) = {}
        ELSE \E k : Assigned(x, f) = {k} /\ x[k].val = Written(f, w)
  BY <1>1, <1>6, RewrittenReads
<1>10. ASSUME NEW key, key \notin Mentioned(w) PROVE SameKey(b, y, key)
  <2>1. ~(key \in Fields /\ on[key])
    BY <1>7, <1>10
  <2> QED BY <1>5, <1>8, <1>10, <2>1, GrownSame
<1>11. ASSUME NEW f \in Mentioned(w) PROVE SetTo(y, f, Written(f, w))
  <2>1. f \in Fields
    BY DEF Mentioned
  <2>2. CASE on[f]
    <3>1. PICK k : Assigned(y, f) = Assigned(x, f) \cup {k} /\ y[k].val = Written(f, w)
      BY <1>5, <1>7, <2>1, <2>2 DEF Grows
    <3>2. Assigned(x, f) = {} /\ Written(f, w) # <<>>
      BY <1>7, <1>9, <2>1, <2>2
    <3>3. Assigned(y, f) = {k}
      BY <3>1, <3>2
    <3> QED BY <3>1, <3>2, <3>3 DEF SetTo
  <2>3. CASE ~on[f]
    <3>1. Assigned(y, f) = Assigned(x, f) /\ \A i \in Assigned(x, f) : y[i] = x[i]
      <4>1. Assigned(y, f) = Assigned(x, f)
        BY <1>5, <2>3 DEF Grows
      <4>2. \A i \in Assigned(y, f) : i \in Assigned(x, f) /\ y[i] = x[i]
        BY <1>5, <2>3, GrownSame
      <4> QED BY <4>1, <4>2
    <3>2. CASE Written(f, w) = <<>>
      BY <1>9, <3>1, <3>2 DEF SetTo
    <3>3. CASE Written(f, w) # <<>>
      <4>1. Assigned(b, f) # {}
        BY <1>7, <2>1, <2>3, <3>3
      <4>2. PICK k : Assigned(x, f) = {k} /\ x[k].val = Written(f, w)
        BY <1>9, <3>3, <4>1
      <4> QED BY <3>1, <3>3, <4>2 DEF SetTo
    <3> QED BY <3>2, <3>3
  <2> QED BY <2>2, <2>3
<1>12. PICK key : key = "publickey"
  OBVIOUS
<1>13. key \notin Mentioned(w) /\ SameKey(b, y, "publickey")
  BY <1>10, <1>12, FieldsAre DEF Mentioned
<1>14. \A i \in Assigned(b, "publickey") : ValidKey(b[i].val)
  BY DEF BlockIsSafe
<1>15. PublicKey(y) = PublicKey(b) /\ \A i \in Assigned(y, "publickey") : ValidKey(y[i].val)
  BY <1>6, <1>13, <1>14, SamePublicKey
<1>16. AtMostOneOf(b, "publickey") /\ AtMostOneOf(b, "presharedkey") /\ PublicKey(b) # Absent
  BY <1>6, SafeBlockIs
<1>17. AtMostOneOf(y, "publickey")
  BY <1>6, <1>12, <1>13, <1>16, SameKeyOne
<1>18. AtMostOneOf(y, "presharedkey")
  <2>1. PICK f : f = "presharedkey"
    OBVIOUS
  <2>2. f \in Fields
    BY <2>1, FieldsAre
  <2>3. CASE f \in Mentioned(w)
    <3>1. w[f] \in Lists(f)
      BY <2>2, <2>3 DEF Wanted, Mentioned
    <3>2. AtMostOneOf(y, f)
      BY <1>6, <1>11, <2>2, <2>3, <3>1, SetToReads
    <3> QED BY <2>1, <3>2
  <2>4. CASE f \notin Mentioned(w)
    <3>1. SameKey(b, y, f) /\ AtMostOneOf(b, f)
      BY <1>10, <1>16, <2>1, <2>4
    <3>2. AtMostOneOf(y, f)
      BY <1>6, <3>1, SameKeyOne
    <3> QED BY <2>1, <3>2
  <2> QED BY <2>3, <2>4
<1>19. BlockIsSafe(y)
  BY <1>6, <1>15, <1>16, <1>17, <1>18, SafeBlockIs
<1>20. ASSUME NEW f \in Fields
       PROVE  ReadSettings(y)[f] = IF w[f] = Keep THEN ReadSettings(b)[f] ELSE Range(w[f]) \ {Off}
  <2>1. CASE w[f] = Keep
    <3>1. SameKey(b, y, f)
      BY <1>10, <2>1 DEF Mentioned
    <3> QED BY <1>6, <2>1, <3>1, SameSetting
  <2>2. CASE w[f] # Keep
    <3>1. f \in Mentioned(w) /\ w[f] \in Lists(f)
      BY <2>2 DEF Mentioned, Wanted
    <3>2. ReadSettings(y)[f] = Range(w[f]) \ {Off}
      BY <1>6, <1>11, <3>1, SetToReads
    <3> QED BY <2>2, <3>2
  <2> QED BY <2>1, <2>2
<1>21. Kept(y, Mentioned(w)) = Kept(b, Mentioned(w))
  <2>1. Kept(x, Mentioned(w)) = Kept(b, Mentioned(w))
    BY <1>1, <1>6, RewrittenKeeps
  <2>2. \A f \in Fields : on[f] => f \in Mentioned(w)
    BY <1>7
  <2>3. Kept(y, Mentioned(w)) = Kept(x, Mentioned(w))
    BY <1>5, <2>2 DEF Grows
  <2> QED BY <2>1, <2>3
<1>22. AllEnded(b) => AllEnded(y)
  <2>1. AllEnded(b) => AllEnded(x)
    BY <1>1, RewrittenGood
  <2>2. AllEnded(x) => AllEnded(y)
    BY <1>5 DEF Grows
  <2> QED BY <2>1, <2>2
<1> QED BY <1>2, <1>6, <1>15, <1>19, <1>20, <1>21, <1>22

\* The two lines every new block begins with.
FirstLines(p) == <<Header("peer"), Assignment("publickey", <<p>>)>>

LEMMA FirstLinesAre ==
  ASSUME NEW p \in Peers
  PROVE  /\ Good(FirstLines(p)) /\ AllEnded(FirstLines(p))
         /\ Assigned(FirstLines(p), "publickey") = {2} /\ FirstLines(p)[2].val = <<p>>
         /\ \A f \in Fields : Assigned(FirstLines(p), f) = {}
<1>1. PICK x : x = FirstLines(p)
  OBVIOUS
<1>2. PICK l : l = Header("peer")
  OBVIOUS
<1>3. PICK m : m = Assignment("publickey", <<p>>)
  OBVIOUS
<1>4. /\ l = [kind |-> l.kind, key |-> l.key, val |-> l.val, nl |-> l.nl]
      /\ l.kind = "header" /\ l.key = "peer" /\ l.val = <<>> /\ l.nl = TRUE
  BY <1>2 DEF Header
<1>5. /\ m = [kind |-> m.kind, key |-> m.key, val |-> m.val, nl |-> m.nl]
      /\ m.kind = "assignment" /\ m.key = "publickey" /\ m.val = <<p>> /\ m.nl = TRUE
  BY <1>3 DEF Assignment
<1>6. l \in Lines
  <2>1. <<>> \in Seq(Words)
    OBVIOUS
  <2>2. l.kind \in Kinds /\ l.key \in Keys /\ l.val \in Seq(Words) /\ l.nl \in BOOLEAN
    BY <1>4, <2>1 DEF Kinds, Keys
  <2> QED BY <1>4, <2>2, LineType
<1>7. m \in Lines
  <2>1. p \in Words
    BY DEF Words
  <2>2. <<p>> \in Seq(Words)
    BY <2>1
  <2>3. m.kind \in Kinds /\ m.key \in Keys /\ m.val \in Seq(Words) /\ m.nl \in BOOLEAN
    BY <1>5, <2>2 DEF Kinds, Keys
  <2>4. ~(m.kind = "assignment" /\ m.key \in {"endpoint", "presharedkey"})
    BY <1>5
  <2> QED BY <1>5, <2>3, <2>4, LineType
<1>8. x \in Seq(Lines) /\ Len(x) = 2 /\ DOMAIN x = {1, 2} /\ x[1] = l /\ x[2] = m
  <2>1. x = <<l, m>>
    BY <1>1, <1>2, <1>3 DEF FirstLines
  <2> QED BY <1>6, <1>7, <2>1
<1>9. Good(x) /\ AllEnded(x)
  <2>1. AllEnded(x) /\ OnlyLastOpen(x)
    BY <1>4, <1>5, <1>8 DEF AllEnded, OnlyLastOpen
  <2> QED BY <1>4, <1>5, <1>8, <2>1 DEF Good, Chunk
<1>10. Assigned(x, "publickey") = {2} /\ x[2].val = <<p>>
  <2>1. \A i \in DOMAIN x : (x[i].kind = "assignment" /\ x[i].key = "publickey") <=> i = 2
    BY <1>4, <1>5, <1>8
  <2> QED BY <1>5, <1>8, <2>1 DEF Assigned
<1>11. ASSUME NEW f \in Fields PROVE Assigned(x, f) = {}
  <2>1. f # "publickey"
    BY FieldsAre
  <2>2. \A i \in DOMAIN x : ~(x[i].kind = "assignment" /\ x[i].key = f)
    BY <1>4, <1>5, <1>8, <2>1
  <2> QED BY <2>2 DEF Assigned
<1> QED BY <1>1, <1>9, <1>10, <1>11

NewOn(w) == [f \in Fields |-> w[f] \notin {<<>>, <<Off>>}]
NewLine(f, w) == IF w[f] \in {<<>>, <<Off>>} THEN <<>> ELSE <<Assignment(f, Written(f, w))>>

LEMMA NewGrows ==
  ASSUME NEW p \in Peers, NEW w, \A f \in Fields : w[f] \in Lists(f)
  PROVE  Grows(FirstLines(p), NewBlock(p, w), Fields, NewOn(w), WrittenTo(w))
<1>1. PICK on : on = NewOn(w)
  OBVIOUS
<1>2. PICK v : v = WrittenTo(w)
  OBVIOUS
<1>3. \A f \in Fields : /\ on[f] \in BOOLEAN /\ v[f] = Written(f, w)
                        /\ NewLine(f, w) = IF on[f] THEN <<Assignment(f, v[f])>> ELSE <<>>
  BY <1>1, <1>2 DEF NewOn, WrittenTo, NewLine
<1>4. ASSUME NEW x, Good(x), AllEnded(x), NEW f \in Fields
      PROVE  Extends(x, x \o NewLine(f, w), f, on[f], v[f])
  BY <1>3, <1>4, OptionalLine
<1>5. PICK x0 : x0 = FirstLines(p)
  OBVIOUS
<1>6. PICK x1 : x1 = x0 \o NewLine("presharedkey", w)
  OBVIOUS
<1>7. PICK x2 : x2 = x1 \o NewLine("allowedips", w)
  OBVIOUS
<1>8. PICK x3 : x3 = x2 \o NewLine("endpoint", w)
  OBVIOUS
<1>9. PICK x4 : x4 = x3 \o NewLine("persistentkeepalive", w)
  OBVIOUS
<1>10. Grows(x0, x0, {}, on, v)
  BY <1>5, FirstLinesAre, GrowsNot
<1>11. ASSUME NEW x, NEW F, Grows(x0, x, F, on, v), NEW f \in Fields, f \notin F
       PROVE  Grows(x0, x \o NewLine(f, w), F \cup {f}, on, v)
  <2>1. Good(x) /\ AllEnded(x)
    BY <1>5, <1>11, FirstLinesAre DEF Grows
  <2> QED BY <1>4, <1>11, <2>1, GrowsOn
<1>12. Grows(x0, x1, {"presharedkey"}, on, v)
  <2>1. Grows(x0, x1, {} \cup {"presharedkey"}, on, v)
    BY <1>6, <1>10, <1>11, FieldsAre
  <2> QED BY <2>1
<1>13. Grows(x0, x2, {"presharedkey", "allowedips"}, on, v)
  <2>1. Grows(x0, x2, {"presharedkey"} \cup {"allowedips"}, on, v)
    BY <1>7, <1>12, <1>11, FieldsAre
  <2>2. {"presharedkey"} \cup {"allowedips"} = {"presharedkey", "allowedips"}
    OBVIOUS
  <2> QED BY <2>1, <2>2
<1>14. Grows(x0, x3, {"presharedkey", "allowedips", "endpoint"}, on, v)
  <2>1. Grows(x0, x3, {"presharedkey", "allowedips"} \cup {"endpoint"}, on, v)
    BY <1>8, <1>13, <1>11, FieldsAre
  <2>2. {"presharedkey", "allowedips"} \cup {"endpoint"} = {"presharedkey", "allowedips", "endpoint"}
    OBVIOUS
  <2> QED BY <2>1, <2>2
<1>15. Grows(x0, x4, Fields, on, v)
  <2>1. Grows(x0, x4, {"presharedkey", "allowedips", "endpoint"} \cup {"persistentkeepalive"}, on, v)
    BY <1>9, <1>14, <1>11, FieldsAre
  <2>2. {"presharedkey", "allowedips", "endpoint"} \cup {"persistentkeepalive"} = Fields
    BY FieldsAre
  <2> QED BY <2>1, <2>2
<1>16. x4 = NewBlock(p, w)
  BY <1>5, <1>6, <1>7, <1>8, <1>9 DEF NewBlock, NewLine, FirstLines
<1> QED BY <1>1, <1>2, <1>5, <1>15, <1>16

LEMMA NothingRead ==
  ASSUME NEW T, NEW c \in Seq(T), NEW f \in Fields, Assigned(c, f) = {}
  PROVE  ReadSettings(c)[f] = {}
<1>1. \A A : {i \in Assigned(c, f) : IsKeepalive(c[i].val)} = {}
  OBVIOUS
<1>2. LastValue(c, Assigned(c, f)) = <<>> /\ LastValue(c, {i \in Assigned(c, f) : IsKeepalive(c[i].val)}) = <<>>
  BY <1>1 DEF LastValue
<1>3. Range(<<>>) = {}
  BY DEF Range
<1>4. CASE f = "allowedips"
  <2>1. ReadSettings(c)[f] = AllowedIPs(c)
    BY <1>4 DEF ReadSettings
  <2> QED BY <1>4, <2>1 DEF AllowedIPs
<1>5. CASE f = "persistentkeepalive"
  BY <1>2, <1>3, <1>5 DEF ReadSettings
<1>6. CASE f \notin {"allowedips", "persistentkeepalive"}
  BY <1>2, <1>3, <1>6 DEF ReadSettings
<1> QED BY <1>4, <1>5, <1>6

LEMMA OneKeyIs ==
  ASSUME NEW b, NEW k, Assigned(b, "publickey") = {k}, NEW p \in Peers, b[k].val = <<p>>, k \in Int
  PROVE  PublicKey(b) = p /\ \A i \in Assigned(b, "publickey") : ValidKey(b[i].val)
<1>1. ValidKey(<<p>>)
  BY DEF ValidKey
<1>2. {i \in Assigned(b, "publickey") : ValidKey(b[i].val)} = {k}
  BY <1>1
<1>3. Max({k}) = k
  BY MaxIs
<1>4. LastValue(b, {k}) = <<p>>
  BY <1>3 DEF LastValue
<1>5. <<p>> # <<>> /\ <<p>>[1] = p
  OBVIOUS
<1> QED BY <1>1, <1>2, <1>4, <1>5 DEF PublicKey

\* NewBlock gives a safe block of the peer, which says what was asked.
LEMMA NewBlockIs ==
  ASSUME NEW p \in Peers, NEW w, \A f \in Fields : w[f] \in Lists(f)
  PROVE  /\ Good(NewBlock(p, w)) /\ BlockIsSafe(NewBlock(p, w)) /\ PublicKey(NewBlock(p, w)) = p
         /\ \A f \in Fields : ReadSettings(NewBlock(p, w))[f] = Range(w[f]) \ {Off}
<1>1. PICK x : x = FirstLines(p)
  OBVIOUS
<1>2. PICK y : y = NewBlock(p, w)
  OBVIOUS
<1>3. PICK on : on = NewOn(w)
  OBVIOUS
<1>4. PICK v : v = WrittenTo(w)
  OBVIOUS
<1>5. Grows(x, y, Fields, on, v)
  BY <1>1, <1>2, <1>3, <1>4, NewGrows
<1>6. y \in Seq(Lines) /\ Good(y)
  BY <1>5 DEF Grows, Good
<1>7. \A f \in Fields : v[f] = Written(f, w) /\ (on[f] <=> w[f] \notin {<<>>, <<Off>>})
  BY <1>3, <1>4 DEF NewOn, WrittenTo
<1>8. Assigned(x, "publickey") = {2} /\ x[2].val = <<p>> /\ \A f \in Fields : Assigned(x, f) = {}
  BY <1>1, FirstLinesAre
<1>9. Assigned(y, "publickey") = {2} /\ y[2].val = <<p>>
  <2>1. PICK key : key = "publickey"
    OBVIOUS
  <2>2. Assigned(y, key) = Assigned(x, key)
    BY <1>5, <2>1, FieldsAre DEF Grows
  <2>3. 2 \in DOMAIN x
    BY <1>8 DEF Assigned
  <2>4. y[2] = x[2]
    BY <1>5, <2>3 DEF Grows
  <2> QED BY <1>8, <2>1, <2>2, <2>4
<1>10. PublicKey(y) = p /\ \A i \in Assigned(y, "publickey") : ValidKey(y[i].val)
  BY <1>9, OneKeyIs
<1>11. ASSUME NEW f \in Fields, on[f] PROVE SetTo(y, f, Written(f, w))
  <2>1. PICK k : Assigned(y, f) = Assigned(x, f) \cup {k} /\ y[k].val = Written(f, w)
    BY <1>5, <1>7, <1>11 DEF Grows
  <2>2. Assigned(y, f) = {k}
    BY <1>8, <2>1
  <2>3. Written(f, w) # <<>>
    BY <1>7, <1>11, WrittenIs
  <2> QED BY <2>1, <2>2, <2>3 DEF SetTo
<1>12. ASSUME NEW f \in Fields PROVE ReadSettings(y)[f] = Range(w[f]) \ {Off} /\ AtMostOneOf(y, f)
  <2>1. CASE on[f]
    BY <1>6, <1>11, <2>1, SetToReads
  <2>2. CASE ~on[f]
    <3>1. Assigned(y, f) = {}
      BY <1>5, <1>8, <2>2 DEF Grows
    <3>2. ReadSettings(y)[f] = {}
      BY <1>6, <3>1, NothingRead
    <3>3. w[f] = <<>> \/ w[f] = <<Off>>
      BY <1>7, <2>2
    <3>4. Range(w[f]) \ {Off} = {}
      BY <3>3 DEF Range
    <3> QED BY <3>1, <3>2, <3>4 DEF AtMostOneOf
  <2> QED BY <2>1, <2>2
<1>13. AtMostOneOf(y, "publickey") /\ AtMostOneOf(y, "presharedkey")
  BY <1>9, <1>12, FieldsAre DEF AtMostOneOf
<1>14. BlockIsSafe(y)
  <2>1. p # Absent
    BY NamesAssumption
  <2> QED BY <1>6, <1>10, <1>13, <2>1, SafeBlockIs
<1> QED BY <1>2, <1>6, <1>10, <1>12, <1>14

-----------------------------------------------------------------------------
(* A managed document before and after an edit. *)

Managed(d) == WellFormed(d) /\ Safe(d)

\* The one block of p says `says` in full, the other peers what they said in d.
After(d, full, p, says) ==
  /\ Managed(full) /\ SaidBy(full, p) = says
  /\ \A q : q # p => SaidBy(full, q) = SaidBy(d, q)

SafeChunk(c, p) == Good(c) /\ BlockIsSafe(c) /\ PublicKey(c) = p

LEMMA Unsaid ==
  ASSUME NEW d, NEW p
  PROVE  SaidBy(d, p) = {} <=> HeadersOf(d, p) = {}
BY DEF SaidBy

\* Putting in the block of a peer that has none.
LEMMA PutManaged ==
  ASSUME NEW rest, Managed(rest), NEW p, HeadersOf(rest, p) = {}, NEW c, SafeChunk(c, p),
         NEW full, WellFormed(full), NEW n, Inserts(rest, n, c, full)
  PROVE  After(rest, full, p, {ReadSettings(c)})
<1>1. rest \in Seq(Lines) /\ full \in Seq(Lines) /\ c \in Seq(Lines) /\ Chunk(c)
  BY DEF Managed, WellFormed, SafeChunk, Good
<1>2. ChunkIsSafe(c) /\ PublicKey(c) = p
  BY DEF SafeChunk, Good, ChunkIsSafe
<1>3. Safe(full)
  BY <1>1, <1>2, InsertSafe DEF Managed
<1>5. SaidBy(full, p) = {ReadSettings(c)}
  <2>1. SaidBy(full, p) = SaidBy(rest, p) \cup {r \in {ReadSettings(c)} : PublicKey(c) = p}
    BY <1>1, InsertSaid
  <2>2. SaidBy(rest, p) = {}
    BY Unsaid
  <2> QED BY <1>2, <2>1, <2>2
<1>6. ASSUME NEW q, q # p PROVE SaidBy(full, q) = SaidBy(rest, q)
  <2>1. SaidBy(full, q) = SaidBy(rest, q) \cup {r \in {ReadSettings(c)} : PublicKey(c) = q}
    BY <1>1, InsertSaid
  <2> QED BY <1>2, <1>6, <2>1
<1> QED BY <1>3, <1>5, <1>6 DEF After, Managed

Cut(d, h) == ReplaceNodeRange(d, Block(d, h), <<>>)

\* Cutting out the block of a peer.
LEMMA CutManaged ==
  ASSUME NEW d, Managed(d), NEW p, NEW h \in HeadersOf(d, p)
  PROVE  /\ After(d, Cut(d, h), p, {}) /\ SafeChunk(BlockAt(d, h), p)
         /\ SaidBy(d, p) = {ReadSettings(BlockAt(d, h))}
         /\ Inserts(Cut(d, h), h - 1, BlockAt(d, h), d)
         /\ Replaced(d, h, BlockEnd(d, h), <<>>, Cut(d, h))
<1>1. PICK c : c = BlockAt(d, h)
  OBVIOUS
<1>2. PICK rest : rest = Cut(d, h)
  OBVIOUS
<1>3. h \in PeerHeaders(d) /\ h \in Headers(d) /\ PublicKey(c) = p
  BY <1>1 DEF HeadersOf, PeerHeaders
<1>4. d \in Seq(Lines) /\ WellFormed(d) /\ Safe(d)
  BY DEF Managed, WellFormed
<1>5. c \in Seq(Lines)
  BY <1>1, <1>3, <1>4, BlockFact
<1>6. OnlyLastOpen(c)
  BY <1>1, <1>3, <1>4, BlockEnds
<1>7. WellFormed(rest) /\ Replaced(d, h, BlockEnd(d, h), <<>>, rest)
  <2>1. <<>> \in Seq(Lines) /\ AllEnded(<<>>) /\ OnlyLastOpen(<<>>)
    BY DEF AllEnded, OnlyLastOpen
  <2> QED BY <1>2, <1>3, <1>4, <2>1, Replace DEF Cut
<1>8. rest \in Seq(Lines)
  BY <1>7 DEF WellFormed
<1>9. Inserts(rest, h - 1, c, d) /\ Chunk(c)
  BY <1>1, <1>3, <1>4, <1>7, <1>8, CutOut
<1>10. Safe(rest) /\ ChunkIsSafe(c) /\ HeadersOf(rest, p) = {}
  BY <1>3, <1>4, <1>5, <1>8, <1>9, InsertSafe
<1>12. SafeChunk(c, p)
  BY <1>3, <1>5, <1>6, <1>9, <1>10 DEF SafeChunk, Good, ChunkIsSafe
<1>13. SaidBy(rest, p) = {}
  BY <1>10, Unsaid
<1>14. SaidBy(d, p) = {ReadSettings(c)}
  <2>1. SaidBy(d, p) = SaidBy(rest, p) \cup {r \in {ReadSettings(c)} : PublicKey(c) = p}
    BY <1>4, <1>5, <1>8, <1>9, InsertSaid
  <2> QED BY <1>3, <1>13, <2>1
<1>15. ASSUME NEW q, q # p PROVE SaidBy(rest, q) = SaidBy(d, q)
  <2>1. SaidBy(d, q) = SaidBy(rest, q) \cup {r \in {ReadSettings(c)} : PublicKey(c) = q}
    BY <1>4, <1>5, <1>8, <1>9, InsertSaid
  <2> QED BY <1>3, <1>15, <2>1
<1>16. After(d, rest, p, {})
  BY <1>7, <1>10, <1>13, <1>15 DEF After, Managed
<1> QED BY <1>1, <1>2, <1>7, <1>9, <1>12, <1>14, <1>16

\* Replacing the block of a peer by another one of the same peer.
LEMMA PatchManaged ==
  ASSUME NEW d, Managed(d), NEW p, NEW h \in HeadersOf(d, p), NEW c, SafeChunk(c, p),
         AllEnded(BlockAt(d, h)) => AllEnded(c)
  PROVE  After(d, ReplaceNodeRange(d, Block(d, h), c), p, {ReadSettings(c)})
<1>1. PICK full : full = ReplaceNodeRange(d, Block(d, h), c)
  OBVIOUS
<1>2. PICK rest : rest = Cut(d, h)
  OBVIOUS
<1>3. /\ After(d, rest, p, {}) /\ SafeChunk(BlockAt(d, h), p)
      /\ Replaced(d, h, BlockEnd(d, h), <<>>, rest)
  BY <1>2, CutManaged
<1>4. Managed(rest) /\ WellFormed(rest) /\ rest \in Seq(Lines) /\ HeadersOf(rest, p) = {}
  BY <1>3, Unsaid DEF After, Managed, WellFormed
<1>5. h \in PeerHeaders(d) /\ WellFormed(d) /\ d \in Seq(Lines)
  BY <1>3 DEF HeadersOf, Managed, WellFormed, SafeChunk, Good
<1>6. c \in Seq(Lines) /\ OnlyLastOpen(c) /\ (AllEnded(c) \/ BlockEnd(d, h) = Len(d))
  BY <1>5, BlockEnds DEF SafeChunk, Good
<1>7. WellFormed(full) /\ Replaced(d, h, BlockEnd(d, h), c, full)
  BY <1>1, <1>5, <1>6, Replace
<1>8. full \in Seq(Lines)
  BY <1>7 DEF WellFormed
<1>9. Inserts(rest, h - 1, c, full)
  BY <1>3, <1>4, <1>5, <1>6, <1>7, <1>8, PutIn
<1>10. After(rest, full, p, {ReadSettings(c)})
  BY <1>4, <1>7, <1>9, PutManaged
<1>11. After(d, full, p, {ReadSettings(c)})
  BY <1>3, <1>10 DEF After
<1> QED BY <1>1, <1>11

\* Appending the block of a peer that has none.
LEMMA AppendManaged ==
  ASSUME NEW d, Managed(d), NEW p, HeadersOf(d, p) = {}, NEW c, SafeChunk(c, p)
  PROVE  /\ After(d, Separated(d) \o c, p, {ReadSettings(c)})
         /\ Inserts(Separated(d), Len(Separated(d)), c, Separated(d) \o c)
<1>1. PICK s : s = Separated(d)
  OBVIOUS
<1>2. d \in Seq(Lines) /\ WellFormed(d) /\ Safe(d)
  BY DEF Managed, WellFormed
<1>3. s \in Seq(Lines) /\ Padded(d, s) /\ AllEnded(s)
  BY <1>1, <1>2, SeparatedIs
<1>4. c \in Seq(Lines) /\ OnlyLastOpen(c)
  BY DEF SafeChunk, Good
<1>5. WellFormed(s \o c) /\ Inserts(s, Len(s), c, s \o c)
  BY <1>3, <1>4, AppendBlock
<1>6. Safe(s) /\ \A q : HeadersOf(s, q) = HeadersOf(d, q) /\ SaidBy(s, q) = SaidBy(d, q)
  BY <1>2, <1>3, PaddedSafe
<1>7. WellFormed(s)
  <2>1. \A i \in DOMAIN s : s[i].nl = TRUE
    BY <1>3 DEF AllEnded
  <2>2. \A i \in 1 .. Len(s) - 1 : s[i].nl = TRUE
    BY <1>3, <2>1
  <2> QED BY <1>3, <2>2, Ended
<1>8. Managed(s) /\ HeadersOf(s, p) = {}
  BY <1>6, <1>7 DEF Managed
<1>9. After(s, s \o c, p, {ReadSettings(c)})
  BY <1>5, <1>8, PutManaged
<1>10. After(d, s \o c, p, {ReadSettings(c)})
  BY <1>6, <1>9 DEF After
<1> QED BY <1>1, <1>5, <1>10

LEMMA SayingIs ==
  ASSUME NEW d, NEW p
  PROVE  /\ SaidBy(d, p) = {} => Saying(d, p) = Absent
         /\ \A r : SaidBy(d, p) = {r} => Saying(d, p) = r
         /\ \A e : SaidBy(e, p) = SaidBy(d, p) => Saying(e, p) = Saying(d, p)
<1>1. ASSUME NEW e PROVE {ReadSettings(b.lines) : b \in FindPeer(e, p)} = SaidBy(e, p)
  <2>1. FindPeer(e, p) = {Block(e, h) : h \in HeadersOf(e, p)}
    BY BlocksAre
  <2>2. \A h : Block(e, h).lines = BlockAt(e, h)
    BY DEF Block
  <2> QED BY <2>1, <2>2 DEF SaidBy
<1>2. \A e : Saying(e, p) = IF SaidBy(e, p) = {} THEN Absent ELSE CHOOSE r \in SaidBy(e, p) : TRUE
  BY <1>1 DEF Saying
<1> QED BY <1>2

LEMMA InsertSaidAlone ==
  ASSUME NEW rest \in Seq(Lines), NEW p, NEW c, SafeChunk(c, p), NEW full \in Seq(Lines), NEW n,
         Inserts(rest, n, c, full), SaidBy(rest, p) = {}
  PROVE  SaidBy(full, p) = {ReadSettings(c)}
<1>1. c \in Seq(Lines) /\ Chunk(c) /\ PublicKey(c) = p
  BY DEF SafeChunk, Good
<1>2. SaidBy(full, p) = SaidBy(rest, p) \cup {r \in {ReadSettings(c)} : PublicKey(c) = p}
  BY <1>1, InsertSaid
<1> QED BY <1>1, <1>2

\* A block alone says what it says in a document.
LEMMA SaidAlone ==
  ASSUME NEW p, NEW c, SafeChunk(c, p)
  PROVE  SaidBy(c, p) = {ReadSettings(c)}
<1>1. c \in Seq(Lines)
  BY DEF SafeChunk, Good
<1>2. PICK e : e = <<>>
  OBVIOUS
<1>3. e \in Seq(Lines) /\ Len(e) = 0 /\ DOMAIN e = {}
  BY <1>2
<1>4. PICK n : n = 0
  OBVIOUS
<1>5. Inserts(e, n, c, c)
  BY <1>1, <1>3, <1>4 DEF Inserts
<1>6. SaidBy(e, p) = {}
  <2>1. HeadersOf(e, p) = {}
    BY <1>3 DEF HeadersOf, PeerHeaders, Headers
  <2> QED BY <2>1, Unsaid
<1>7. e \in Seq(Lines)
  BY <1>3
<1> QED BY <1>1, <1>5, <1>6, <1>7, InsertSaidAlone

LEMMA EmptySaysNothing ==
  ASSUME NEW p
  PROVE  SaidBy(<<>>, p) = {} /\ HeadersOf(<<>>, p) = {}
<1>1. PICK e : e = <<>>
  OBVIOUS
<1>2. DOMAIN e = {}
  BY <1>1
<1>3. HeadersOf(e, p) = {}
  BY <1>2 DEF HeadersOf, PeerHeaders, Headers
<1> QED BY <1>1, <1>3, Unsaid

\* What is read from a block are settings a caller may have asked for.
LEMMA ReadSettingsType ==
  ASSUME NEW b \in Seq(Lines)
  PROVE  ReadSettings(b) \in Meaning!Settings /\ ReadSettings(b) # Absent
<1>1. \A i \in DOMAIN b : b[i] \in Lines
  OBVIOUS
<1>2. ASSUME NEW f \in {"endpoint", "presharedkey"}
      PROVE  Range(LastValue(b, Assigned(b, f))) \subseteq Values[f] \ {Off}
  <2>1. Off \notin Values[f]
    BY <1>2, ValuesAre, NamesAssumption
  <2>2. CASE Assigned(b, f) = {}
    BY <2>2 DEF LastValue, Range
  <2>3. CASE Assigned(b, f) # {}
    <3>1. PICK i \in Assigned(b, f) : LastValue(b, Assigned(b, f)) = b[i].val
      BY <2>3, LastIs
    <3>2. i \in DOMAIN b /\ b[i].kind = "assignment" /\ b[i].key = f
      BY DEF Assigned
    <3>3. Range(b[i].val) \subseteq Values[b[i].key]
      BY <1>1, <1>2, <3>2, LineType
    <3> QED BY <2>1, <3>1, <3>2, <3>3
  <2> QED BY <2>2, <2>3
<1>3. AllowedIPs(b) \subseteq Cidrs /\ Off \notin Cidrs
  BY NamesAssumption DEF AllowedIPs
<1>4. Range(LastValue(b, {i \in Assigned(b, "persistentkeepalive") : IsKeepalive(b[i].val)})) \subseteq Keepalives
  <2>1. PICK key : key = "persistentkeepalive"
    OBVIOUS
  <2>2. PICK S : S = {i \in Assigned(b, key) : IsKeepalive(b[i].val)}
    OBVIOUS
  <2>3. S \in SUBSET Assigned(b, key)
    BY <2>2
  <2>4. ASSUME S = {} PROVE Range(LastValue(b, S)) \subseteq Keepalives
    BY <2>4 DEF LastValue, Range
  <2>5. ASSUME S # {} PROVE Range(LastValue(b, S)) \subseteq Keepalives
    <3>1. PICK i \in S : LastValue(b, S) = b[i].val
      BY <2>3, <2>5, LastIs
    <3>2. Len(b[i].val) = 1 /\ b[i].val[1] \in Keepalives
      BY <2>2 DEF IsKeepalive
    <3>3. i \in DOMAIN b
      BY <2>2 DEF Assigned
    <3>4. b[i].val \in Seq(Words)
      BY <1>1, <3>3, LineType
    <3>5. DOMAIN b[i].val = {1}
      BY <3>2, <3>4
    <3>6. Range(b[i].val) \subseteq Keepalives
      BY <3>2, <3>5 DEF Range
    <3> QED BY <3>1, <3>6
  <2> QED BY <2>1, <2>2, <2>4, <2>5
<1>5. PICK r : r = ReadSettings(b)
  OBVIOUS
<1>6. ASSUME NEW f \in Fields PROVE r[f] \subseteq Values[f] \ {Off}
  <2>1. CASE f = "allowedips"
    <3>1. r[f] = AllowedIPs(b)
      BY <1>5, <2>1 DEF ReadSettings
    <3> QED BY <1>3, <2>1, <3>1, ValuesAre
  <2>2. CASE f = "persistentkeepalive"
    <3>1. r[f] = Range(LastValue(b, {i \in Assigned(b, "persistentkeepalive") : IsKeepalive(b[i].val)})) \ {Off}
      BY <1>5, <2>2 DEF ReadSettings
    <3> QED BY <1>4, <2>2, <3>1, ValuesAre
  <2>3. CASE f \notin {"allowedips", "persistentkeepalive"}
    <3>1. r[f] = Range(LastValue(b, Assigned(b, f)))
      BY <1>5, <2>3 DEF ReadSettings
    <3>2. f \in {"endpoint", "presharedkey"}
      BY <2>3, FieldsAre
    <3> QED BY <1>2, <3>1, <3>2
  <2> QED BY <2>1, <2>2, <2>3
<1>7. r \in [Fields -> SUBSET UNION {Values[f] : f \in Fields}]
  <2>1. r = [f \in Fields |-> r[f]]
    BY <1>5 DEF ReadSettings
  <2>2. \A f \in Fields : r[f] \in SUBSET UNION {Values[g] : g \in Fields}
    BY <1>6
  <2> QED BY <2>1, <2>2
<1>8. r \in Meaning!Settings
  BY <1>6, <1>7 DEF Meaning!Settings
<1>9. r # Absent
  BY <1>7, NamesAssumption
<1> QED BY <1>5, <1>8, <1>9

-----------------------------------------------------------------------------
(* A patch that spoils the last line of the file. *)

\* What is written behind the block: ended assignments to fields.
Behind == {l \in Lines : l.kind = "assignment" /\ l.key \in Fields /\ l.nl = TRUE}

\* The two lines that become one.
LEMMA JoinedIs ==
  ASSUME NEW l \in Lines, NEW r \in Lines
  PROVE  /\ Joined(l, r) \in Lines /\ Joined(l, r).kind = l.kind /\ Joined(l, r).key = l.key
         /\ Joined(l, r).nl = r.nl
         /\ l.kind = "assignment" => ~ValidKey(Joined(l, r).val)
<1>1. PICK j : j = Joined(l, r)
  OBVIOUS
<1>2. /\ l = [kind |-> l.kind, key |-> l.key, val |-> l.val, nl |-> l.nl]
      /\ l.kind \in Kinds /\ l.key \in Keys /\ l.val \in Seq(Words) /\ l.nl \in BOOLEAN
      /\ l.kind = "assignment" /\ l.key \in {"endpoint", "presharedkey"} =>
           Range(l.val) \subseteq Values[l.key]
      /\ r.nl \in BOOLEAN
  BY LineType
<1>3. CASE l.kind # "assignment"
  <2>1. j = [l EXCEPT !.nl = r.nl]
    BY <1>1, <1>3 DEF Joined
  <2>2. j = [kind |-> l.kind, key |-> l.key, val |-> l.val, nl |-> r.nl]
    BY <1>2, <2>1
  <2>3. /\ j = [kind |-> j.kind, key |-> j.key, val |-> j.val, nl |-> j.nl]
        /\ j.kind = l.kind /\ j.key = l.key /\ j.val = l.val /\ j.nl = r.nl
    BY <2>2
  <2>4. j \in Lines
    BY <1>2, <1>3, <2>3, LineType
  <2> QED BY <1>1, <1>3, <2>3, <2>4
<1>4. CASE l.kind = "assignment"
  <2>1. PICK m : m = Len(l.val) - 1
    OBVIOUS
  <2>2. PICK front : front = SubSeq(l.val, 1, m)
    OBVIOUS
  <2>3. PICK v : v = Append(front, Garbled)
    OBVIOUS
  <2>4. j = [kind |-> l.kind, key |-> l.key, val |-> v, nl |-> r.nl]
    <3>1. j = [l EXCEPT !.val = Append(SubSeq(@, 1, Len(@) - 1), Garbled), !.nl = r.nl]
      BY <1>1, <1>4 DEF Joined
    <3>2. j = [l EXCEPT !.val = v, !.nl = r.nl]
      BY <1>2, <2>1, <2>2, <2>3, <3>1
    <3> QED BY <1>2, <3>2
  <2>5. /\ j = [kind |-> j.kind, key |-> j.key, val |-> j.val, nl |-> j.nl]
        /\ j.kind = l.kind /\ j.key = l.key /\ j.val = v /\ j.nl = r.nl
    BY <2>4
  <2>6. m \in Int /\ \A i \in 1 .. m : i \in DOMAIN l.val /\ l.val[i] \in Words
    BY <1>2, <2>1
  <2>7. front \in Seq(Words) /\ \A i \in 1 .. m - 1 + 1 : front[i] = l.val[1 + i - 1]
    BY <2>2, <2>6, SubSeqProperties
  <2>8. Len(front) = IF 1 <= m THEN m - 1 + 1 ELSE 0
    BY <2>2, <2>6, SubSeqProperties
  <2>9. Garbled \in Words
    BY DEF Words
  <2>10. /\ v \in Seq(Words) /\ Len(v) = Len(front) + 1 /\ v[Len(front) + 1] = Garbled
         /\ \A i \in 1 .. Len(front) : v[i] = front[i]
    BY <2>3, <2>7, <2>9, AppendProperties
  <2>11. \A i \in DOMAIN v : v[i] = Garbled \/ \E k \in DOMAIN l.val : v[i] = l.val[k]
    <3> TAKE i \in DOMAIN v
    <3>1. i \in 1 .. Len(front) + 1 /\ Len(front) \in Nat
      BY <2>7, <2>10
    <3>2. CASE i = Len(front) + 1
      BY <2>10, <3>2
    <3>3. CASE i # Len(front) + 1
      <4>1. i \in 1 .. Len(front) /\ i \in 1 .. m /\ i \in 1 .. m - 1 + 1 /\ 1 + i - 1 = i
        BY <2>6, <2>8, <3>1, <3>3
      <4> QED BY <2>6, <2>7, <2>10, <4>1
    <3> QED BY <3>2, <3>3
  <2>12. j.kind = "assignment" /\ j.key \in {"endpoint", "presharedkey"} => Range(j.val) \subseteq Values[j.key]
    <3> SUFFICES ASSUME l.key \in {"endpoint", "presharedkey"}, NEW i \in DOMAIN v
                 PROVE  v[i] \in Values[l.key]
      BY <2>5 DEF Range
    <3>1. Range(l.val) \subseteq Values[l.key]
      BY <1>2, <1>4
    <3>2. \A k \in DOMAIN l.val : l.val[k] \in Values[l.key]
      BY <3>1 DEF Range
    <3>3. Garbled \in Values[l.key]
      BY ValuesAre
    <3> QED BY <2>11, <3>2, <3>3
  <2>13. j \in Lines
    BY <1>2, <2>5, <2>10, <2>12, LineType
  <2>14. ~ValidKey(v)
    <3> SUFFICES ASSUME Len(v) = 1, v[1] \in Peers PROVE FALSE
      BY DEF ValidKey
    <3>1. Len(front) + 1 = 1
      BY <2>7, <2>10
    <3> QED BY <2>10, <3>1, NamesAssumption
  <2> QED BY <1>1, <2>5, <2>13, <2>14
<1> QED BY <1>3, <1>4

\* v is u with the open line i and the one behind it joined.
OneLess(u, i, v) ==
  /\ v \in Seq(Lines) /\ Len(v) = Len(u) - 1
  /\ \A j \in 1 .. i - 1 : v[j] = u[j]
  /\ v[i] = Joined(u[i], u[i + 1])
  /\ \A j \in i + 1 .. Len(u) - 1 : v[j] = u[j + 1]

\* Lines with one open one among them are parsed again.
LEMMA RenderOne ==
  ASSUME NEW u \in Seq(Lines), NEW i \in 1 .. Len(u) - 1, u[i].nl = FALSE,
         \A j \in 1 .. Len(u) - 1 : j # i => u[j].nl = TRUE
  PROVE  OneLess(u, i, Render(u))
<1>1. PICK n : n = Len(u)
  OBVIOUS
<1>2. n \in Nat /\ i \in Nat /\ 1 <= i /\ i < n /\ \A j \in 1 .. n : u[j] \in Lines
  BY <1>1
<1>3. PICK open : open = {j \in 1 .. Len(u) - 1 : ~u[j].nl}
  OBVIOUS
<1>4. open = {i}
  BY <1>3
<1>5. Min(open) = i
  <2>1. open \in SUBSET Int /\ i \in open /\ \A y \in open : i <= y
    BY <1>2, <1>4
  <2> QED BY <2>1, MinIs
<1>6. PICK x : x = SubSeq(u, 1, i - 1)
  OBVIOUS
<1>7. PICK y : y = <<Joined(u[i], u[i + 1])>>
  OBVIOUS
<1>8. PICK z : z = SubSeq(u, i + 2, n)
  OBVIOUS
<1>9. Render(u) = x \o y \o z
  BY <1>1, <1>3, <1>4, <1>5, <1>6, <1>7, <1>8 DEF Render
<1>10. x \in Seq(Lines) /\ Len(x) = i - 1 /\ \A j \in 1 .. i - 1 : x[j] = u[j]
  <2>1. \A j \in 1 .. i - 1 : u[j] \in Lines
    BY <1>2
  <2>2. /\ x \in Seq(Lines) /\ Len(x) = IF 1 <= i - 1 THEN i - 1 - 1 + 1 ELSE 0
        /\ \A j \in 1 .. i - 1 - 1 + 1 : x[j] = u[1 + j - 1]
    BY <1>2, <1>6, <2>1, SubSeqProperties
  <2> QED BY <1>2, <2>2
<1>11. y \in Seq(Lines) /\ Len(y) = 1 /\ y[1] = Joined(u[i], u[i + 1])
  <2>1. i \in 1 .. n /\ i + 1 \in 1 .. n
    BY <1>2
  <2>2. Joined(u[i], u[i + 1]) \in Lines
    BY <1>2, <2>1, JoinedIs
  <2> QED BY <1>7, <2>2
<1>12. z \in Seq(Lines) /\ Len(z) = n - (i + 1) /\ \A j \in 1 .. n - (i + 1) : z[j] = u[i + 1 + j]
  <2>1. \A j \in i + 2 .. n : u[j] \in Lines
    BY <1>2
  <2>2. /\ z \in Seq(Lines) /\ Len(z) = IF i + 2 <= n THEN n - (i + 2) + 1 ELSE 0
        /\ \A j \in 1 .. n - (i + 2) + 1 : z[j] = u[i + 2 + j - 1]
    BY <1>2, <1>8, <2>1, SubSeqProperties
  <2>3. \A j \in 1 .. n - (i + 1) : j \in 1 .. n - (i + 2) + 1 /\ i + 2 + j - 1 = i + 1 + j
    BY <1>2
  <2> QED BY <1>2, <2>2, <2>3
<1>13. PICK v : v = x \o y \o z
  OBVIOUS
<1>14. /\ v \in Seq(Lines) /\ Len(v) = n - 1
       /\ \A j \in 1 .. i - 1 : v[j] = x[j]
       /\ v[i - 1 + 1] = y[1]
       /\ \A j \in 1 .. n - (i + 1) : v[i - 1 + 1 + j] = z[j]
  <2>1. v \in Seq(Lines) /\ Joins(v, x, y, z)
    BY <1>10, <1>11, <1>12, <1>13, Three
  <2> QED BY <1>2, <1>10, <1>11, <1>12, <2>1 DEF Joins
<1>15. \A j \in i + 1 .. n - 1 : v[j] = u[j + 1]
  <2> TAKE j \in i + 1 .. n - 1
  <2>1. PICK k : k = j - i
    OBVIOUS
  <2>2. k \in 1 .. n - (i + 1) /\ i - 1 + 1 + k = j /\ i + 1 + k = j + 1
    BY <1>2, <2>1
  <2> QED BY <1>12, <1>14, <2>2
<1>16. v[i] = Joined(u[i], u[i + 1])
  <2>1. i - 1 + 1 = i
    BY <1>2
  <2> QED BY <1>11, <1>14, <2>1
<1> QED BY <1>1, <1>9, <1>10, <1>13, <1>14, <1>15, <1>16 DEF OneLess

\* The keys a patch appends are lines behind the rewritten block.
LEMMA AppendedBehind ==
  ASSUME NEW b, NEW w, Wanted(w), NEW f \in Fields
  PROVE  Appended(b, f, w) \in Seq(Behind)
<1>1. CASE f \in Mentioned(w) /\ Assigned(b, f) = {} /\ Written(f, w) # <<>>
  <2>1. w[f] \in Lists(f)
    BY <1>1 DEF Mentioned, Wanted
  <2>2. Written(f, w) \in Seq(Words) /\ Range(Written(f, w)) \subseteq Values[f]
    BY <2>1, WrittenIs
  <2>3. Assignment(f, Written(f, w)) \in Behind
    BY <2>2, AssignmentIs DEF Behind
  <2>4. Appended(b, f, w) = <<Assignment(f, Written(f, w))>>
    BY <1>1 DEF Appended
  <2> QED BY <2>3, <2>4
<1>2. CASE ~(f \in Mentioned(w) /\ Assigned(b, f) = {} /\ Written(f, w) # <<>>)
  <2>1. Appended(b, f, w) = <<>>
    BY <1>2 DEF Appended
  <2> QED BY <2>1
<1> QED BY <1>1, <1>2

\* Three sequences behind each other may be grouped either way.
LEMMA Regrouped ==
  ASSUME NEW x \in Seq(Lines), NEW y \in Seq(Lines), NEW z \in Seq(Lines), NEW yz, yz = y \o z
  PROVE  x \o y \o z = x \o yz
<1>1. PICK T : T = Lines
  OBVIOUS
<1>2. x \in Seq(T) /\ y \in Seq(T) /\ z \in Seq(T)
  BY <1>1
<1>3. x \o y \o z = x \o (y \o z)
  BY <1>2, ConcatAssociative
<1> QED BY <1>3

LEMMA PatchedBehind ==
  ASSUME NEW b, NEW w, Wanted(w), Rewritten(b, w) \in Seq(Lines), NEW f \in Fields, Appended(b, f, w) # <<>>
  PROVE  \E t \in Seq(Behind) : Len(t) > 0 /\ PatchedBlock(b, w) = Rewritten(b, w) \o t
<1>1. PICK x : x = Rewritten(b, w)
  OBVIOUS
<1>2. PICK a1 : a1 = Appended(b, "allowedips", w)
  OBVIOUS
<1>3. PICK a2 : a2 = Appended(b, "endpoint", w)
  OBVIOUS
<1>4. PICK a3 : a3 = Appended(b, "persistentkeepalive", w)
  OBVIOUS
<1>5. PICK a4 : a4 = Appended(b, "presharedkey", w)
  OBVIOUS
<1>6. a1 \in Seq(Behind) /\ a2 \in Seq(Behind) /\ a3 \in Seq(Behind) /\ a4 \in Seq(Behind)
  <2>1. \A g \in Fields : Appended(b, g, w) \in Seq(Behind)
    BY AppendedBehind
  <2> QED BY <1>2, <1>3, <1>4, <1>5, <2>1, FieldsAre
<1>7. a1 # <<>> \/ a2 # <<>> \/ a3 # <<>> \/ a4 # <<>>
  BY <1>2, <1>3, <1>4, <1>5, FieldsAre
<1>8. PICK t2 : t2 = a1 \o a2
  OBVIOUS
<1>9. PICK t3 : t3 = t2 \o a3
  OBVIOUS
<1>10. PICK t4 : t4 = t3 \o a4
  OBVIOUS
<1>11. t2 \in Seq(Behind) /\ t3 \in Seq(Behind) /\ t4 \in Seq(Behind)
  <2>1. t2 \in Seq(Behind)
    BY <1>6, <1>8, ConcatProperties
  <2>2. t3 \in Seq(Behind)
    BY <1>6, <1>9, <2>1, ConcatProperties
  <2>3. t4 \in Seq(Behind)
    BY <1>6, <1>10, <2>2, ConcatProperties
  <2> QED BY <2>1, <2>2, <2>3
<1>12. t4 # <<>>
  <2>1. t2 = <<>> <=> a1 = <<>> /\ a2 = <<>>
    BY <1>6, <1>8, ConcatEqualIffEmpty
  <2>2. t3 = <<>> <=> t2 = <<>> /\ a3 = <<>>
    BY <1>6, <1>9, <1>11, ConcatEqualIffEmpty
  <2>3. t4 = <<>> <=> t3 = <<>> /\ a4 = <<>>
    BY <1>6, <1>10, <1>11, ConcatEqualIffEmpty
  <2> QED BY <1>7, <2>1, <2>2, <2>3
<1>13. \A s : s \in Seq(Behind) => s \in Seq(Lines)
  BY DEF Behind
<1>14. x \o a1 \o a2 \o a3 \o a4 = x \o t4
  <2>1. x \o a1 \o a2 = x \o t2
    <3>1. x \in Seq(Lines) /\ a1 \in Seq(Lines) /\ a2 \in Seq(Lines)
      BY <1>1, <1>6, <1>13
    <3> QED BY <1>8, <3>1, Regrouped
  <2>2. x \o t2 \o a3 = x \o t3
    <3>1. x \in Seq(Lines) /\ t2 \in Seq(Lines) /\ a3 \in Seq(Lines)
      BY <1>1, <1>6, <1>11, <1>13
    <3> QED BY <1>9, <3>1, Regrouped
  <2>3. x \o t3 \o a4 = x \o t4
    <3>1. x \in Seq(Lines) /\ t3 \in Seq(Lines) /\ a4 \in Seq(Lines)
      BY <1>1, <1>6, <1>11, <1>13
    <3> QED BY <1>10, <3>1, Regrouped
  <2> QED BY <2>1, <2>2, <2>3
<1>15. PatchedBlock(b, w) = x \o t4
  BY <1>1, <1>2, <1>3, <1>4, <1>5, <1>14 DEF PatchedBlock
<1>16. Len(t4) > 0
  BY <1>11, <1>12
<1> QED BY <1>1, <1>11, <1>15, <1>16

\* c is the block x with the lines t behind it, the first of which has become part of its last.
SpoiltBlock(x, t, c) ==
  /\ c \in Seq(Lines) /\ Len(c) = Len(x) + Len(t) - 1
  /\ \A i \in 1 .. Len(x) - 1 : c[i] = x[i]
  /\ c[Len(x)] = Joined(x[Len(x)], t[1])
  /\ \A i \in 2 .. Len(t) : c[Len(x) + i - 1] = t[i]

\* The last block of a file with lines written behind the open last line.
LEMMA SpoiltFull ==
  ASSUME NEW d, WellFormed(d), NEW h \in PeerHeaders(d), BlockEnd(d, h) = Len(d),
         NEW x, Good(x), x[Len(x)].nl = FALSE, NEW t \in Seq(Behind), Len(t) > 0,
         NEW full, full = ReplaceNodeRange(d, Block(d, h), x \o t)
  PROVE  WellFormed(full) /\ \E c : SpoiltBlock(x, t, c) /\ Replaced(d, h, BlockEnd(d, h), c, full)
<1>1. PICK n : n = Len(d)
  OBVIOUS
<1>2. PICK l : l = Len(x)
  OBVIOUS
<1>3. PICK k : k = Len(t)
  OBVIOUS
<1>4. d \in Seq(Lines) /\ \A i \in 1 .. n - 1 : d[i].nl = TRUE
  BY <1>1, Ended
<1>5. n \in Nat /\ h \in 1 .. n /\ \A i \in 1 .. n : d[i] \in Lines
  BY <1>1, <1>4, BlockFact DEF PeerHeaders
<1>6. /\ x \in Seq(Lines) /\ l \in Nat /\ l > 0 /\ x[l].nl = FALSE
      /\ \A i \in 1 .. l : x[i] \in Lines
      /\ \A i \in 1 .. l - 1 : x[i].nl = TRUE
  BY <1>2 DEF Good, Chunk, OnlyLastOpen
<1>7. /\ t \in Seq(Lines) /\ k \in Nat /\ k > 0
      /\ \A i \in 1 .. k : t[i] \in Lines /\ t[i].nl = TRUE
  BY <1>3 DEF Behind
<1>8. PICK z : z = SubSeq(d, 1, h - 1)
  OBVIOUS
<1>9. z \in Seq(Lines) /\ Len(z) = h - 1 /\ \A i \in 1 .. h - 1 : z[i] = d[i]
  <2>1. \A i \in 1 .. h - 1 : d[i] \in Lines
    BY <1>5
  <2>2. /\ z \in Seq(Lines) /\ Len(z) = IF 1 <= h - 1 THEN h - 1 - 1 + 1 ELSE 0
        /\ \A i \in 1 .. h - 1 - 1 + 1 : z[i] = d[1 + i - 1]
    BY <1>5, <1>8, <2>1, SubSeqProperties
  <2> QED BY <1>5, <2>2
<1>10. PICK u : u = z \o x \o t
  OBVIOUS
<1>11. /\ u \in Seq(Lines) /\ Len(u) = h - 1 + l + k
       /\ \A i \in 1 .. h - 1 : u[i] = z[i]
       /\ \A i \in 1 .. l : u[h - 1 + i] = x[i]
       /\ \A i \in 1 .. k : u[h - 1 + l + i] = t[i]
  <2>1. u \in Seq(Lines) /\ Joins(u, z, x, t)
    BY <1>6, <1>7, <1>9, <1>10, Three
  <2> QED BY <1>2, <1>3, <1>9, <2>1 DEF Joins
<1>12. full = Render(u)
  <2>1. SubSeq(d, n + 1, n) = <<>>
    BY <1>5, SubSeqEmpty
  <2>2. z \o (x \o t) = u
    <3>1. PICK y : y = x \o t
      OBVIOUS
    <3>2. z \in Seq(Lines) /\ x \in Seq(Lines) /\ t \in Seq(Lines)
      BY <1>6, <1>7, <1>9
    <3>3. z \o x \o t = z \o y
      BY <3>1, <3>2, Regrouped
    <3> QED BY <1>10, <3>1, <3>3, Zenon
  <2>3. z \o (x \o t) \o <<>> = u
    BY <1>11, <2>2, ConcatEmptySeq
  <2>4. Block(d, h).first = h /\ Block(d, h).last = n
    BY <1>1 DEF Block
  <2> QED BY <1>1, <1>8, <2>1, <2>3, <2>4 DEF ReplaceNodeRange
<1>13. PICK i : i = h - 1 + l
  OBVIOUS
<1>14. /\ i \in 1 .. Len(u) - 1 /\ i \in Nat /\ u[i] = x[l] /\ u[i + 1] = t[1]
  <2>1. l \in 1 .. l /\ 1 \in 1 .. k
    BY <1>6, <1>7
  <2> QED BY <1>5, <1>6, <1>7, <1>11, <1>13, <2>1
<1>15. ASSUME NEW j \in 1 .. Len(u), j # i PROVE u[j].nl = TRUE
  <2>1. CASE j <= h - 1
    <3>1. j \in 1 .. h - 1 /\ j \in 1 .. n - 1
      BY <1>5, <1>11, <2>1
    <3> QED BY <1>4, <1>9, <1>11, <3>1
  <2>2. CASE h - 1 < j /\ j < i
    <3>1. PICK m \in 1 .. l - 1 : m = j - (h - 1)
      BY <1>5, <1>6, <1>11, <1>13, <2>2
    <3>2. m \in 1 .. l /\ j = h - 1 + m
      BY <1>5, <1>6, <3>1
    <3> QED BY <1>6, <1>11, <3>1, <3>2
  <2>3. CASE i < j
    <3>1. PICK m \in 1 .. k : m = j - i
      BY <1>5, <1>6, <1>7, <1>11, <1>13, <2>3
    <3>2. j = h - 1 + l + m
      BY <1>5, <1>6, <1>13, <3>1
    <3> QED BY <1>7, <1>11, <3>1, <3>2
  <2>4. j \in Int /\ i \in Int /\ h \in Int
    BY <1>5, <1>11, <1>14
  <2>5. j <= h - 1 \/ (h - 1 < j /\ j < i) \/ i < j
    BY <1>15, <2>4
  <2> QED BY <2>1, <2>2, <2>3, <2>5
<1>16. OneLess(u, i, full)
  <2>1. \A j \in 1 .. Len(u) - 1 : j \in 1 .. Len(u)
    BY <1>11
  <2>2. \A j \in 1 .. Len(u) - 1 : j # i => u[j].nl = TRUE
    BY <1>15, <2>1
  <2>3. u[i].nl = FALSE
    BY <1>6, <1>14
  <2> QED BY <1>11, <1>12, <1>14, <2>2, <2>3, RenderOne
<1>17. PICK m : m = h - 1 + l + k
  OBVIOUS
<1>18. /\ full \in Seq(Lines) /\ Len(full) = m - 1 /\ m \in Nat /\ Len(u) = m
       /\ \A j \in 1 .. i - 1 : full[j] = u[j]
       /\ full[i] = Joined(x[l], t[1])
       /\ \A j \in i + 1 .. m - 1 : full[j] = u[j + 1]
  BY <1>5, <1>6, <1>7, <1>11, <1>14, <1>16, <1>17 DEF OneLess
<1>19. WellFormed(full)
  <2> SUFFICES ASSUME NEW j \in 1 .. Len(full) - 1 PROVE full[j].nl = TRUE
    BY <1>18, Ended
  <2>1. CASE j < i
    <3>1. j \in 1 .. i - 1 /\ j \in 1 .. Len(u) /\ j # i
      BY <1>14, <1>18, <2>1
    <3> QED BY <1>15, <1>18, <3>1
  <2>2. CASE j = i
    <3>1. x[l] \in Lines /\ t[1] \in Lines /\ t[1].nl = TRUE
      BY <1>6, <1>7
    <3> QED BY <1>18, <2>2, <3>1, JoinedIs
  <2>3. CASE i < j
    <3>1. j \in i + 1 .. m - 1 /\ j + 1 \in 1 .. Len(u) /\ j + 1 # i
      BY <1>14, <1>18, <2>3
    <3>2. u[j + 1].nl = TRUE
      BY <1>15, <3>1
    <3> QED BY <1>18, <3>1, <3>2
  <2>4. j \in Int /\ i \in Int
    BY <1>14, <1>18
  <2>5. j < i \/ j = i \/ i < j
    BY <2>4
  <2> QED BY <2>1, <2>2, <2>3, <2>5
<1>20. PICK c : c = SubSeq(full, h, m - 1)
  OBVIOUS
<1>21. /\ c \in Seq(Lines) /\ Len(c) = l + k - 1
       /\ \A j \in 1 .. l + k - 1 : c[j] = full[h + j - 1]
  <2>1. h \in Int /\ m - 1 \in Int /\ \A j \in h .. m - 1 : full[j] \in Lines
    BY <1>5, <1>18
  <2>2. /\ c \in Seq(Lines) /\ Len(c) = IF h <= m - 1 THEN m - 1 - h + 1 ELSE 0
        /\ \A j \in 1 .. m - 1 - h + 1 : c[j] = full[h + j - 1]
    BY <1>20, <2>1, SubSeqProperties
  <2>3. m - 1 - h + 1 = l + k - 1 /\ (~(h <= m - 1) => l + k - 1 = 0)
    BY <1>5, <1>6, <1>7, <1>17
  <2> QED BY <2>2, <2>3
<1>22. SpoiltBlock(x, t, c)
  <2>1. \A j \in 1 .. l - 1 : c[j] = x[j]
    <3> TAKE j \in 1 .. l - 1
    <3>1. /\ j \in 1 .. l + k - 1 /\ h + j - 1 \in 1 .. i - 1 /\ j \in 1 .. l /\ h + j - 1 = h - 1 + j
      <4>1. h \in Int /\ 1 <= h /\ l \in Int /\ k \in Int /\ k > 0
        BY <1>5, <1>6, <1>7
      <4> QED BY <1>13, <4>1
    <3> QED BY <1>11, <1>18, <1>21, <3>1
  <2>2. c[l] = Joined(x[l], t[1])
    <3>1. l \in 1 .. l + k - 1 /\ h + l - 1 = i
      BY <1>5, <1>6, <1>7, <1>13
    <3> QED BY <1>18, <1>21, <3>1
  <2>3. \A j \in 2 .. k : c[l + j - 1] = t[j]
    <3> TAKE j \in 2 .. k
    <3>1. PICK g : g = l + j - 1
      OBVIOUS
    <3>2. PICK r : r = h + g - 1
      OBVIOUS
    <3>3. g \in 1 .. l + k - 1 /\ r \in i + 1 .. m - 1 /\ r + 1 = h - 1 + l + j /\ j \in 1 .. k
      BY <1>5, <1>6, <1>7, <1>13, <1>17, <3>1, <3>2
    <3>4. c[g] = full[r] /\ full[r] = u[r + 1] /\ u[r + 1] = t[j]
      BY <1>11, <1>18, <1>21, <3>2, <3>3
    <3> QED BY <3>1, <3>4
  <2> QED BY <1>2, <1>3, <1>21, <2>1, <2>2, <2>3 DEF SpoiltBlock
<1>23. Replaced(d, h, n, c, full)
  <2>1. Len(full) = Len(d) - (n - h + 1) + Len(c)
    BY <1>1, <1>5, <1>6, <1>7, <1>17, <1>18, <1>21
  <2>2. \A j \in 1 .. h - 1 : full[j] = d[j]
    <3> TAKE j \in 1 .. h - 1
    <3>1. j \in 1 .. i - 1
      BY <1>5, <1>6, <1>13
    <3> QED BY <1>9, <1>11, <1>18, <3>1
  <2>3. \A j \in 1 .. Len(c) : full[h - 1 + j] = c[j]
    <3>1. \A j \in 1 .. Len(c) : h - 1 + j = h + j - 1
      BY <1>5, <1>21
    <3> QED BY <1>21, <3>1
  <2>4. \A j \in n + 1 .. Len(d) : full[j - (n - h + 1) + Len(c)] = d[j]
    BY <1>1, <1>5
  <2> QED BY <2>1, <2>2, <2>3, <2>4 DEF Replaced
<1> QED BY <1>1, <1>19, <1>22, <1>23

\* Such a block is a block of the same peer, or of none.
LEMMA SpoiltBlockIs ==
  ASSUME NEW x, Good(x), AtMostOneOf(x, "publickey"), NEW t \in Seq(Behind), Len(t) > 0,
         NEW c, SpoiltBlock(x, t, c)
  PROVE  Chunk(c) /\ PublicKey(c) \in {PublicKey(x), Absent}
<1>1. PICK n : n = Len(x)
  OBVIOUS
<1>2. PICK k : k = Len(t)
  OBVIOUS
<1>3. /\ x \in Seq(Lines) /\ n \in Nat /\ n > 0 /\ DOMAIN x = 1 .. n
      /\ x[1].kind = "header" /\ x[1].key = "peer" /\ \A i \in 2 .. n : x[i].kind # "header"
      /\ \A i \in 1 .. n : x[i] \in Lines
  BY <1>1 DEF Good, Chunk
<1>4. /\ k \in Nat /\ k > 0
      /\ \A i \in 1 .. k : t[i] \in Lines /\ t[i].kind = "assignment" /\ t[i].key # "publickey"
  BY <1>2, FieldsAre DEF Behind
<1>5. /\ c \in Seq(Lines) /\ Len(c) = n + k - 1 /\ DOMAIN c = 1 .. n + k - 1
      /\ \A i \in 1 .. n - 1 : c[i] = x[i]
      /\ c[n] = Joined(x[n], t[1])
      /\ \A i \in 2 .. k : c[n + i - 1] = t[i]
  BY <1>1, <1>2 DEF SpoiltBlock
<1>6. /\ c[n].kind = x[n].kind /\ c[n].key = x[n].key
      /\ x[n].kind = "assignment" => ~ValidKey(c[n].val)
  <2>1. n \in 1 .. n /\ 1 \in 1 .. k
    BY <1>3, <1>4
  <2> QED BY <1>3, <1>4, <1>5, <2>1, JoinedIs
<1>7. \A i \in 1 .. n : c[i].kind = x[i].kind /\ c[i].key = x[i].key
  <2>1. \A i \in 1 .. n : i = n \/ i \in 1 .. n - 1
    BY <1>3
  <2> QED BY <1>5, <1>6, <2>1
<1>8. ASSUME NEW i \in 1 .. n + k - 1, i > n PROVE c[i].kind = "assignment" /\ c[i].key # "publickey"
  <2>1. PICK j \in 2 .. k : j = i - n + 1
    BY <1>3, <1>4, <1>8
  <2>2. j \in 1 .. k /\ n + j - 1 = i
    BY <1>3, <2>1
  <2> QED BY <1>4, <1>5, <2>1, <2>2
<1>9. Chunk(c)
  <2>1. \A i \in 2 .. n + k - 1 : c[i].kind # "header"
    <3> TAKE i \in 2 .. n + k - 1
    <3>1. CASE i <= n
      <4>1. i \in 1 .. n /\ i \in 2 .. n
        BY <1>3, <3>1
      <4> QED BY <1>3, <1>7, <4>1
    <3>2. CASE i > n
      <4>1. i \in 1 .. n + k - 1
        OBVIOUS
      <4> QED BY <1>8, <3>2, <4>1
    <3> QED BY <1>3, <3>1, <3>2
  <2>2. 1 \in 1 .. n /\ Len(c) > 0
    BY <1>3, <1>4, <1>5
  <2> QED BY <1>3, <1>5, <1>7, <2>1, <2>2 DEF Chunk
<1>10. PICK V : V = {i \in Assigned(c, "publickey") : ValidKey(c[i].val)}
  OBVIOUS
<1>11. PICK W : W = {i \in Assigned(x, "publickey") : ValidKey(x[i].val)}
  OBVIOUS
<1>12. ASSUME NEW i \in V PROVE i \in W /\ c[i].val = x[i].val /\ i \in Int
  <2>1. i \in 1 .. n + k - 1 /\ c[i].kind = "assignment" /\ c[i].key = "publickey" /\ ValidKey(c[i].val)
    BY <1>5, <1>10 DEF Assigned
  <2>2. i \in 1 .. n
    BY <1>3, <1>4, <1>8, <2>1
  <2>3. x[i].kind = "assignment" /\ x[i].key = "publickey"
    BY <1>7, <2>1, <2>2
  <2>4. i # n
    BY <1>6, <2>1, <2>3
  <2>5. c[i] = x[i]
    BY <1>3, <1>5, <2>2, <2>4
  <2> QED BY <1>3, <1>11, <2>1, <2>2, <2>3, <2>5 DEF Assigned
<1>13. CASE V = {}
  <2>1. LastValue(c, V) = <<>>
    BY <1>13 DEF LastValue
  <2>2. PublicKey(c) = Absent
    BY <1>10, <2>1 DEF PublicKey
  <2> QED BY <1>9, <2>2
<1>14. CASE V # {}
  <2>1. PICK i \in V : TRUE
    BY <1>14
  <2>2. i \in W /\ c[i].val = x[i].val /\ i \in Int
    BY <1>12
  <2>3. \A j \in W : j = i
    BY <1>11, <2>2 DEF AtMostOneOf
  <2>4. W = {i} /\ V = {i}
    BY <1>12, <2>1, <2>2, <2>3
  <2>5. Max({i}) = i
    <3>1. {i} \in SUBSET Int /\ i \in {i} /\ \A y \in {i} : y <= i
      BY <2>2
    <3> QED BY <3>1, MaxIs
  <2>6. LastValue(c, V) = c[i].val /\ LastValue(x, W) = x[i].val
    BY <2>4, <2>5 DEF LastValue
  <2>7. PublicKey(c) = PublicKey(x)
    BY <1>10, <1>11, <2>2, <2>6 DEF PublicKey
  <2> QED BY <1>9, <2>7
<1> QED BY <1>13, <1>14

\* What a patch that spoils leaves alone.
Spoilt(d, h, p, full) ==
  /\ WellFormed(full)
  /\ \A q : q # p /\ q # Absent => SaidBy(full, q) = SaidBy(d, q)
  /\ SaidBy(full, p) = {} \/ \E c \in Seq(Lines) : SaidBy(full, p) = {ReadSettings(c)}
  /\ SubSeq(full, 1, h - 1) = SubSeq(d, 1, h - 1)

LEMMA SpoiltIs ==
  ASSUME NEW d, Managed(d), NEW p \in Peers, NEW h \in HeadersOf(d, p), NEW w, Wanted(w),
         Spoils(BlockAt(d, h), w),
         NEW full, full = ReplaceNodeRange(d, Block(d, h), PatchedBlock(BlockAt(d, h), w))
  PROVE  Spoilt(d, h, p, full)
<1>1. PICK b : b = BlockAt(d, h)
  OBVIOUS
<1>2. PICK x : x = Rewritten(b, w)
  OBVIOUS
<1>3. PICK rest : rest = Cut(d, h)
  OBVIOUS
<1>4. /\ After(d, rest, p, {}) /\ SafeChunk(b, p)
      /\ Replaced(d, h, BlockEnd(d, h), <<>>, rest)
  BY <1>1, <1>3, CutManaged
<1>5. Good(b) /\ BlockIsSafe(b) /\ b \in Seq(Lines) /\ PublicKey(b) = p
  BY <1>4 DEF SafeChunk, Good
<1>6. Good(x) /\ x \in Seq(Lines) /\ (AllEnded(b) => AllEnded(x))
  BY <1>2, <1>5, RewrittenGood DEF Good
<1>7. h \in PeerHeaders(d) /\ WellFormed(d) /\ d \in Seq(Lines) /\ rest \in Seq(Lines)
  BY <1>4 DEF HeadersOf, After, Managed, WellFormed
<1>8. PICK f \in Fields : Appended(b, f, w) # <<>>
  BY <1>1 DEF Spoils
<1>9. PICK t \in Seq(Behind) : Len(t) > 0 /\ PatchedBlock(b, w) = x \o t
  BY <1>2, <1>6, <1>8, PatchedBehind
<1>10. x[Len(x)].nl = FALSE /\ ~AllEnded(x)
  <2>1. PICK i \in DOMAIN x : ~x[i].nl
    BY <1>1, <1>2 DEF Spoils
  <2>2. i \in 1 .. Len(x) /\ x[i] \in Lines
    BY <1>6
  <2>3. x[i].nl = FALSE
    BY <2>1, <2>2, LineType
  <2>4. i = Len(x)
    <3>1. i \notin 1 .. Len(x) - 1
      BY <1>6, <2>3 DEF Good, OnlyLastOpen
    <3> QED BY <1>6, <2>2, <3>1
  <2> QED BY <2>3, <2>4 DEF AllEnded
<1>11. BlockEnd(d, h) = Len(d)
  BY <1>1, <1>6, <1>7, <1>10, BlockEnds
<1>12. full = ReplaceNodeRange(d, Block(d, h), x \o t)
  BY <1>1, <1>9
<1>13. WellFormed(full) /\ \E c : SpoiltBlock(x, t, c) /\ Replaced(d, h, BlockEnd(d, h), c, full)
  BY <1>6, <1>7, <1>9, <1>10, <1>11, <1>12, SpoiltFull
<1>14. PICK c : SpoiltBlock(x, t, c) /\ Replaced(d, h, BlockEnd(d, h), c, full)
  BY <1>13
<1>15. c \in Seq(Lines) /\ full \in Seq(Lines)
  BY <1>13, <1>14 DEF SpoiltBlock, WellFormed
<1>16. PublicKey(x) = p /\ AtMostOneOf(x, "publickey")
  <2>1. PICK key : key = "publickey"
    OBVIOUS
  <2>2. key \notin Mentioned(w)
    BY <2>1, FieldsAre DEF Mentioned
  <2>3. SameKey(b, x, "publickey")
    BY <1>2, <1>5, <2>1, <2>2, RewrittenReads
  <2>4. AtMostOneOf(b, "publickey")
    BY <1>5, SafeBlockIs
  <2>5. PublicKey(x) = PublicKey(b)
    BY <1>5, <1>6, <2>3, SamePublicKey
  <2>6. AtMostOneOf(x, "publickey")
    BY <1>5, <1>6, <2>3, <2>4, SameKeyOne
  <2> QED BY <1>5, <2>5, <2>6
<1>17. Chunk(c) /\ PublicKey(c) \in {p, Absent}
  BY <1>6, <1>9, <1>14, <1>16, SpoiltBlockIs
<1>18. PICK n : n = h - 1
  OBVIOUS
<1>19. Inserts(rest, n, c, full)
  BY <1>4, <1>7, <1>14, <1>15, <1>18, PutIn
<1>20. \A q : SaidBy(full, q) = SaidBy(rest, q) \cup {r \in {ReadSettings(c)} : PublicKey(c) = q}
  BY <1>7, <1>15, <1>17, <1>19, InsertSaid
<1>21. SaidBy(rest, p) = {} /\ \A q : q # p => SaidBy(rest, q) = SaidBy(d, q)
  BY <1>4 DEF After
<1>22. \A q : q # p /\ q # Absent => SaidBy(full, q) = SaidBy(d, q)
  BY <1>17, <1>20, <1>21
<1>23. SaidBy(full, p) = {} \/ \E r \in Seq(Lines) : SaidBy(full, p) = {ReadSettings(r)}
  <2>1. CASE PublicKey(c) = p
    <3>1. SaidBy(full, p) = {ReadSettings(c)}
      BY <1>20, <1>21, <2>1
    <3> QED BY <1>15, <3>1
  <2>2. CASE PublicKey(c) # p
    BY <1>20, <1>21, <2>2
  <2> QED BY <2>1, <2>2
<1>24. SubSeq(full, 1, h - 1) = SubSeq(d, 1, h - 1)
  <2>1. PICK l : l = Len(d)
    OBVIOUS
  <2>2. l \in Nat /\ h \in 1 .. l /\ \A i \in 1 .. h - 1 : d[i] \in Lines
    <3>1. l \in Nat /\ h \in 1 .. l
      BY <1>7, <2>1, BlockFact DEF PeerHeaders
    <3> QED BY <1>7, <2>1, <3>1
  <2>3. \A i \in 1 .. h - 1 : full[i] = d[i]
    BY <1>14 DEF Replaced
  <2>4. PICK y : y = SubSeq(d, 1, h - 1)
    OBVIOUS
  <2>5. PICK v : v = SubSeq(full, 1, h - 1)
    OBVIOUS
  <2>6. /\ y \in Seq(Lines) /\ Len(y) = IF 1 <= h - 1 THEN h - 1 - 1 + 1 ELSE 0
        /\ \A i \in 1 .. h - 1 - 1 + 1 : y[i] = d[1 + i - 1]
    BY <2>2, <2>4, SubSeqProperties
  <2>7. /\ v \in Seq(Lines) /\ Len(v) = IF 1 <= h - 1 THEN h - 1 - 1 + 1 ELSE 0
        /\ \A i \in 1 .. h - 1 - 1 + 1 : v[i] = full[1 + i - 1]
    BY <2>2, <2>3, <2>5, SubSeqProperties
  <2>8. Len(v) = Len(y)
    BY <2>6, <2>7
  <2>9. \A i \in 1 .. Len(v) : v[i] = y[i]
    <3> TAKE i \in 1 .. Len(v)
    <3>1. i \in 1 .. h - 1 /\ i \in 1 .. h - 1 - 1 + 1 /\ 1 + i - 1 = i
      BY <2>2, <2>7
    <3> QED BY <2>3, <2>6, <2>7, <3>1
  <2>10. v = y
    BY <2>6, <2>7, <2>8, <2>9, SeqEqual
  <2> QED BY <2>4, <2>5, <2>10
<1> QED BY <1>13, <1>22, <1>23, <1>24 DEF Spoilt

-----------------------------------------------------------------------------
(* The invariant. *)

\* The file need not be safe: after a patch that spoils, it may be refused.
DocumentInv ==
  /\ WellFormed(doc)
  /\ archive = [p \in Peers |-> archive[p]]
  /\ \A p \in Peers : archive[p] = <<>> \/ SafeChunk(archive[p], p)

LEMMA ManagedIs ==
  ASSUME DocumentInv, AdoptionSafe(doc)
  PROVE  Managed(doc) /\ doc \in Seq(Lines)
<1>1. doc \in Seq(Lines)
  BY DEF DocumentInv, WellFormed
<1>2. Safe(doc)
  BY <1>1, SafeIs
<1> QED BY <1>1, <1>2 DEF DocumentInv, Managed

LEMMA ManagedIsSafe ==
  ASSUME NEW d, Managed(d)
  PROVE  WellFormed(d) /\ AdoptionSafe(d)
<1>1. d \in Seq(Lines)
  BY DEF Managed, WellFormed
<1> QED BY <1>1, SafeIs DEF Managed

LEMMA FindPeerIs ==
  ASSUME NEW d, NEW p
  PROVE  /\ FindPeer(d, p) = {} <=> HeadersOf(d, p) = {}
         /\ \A b \in FindPeer(d, p) : \E h \in HeadersOf(d, p) : b = Block(d, h) /\ b.lines = BlockAt(d, h)
         /\ \A h \in HeadersOf(d, p) : Block(d, h) \in FindPeer(d, p)
<1>1. FindPeer(d, p) = {Block(d, h) : h \in HeadersOf(d, p)}
  BY BlocksAre
<1>2. \A h : Block(d, h).lines = BlockAt(d, h)
  BY DEF Block
<1> QED BY <1>1, <1>2

PatchedAt(p, w, h) ==
  LET b == BlockAt(doc, h)
      c == PatchedBlock(b, w)
  IN  /\ call' = Asked("patch", p, w) /\ archive' = archive
      /\ doc' = ReplaceNodeRange(doc, Block(doc, h), c)
      /\ Managed(doc) /\ ~Spoils(b, w) /\ (AllEnded(b) => AllEnded(c))
      /\ SafeChunk(b, p) /\ SaidBy(doc, p) = {ReadSettings(b)} /\ SafeChunk(c, p)
      /\ After(doc, doc', p, {ReadSettings(c)})

SpoiltAt(p, w, h) ==
  /\ call' = Asked("spoil", p, w) /\ archive' = archive
  /\ Managed(doc) /\ SaidBy(doc, p) # {} /\ Spoilt(doc, h, p, doc')

\* PatchPeer: the block is patched, the rest of the document is what it was.
LEMMA PatchStep ==
  ASSUME DocumentInv, NEW p \in Peers, PatchPeer(p)
  PROVE  \E w \in Patches : \E h \in HeadersOf(doc, p) : PatchedAt(p, w, h) \/ SpoiltAt(p, w, h)
<1>1. PICK b \in FindPeer(doc, p) : \E w \in Patches :
               /\ doc' = ReplaceNodeRange(doc, b, PatchedBlock(b.lines, w))
               /\ call' = Asked(IF Spoils(b.lines, w) THEN "spoil" ELSE "patch", p, w)
  BY DEF PatchPeer
<1>2. PICK w \in Patches : /\ doc' = ReplaceNodeRange(doc, b, PatchedBlock(b.lines, w))
                           /\ call' = Asked(IF Spoils(b.lines, w) THEN "spoil" ELSE "patch", p, w)
  BY <1>1
<1>3. PICK h \in HeadersOf(doc, p) : b = Block(doc, h) /\ b.lines = BlockAt(doc, h)
  BY FindPeerIs
<1>4. Managed(doc) /\ archive' = archive
  BY ManagedIs DEF PatchPeer
<1>5. SafeChunk(BlockAt(doc, h), p) /\ SaidBy(doc, p) = {ReadSettings(BlockAt(doc, h))}
  BY <1>4, CutManaged
<1>6. PICK c : c = PatchedBlock(BlockAt(doc, h), w)
  OBVIOUS
<1>7. Wanted(w)
  BY RequestsAssumption DEF Wanted
<1>8. doc' = ReplaceNodeRange(doc, Block(doc, h), c)
  BY <1>2, <1>3, <1>6
<1>9. CASE ~Spoils(BlockAt(doc, h), w)
  <2>1. SafeChunk(c, p) /\ (AllEnded(BlockAt(doc, h)) => AllEnded(c))
    BY <1>5, <1>6, <1>7, <1>9, PatchedIs DEF SafeChunk
  <2>2. After(doc, doc', p, {ReadSettings(c)})
    BY <1>4, <1>8, <2>1, PatchManaged
  <2>3. call' = Asked("patch", p, w)
    BY <1>2, <1>3, <1>9
  <2>4. PatchedAt(p, w, h)
    BY <1>4, <1>5, <1>6, <1>8, <1>9, <2>1, <2>2, <2>3 DEF PatchedAt
  <2> QED BY <2>4
<1>10. CASE Spoils(BlockAt(doc, h), w)
  <2>1. Spoilt(doc, h, p, doc')
    BY <1>4, <1>6, <1>7, <1>8, <1>10, SpoiltIs
  <2>2. call' = Asked("spoil", p, w)
    BY <1>2, <1>3, <1>10
  <2>3. SpoiltAt(p, w, h)
    BY <1>4, <1>5, <2>1, <2>2 DEF SpoiltAt
  <2> QED BY <2>3
<1> QED BY <1>9, <1>10

Appends(p, c) ==
  /\ SafeChunk(c, p) /\ SaidBy(doc, p) = {} /\ doc' = Separated(doc) \o c
  /\ After(doc, doc', p, {ReadSettings(c)})

LEMMA AppendStep ==
  ASSUME DocumentInv, AdoptionSafe(doc), NEW p \in Peers, FindPeer(doc, p) = {}, NEW c, SafeChunk(c, p), doc' = Separated(doc) \o c
  PROVE  Appends(p, c)
<1>1. Managed(doc)
  BY ManagedIs
<1>2. HeadersOf(doc, p) = {}
  BY FindPeerIs
<1>3. After(doc, Separated(doc) \o c, p, {ReadSettings(c)})
  BY <1>1, <1>2, AppendManaged
<1> QED BY <1>2, <1>3, Unsaid DEF Appends

\* AddPeer
LEMMA AddStep ==
  ASSUME DocumentInv, NEW p \in Peers, AddPeer(p)
  PROVE  archive' = archive /\ \E w \in NewPeers : call' = Asked("add", p, w) /\ Appends(p, NewBlock(p, w))
<1>1. PICK w \in NewPeers : doc' = Separated(doc) \o NewBlock(p, w) /\ call' = Asked("add", p, w)
  BY DEF AddPeer
<1>2. SafeChunk(NewBlock(p, w), p)
  <2>1. \A f \in Fields : w[f] \in Lists(f)
    BY RequestsAssumption
  <2> QED BY <2>1, NewBlockIs DEF SafeChunk
<1>3. AdoptionSafe(doc) /\ FindPeer(doc, p) = {} /\ archive' = archive
  BY DEF AddPeer
<1> QED BY <1>1, <1>2, <1>3, AppendStep

CutAt(p, h) ==
  LET b == BlockAt(doc, h)
  IN  /\ call' = Asked("remove", p, Keep) /\ archive' = [archive EXCEPT ![p] = b]
      /\ SafeChunk(b, p) /\ SaidBy(doc, p) = {ReadSettings(b)} /\ h \in Nat
      /\ After(doc, doc', p, {}) /\ Inserts(doc', h - 1, b, doc)

\* RemovePeer
LEMMA RemoveStep ==
  ASSUME DocumentInv, NEW p \in Peers, RemovePeer(p)
  PROVE  \E h \in HeadersOf(doc, p) : CutAt(p, h)
<1>1. PICK b \in FindPeer(doc, p) : /\ archive' = [archive EXCEPT ![p] = b.lines]
                                    /\ doc' = ReplaceNodeRange(doc, b, <<>>)
  BY DEF RemovePeer
<1>2. PICK h \in HeadersOf(doc, p) : b = Block(doc, h) /\ b.lines = BlockAt(doc, h)
  BY FindPeerIs
<1>3. Managed(doc) /\ doc \in Seq(Lines)
  BY ManagedIs DEF RemovePeer
<1>4. doc' = Cut(doc, h)
  BY <1>1, <1>2 DEF Cut
<1>5. /\ After(doc, doc', p, {}) /\ SafeChunk(BlockAt(doc, h), p)
      /\ SaidBy(doc, p) = {ReadSettings(BlockAt(doc, h))}
      /\ Inserts(doc', h - 1, BlockAt(doc, h), doc)
  BY <1>3, <1>4, CutManaged
<1>6. h \in Nat
  BY <1>3 DEF HeadersOf, PeerHeaders, Headers
<1>7. call' = Asked("remove", p, Keep)
  BY DEF RemovePeer
<1> QED BY <1>1, <1>2, <1>5, <1>6, <1>7 DEF CutAt

\* RestorePeerBlock: what the archive holds passes the gate.
LEMMA RestoreStep ==
  ASSUME DocumentInv, NEW p \in Peers, RestorePeerBlock(p)
  PROVE  /\ call' = Asked("restore", p, Keep) /\ archive' = [archive EXCEPT ![p] = <<>>]
         /\ Appends(p, archive[p])
<1>1. archive[p] # <<>>
  <2>1. FindPeer(archive[p], p) # {}
    BY DEF RestorePeerBlock, IsPeerBlock
  <2>2. HeadersOf(archive[p], p) # {}
    BY <2>1, FindPeerIs
  <2> QED BY <2>2, EmptySaysNothing
<1>2. SafeChunk(archive[p], p)
  BY <1>1 DEF DocumentInv
<1>3. /\ AdoptionSafe(doc) /\ FindPeer(doc, p) = {} /\ doc' = Separated(doc) \o archive[p]
      /\ call' = Asked("restore", p, Keep) /\ archive' = [archive EXCEPT ![p] = <<>>]
  BY DEF RestorePeerBlock
<1> QED BY <1>2, <1>3, AppendStep

\* Every edit leads to well-formed lines, and archives a safe block.
LEMMA DocumentStep ==
  ASSUME DocumentInv, [Next]_vars
  PROVE  DocumentInv'
<1>1. ASSUME NEW p \in Peers, After(doc, doc', p, {}) \/ \E r : After(doc, doc', p, {r})
      PROVE  WellFormed(doc')
  BY <1>1 DEF After, Managed
<1>2. ASSUME NEW p \in Peers, NEW c, c = <<>> \/ SafeChunk(c, p), archive' = [archive EXCEPT ![p] = c]
      PROVE  /\ archive' = [q \in Peers |-> archive'[q]]
             /\ \A q \in Peers : archive'[q] = <<>> \/ SafeChunk(archive'[q], q)
  BY <1>2 DEF DocumentInv
<1>3. ASSUME archive' = archive
      PROVE  /\ archive' = [q \in Peers |-> archive'[q]]
             /\ \A q \in Peers : archive'[q] = <<>> \/ SafeChunk(archive'[q], q)
  BY <1>3 DEF DocumentInv
<1>4. ASSUME NEW p \in Peers, PatchPeer(p) PROVE DocumentInv'
  <2>1. archive' = archive /\ (WellFormed(doc') \/ \E r : After(doc, doc', p, {r}))
    BY <1>4, PatchStep DEF PatchedAt, SpoiltAt, Spoilt
  <2> QED BY <1>1, <1>3, <2>1 DEF DocumentInv
<1>5. ASSUME NEW p \in Peers, AddPeer(p) PROVE DocumentInv'
  <2>1. archive' = archive /\ \E r : After(doc, doc', p, {r})
    BY <1>5, AddStep DEF Appends
  <2> QED BY <1>1, <1>3, <2>1 DEF DocumentInv
<1>6. ASSUME NEW p \in Peers, RemovePeer(p) PROVE DocumentInv'
  <2>1. PICK h \in HeadersOf(doc, p) : CutAt(p, h)
    BY <1>6, RemoveStep
  <2>2. /\ After(doc, doc', p, {}) /\ SafeChunk(BlockAt(doc, h), p)
        /\ archive' = [archive EXCEPT ![p] = BlockAt(doc, h)]
    BY <2>1 DEF CutAt
  <2> QED BY <1>1, <1>2, <2>2 DEF DocumentInv
<1>7. ASSUME NEW p \in Peers, RestorePeerBlock(p) PROVE DocumentInv'
  <2>1. archive' = [archive EXCEPT ![p] = <<>>] /\ \E r : After(doc, doc', p, {r})
    BY <1>7, RestoreStep DEF Appends
  <2> QED BY <1>1, <1>2, <2>1 DEF DocumentInv
<1>8. CASE UNCHANGED vars
  BY <1>8 DEF vars, DocumentInv
<1> QED BY <1>4, <1>5, <1>6, <1>7, <1>8 DEF Next

LEMMA DocumentInit ==
  ASSUME Init
  PROVE  DocumentInv
BY FilesAssumption DEF Init, DocumentInv

\* The lines of the file stay well formed, and the archive holds safe blocks, through any sequence of
\* PatchPeer, AddPeer, RemovePeer and RestorePeerBlock.
THEOREM DocumentInvariant ==
  Spec => []DocumentInv
<1>1. Init => DocumentInv
  BY DocumentInit
<1>2. DocumentInv /\ [Next]_vars => DocumentInv'
  BY DocumentStep
<1> QED BY <1>1, <1>2, PTL DEF Spec

\* The file and the archived blocks are lines at every step, and only the last line of the file may lack
\* its newline: PatchPeer, AddPeer, RemovePeer and RestorePeerBlock, on any file that the gate accepts.
THEOREM DocumentTyped ==
  Spec => []TypeOK
<1>1. DocumentInv => TypeOK
  <2>1. <<>> \in Seq(Lines)
    OBVIOUS
  <2> QED BY <2>1 DEF DocumentInv, TypeOK, SafeChunk, Good
<1> QED BY <1>1, DocumentInvariant, PTL

StepIsSafe == call'.op # "spoil" => AdoptionSafe(doc')

LEMMA StepSafe ==
  ASSUME DocumentInv, Next
  PROVE  StepIsSafe
<1>1. ASSUME NEW p \in Peers, NEW says, After(doc, doc', p, says) PROVE StepIsSafe
  <2>1. Managed(doc')
    BY <1>1 DEF After
  <2> QED BY <2>1, ManagedIsSafe DEF StepIsSafe
<1>2. ASSUME NEW p \in Peers, PatchPeer(p) PROVE StepIsSafe
  <2>1. PICK w \in Patches : \E h \in HeadersOf(doc, p) : PatchedAt(p, w, h) \/ SpoiltAt(p, w, h)
    BY <1>2, PatchStep
  <2>2. PICK h \in HeadersOf(doc, p) : PatchedAt(p, w, h) \/ SpoiltAt(p, w, h)
    BY <2>1
  <2>3. CASE PatchedAt(p, w, h)
    BY <1>1, <2>3 DEF PatchedAt
  <2>4. CASE SpoiltAt(p, w, h)
    <3>1. call'.op = "spoil"
      BY <2>4 DEF SpoiltAt, Asked
    <3> QED BY <3>1 DEF StepIsSafe
  <2> QED BY <2>2, <2>3, <2>4
<1>3. ASSUME NEW p \in Peers, AddPeer(p) PROVE StepIsSafe
  BY <1>1, <1>3, AddStep DEF Appends
<1>4. ASSUME NEW p \in Peers, RemovePeer(p) PROVE StepIsSafe
  BY <1>1, <1>4, RemoveStep DEF CutAt
<1>5. ASSUME NEW p \in Peers, RestorePeerBlock(p) PROVE StepIsSafe
  BY <1>1, <1>5, RestoreStep DEF Appends
<1> QED BY <1>2, <1>3, <1>4, <1>5 DEF Next

\* No edit leads a managed file to one that the gate of every later edit (AdoptionSafe) refuses, whatever
\* the file looks like and however many peers and requests there are; but for a patch that appends a key
\* behind a last line without newline (Spoils).
THEOREM NeverLockedOut ==
  Spec => StaysSafe
<1>1. DocumentInv /\ [Next]_vars => [StepIsSafe]_vars
  BY StepSafe
<1>2. Spec => [][StepIsSafe]_vars
  BY <1>1, DocumentInvariant, PTL DEF Spec
<1> QED BY <1>2 DEF StaysSafe, StepIsSafe

-----------------------------------------------------------------------------
(* The tables that the lines implement. *)

TableOf(d) == [p \in Peers |-> Saying(d, p)]
Shelf(a) == [p \in Peers |-> Saying(a[p], p)]

Updates(old, new, p, r) == new = [old EXCEPT ![p] = r]

LEMMA TableAfter ==
  ASSUME NEW d, NEW full, NEW p \in Peers, NEW says, After(d, full, p, says)
  PROVE  Updates(TableOf(d), TableOf(full), p, Saying(full, p))
<1>1. \A q : q # p => SaidBy(full, q) = SaidBy(d, q)
  BY DEF After
<1>2. \A q : q # p => Saying(full, q) = Saying(d, q)
  BY <1>1, SayingIs
<1> QED BY <1>2 DEF TableOf, Updates

LEMMA TableSet ==
  ASSUME NEW d, NEW full, NEW p \in Peers, NEW r, After(d, full, p, {r})
  PROVE  Updates(TableOf(d), TableOf(full), p, r)
<1>1. SaidBy(full, p) = {r}
  BY DEF After
<1>2. Saying(full, p) = r
  BY <1>1, SayingIs
<1> QED BY <1>2, TableAfter

LEMMA TableCleared ==
  ASSUME NEW d, NEW full, NEW p \in Peers, After(d, full, p, {})
  PROVE  Updates(TableOf(d), TableOf(full), p, Absent)
<1>1. SaidBy(full, p) = {}
  BY DEF After
<1>2. Saying(full, p) = Absent
  BY <1>1, SayingIs
<1> QED BY <1>2, TableAfter

LEMMA ShelfIs ==
  /\ \A p \in Peers : Saying(<<>>, p) = Absent
  /\ \A p \in Peers : \A c : SafeChunk(c, p) => Saying(c, p) = ReadSettings(c)
<1>1. \A p \in Peers : Saying(<<>>, p) = Absent
  BY EmptySaysNothing, SayingIs
<1>2. ASSUME NEW p \in Peers, NEW c, SafeChunk(c, p) PROVE Saying(c, p) = ReadSettings(c)
  BY <1>2, SaidAlone, SayingIs
<1> QED BY <1>1, <1>2

LEMMA ShelfAfter ==
  ASSUME DocumentInv, NEW p \in Peers, NEW c, archive' = [archive EXCEPT ![p] = c]
  PROVE  Updates(Shelf(archive), Shelf(archive'), p, Saying(c, p))
<1>1. archive = [q \in Peers |-> archive[q]]
  BY DEF DocumentInv
<1>2. archive'[p] = c /\ \A q \in Peers : q # p => archive'[q] = archive[q]
  BY <1>1
<1>3. PICK s : s = Saying(c, p)
  OBVIOUS
<1>4. Shelf(archive') = [q \in Peers |-> IF q = p THEN s ELSE Saying(archive[q], q)]
  BY <1>2, <1>3 DEF Shelf
<1>5. [Shelf(archive) EXCEPT ![p] = s] = [q \in Peers |-> IF q = p THEN s ELSE Saying(archive[q], q)]
  BY DEF Shelf
<1> QED BY <1>3, <1>4, <1>5 DEF Updates

LEMMA SettingsAre ==
  ASSUME NEW c, NEW p, SafeChunk(c, p)
  PROVE  /\ ReadSettings(c) \in Meaning!Settings /\ ReadSettings(c) # Absent
         /\ ReadSettings(c) = [f \in Fields |-> ReadSettings(c)[f]]
<1>1. c \in Seq(Lines)
  BY DEF SafeChunk, Good
<1>2. ReadSettings(c) = [f \in Fields |-> ReadSettings(c)[f]]
  BY DEF ReadSettings
<1> QED BY <1>1, <1>2, ReadSettingsType

LEMMA SenseIs ==
  ASSUME NEW list
  PROVE  Meaning!Sense(list) = Range(list) \ {Off}
BY DEF Meaning!Sense, Range

\* A managed file says some table of settings.
LEMMA MeaningInit ==
  ASSUME Init
  PROVE  Meaning!Init
<1>1. DocumentInv /\ Managed(doc) /\ doc \in Seq(Lines)
  <2>1. AdoptionSafe(doc)
    BY FilesAssumption DEF Init
  <2> QED BY <2>1, DocumentInit, ManagedIs
<1>2. ASSUME NEW p \in Peers PROVE Saying(doc, p) \in Meaning!Settings \cup {Absent}
  <2>1. CASE HeadersOf(doc, p) = {}
    BY <2>1, Unsaid, SayingIs
  <2>2. CASE HeadersOf(doc, p) # {}
    <3>1. PICK h \in HeadersOf(doc, p) : TRUE
      BY <2>2
    <3>2. PICK c : c = BlockAt(doc, h)
      OBVIOUS
    <3>3. SafeChunk(c, p) /\ SaidBy(doc, p) = {ReadSettings(c)}
      BY <1>1, <3>2, CutManaged
    <3> QED BY <3>3, SettingsAre, SayingIs
  <2> QED BY <2>1, <2>2
<1>3. [p \in Peers |-> Saying(doc, p)] \in [Peers -> Meaning!Settings \cup {Absent}]
  BY <1>2
<1>4. [p \in Peers |-> Saying(archive[p], p)] = [p \in Peers |-> Absent]
  BY ShelfIs DEF Init
<1>5. call = Absent
  BY DEF Init
<1> QED BY <1>3, <1>4, <1>5 DEF Meaning!Init

\* Each edit of the lines is the edit of the tables that the caller asked for.
LEMMA MeaningPatch ==
  ASSUME DocumentInv, NEW p \in Peers, NEW w \in Patches, NEW h \in HeadersOf(doc, p), PatchedAt(p, w, h)
  PROVE  Meaning!Patch(p, w)
<1>3. PICK b : b = BlockAt(doc, h)
  OBVIOUS
<1>4. PICK c : c = PatchedBlock(b, w)
  OBVIOUS
<1>5. /\ call' = Asked("patch", p, w) /\ archive' = archive
      /\ SafeChunk(b, p) /\ SaidBy(doc, p) = {ReadSettings(b)} /\ SafeChunk(c, p)
      /\ After(doc, doc', p, {ReadSettings(c)})
  BY <1>3, <1>4 DEF PatchedAt
<1>6. Saying(doc, p) = ReadSettings(b) /\ ReadSettings(b) # Absent
  BY <1>5, SayingIs, SettingsAre
<1>7. TableOf(doc') = [TableOf(doc) EXCEPT ![p] = ReadSettings(c)]
  <2>1. Updates(TableOf(doc), TableOf(doc'), p, ReadSettings(c))
    BY <1>5, TableSet
  <2> QED BY <2>1 DEF Updates
<1>8. ReadSettings(c) = [f \in Fields |-> IF w[f] = Keep THEN ReadSettings(b)[f] ELSE Meaning!Sense(w[f])]
  <2>1. Wanted(w)
    BY RequestsAssumption DEF Wanted
  <2>2. Good(b) /\ BlockIsSafe(b) /\ ~Spoils(b, w)
    BY <1>3, <1>5 DEF SafeChunk, PatchedAt
  <2>3. \A f \in Fields : ReadSettings(c)[f] = IF w[f] = Keep THEN ReadSettings(b)[f] ELSE Range(w[f]) \ {Off}
    BY <1>4, <2>1, <2>2, PatchedIs
  <2>4. \A f \in Fields : ReadSettings(c)[f] = IF w[f] = Keep THEN ReadSettings(b)[f] ELSE Meaning!Sense(w[f])
    BY <2>3, SenseIs
  <2>5. ReadSettings(c) = [f \in Fields |-> ReadSettings(c)[f]]
    BY <1>5, SettingsAre
  <2> QED BY <2>4, <2>5
<1>9. TableOf(doc)[p] = ReadSettings(b)
  BY <1>6 DEF TableOf
<1>10. TableOf(doc') = [TableOf(doc) EXCEPT ![p] =
                          [f \in Fields |-> IF w[f] = Keep THEN @[f] ELSE Meaning!Sense(w[f])]]
  BY <1>7, <1>8, <1>9
<1>11. call' = Meaning!Asked("patch", p, w)
  BY <1>5 DEF Asked, Meaning!Asked
<1> QED BY <1>5, <1>6, <1>9, <1>10, <1>11 DEF Meaning!Patch, TableOf

\* A patch that spoils touches what the file says of its own peer only.
LEMMA MeaningSpoil ==
  ASSUME NEW p \in Peers, NEW w, NEW h, SpoiltAt(p, w, h)
  PROVE  Meaning!Spoil(p, w)
<1>1. /\ call' = Asked("spoil", p, w) /\ archive' = archive
      /\ SaidBy(doc, p) # {} /\ Spoilt(doc, h, p, doc') /\ Managed(doc)
  BY DEF SpoiltAt
<1>2. PICK r : r = Saying(doc', p)
  OBVIOUS
<1>3. r \in Meaning!Settings \cup {Absent}
  <2>1. CASE SaidBy(doc', p) = {}
    BY <1>2, <2>1, SayingIs
  <2>2. CASE SaidBy(doc', p) # {}
    <3>1. PICK c \in Seq(Lines) : SaidBy(doc', p) = {ReadSettings(c)}
      BY <1>1, <2>2 DEF Spoilt
    <3>2. r = ReadSettings(c)
      BY <1>2, <3>1, SayingIs
    <3> QED BY <3>2, ReadSettingsType
  <2> QED BY <2>1, <2>2
<1>4. ASSUME NEW q \in Peers, q # p PROVE Saying(doc', q) = Saying(doc, q)
  <2>1. q # Absent
    BY NamesAssumption
  <2>2. SaidBy(doc', q) = SaidBy(doc, q)
    BY <1>1, <1>4, <2>1 DEF Spoilt
  <2> QED BY <2>2, SayingIs
<1>5. TableOf(doc')[p] = r
  BY <1>2 DEF TableOf
<1>6. TableOf(doc') = [TableOf(doc) EXCEPT ![p] = TableOf(doc')[p]]
  BY <1>2, <1>4 DEF TableOf
<1>7. TableOf(doc)[p] # Absent
  <2>1. PICK h1 \in HeadersOf(doc, p) : TRUE
    BY <1>1, Unsaid
  <2>2. PICK c : c = BlockAt(doc, h1)
    OBVIOUS
  <2>3. SafeChunk(c, p) /\ SaidBy(doc, p) = {ReadSettings(c)}
    BY <1>1, <2>2, CutManaged
  <2>4. Saying(doc, p) = ReadSettings(c) /\ ReadSettings(c) # Absent
    BY <2>3, SayingIs, SettingsAre
  <2> QED BY <2>4 DEF TableOf
<1>8. call' = Meaning!Asked("spoil", p, w)
  BY <1>1 DEF Asked, Meaning!Asked
<1> QED BY <1>1, <1>3, <1>5, <1>6, <1>7, <1>8 DEF Meaning!Spoil, TableOf

LEMMA MeaningAdd ==
  ASSUME DocumentInv, NEW p \in Peers, AddPeer(p)
  PROVE  \E w \in NewPeers : Meaning!Add(p, w)
<1>1. PICK w \in NewPeers : call' = Asked("add", p, w) /\ Appends(p, NewBlock(p, w))
  BY AddStep
<1>2. archive' = archive
  BY AddStep
<1>3. PICK c : c = NewBlock(p, w)
  OBVIOUS
<1>4. SafeChunk(c, p) /\ SaidBy(doc, p) = {} /\ After(doc, doc', p, {ReadSettings(c)})
  BY <1>1, <1>3 DEF Appends
<1>5. Saying(doc, p) = Absent
  BY <1>4, SayingIs
<1>6. TableOf(doc') = [TableOf(doc) EXCEPT ![p] = ReadSettings(c)]
  <2>1. Updates(TableOf(doc), TableOf(doc'), p, ReadSettings(c))
    BY <1>4, TableSet
  <2> QED BY <2>1 DEF Updates
<1>7. ReadSettings(c) = [f \in Fields |-> Meaning!Sense(w[f])]
  <2>1. \A f \in Fields : w[f] \in Lists(f)
    BY RequestsAssumption
  <2>2. \A f \in Fields : ReadSettings(c)[f] = Range(w[f]) \ {Off}
    BY <1>3, <2>1, NewBlockIs
  <2>3. \A f \in Fields : ReadSettings(c)[f] = Meaning!Sense(w[f])
    BY <2>2, SenseIs
  <2>4. ReadSettings(c) = [f \in Fields |-> ReadSettings(c)[f]]
    BY <1>4, SettingsAre
  <2> QED BY <2>3, <2>4
<1>8. TableOf(doc') = [TableOf(doc) EXCEPT ![p] = [f \in Fields |-> Meaning!Sense(w[f])]]
  BY <1>6, <1>7
<1>9. TableOf(doc)[p] = Absent
  BY <1>5 DEF TableOf
<1>10. call' = Meaning!Asked("add", p, w)
  BY <1>1 DEF Asked, Meaning!Asked
<1>11. Meaning!Add(p, w)
  BY <1>2, <1>8, <1>9, <1>10 DEF Meaning!Add, TableOf
<1> QED BY <1>11

LEMMA MeaningRemove ==
  ASSUME DocumentInv, NEW p \in Peers, RemovePeer(p)
  PROVE  Meaning!Remove(p)
<1>1. PICK h \in HeadersOf(doc, p) : CutAt(p, h)
  BY RemoveStep
<1>2. PICK b : b = BlockAt(doc, h)
  OBVIOUS
<1>3. /\ call' = Asked("remove", p, Keep) /\ archive' = [archive EXCEPT ![p] = b]
      /\ SafeChunk(b, p) /\ SaidBy(doc, p) = {ReadSettings(b)} /\ After(doc, doc', p, {})
  BY <1>1, <1>2 DEF CutAt
<1>4. Saying(doc, p) = ReadSettings(b) /\ ReadSettings(b) # Absent
  BY <1>3, SayingIs, SettingsAre
<1>5. TableOf(doc') = [TableOf(doc) EXCEPT ![p] = Absent]
  <2>1. Updates(TableOf(doc), TableOf(doc'), p, Absent)
    BY <1>3, TableCleared
  <2> QED BY <2>1 DEF Updates
<1>6. TableOf(doc)[p] = ReadSettings(b)
  BY <1>4 DEF TableOf
<1>7. Shelf(archive') = [Shelf(archive) EXCEPT ![p] = TableOf(doc)[p]]
  <2>1. Saying(b, p) = ReadSettings(b)
    BY <1>3, ShelfIs
  <2> QED BY <1>3, <1>6, <2>1, ShelfAfter DEF Updates
<1>8. call' = Meaning!Asked("remove", p, Keep)
  BY <1>3 DEF Asked, Meaning!Asked
<1> QED BY <1>4, <1>5, <1>6, <1>7, <1>8 DEF Meaning!Remove, TableOf, Shelf

LEMMA MeaningRestore ==
  ASSUME DocumentInv, NEW p \in Peers, RestorePeerBlock(p)
  PROVE  Meaning!Restore(p)
<1>1. PICK c : c = archive[p]
  OBVIOUS
<1>2. /\ call' = Asked("restore", p, Keep) /\ archive' = [archive EXCEPT ![p] = <<>>]
      /\ SafeChunk(c, p) /\ SaidBy(doc, p) = {} /\ After(doc, doc', p, {ReadSettings(c)})
  BY <1>1, RestoreStep DEF Appends
<1>3. Saying(doc, p) = Absent /\ Saying(c, p) = ReadSettings(c) /\ ReadSettings(c) # Absent
  BY <1>2, SayingIs, SettingsAre, ShelfIs
<1>4. TableOf(doc)[p] = Absent /\ Shelf(archive)[p] = ReadSettings(c)
  BY <1>1, <1>3 DEF TableOf, Shelf
<1>5. TableOf(doc') = [TableOf(doc) EXCEPT ![p] = Shelf(archive)[p]]
  <2>1. Updates(TableOf(doc), TableOf(doc'), p, Shelf(archive)[p])
    BY <1>2, <1>4, TableSet
  <2> QED BY <2>1 DEF Updates
<1>6. Shelf(archive') = [Shelf(archive) EXCEPT ![p] = Absent]
  <2>1. Saying(<<>>, p) = Absent
    BY ShelfIs
  <2> QED BY <1>2, <2>1, ShelfAfter DEF Updates
<1>7. call' = Meaning!Asked("restore", p, Keep)
  BY <1>2 DEF Asked, Meaning!Asked
<1> QED BY <1>3, <1>4, <1>5, <1>6, <1>7 DEF Meaning!Restore, TableOf, Shelf

LEMMA MeaningStep ==
  ASSUME DocumentInv, [Next]_vars
  PROVE  [Meaning!Next]_(Meaning!vars)
<1>1. ASSUME NEW p \in Peers, PatchPeer(p) PROVE Meaning!Next
  <2>1. \E w \in Patches \cup NewPeers : Meaning!Patch(p, w) \/ Meaning!Spoil(p, w)
    BY <1>1, PatchStep, MeaningPatch, MeaningSpoil
  <2> QED BY <2>1 DEF Meaning!Next
<1>2. ASSUME NEW p \in Peers, AddPeer(p) PROVE Meaning!Next
  <2>1. \E w \in Patches \cup NewPeers : Meaning!Add(p, w)
    BY <1>2, MeaningAdd
  <2> QED BY <2>1 DEF Meaning!Next
<1>3. ASSUME NEW p \in Peers, RemovePeer(p) PROVE Meaning!Next
  BY <1>3, MeaningRemove DEF Meaning!Next
<1>4. ASSUME NEW p \in Peers, RestorePeerBlock(p) PROVE Meaning!Next
  BY <1>4, MeaningRestore DEF Meaning!Next
<1>5. CASE UNCHANGED vars
  BY <1>5 DEF vars, Meaning!vars
<1> QED BY <1>1, <1>2, <1>3, <1>4, <1>5 DEF Next

\* The lines implement the tables of ConfigMeaning: what the file says of its peers is, after every
\* PatchPeer, AddPeer, RemovePeer and RestorePeerBlock, what the caller has asked for; but for a patch that
\* Spoils, after which anything may be said of its own peer, and of the others what was said before.
THEOREM SaysWhatWasAsked ==
  Spec => MeaningKept
<1>1. Init => Meaning!Init
  BY MeaningInit
<1>2. DocumentInv /\ [Next]_vars => [Meaning!Next]_(Meaning!vars)
  BY MeaningStep
<1> QED BY <1>1, <1>2, DocumentInvariant, PTL DEF Spec, MeaningKept, Meaning!Spec

-----------------------------------------------------------------------------
(* The lines that are kept. *)

LEMMA OneHeader ==
  ASSUME NEW d, Managed(d), NEW p, NEW h \in HeadersOf(d, p)
  PROVE  HeadersOf(d, p) = {h} /\ FindPeer(d, p) = {Block(d, h)}
<1>1. \A g \in HeadersOf(d, p) : g = h
  BY DEF Managed, Safe, HeadersOf
<1>2. HeadersOf(d, p) = {h}
  BY <1>1
<1>3. FindPeer(d, p) = {Block(d, g) : g \in HeadersOf(d, p)}
  BY BlocksAre
<1> QED BY <1>2, <1>3

\* The lines of the block of p that assign one of the fields.
Selected(d, h, fields) ==
  {i \in h .. BlockEnd(d, h) : d[i].kind = "assignment" /\ d[i].key \in fields}

Trimmed(d, h, fields) == SelectIndices(d, DOMAIN d \ Selected(d, h, fields))

LEMMA WithoutOne ==
  ASSUME NEW d, Managed(d), NEW p, NEW h \in HeadersOf(d, p), NEW fields
  PROVE  Without(d, p, fields) = Trimmed(d, h, fields)
<1>1. FindPeer(d, p) = {Block(d, h)}
  BY OneHeader
<1>2. Block(d, h).first = h /\ Block(d, h).last = BlockEnd(d, h)
  BY DEF Block
<1>3. PICK b : b = Block(d, h)
  OBVIOUS
<1>4. UNION {{i \in x.first .. x.last : d[i].kind = "assignment" /\ d[i].key \in fields} : x \in {b}}
        = {i \in b.first .. b.last : d[i].kind = "assignment" /\ d[i].key \in fields}
  OBVIOUS
<1>5. UNION {{i \in x.first .. x.last : d[i].kind = "assignment" /\ d[i].key \in fields} : x \in FindPeer(d, p)}
        = Selected(d, h, fields)
  BY <1>1, <1>2, <1>3, <1>4 DEF Selected
<1> QED BY <1>5 DEF Without, Trimmed

\* x, b and y are the lines in front of the block, the block, and those behind it.
Split(d, h, x, b, y) ==
  /\ x \in Seq(Lines) /\ b \in Seq(Lines) /\ y \in Seq(Lines)
  /\ d = x \o b \o y /\ h = Len(x) + 1 /\ BlockEnd(d, h) = Len(x) + Len(b)

\* Only inside the block lines are left out.
LEMMA SplitKept ==
  ASSUME NEW d, NEW h, NEW x, NEW b, NEW y, Split(d, h, x, b, y), NEW fields
  PROVE  Trimmed(d, h, fields) = x \o Kept(b, fields) \o y
<1>1. /\ x \in Seq(Lines) /\ b \in Seq(Lines) /\ y \in Seq(Lines)
      /\ d = x \o b \o y /\ h = Len(x) + 1 /\ BlockEnd(d, h) = Len(x) + Len(b)
  BY DEF Split
<1>2. PICK m : m = Len(x)
  OBVIOUS
<1>3. PICK n : n = Len(b)
  OBVIOUS
<1>4. PICK k : k = Len(y)
  OBVIOUS
<1>5. m \in Nat /\ n \in Nat /\ k \in Nat
  BY <1>1, <1>2, <1>3, <1>4
<1>6. Joins(d, x, b, y) /\ d \in Seq(Lines)
  BY <1>1, Three
<1>7. DOMAIN d = 1 .. m + n + k /\ DOMAIN b = 1 .. n
  BY <1>1, <1>2, <1>3, <1>4, <1>6 DEF Joins
<1>8. \A i \in 1 .. n : d[m + i] = b[i]
  BY <1>2, <1>3, <1>6 DEF Joins
<1>9. PICK U : U = Unselected(b, fields)
  OBVIOUS
<1>10. U \in SUBSET (1 .. n)
  BY <1>7, <1>9 DEF Unselected
<1>11. \A i \in 1 .. n : i \in U <=> ~(b[i].kind = "assignment" /\ b[i].key \in fields)
  BY <1>7, <1>9 DEF Unselected
<1>12. PICK S : S = DOMAIN d \ Selected(d, h, fields)
  OBVIOUS
<1>13. \A j \in 1 .. m + n + k : j \in S <=> ~(m < j /\ j <= m + n /\ d[j].kind = "assignment" /\ d[j].key \in fields)
  <2>1. h = m + 1 /\ BlockEnd(d, h) = m + n
    BY <1>1, <1>2, <1>3
  <2>2. \A j \in 1 .. m + n + k : j \in Selected(d, h, fields)
            <=> m + 1 <= j /\ j <= m + n /\ d[j].kind = "assignment" /\ d[j].key \in fields
    BY <1>5, <2>1 DEF Selected
  <2>3. \A j \in 1 .. m + n + k : m + 1 <= j <=> m < j
    BY <1>5
  <2> QED BY <1>7, <1>12, <2>2, <2>3
<1>14. \A i \in 1 .. n : m + i \in S <=> i \in U
  <2>1. \A i \in 1 .. n : m + i \in 1 .. m + n + k /\ m < m + i /\ m + i <= m + n
    BY <1>5
  <2> QED BY <1>8, <1>11, <1>13, <2>1
<1>15. PICK V : V = 1 .. m \cup {i + m : i \in U}
  OBVIOUS
<1>16. PICK W : W = {i + (m + n) : i \in 1 .. k}
  OBVIOUS
<1>17. S = V \cup W
  <2>1. ASSUME NEW j \in S PROVE j \in V \cup W
    <3>1. j \in 1 .. m + n + k
      BY <1>7, <1>12
    <3>2. CASE j <= m
      BY <1>5, <1>15, <3>1, <3>2
    <3>3. CASE m < j /\ j <= m + n
      <4>1. PICK i \in 1 .. n : i = j - m
        BY <1>5, <3>1, <3>3
      <4>2. j = m + i /\ j = i + m
        BY <1>5, <3>1, <4>1
      <4>3. i \in U
        BY <1>14, <4>2
      <4> QED BY <1>15, <4>2, <4>3
    <3>4. CASE m + n < j
      <4>1. PICK i \in 1 .. k : i = j - (m + n)
        BY <1>5, <3>1, <3>4
      <4>2. j = i + (m + n)
        BY <1>5, <3>1, <4>1
      <4> QED BY <1>16, <4>2
    <3> QED BY <1>5, <3>1, <3>2, <3>3, <3>4
  <2>2. ASSUME NEW j \in V PROVE j \in S
    <3>1. CASE j \in 1 .. m
      <4>1. j \in 1 .. m + n + k /\ ~(m < j)
        BY <1>5, <3>1
      <4> QED BY <1>13, <4>1
    <3>2. CASE j \in {i + m : i \in U}
      <4>1. PICK i \in U : j = i + m
        BY <3>2
      <4>2. i \in 1 .. n /\ m + i = j
        BY <1>5, <1>10, <4>1
      <4> QED BY <1>14, <4>2
    <3> QED BY <1>15, <3>1, <3>2
  <2>3. ASSUME NEW j \in W PROVE j \in S
    <3>1. PICK i \in 1 .. k : j = i + (m + n)
      BY <1>16
    <3>2. j \in 1 .. m + n + k /\ ~(j <= m + n)
      BY <1>5, <3>1
    <3> QED BY <1>13, <3>2
  <2> QED BY <2>1, <2>2, <2>3
<1>18. PICK z : z = x \o b
  OBVIOUS
<1>19. z \in Seq(Lines) /\ Len(z) = m + n /\ d = z \o y
  BY <1>1, <1>2, <1>3, <1>18, ConcatProperties
<1>20. PICK R : R = 1 .. m
  OBVIOUS
<1>21. PICK Q : Q = 1 .. k
  OBVIOUS
<1>22. R \in SUBSET (1 .. Len(x)) /\ U \in SUBSET (1 .. Len(b)) /\ Q \in SUBSET (1 .. Len(y))
  BY <1>2, <1>3, <1>4, <1>10, <1>20, <1>21
<1>23. Follows(V, R, U, Len(x))
  BY <1>2, <1>15, <1>20 DEF Follows
<1>24. V \in SUBSET (1 .. Len(z))
  <2>1. \A i \in 1 .. m : i \in 1 .. m + n
    BY <1>5
  <2>2. \A i \in U : i + m \in 1 .. m + n
    BY <1>5, <1>10
  <2> QED BY <1>15, <1>19, <2>1, <2>2
<1>25. Follows(S, V, Q, Len(z))
  BY <1>16, <1>17, <1>19, <1>21 DEF Follows
<1>26. x \in Seq(Lines) /\ b \in Seq(Lines) /\ y \in Seq(Lines) /\ z \in Seq(Lines)
  BY <1>1, <1>19
<1>27. SelectIndices(z, V) = x \o Kept(b, fields)
  <2>1. SelectIndices(x, R) = x
    BY <1>1, <1>2, <1>20, SelectAll
  <2>2. SelectIndices(Both(x, b), V) = Both(SelectIndices(x, R), SelectIndices(b, U))
    BY <1>26, <1>22, <1>23, SelectConcat
  <2> QED BY <1>9, <1>18, <2>1, <2>2 DEF Kept, Both
<1>28. SelectIndices(d, S) = SelectIndices(z, V) \o y
  <2>1. SelectIndices(y, Q) = y
    BY <1>1, <1>4, <1>21, SelectAll
  <2>2. SelectIndices(Both(z, y), S) = Both(SelectIndices(z, V), SelectIndices(y, Q))
    BY <1>26, <1>22, <1>24, <1>25, SelectConcat
  <2> QED BY <1>19, <2>1, <2>2 DEF Both
<1> QED BY <1>12, <1>27, <1>28 DEF Trimmed

LEMMA PutBack ==
  ASSUME NEW d \in Seq(Lines), NEW h \in PeerHeaders(d), NEW full \in Seq(Lines),
         Replaced(d, h, BlockEnd(d, h), BlockAt(d, h), full)
  PROVE  full = d
<1>1. PICK e : e = BlockEnd(d, h)
  OBVIOUS
<1>2. PICK b : b = BlockAt(d, h)
  OBVIOUS
<1>3. h \in Headers(d)
  BY DEF PeerHeaders
<1>4. PICK n : n = Len(d)
  OBVIOUS
<1>5. n \in Nat /\ h \in 1 .. n /\ e \in h .. n /\ Len(b) = e - h + 1 /\ \A i \in 1 .. Len(b) : b[i] = d[h + i - 1]
  BY <1>1, <1>2, <1>3, <1>4, BlockFact
<1>6. /\ Len(full) = n - (e - h + 1) + Len(b)
      /\ \A i \in 1 .. h - 1 : full[i] = d[i]
      /\ \A i \in 1 .. Len(b) : full[h - 1 + i] = b[i]
      /\ \A i \in e + 1 .. n : full[i - (e - h + 1) + Len(b)] = d[i]
  BY <1>1, <1>2, <1>4 DEF Replaced
<1>7. PICK m : m = Len(b)
  OBVIOUS
<1>8. m = e - h + 1 /\ Len(full) = n
  BY <1>5, <1>6, <1>7
<1>9. ASSUME NEW i \in 1 .. n PROVE full[i] = d[i]
  <2>1. CASE i < h
    BY <1>5, <1>6, <2>1
  <2>2. CASE h <= i /\ i <= e
    <3>1. PICK j \in 1 .. m : j = i - h + 1
      BY <1>5, <1>8, <2>2
    <3>2. h - 1 + j = i /\ h + j - 1 = i
      BY <1>5, <3>1
    <3>3. full[h - 1 + j] = b[j] /\ b[j] = d[h + j - 1]
      BY <1>5, <1>6, <1>7
    <3> QED BY <3>2, <3>3
  <2>3. CASE e < i
    <3>1. i \in e + 1 .. n /\ i - (e - h + 1) + m = i
      BY <1>5, <1>8, <2>3
    <3> QED BY <1>6, <1>7, <3>1
  <2> QED BY <1>5, <2>1, <2>2, <2>3
<1> QED BY <1>4, <1>8, <1>9

\* A patch replaces the block between the lines in front of it and those behind it.
LEMMA SplitIs ==
  ASSUME NEW d, Managed(d), NEW p, NEW h \in HeadersOf(d, p), NEW c, SafeChunk(c, p),
         AllEnded(BlockAt(d, h)) => AllEnded(c),
         NEW full, full = ReplaceNodeRange(d, Block(d, h), c)
  PROVE  /\ h \in HeadersOf(full, p)
         /\ \E x, y : Split(d, h, x, BlockAt(d, h), y) /\ Split(full, h, x, c, y)
<1>1. PICK b : b = BlockAt(d, h)
  OBVIOUS
<1>2. PICK rest : rest = Cut(d, h)
  OBVIOUS
<1>3. PICK e : e = BlockEnd(d, h)
  OBVIOUS
<1>4. /\ After(d, rest, p, {}) /\ SafeChunk(b, p) /\ Replaced(d, h, e, <<>>, rest)
  BY <1>1, <1>2, <1>3, CutManaged
<1>5. rest \in Seq(Lines)
  BY <1>4 DEF After, Managed, WellFormed
<1>6. h \in PeerHeaders(d) /\ h \in Headers(d) /\ WellFormed(d) /\ d \in Seq(Lines)
  BY DEF HeadersOf, PeerHeaders, Managed, WellFormed
<1>7. /\ b \in Seq(Lines) /\ OnlyLastOpen(b) /\ (AllEnded(b) \/ e = Len(d))
      /\ c \in Seq(Lines) /\ OnlyLastOpen(c) /\ (AllEnded(c) \/ e = Len(d))
      /\ Chunk(c) /\ PublicKey(c) = p
  BY <1>1, <1>3, <1>4, <1>6, BlockEnds DEF SafeChunk, Good
<1>8. PICK x : x = SubSeq(d, 1, h - 1)
  OBVIOUS
<1>9. PICK y : y = SubSeq(d, e + 1, Len(d))
  OBVIOUS
<1>10. WellFormed(full) /\ Replaced(d, h, e, c, full) /\ full = x \o c \o y
  BY <1>1, <1>3, <1>6, <1>7, <1>8, <1>9, Replace
<1>11. full \in Seq(Lines)
  BY <1>10 DEF WellFormed
<1>12. d = x \o b \o y
  <2>1. PICK same : same = ReplaceNodeRange(d, Block(d, h), b)
    OBVIOUS
  <2>2. WellFormed(same) /\ Replaced(d, h, e, b, same) /\ same = x \o b \o y
    BY <1>1, <1>3, <1>6, <1>7, <1>8, <1>9, <2>1, Replace
  <2>3. same \in Seq(Lines)
    BY <2>2 DEF WellFormed
  <2>4. same = d
    BY <1>1, <1>3, <1>6, <2>2, <2>3, PutBack
  <2> QED BY <2>2, <2>4
<1>13. Inserts(rest, h - 1, c, full)
  BY <1>3, <1>4, <1>5, <1>6, <1>7, <1>10, <1>11, PutIn
<1>14. PICK n : n = h - 1
  OBVIOUS
<1>15. h \in 1 .. Len(d) /\ e \in h .. Len(d) /\ Len(b) = e - h + 1
  BY <1>1, <1>3, <1>6, BlockFact
<1>16. PlacedBlocks(rest, n, c, full)
  BY <1>5, <1>7, <1>11, <1>13, <1>14, InsertedHeaders
<1>17. h \in Headers(full) /\ BlockAt(full, h) = c /\ full[h] = c[1]
  <2>1. n + 1 = h
    BY <1>14, <1>15
  <2>2. n + 1 \in Headers(full) /\ BlockAt(full, n + 1) = c /\ full[n + 1] = c[1]
    BY <1>16 DEF PlacedBlocks
  <2> QED BY <2>1, <2>2
<1>18. h \in HeadersOf(full, p)
  BY <1>7, <1>17 DEF HeadersOf, PeerHeaders, Chunk
<1>19. x \in Seq(Lines) /\ Len(x) = h - 1
  BY <1>6, <1>8, <1>15, SubSeqProperties
<1>20. y \in Seq(Lines)
  BY <1>3, <1>6, <1>9, <1>15, SubSeqProperties
<1>21. Split(d, h, x, b, y)
  <2>1. h = Len(x) + 1 /\ e = Len(x) + Len(b)
    BY <1>15, <1>19
  <2> QED BY <1>3, <1>7, <1>12, <1>19, <1>20, <2>1 DEF Split
<1>22. Split(full, h, x, c, y)
  <2>1. PICK k : k = BlockEnd(full, h)
    OBVIOUS
  <2>2. h \in 1 .. Len(full) /\ k \in h .. Len(full) /\ Len(c) = k - h + 1
    BY <1>11, <1>17, <2>1, BlockFact
  <2>3. h = Len(x) + 1 /\ k = Len(x) + Len(c)
    BY <1>15, <1>19, <2>2
  <2> QED BY <1>7, <1>10, <1>19, <1>20, <2>1, <2>3 DEF Split
<1> QED BY <1>1, <1>18, <1>21, <1>22

\* PatchPeer keeps every line it was not asked to change.
LEMMA PatchKeeps ==
  ASSUME DocumentInv, NEW p \in Peers, NEW w \in Patches, NEW h \in HeadersOf(doc, p), PatchedAt(p, w, h)
  PROVE  Without(doc', p, Mentioned(w)) = Without(doc, p, Mentioned(w))
<1>1. PICK b : b = BlockAt(doc, h)
  OBVIOUS
<1>2. PICK c : c = PatchedBlock(b, w)
  OBVIOUS
<1>3. PICK fields : fields = Mentioned(w)
  OBVIOUS
<1>4. PICK full : full = doc'
  OBVIOUS
<1>5. /\ Managed(doc) /\ ~Spoils(b, w) /\ (AllEnded(b) => AllEnded(c))
      /\ full = ReplaceNodeRange(doc, Block(doc, h), c) /\ SafeChunk(b, p) /\ SafeChunk(c, p)
      /\ After(doc, full, p, {ReadSettings(c)})
  BY <1>1, <1>2, <1>4 DEF PatchedAt
<1>6. Managed(doc) /\ Managed(full)
  BY <1>5 DEF After
<1>7. h \in HeadersOf(full, p) /\ \E x, y : Split(doc, h, x, b, y) /\ Split(full, h, x, c, y)
  BY <1>1, <1>5, <1>6, SplitIs
<1>8. PICK x : \E y : Split(doc, h, x, b, y) /\ Split(full, h, x, c, y)
  BY <1>7
<1>9. PICK y : Split(doc, h, x, b, y) /\ Split(full, h, x, c, y)
  BY <1>8
<1>10. Without(doc, p, fields) = Trimmed(doc, h, fields)
  BY <1>6, WithoutOne
<1>11. Without(full, p, fields) = Trimmed(full, h, fields)
  BY <1>6, <1>7, WithoutOne
<1>12. Trimmed(doc, h, fields) = x \o Kept(b, fields) \o y
  BY <1>9, SplitKept
<1>13. Trimmed(full, h, fields) = x \o Kept(c, fields) \o y
  BY <1>9, SplitKept
<1>14. Kept(c, fields) = Kept(b, fields)
  <2>1. Good(b) /\ BlockIsSafe(b)
    BY <1>5 DEF SafeChunk
  <2>2. Wanted(w)
    BY RequestsAssumption DEF Wanted
  <2> QED BY <1>2, <1>3, <1>5, <2>1, <2>2, PatchedIs
<1>15. Without(full, p, fields) = Without(doc, p, fields)
  BY <1>10, <1>11, <1>12, <1>13, <1>14
<1> QED BY <1>3, <1>4, <1>15

LEMMA Removable ==
  ASSUME NEW rest \in Seq(Lines), NEW n, NEW b \in Seq(Lines), NEW d \in Seq(Lines), Inserts(rest, n, b, d)
  PROVE  n \in 0 .. Len(rest) /\ d = SubSeq(rest, 1, n) \o b \o SubSeq(rest, n + 1, Len(rest))
<1>1. /\ n \in 0 .. Len(rest) /\ Len(d) = Len(rest) + Len(b)
      /\ \A i \in 1 .. n : d[i] = rest[i]
      /\ \A i \in 1 .. Len(b) : d[n + i] = b[i]
      /\ \A i \in n + 1 .. Len(rest) : d[i + Len(b)] = rest[i]
  BY DEF Inserts
<1>2. PICK x : x = SubSeq(rest, 1, n)
  OBVIOUS
<1>3. PICK y : y = SubSeq(rest, n + 1, Len(rest))
  OBVIOUS
<1>4. PICK m : m = Len(b)
  OBVIOUS
<1>5. PICK k : k = Len(rest)
  OBVIOUS
<1>6. m \in Nat /\ k \in Nat /\ n \in 0 .. k /\ n \in Nat
  BY <1>1, <1>4, <1>5
<1>7. x \in Seq(Lines) /\ Len(x) = n /\ \A i \in 1 .. n : x[i] = rest[i]
  BY <1>1, <1>2, <1>6, SubSeqProperties
<1>8. y \in Seq(Lines) /\ Len(y) = k - n /\ \A i \in 1 .. k - n : y[i] = rest[n + i]
  <2>1. CASE n < k
    <3>1. n + 1 \in 1 .. k /\ k \in n .. k
      BY <1>6, <2>1
    <3>2. y \in Seq(Lines) /\ Len(y) = k - (n + 1) + 1 /\ \A i \in 1 .. k - (n + 1) + 1 : y[i] = rest[n + 1 + i - 1]
      BY <1>3, <1>5, <1>6, <3>1, SubSeqProperties
    <3>3. k - (n + 1) + 1 = k - n /\ \A i \in 1 .. k - n : n + 1 + i - 1 = n + i
      BY <1>6
    <3> QED BY <3>2, <3>3
  <2>2. CASE n = k
    <3>1. y = <<>>
      BY <1>3, <1>5, <1>6, <2>2, SubSeqProperties
    <3> QED BY <1>6, <2>2, <3>1
  <2> QED BY <1>6, <2>1, <2>2
<1>9. PICK z : z = x \o b \o y
  OBVIOUS
<1>10. z \in Seq(Lines) /\ Joins(z, x, b, y)
  BY <1>7, <1>8, <1>9, Three
<1>11. /\ Len(z) = n + m + (k - n)
       /\ \A i \in 1 .. n : z[i] = x[i]
       /\ \A i \in 1 .. m : z[n + i] = b[i]
       /\ \A i \in 1 .. k - n : z[n + m + i] = y[i]
  BY <1>4, <1>7, <1>8, <1>10 DEF Joins
<1>12. Len(z) = k + m /\ Len(d) = k + m
  BY <1>1, <1>4, <1>5, <1>6, <1>11
<1>13. ASSUME NEW i \in 1 .. k + m PROVE z[i] = d[i]
  <2>1. CASE i <= n
    <3>1. i \in 1 .. n
      BY <1>6, <2>1
    <3> QED BY <1>1, <1>7, <1>11, <3>1
  <2>2. CASE n < i /\ i <= n + m
    <3>1. PICK j \in 1 .. m : j = i - n
      BY <1>6, <2>2
    <3>2. n + j = i
      BY <1>6, <3>1
    <3> QED BY <1>1, <1>4, <1>11, <3>2
  <2>3. CASE n + m < i
    <3>1. PICK j \in 1 .. k - n : j = i - n - m
      BY <1>6, <2>3
    <3>2. n + m + j = i /\ n + j \in n + 1 .. k /\ n + j + m = i
      BY <1>6, <3>1
    <3>3. d[n + j + m] = rest[n + j]
      BY <1>1, <1>4, <1>5, <3>2
    <3> QED BY <1>8, <1>11, <3>1, <3>2, <3>3
  <2> QED BY <1>6, <2>1, <2>2, <2>3
<1>14. z = d
  BY <1>10, <1>12, <1>13
<1> QED BY <1>1, <1>2, <1>3, <1>9, <1>14

\* AddPeer and RestorePeerBlock keep every line.
LEMMA AppendKeeps ==
  ASSUME DocumentInv, NEW p \in Peers, NEW c, Appends(p, c)
  PROVE  /\ \A i \in DOMAIN doc : [doc'[i] EXCEPT !.nl = doc[i].nl] = doc[i]
         /\ \E b \in FindPeer(doc', p) : b.lines = c
<1>1. PICK s : s = Separated(doc)
  OBVIOUS
<1>2. PICK full : full = doc'
  OBVIOUS
<1>3. SafeChunk(c, p) /\ full = s \o c /\ After(doc, full, p, {ReadSettings(c)})
  BY <1>1, <1>2 DEF Appends
<1>4. WellFormed(doc) /\ doc \in Seq(Lines)
  BY DEF DocumentInv, WellFormed
<1>5. /\ s \in Seq(Lines) /\ Padded(doc, s) /\ AllEnded(s)
      /\ \A i \in 1 .. Len(doc) : [s[i] EXCEPT !.nl = doc[i].nl] = doc[i]
  BY <1>1, <1>4, SeparatedIs
<1>6. c \in Seq(Lines) /\ OnlyLastOpen(c) /\ Chunk(c) /\ PublicKey(c) = p
  BY <1>3 DEF SafeChunk, Good
<1>7. /\ Inserts(s, Len(s), c, full) /\ \A i \in 1 .. Len(s) : full[i] = s[i]
  BY <1>3, <1>5, <1>6, AppendBlock
<1>8. full \in Seq(Lines)
  BY <1>3 DEF After, Managed, WellFormed
<1>9. ASSUME NEW i \in DOMAIN doc PROVE [full[i] EXCEPT !.nl = doc[i].nl] = doc[i]
  <2>1. i \in 1 .. Len(doc)
    BY <1>4
  <2>2. i \in 1 .. Len(s)
    BY <1>4, <1>5, <2>1 DEF Padded
  <2> QED BY <1>5, <1>7, <2>1, <2>2
<1>10. \E b \in FindPeer(full, p) : b.lines = c
  <2>1. PICK n : n = Len(s)
    OBVIOUS
  <2>2. PlacedBlocks(s, n, c, full)
    BY <1>5, <1>6, <1>7, <1>8, <2>1, InsertedHeaders
  <2>3. PICK h : h = n + 1
    OBVIOUS
  <2>4. h \in Headers(full) /\ BlockAt(full, h) = c /\ full[h] = c[1]
    BY <2>2, <2>3 DEF PlacedBlocks
  <2>5. h \in HeadersOf(full, p)
    BY <1>6, <2>4 DEF HeadersOf, PeerHeaders, Chunk
  <2>6. Block(full, h) \in FindPeer(full, p)
    BY <2>5, FindPeerIs
  <2>7. Block(full, h).lines = c
    BY <2>4 DEF Block
  <2> QED BY <2>6, <2>7
<1> QED BY <1>2, <1>9, <1>10

KeepsLines ==
  LET p == call'.peer
  IN  CASE call'.op = "patch" ->
             Without(doc', p, Mentioned(call'.want)) = Without(doc, p, Mentioned(call'.want))
        [] call'.op = "spoil" ->
             \A b \in FindPeer(doc, p) : SubSeq(doc', 1, b.first - 1) = SubSeq(doc, 1, b.first - 1)
        [] call'.op = "remove" ->
             \E n \in 0 .. Len(doc') :
                doc = SubSeq(doc', 1, n) \o archive'[p] \o SubSeq(doc', n + 1, Len(doc'))
        [] OTHER ->
             /\ \A i \in DOMAIN doc : [doc'[i] EXCEPT !.nl = doc[i].nl] = doc[i]
             /\ call'.op = "restore" => \E b \in FindPeer(doc', p) : b.lines = archive[p]

LEMMA AskedIs ==
  ASSUME NEW op, NEW p, NEW w
  PROVE  Asked(op, p, w).op = op /\ Asked(op, p, w).peer = p /\ Asked(op, p, w).want = w
BY DEF Asked

LEMMA KeepsLinesStep ==
  ASSUME DocumentInv, Next
  PROVE  KeepsLines
<1>1. ASSUME NEW p \in Peers, PatchPeer(p) PROVE KeepsLines
  <2>1. PICK w \in Patches : \E h \in HeadersOf(doc, p) : PatchedAt(p, w, h) \/ SpoiltAt(p, w, h)
    BY <1>1, PatchStep
  <2>2. PICK h \in HeadersOf(doc, p) : PatchedAt(p, w, h) \/ SpoiltAt(p, w, h)
    BY <2>1
  <2>3. CASE PatchedAt(p, w, h)
    <3>1. call' = Asked("patch", p, w)
      BY <2>3 DEF PatchedAt
    <3>2. call'.op = "patch" /\ call'.peer = p /\ call'.want = w
      BY <3>1, AskedIs
    <3>3. Without(doc', p, Mentioned(w)) = Without(doc, p, Mentioned(w))
      BY <2>3, PatchKeeps
    <3> QED BY <3>2, <3>3 DEF KeepsLines
  <2>4. CASE SpoiltAt(p, w, h)
    <3>1. call' = Asked("spoil", p, w) /\ Managed(doc) /\ SubSeq(doc', 1, h - 1) = SubSeq(doc, 1, h - 1)
      BY <2>4 DEF SpoiltAt, Spoilt
    <3>2. call'.op = "spoil" /\ call'.peer = p
      BY <3>1, AskedIs
    <3>3. \A b \in FindPeer(doc, p) : b.first = h
      BY <3>1, OneHeader DEF Block
    <3>4. \A b \in FindPeer(doc, p) : SubSeq(doc', 1, b.first - 1) = SubSeq(doc, 1, b.first - 1)
      BY <3>1, <3>3
    <3> QED BY <3>2, <3>4 DEF KeepsLines
  <2> QED BY <2>2, <2>3, <2>4
<1>2. ASSUME NEW p \in Peers, AddPeer(p) PROVE KeepsLines
  <2>1. PICK w \in NewPeers : call' = Asked("add", p, w) /\ Appends(p, NewBlock(p, w))
    BY <1>2, AddStep
  <2>2. call'.op = "add"
    BY <2>1, AskedIs
  <2>3. \A i \in DOMAIN doc : [doc'[i] EXCEPT !.nl = doc[i].nl] = doc[i]
    BY <2>1, AppendKeeps
  <2> QED BY <2>2, <2>3 DEF KeepsLines
<1>3. ASSUME NEW p \in Peers, RemovePeer(p) PROVE KeepsLines
  <2>1. PICK h \in HeadersOf(doc, p) : CutAt(p, h)
    BY <1>3, RemoveStep
  <2>2. PICK b : b = BlockAt(doc, h)
    OBVIOUS
  <2>3. /\ call' = Asked("remove", p, Keep) /\ archive' = [archive EXCEPT ![p] = b]
        /\ SafeChunk(b, p) /\ After(doc, doc', p, {}) /\ Inserts(doc', h - 1, b, doc)
    BY <2>1, <2>2 DEF CutAt
  <2>4. call'.op = "remove" /\ call'.peer = p
    BY <2>3, AskedIs
  <2>5. archive'[p] = b
    BY <2>3 DEF DocumentInv
  <2>6. doc' \in Seq(Lines) /\ doc \in Seq(Lines) /\ b \in Seq(Lines)
    BY <2>3 DEF DocumentInv, After, Managed, WellFormed, SafeChunk, Good
  <2>7. PICK n : n = h - 1
    OBVIOUS
  <2>8. n \in 0 .. Len(doc') /\ doc = SubSeq(doc', 1, n) \o b \o SubSeq(doc', n + 1, Len(doc'))
    BY <2>3, <2>6, <2>7, Removable
  <2> QED BY <2>4, <2>5, <2>8 DEF KeepsLines
<1>4. ASSUME NEW p \in Peers, RestorePeerBlock(p) PROVE KeepsLines
  <2>1. call' = Asked("restore", p, Keep) /\ Appends(p, archive[p])
    BY <1>4, RestoreStep
  <2>2. call'.op = "restore" /\ call'.peer = p
    BY <2>1, AskedIs
  <2>3. /\ \A i \in DOMAIN doc : [doc'[i] EXCEPT !.nl = doc[i].nl] = doc[i]
        /\ \E b \in FindPeer(doc', p) : b.lines = archive[p]
    BY <2>1, AppendKeeps
  <2> QED BY <2>2, <2>3 DEF KeepsLines
<1> QED BY <1>1, <1>2, <1>3, <1>4 DEF Next

\* PatchPeer rewrites no line but the assignments it was asked to, RemovePeer archives what it cuts out
\* line by line, AddPeer and RestorePeerBlock keep every line and put the block behind them; a patch that
\* Spoils keeps every line in front of its peer's block.
THEOREM OnlyTheSelectedLines ==
  Spec => LinesKept
<1>1. DocumentInv /\ [Next]_vars => [KeepsLines]_vars
  BY KeepsLinesStep
<1>2. Spec => [][KeepsLines]_vars
  BY <1>1, DocumentInvariant, PTL DEF Spec
<1> QED BY <1>2 DEF LinesKept, KeepsLines
=============================================================================
