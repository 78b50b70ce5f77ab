--------------------------- MODULE ConfigExchange ---------------------------
(***************************************************************************)
(* ExchangeConfig of src/src/internal/agent/adapters/filesystem/config.go, *)
(* step by step, beside an editor that replaces the file at any time and a *)
(* host that may fail any call or die.  PeerControl takes the whole call   *)
(* for one compare-and-swap; here is what it is made of.                   *)
(*                                                                         *)
(* A content is told apart by the last edit it contains and by which of    *)
(* two versions the agent has made of it: an operation proposes the other  *)
(* version, and a rollback proposes the first again.                       *)
(***************************************************************************)
EXTENDS Integers

CONSTANTS
  MaxEdits,     \* bound on the editor's changes
  MaxCalls,     \* bound on the calls of ExchangeConfig
  MaxFaults     \* bound on failing system calls and crashes

ASSUME BoundsAssumption == {MaxEdits, MaxCalls, MaxFaults} \subseteq Nat

VARIABLES
  conf,         \* the file at the configuration's path
  stage,        \* the file at the stage path
  kept,         \* stage files left behind as evidence
  pc,
  expected,     \* content whose hash the caller gave
  proposed,
  result,       \* what the last call returned
  keepStage,
  edits,        \* changes the editor has made, in all
  before,       \* and when the call began
  raced,        \* the last change made while the call had its own file in place
  calls, faults

exchangeVars == <<conf, stage, kept, pc, expected, proposed, result, keepStage, edits, before, raced,
          calls, faults>>

Contents == [edit : 0..MaxEdits, version : {0, 1}]
Partial == [edit |-> -1, version |-> 0]      \* a file that is not written to the end
NoFile == [edit |-> -2, version |-> 0]

Fault == faults < MaxFaults /\ faults' = faults + 1
Goto(l) == pc' = l
Return(r) == Goto("cleanup") /\ result' = r
Idle == pc = "idle"
\* From the exchange to the end of its checks, or the exchange back
InPlace == {"displaced", "verify", "sync", "undo_conflict", "undo_error"}

ExchangeInit ==
  /\ conf = [edit |-> 0, version |-> 0] /\ stage = NoFile /\ kept = {}
  /\ pc = "idle" /\ expected = conf /\ proposed = conf
  /\ result = "none" /\ keepStage = FALSE
  /\ edits = 0 /\ before = 0 /\ raced = 0 /\ calls = 0 /\ faults = 0

\* The caller has read the file some time ago.
Call ==
  /\ Idle /\ calls < MaxCalls /\ calls' = calls + 1
  /\ expected' = conf /\ proposed' = [conf EXCEPT !.version = 1 - @]
  /\ pc' = "read" /\ result' = "none" /\ keepStage' = FALSE /\ before' = edits
  /\ UNCHANGED <<conf, stage, kept, edits, raced, faults>>

Read ==
  /\ pc = "read"
  /\ \/ conf = expected /\ Goto("create") /\ UNCHANGED <<result, faults>>
     \/ conf # expected /\ Goto("idle") /\ result' = "conflict" /\ UNCHANGED faults
     \/ Fault /\ Goto("idle") /\ result' = "error"
  /\ UNCHANGED <<conf, stage, kept, expected, proposed, keepStage, edits, before, raced, calls>>

\* CreateTemp, Chmod, Chown
CreateStage ==
  /\ pc = "create"
  /\ \/ stage' = Partial /\ Goto("write") /\ UNCHANGED <<result, faults>>
     \/ Fault /\ Goto("idle") /\ result' = "error" /\ UNCHANGED stage
  /\ UNCHANGED <<conf, kept, expected, proposed, keepStage, edits, before, raced, calls>>

\* Write, Sync, Close
WriteStage ==
  /\ pc = "write"
  /\ \/ stage' = proposed /\ Goto("swap") /\ UNCHANGED <<result, faults>>
     \/ Fault /\ Return("error") /\ UNCHANGED stage
  /\ UNCHANGED <<conf, kept, expected, proposed, keepStage, edits, before, raced, calls>>

\* renameExchange: the two paths trade their files.
Swap ==
  /\ pc = "swap"
  /\ \/ conf' = stage /\ stage' = conf /\ Goto("displaced") /\ UNCHANGED <<result, faults>>
     \/ Fault /\ Return("error") /\ UNCHANGED <<conf, stage>>
  /\ UNCHANGED <<kept, expected, proposed, keepStage, edits, before, raced, calls>>

\* Mistake: what the exchange has displaced is not looked at.
CheckDisplacedNever ==
  /\ pc = "displaced" /\ Goto("verify")
  /\ UNCHANGED <<conf, stage, kept, expected, proposed, result, keepStage, edits, before, raced, calls,
                 faults>>

CheckDisplaced ==
  /\ pc = "displaced"
  /\ \/ stage = expected /\ Goto("verify") /\ UNCHANGED faults
     \/ stage # expected /\ Goto("undo_conflict") /\ UNCHANGED faults
     \/ Fault /\ Goto("undo_conflict")
  /\ UNCHANGED <<conf, stage, kept, expected, proposed, result, keepStage, edits, before, raced, calls>>

VerifyDestination ==
  /\ pc = "verify"
  /\ \/ conf = proposed /\ Goto("sync") /\ UNCHANGED faults
     \/ conf # proposed /\ Goto("undo_error") /\ UNCHANGED faults
     \/ Fault /\ Goto("undo_error")
  /\ UNCHANGED <<conf, stage, kept, expected, proposed, result, keepStage, edits, before, raced, calls>>

SyncDirectory ==
  /\ pc = "sync"
  /\ \/ Return("ok") /\ UNCHANGED faults
     \/ Fault /\ Goto("undo_error") /\ UNCHANGED result
  /\ UNCHANGED <<conf, stage, kept, expected, proposed, keepStage, edits, before, raced, calls>>

\* The second renameExchange; when it fails too, the stage file is evidence.
SwapBack ==
  /\ pc \in {"undo_conflict", "undo_error"}
  /\ Return(IF pc = "undo_conflict" THEN "conflict" ELSE "error")
  /\ \/ conf' = stage /\ stage' = conf /\ UNCHANGED <<keepStage, faults>>
     \/ Fault /\ keepStage' = TRUE /\ UNCHANGED <<conf, stage>>
  /\ UNCHANGED <<kept, expected, proposed, edits, before, raced, calls>>

\* Mistake: the stage file goes, whatever it is.
CleanupAlways ==
  /\ pc = "cleanup" /\ Goto("idle") /\ stage' = NoFile
  /\ UNCHANGED <<conf, kept, expected, proposed, result, keepStage, edits, before, raced, calls, faults>>

\* The deferred os.Remove, whose result is ignored
Cleanup ==
  /\ pc = "cleanup" /\ Goto("idle") /\ stage' = NoFile
  /\ kept' = IF keepStage THEN kept \cup {stage} ELSE kept
  /\ UNCHANGED <<conf, expected, proposed, result, keepStage, edits, before, raced, calls, faults>>

\* The agent dies in the middle; the stage file stays where it is.
Crash ==
  /\ ~Idle /\ Fault /\ Goto("idle") /\ result' = "none"
  /\ kept' = IF stage = NoFile THEN kept ELSE kept \cup {stage}
  /\ stage' = NoFile
  /\ UNCHANGED <<conf, expected, proposed, keepStage, edits, before, raced, calls>>

\* The editor writes a whole file, to the configuration's path.
Edit ==
  /\ edits < MaxEdits /\ edits' = edits + 1
  /\ conf' = [edit |-> edits + 1, version |-> 0]
  /\ raced' = IF pc \in InPlace THEN edits + 1 ELSE raced
  /\ UNCHANGED <<stage, kept, pc, expected, proposed, result, keepStage, before, calls, faults>>

ExchangeNext ==
  \/ Call \/ Read \/ CreateStage \/ WriteStage \/ Swap \/ CheckDisplaced \/ VerifyDestination
  \/ SyncDirectory \/ SwapBack \/ Cleanup \/ Crash \/ Edit

ExchangeSpec == ExchangeInit /\ [][ExchangeNext]_exchangeVars

-----------------------------------------------------------------------------
StageFiles == Contents \cup {Partial, NoFile}

\* The paths hold files, and the configuration's path always a whole one: at no
\* point, not even where the agent dies, does wg-quick find half a configuration.
ExchangeTypeOK ==
  /\ conf \in Contents /\ stage \in StageFiles /\ kept \subseteq StageFiles \ {NoFile}
  /\ pc \in {"idle", "read", "create", "write", "swap", "displaced", "verify", "sync",
             "undo_conflict", "undo_error", "cleanup"}
  /\ expected \in Contents /\ proposed \in Contents
  /\ result \in {"none", "ok", "conflict", "error"} /\ keepStage \in BOOLEAN
  /\ edits \in 0..MaxEdits /\ before \in 0..MaxEdits /\ raced \in 0..MaxEdits
  /\ calls \in 0..MaxCalls /\ faults \in 0..MaxFaults

\* A call that fails while nobody edits leaves the file it found; or, when it could
\* not swap back, keeps that file as evidence.
FailureKeepsOriginal ==
  Idle /\ result \in {"conflict", "error"} /\ edits = before =>
    conf = expected \/ (conf = proposed /\ expected \in kept)

\* Once the call is over the editor's last change is in the file, or in a file kept
\* as evidence: "The displaced file is hashed after exchange, closing the editor/CLI
\* race between the initial read and rename."  Left out is a change made while the
\* agent's file was in place: the exchange back takes that one for the agent's own
\* and the deferred removal deletes it, although "A mismatch is exchanged back when
\* safe."
EditKeptUnlessRaced ==
  Idle => conf.edit = edits \/ raced = edits \/ \E f \in kept : f.edit = edits

\* To its caller the call is one compare-and-swap.  Its effect is dated to the end of
\* the checks: until then the displaced file still counts as the configuration, and an
\* edit of the agent's file as late.
LateEdit == IF pc \in InPlace /\ conf # proposed THEN conf ELSE NoFile
Promise == INSTANCE CompareAndSwap WITH
  None <- NoFile,
  file <- IF pc \in InPlace THEN stage ELSE conf,
  late <- LateEdit,
  busy <- pc \notin {"idle", "cleanup"},
  seen <- expected,
  want <- proposed,
  answer <- result,
  evidence <- IF pc = "cleanup" /\ keepStage THEN kept \cup {stage} ELSE kept

\* Whatever fails and whoever edits, the system calls of ExchangeConfig add up to a
\* compare-and-swap: success means that the file was the one the caller had seen, no other
\* outcome loses it, and no file but the agent's own, edited too early, is ever lost.
IsCompareAndSwap == Promise!Spec
=============================================================================
