--------------------------- MODULE CompareAndSwap ---------------------------
(***************************************************************************)
(* What a caller of ExchangeConfig may rely on, and all of it: the file is *)
(* replaced in one step, if it is still the one the caller has seen.  Two  *)
(* things qualify that.  A call that reports anything but success may have *)
(* replaced the file too, and then the old one is kept as evidence; and a  *)
(* change that somebody makes late, while a call is under way, takes       *)
(* effect together with the replacement or not at all.  ConfigExchange,    *)
(* the system calls, is shown to implement this.                           *)
(***************************************************************************)
EXTENDS Naturals

CONSTANTS
  Contents,
  None         \* no late change

VARIABLES
  file,
  late,        \* a change that came while the call was under way
  busy,        \* a call has been made and its outcome is open
  seen, want,  \* what the caller has seen, and what it asked for
  answer,
  evidence,    \* files kept beside the file
  edits        \* changes that somebody else has made

vars == <<file, late, busy, seen, want, answer, evidence, edits>>

Init ==
  /\ file \in Contents /\ late = None /\ busy = FALSE
  /\ seen \in Contents /\ want \in Contents
  /\ answer = "none" /\ evidence = {} /\ edits = 0

Ask ==
  /\ ~busy /\ busy' = TRUE
  /\ seen' = file /\ want' \in Contents /\ answer' = "none"
  /\ UNCHANGED <<file, late, evidence, edits>>

Edit ==
  /\ edits' = edits + 1
  /\ \/ file' \in Contents /\ UNCHANGED late
     \/ busy /\ late' \in Contents /\ UNCHANGED file
  /\ UNCHANGED <<busy, seen, want, answer, evidence>>

(* What the outcomes have in common; a late change is over with the call. *)
Settle(answers) ==
  /\ busy /\ busy' = FALSE /\ late' = None
  /\ answer' \in answers
  /\ UNCHANGED <<seen, want, edits>>

Replace == file' = IF late = None THEN want ELSE late

Succeed == Settle({"ok"}) /\ file = seen /\ Replace /\ UNCHANGED evidence

Refuse == Settle({"conflict", "error"}) /\ UNCHANGED <<file, evidence>>

(* The call fails, or dies, and the new file stays. *)
LeaveBehind ==
  /\ Settle({"conflict", "error", "none"}) /\ Replace
  /\ file \in evidence' /\ evidence \subseteq evidence'

(* The caller dies before anything was replaced, or before it took the answer. *)
Die ==
  /\ late = None /\ busy' = FALSE /\ answer' = "none"
  /\ evidence \subseteq evidence'
  /\ UNCHANGED <<file, late, seen, want, edits>>

Next == Ask \/ Edit \/ Succeed \/ Refuse \/ LeaveBehind \/ Die

Spec == Init /\ [][Next]_vars
=============================================================================
