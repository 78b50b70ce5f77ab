----------------------------- MODULE Transaction -----------------------------
(***************************************************************************)
(* What an operation promises: all of its parts or none, decided once.     *)
(* How its parts are changed, journalled, inspected and retried is no      *)
(* matter here.  OperationEngine is shown to implement this.               *)
(***************************************************************************)
CONSTANTS
  Parts,
  Fingerprints   \* what a part may show, "original" and "proposed" among them

VARIABLES
  outcome,       \* "open" or "undoing" until the operation has ended
  state,         \* what each part shows
  touched        \* the parts the operation has worked on

vars == <<outcome, state, touched>>

Init ==
  /\ outcome = "open"
  /\ state \in [Parts -> Fingerprints]
  /\ touched = {}

(* A part changes while the operation works on it, and at no other time. *)
Work ==
  /\ outcome \in {"open", "undoing"}
  /\ \E i \in Parts, f \in Fingerprints :
        /\ state' = [state EXCEPT ![i] = f]
        /\ touched' = touched \cup {i}
  /\ UNCHANGED outcome

(* There is no way back from here to a commit. *)
Turn == outcome = "open" /\ outcome' = "undoing" /\ UNCHANGED <<state, touched>>

Commit ==
  /\ outcome = "open" /\ outcome' = "committed"
  /\ \A i \in Parts : state[i] = "proposed"
  /\ UNCHANGED <<state, touched>>

RollBack ==
  /\ outcome = "undoing" /\ outcome' = "rolled_back"
  /\ \A i \in touched : state[i] = "original"
  /\ UNCHANGED <<state, touched>>

(* Somebody has to look at the host. *)
GiveUp == outcome = "undoing" /\ outcome' = "rollback_failed" /\ UNCHANGED <<state, touched>>

Refuse ==
  /\ outcome = "open" /\ outcome' = "refused"
  /\ touched = {}
  /\ UNCHANGED <<state, touched>>

Next == Work \/ Turn \/ Commit \/ RollBack \/ GiveUp \/ Refuse

Spec == Init /\ [][Next]_vars
=============================================================================
