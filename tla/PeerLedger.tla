----------------------------- MODULE PeerLedger -----------------------------
(***************************************************************************)
(* What the database says of the peers of one interface: changes that      *)
(* apply one at a time, each to the very revision it was asked for and     *)
(* each as a whole.  Files, devices, requests, failures and recoveries are *)
(* no matter here.  PeerControl is shown to implement this.                *)
(***************************************************************************)
EXTENDS Naturals

CONSTANTS Peers, Specs, Ops

VARIABLES
  rows,      \* of every peer, its life, its configuration and the archived one
  recorded,  \* the configuration that the current revision has recorded
  rev,       \* the current revision
  asked,     \* what each operation is to do, and to which revision
  stage      \* how far each operation has come

vars == <<rows, recorded, rev, asked, stage>>

Requests(revs) ==
  [type : {"create", "update", "disable", "enable", "revoke"}, peer : Peers,
   spec : Specs \cup {0}, base : revs]

\* The configuration a revision has: that of the active peers.
InForce(r) == [p \in Peers |-> IF r[p].life = "active" THEN r[p].spec ELSE 0]

\* A peer is created once, and a revoked one does not come back.
Applicable(a) ==
  rows[a.peer].life = CASE a.type = "create" -> "none"
                        [] a.type = "enable" -> "disabled"
                        [] OTHER -> "active"

\* A peer that is taken off keeps its configuration in the archive.
Changed(r, a) ==
  CASE a.type = "create" -> [life |-> "active", spec |-> a.spec, archive |-> 0]
    [] a.type = "update" -> [r EXCEPT !.spec = a.spec]
    [] a.type = "enable" -> [r EXCEPT !.life = "active", !.archive = 0]
    [] a.type = "disable" -> [r EXCEPT !.life = "disabled", !.archive = r.spec]
    [] a.type = "revoke" -> [r EXCEPT !.life = "revoked", !.archive = r.spec]

Init ==
  /\ \A p \in Peers : rows[p].life \in {"none", "active"} /\ rows[p].archive = 0
  /\ recorded = InForce(rows) /\ rev = 0
  /\ asked \in [Ops -> Requests(Nat)]
  /\ stage = [o \in Ops |-> "none"]

Goes(o, from, to) == stage[o] \in from /\ stage' = [stage EXCEPT ![o] = to]

\* Only what has not begun makes room for another request.  The revision may be an old
\* one by now.
Ask(o) ==
  /\ stage[o] = "none"
  /\ \A q \in Ops : stage[q] \notin {"begun", "applied"}
  /\ stage' = [q \in Ops |-> IF q = o THEN "asked"
                             ELSE IF stage[q] = "asked" THEN "dropped"
                             ELSE stage[q]]
  /\ \E r \in Requests(0..rev) : asked' = [asked EXCEPT ![o] = r]
  /\ UNCHANGED <<rows, recorded, rev>>

Apply(o) ==
  /\ Goes(o, {"begun"}, "applied")
  /\ asked[o].base = rev /\ Applicable(asked[o])
  /\ rows' = [rows EXCEPT ![asked[o].peer] = Changed(@, asked[o])]
  /\ recorded' = InForce(rows')
  /\ rev' = rev + 1
  /\ UNCHANGED asked

\* All other steps change no row.  An applied operation may be disowned: its host is
\* restored, and its rows stay.
Pass(o) ==
  /\ \/ Goes(o, {"asked"}, "begun")
     \/ Goes(o, {"asked", "begun"}, "dropped")
     \/ Goes(o, {"applied"}, "audited")
     \/ Goes(o, {"applied"}, "disowned")
  /\ UNCHANGED <<rows, recorded, rev, asked>>

\* Every step takes an operation further.
Next == \E o \in Ops : stage'[o] # stage[o] /\ (Ask(o) \/ Apply(o) \/ Pass(o))

Spec == Init /\ [][Next]_vars
=============================================================================
