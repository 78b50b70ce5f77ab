---------------------------- MODULE ConfigMeaning ----------------------------
(***************************************************************************)
(* What a caller of the configuration document expects of it: a table from *)
(* public keys to the settings of a peer, and a second one for the peers   *)
(* whose block has been cut out and may be put back.  ConfigDocument, the  *)
(* lines of the file, is shown to implement it.                            *)
(***************************************************************************)
EXTENDS Naturals, Sequences

CONSTANTS
  Peers,    \* public keys
  Fields,   \* the settings of a peer a caller may change
  Values,   \* for every field, the values it may have
  Wants,    \* requests: for every field a list of values, or Keep
  Keep,     \* a field the caller does not mention
  Off,      \* the value of a field that says the same as no value
  Absent    \* a peer without settings

VARIABLES
  peers,    \* the settings in force
  archived, \* the settings of peers that have been taken out
  call      \* the last request

vars == <<peers, archived, call>>

(* What a list of values says. *)
Sense(list) == {list[i] : i \in DOMAIN list} \ {Off}

Settings == {s \in [Fields -> SUBSET UNION {Values[f] : f \in Fields}] :
               \A f \in Fields : s[f] \subseteq Values[f] \ {Off}}

Asked(op, p, want) == [op |-> op, peer |-> p, want |-> want]

Init ==
  /\ peers \in [Peers -> Settings \cup {Absent}]
  /\ archived = [p \in Peers |-> Absent]
  /\ call = Absent

(* The fields the request mentions get its values, the others stay. *)
Patch(p, w) ==
  /\ call' = Asked("patch", p, w)
  /\ peers[p] # Absent
  /\ peers' = [peers EXCEPT ![p] =
                 [f \in Fields |-> IF w[f] = Keep THEN @[f] ELSE Sense(w[f])]]
  /\ UNCHANGED archived

(* The file broke off inside the settings of p, and the patch was written behind the
   break: what is in force for p is anybody's guess, for the others it stays. *)
Spoil(p, w) ==
  /\ call' = Asked("spoil", p, w)
  /\ peers[p] # Absent
  /\ peers' = [peers EXCEPT ![p] = peers'[p]] /\ peers'[p] \in Settings \cup {Absent}
  /\ UNCHANGED archived

Add(p, w) ==
  /\ call' = Asked("add", p, w)
  /\ peers[p] = Absent
  /\ peers' = [peers EXCEPT ![p] = [f \in Fields |-> Sense(w[f])]]
  /\ UNCHANGED archived

Remove(p) ==
  /\ call' = Asked("remove", p, Keep)
  /\ peers[p] # Absent
  /\ peers' = [peers EXCEPT ![p] = Absent]
  /\ archived' = [archived EXCEPT ![p] = peers[p]]

Restore(p) ==
  /\ call' = Asked("restore", p, Keep)
  /\ peers[p] = Absent /\ archived[p] # Absent
  /\ peers' = [peers EXCEPT ![p] = archived[p]]
  /\ archived' = [archived EXCEPT ![p] = Absent]

Next ==
  \E p \in Peers :
     \/ \E w \in Wants : Patch(p, w)
     \/ \E w \in Wants : Spoil(p, w)
     \/ \E w \in Wants : Add(p, w)
     \/ Remove(p)
     \/ Restore(p)

Spec == Init /\ [][Next]_vars
=============================================================================
