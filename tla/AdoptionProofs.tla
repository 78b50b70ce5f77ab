--------------------------- MODULE AdoptionProofs ---------------------------
(***************************************************************************)
(* Proofs about Adoption, for any peers, files, devices, administrators    *)
(* and any number of operations, changes and faults.                       *)
(*                                                                         *)
(* What the database holds of adoptions is a function of the interface's   *)
(* mode: nothing while it is observed, and what one operation has imported *)
(* while it is adopted, all of it written down in that operation's ledger  *)
(* until the operation is committed.  A rollback therefore leads back to   *)
(* nothing, whichever of the two it finds.                                 *)
(***************************************************************************)
EXTENDS Adoption, WellFoundedInduction, TLAPS

-----------------------------------------------------------------------------
(* The invariant *)

\* An adoption previews the first revision: an interface is observed before it only.
FirstRevision ==
  /\ \A o \in Ops : ops[o].rev = 0
  /\ \A a \in Actors : draft[a] # NoDraft => draft[a].rev = 0

\* The staged secrets are those of the operation's file from the snapshot to the end,
\* and until the commit the envelopes are the staged ones.
SecretsOK ==
  \A o \in Ops :
    /\ staged[o] = IF ops[o].state \in UnderWay THEN ops[o].hash.psk ELSE {}
    /\ ops[o].state # "committed" => \A p \in Peers : <<o, p>> \in envelopes <=> p \in staged[o]

\* Nothing has been imported.
Nothing ==
  /\ \A p \in Peers : profile[p] = 0 /\ psk[p] = 0
  /\ \A n \in Nets : pool[n] = 0
  /\ allocs = {} /\ routed = {} /\ iface.rev = 0
  /\ \A o \in Ops : ledger[o] = NoLedger /\ ops[o].state \notin {"verifying", "committed"}

Adopters == {"verifying", "rolling_back", "rollback_failed", "committed"}

\* The ledger of an operation lists all that has been imported.
Listed(o) ==
  /\ ledger[o].profiles = {p \in Peers : profile[p] # 0}
  /\ ledger[o].pools = {n \in Nets : pool[n] # 0}
  /\ ledger[o].allocs = allocs /\ ledger[o].purposes = routed

\* Everything that has been imported is of operation o.
AdoptedBy(o) ==
  /\ iface.rev = 1 /\ ops[o].state \in Adopters
  /\ ops[o].state # "committed" => Listed(o)
  /\ \A q \in Ops \ {o} : ledger[q] = NoLedger /\ ops[q].state \notin {"verifying", "committed"}
  /\ \A p \in Peers : psk[p] = IF <<o, p>> \in envelopes THEN o ELSE 0
  /\ \A p \in ops[o].hash.psk : <<o, p>> \in envelopes

ImportsOK ==
  /\ iface.mode = "observed" => Nothing
  /\ iface.mode = "adopted" => iface.by \in Ops /\ AdoptedBy(iface.by)

Data == FirstRevision /\ SecretsOK /\ ImportsOK /\ AdoptedIsComplete

\* The recovery has every operation in progress before it or in hand, or has failed.
Recovery ==
  /\ mode \in {"down", "starting"} => \A o \in Ops : call[o].pc = "idle"
  /\ mode # "serving" => \A a \in Actors : draft[a] = NoDraft
  /\ mode = "recovering" =>
       /\ \A o \in Ops : call[o].pc # "idle" => call[o].boot
       /\ \A o \in todo : call[o].pc = "idle" /\ ops[o].state \in Active
       /\ \A o \in Ops : ops[o].state \in Active \ {"rollback_failed"} =>
             o \in todo \/ call[o].pc # "idle" \/ failed

\* Only an operation that has begun is undone.
Begun == {"snapshotted", "executing", "verifying"}
UndoesBegun == \A o \in Ops : call[o].pc = "undo" => call[o].from \in Begun

IInv == TypeOK /\ Data /\ Recovery /\ UndoesBegun

-----------------------------------------------------------------------------
(* The states of the database that a step may lead to *)

LEMMA StateSets ==
  /\ UnderWay = {"snapshotted", "executing", "verifying", "rolling_back", "rollback_failed"}
  /\ UnderWay \subseteq States /\ Active \subseteq States
  /\ {"none", "committed", "rolled_back", "rejected", "expired"} \subseteq States
BY DEF UnderWay, States, Active

\* Data depends on the database, the drafts and nothing else.
LEMMA DataKept ==
  ASSUME Data, UNCHANGED db, \A a \in Actors : draft'[a] # NoDraft => draft'[a].rev = 0
  PROVE  Data'
<1>1. UNCHANGED <<iface, ips, routed, profile, psk, pool, allocs, ledger, staged, envelopes, ops>>
  BY DEF db, rows, imports, secrets
<1>2. FirstRevision' /\ SecretsOK'
  BY <1>1 DEF Data, FirstRevision, SecretsOK
<1>3. ImportsOK'
  BY <1>1 DEF Data, ImportsOK, Nothing, AdoptedBy, Listed
<1>4. AdoptedIsComplete'
  BY <1>1, SMTT(30) DEF Data, AdoptedIsComplete, Known
<1> QED BY <1>2, <1>3, <1>4 DEF Data

\* An operation moves between states that say the same of its secrets and imports.
Moves(o, to) ==
  /\ ops[o].state # "committed" /\ to \notin {"verifying", "committed"}
  /\ ops[o].state \in UnderWay <=> to \in UnderWay
  /\ ops[o].state \in {"verifying", "rolling_back", "rollback_failed"}
       => to \in {"rolling_back", "rollback_failed"}

Moved(o, to) ==
  Moves(o, to) /\ SetState(o, to) /\ UNCHANGED <<iface, rows, imports, ledger, secrets>>

LEMMA OpsAfter ==
  ASSUME TypeOK, NEW o \in Ops, NEW to \in States, SetState(o, to)
  PROVE  /\ ops' \in [Ops -> OperationRows]
         /\ ops'[o].state = to /\ ops'[o].hash = ops[o].hash /\ ops'[o].rev = ops[o].rev
         /\ \A q \in Ops \ {o} : ops'[q] = ops[q]
BY DEF TypeOK, SetState, OperationRows

LEMMA MovedData ==
  ASSUME TypeOK, Data, NEW o \in Ops, NEW to \in States, Moved(o, to), UNCHANGED draft
  PROVE  Data'
<1>1. UNCHANGED <<iface, ips, routed, profile, psk, pool, allocs, ledger, staged, envelopes, draft>>
  BY DEF Moved, rows, imports, secrets
<1>2. /\ ops'[o].state = to /\ ops'[o].hash = ops[o].hash /\ ops'[o].rev = ops[o].rev
      /\ \A q \in Ops \ {o} : ops'[q] = ops[q]
  BY OpsAfter DEF Moved
<1>3. FirstRevision'
  BY <1>1, <1>2 DEF Data, FirstRevision
<1>4. SecretsOK'
  <2> SUFFICES ASSUME NEW q \in Ops
               PROVE  /\ staged'[q] = IF ops'[q].state \in UnderWay THEN ops'[q].hash.psk ELSE {}
                      /\ ops'[q].state # "committed" =>
                           \A p \in Peers : <<q, p>> \in envelopes' <=> p \in staged'[q]
    BY DEF SecretsOK
  <2>1. CASE q = o
    BY <1>1, <1>2, <2>1 DEF Data, SecretsOK, Moved, Moves
  <2>2. CASE q # o
    BY <1>1, <1>2, <2>2 DEF Data, SecretsOK
  <2> QED BY <2>1, <2>2
<1>5. iface'.mode = "observed" => Nothing'
  <2> SUFFICES ASSUME iface.mode = "observed" PROVE Nothing'
    BY <1>1
  <2>1. Nothing
    BY DEF Data, ImportsOK
  <2>2. \A q \in Ops : ops'[q].state \notin {"verifying", "committed"}
    BY <1>2, <2>1 DEF Nothing, Moved, Moves
  <2> QED BY <1>1, <2>1, <2>2 DEF Nothing
<1>6. ASSUME iface.mode = "adopted" PROVE iface'.by \in Ops /\ AdoptedBy(iface.by)' /\ AdoptedIsComplete'
  <2>1. PICK b \in Ops : b = iface.by
    BY <1>6 DEF Data, ImportsOK
  <2>2. AdoptedBy(b)
    BY <1>6, <2>1 DEF Data, ImportsOK
  <2>3. ops'[b].state \in Adopters /\ (ops'[b].state # "committed" => Listed(b)')
    BY <1>1, <1>2, <2>2 DEF AdoptedBy, Adopters, Moved, Moves, Listed
  <2>4. \A q \in Ops \ {b} : ledger'[q] = NoLedger /\ ops'[q].state \notin {"verifying", "committed"}
    BY <1>1, <1>2, <2>2 DEF AdoptedBy, Moved, Moves
  <2>5. ops'[b].hash = ops[b].hash
    BY <1>2
  <2>6. AdoptedBy(b)'
    BY <1>1, <2>2, <2>3, <2>4, <2>5 DEF AdoptedBy
  <2>7. AdoptedIsComplete'
    BY <1>1, <2>1, <2>5, SMTT(30) DEF Data, AdoptedIsComplete, Known
  <2> QED BY <1>1, <2>1, <2>6, <2>7
<1>7. iface.mode = "observed" => AdoptedIsComplete'
  BY <1>1 DEF AdoptedIsComplete
<1>8. iface.mode \in {"observed", "adopted"}
  BY DEF TypeOK, InterfaceRows
<1> QED BY <1>1, <1>3, <1>4, <1>5, <1>6, <1>7, <1>8 DEF Data, ImportsOK

LEMMA Numbers == /\ \A o \in Ops : o \in Nat /\ o # 0
                 /\ MaxOps \in Nat /\ MaxFaults \in Nat /\ MaxEdits \in Nat
BY BoundsAssumption DEF Ops

LEMMA FileTypes ==
  \A f \in Files : f.nets \subseteq Nets /\ f.ips \in PeerIPs /\ f.psk \subseteq Peers
BY FilesAssumption

\* SnapshotOperation
Snapshotted(o) ==
  /\ ops[o].state = "validated" /\ SetState(o, "snapshotted")
  /\ staged' = [staged EXCEPT ![o] = ops[o].hash.psk]
  /\ envelopes' = envelopes \cup {<<o, p>> : p \in ops[o].hash.psk}
  /\ UNCHANGED <<iface, rows, imports, ledger>>

LEMMA SnapshottedType ==
  ASSUME TypeOK, NEW o \in Ops, Snapshotted(o)
  PROVE  ops[o].hash.psk \subseteq Peers /\ staged' \in [Ops -> SUBSET Peers] /\ envelopes' \subseteq Ops \X Peers
<1>1. ops[o].hash.psk \subseteq Peers
  BY FileTypes DEF TypeOK, OperationRows
<1> QED BY <1>1 DEF TypeOK, Snapshotted

LEMMA SnapshottedData ==
  ASSUME TypeOK, Data, NEW o \in Ops, Snapshotted(o), UNCHANGED draft
  PROVE  Data'
<1>1. UNCHANGED <<iface, ips, routed, profile, psk, pool, allocs, ledger, draft>>
  BY DEF Snapshotted, rows, imports
<1>2. /\ ops'[o].state = "snapshotted" /\ ops'[o].hash = ops[o].hash /\ ops'[o].rev = ops[o].rev
      /\ \A q \in Ops \ {o} : ops'[q] = ops[q]
  BY OpsAfter, StateSets DEF Snapshotted
<1>3. FirstRevision'
  BY <1>1, <1>2 DEF Data, FirstRevision
<1>4. ops[o].hash.psk \subseteq Peers
  BY SnapshottedType
<1>5. \A q \in Ops \ {o} : staged'[q] = staged[q] /\ \A p \in Peers : <<q, p>> \in envelopes' <=> <<q, p>> \in envelopes
  BY DEF Snapshotted, TypeOK
<1>6. staged[o] = {} /\ \A p \in Peers : <<o, p>> \notin envelopes
  BY StateSets DEF Snapshotted, Data, SecretsOK
<1>7. staged'[o] = ops[o].hash.psk /\ \A p \in Peers : <<o, p>> \in envelopes' <=> p \in ops[o].hash.psk
  BY <1>6 DEF Snapshotted, TypeOK
<1>8. SecretsOK'
  <2> SUFFICES ASSUME NEW q \in Ops
               PROVE  /\ staged'[q] = IF ops'[q].state \in UnderWay THEN ops'[q].hash.psk ELSE {}
                      /\ ops'[q].state # "committed" =>
                           \A p \in Peers : <<q, p>> \in envelopes' <=> p \in staged'[q]
    BY DEF SecretsOK
  <2>1. CASE q = o
    BY <1>2, <1>7, <2>1, StateSets
  <2>2. CASE q # o
    BY <1>2, <1>5, <2>2 DEF Data, SecretsOK
  <2> QED BY <2>1, <2>2
<1>9. ASSUME iface.mode = "observed" PROVE Nothing'
  <2>1. Nothing
    BY <1>9 DEF Data, ImportsOK
  <2>2. \A q \in Ops : ops'[q].state \notin {"verifying", "committed"}
    BY <1>2, <2>1 DEF Nothing
  <2> QED BY <1>1, <2>1, <2>2 DEF Nothing
<1>10. ASSUME iface.mode = "adopted" PROVE iface'.by \in Ops /\ AdoptedBy(iface.by)' /\ AdoptedIsComplete'
  <2>1. PICK b \in Ops : b = iface.by
    BY <1>10 DEF Data, ImportsOK
  <2>2. AdoptedBy(b)
    BY <1>10, <2>1 DEF Data, ImportsOK
  <2>3. b # o
    BY <2>2 DEF AdoptedBy, Adopters, Snapshotted
  <2>4. ops'[b] = ops[b] /\ (Listed(b) => Listed(b)')
    BY <1>1, <1>2, <2>3 DEF Listed
  <2>5. \A q \in Ops \ {b} : ledger'[q] = NoLedger /\ ops'[q].state \notin {"verifying", "committed"}
    BY <1>1, <1>2, <2>2 DEF AdoptedBy
  <2>6. ops[b].hash.psk \subseteq Peers
    BY FileTypes DEF TypeOK, OperationRows
  <2>7. AdoptedBy(b)'
    BY <1>1, <1>5, <2>2, <2>3, <2>4, <2>5, <2>6 DEF AdoptedBy
  <2>8. AdoptedIsComplete'
    BY <1>1, <2>1, <2>4 DEF Data, AdoptedIsComplete, Known
  <2> QED BY <1>1, <2>1, <2>7, <2>8
<1>11. iface.mode = "observed" => AdoptedIsComplete'
  BY <1>1 DEF AdoptedIsComplete
<1>12. iface.mode \in {"observed", "adopted"}
  BY DEF TypeOK, InterfaceRows
<1> QED BY <1>1, <1>3, <1>8, <1>9, <1>10, <1>11, <1>12 DEF Data, ImportsOK

\* FinalizeAdoption
Finalized(o) ==
  /\ ops[o].state = "verifying" /\ SetState(o, "committed")
  /\ staged' = [staged EXCEPT ![o] = {}] /\ ledger' = [ledger EXCEPT ![o] = NoLedger]
  /\ UNCHANGED <<iface, rows, imports, envelopes>>

LEMMA NoLedgerType == NoLedger \in LedgerRows
BY DEF NoLedger, LedgerRows

LEMMA FinalizedData ==
  ASSUME TypeOK, Data, NEW o \in Ops, Finalized(o), UNCHANGED draft
  PROVE  Data'
<1>1. UNCHANGED <<iface, ips, routed, profile, psk, pool, allocs, envelopes, draft>>
  BY DEF Finalized, rows, imports
<1>2. /\ ops'[o].state = "committed" /\ ops'[o].hash = ops[o].hash /\ ops'[o].rev = ops[o].rev
      /\ \A q \in Ops \ {o} : ops'[q] = ops[q]
  BY OpsAfter, StateSets DEF Finalized
<1>3. FirstRevision'
  BY <1>1, <1>2 DEF Data, FirstRevision
<1>4. /\ staged'[o] = {} /\ \A q \in Ops \ {o} : staged'[q] = staged[q] /\ ledger'[q] = ledger[q]
  BY DEF Finalized, TypeOK
<1>5. SecretsOK'
  <2> SUFFICES ASSUME NEW q \in Ops
               PROVE  /\ staged'[q] = IF ops'[q].state \in UnderWay THEN ops'[q].hash.psk ELSE {}
                      /\ ops'[q].state # "committed" =>
                           \A p \in Peers : <<q, p>> \in envelopes' <=> p \in staged'[q]
    BY DEF SecretsOK
  <2>1. CASE q = o
    BY <1>2, <1>4, <2>1, StateSets
  <2>2. CASE q # o
    BY <1>1, <1>2, <1>4, <2>2 DEF Data, SecretsOK
  <2> QED BY <2>1, <2>2
<1>6. iface.mode = "adopted" /\ iface.by = o /\ AdoptedBy(o)
  <2>1. iface.mode \in {"observed", "adopted"}
    BY DEF TypeOK, InterfaceRows
  <2>2. iface.mode # "observed"
    BY DEF Data, ImportsOK, Nothing, Finalized
  <2> QED BY <2>1, <2>2 DEF Data, ImportsOK, AdoptedBy, Finalized
<1>7. AdoptedBy(o)'
  BY <1>1, <1>2, <1>4, <1>6 DEF AdoptedBy, Adopters
<1>8. AdoptedIsComplete'
  BY <1>1, <1>2, <1>6, SMTT(30) DEF Data, AdoptedIsComplete, Known
<1> QED BY <1>1, <1>3, <1>5, <1>6, <1>7, <1>8 DEF Data, ImportsOK

\* RollbackAdoption
RolledBack(o) ==
  /\ RollbackApplies(o) /\ RollbackImports(o) /\ RollbackSecrets(o) /\ iface' = RolledBackRow(o)
  /\ ledger' = [ledger EXCEPT ![o] = NoLedger]
  /\ SetState(o, "rolled_back") /\ UNCHANGED ips

LEMMA RolledBackData ==
  ASSUME TypeOK, Data, NEW o \in Ops, RolledBack(o), UNCHANGED draft
  PROVE  Data' /\ iface' \in InterfaceRows
<1>1. /\ ops'[o].state = "rolled_back" /\ ops'[o].hash = ops[o].hash /\ ops'[o].rev = ops[o].rev
      /\ \A q \in Ops \ {o} : ops'[q] = ops[q]
  BY OpsAfter, StateSets DEF RolledBack
<1>2. FirstRevision'
  BY <1>1 DEF Data, FirstRevision
<1>3. staged'[o] = {} /\ \A q \in Ops \ {o} : staged'[q] = staged[q]
  BY DEF RolledBack, RollbackSecrets, TypeOK
<1>4. ops[o].state = "rolling_back" /\ \A p \in Peers : <<o, p>> \in envelopes <=> p \in staged[o]
  BY DEF RolledBack, RollbackApplies, Data, SecretsOK
<1>5. /\ \A p \in Peers : <<o, p>> \notin envelopes'
      /\ \A q \in Ops \ {o}, p \in Peers : <<q, p>> \in envelopes' <=> <<q, p>> \in envelopes
  BY <1>4 DEF RolledBack, RollbackSecrets
<1>6. SecretsOK'
  <2> SUFFICES ASSUME NEW q \in Ops
               PROVE  /\ staged'[q] = IF ops'[q].state \in UnderWay THEN ops'[q].hash.psk ELSE {}
                      /\ ops'[q].state # "committed" =>
                           \A p \in Peers : <<q, p>> \in envelopes' <=> p \in staged'[q]
    BY DEF SecretsOK
  <2>1. CASE q = o
    BY <1>1, <1>3, <1>5, <2>1, StateSets
  <2>2. CASE q # o
    BY <1>1, <1>3, <1>5, <2>2 DEF Data, SecretsOK
  <2> QED BY <2>1, <2>2
<1>7. /\ iface' \in InterfaceRows /\ iface'.mode = "observed" /\ iface'.rev = 0
  <2>1. CASE iface.mode = "adopted"
    <3>1. iface' = [iface EXCEPT !.mode = "observed", !.rev = ops[o].rev, !.by = 0] /\ ops[o].rev = 0
      BY <2>1 DEF RolledBack, RolledBackRow, Data, FirstRevision
    <3> QED BY <3>1 DEF TypeOK, InterfaceRows
  <2>2. CASE iface.mode = "observed"
    BY <2>2 DEF RolledBack, RolledBackRow, Data, ImportsOK, Nothing, TypeOK
  <2> QED BY <2>1, <2>2 DEF TypeOK, InterfaceRows
<1>8. Nothing'
  <2>1. CASE iface.mode = "observed"
    <3>1. Nothing
      BY <2>1 DEF Data, ImportsOK
    <3>2. \A p \in Peers : profile'[p] = 0 /\ psk'[p] = 0
      BY <3>1 DEF RolledBack, RollbackImports, RollbackSecrets, Nothing
    <3>3. (\A n \in Nets : pool'[n] = 0) /\ allocs' = {} /\ routed' = {}
      BY <3>1 DEF RolledBack, RollbackImports, Nothing
    <3>4. \A q \in Ops : ledger'[q] = NoLedger /\ ops'[q].state \notin {"verifying", "committed"}
      BY <1>1, <3>1 DEF RolledBack, Nothing, TypeOK
    <3> QED BY <1>7, <3>2, <3>3, <3>4 DEF Nothing
  <2>2. CASE iface.mode = "adopted"
    <3>1. AdoptedBy(o)
      BY <2>2 DEF RolledBack, RollbackApplies, Data, ImportsOK
    <3>2. Listed(o)
      BY <1>4, <3>1 DEF AdoptedBy
    <3>3. \A p \in Peers : profile'[p] = 0
      BY <3>2 DEF Listed, RolledBack, RollbackImports
    <3>4. \A p \in Peers : psk'[p] = 0
      BY <1>4, <3>1 DEF AdoptedBy, RolledBack, RollbackSecrets
    <3>5. (\A n \in Nets : pool'[n] = 0) /\ allocs' = {} /\ routed' = {}
      BY <3>2 DEF Listed, RolledBack, RollbackImports
    <3>6. \A q \in Ops : ledger'[q] = NoLedger /\ ops'[q].state \notin {"verifying", "committed"}
      BY <1>1, <3>1 DEF RolledBack, AdoptedBy, TypeOK
    <3> QED BY <1>7, <3>3, <3>4, <3>5, <3>6 DEF Nothing
  <2> QED BY <2>1, <2>2 DEF TypeOK, InterfaceRows
<1>9. AdoptedIsComplete'
  BY <1>7 DEF AdoptedIsComplete
<1> QED BY <1>2, <1>6, <1>7, <1>8, <1>9 DEF Data, ImportsOK

\* ApplyAdoption
Applied(o) ==
  /\ Applies(o)
  /\ iface' = [iface EXCEPT !.mode = "adopted", !.rev = @ + 1, !.by = o]
  /\ ImportAdoptionMetadata(o) /\ AttachStagedSecrets(o)
  /\ SetState(o, "verifying") /\ UNCHANGED <<ips, secrets>>

\* What lies in a pool is allocated to its peer, what lies in none is routed.
LEMMA ImportIsComplete ==
  ASSUME TypeOK, Nothing, Importable, NEW o \in Ops, ImportAdoptionMetadata(o), UNCHANGED ips,
         NEW p \in Known, NEW x \in ips[p]
  PROVE  LET here == {n \in Nets : pool'[n] # 0 /\ x \in Contains[n]}
         IN /\ (<<p, x>> \in routed') = (here = {})
            /\ \A n \in here : {a.peer : a \in {b \in allocs' : b.net = n /\ b.addr = x}} = {p}
<1> DEFINE here == {n \in Nets : pool'[n] # 0 /\ x \in Contains[n]}
<1>1. p \in Peers /\ x \in Prefixes /\ iface.nets \subseteq Nets
  BY DEF Known, TypeOK, PeerIPs, InterfaceRows
<1>2. here = Around(x)
  <2>1. \A n \in Nets : pool'[n] # 0 <=> n \in iface.nets
    BY Numbers DEF ImportAdoptionMetadata, Nothing
  <2> QED BY <1>1, <2>1 DEF Around
<1>3. (<<p, x>> \in routed') = (here = {})
  <2>1. routed' = Purposes /\ routed = {}
    BY DEF ImportAdoptionMetadata, Nothing
  <2>2. <<p, x>> \in Purposes <=> Around(x) = {}
    BY <1>1, <2>1 DEF Purposes
  <2> QED BY <1>2, <2>1, <2>2
<1>4. ASSUME NEW n \in here PROVE {a.peer : a \in {b \in allocs' : b.net = n /\ b.addr = x}} = {p}
  <2>1. allocs' = Allocations(o)
    BY DEF ImportAdoptionMetadata, Nothing
  <2>2. n \in Nets /\ n \in Around(x)
    BY <1>2
  <2> DEFINE A == [net : Nets, addr : Prefixes, peer : Peers, by : {o}]
             mine == [net |-> n, addr |-> x, peer |-> p, by |-> o]
  <2>3. mine \in A /\ mine.net = n /\ mine.addr = x /\ mine.peer = p
    BY <1>1, <2>2
  <2>4. \A a \in A : a \in Allocations(o) <=> a.addr \in ips[a.peer] /\ a.net \in Around(a.addr)
    BY DEF Allocations
  <2>5. mine \in Allocations(o)
    <3> HIDE DEF mine, A
    <3> QED BY <2>2, <2>3, <2>4
  <2>6. ASSUME NEW a \in Allocations(o), a.net = n, a.addr = x PROVE a.peer = p
    <3>1. a \in A /\ a.peer \in Peers
      BY DEF Allocations
    <3>2. x \in ips[a.peer]
      BY <2>4, <2>6, <3>1
    <3>3. a.peer \in Known
      BY <3>1, <3>2 DEF Known
    <3>4. \A q \in Known \ {p} : x \notin ips[q]
      BY <1>1, <2>2 DEF Importable
    <3> QED BY <3>2, <3>3, <3>4
  <2> HIDE DEF mine, A
  <2> QED BY <2>1, <2>3, <2>5, <2>6
<1> QED BY <1>3, <1>4

LEMMA AppliedData ==
  ASSUME TypeOK, Data, NEW o \in Ops, Applied(o), UNCHANGED draft
  PROVE  Data' /\ iface' \in InterfaceRows
<1>1. UNCHANGED <<ips, staged, envelopes, draft>>
  BY DEF Applied, secrets
<1>2. /\ ops'[o].state = "verifying" /\ ops'[o].hash = ops[o].hash /\ ops'[o].rev = ops[o].rev
      /\ \A q \in Ops \ {o} : ops'[q] = ops[q]
  BY OpsAfter, StateSets DEF Applied
<1>3. FirstRevision'
  BY <1>1, <1>2 DEF Data, FirstRevision
<1>4. ops[o].state = "executing" /\ Nothing /\ Importable
  BY DEF Applied, Applies, Data, ImportsOK
<1>5. SecretsOK'
  <2> SUFFICES ASSUME NEW q \in Ops
               PROVE  /\ staged'[q] = IF ops'[q].state \in UnderWay THEN ops'[q].hash.psk ELSE {}
                      /\ ops'[q].state # "committed" =>
                           \A p \in Peers : <<q, p>> \in envelopes' <=> p \in staged'[q]
    BY DEF SecretsOK
  <2>1. CASE q = o
    BY <1>1, <1>2, <1>4, <2>1, StateSets DEF Data, SecretsOK
  <2>2. CASE q # o
    BY <1>1, <1>2, <2>2 DEF Data, SecretsOK
  <2> QED BY <2>1, <2>2
<1>6. /\ iface' \in InterfaceRows /\ iface'.mode = "adopted" /\ iface'.rev = 1 /\ iface'.by = o
  <2>1. iface.rev = 0 /\ iface.rev + 1 = 1
    BY <1>4 DEF Nothing
  <2> QED BY <2>1 DEF Applied, TypeOK, InterfaceRows
<1>7. staged[o] = ops[o].hash.psk /\ \A p \in Peers : <<o, p>> \in envelopes <=> p \in staged[o]
  BY <1>4, StateSets DEF Data, SecretsOK
<1>8. ops[o].hash.psk \subseteq Peers
  BY FileTypes DEF TypeOK, OperationRows
<1>9. Listed(o)'
  <2>1. ledger'[o] = [profiles |-> {p \in Known : profile[p] = 0}, pools |-> iface.nets,
                      allocs |-> Allocations(o), purposes |-> Purposes]
    BY DEF Applied, ImportAdoptionMetadata, TypeOK
  <2>2. {p \in Known : profile[p] = 0} = {p \in Peers : profile'[p] # 0}
    BY <1>4, Numbers DEF Applied, ImportAdoptionMetadata, Nothing, Known
  <2>3. iface.nets = {n \in Nets : pool'[n] # 0}
    <3>1. iface.nets \subseteq Nets
      BY DEF TypeOK, InterfaceRows
    <3> QED BY <1>4, <3>1, Numbers DEF Applied, ImportAdoptionMetadata, Nothing
  <2>4. allocs' = Allocations(o) /\ routed' = Purposes
    BY <1>4 DEF Applied, ImportAdoptionMetadata, Nothing
  <2> QED BY <2>1, <2>2, <2>3, <2>4 DEF Listed
<1>10. AdoptedBy(o)'
  <2>1. \A q \in Ops \ {o} : ledger'[q] = NoLedger /\ ops'[q].state \notin {"verifying", "committed"}
    BY <1>2, <1>4 DEF Applied, ImportAdoptionMetadata, Nothing, TypeOK
  <2>2. \A p \in Peers : psk'[p] = IF <<o, p>> \in envelopes' THEN o ELSE 0
    BY <1>1, <1>4, <1>7 DEF Applied, AttachStagedSecrets, Nothing
  <2>3. \A p \in ops'[o].hash.psk : <<o, p>> \in envelopes'
    BY <1>1, <1>2, <1>7, <1>8
  <2> QED BY <1>2, <1>6, <1>9, <2>1, <2>2, <2>3 DEF AdoptedBy, Adopters
<1>11. AdoptedIsComplete'
  <2>1. Known' = Known
    BY <1>1 DEF Known
  <2>2. \A p \in Known : profile'[p] # 0
    BY <1>4, Numbers DEF Applied, ImportAdoptionMetadata, Nothing, Known
  <2>3. \A p \in Known : \A x \in ips[p] :
          LET here == {n \in Nets : pool'[n] # 0 /\ x \in Contains[n]}
          IN /\ (<<p, x>> \in routed') = (here = {})
             /\ \A n \in here : {a.peer : a \in {b \in allocs' : b.net = n /\ b.addr = x}} = {p}
    BY <1>1, <1>4, ImportIsComplete DEF Applied
  <2>4. \A p \in ops'[iface'.by].hash.psk : psk'[p] = iface'.by
    BY <1>2, <1>6, <1>7, <1>8 DEF Applied, AttachStagedSecrets
  <2> QED BY <1>1, <2>1, <2>2, <2>3, <2>4, Zenon DEF AdoptedIsComplete
<1> QED BY <1>3, <1>5, <1>6, <1>10, <1>11 DEF Data, ImportsOK

\* The types of the rows after each
LEMMA AppliedType ==
  ASSUME TypeOK, NEW o \in Ops, Applied(o)
  PROVE  /\ routed' \subseteq Peers \X Prefixes /\ ledger' \in [Ops -> LedgerRows]
         /\ profile' \in [Peers -> Ops \cup {0}] /\ psk' \in [Peers -> Ops \cup {0}]
         /\ pool' \in [Nets -> Ops \cup {0}] /\ allocs' \subseteq AllAllocs
<1>1. Purposes \subseteq Peers \X Prefixes
  BY DEF Purposes
<1>2. Allocations(o) \subseteq AllAllocs
  BY DEF Allocations, AllAllocs
<1>3. iface.nets \subseteq Nets
  BY DEF TypeOK, InterfaceRows
<1>4. [profiles |-> {p \in Known : profile[p] = 0}, pools |-> iface.nets, allocs |-> Allocations(o),
       purposes |-> Purposes] \in LedgerRows
  BY <1>1, <1>2, <1>3 DEF Known, LedgerRows
<1>5. ledger' \in [Ops -> LedgerRows]
  BY <1>4 DEF TypeOK, Applied, ImportAdoptionMetadata
<1>6. routed' \subseteq Peers \X Prefixes /\ allocs' \subseteq AllAllocs
  BY <1>1, <1>2 DEF TypeOK, Applied, ImportAdoptionMetadata
<1>7. profile' \in [Peers -> Ops \cup {0}] /\ pool' \in [Nets -> Ops \cup {0}]
  BY DEF TypeOK, Applied, ImportAdoptionMetadata
<1>8. psk' \in [Peers -> Ops \cup {0}]
  BY DEF TypeOK, Applied, AttachStagedSecrets
<1> QED BY <1>5, <1>6, <1>7, <1>8

LEMMA RolledBackType ==
  ASSUME TypeOK, NEW o \in Ops, RolledBack(o)
  PROVE  /\ routed' \subseteq Peers \X Prefixes /\ ledger' \in [Ops -> LedgerRows]
         /\ profile' \in [Peers -> Ops \cup {0}] /\ psk' \in [Peers -> Ops \cup {0}]
         /\ pool' \in [Nets -> Ops \cup {0}] /\ allocs' \subseteq AllAllocs
         /\ staged' \in [Ops -> SUBSET Peers] /\ envelopes' \subseteq Ops \X Peers
<1>1. ledger' \in [Ops -> LedgerRows] /\ staged' \in [Ops -> SUBSET Peers]
  BY NoLedgerType DEF TypeOK, RolledBack, RollbackSecrets
<1>2. routed' \subseteq Peers \X Prefixes /\ allocs' \subseteq AllAllocs /\ envelopes' \subseteq Ops \X Peers
  BY DEF TypeOK, RolledBack, RollbackImports, RollbackSecrets
<1>3. /\ profile' \in [Peers -> Ops \cup {0}] /\ psk' \in [Peers -> Ops \cup {0}]
      /\ pool' \in [Nets -> Ops \cup {0}]
  BY DEF TypeOK, RolledBack, RollbackImports, RollbackSecrets
<1> QED BY <1>1, <1>2, <1>3

DbTypes ==
  /\ iface \in InterfaceRows /\ ips \in PeerIPs /\ routed \subseteq Peers \X Prefixes
  /\ profile \in [Peers -> Ops \cup {0}] /\ psk \in [Peers -> Ops \cup {0}]
  /\ pool \in [Nets -> Ops \cup {0}] /\ allocs \subseteq AllAllocs
  /\ ledger \in [Ops -> LedgerRows]
  /\ staged \in [Ops -> SUBSET Peers] /\ envelopes \subseteq Ops \X Peers
  /\ ops \in [Ops -> OperationRows]

\* What a call on operation o does to the database
DbStep(o) ==
  \/ UNCHANGED db \/ \E to \in States : Moved(o, to)
  \/ Snapshotted(o) \/ Applied(o) \/ Finalized(o) \/ RolledBack(o)

LEMMA DbStepOK ==
  ASSUME TypeOK, Data, NEW o \in Ops, DbStep(o), UNCHANGED draft
  PROVE  Data' /\ DbTypes' /\ \A q \in Ops \ {o} : ops'[q] = ops[q]
<1>1. CASE UNCHANGED db
  <2>1. Data'
    BY <1>1, DataKept DEF Data, FirstRevision
  <2> QED BY <1>1, <2>1 DEF TypeOK, DbTypes, db, rows, imports, secrets
<1>2. CASE \E to \in States : Moved(o, to)
  <2>1. PICK to \in States : Moved(o, to)
    BY <1>2
  <2>2. Data'
    BY <2>1, MovedData
  <2>3. ops' \in [Ops -> OperationRows] /\ \A q \in Ops \ {o} : ops'[q] = ops[q]
    BY <2>1, OpsAfter DEF Moved
  <2> QED BY <2>1, <2>2, <2>3 DEF Moved, TypeOK, DbTypes, rows, imports, secrets
<1>3. CASE Snapshotted(o)
  <2>1. ops' \in [Ops -> OperationRows] /\ \A q \in Ops \ {o} : ops'[q] = ops[q]
    BY <1>3, OpsAfter, StateSets DEF Snapshotted
  <2>2. Data' /\ staged' \in [Ops -> SUBSET Peers] /\ envelopes' \subseteq Ops \X Peers
    BY <1>3, SnapshottedData, SnapshottedType
  <2> QED BY <1>3, <2>1, <2>2 DEF Snapshotted, TypeOK, DbTypes, rows, imports
<1>4. CASE Applied(o)
  <2>1. ops' \in [Ops -> OperationRows] /\ \A q \in Ops \ {o} : ops'[q] = ops[q]
    BY <1>4, OpsAfter, StateSets DEF Applied
  <2> QED BY <1>4, <2>1, AppliedData, AppliedType DEF Applied, TypeOK, DbTypes, secrets
<1>5. CASE Finalized(o)
  <2>1. ops' \in [Ops -> OperationRows] /\ \A q \in Ops \ {o} : ops'[q] = ops[q]
    BY <1>5, OpsAfter, StateSets DEF Finalized
  <2>2. staged' \in [Ops -> SUBSET Peers] /\ ledger' \in [Ops -> LedgerRows]
    BY <1>5, NoLedgerType DEF Finalized, TypeOK
  <2> QED BY <1>5, <2>1, <2>2, FinalizedData DEF Finalized, TypeOK, DbTypes, rows, imports
<1>6. CASE RolledBack(o)
  <2>1. ops' \in [Ops -> OperationRows] /\ \A q \in Ops \ {o} : ops'[q] = ops[q]
    BY <1>6, OpsAfter, StateSets DEF RolledBack
  <2> QED BY <1>6, <2>1, RolledBackData, RolledBackType DEF RolledBack, TypeOK, DbTypes
<1> QED BY <1>1, <1>2, <1>3, <1>4, <1>5, <1>6 DEF DbStep

-----------------------------------------------------------------------------
(* The calls: commit, rollback and recovery of one operation *)

\* A call goes on, or returns: in a recovery with an error, or when its operation
\* has ended.
Called(o) ==
  \E c \in Calls :
    /\ call' = [call EXCEPT ![o] = c] /\ (c.pc = "undo" => c.from \in Begun)
    /\ \/ c.pc # "idle" /\ c.boot = call[o].boot /\ failed' = failed
       \/ /\ c.pc = "idle" /\ failed' \in BOOLEAN /\ (failed => failed')
          /\ call[o].boot => failed' \/ ops'[o].state \notin Active

Stepped(o) ==
  /\ DbStep(o) /\ Called(o) /\ Frame /\ faults' \in 0..MaxFaults /\ call[o].pc # "idle"

LEMMA GotoCalled ==
  ASSUME TypeOK, NEW o \in Ops, NEW l \in PCs \ {"idle", "undo"}, Goto(o, l)
  PROVE  Called(o)
<1> DEFINE c == [call[o] EXCEPT !.pc = l]
<1>1. call[o] \in Calls /\ call' = [call EXCEPT ![o] = c] /\ failed' = failed
  BY DEF TypeOK, Goto
<1>2. c \in Calls
  BY <1>1, Zenon DEF Calls
<1>3. c.pc = l /\ c.boot = call[o].boot
  BY <1>1 DEF Calls
<1> HIDE DEF c
<1> QED BY <1>1, <1>2, <1>3 DEF Called

LEMMA UndoCalled ==
  ASSUME TypeOK, NEW o \in Ops, NEW from \in Begun,
         call' = [call EXCEPT ![o].pc = "undo", ![o].from = from], UNCHANGED failed
  PROVE  Called(o)
<1> DEFINE c == [call[o] EXCEPT !.pc = "undo", !.from = from]
<1>1. call[o] \in Calls /\ call' = [call EXCEPT ![o] = c] /\ failed' = failed
  BY DEF TypeOK
<1>2. from \in States /\ "undo" \in PCs
  BY DEF Begun, States, Active, PCs
<1>3. c \in Calls
  BY <1>1, <1>2, Zenon DEF Calls
<1>4. c.pc = "undo" /\ c.from = from /\ c.boot = call[o].boot
  BY <1>1 DEF Calls
<1> HIDE DEF c
<1> QED BY <1>1, <1>3, <1>4 DEF Called

LEMMA IdleType == Idle \in Calls /\ Idle.pc = "idle"
<1>1. "idle" \in PCs /\ "none" \in States /\ FALSE \in BOOLEAN
  BY DEF PCs, States
<1>2. Idle \in Calls
  BY <1>1, Zenon DEF Idle, Calls
<1> QED BY <1>2 DEF Idle

LEMMA ReturnCalled ==
  ASSUME TypeOK, NEW o \in Ops, NEW err \in BOOLEAN, Return(o, err),
         err \/ ops'[o].state \notin Active
  PROVE  Called(o)
<1>1. call' = [call EXCEPT ![o] = Idle] /\ failed' = (failed \/ (call[o].boot /\ err))
  BY DEF Return
<1>2. failed \in BOOLEAN /\ call[o].boot \in BOOLEAN
  BY DEF TypeOK, Calls
<1>3. failed' \in BOOLEAN /\ (failed => failed') /\ (call[o].boot => failed' \/ ops'[o].state \notin Active)
  BY <1>1, <1>2, Zenon
<1> QED BY <1>1, <1>3, IdleType, Zenon DEF Called

LEMMA FaultRange ==
  ASSUME TypeOK, NEW o \in Ops, Works(o) \/ Breaks(o) \/ Fault \/ UNCHANGED faults
  PROVE  faults' \in 0..MaxFaults
BY Numbers DEF TypeOK, Works, Breaks, Fault

LEMMA Moving ==
  ASSUME TypeOK, NEW o \in Ops, NEW from, NEW to, ops[o].state = from, SetState(o, to),
         UNCHANGED <<iface, rows, imports, ledger, secrets>>,
         \/ from = "pending" /\ to \in {"validated", "expired"}
         \/ from = "validated" /\ to = "rejected"
         \/ from = "snapshotted" /\ to = "executing"
         \/ from \in Begun /\ to = "rolling_back"
         \/ from = "rolling_back" /\ to = "rollback_failed"
  PROVE  DbStep(o) /\ ops'[o].state = to
<1>1. to \in States /\ Moves(o, to)
  BY DEF Moves, States, Active, UnderWay, Begun
<1> QED BY <1>1, OpsAfter DEF DbStep, Moved

LEMMA ValidateStep == ASSUME IInv, NEW o \in Ops, Validate(o) PROVE Stepped(o)
<1> DEFINE eff == /\ ops[o].state = "pending" /\ SetState(o, "validated")
                  /\ UNCHANGED <<iface, rows, imports, ledger, secrets>>
<1>1. /\ TypeOK /\ Frame /\ call[o].pc # "idle"
      /\ Works(o) \/ Breaks(o) \/ Fault
      /\ \/ eff /\ Goto(o, "prepare")
         \/ eff /\ Return(o, TRUE)
         \/ UNCHANGED db /\ Return(o, TRUE)
  BY DEF IInv, Validate, TransitionOperation, Write
<1>2. faults' \in 0..MaxFaults
  BY <1>1, FaultRange
<1>3. eff => DbStep(o) /\ ops'[o].state = "validated"
  BY <1>1, Moving DEF eff
<1>4. UNCHANGED db => DbStep(o)
  BY DEF DbStep
<1> HIDE DEF eff
<1>5. Return(o, TRUE) => Called(o)
  BY <1>1, ReturnCalled
<1>6. eff /\ Goto(o, "prepare") => Called(o)
  BY <1>1, <1>3, GotoCalled DEF PCs, Active
<1> QED BY <1>1, <1>2, <1>3, <1>4, <1>5, <1>6 DEF Stepped

LEMMA RejectStep == ASSUME IInv, NEW o \in Ops, Reject(o) PROVE Stepped(o)
<1> DEFINE eff == /\ ops[o].state = "validated" /\ SetState(o, "rejected")
                  /\ UNCHANGED <<iface, rows, imports, ledger, secrets>>
<1>1. /\ TypeOK /\ Frame /\ call[o].pc # "idle"
      /\ Works(o) \/ Breaks(o) \/ Fault
      /\ \/ eff /\ Return(o, FALSE)
         \/ eff /\ Return(o, TRUE)
         \/ UNCHANGED db /\ Return(o, TRUE)
  BY DEF IInv, Reject, TransitionOperation, Write
<1>2. faults' \in 0..MaxFaults
  BY <1>1, FaultRange
<1>3. eff => DbStep(o) /\ ops'[o].state = "rejected"
  BY <1>1, Moving DEF eff
<1>4. UNCHANGED db => DbStep(o)
  BY DEF DbStep
<1> HIDE DEF eff
<1>5. Return(o, TRUE) => Called(o)
  BY <1>1, ReturnCalled
<1>6. eff /\ Return(o, FALSE) => Called(o)
  BY <1>1, <1>3, ReturnCalled DEF PCs, Active
<1> QED BY <1>1, <1>2, <1>3, <1>4, <1>5, <1>6 DEF Stepped

LEMMA BeginStep == ASSUME IInv, NEW o \in Ops, Begin(o) PROVE Stepped(o)
<1> DEFINE eff == /\ ops[o].state = "snapshotted" /\ SetState(o, "executing")
                  /\ UNCHANGED <<iface, rows, imports, ledger, secrets>>
<1>1. /\ TypeOK /\ Frame /\ call[o].pc # "idle"
      /\ Works(o) \/ Breaks(o) \/ Fault
      /\ \/ eff /\ Goto(o, "apply")
         \/ eff /\ Return(o, TRUE)
         \/ UNCHANGED db /\ Return(o, TRUE)
  BY DEF IInv, Begin, TransitionOperation, Write
<1>2. faults' \in 0..MaxFaults
  BY <1>1, FaultRange
<1>3. eff => DbStep(o) /\ ops'[o].state = "executing"
  BY <1>1, Moving DEF eff
<1>4. UNCHANGED db => DbStep(o)
  BY DEF DbStep
<1> HIDE DEF eff
<1>5. Return(o, TRUE) => Called(o)
  BY <1>1, ReturnCalled
<1>6. eff /\ Goto(o, "apply") => Called(o)
  BY <1>1, <1>3, GotoCalled DEF PCs, Active
<1> QED BY <1>1, <1>2, <1>3, <1>4, <1>5, <1>6 DEF Stepped

LEMMA UndoStep == ASSUME IInv, NEW o \in Ops, Undo(o) PROVE Stepped(o)
<1>0. call[o].from \in Begun
  BY DEF Undo, IInv, UndoesBegun
<1> DEFINE eff == /\ ops[o].state = call[o].from /\ SetState(o, "rolling_back")
                  /\ UNCHANGED <<iface, rows, imports, ledger, secrets>>
<1>1. /\ TypeOK /\ Frame /\ call[o].pc # "idle"
      /\ Works(o) \/ Breaks(o) \/ Fault
      /\ \/ eff /\ Goto(o, "rollback")
         \/ eff /\ Return(o, TRUE)
         \/ UNCHANGED db /\ Return(o, TRUE)
  BY DEF IInv, Undo, TransitionOperation, Write
<1>2. faults' \in 0..MaxFaults
  BY <1>1, FaultRange
<1>3. eff => DbStep(o) /\ ops'[o].state = "rolling_back"
  BY <1>0, <1>1, Moving DEF eff
<1>4. UNCHANGED db => DbStep(o)
  BY DEF DbStep
<1> HIDE DEF eff
<1>5. Return(o, TRUE) => Called(o)
  BY <1>1, ReturnCalled
<1>6. eff /\ Goto(o, "rollback") => Called(o)
  BY <1>1, <1>3, GotoCalled DEF PCs, Active
<1> QED BY <1>1, <1>2, <1>3, <1>4, <1>5, <1>6 DEF Stepped

LEMMA BlockStep == ASSUME IInv, NEW o \in Ops, Block(o) PROVE Stepped(o)
<1> DEFINE eff == /\ ops[o].state = "rolling_back" /\ SetState(o, "rollback_failed")
                  /\ UNCHANGED <<iface, rows, imports, ledger, secrets>>
<1>1. /\ TypeOK /\ Frame /\ call[o].pc # "idle"
      /\ Works(o) \/ Breaks(o) \/ Fault
      /\ \/ eff /\ Return(o, TRUE)
         \/ eff /\ Return(o, TRUE)
         \/ UNCHANGED db /\ Return(o, TRUE)
  BY DEF IInv, Block, TransitionOperation, Write
<1>2. faults' \in 0..MaxFaults
  BY <1>1, FaultRange
<1>3. eff => DbStep(o) /\ ops'[o].state = "rollback_failed"
  BY <1>1, Moving DEF eff
<1>4. UNCHANGED db => DbStep(o)
  BY DEF DbStep
<1> HIDE DEF eff
<1>5. Return(o, TRUE) => Called(o)
  BY <1>1, ReturnCalled
<1>6. eff /\ Return(o, TRUE) => Called(o)
  BY <1>1, <1>3, ReturnCalled DEF PCs, Active
<1> QED BY <1>1, <1>2, <1>3, <1>4, <1>5, <1>6 DEF Stepped

LEMMA ExpireStep == ASSUME IInv, NEW o \in Ops, Expire(o) PROVE Stepped(o)
<1> DEFINE eff == /\ ops[o].state = "pending" /\ SetState(o, "expired")
                  /\ UNCHANGED <<iface, rows, imports, ledger, secrets>>
<1>1. /\ TypeOK /\ Frame /\ call[o].pc # "idle"
      /\ Works(o) \/ Breaks(o) \/ Fault
      /\ \/ eff /\ Return(o, FALSE)
         \/ eff /\ Return(o, TRUE)
         \/ UNCHANGED db /\ Return(o, TRUE)
  BY DEF IInv, Expire, TransitionOperation, Write
<1>2. faults' \in 0..MaxFaults
  BY <1>1, FaultRange
<1>3. eff => DbStep(o) /\ ops'[o].state = "expired"
  BY <1>1, Moving DEF eff
<1>4. UNCHANGED db => DbStep(o)
  BY DEF DbStep
<1> HIDE DEF eff
<1>5. Return(o, TRUE) => Called(o)
  BY <1>1, ReturnCalled
<1>6. eff /\ Return(o, FALSE) => Called(o)
  BY <1>1, <1>3, ReturnCalled DEF PCs, Active
<1> QED BY <1>1, <1>2, <1>3, <1>4, <1>5, <1>6 DEF Stepped

LEMMA InspectStep == ASSUME IInv, NEW o \in Ops, Inspect(o) PROVE Stepped(o)
<1>1. /\ TypeOK /\ Frame /\ call[o].pc # "idle" /\ UNCHANGED db
      /\ Works(o) \/ Breaks(o)
      /\ \/ Goto(o, "validate")
         \/ Return(o, TRUE)
  BY DEF IInv, Inspect
<1>2. faults' \in 0..MaxFaults
  BY <1>1, FaultRange
<1>3. DbStep(o)
  BY <1>1 DEF DbStep
<1>4. Goto(o, "validate") => Called(o)
  BY <1>1, GotoCalled DEF PCs
<1>5. Return(o, TRUE) => Called(o)
  BY <1>1, ReturnCalled
<1> QED BY <1>1, <1>2, <1>3, <1>4, <1>5 DEF Stepped

LEMMA PrepareStep == ASSUME IInv, NEW o \in Ops, Prepare(o) PROVE Stepped(o)
<1>1. /\ TypeOK /\ Frame /\ call[o].pc # "idle" /\ UNCHANGED db
      /\ Works(o) \/ Breaks(o)
      /\ \/ Goto(o, "snapshot")
         \/ Goto(o, "reject")
  BY DEF IInv, Prepare
<1>2. faults' \in 0..MaxFaults
  BY <1>1, FaultRange
<1>3. DbStep(o)
  BY <1>1 DEF DbStep
<1>4. Goto(o, "snapshot") => Called(o)
  BY <1>1, GotoCalled DEF PCs
<1>5. Goto(o, "reject") => Called(o)
  BY <1>1, GotoCalled DEF PCs
<1> QED BY <1>1, <1>2, <1>3, <1>4, <1>5 DEF Stepped

LEMMA VerifyStep == ASSUME IInv, NEW o \in Ops, Verify(o) PROVE Stepped(o)
<1>1. /\ TypeOK /\ Frame /\ call[o].pc # "idle" /\ UNCHANGED db
      /\ Works(o) \/ Breaks(o)
      /\ \/ Goto(o, "finalize")
         \/ (call' = [call EXCEPT ![o].pc = "undo", ![o].from = "verifying"] /\ UNCHANGED failed)
  BY DEF IInv, Verify
<1>2. faults' \in 0..MaxFaults
  BY <1>1, FaultRange
<1>3. DbStep(o)
  BY <1>1 DEF DbStep
<1>4. Goto(o, "finalize") => Called(o)
  BY <1>1, GotoCalled DEF PCs
<1>5. (call' = [call EXCEPT ![o].pc = "undo", ![o].from = "verifying"] /\ UNCHANGED failed) => Called(o)
  BY <1>1, UndoCalled DEF Begun
<1> QED BY <1>1, <1>2, <1>3, <1>4, <1>5 DEF Stepped

LEMMA ReloadStep == ASSUME IInv, NEW o \in Ops, Reload(o) PROVE Stepped(o)
<1>1. /\ TypeOK /\ Frame /\ call[o].pc # "idle" /\ UNCHANGED db
      /\ Works(o) \/ Breaks(o)
      /\ \/ Goto(o, "verify")
         \/ (call' = [call EXCEPT ![o].pc = "undo", ![o].from = "executing"] /\ UNCHANGED failed)
  BY DEF IInv, Reload
<1>2. faults' \in 0..MaxFaults
  BY <1>1, FaultRange
<1>3. DbStep(o)
  BY <1>1 DEF DbStep
<1>4. Goto(o, "verify") => Called(o)
  BY <1>1, GotoCalled DEF PCs
<1>5. (call' = [call EXCEPT ![o].pc = "undo", ![o].from = "executing"] /\ UNCHANGED failed) => Called(o)
  BY <1>1, UndoCalled DEF Begun
<1> QED BY <1>1, <1>2, <1>3, <1>4, <1>5 DEF Stepped

LEMMA GetOperationMetadataStep == ASSUME IInv, NEW o \in Ops, GetOperationMetadata(o) PROVE Stepped(o)
<1>1. /\ TypeOK /\ Frame /\ call[o].pc # "idle" /\ UNCHANGED db
      /\ Works(o) \/ Breaks(o)
      /\ \/ Goto(o, "verify")
         \/ Return(o, TRUE)
  BY DEF IInv, GetOperationMetadata
<1>2. faults' \in 0..MaxFaults
  BY <1>1, FaultRange
<1>3. DbStep(o)
  BY <1>1 DEF DbStep
<1>4. Goto(o, "verify") => Called(o)
  BY <1>1, GotoCalled DEF PCs
<1>5. Return(o, TRUE) => Called(o)
  BY <1>1, ReturnCalled
<1> QED BY <1>1, <1>2, <1>3, <1>4, <1>5 DEF Stepped

LEMMA SnapshotOperationStep == ASSUME IInv, NEW o \in Ops, SnapshotOperation(o) PROVE Stepped(o)
<1>1. /\ TypeOK /\ Frame /\ call[o].pc # "idle"
      /\ Works(o) \/ Breaks(o) \/ Fault
      /\ \/ Snapshotted(o) /\ Goto(o, "begin")
         \/ Snapshotted(o) /\ Goto(o, "reject")
         \/ UNCHANGED db /\ Goto(o, "reject")
  BY DEF IInv, SnapshotOperation, Write, Snapshotted
<1>2. faults' \in 0..MaxFaults
  BY <1>1, FaultRange
<1>3. /\ Snapshotted(o) \/ UNCHANGED db => DbStep(o)
      /\ Snapshotted(o) => ops'[o].state = "snapshotted"
  BY <1>1, OpsAfter, StateSets DEF DbStep, Snapshotted
<1>4. Goto(o, "begin") => Called(o)
  BY <1>1, GotoCalled DEF PCs
<1>5. Goto(o, "reject") => Called(o)
  BY <1>1, GotoCalled DEF PCs
<1> QED BY <1>1, <1>2, <1>3, <1>4, <1>5 DEF Stepped

LEMMA ApplyAdoptionStep == ASSUME IInv, NEW o \in Ops, ApplyAdoption(o) PROVE Stepped(o)
<1>1. /\ TypeOK /\ Frame /\ call[o].pc # "idle"
      /\ Works(o) \/ Breaks(o) \/ Fault
      /\ \/ Applied(o) /\ Goto(o, "metadata")
         \/ Applied(o) /\ Goto(o, "verify")
         \/ Applied(o) /\ Goto(o, "reload")
         \/ Applied(o) /\ (call' = [call EXCEPT ![o].pc = "undo", ![o].from = "executing"] /\ UNCHANGED failed)
         \/ UNCHANGED db /\ Goto(o, "reload")
         \/ UNCHANGED db /\ (call' = [call EXCEPT ![o].pc = "undo", ![o].from = "executing"] /\ UNCHANGED failed)
  BY DEF IInv, ApplyAdoption, Write, Applied
<1>2. faults' \in 0..MaxFaults
  BY <1>1, FaultRange
<1>3. /\ Applied(o) \/ UNCHANGED db => DbStep(o)
      /\ Applied(o) => ops'[o].state = "verifying"
  BY <1>1, OpsAfter, StateSets DEF DbStep, Applied
<1>4. Goto(o, "metadata") => Called(o)
  BY <1>1, GotoCalled DEF PCs
<1>5. Goto(o, "verify") => Called(o)
  BY <1>1, GotoCalled DEF PCs
<1>6. Goto(o, "reload") => Called(o)
  BY <1>1, GotoCalled DEF PCs
<1>7. (call' = [call EXCEPT ![o].pc = "undo", ![o].from = "executing"] /\ UNCHANGED failed) => Called(o)
  BY <1>1, UndoCalled DEF Begun
<1> QED BY <1>1, <1>2, <1>3, <1>4, <1>5, <1>6, <1>7 DEF Stepped

LEMMA FinalizeAdoptionStep == ASSUME IInv, NEW o \in Ops, FinalizeAdoption(o) PROVE Stepped(o)
<1>1. /\ TypeOK /\ Frame /\ call[o].pc # "idle"
      /\ Works(o) \/ Breaks(o) \/ Fault
      /\ \/ Finalized(o) /\ Return(o, FALSE)
         \/ Finalized(o) /\ Return(o, TRUE)
         \/ UNCHANGED db /\ Return(o, TRUE)
  BY DEF IInv, FinalizeAdoption, Write, Finalized
<1>2. faults' \in 0..MaxFaults
  BY <1>1, FaultRange
<1>3. /\ Finalized(o) \/ UNCHANGED db => DbStep(o)
      /\ Finalized(o) => ops'[o].state = "committed"
  BY <1>1, OpsAfter, StateSets DEF DbStep, Finalized
<1>4. Finalized(o) /\ Return(o, FALSE) => Called(o)
  BY <1>1, <1>3, ReturnCalled DEF Active
<1>5. Return(o, TRUE) => Called(o)
  BY <1>1, ReturnCalled
<1> QED BY <1>1, <1>2, <1>3, <1>4, <1>5 DEF Stepped

LEMMA RollbackAdoptionStep == ASSUME IInv, NEW o \in Ops, RollbackAdoption(o) PROVE Stepped(o)
<1>1. /\ TypeOK /\ Frame /\ call[o].pc # "idle"
      /\ Works(o) \/ Breaks(o) \/ Fault
      /\ \/ RolledBack(o) /\ Return(o, FALSE)
         \/ RolledBack(o) /\ Goto(o, "block")
         \/ UNCHANGED db /\ Goto(o, "block")
  BY DEF IInv, RollbackAdoption, Write, RolledBack
<1>2. faults' \in 0..MaxFaults
  BY <1>1, FaultRange
<1>3. /\ RolledBack(o) \/ UNCHANGED db => DbStep(o)
      /\ RolledBack(o) => ops'[o].state = "rolled_back"
  BY <1>1, OpsAfter, StateSets DEF DbStep, RolledBack
<1>4. RolledBack(o) /\ Return(o, FALSE) => Called(o)
  BY <1>1, <1>3, ReturnCalled DEF Active
<1>5. Goto(o, "block") => Called(o)
  BY <1>1, GotoCalled DEF PCs
<1> QED BY <1>1, <1>2, <1>3, <1>4, <1>5 DEF Stepped

LEMMA SteppedInv == ASSUME IInv, NEW o \in Ops, Stepped(o) PROVE IInv'
<1>1. TypeOK /\ Data /\ Recovery /\ UndoesBegun
  BY DEF IInv
<1>2. UNCHANGED <<file, dev, scan, draft, mode, todo, edits>> /\ faults' \in 0..MaxFaults
      /\ call[o].pc # "idle"
  BY DEF Stepped, Frame, host
<1>3. Data' /\ DbTypes' /\ \A q \in Ops \ {o} : ops'[q] = ops[q]
  BY <1>1, <1>2, DbStepOK DEF Stepped
<1>4. PICK c \in Calls :
        /\ call' = [call EXCEPT ![o] = c] /\ (c.pc = "undo" => c.from \in Begun)
        /\ \/ c.pc # "idle" /\ c.boot = call[o].boot /\ failed' = failed
           \/ /\ c.pc = "idle" /\ failed' \in BOOLEAN /\ (failed => failed')
              /\ call[o].boot => failed' \/ ops'[o].state \notin Active
  BY DEF Stepped, Called
<1>5. call' \in [Ops -> Calls] /\ call'[o] = c /\ \A q \in Ops \ {o} : call'[q] = call[q]
  BY <1>1, <1>4 DEF TypeOK
<1>6. failed' \in BOOLEAN /\ (failed => failed')
  BY <1>1, <1>4 DEF TypeOK
<1>7. TypeOK'
  BY <1>1, <1>2, <1>3, <1>5, <1>6 DEF TypeOK, DbTypes
<1>8. UndoesBegun'
  BY <1>1, <1>4, <1>5 DEF UndoesBegun
<1>9. Recovery'
  <2>1. mode' \notin {"down", "starting"}
    BY <1>1, <1>2 DEF Recovery
  <2>2. mode' # "serving" => \A a \in Actors : draft'[a] = NoDraft
    BY <1>1, <1>2 DEF Recovery
  <2>3. ASSUME mode = "recovering"
        PROVE  /\ \A q \in Ops : call'[q].pc # "idle" => call'[q].boot
               /\ \A q \in todo' : call'[q].pc = "idle" /\ ops'[q].state \in Active
               /\ \A q \in Ops : ops'[q].state \in Active \ {"rollback_failed"} =>
                     q \in todo' \/ call'[q].pc # "idle" \/ failed'
    <3>1. call[o].boot /\ o \notin todo /\ todo \subseteq Ops /\ todo' = todo
      BY <1>1, <1>2, <2>3 DEF Recovery, TypeOK
    <3>2. c.pc # "idle" => c.boot
      BY <1>4, <3>1
    <3>3. \A q \in Ops : call'[q].pc # "idle" => call'[q].boot
      BY <1>1, <1>5, <2>3, <3>2, Zenon DEF Recovery
    <3>4. \A q \in todo' : call'[q].pc = "idle" /\ ops'[q].state \in Active
      BY <1>1, <1>3, <1>5, <2>3, <3>1 DEF Recovery
    <3>5. c.pc # "idle" \/ failed' \/ ops'[o].state \notin Active
      BY <1>4, <3>1
    <3>6. \A q \in Ops : ops'[q].state \in Active \ {"rollback_failed"} =>
            q \in todo' \/ call'[q].pc # "idle" \/ failed'
      <4> TAKE q \in Ops
      <4>1. CASE q = o
        BY <1>5, <3>5, <4>1
      <4>2. CASE q # o
        BY <1>1, <1>3, <1>5, <1>6, <2>3, <3>1, <4>2, Zenon DEF Recovery
      <4> QED BY <4>1, <4>2
    <3> QED BY <3>3, <3>4, <3>6
  <2> QED BY <1>2, <2>1, <2>2, <2>3 DEF Recovery
<1> QED BY <1>3, <1>7, <1>8, <1>9 DEF IInv

LEMMA WorkStep == ASSUME IInv, NEW o \in Ops, Work(o) PROVE IInv'
<1>1. Stepped(o)
  BY InspectStep, ValidateStep, PrepareStep, SnapshotOperationStep, RejectStep, BeginStep,
     ApplyAdoptionStep, VerifyStep, FinalizeAdoptionStep, UndoStep, RollbackAdoptionStep,
     BlockStep, ExpireStep, ReloadStep, GetOperationMetadataStep DEF Work
<1> QED BY <1>1, SteppedInv

-----------------------------------------------------------------------------
(* The host, the refresh and the previews *)

LEMMA SeenType == ASSUME NEW s \in Scans PROVE SeenIPs(s) \in PeerIPs
<1>1. s.file \in Files /\ s.dev \in Devices
  BY DEF Scans
<1>2. s.file.ips \in PeerIPs /\ s.dev.ips \in PeerIPs
  BY <1>1, FileTypes, DevicesAssumption
<1> QED BY <1>2 DEF SeenIPs, PeerIPs

\* The first refresh has been stored, and nothing has been adopted.
LEMMA InitInv == Init => IInv
<1> SUFFICES ASSUME Init PROVE IInv
  OBVIOUS
<1> DEFINE s == [file |-> file, dev |-> dev]
<1>1. s \in Scans /\ ips = SeenIPs(s)
  BY DEF Init, Scans
<1> HIDE DEF s
<1>2. NoOp \in OperationRows /\ NoOp.rev = 0 /\ NoOp.state = "none"
  <2>1. (CHOOSE a \in Actors : TRUE) \in Actors /\ (CHOOSE f \in Files : TRUE) \in Files
    BY ActorsAssumption, FilesAssumption
  <2> QED BY <2>1 DEF NoOp, OperationRows, States
<1>3. iface \in InterfaceRows /\ iface.mode = "observed" /\ iface.rev = 0
  <2>1. file.nets \cup dev.nets \subseteq Nets /\ file \in Files
    BY FileTypes, DevicesAssumption DEF Init
  <2> QED BY <2>1 DEF Init, InterfaceRows
<1>4. TypeOK
  <2>1. faults \in 0..MaxFaults /\ edits \in 0..MaxEdits
    BY Numbers DEF Init
  <2>2. ips \in PeerIPs
    BY <1>1, SeenType
  <2>3. ops \in [Ops -> OperationRows] /\ call \in [Ops -> Calls] /\ ledger \in [Ops -> LedgerRows]
    BY <1>2, IdleType, NoLedgerType DEF Init
  <2> QED BY <1>3, <2>1, <2>2, <2>3 DEF Init, TypeOK
<1>5. Nothing
  BY <1>2, <1>3 DEF Init, Nothing
<1>6. FirstRevision /\ SecretsOK
  BY <1>2, StateSets DEF Init, FirstRevision, SecretsOK
<1>7. Data
  BY <1>3, <1>5, <1>6 DEF Data, ImportsOK, AdoptedIsComplete
<1>8. Recovery /\ UndoesBegun
  BY IdleType DEF Init, Recovery, UndoesBegun
<1> QED BY <1>4, <1>7, <1>8 DEF IInv

LEMMA NoScanFacts == NoScan \notin Scans /\ NoDraft \notin Drafts
BY DEF NoScan, Scans, NoDraft, Drafts

\* Neither the database nor the calls change.
LEMMA HostStep ==
  ASSUME IInv, UNCHANGED <<db, draft, call, agent, faults>>,
         file' \in Files, dev' \in Devices, scan' \in Scans \cup {NoScan}, edits' \in 0..MaxEdits
  PROVE  IInv'
<1>1. UNCHANGED <<iface, ips, routed, profile, psk, pool, allocs, ledger, staged, envelopes, ops,
                  mode, todo, failed, draft, call, faults>>
  BY DEF db, rows, imports, secrets, agent
<1>2. Data'
  BY DataKept DEF IInv, Data, FirstRevision
<1>3. TypeOK'
  BY <1>1 DEF IInv, TypeOK
<1>4. Recovery' /\ UndoesBegun'
  BY <1>1 DEF IInv, Recovery, UndoesBegun
<1> QED BY <1>2, <1>3, <1>4 DEF IInv

LEMMA ScanStep == ASSUME IInv, Scan PROVE IInv'
<1>1. file \in Files /\ dev \in Devices /\ UNCHANGED <<file, dev, edits>> /\ edits \in 0..MaxEdits
      /\ UNCHANGED <<db, draft, call, agent, faults>> /\ scan' = [file |-> file, dev |-> dev]
  BY DEF IInv, TypeOK, Scan, host
<1>2. scan' \in Scans
  BY <1>1 DEF Scans
<1> QED BY <1>1, <1>2, HostStep

LEMMA ChangeStep == ASSUME IInv, Change PROVE IInv'
<1>1. file' \in Files /\ dev' \in Devices /\ UNCHANGED scan /\ scan \in Scans \cup {NoScan}
      /\ UNCHANGED <<db, draft, call, agent, faults>>
  BY DEF IInv, TypeOK, Change
<1>2. edits' \in 0..MaxEdits
  BY Numbers DEF IInv, TypeOK, Change
<1> QED BY <1>1, <1>2, HostStep

LEMMA ReplaceInventoryStep == ASSUME IInv, ReplaceInventory PROVE IInv'
<1>1. /\ TypeOK /\ Data /\ Recovery /\ UndoesBegun /\ scan \in Scans /\ scan' = NoScan
      /\ UNCHANGED <<file, dev, profile, psk, pool, allocs, ledger, staged, envelopes, ops, draft, call,
                     mode, todo, failed, faults, edits>>
      /\ iface' = [iface EXCEPT !.hash = scan.file, !.nets = ReplaceAddresses(scan)]
      /\ IF iface.mode = "observed" THEN UpsertPeers(SeenIPs(scan)) ELSE UNCHANGED <<ips, routed>>
  BY DEF IInv, TypeOK, ReplaceInventory, TakesPeers, host, imports, secrets, agent
<1>2. scan.file \in Files /\ ReplaceAddresses(scan) \subseteq Nets
  <2>1. scan.file \in Files /\ scan.dev \in Devices
    BY <1>1 DEF Scans
  <2> QED BY <2>1, FileTypes, DevicesAssumption DEF ReplaceAddresses
<1>3. iface' \in InterfaceRows /\ iface'.mode = iface.mode /\ iface'.rev = iface.rev /\ iface'.by = iface.by
      /\ iface.mode \in {"observed", "adopted"}
  BY <1>1, <1>2 DEF TypeOK, InterfaceRows
<1>4. ips' \in PeerIPs /\ routed' \subseteq routed
  <2>1. SeenIPs(scan) \in PeerIPs
    BY <1>1, SeenType
  <2> QED BY <1>1, <2>1 DEF TypeOK, UpsertPeers, PeerIPs
<1>5. TypeOK'
  BY <1>1, <1>3, <1>4 DEF TypeOK
<1>6. FirstRevision' /\ SecretsOK'
  BY <1>1 DEF Data, FirstRevision, SecretsOK
<1>7. ImportsOK' /\ AdoptedIsComplete'
  <2>1. CASE iface.mode = "observed"
    <3>1. Nothing'
      BY <1>1, <1>3, <1>4, <2>1 DEF Data, ImportsOK, Nothing
    <3> QED BY <1>3, <2>1, <3>1 DEF ImportsOK, AdoptedIsComplete
  <2>2. CASE iface.mode = "adopted"
    <3>1. UNCHANGED <<ips, routed>>
      BY <1>1, <2>2
    <3>2. ImportsOK'
      BY <1>1, <1>3, <2>2, <3>1 DEF Data, ImportsOK, AdoptedBy, Listed
    <3>3. AdoptedIsComplete'
      <4>1. /\ AdoptedIsComplete /\ iface'.by = iface.by
            /\ UNCHANGED <<ips, routed, profile, psk, pool, allocs, ops>>
        BY <1>1, <1>3, <3>1 DEF Data
      <4> QED BY <2>2, <4>1, SMTT(30) DEF AdoptedIsComplete, Known
    <3> QED BY <3>2, <3>3
  <2> QED BY <1>3, <2>1, <2>2
<1>8. Recovery' /\ UndoesBegun'
  BY <1>1 DEF Recovery, UndoesBegun
<1> QED BY <1>5, <1>6, <1>7, <1>8 DEF IInv, Data

LEMMA PreviewStep == ASSUME IInv, NEW a \in Actors, Preview(a) PROVE IInv'
<1> DEFINE d == [rev |-> iface.rev, hash |-> file]
<1>1. /\ TypeOK /\ Data /\ Recovery /\ UndoesBegun /\ mode = "serving" /\ iface.mode = "observed"
      /\ UNCHANGED <<file, dev, scan, db, call, agent, faults, edits>>
      /\ draft' = [draft EXCEPT ![a] = d]
  BY DEF IInv, Preview, Inspected, host
<1>2. UNCHANGED <<iface, ips, routed, profile, psk, pool, allocs, ledger, staged, envelopes, ops,
                  mode, todo, failed>>
  BY <1>1 DEF db, rows, imports, secrets, agent
<1>3. d \in Drafts /\ d.rev = 0
  <2>1. iface.rev = 0 /\ file \in Files
    BY <1>1 DEF Data, ImportsOK, Nothing, TypeOK
  <2> QED BY <2>1 DEF Drafts
<1> HIDE DEF d
<1>4. draft' \in [Actors -> Drafts \cup {NoDraft}] /\ draft'[a] = d
      /\ \A b \in Actors \ {a} : draft'[b] = draft[b]
  BY <1>1, <1>3 DEF TypeOK
<1>5. Data'
  <2>1. \A b \in Actors : draft'[b] # NoDraft => draft'[b].rev = 0
    BY <1>1, <1>3, <1>4 DEF Data, FirstRevision
  <2> QED BY <1>1, <2>1, DataKept
<1>6. TypeOK'
  BY <1>1, <1>2, <1>4 DEF TypeOK
<1>7. Recovery' /\ UndoesBegun'
  BY <1>1, <1>2 DEF Recovery, UndoesBegun
<1> QED BY <1>5, <1>6, <1>7 DEF IInv

LEMMA LeastNumber ==
  ASSUME NEW S \in SUBSET Nat, S # {}
  PROVE  \E m \in S : \A n \in S : m <= n
<1> DEFINE R == OpToRel(<, Nat)
<1>1. IsWellFoundedOn(R, Nat)
  BY NatLessThanWellFounded, Zenon
<1>2. \A a, b \in Nat : a < b => <<a, b>> \in R
  BY DEF OpToRel
<1> HIDE DEF R
<1>3. PICK m \in S : \A n \in S : ~(<<n, m>> \in R)
  BY <1>1, WFMin
<1>4. \A n \in S : ~(n < m)
  BY <1>2, <1>3, Zenon
<1>5. \A n \in S : m <= n
  BY <1>4
<1> QED BY <1>5

\* There is a first operation without a row, if there is one.
LEMMA NextOpFree ==
  ASSUME \E o \in Ops : ops[o].state = "none"
  PROVE  NextOp \in Ops /\ ops[NextOp].state = "none"
<1> DEFINE free == {o \in Ops : ops[o].state = "none"}
<1>1. PICK m \in free : \A n \in free : m <= n
  <2>1. free \in SUBSET Nat /\ free # {}
    BY Numbers
  <2> HIDE DEF free
  <2> QED BY <2>1, LeastNumber
<1>2. \A q \in 1..(m - 1) : ops[q].state # "none"
  <2> TAKE q \in 1..(m - 1)
  <2>1. q \in Ops /\ ~(m <= q)
    BY <1>1, Numbers DEF Ops
  <2> QED BY <1>1, <2>1
<1> QED BY <1>1, <1>2, Zenon DEF NextOp

\* Rows that say nothing of secrets and imports are rewritten.
LEMMA RewrittenData ==
  ASSUME Data, UNCHANGED <<iface, ips, routed, profile, psk, pool, allocs, ledger, staged, envelopes>>,
         \A o \in Ops : \/ ops'[o] = ops[o]
                        \/ /\ ops[o].state \in {"none", "pending"} /\ ops'[o].rev = 0
                           /\ ops'[o].state \in {"pending", "expired"},
         \A a \in Actors : draft'[a] # NoDraft => draft'[a].rev = 0
  PROVE  Data'
<1>1. FirstRevision'
  BY DEF Data, FirstRevision
<1>2. SecretsOK'
  <2> SUFFICES ASSUME NEW q \in Ops
               PROVE  /\ staged'[q] = IF ops'[q].state \in UnderWay THEN ops'[q].hash.psk ELSE {}
                      /\ ops'[q].state # "committed" =>
                           \A p \in Peers : <<q, p>> \in envelopes' <=> p \in staged'[q]
    BY DEF SecretsOK
  <2>1. CASE ops'[q] = ops[q]
    BY <2>1 DEF Data, SecretsOK
  <2>2. CASE ops[q].state \in {"none", "pending"} /\ ops'[q].state \in {"pending", "expired"}
    BY <2>2, StateSets DEF Data, SecretsOK
  <2> QED BY <2>1, <2>2
<1>3. iface.mode = "observed" => Nothing'
  BY DEF Data, ImportsOK, Nothing
<1>4. ASSUME iface.mode = "adopted" PROVE iface'.by \in Ops /\ AdoptedBy(iface.by)' /\ AdoptedIsComplete'
  <2>1. PICK b \in Ops : b = iface.by
    BY <1>4 DEF Data, ImportsOK
  <2>2. AdoptedBy(b)
    BY <1>4, <2>1 DEF Data, ImportsOK
  <2>3. ops'[b] = ops[b]
    BY <2>2 DEF AdoptedBy, Adopters
  <2>4. \A q \in Ops \ {b} : ledger'[q] = NoLedger /\ ops'[q].state \notin {"verifying", "committed"}
    BY <2>2 DEF AdoptedBy
  <2>5. AdoptedBy(b)'
    BY <2>2, <2>3, <2>4 DEF AdoptedBy, Listed
  <2>6. AdoptedIsComplete'
    BY <2>1, <2>3 DEF Data, AdoptedIsComplete, Known
  <2> QED BY <2>1, <2>5, <2>6
<1>5. iface.mode # "adopted" => AdoptedIsComplete'
  BY DEF AdoptedIsComplete
<1> QED BY <1>1, <1>2, <1>3, <1>4, <1>5 DEF Data, ImportsOK

LEMMA CreateOperationStep == ASSUME IInv, NEW a \in Actors, CreateOperation(a) PROVE IInv'
<1> DEFINE superseded == {o \in Ops : ops[o].actor = a /\ ops[o].state = "pending"}
           new == [state |-> "pending", actor |-> a, rev |-> draft[a].rev, hash |-> draft[a].hash]
<1>1. /\ TypeOK /\ Data /\ Recovery /\ UndoesBegun /\ draft[a] # NoDraft
      /\ UNCHANGED <<file, dev, scan, iface, ips, routed, profile, psk, pool, allocs, ledger, staged,
                     envelopes, call, mode, todo, failed, faults, edits>>
      /\ draft' = [draft EXCEPT ![a] = NoDraft]
  BY DEF IInv, CreateOperation, host, rows, imports, secrets, agent
<1>2. draft' \in [Actors -> Drafts \cup {NoDraft}] /\ \A b \in Actors : draft'[b] # NoDraft => draft'[b].rev = 0
  BY <1>1 DEF TypeOK, Data, FirstRevision
<1>3. /\ NextOp \in Ops /\ ops[NextOp].state = "none"
  BY NextOpFree DEF CreateOperation
<1>4. new \in OperationRows /\ new.state = "pending" /\ new.rev = 0
  <2>1. draft[a] \in Drafts /\ draft[a].rev = 0
    BY <1>1 DEF TypeOK, Data, FirstRevision
  <2>2. draft[a].hash \in Files
    BY <2>1 DEF Drafts
  <2> QED BY <2>1, <2>2 DEF OperationRows, States, Active
<1>5. \/ ops' = ops
      \/ ops' = [o \in Ops |-> IF o \in superseded THEN [ops[o] EXCEPT !.state = "expired"]
                               ELSE IF o = NextOp THEN new ELSE ops[o]]
  BY DEF CreateOperation
<1> HIDE DEF new
<1>6. ASSUME NEW o \in Ops
      PROVE  /\ ops'[o] \in OperationRows
             /\ \/ ops'[o] = ops[o]
                \/ /\ ops[o].state \in {"none", "pending"} /\ ops'[o].rev = 0
                   /\ ops'[o].state \in {"pending", "expired"}
  <2>1. ops[o] \in OperationRows /\ ops[o].rev = 0
    BY <1>1 DEF TypeOK, Data, FirstRevision
  <2>2. CASE o \in superseded /\ ops'[o] = [ops[o] EXCEPT !.state = "expired"]
    BY <2>1, <2>2 DEF OperationRows, States
  <2>3. CASE o = NextOp /\ ops'[o] = new
    BY <1>3, <1>4, <2>3
  <2>4. CASE ops'[o] = ops[o]
    BY <2>1, <2>4
  <2> QED BY <1>5, <2>2, <2>3, <2>4
<1>7. ops' \in [Ops -> OperationRows]
  <2>1. ops' = [o \in Ops |-> ops'[o]]
    BY <1>1, <1>5 DEF TypeOK
  <2> QED BY <1>6, <2>1
<1>8. Data'
  BY <1>1, <1>2, <1>6, RewrittenData
<1>9. TypeOK'
  BY <1>1, <1>2, <1>7 DEF TypeOK
<1>10. mode = "serving"
  BY <1>1 DEF Recovery
<1>11. Recovery' /\ UndoesBegun'
  BY <1>1, <1>10 DEF Recovery, UndoesBegun
<1> QED BY <1>8, <1>9, <1>11 DEF IInv

-----------------------------------------------------------------------------
(* The agent *)

\* Neither the host nor the database changes.
LEMMA AgentStep ==
  ASSUME IInv, UNCHANGED <<host, db, edits>>, scan' \in {scan, NoScan},
         draft' = draft \/ draft' = [a \in Actors |-> NoDraft], call' \in [Ops -> Calls],
         mode' \in {"down", "starting", "recovering", "serving"}, todo' \subseteq Ops,
         failed' \in BOOLEAN, faults' \in 0..MaxFaults, Recovery', UndoesBegun'
  PROVE  IInv'
<1>1. UNCHANGED <<file, dev, edits, iface, ips, routed, profile, psk, pool, allocs, ledger, staged,
                  envelopes, ops>>
  BY DEF host, db, rows, imports, secrets
<1>2. draft' \in [Actors -> Drafts \cup {NoDraft}] /\ \A b \in Actors : draft'[b] # NoDraft => draft'[b].rev = 0
  BY DEF IInv, TypeOK, Data, FirstRevision
<1>3. Data'
  BY <1>2, DataKept DEF IInv
<1>4. TypeOK'
  BY <1>1, <1>2 DEF IInv, TypeOK
<1> QED BY <1>3, <1>4 DEF IInv

LEMMA CommitStep == ASSUME IInv, NEW o \in Ops, Commit(o) PROVE IInv'
<1>1. /\ TypeOK /\ mode = "serving" /\ Goto(o, "inspect")
      /\ UNCHANGED <<host, scan, db, draft, mode, todo, faults, edits>>
  BY DEF IInv, Commit, Frame
<1>2. PICK c \in Calls : /\ call' = [call EXCEPT ![o] = c] /\ (c.pc = "undo" => c.from \in Begun)
                         /\ failed' \in BOOLEAN
  BY <1>1, GotoCalled DEF PCs, Called, TypeOK
<1>3. call' \in [Ops -> Calls] /\ UndoesBegun'
  BY <1>1, <1>2 DEF TypeOK, IInv, UndoesBegun
<1>4. Recovery'
  BY <1>1 DEF Recovery
<1>5. todo \subseteq Ops /\ faults \in 0..MaxFaults
  BY <1>1 DEF TypeOK
<1> QED BY <1>1, <1>2, <1>3, <1>4, <1>5, AgentStep

LEMMA CommitExpiredStep == ASSUME IInv, NEW o \in Ops, CommitExpired(o) PROVE IInv'
<1>1. /\ TypeOK /\ Data /\ mode = "serving"
      /\ UNCHANGED <<file, dev, scan, draft, mode, todo, call, failed, edits>>
      /\ Works(o) \/ Breaks(o) \/ Fault
      /\ \/ UNCHANGED db
         \/ /\ ops[o].state = "pending" /\ SetState(o, "expired")
            /\ UNCHANGED <<iface, rows, imports, ledger, secrets>>
  BY DEF IInv, CommitExpired, TransitionOperation, Write, Frame, host
<1>2. faults' \in 0..MaxFaults
  BY <1>1, FaultRange
<1>3. DbStep(o)
  BY <1>1, Moving DEF DbStep
<1>4. Data' /\ DbTypes'
  BY <1>1, <1>3, DbStepOK
<1>5. TypeOK'
  BY <1>1, <1>2, <1>4 DEF TypeOK, DbTypes
<1>6. Recovery' /\ UndoesBegun'
  BY <1>1 DEF IInv, Recovery, UndoesBegun
<1> QED BY <1>4, <1>5, <1>6 DEF IInv

LEMMA EndContextStep == ASSUME IInv, NEW o \in Ops, EndContext(o) PROVE IInv'
<1> DEFINE c == [call[o] EXCEPT !.gone = TRUE]
<1>1. /\ TypeOK /\ Recovery /\ UndoesBegun /\ call[o].pc # "idle" /\ ~call[o].boot /\ call[o] \in Calls
      /\ UNCHANGED <<host, scan, db, draft, mode, todo, failed, edits>> /\ Fault
      /\ call' = [call EXCEPT ![o] = c]
  BY DEF IInv, EndContext, agent, TypeOK
<1>2. c \in Calls
  <2>1. TRUE \in BOOLEAN
    OBVIOUS
  <2> QED BY <1>1, <2>1, Zenon DEF Calls
<1>3. c.pc = call[o].pc /\ c.from = call[o].from
  BY <1>1 DEF Calls
<1> HIDE DEF c
<1>4. call' \in [Ops -> Calls] /\ UndoesBegun'
  BY <1>1, <1>2, <1>3 DEF TypeOK, UndoesBegun
<1>5. mode = "serving"
  BY <1>1 DEF Recovery, TypeOK
<1>6. Recovery'
  BY <1>1, <1>5 DEF Recovery
<1>7. todo \subseteq Ops /\ failed \in BOOLEAN /\ faults' \in 0..MaxFaults
  BY <1>1, FaultRange DEF TypeOK
<1> QED BY <1>1, <1>4, <1>5, <1>6, <1>7, AgentStep

LEMMA CrashStep == ASSUME IInv, Crash PROVE IInv'
<1>1. /\ TypeOK /\ UNCHANGED <<host, db, edits>> /\ Fault /\ mode' = "down" /\ todo' = {}
      /\ failed' = FALSE /\ scan' = NoScan /\ call' = [o \in Ops |-> Idle]
      /\ draft' = [a \in Actors |-> NoDraft]
  BY DEF IInv, Crash
<1>2. faults' \in 0..MaxFaults
  BY <1>1, Numbers DEF Fault, TypeOK
<1>3. call' \in [Ops -> Calls] /\ UndoesBegun' /\ Recovery'
  BY <1>1, IdleType DEF UndoesBegun, Recovery
<1> QED BY <1>1, <1>2, <1>3, AgentStep

LEMMA StartAgentStep == ASSUME IInv, StartAgent PROVE IInv'
<1>1. /\ TypeOK /\ Recovery /\ UndoesBegun /\ mode = "down" /\ mode' = "starting" /\ failed' = FALSE
      /\ UNCHANGED <<host, scan, db, draft, call, todo, faults, edits>>
  BY DEF IInv, StartAgent
<1>2. UndoesBegun' /\ Recovery'
  BY <1>1 DEF UndoesBegun, Recovery
<1>3. call \in [Ops -> Calls] /\ todo \subseteq Ops /\ faults \in 0..MaxFaults
  BY <1>1 DEF TypeOK
<1> QED BY <1>1, <1>2, <1>3, AgentStep

LEMMA RecoverableOperationsStep == ASSUME IInv, RecoverableOperations PROVE IInv'
<1>1. /\ TypeOK /\ Recovery /\ UndoesBegun /\ mode = "starting" /\ scan' = NoScan
      /\ UNCHANGED <<host, db, draft, call, failed, edits>>
      /\ \/ mode' = "recovering" /\ todo' = {o \in Ops : ops[o].state \in Active} /\ UNCHANGED faults
         \/ Fault /\ mode' = "down" /\ todo' = {}
  BY DEF IInv, RecoverableOperations
<1>2. UNCHANGED ops
  BY <1>1 DEF db
<1>3. UndoesBegun' /\ Recovery'
  BY <1>1, <1>2 DEF UndoesBegun, Recovery
<1>4. /\ call \in [Ops -> Calls] /\ todo' \subseteq Ops /\ faults' \in 0..MaxFaults /\ failed \in BOOLEAN
      /\ mode' \in {"down", "starting", "recovering", "serving"}
  BY <1>1, Numbers DEF TypeOK, Fault
<1> QED BY <1>1, <1>3, <1>4, AgentStep

\* Every state an operation in progress can be in has its recovery.
LEMMA RecoverOneStep == ASSUME IInv, RecoverOne PROVE IInv'
<1>1. PICK o \in todo :
       LET at(l, from) == call' = [call EXCEPT ![o] =
                                     [pc |-> l, from |-> from, gone |-> FALSE, boot |-> TRUE]]
       IN /\ todo' = todo \ {o}
          /\ CASE ops[o].state = "pending" -> at("expire", "none")
               [] ops[o].state = "validated" -> at("reject", "none")
               [] ops[o].state = "snapshotted" -> at("undo", "snapshotted")
               [] ops[o].state = "executing" -> at("apply", "none")
               [] ops[o].state = "verifying" -> at("metadata", "none")
               [] ops[o].state = "rolling_back" -> at("rollback", "none")
               [] ops[o].state = "rollback_failed" -> UNCHANGED call
  BY DEF RecoverOne
<1>2. /\ TypeOK /\ Recovery /\ UndoesBegun /\ mode = "recovering" /\ UNCHANGED ops
      /\ UNCHANGED <<host, scan, db, draft, mode, failed, faults, edits>>
      /\ o \in Ops /\ ops[o].state \in Active /\ todo' = todo \ {o}
      /\ failed \in BOOLEAN /\ faults \in 0..MaxFaults /\ todo' \subseteq Ops
  BY <1>1 DEF IInv, RecoverOne, TypeOK, Recovery, db
<1>3. \/ ops[o].state = "rollback_failed" /\ UNCHANGED call
      \/ \E l \in PCs \ {"idle"}, from \in States :
           /\ call' = [call EXCEPT ![o] = [pc |-> l, from |-> from, gone |-> FALSE, boot |-> TRUE]]
           /\ l = "undo" => from \in Begun
  <2>1. {"expire", "reject", "undo", "apply", "metadata", "rollback"} \subseteq PCs \ {"idle"}
    BY DEF PCs
  <2>2. {"none", "snapshotted"} \subseteq States /\ "snapshotted" \in Begun
    BY DEF States, Active, Begun
  <2>3. ops[o].state \in {"pending", "validated", "snapshotted", "executing", "verifying",
                          "rolling_back", "rollback_failed"}
    BY <1>2 DEF Active
  <2> QED BY <1>1, <2>1, <2>2, <2>3
<1>4. CASE ops[o].state = "rollback_failed" /\ UNCHANGED call
  <2>1. call' \in [Ops -> Calls] /\ UndoesBegun'
    BY <1>2, <1>4 DEF TypeOK, UndoesBegun
  <2>2. Recovery'
    BY <1>2, <1>4 DEF Recovery
  <2> QED BY <1>2, <2>1, <2>2, AgentStep
<1>5. CASE \E l \in PCs \ {"idle"}, from \in States :
             /\ call' = [call EXCEPT ![o] = [pc |-> l, from |-> from, gone |-> FALSE, boot |-> TRUE]]
             /\ l = "undo" => from \in Begun
  <2>1. PICK l \in PCs \ {"idle"}, from \in States :
             /\ call' = [call EXCEPT ![o] = [pc |-> l, from |-> from, gone |-> FALSE, boot |-> TRUE]]
             /\ l = "undo" => from \in Begun
    BY <1>5
  <2> DEFINE c == [pc |-> l, from |-> from, gone |-> FALSE, boot |-> TRUE]
  <2>2. c \in Calls /\ c.pc = l /\ c.from = from /\ c.boot = TRUE
    <3>1. TRUE \in BOOLEAN /\ FALSE \in BOOLEAN
      OBVIOUS
    <3>2. c \in Calls
      BY <3>1, Zenon DEF Calls
    <3> QED BY <3>2
  <2>3. call' = [call EXCEPT ![o] = c]
    BY <2>1
  <2> HIDE DEF c
  <2>4. call' \in [Ops -> Calls] /\ call'[o] = c /\ \A q \in Ops \ {o} : call'[q] = call[q]
    BY <1>2, <2>2, <2>3 DEF TypeOK
  <2>5. UndoesBegun'
    BY <1>2, <2>1, <2>2, <2>4 DEF UndoesBegun
  <2>6. Recovery'
    <3>1. \A q \in Ops : call'[q].pc # "idle" => call'[q].boot
      BY <1>2, <2>2, <2>4, Zenon DEF Recovery
    <3>2. \A q \in todo' : call'[q].pc = "idle" /\ ops'[q].state \in Active
      BY <1>2, <2>4 DEF Recovery
    <3>3. \A q \in Ops : ops'[q].state \in Active \ {"rollback_failed"} =>
            q \in todo' \/ call'[q].pc # "idle" \/ failed'
      BY <1>2, <2>1, <2>2, <2>4 DEF Recovery
    <3> QED BY <1>2, <3>1, <3>2, <3>3 DEF Recovery
  <2> QED BY <1>2, <2>4, <2>5, <2>6, AgentStep
<1> QED BY <1>3, <1>4, <1>5

LEMMA RecoverEndStep == ASSUME IInv, RecoverEnd PROVE IInv'
<1>1. /\ TypeOK /\ Recovery /\ UndoesBegun /\ mode = "recovering" /\ \A o \in Ops : call[o].pc = "idle"
      /\ mode' = IF failed THEN "down" ELSE "serving"
      /\ UNCHANGED <<host, scan, db, draft, call, todo, failed, faults, edits>>
  BY DEF IInv, RecoverEnd
<1>2. UndoesBegun' /\ Recovery'
  BY <1>1 DEF UndoesBegun, Recovery
<1>3. call \in [Ops -> Calls] /\ todo \subseteq Ops /\ faults \in 0..MaxFaults /\ failed \in BOOLEAN
      /\ mode' \in {"down", "starting", "recovering", "serving"}
  BY <1>1 DEF TypeOK
<1> QED BY <1>1, <1>2, <1>3, AgentStep

LEMMA Inductive == ASSUME IInv, [Next]_vars PROVE IInv'
<1>1. CASE Scan \/ ReplaceInventory \/ Change \/ Crash
  BY <1>1, ScanStep, ReplaceInventoryStep, ChangeStep, CrashStep
<1>2. CASE \E a \in Actors : Preview(a) \/ CreateOperation(a)
  BY <1>2, PreviewStep, CreateOperationStep
<1>3. CASE \E o \in Ops : Commit(o) \/ CommitExpired(o) \/ Work(o) \/ EndContext(o)
  BY <1>3, CommitStep, CommitExpiredStep, WorkStep, EndContextStep
<1>4. CASE StartAgent \/ RecoverableOperations \/ RecoverOne \/ RecoverEnd
  BY <1>4, StartAgentStep, RecoverableOperationsStep, RecoverOneStep, RecoverEndStep
<1>5. CASE UNCHANGED vars
  <2>1. UNCHANGED <<file, dev, scan, db, draft, call, agent, faults, edits>>
    BY <1>5 DEF vars, host
  <2>2. file \in Files /\ dev \in Devices /\ scan \in Scans \cup {NoScan} /\ edits \in 0..MaxEdits
    BY DEF IInv, TypeOK
  <2> QED BY <2>1, <2>2, HostStep
<1> QED BY <1>1, <1>2, <1>3, <1>4, <1>5 DEF Next

LEMMA Invariance == Spec => []IInv
<1>1. Init => IInv
  BY InitInv
<1>2. IInv /\ [Next]_vars => IInv'
  BY Inductive
<1> QED BY <1>1, <1>2, PTL DEF Spec

-----------------------------------------------------------------------------
(* The results *)

\* The types of rows, host and requests, for every number of operations and faults.
THEOREM TypeCorrect == Spec => []TypeOK
<1>1. IInv => TypeOK
  BY DEF IInv
<1> QED BY <1>1, Invariance, PTL

\* While the interface is observed nothing of an adoption is in the database: an
\* import is applied whole and rolled back whole.
THEOREM ObservedStaysClean == Spec => []ObservedIsUntouched
<1>1. IInv => ObservedIsUntouched
  BY DEF IInv, Data, ImportsOK, Nothing, ObservedIsUntouched
<1> QED BY <1>1, Invariance, PTL

\* An adopted interface has every profile, pool, allocation and preshared key it
\* needs, whatever the refresh stores and whichever faults came between.
THEOREM AdoptionIsComplete == Spec => []AdoptedIsComplete
<1>1. IInv => AdoptedIsComplete
  BY DEF IInv, Data
<1> QED BY <1>1, Invariance, PTL

\* No sealed preshared key is left without an operation or a profile that answers
\* for it, and no profile refers to a key that is gone.
THEOREM SecretsHaveOwners == Spec => []NoOrphanSecret
<1>1. ASSUME IInv PROVE NoOrphanSecret
  <2>1. ASSUME NEW s \in envelopes
        PROVE  \/ ops[s[1]].state \in UnderWay /\ s[2] \in staged[s[1]]
               \/ ops[s[1]].state = "committed" /\ psk[s[2]] = s[1]
    <3>1. PICK o \in Ops, p \in Peers : s = <<o, p>>
      BY <1>1 DEF IInv, TypeOK
    <3>2. CASE ops[o].state # "committed"
      <4>1. p \in staged[o]
        BY <1>1, <2>1, <3>1, <3>2 DEF IInv, Data, SecretsOK
      <4>2. ops[o].state \in UnderWay
        BY <1>1, <4>1 DEF IInv, Data, SecretsOK
      <4> QED BY <3>1, <4>1, <4>2
    <3>3. CASE ops[o].state = "committed"
      <4>1. iface.mode = "adopted" /\ iface.by = o /\ AdoptedBy(o)
        <5>1. iface.mode \in {"observed", "adopted"}
          BY <1>1 DEF IInv, TypeOK, InterfaceRows
        <5> QED BY <1>1, <3>3, <5>1 DEF IInv, Data, ImportsOK, Nothing, AdoptedBy
      <4> QED BY <2>1, <3>1, <3>3, <4>1 DEF AdoptedBy
    <3> QED BY <3>2, <3>3
  <2>2. ASSUME NEW p \in Peers, psk[p] # 0 PROVE <<psk[p], p>> \in envelopes
    <3>1. iface.mode \in {"observed", "adopted"}
      BY <1>1 DEF IInv, TypeOK, InterfaceRows
    <3>2. iface.mode = "adopted" /\ AdoptedBy(iface.by)
      BY <1>1, <2>2, <3>1 DEF IInv, Data, ImportsOK, Nothing
    <3> QED BY <2>2, <3>2 DEF AdoptedBy
  <2> QED BY <2>1, <2>2 DEF NoOrphanSecret
<1>2. IInv => NoOrphanSecret
  BY <1>1
<1> QED BY <1>2, Invariance, PTL

\* An agent that begins to serve has resolved every adoption in progress, but for one
\* whose rollback has failed.
THEOREM RecoveryResolves == Spec => ResolvedBeforeServing
<1> DEFINE Step == mode = "recovering" /\ mode' = "serving" =>
                     \A o \in Ops : ops'[o].state \notin Active \ {"rollback_failed"}
<1>1. ASSUME IInv, [Next]_vars PROVE [Step]_vars
  <2> SUFFICES ASSUME mode = "recovering", mode' = "serving"
               PROVE  \A o \in Ops : ops'[o].state \notin Active \ {"rollback_failed"}
    OBVIOUS
  <2>1. RecoverEnd
    <3>1. mode' # mode
      OBVIOUS
    <3>2. ~(\E o \in Ops : Commit(o) \/ CommitExpired(o) \/ Work(o) \/ EndContext(o))
      <4> SUFFICES ASSUME NEW o \in Ops, Commit(o) \/ CommitExpired(o) \/ Work(o) \/ EndContext(o)
                   PROVE  FALSE
        OBVIOUS
      <4>1. Work(o) => mode' = mode
        BY DEF Work, Inspect, Validate, Prepare, SnapshotOperation, Reject, Begin, ApplyAdoption,
               Verify, FinalizeAdoption, Undo, RollbackAdoption, Block, Expire, Reload,
               GetOperationMetadata, Frame
      <4> QED BY <3>1, <4>1 DEF Commit, CommitExpired, EndContext, Frame, agent
    <3>3. ~(\E a \in Actors : Preview(a) \/ CreateOperation(a))
      BY <3>1 DEF Preview, CreateOperation, agent
    <3>4. ~(Scan \/ ReplaceInventory \/ Change \/ Crash \/ StartAgent \/ RecoverableOperations
            \/ RecoverOne \/ UNCHANGED vars)
      BY <3>1 DEF Scan, ReplaceInventory, Change, Crash, StartAgent, RecoverableOperations,
                  RecoverOne, vars, agent
    <3> QED BY <1>1, <3>2, <3>3, <3>4 DEF Next
  <2>2. todo = {} /\ ~failed /\ UNCHANGED ops /\ \A o \in Ops : call[o].pc = "idle"
    BY <2>1 DEF RecoverEnd, db
  <2> QED BY <1>1, <2>2 DEF IInv, Recovery
<1>2. Spec => [][Step]_vars
  <2>1. IInv /\ [Next]_vars => [Step]_vars
    BY <1>1
  <2> QED BY <2>1, Invariance, PTL DEF Spec
<1> QED BY <1>2 DEF ResolvedBeforeServing
=============================================================================
