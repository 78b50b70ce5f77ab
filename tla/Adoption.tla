------------------------------ MODULE Adoption ------------------------------
(***************************************************************************)
(* Adopting an interface that wg-quick already runs:                       *)
(*   src/src/internal/agent/adoption/service.go over                       *)
(*   repository/adoption_store.go and operation_store.go, against the      *)
(*   refresh of the inventory (inventory/service.go,                       *)
(*   repository/repository.go).                                            *)
(*                                                                         *)
(* An adoption changes rows of the database only.  It imports a profile    *)
(* for every peer the inventory knows, a pool for every address of the     *)
(* interface, an allocation for every peer's address in a pool and the     *)
(* preshared keys of the file, and writes down what it imported so that it *)
(* can be undone.  Meanwhile the refresh goes on, the file and the device  *)
(* change, contexts end, writes fail or lose their acknowledgement, and    *)
(* the agent dies.                                                         *)
(*                                                                         *)
(* A file's hash is its content.  The interface is there all the time, in  *)
(* the file at least; owner and mode of the file, drift and the states of  *)
(* peers under management are left out.                                    *)
(***************************************************************************)
EXTENDS Integers, FiniteSets

CONSTANTS
  Actors,       \* administrators
  Peers,        \* public keys
  Prefixes,     \* what a peer's AllowedIPs may list
  Nets,         \* networks an interface may have an address in
  Contains,     \* the single addresses among Prefixes that lie in a network
  Files,        \* contents of the configuration: nets, ips and psk, and ok, whether
                \* the parser finds it safe to adopt
  Devices,      \* states of the device: nets, ips
  MaxOps,       \* bound on the operations of a behaviour
  MaxEdits,     \* bound on the changes of file and device
  MaxFaults     \* bound on errors, ended contexts and crashes

PeerIPs == [Peers -> SUBSET Prefixes]

ASSUME ActorsAssumption == Actors # {}
ASSUME ContainsAssumption == Contains \in [Nets -> SUBSET Prefixes]
ASSUME FilesAssumption ==
  /\ Files # {}
  /\ Files \subseteq [nets : SUBSET Nets, ips : PeerIPs, psk : SUBSET Peers, ok : BOOLEAN]
  /\ \A f \in Files : \A p \in f.psk : f.ips[p] # {}
ASSUME DevicesAssumption ==
  Devices # {} /\ Devices \subseteq [nets : SUBSET Nets, ips : PeerIPs]
ASSUME BoundsAssumption == {MaxOps, MaxEdits, MaxFaults} \subseteq Nat

VARIABLES
  file, dev,    \* the host: the configuration and the device
  scan,         \* what a refresh has read and not yet stored
  iface,        \* row of interfaces, with the operation of its last applied revision
  ips,          \* peers and peer_allowed_ips; no row goes while the interface is there
  routed,       \* the peer_allowed_ips whose purpose is routed_subnet
  profile,      \* client_profiles: the operation that made a peer's profile
  psk,          \* its preshared_secret_id: the operation that staged the envelope
  pool,         \* address_pools: the operation that made it
  allocs,       \* address_allocations
  ledger,       \* adoption_import_ledger
  staged,       \* operation_staged_secrets
  envelopes,    \* secret_envelopes of preshared keys
  ops,          \* rows of operations
  draft,        \* an administrator's running preview
  call,         \* the commit or the recovery of an operation
  mode, todo, failed,  \* the agent; what its recovery has to do; it met an error
  faults, edits

host == <<file, dev>>
rows == <<ips, routed>>
imports == <<profile, psk, pool, allocs>>
secrets == <<staged, envelopes>>
agent == <<mode, todo, failed>>
db == <<iface, rows, imports, ledger, secrets, ops>>
vars == <<host, scan, db, draft, call, agent, faults, edits>>

Ops == 1..MaxOps
Active == {"pending", "validated", "snapshotted", "executing", "verifying", "rolling_back",
           "rollback_failed"}
UnderWay == Active \ {"pending", "validated"}
States == Active \cup {"none", "committed", "rolled_back", "rejected", "expired"}

Scans == [file : Files, dev : Devices]
NoScan == [none |-> TRUE]
NoDraft == [none |-> TRUE]
NoLedger == [profiles |-> {}, pools |-> {}, allocs |-> {}, purposes |-> {}]
Idle == [pc |-> "idle", from |-> "none", gone |-> FALSE, boot |-> FALSE]

Known == {p \in Peers : ips[p] # {}}
Fault == faults < MaxFaults /\ faults' = faults + 1
\* A call under the request's context works, or does not: for ever once the
\* context has ended, now and then before.
Works(o) == ~call[o].gone /\ UNCHANGED faults
Breaks(o) == IF call[o].gone THEN UNCHANGED faults ELSE Fault

Goto(o, l) == call' = [call EXCEPT ![o].pc = l] /\ UNCHANGED failed
Return(o, err) ==
  /\ call' = [call EXCEPT ![o] = Idle]
  /\ failed' = (failed \/ (call[o].boot /\ err))

\* A statement or transaction that applies in some states only: it takes effect and
\* says so, is refused, fails, or takes effect and its answer is lost.
Write(o, applies, effect, ok, err) ==
  \/ Works(o) /\ applies /\ effect /\ ok
  \/ Works(o) /\ ~applies /\ UNCHANGED db /\ err
  \/ Breaks(o) /\ UNCHANGED db /\ err
  \/ ~call[o].gone /\ Fault /\ applies /\ effect /\ err

SetState(o, s) == ops' = [ops EXCEPT ![o].state = s]
TransitionOperation(o, from, to, ok, err) ==
  Write(o, ops[o].state = from,
        SetState(o, to) /\ UNCHANGED <<iface, rows, imports, ledger, secrets>>, ok, err)

-----------------------------------------------------------------------------
(* Refresh *)

\* Runtime peers count first, with the file's AllowedIPs if the device has none.
SeenIPs(s) == [p \in Peers |-> IF s.dev.ips[p] # {} THEN s.dev.ips[p] ELSE s.file.ips[p]]

Scan ==
  /\ mode \in {"starting", "serving"} /\ scan = NoScan
  /\ scan' = [file |-> file, dev |-> dev]
  /\ UNCHANGED <<host, db, draft, call, agent, faults, edits>>

\* Mistake: the peers of an adopted interface are taken from the host as well.
TakesPeersAlways == TRUE

TakesPeers == iface.mode = "observed"

\* replaceAddresses: those of the file and of the device
ReplaceAddresses(s) == s.file.nets \cup s.dev.nets

\* upsertPeer, for every peer seen: its AllowedIPs are replaced, and all of them
\* become tunnel addresses.  Peers that are gone from the host keep their rows.
UpsertPeers(seen) ==
  /\ ips' = [p \in Peers |-> IF seen[p] # {} THEN seen[p] ELSE ips[p]]
  /\ routed' = {r \in routed : seen[r[1]] = {}}

ReplaceInventory ==
  /\ mode \in {"starting", "serving"} /\ scan # NoScan
  /\ iface' = [iface EXCEPT !.hash = scan.file, !.nets = ReplaceAddresses(scan)]
  /\ IF TakesPeers THEN UpsertPeers(SeenIPs(scan)) ELSE UNCHANGED <<ips, routed>>
  /\ scan' = NoScan
  /\ UNCHANGED <<host, imports, ledger, secrets, ops, draft, call, agent, faults, edits>>

-----------------------------------------------------------------------------
(* What an adoption imports *)

Around(x) == {n \in iface.nets : x \in Contains[n]}

\* buildAdoptionImport refuses an interface without addresses, an address in two
\* pools and an address of two peers.
Importable ==
  /\ iface.nets # {}
  /\ \A p \in Known, x \in Prefixes :
       x \in ips[p] => /\ Cardinality(Around(x)) <= 1
                       /\ Around(x) # {} => \A q \in Known \ {p} : x \notin ips[q]

\* The rows of the inventory have the purpose tunnel_address (upsertPeer), so the
\* import changes the purpose of what lies in no pool, and of nothing else.
Allocations(o) ==
  {a \in [net : Nets, addr : Prefixes, peer : Peers, by : {o}] :
     a.addr \in ips[a.peer] /\ a.net \in Around(a.addr)}
Purposes == {r \in (Peers \X Prefixes) \ routed : r[2] \in ips[r[1]] /\ Around(r[2]) = {}}

\* inspect: the row is observed, at the revision, and its hash is the file's.
Inspected(rev) == iface.mode = "observed" /\ iface.rev = rev /\ iface.hash = file /\ file.ok

-----------------------------------------------------------------------------
(* Preview *)

\* inspect and PreviewAdoptionImport, whose reads are one step here.  The plan the
\* administrator is shown is stored, and not looked at again.
Preview(a) ==
  /\ mode = "serving" /\ draft[a] = NoDraft /\ \E o \in Ops : ops[o].state = "none"
  /\ Inspected(iface.rev) /\ Importable
  /\ draft' = [draft EXCEPT ![a] = [rev |-> iface.rev, hash |-> file]]
  /\ UNCHANGED <<host, scan, db, call, agent, faults, edits>>

NextOp == CHOOSE o \in Ops : ops[o].state = "none" /\ \A q \in 1..(o - 1) : ops[q].state # "none"

\* CreateOperation expires the administrator's own pending preview and refuses an
\* interface with an operation in progress.
CreateOperation(a) ==
  /\ draft[a] # NoDraft /\ \E o \in Ops : ops[o].state = "none"
  /\ LET superseded == {o \in Ops : ops[o].actor = a /\ ops[o].state = "pending"}
     IN ops' = IF \E o \in Ops \ superseded : ops[o].state \in Active THEN ops
               ELSE [o \in Ops |->
                       IF o \in superseded THEN [ops[o] EXCEPT !.state = "expired"]
                       ELSE IF o = NextOp
                       THEN [state |-> "pending", actor |-> a, rev |-> draft[a].rev,
                             hash |-> draft[a].hash]
                       ELSE ops[o]]
  /\ draft' = [draft EXCEPT ![a] = NoDraft]
  /\ UNCHANGED <<host, scan, iface, rows, imports, ledger, secrets, call, agent, faults, edits>>

-----------------------------------------------------------------------------
(* Commit *)

Frame == UNCHANGED <<host, scan, draft, mode, todo, edits>>

\* Of several commits of an operation all but one end at Validate, unfelt.
Commit(o) ==
  /\ mode = "serving" /\ call[o].pc = "idle" /\ ops[o].state = "pending"
  /\ Goto(o, "inspect")
  /\ UNCHANGED <<db, faults>> /\ Frame

\* ... or the preview has expired by now.
CommitExpired(o) ==
  /\ mode = "serving" /\ call[o].pc = "idle" /\ ops[o].state = "pending"
  /\ TransitionOperation(o, "pending", "expired", UNCHANGED <<call, failed>>,
                         UNCHANGED <<call, failed>>)
  /\ Frame

Inspect(o) ==
  /\ call[o].pc = "inspect" /\ UNCHANGED db
  /\ \/ Works(o) /\ Inspected(ops[o].rev) /\ file = ops[o].hash /\ Goto(o, "validate")
     \/ Works(o) /\ ~(Inspected(ops[o].rev) /\ file = ops[o].hash) /\ Return(o, TRUE)
     \/ Breaks(o) /\ Return(o, TRUE)
  /\ Frame

Validate(o) ==
  /\ call[o].pc = "validate"
  /\ TransitionOperation(o, "pending", "validated", Goto(o, "prepare"), Return(o, TRUE))
  /\ Frame

\* The master key, the snapshot's envelope and synchronizedPSKs, which seals the
\* preshared keys of the file that was inspected: their owners must be known.
Prepare(o) ==
  /\ call[o].pc = "prepare" /\ UNCHANGED db
  /\ \/ Works(o) /\ ops[o].hash.psk \subseteq Known /\ Goto(o, "snapshot")
     \/ Works(o) /\ ~(ops[o].hash.psk \subseteq Known) /\ Goto(o, "reject")
     \/ Breaks(o) /\ Goto(o, "reject")
  /\ Frame

SnapshotOperation(o) ==
  /\ call[o].pc = "snapshot"
  /\ Write(o, ops[o].state = "validated",
           /\ SetState(o, "snapshotted")
           /\ staged' = [staged EXCEPT ![o] = ops[o].hash.psk]
           /\ envelopes' = envelopes \cup {<<o, p>> : p \in ops[o].hash.psk}
           /\ UNCHANGED <<iface, rows, imports, ledger>>,
           Goto(o, "begin"), Goto(o, "reject"))
  /\ Frame

\* rejectValidated, and recoverOne for a validated operation
Reject(o) ==
  /\ call[o].pc = "reject"
  /\ TransitionOperation(o, "validated", "rejected", Return(o, FALSE), Return(o, TRUE))
  /\ Frame

Begin(o) ==
  /\ call[o].pc = "begin"
  /\ TransitionOperation(o, "snapshotted", "executing", Goto(o, "apply"), Return(o, TRUE))
  /\ Frame

\* The conflicts ApplyAdoption looks for, and the unique keys of what it inserts
Applies(o) ==
  /\ ops[o].state = "executing"
  /\ iface.mode = "observed" /\ iface.rev = ops[o].rev /\ iface.hash = ops[o].hash
  /\ Importable /\ \A n \in iface.nets : pool[n] = 0

\* importAdoptionMetadata makes a profile for every peer without one, so
\* attachStagedAdoptionSecrets finds them all and makes none.
ImportAdoptionMetadata(o) ==
  LET without == {p \in Known : profile[p] = 0}
  IN /\ profile' = [p \in Peers |-> IF p \in without THEN o ELSE profile[p]]
     /\ pool' = [n \in Nets |-> IF n \in iface.nets THEN o ELSE pool[n]]
     /\ allocs' = allocs \cup Allocations(o)
     /\ routed' = routed \cup Purposes
     /\ ledger' = [ledger EXCEPT ![o] =
                     [profiles |-> without, pools |-> iface.nets, allocs |-> Allocations(o),
                      purposes |-> Purposes]]
AttachStagedSecrets(o) == psk' = [p \in Peers |-> IF p \in staged[o] THEN o ELSE psk[p]]

ApplyAdoption(o) ==
  /\ call[o].pc = "apply"
  /\ Write(o, Applies(o),
           /\ iface' = [iface EXCEPT !.mode = "adopted", !.rev = @ + 1, !.by = o]
           /\ ImportAdoptionMetadata(o) /\ AttachStagedSecrets(o)
           /\ SetState(o, "verifying") /\ UNCHANGED <<ips, secrets>>,
           Goto(o, IF call[o].boot THEN "metadata" ELSE "verify"),
           IF call[o].boot THEN Goto(o, "reload")
           ELSE call' = [call EXCEPT ![o].pc = "undo", ![o].from = "executing"] /\ UNCHANGED failed)
  /\ Frame

\* The commit looks at mode and revision, the recovery at the hash as well.
Verified(o) ==
  /\ iface.mode = "adopted" /\ iface.rev = ops[o].rev + 1
  /\ call[o].boot => iface.hash = ops[o].hash

Verify(o) ==
  /\ call[o].pc = "verify" /\ UNCHANGED db
  /\ \/ Works(o) /\ Verified(o) /\ Goto(o, "finalize")
     \/ /\ (Works(o) /\ ~Verified(o)) \/ Breaks(o)
        /\ call' = [call EXCEPT ![o].pc = "undo", ![o].from = "verifying"] /\ UNCHANGED failed
  /\ Frame

FinalizeAdoption(o) ==
  /\ call[o].pc = "finalize"
  /\ Write(o, ops[o].state = "verifying",
           /\ SetState(o, "committed")
           /\ staged' = [staged EXCEPT ![o] = {}] /\ ledger' = [ledger EXCEPT ![o] = NoLedger]
           /\ UNCHANGED <<iface, rows, imports, envelopes>>,
           Return(o, FALSE), Return(o, TRUE))
  /\ Frame

-----------------------------------------------------------------------------
(* Rollback *)

\* Mistake: an operation that cannot be moved is skipped.
UndoQuietly(o) ==
  /\ call[o].pc = "undo"
  /\ TransitionOperation(o, call[o].from, "rolling_back", Goto(o, "rollback"), Return(o, FALSE))
  /\ Frame

Undo(o) ==
  /\ call[o].pc = "undo"
  /\ TransitionOperation(o, call[o].from, "rolling_back", Goto(o, "rollback"), Return(o, TRUE))
  /\ Frame

\* Mistake: the purposes the import has changed stay changed.
RollbackImportsPurposesKept(o) ==
  /\ routed' = routed
  /\ allocs' = allocs \ ledger[o].allocs
  /\ profile' = [p \in Peers |-> IF p \in ledger[o].profiles THEN 0 ELSE profile[p]]
  /\ pool' = [n \in Nets |-> IF n \in ledger[o].pools THEN 0 ELSE pool[n]]

\* rollbackAdoptionImports
RollbackImports(o) ==
  /\ routed' = routed \ ledger[o].purposes
  /\ allocs' = allocs \ ledger[o].allocs
  /\ profile' = [p \in Peers |-> IF p \in ledger[o].profiles THEN 0 ELSE profile[p]]
  /\ pool' = [n \in Nets |-> IF n \in ledger[o].pools THEN 0 ELSE pool[n]]

RolledBackRow(o) ==
  IF iface.mode = "adopted" THEN [iface EXCEPT !.mode = "observed", !.rev = ops[o].rev, !.by = 0]
  ELSE iface

\* Mistake: only the record of the staged secrets goes.
RollbackSecretsKeepsEnvelopes(o) ==
  /\ psk' = [p \in Peers |-> IF p \in staged[o] /\ psk[p] = o THEN 0 ELSE psk[p]]
  /\ staged' = [staged EXCEPT ![o] = {}] /\ UNCHANGED envelopes

\* The staged secrets leave their profiles and are deleted.
RollbackSecrets(o) ==
  /\ psk' = [p \in Peers |-> IF p \in staged[o] /\ psk[p] = o THEN 0 ELSE psk[p]]
  /\ staged' = [staged EXCEPT ![o] = {}]
  /\ envelopes' = envelopes \ {<<o, p>> : p \in staged[o]}

RollbackApplies(o) ==
  /\ ops[o].state = "rolling_back"
  /\ \/ iface.mode = "observed" /\ iface.rev = ops[o].rev
     \/ iface.mode = "adopted" /\ iface.rev = ops[o].rev + 1 /\ iface.by = o

RollbackAdoption(o) ==
  /\ call[o].pc = "rollback"
  /\ Write(o, RollbackApplies(o),
           /\ RollbackImports(o) /\ RollbackSecrets(o) /\ iface' = RolledBackRow(o)
           /\ ledger' = [ledger EXCEPT ![o] = NoLedger]
           /\ SetState(o, "rolled_back") /\ UNCHANGED ips,
           Return(o, FALSE), Goto(o, "block"))
  /\ Frame

\* rollbackOrBlock, after RollbackAdoption failed
Block(o) ==
  /\ call[o].pc = "block"
  /\ TransitionOperation(o, "rolling_back", "rollback_failed", Return(o, TRUE), Return(o, TRUE))
  /\ Frame

-----------------------------------------------------------------------------
(* Start and recovery *)

\* The start refreshes once, at most.
StartAgent ==
  /\ mode = "down" /\ mode' = "starting" /\ failed' = FALSE
  /\ UNCHANGED <<host, scan, db, draft, call, todo, faults, edits>>

\* Recover reads the journal.  One operation of an interface is active at most.
RecoverableOperations ==
  /\ mode = "starting" /\ scan' = NoScan
  /\ \/ /\ mode' = "recovering" /\ todo' = {o \in Ops : ops[o].state \in Active}
        /\ UNCHANGED faults
     \/ Fault /\ mode' = "down" /\ todo' = {}
  /\ UNCHANGED <<host, db, draft, call, failed, edits>>

RecoverOne ==
  /\ mode = "recovering" /\ \A o \in Ops : call[o].pc = "idle"
  /\ \E o \in todo :
       LET at(l, from) == call' = [call EXCEPT ![o] =
                                     [pc |-> l, from |-> from, gone |-> FALSE, boot |-> TRUE]]
       IN /\ todo' = todo \ {o}
          /\ CASE ops[o].state = "pending" -> at("expire", "none")
               [] ops[o].state = "validated" -> at("reject", "none")
               [] ops[o].state = "snapshotted" -> at("undo", "snapshotted")
               [] ops[o].state = "executing" -> at("apply", "none")
               [] ops[o].state = "verifying" -> at("metadata", "none")
               [] ops[o].state = "rolling_back" -> at("rollback", "none")
               [] ops[o].state = "rollback_failed" -> UNCHANGED call
  /\ UNCHANGED <<host, scan, db, draft, mode, failed, faults, edits>>

Expire(o) ==
  /\ call[o].pc = "expire"
  /\ TransitionOperation(o, "pending", "expired", Return(o, FALSE), Return(o, TRUE))
  /\ Frame

\* Mistake: an adoption that cannot be applied is left for the next start.
ReloadReturns(o) ==
  /\ call[o].pc = "reload" /\ UNCHANGED db
  /\ \/ Works(o) /\ ops[o].state = "verifying" /\ Goto(o, "verify")
     \/ Works(o) /\ ops[o].state # "verifying" /\ Return(o, TRUE)
     \/ Breaks(o) /\ Return(o, TRUE)
  /\ Frame

\* ApplyAdoption has failed: was it stored nevertheless?
Reload(o) ==
  /\ call[o].pc = "reload" /\ UNCHANGED db
  /\ \/ Works(o) /\ ops[o].state = "verifying" /\ Goto(o, "verify")
     \/ /\ (Works(o) /\ ops[o].state # "verifying") \/ Breaks(o)
        /\ call' = [call EXCEPT ![o].pc = "undo", ![o].from = "executing"] /\ UNCHANGED failed
  /\ Frame

GetOperationMetadata(o) ==
  /\ call[o].pc = "metadata" /\ UNCHANGED db
  /\ \/ Works(o) /\ Goto(o, "verify")
     \/ Breaks(o) /\ Return(o, TRUE)
  /\ Frame

\* The agent serves, or exits when an operation could not be recovered.
RecoverEnd ==
  /\ mode = "recovering" /\ todo = {} /\ \A o \in Ops : call[o].pc = "idle"
  /\ mode' = IF failed THEN "down" ELSE "serving"
  /\ UNCHANGED <<host, scan, db, draft, call, todo, failed, faults, edits>>

-----------------------------------------------------------------------------
(* The environment *)

Crash ==
  /\ mode # "down" /\ Fault
  /\ mode' = "down" /\ todo' = {} /\ failed' = FALSE /\ scan' = NoScan
  /\ call' = [o \in Ops |-> Idle] /\ draft' = [a \in Actors |-> NoDraft]
  /\ UNCHANGED <<host, db, edits>>

EndContext(o) ==
  /\ call[o].pc # "idle" /\ ~call[o].gone /\ ~call[o].boot /\ Fault
  /\ call' = [call EXCEPT ![o].gone = TRUE]
  /\ UNCHANGED <<host, scan, db, draft, agent, edits>>

\* An editor changes the file; wg or ip changes the device.
Change ==
  /\ edits < MaxEdits /\ edits' = edits + 1
  /\ \/ file' \in Files \ {file} /\ UNCHANGED dev
     \/ dev' \in Devices \ {dev} /\ UNCHANGED file
  /\ UNCHANGED <<scan, db, draft, call, agent, faults>>

-----------------------------------------------------------------------------
Work(o) ==
  \/ Inspect(o) \/ Validate(o) \/ Prepare(o) \/ SnapshotOperation(o) \/ Reject(o) \/ Begin(o)
  \/ ApplyAdoption(o) \/ Verify(o) \/ FinalizeAdoption(o) \/ Undo(o) \/ RollbackAdoption(o)
  \/ Block(o) \/ Expire(o) \/ Reload(o) \/ GetOperationMetadata(o)

NoOp == [state |-> "none", actor |-> CHOOSE a \in Actors : TRUE, rev |-> 0,
         hash |-> CHOOSE f \in Files : TRUE]

\* An interface wg-quick runs, as the first refresh has seen it
Init ==
  /\ file \in Files /\ dev \in Devices /\ scan = NoScan
  /\ LET s == [file |-> file, dev |-> dev]
     IN /\ iface = [mode |-> "observed", rev |-> 0, hash |-> file, by |-> 0,
                    nets |-> file.nets \cup dev.nets]
        /\ ips = SeenIPs(s)
  /\ routed = {} /\ profile = [p \in Peers |-> 0] /\ psk = [p \in Peers |-> 0]
  /\ pool = [n \in Nets |-> 0] /\ allocs = {} /\ ledger = [o \in Ops |-> NoLedger]
  /\ staged = [o \in Ops |-> {}] /\ envelopes = {} /\ ops = [o \in Ops |-> NoOp]
  /\ draft = [a \in Actors |-> NoDraft] /\ call = [o \in Ops |-> Idle]
  /\ mode = "serving" /\ todo = {} /\ failed = FALSE /\ faults = 0 /\ edits = 0

Next ==
  \/ Scan \/ ReplaceInventory \/ Change \/ Crash
  \/ \E a \in Actors : Preview(a) \/ CreateOperation(a)
  \/ \E o \in Ops : Commit(o) \/ CommitExpired(o) \/ Work(o) \/ EndContext(o)
  \/ StartAgent \/ RecoverableOperations \/ RecoverOne \/ RecoverEnd

Spec == Init /\ [][Next]_vars

\* A started request and the start-up run on; systemd restarts the agent.
FairSpec ==
  /\ Spec
  /\ \A o \in Ops : WF_vars(Work(o))
  /\ WF_vars(StartAgent) /\ WF_vars(RecoverableOperations) /\ WF_vars(RecoverOne)
  /\ WF_vars(RecoverEnd)

-----------------------------------------------------------------------------
(* Properties *)

PCs == {"idle", "inspect", "validate", "prepare", "snapshot", "reject", "begin", "apply", "verify",
        "finalize", "undo", "rollback", "block", "expire", "reload", "metadata"}
AllAllocs == [net : Nets, addr : Prefixes, peer : Peers, by : Ops]
InterfaceRows ==
  [mode : {"observed", "adopted"}, rev : {0, 1}, hash : Files, by : Ops \cup {0}, nets : SUBSET Nets]
LedgerRows ==
  [profiles : SUBSET Peers, pools : SUBSET Nets, allocs : SUBSET AllAllocs,
   purposes : SUBSET (Peers \X Prefixes)]
OperationRows == [state : States, actor : Actors, rev : {0, 1}, hash : Files]
Drafts == [rev : {0, 1}, hash : Files]
Calls == [pc : PCs, from : States, gone : BOOLEAN, boot : BOOLEAN]

\* The types of rows, host and requests.  The revision of an interface counts its
\* one adoption.
TypeOK ==
  /\ file \in Files /\ dev \in Devices /\ scan \in Scans \cup {NoScan}
  /\ iface \in InterfaceRows /\ ips \in PeerIPs /\ routed \subseteq Peers \X Prefixes
  /\ profile \in [Peers -> Ops \cup {0}] /\ psk \in [Peers -> Ops \cup {0}]
  /\ pool \in [Nets -> Ops \cup {0}] /\ allocs \subseteq AllAllocs
  /\ ledger \in [Ops -> LedgerRows]
  /\ staged \in [Ops -> SUBSET Peers] /\ envelopes \subseteq Ops \X Peers
  /\ ops \in [Ops -> OperationRows] /\ draft \in [Actors -> Drafts \cup {NoDraft}]
  /\ call \in [Ops -> Calls]
  /\ mode \in {"down", "starting", "recovering", "serving"} /\ todo \subseteq Ops
  /\ failed \in BOOLEAN /\ faults \in 0..MaxFaults /\ edits \in 0..MaxEdits

\* Nothing of an adoption is there while the interface is observed: the import and
\* its rollback are whole, across refreshes, failures and restarts.
ObservedIsUntouched ==
  iface.mode = "observed" =>
    /\ \A p \in Peers : profile[p] = 0 /\ psk[p] = 0
    /\ \A n \in Nets : pool[n] = 0
    /\ allocs = {} /\ routed = {} /\ iface.rev = 0
    /\ \A o \in Ops : ledger[o] = NoLedger /\ ops[o].state # "committed"

\* An adopted interface can be worked with at once: every peer has a profile, an
\* address in a pool is allocated to its peer, what is in none is routed, and
\* the preshared keys are those of the file that was adopted ("so the adopted
\* interface is immediately usable for both old-peer lifecycle and new-peer
\* enrollment", ApplyAdoption).
AdoptedIsComplete ==
  iface.mode = "adopted" =>
    /\ \A p \in Known : profile[p] # 0
    /\ \A p \in Known : \A x \in ips[p] :
         LET here == {n \in Nets : pool[n] # 0 /\ x \in Contains[n]}
         IN /\ (<<p, x>> \in routed) = (here = {})
            /\ \A n \in here : {a.peer : a \in {b \in allocs : b.net = n /\ b.addr = x}} = {p}
    /\ \A p \in ops[iface.by].hash.psk : psk[p] = iface.by

\* A sealed preshared key belongs to an operation that can still be rolled back or
\* to the profile that uses it; no other is left in the database, and no profile
\* refers to one that is gone.
NoOrphanSecret ==
  /\ \A s \in envelopes : \/ ops[s[1]].state \in UnderWay /\ s[2] \in staged[s[1]]
                          \/ ops[s[1]].state = "committed" /\ psk[s[2]] = s[1]
  /\ \A p \in Peers : psk[p] # 0 => <<psk[p], p>> \in envelopes

\* "Recover resolves every durable adoption operation before the agent accepts new
\* mutations": an agent that begins to serve has none under way, but for the one
\* that is blocked.
ResolvedBeforeServing ==
  [][mode = "recovering" /\ mode' = "serving" =>
       \A o \in Ops : ops'[o].state \notin Active \ {"rollback_failed"}]_vars

\* An agent that is down serves again, whatever an adoption has come to.
AgentServes == mode = "down" ~> mode = "serving"
=============================================================================
