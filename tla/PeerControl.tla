---------------------------- MODULE PeerControl ----------------------------
(***************************************************************************)
(* Peer operations of the agent on one managed interface:                  *)
(*   src/src/internal/agent/control/peer.go, peer_update.go,               *)
(*   peer_lifecycle.go and the recovery in interface.go, over the stores   *)
(*   repository/operation_store.go, peer_store.go, peer_update_store.go,   *)
(*   peer_lifecycle_store.go, control_store.go and the inventory refresh.  *)
(*                                                                         *)
(* Three stores have to agree: the configuration file (which an editor may *)
(* change at any time), the running WireGuard device and the database.     *)
(* Several callers run preview and commit concurrently, the inventory      *)
(* refresher rewrites the interface's row, a caller's context may end      *)
(* between any two calls, and the agent may be killed and restarted.       *)
(*                                                                         *)
(* A hash stands for the content it is the hash of.  A database call is    *)
(* one step; so is a change of the host.                                   *)
(***************************************************************************)
EXTENDS Integers, FiniteSets

CONSTANTS
  Peers,        \* public keys
  Specs,        \* what is configured for a peer (allowed IPs, endpoint, ...)
  Actors,       \* who asks
  Callers,      \* concurrent requests
  Boot,         \* the start-up recovery, as a caller
  Nobody,       \* no holder of the lock
  Types,        \* the operation types that are asked for
  MaxOps,       \* bound on the operations of a behaviour
  MaxEdits,     \* bound on the changes an editor makes to the file
  MaxToggles,   \* bound on how often the device is taken down, brought up or rebooted
  MaxFaults     \* bound on errors, ended contexts and crashes

AllTypes == {"create", "update", "disable", "enable", "revoke"}

ASSUME PeersAssumption == Peers # {}
ASSUME SpecsAssumption == Specs \subseteq Nat \ {0} /\ Specs # {}
ASSUME CallersAssumption == Boot \notin Callers /\ Nobody \notin Callers \cup {Boot}
ASSUME TypesAssumption == Types \subseteq AllTypes
ASSUME BoundsAssumption == {MaxOps, MaxEdits, MaxToggles, MaxFaults} \subseteq Nat

VARIABLES
  file,         \* the configuration file: peers, and how often it was edited by others
  run,          \* the device: up, and its peers
  left,         \* history: <<o, "file">> when operation o ended an attempt with its proposal in
                \* the file and did not know, <<o, "run">> when it passed over a running device
  dbi,          \* row of interfaces: revision, file_hash, runtime_present, drift_state
  applied,      \* row of config_revisions the interface points to
  peer,         \* rows of peers
  ops,          \* rows of operations, with the snapshot and what they left behind
  call,         \* the state of every caller
  lock,         \* holder of the interface's lock
  scan,         \* what a running refresh has read
  mode,         \* the agent: down, recovering, serving
  todo,         \* operations the running recovery has yet to look at
  failed,       \* the running recovery met an error
  faults, toggles

host == <<file, run, left>>
database == <<dbi, applied, peer, ops>>
agent == <<mode, todo, failed>>
vars == <<file, run, left, dbi, applied, peer, ops, call, lock, scan, mode, todo,
          failed, faults, toggles>>

Procs == Callers \cup {Boot}
Ops == 1..MaxOps
NoPeers == [p \in Peers |-> 0]
PeerMap == [Peers -> Specs \cup {0}]
NoHash == [peers |-> NoPeers, edit |-> -1]
Contents == [peers : PeerMap, edit : 0..MaxEdits]
Hashes == [peers : PeerMap, edit : -1..MaxEdits]   \* with the empty hash
Down == [up |-> FALSE, peers |-> NoPeers]

Active == {"pending", "validated", "snapshotted", "executing", "verifying", "rolling_back",
           "rollback_failed"}
States == Active \cup {"none", "committed", "rolled_back", "rejected", "expired"}

NoOp == [state |-> "none", type |-> "create", peer |-> CHOOSE p \in Peers : TRUE, spec |-> 0,
         actor |-> Nobody, exp |-> 0, orig |-> NoHash,
         snapO |-> NoHash, snapP |-> NoHash, revs |-> 0, audits |-> 0]
Idle == [pc |-> "idle", op |-> 0, plan |-> NoOp, up |-> FALSE, conf |-> NoHash, old |-> 0,
         mayFile |-> FALSE, err |-> FALSE, gone |-> FALSE]

Op(c) == ops[call[c].op]
SetState(o, s) == ops' = [ops EXCEPT ![o].state = s]

Fault == faults < MaxFaults /\ faults' = faults + 1
\* A call that takes the request's context works, or does not: for ever once
\* the context has ended, now and then before.
Works(c) == ~call[c].gone /\ UNCHANGED faults
Breaks(c) == IF call[c].gone THEN UNCHANGED faults ELSE Fault

Goto(c, l) == call' = [call EXCEPT ![c].pc = l]
Return(c) == /\ call' = [call EXCEPT ![c] = Idle]
             /\ lock' = IF lock = c THEN Nobody ELSE lock
             /\ failed' = (failed \/ c = Boot)

\* TransitionOperation: a compare-and-swap of the operation's state.  The write
\* may take effect although an error comes back.
TransitionOk(c, from, to) == Works(c) /\ Op(c).state = from /\ SetState(call[c].op, to)
TransitionErr(c, from, to) ==
  \/ Works(c) /\ Op(c).state # from /\ UNCHANGED ops
  \/ Breaks(c) /\ UNCHANGED ops
  \/ ~call[c].gone /\ Fault /\ Op(c).state = from /\ SetState(call[c].op, to)

-----------------------------------------------------------------------------
(* Preview *)

\* Mistake: the drift of the last refresh is taken for that of now.
UnchangedSinceRefresh(exp) == dbi.rev = exp /\ ~dbi.drift

\* What every preflight asks: the expected revision, no drift, the recorded file
Unchanged(exp) == dbi.rev = exp /\ ~dbi.drift /\ file = dbi.file

\* preflightPeer does not ask whether the key is known: an external key may be.
PreflightPeer(exp) == Unchanged(exp)
PreflightPeerUpdate(p, exp) == Unchanged(exp) /\ peer[p].life = "active" /\ file.peers[p] # 0
PreflightPeerLifecycle(type, p, exp) ==
  Unchanged(exp) /\ peer[p].life = IF type = "enable" THEN "disabled" ELSE "active"

\* The preview up to the insert, for an operation that has passed its preflight
Plan(c, type, p, s) ==
  /\ mode = "serving" /\ call[c].pc = "idle" /\ type \in Types
  /\ \E a \in Actors :
       call' = [call EXCEPT ![c] = [Idle EXCEPT
         !.pc = "plan",
         !.plan = [NoOp EXCEPT !.state = "pending", !.type = type, !.peer = p, !.spec = s,
                               !.actor = a, !.exp = dbi.rev, !.orig = dbi.file]]]
  /\ UNCHANGED <<host, database, lock, scan, agent, faults, toggles>>

PreviewCreatePeer(c) ==
  \E p \in Peers, s \in Specs : PreflightPeer(dbi.rev) /\ Plan(c, "create", p, s)
PreviewUpdatePeer(c) ==
  \E p \in Peers, s \in Specs : PreflightPeerUpdate(p, dbi.rev) /\ Plan(c, "update", p, s)
PreviewPeerLifecycle(c) ==
  \E t \in {"disable", "enable", "revoke"}, p \in Peers :
    PreflightPeerLifecycle(t, p, dbi.rev) /\ Plan(c, t, p, 0)

Preview(c) == PreviewCreatePeer(c) \/ PreviewUpdatePeer(c) \/ PreviewPeerLifecycle(c)

\* A pending preview of the same actor for the same action is superseded.
Superseded(o, new) ==
  ops[o].state = "pending" /\ ops[o].actor = new.actor /\ ops[o].type = new.type

\* Mistake: a preview nobody has committed yet does not count as in progress.
InProgressStarted(o, new) == ops[o].state \in Active \ {"pending"}

InProgress(o, new) == ops[o].state \in Active /\ ~Superseded(o, new)

\* CreateOperation: one transaction, undone as a whole when it is refused.
CreateOperation(c) ==
  /\ call[c].pc = "plan"
  /\ LET new == call[c].plan
         free == {o \in Ops : ops[o].state = "none"}
         allowed == ~call[c].gone /\ free # {} /\ \A o \in Ops : ~InProgress(o, new)
     IN IF allowed
        THEN ops' = [o \in Ops |-> IF Superseded(o, new) THEN [ops[o] EXCEPT !.state = "expired"]
                                   ELSE IF o \in free /\ \A q \in free : o <= q THEN new
                                   ELSE ops[o]]
        ELSE UNCHANGED ops
  /\ Return(c)
  /\ UNCHANGED <<host, dbi, applied, peer, scan, mode, todo, faults, toggles>>

-----------------------------------------------------------------------------
(* Commit *)

\* What a commit keeps of its preflight: runtime_present, the file and the peer.
WithPreflight(r, o) ==
  [r EXCEPT !.up = dbi.up, !.conf = file, !.old = peer[ops[o].peer].spec]

\* A commit of a pending operation goes for the lock with what it has looked at.
ForLock(o) == [Idle EXCEPT !.pc = "lock", !.op = o]
Enter(c, o, r) ==
  /\ mode = "serving" /\ call[c].pc = "idle" /\ ops[o].state = "pending"
  /\ call' = [call EXCEPT ![c] = r]
  /\ UNCHANGED <<host, database, lock, scan, agent, faults, toggles>>

\* CommitCreatePeer looks after it has taken the lock, the others before.
CommitCreatePeer(c) ==
  \E o \in Ops : ops[o].type = "create" /\ Enter(c, o, ForLock(o))
CommitUpdatePeer(c) ==
  \E o \in Ops : /\ ops[o].type = "update" /\ PreflightPeerUpdate(ops[o].peer, ops[o].exp)
                 /\ Enter(c, o, WithPreflight(ForLock(o), o))
CommitPeerLifecycle(c) ==
  \E o \in Ops : /\ ops[o].type \in {"disable", "enable", "revoke"}
                 /\ PreflightPeerLifecycle(ops[o].type, ops[o].peer, ops[o].exp)
                 /\ Enter(c, o, WithPreflight(ForLock(o), o))

Commit(c) == CommitCreatePeer(c) \/ CommitUpdatePeer(c) \/ CommitPeerLifecycle(c)

\* lockInterface
Lock(c) ==
  /\ call[c].pc = "lock" /\ lock = Nobody /\ lock' = c
  /\ Goto(c, IF Op(c).type = "create" THEN "preflight" ELSE "validate")
  /\ UNCHANGED <<host, database, scan, agent, faults, toggles>>

CommitPreflight(c) ==
  /\ call[c].pc = "preflight"
  /\ IF ~call[c].gone /\ PreflightPeer(Op(c).exp)
     THEN /\ call' = [call EXCEPT ![c] = WithPreflight([@ EXCEPT !.pc = "validate"], @.op)]
          /\ UNCHANGED <<lock, failed>>
     ELSE Return(c)
  /\ UNCHANGED <<host, database, scan, mode, todo, faults, toggles>>

\* Mistake: the operation is validated whatever state it is in by now.
ValidateBlindly(c) ==
  /\ call[c].pc = "validate"
  /\ Works(c) /\ SetState(call[c].op, "validated") /\ Goto(c, "prepare")
  /\ UNCHANGED <<host, dbi, applied, peer, lock, scan, agent, toggles>>

\* Mistake: the lock is not given back when the operation is no longer pending.
ValidateHoldsLock(c) ==
  /\ call[c].pc = "validate"
  /\ \/ TransitionOk(c, "pending", "validated") /\ Goto(c, "prepare")
     \/ TransitionErr(c, "pending", "validated") /\ call' = [call EXCEPT ![c] = Idle]
  /\ UNCHANGED <<host, dbi, applied, peer, lock, scan, agent, toggles>>

Validate(c) ==
  /\ call[c].pc = "validate"
  /\ LET changed == Op(c).type \in {"create", "update"} /\ call[c].conf # Op(c).orig
     IN \/ /\ ~changed /\ TransitionOk(c, "pending", "validated")
           /\ Goto(c, "prepare") /\ UNCHANGED <<lock, failed>>
        \/ ~changed /\ TransitionErr(c, "pending", "validated") /\ Return(c)
        \/ changed /\ UNCHANGED <<ops, faults>> /\ Return(c)
  /\ UNCHANGED <<host, dbi, applied, peer, scan, mode, todo, toggles>>

\* Whether configdoc can patch the file, and the patched file
Patchable(o, conf) ==
  CASE o.type = "create" -> conf.peers[o.peer] = 0
    [] o.type = "enable" -> conf.peers[o.peer] = 0 /\ peer[o.peer].archive # 0
    [] OTHER -> conf.peers[o.peer] # 0
Patched(o, conf) ==
  [conf EXCEPT !.peers[o.peer] =
     CASE o.type \in {"create", "update"} -> o.spec
       [] o.type = "enable" -> peer[o.peer].archive
       [] OTHER -> 0]

\* SnapshotOperation
Snapshotted(o, conf) ==
  [ops EXCEPT ![o].state = "snapshotted", ![o].snapO = conf, ![o].snapP = Patched(ops[o], conf)]

\* The execute functions up to SnapshotOperation; rejectValidated on an error,
\* whose own result is ignored.
Prepare(c) ==
  /\ call[c].pc = "prepare"
  /\ LET o == call[c].op
     IN \/ /\ Patchable(ops[o], call[c].conf) /\ Works(c) /\ ops[o].state = "validated"
           /\ ops' = Snapshotted(o, call[c].conf)
           /\ Goto(c, "execute") /\ UNCHANGED <<lock, failed>>
        \/ /\ ~Patchable(ops[o], call[c].conf) /\ Return(c)
           /\ TransitionOk(c, "validated", "rejected") \/ TransitionErr(c, "validated", "rejected")
        \/ /\ Breaks(c) /\ Return(c)
           /\ \/ UNCHANGED ops
              \/ ~call[c].gone /\ ops[o].state = "validated" /\ SetState(o, "rejected")
  /\ UNCHANGED <<host, dbi, applied, peer, scan, mode, todo, toggles>>

\* Mistake: the host is changed although the journal could not be written.
BeginUnjournalled(c) ==
  /\ call[c].pc = "execute"
  /\ \/ TransitionOk(c, "snapshotted", "executing")
     \/ TransitionErr(c, "snapshotted", "executing")
  /\ Goto(c, "runtime")
  /\ UNCHANGED <<host, dbi, applied, peer, lock, scan, agent, toggles>>

Begin(c) ==
  /\ call[c].pc = "execute"
  /\ \/ /\ TransitionOk(c, "snapshotted", "executing")
        /\ Goto(c, "runtime") /\ UNCHANGED <<lock, failed>>
     \/ TransitionErr(c, "snapshotted", "executing") /\ Return(c)
  /\ UNCHANGED <<host, dbi, applied, peer, scan, mode, todo, toggles>>

\* What the device shows of the peer after the operation
Target(c) ==
  CASE Op(c).type \in {"create", "update"} -> Op(c).spec
    [] Op(c).type = "enable" -> call[c].old
    [] OTHER -> 0

Rollback(c, mayFile) ==
  call' = [call EXCEPT ![c].pc = "rb_begin", ![c].mayFile = mayFile]

Leaves(c, what) == left' = left \cup {<<call[c].op, what>>}

\* ApplyPeer or RemovePeer, when the preflight found the device up in the
\* interface's row.  An update also reads the peer's secrets first.
ApplyRuntime(c) ==
  /\ call[c].pc = "runtime"
  /\ LET changed == [run EXCEPT !.peers[Op(c).peer] = Target(c)]
     IN \/ /\ call[c].up /\ run.up /\ Works(c)
           /\ run' = changed /\ UNCHANGED left /\ Goto(c, "exchange")
        \/ /\ ~call[c].up /\ (Op(c).type = "update" => ~call[c].gone)
           /\ UNCHANGED <<run, faults>> /\ Goto(c, "exchange")
           /\ IF run.up THEN Leaves(c, "run") ELSE UNCHANGED left
        \/ call[c].up /\ ~run.up /\ UNCHANGED <<run, left, faults>> /\ Rollback(c, FALSE)
        \/ /\ call[c].up \/ Op(c).type = "update"
           /\ Breaks(c) /\ UNCHANGED left /\ Rollback(c, FALSE)
           /\ run' \in {run} \cup (IF call[c].up /\ run.up /\ ~call[c].gone THEN {changed} ELSE {})
  /\ UNCHANGED <<file, database, lock, scan, agent, toggles>>

\* ExchangeConfig, as a compare-and-swap; executePeerUpdate skips it when the
\* file does not change.  When it has exchanged, fails and cannot exchange back,
\* the proposal stays in the file; the callers take every error for a file as it
\* was.  A file edited under the exchange may be displaced that way.
Exchange(c) ==
  /\ call[c].pc = "exchange"
  /\ LET needed == Op(c).type # "update" \/ Op(c).snapP # Op(c).snapO
     IN \/ /\ needed => file = call[c].conf
           /\ file' = (IF needed THEN Op(c).snapP ELSE file) /\ UNCHANGED <<left, faults>>
           /\ call' = [call EXCEPT ![c].pc = "verify", ![c].mayFile = needed]
        \/ /\ needed /\ UNCHANGED <<file, left>> /\ Rollback(c, FALSE)
           /\ IF file = call[c].conf THEN Fault ELSE UNCHANGED faults
        \/ needed /\ Fault /\ file' = Op(c).snapP /\ Leaves(c, "file") /\ Rollback(c, FALSE)
  /\ UNCHANGED <<run, database, lock, scan, agent, toggles>>

\* InspectPeer, and the sealing of the peer's secrets
VerifyRuntime(c) ==
  /\ call[c].pc = "verify"
  /\ LET shown == run.up /\ run.peers[Op(c).peer] = Target(c)
     IN \/ (call[c].up => shown) /\ UNCHANGED faults /\ Goto(c, "complete")
        \/ /\ call[c].up \/ Op(c).type = "create"
           /\ IF call[c].up /\ ~shown THEN UNCHANGED faults ELSE Fault
           /\ Rollback(c, call[c].mayFile)
  /\ UNCHANGED <<host, database, lock, scan, agent, toggles>>

\* The row of the peer after CompletePeerCreate, CompletePeerUpdate, CompletePeerLifecycle
PeerCreated(o) == [life |-> "active", spec |-> o.spec, archive |-> 0]
PeerUpdated(r, o) == [r EXCEPT !.spec = o.spec]
LifecycleTarget(type) ==
  CASE type = "enable" -> "active" [] type = "revoke" -> "revoked" [] OTHER -> "disabled"
PeerMoved(r, o) ==
  [r EXCEPT !.life = LifecycleTarget(o.type),
            !.archive = IF o.type = "enable" THEN 0 ELSE o.snapO.peers[o.peer]]

CompletedPeer(r, o) ==
  CASE o.type = "create" -> PeerCreated(o)
    [] o.type = "update" -> PeerUpdated(r, o)
    [] OTHER -> PeerMoved(r, o)

\* Their checks; a key the interface already has violates a unique constraint.
Completable(c) ==
  /\ Op(c).state = "executing"
  /\ dbi.rev = Op(c).exp /\ dbi.file = call[c].conf
  /\ LET r == peer[Op(c).peer]
     IN CASE Op(c).type = "create" -> r.life = "none"
          [] Op(c).type = "update" -> r.life = "active"
          [] Op(c).type = "enable" -> r.archive # 0
          [] OTHER -> r.archive = 0

Complete(c) ==
  /\ call[c].pc = "complete"
  /\ LET o == call[c].op
     IN \/ /\ Completable(c) /\ Works(c)
           /\ peer' = [peer EXCEPT ![ops[o].peer] = CompletedPeer(@, ops[o])]
           /\ dbi' = [dbi EXCEPT !.rev = @ + 1, !.file = ops[o].snapP, !.drift = FALSE]
           /\ applied' = [file |-> ops[o].snapP, run |-> run]
           /\ ops' = [ops EXCEPT ![o].state = "verifying", ![o].revs = @ + 1]
           /\ Goto(c, "finalize")
        \/ /\ (~Completable(c) /\ Works(c)) \/ Breaks(c)
           /\ Rollback(c, call[c].mayFile) /\ UNCHANGED database
  /\ UNCHANGED <<host, lock, scan, agent, toggles>>

\* FinalizeControlOperation; when it fails the operation stays verifying.
Finalize(c) ==
  /\ call[c].pc = "finalize"
  /\ \/ /\ Works(c) /\ Op(c).state = "verifying"
        /\ ops' = [ops EXCEPT ![call[c].op].state = "committed", ![call[c].op].audits = @ + 1]
     \/ Breaks(c) /\ UNCHANGED ops
  /\ Return(c)
  /\ UNCHANGED <<host, dbi, applied, peer, scan, mode, todo, toggles>>

-----------------------------------------------------------------------------
(* Rollback: rollbackPeerCreate (the device first), rollbackPeerUpdate and    *)
(* rollbackLifecycle (the file first)                                         *)

RollbackBegin(c) ==
  /\ call[c].pc = "rb_begin"
  /\ LET started == ~call[c].gone /\ Op(c).state \in {"executing", "snapshotted"}
         onward == Goto(c, IF Op(c).type = "create" THEN "rb_run" ELSE "rb_file")
     IN \/ ~started /\ UNCHANGED <<ops, faults, lock, failed>> /\ onward
        \/ /\ started /\ TransitionOk(c, Op(c).state, "rolling_back")
           /\ UNCHANGED <<lock, failed>> /\ onward
        \/ /\ started /\ TransitionErr(c, Op(c).state, "rolling_back")
           /\ IF Op(c).type = "create" THEN Return(c) ELSE onward /\ UNCHANGED <<lock, failed>>
  /\ UNCHANGED <<host, dbi, applied, peer, scan, mode, todo, toggles>>

\* Mistake: the device is left as it is.
RollbackRuntimeSkipped(c) ==
  /\ call[c].pc = "rb_run"
  /\ Goto(c, IF Op(c).type = "create" THEN "rb_file" ELSE "rb_end")
  /\ UNCHANGED <<host, database, lock, scan, agent, faults, toggles>>

\* The rollback of a create looks first; when it cannot, it leaves the device alone.
\* So does every rollback whose row says that the device is down.
RollbackRuntime(c) ==
  /\ call[c].pc = "rb_run"
  /\ LET p == Op(c).peer
         before == IF Op(c).type \in {"create", "enable"} THEN 0 ELSE call[c].old
         needed == call[c].up /\ (Op(c).type = "create" => run.up /\ run.peers[p] # 0)
         to == [call EXCEPT ![c].pc = IF Op(c).type = "create" THEN "rb_file" ELSE "rb_end"]
     IN \/ /\ ~needed /\ UNCHANGED <<run, faults>> /\ call' = to
           /\ IF ~call[c].up /\ run.up THEN Leaves(c, "run") ELSE UNCHANGED left
        \/ /\ needed /\ run.up /\ Works(c) /\ UNCHANGED left
           /\ run' = [run EXCEPT !.peers[p] = before] /\ call' = to
        \/ /\ needed /\ UNCHANGED <<run, left>> /\ call' = [to EXCEPT ![c].err = TRUE]
           /\ IF run.up THEN Breaks(c) ELSE UNCHANGED faults
        \/ /\ Op(c).type = "create" /\ call[c].up /\ Fault
           /\ UNCHANGED run /\ Leaves(c, "run") /\ call' = to
  /\ UNCHANGED <<file, database, lock, scan, agent, toggles>>

\* Content of a third party stays; it is an error unless the operation is a
\* lifecycle change.  The exchange may fail after it has restored the file.
RollbackFile(c) ==
  /\ call[c].pc = "rb_file"
  /\ LET o == Op(c)
         proposed == call[c].mayFile /\ file = o.snapP
         other == call[c].mayFile /\ file # o.snapP /\ file # o.snapO
         foreign == other /\ o.type \in {"create", "update"}
         to == [call EXCEPT ![c].pc = IF o.type = "create" THEN "rb_end" ELSE "rb_run",
                            ![c].err = @ \/ foreign]
     IN \/ /\ proposed /\ file' = o.snapO /\ call' = to /\ UNCHANGED faults
           /\ left' = left \ {<<call[c].op, "file">>}
        \/ /\ call[c].mayFile /\ call' = [to EXCEPT ![c].err = TRUE] /\ Fault /\ UNCHANGED left
           /\ file' \in {file} \cup (IF file.peers = o.snapP.peers THEN {o.snapO} ELSE {})
        \/ /\ ~proposed /\ UNCHANGED <<file, faults>> /\ call' = to
           /\ IF other /\ ~foreign THEN Leaves(c, "file") ELSE UNCHANGED left
  /\ UNCHANGED <<run, database, lock, scan, agent, toggles>>

\* Mistake: what went wrong on the way is forgotten.
RollbackOutcomeIgnored(c) == "rolled_back"

RollbackOutcome(c) == IF call[c].err THEN "rollback_failed" ELSE "rolled_back"

\* FinishControlRollback, or the step to rollback_failed whose result is ignored
RollbackEnd(c) ==
  /\ call[c].pc = "rb_end"
  /\ LET to == RollbackOutcome(c)
     IN \/ /\ TransitionOk(c, "rolling_back", to)
           /\ IF call[c].err THEN Return(c)
              ELSE /\ call' = [call EXCEPT ![c] = Idle]
                   /\ lock' = IF lock = c THEN Nobody ELSE lock
                   /\ UNCHANGED failed
        \/ TransitionErr(c, "rolling_back", to) /\ Return(c)
  /\ UNCHANGED <<host, dbi, applied, peer, scan, mode, todo, toggles>>

-----------------------------------------------------------------------------
(* Inventory *)

\* What a refresh reads; a source that fails yields nothing.
Observed(fileOk, runOk) ==
  [file |-> IF fileOk THEN file ELSE NoHash, run |-> IF runOk THEN run ELSE Down]

ClassifyDrift(s) == s # applied

\* upsertInterface, for an interface some source has shown
Persisted(s) ==
  IF s.file = NoHash /\ ~s.run.up THEN dbi
  ELSE [dbi EXCEPT !.file = s.file, !.up = s.run.up, !.drift = ClassifyDrift(s)]

Sources(fileOk, runOk) ==
  IF fileOk /\ runOk THEN UNCHANGED faults ELSE Fault

\* Refresh reads the sources, and later replaces the inventory.
Scan ==
  /\ mode = "serving" /\ scan = {}
  /\ \E fileOk, runOk \in BOOLEAN :
       Sources(fileOk, runOk) /\ scan' = {Observed(fileOk, runOk)}
  /\ UNCHANGED <<host, database, call, lock, agent, toggles>>

ReplaceInventory ==
  /\ \E s \in scan : dbi' = Persisted(s)
  /\ scan' = {}
  /\ UNCHANGED <<host, applied, peer, ops, call, lock, agent, faults, toggles>>

-----------------------------------------------------------------------------
(* Start and recovery *)

\* Those of rollback_failed are listed too, and left alone.
RecoverableOperations == {o \in Ops : ops[o].state \in Active \ {"rollback_failed"}}

\* The first refresh may fail as a whole: the agent only warns.
Start ==
  /\ mode = "down" /\ mode' = "recovering"
  /\ todo' = RecoverableOperations
  /\ failed' = FALSE
  /\ \/ \E fileOk, runOk \in BOOLEAN :
          Sources(fileOk, runOk) /\ dbi' = Persisted(Observed(fileOk, runOk))
     \/ Fault /\ UNCHANGED dbi
  /\ UNCHANGED <<host, applied, peer, ops, call, lock, scan, toggles>>

\* recoverVerifying: the file and the database show what the operation proposed.
Agrees(o) == file = ops[o].snapP /\ dbi.file = ops[o].snapP

\* Mistake: an operation that needs an operator is reported, and stays verifying.
RecoveredStuck(o) ==
  [ops[o] EXCEPT !.state = CASE @ = "pending" -> "expired"
                             [] @ = "validated" -> "rejected"
                             [] @ = "verifying" /\ Agrees(o) -> "committed"
                             [] OTHER -> @,
                 !.audits = IF ops[o].state = "verifying" /\ Agrees(o) THEN @ + 1 ELSE @]

\* What Recover makes of an operation at once; a rollback comes on top.
Recovered(o) ==
  [ops[o] EXCEPT !.state = CASE @ = "pending" -> "expired"
                             [] @ = "validated" -> "rejected"
                             [] @ = "verifying" -> IF Agrees(o) THEN "committed" ELSE "rolling_back"
                             [] OTHER -> @,
                 !.audits = IF ops[o].state = "verifying" /\ Agrees(o) THEN @ + 1 ELSE @]

\* recoverSnapshotted: the rollback, from the snapshot and the rows of now
RecoverSnapshotted(o) ==
  WithPreflight([Idle EXCEPT !.pc = "rb_begin", !.op = o, !.mayFile = TRUE], o)

\* Recover, for the oldest operation left: recoverVerifying, recoverSnapshotted.
\* An error is kept for the end; the operation is as it was.
RecoverNext ==
  /\ mode = "recovering" /\ call[Boot].pc = "idle"
  /\ \E o \in todo :
       /\ \A q \in todo : o <= q
       /\ todo' = todo \ {o}
       /\ \/ /\ ops' = [ops EXCEPT ![o] = Recovered(o)]
             /\ call' = [call EXCEPT ![Boot] =
                  CASE ops[o].state \in {"snapshotted", "executing", "rolling_back"} ->
                         RecoverSnapshotted(o)
                    [] ops[o].state = "verifying" /\ ~Agrees(o) ->
                         [Idle EXCEPT !.pc = "manual", !.op = o]
                    [] OTHER -> Idle]
             /\ UNCHANGED <<failed, faults>>
          \/ Fault /\ failed' = TRUE /\ UNCHANGED <<ops, call>>
  /\ UNCHANGED <<host, dbi, applied, peer, lock, scan, mode, toggles>>

\* recoverVerifying without agreement: the second transition, and the error
RecoverManual ==
  /\ call[Boot].pc = "manual"
  /\ \/ TransitionOk(Boot, "rolling_back", "rollback_failed")
     \/ TransitionErr(Boot, "rolling_back", "rollback_failed")
  /\ Return(Boot)
  /\ UNCHANGED <<host, dbi, applied, peer, scan, mode, todo, toggles>>

\* The agent serves, or exits when an operation could not be recovered.
RecoverEnd ==
  /\ mode = "recovering" /\ call[Boot].pc = "idle" /\ todo = {}
  /\ mode' = IF failed THEN "down" ELSE "serving"
  /\ UNCHANGED <<host, database, call, lock, scan, todo, failed, faults, toggles>>

-----------------------------------------------------------------------------
(* The environment *)

Crash ==
  /\ mode # "down" /\ Fault
  /\ mode' = "down" /\ todo' = {} /\ failed' = FALSE
  /\ call' = [c \in Procs |-> Idle] /\ lock' = Nobody /\ scan' = {}
  /\ UNCHANGED <<host, database, toggles>>

EndContext(c) ==
  /\ call[c].pc # "idle" /\ ~call[c].gone /\ Fault
  /\ call' = [call EXCEPT ![c].gone = TRUE]
  /\ UNCHANGED <<host, database, lock, scan, agent, toggles>>

Edit ==
  /\ file.edit < MaxEdits /\ file' = [file EXCEPT !.edit = @ + 1]
  /\ UNCHANGED <<run, left, database, call, lock, scan, agent, faults, toggles>>

\* wg-quick takes the device down, or brings it up from the file.
Toggle ==
  /\ toggles < MaxToggles /\ toggles' = toggles + 1
  /\ run' = IF run.up THEN Down ELSE [up |-> TRUE, peers |-> file.peers]
  /\ UNCHANGED <<file, left, database, call, lock, scan, agent, faults>>

-----------------------------------------------------------------------------
\* The steps a caller or the recovery takes on its own once it has started
Work(c) ==
  \/ CreateOperation(c) \/ CommitPreflight(c) \/ Validate(c) \/ Prepare(c)
  \/ Begin(c) \/ ApplyRuntime(c) \/ Exchange(c) \/ VerifyRuntime(c) \/ Complete(c)
  \/ Finalize(c) \/ RollbackBegin(c) \/ RollbackRuntime(c) \/ RollbackFile(c)
  \/ RollbackEnd(c)

\* An interface in agreement with its database row, up or down
Init ==
  /\ \E managed \in SUBSET Peers, s \in Specs, up \in BOOLEAN :
       /\ file = [peers |-> [p \in Peers |-> IF p \in managed THEN s ELSE 0], edit |-> 0]
       /\ run = IF up THEN [up |-> TRUE, peers |-> file.peers] ELSE Down
       /\ peer = [p \in Peers |-> [life |-> IF p \in managed THEN "active" ELSE "none",
                                   spec |-> file.peers[p], archive |-> 0]]
       /\ dbi = [rev |-> 0, file |-> file, up |-> up, drift |-> FALSE]
  /\ left = {}
  /\ applied = [file |-> file, run |-> run]
  /\ ops = [o \in Ops |-> NoOp]
  /\ call = [c \in Procs |-> Idle] /\ lock = Nobody /\ scan = {}
  /\ mode = "serving" /\ todo = {} /\ failed = FALSE
  /\ faults = 0 /\ toggles = 0

Next ==
  \/ \E c \in Callers : Preview(c) \/ Commit(c) \/ Lock(c) \/ EndContext(c)
  \/ \E c \in Procs : Work(c)
  \/ Scan \/ ReplaceInventory
  \/ Start \/ RecoverNext \/ RecoverManual \/ RecoverEnd
  \/ Crash \/ Edit \/ Toggle

Spec == Init /\ [][Next]_vars

\* A started request and the start-up run on; the lock is a sync.Mutex, which
\* does not starve a waiter; systemd restarts the agent.
FairSpec ==
  /\ Spec
  /\ \A c \in Procs : WF_vars(Work(c))
  /\ \A c \in Callers : SF_vars(Lock(c))
  /\ WF_vars(Start) /\ WF_vars(RecoverNext \/ RecoverManual \/ RecoverEnd)

-----------------------------------------------------------------------------
(* Properties *)

PCs == {"idle", "plan", "lock", "preflight", "validate", "prepare", "execute", "runtime",
        "exchange", "verify", "complete", "finalize", "rb_begin", "rb_run", "rb_file",
        "rb_end", "manual"}
OpRecords ==
  [state : States, type : AllTypes, peer : Peers, spec : Specs \cup {0}, actor : Actors \cup {Nobody},
   exp : Nat, orig : Hashes, snapO : Hashes, snapP : Hashes, revs : Nat, audits : Nat]

DeviceStates == [up : BOOLEAN, peers : PeerMap]
PeerRows ==
  [life : {"none", "active", "disabled", "revoked"}, spec : Specs \cup {0},
   archive : Specs \cup {0}]
CallRecords ==
  [pc : PCs, op : Ops \cup {0}, plan : OpRecords, up : BOOLEAN, conf : Hashes,
   old : Specs \cup {0}, mayFile : BOOLEAN, err : BOOLEAN, gone : BOOLEAN]

\* The types of the rows, of the host's state and of every caller; and the lock
\* is held only by a request, never by the recovery.
TypeOK ==
  /\ file \in Hashes
  /\ run \in DeviceStates
  /\ left \subseteq Ops \X {"file", "run"}
  /\ dbi \in [rev : Nat, file : Hashes, up : BOOLEAN, drift : BOOLEAN]
  /\ applied \in [file : Hashes, run : DeviceStates]
  /\ peer \in [Peers -> PeerRows]
  /\ ops \in [Ops -> OpRecords]
  /\ call \in [Procs -> CallRecords]
  /\ lock \in Callers \cup {Nobody}
  /\ scan \subseteq [file : Hashes, run : DeviceStates]
  /\ mode \in {"down", "recovering", "serving"} /\ todo \subseteq Ops /\ failed \in BOOLEAN
  /\ faults \in 0..MaxFaults /\ toggles \in 0..MaxToggles

\* The interface never has two operations in progress (CreateOperation refuses
\* the second), whatever is previewed, committed and recovered concurrently.
OneInProgress ==
  \A o, q \in Ops : ops[o].state \in Active /\ ops[q].state \in Active => o = q

\* How far an operation has come, by what its row says
Stage(r) ==
  CASE r.state = "none" -> "none"
    [] r.state = "pending" -> "asked"
    [] r.state \in {"rejected", "expired"} -> "dropped"
    [] r.state = "rolled_back" -> IF r.revs = 0 THEN "dropped" ELSE "disowned"
    [] r.state = "committed" -> "audited"
    [] OTHER -> IF r.revs = 0 THEN "begun" ELSE "applied"
Request(r) == [type |-> r.type, peer |-> r.peer, spec |-> r.spec, base |-> r.exp]

\* Concurrent previews, commits, refreshes, crashes and recoveries add up to one change
\* of the rows after another: no second operation is begun beside one in progress
\* (CreateOperation), each change is of the revision its preview saw and applies once and
\* wholly (Complete*), a revoked peer stays so, the archive holds what was in force, and
\* the recorded configuration is the one the rows ask for.
Promise == INSTANCE PeerLedger WITH
  rows <- peer, recorded <- applied.file.peers, rev <- dbi.rev,
  asked <- [o \in Ops |-> Request(ops[o])], stage <- [o \in Ops |-> Stage(ops[o])]
IsLedger == Promise!Spec

\* However often an operation is committed, fails half-way or is recovered, it
\* counts once in the interface's revision and is audited exactly when it is
\* committed (Complete*, FinalizeControlOperation).
AccountedOnce ==
  /\ \A o \in Ops : /\ ops[o].audits <= ops[o].revs /\ ops[o].revs <= 1
                    /\ ops[o].state = "committed" <=> ops[o].audits = 1
  /\ dbi.rev = Cardinality({o \in Ops : ops[o].revs = 1})

\* An operation whose metadata was completed is rolled back all the same
Undone(o) == ops[o].state \in {"rolling_back", "rollback_failed", "rolled_back"} /\ ops[o].revs > 0

\* The operation left its proposal in the file: its exchange failed after the fact
\* and could not be taken back (ExchangeConfig), or its proposal was edited before a
\* lifecycle change was rolled back (rollbackLifecycle).
InFile(o) == <<o, "file">> \in left
\* The operation passed over a device that runs, because the row said that it is
\* down, or because the rollback of a create could not look (rollbackPeerCreate).
OnDevice(o) == <<o, "run">> \in left

\* A file whose peers differ from the recorded revision's is explained by an
\* operation that still says so and whose snapshot can undo it: the snapshot is
\* durable before the host is touched, and stays until the host is restored; or
\* it is, unedited, what an operation proposed that is recorded as rolled back
\* and left it there.
HostChangeJournalled ==
  file.peers # applied.file.peers =>
    \E o \in Ops : \/ Undone(o)
                   \/ /\ \/ ops[o].state \in {"executing", "rolling_back", "rollback_failed"}
                         \/ ops[o].state = "rolled_back" /\ InFile(o)
                      /\ ops[o].snapO.peers = applied.file.peers
                      /\ ops[o].snapP.peers = file.peers

\* No operation goes to work on a file that an earlier one has left with its
\* proposal: the preflights compare the recorded hash and the drift of the last
\* refresh (preflightPeer and the others), and only they stand in the way, for the
\* earlier operation is recorded as rolled back.
StartsFromRecord ==
  \A o \in Ops : ops[o].state \in {"validated", "snapshotted"} => file.peers = applied.file.peers

\* Nothing has started that has not ended, and nothing completed was undone.
Quiet ==
  \A o \in Ops : ops[o].state \notin Active \ {"pending", "validated"} /\ ~Undone(o)

\* What the database asks for of a peer: its configuration while it is active
Wanted(p) == IF peer[p].life = "active" THEN peer[p].spec ELSE 0

\* Between operations the file holds what the database says of every peer, unless
\* an operation has left its proposal in it.
FileAgrees ==
  Quiet /\ (\A o \in Ops : ~InFile(o)) => \A p \in Peers : file.peers[p] = Wanted(p)

\* Between operations a running device that nobody else has touched shows what the
\* database says of every peer, whatever is in the file: a revoked or disabled peer
\* is off the device, a rolled back one too.  An operation that passed over the
\* running device is the exception.
RuntimeAgrees ==
  Quiet /\ toggles = 0 /\ run.up /\ (\A o \in Ops : ~OnDevice(o)) =>
    \A p \in Peers : run.peers[p] = Wanted(p)

\* An operation whose metadata was completed is not rolled back: "Recovery
\* finalizes this verifying operation; do not destroy a working peer because only
\* audit commit failed" (executeCreatePeer).
CompletedIsKept == \A o \in Ops : ~(ops[o].state = "rolled_back" /\ Undone(o))

\* A commit that waits for the interface's lock gets an answer: whoever holds the
\* lock gives it back on every path, or dies with the agent.
LockIsGranted == \A c \in Callers : call[c].pc = "lock" ~> call[c].pc = "idle"

\* An agent that is down serves again: an operation that cannot be recovered
\* stops one start, and not every start after it.
AgentServes == mode = "down" ~> mode = "serving"
=============================================================================
