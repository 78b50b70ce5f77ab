------------------------- MODULE PeerControlProofs -------------------------
(***************************************************************************)
(* Proofs about PeerControl, for every number of peers, callers, actors,   *)
(* operations, edits and faults: types, the journal, what an operation     *)
(* starts from, the agreement of the rows, the file and the device, and    *)
(* the ledger the rows add up to.                                          *)
(***************************************************************************)
EXTENDS PeerControl, FiniteSetTheorems, WellFoundedInduction, TLAPS

\* A caller past its preview works on an operation that exists; and a planned
\* operation is pending and unaccounted for.
CallInv ==
  \A c \in Procs : /\ call[c].pc \notin {"idle", "plan"} => call[c].op \in Ops
                   /\ call[c].pc = "plan" => /\ call[c].plan.state = "pending"
                                             /\ call[c].plan.revs = 0 /\ call[c].plan.audits = 0
                                             /\ call[c].plan.snapP = call[c].plan.snapO

-----------------------------------------------------------------------------
(* Types *)

LEMMA ConstantTypes ==
  /\ NoPeers \in PeerMap
  /\ NoHash \in Hashes
  /\ Contents \subseteq Hashes
  /\ Down \in DeviceStates
  /\ NoOp \in OpRecords
  /\ Idle \in CallRecords
<1>1. NoPeers \in PeerMap  BY DEF NoPeers, PeerMap
<1>2. NoHash \in Hashes /\ Contents \subseteq Hashes  BY <1>1, BoundsAssumption DEF Hashes, Contents, NoHash
<1>3. Down \in DeviceStates  BY <1>1 DEF Down, DeviceStates
<1>4. (CHOOSE p \in Peers : TRUE) \in Peers  BY PeersAssumption
<1>5. NoOp \in OpRecords
  BY <1>2, <1>4 DEF NoOp, OpRecords, States, AllTypes
<1>6. Idle \in CallRecords
  BY <1>2, <1>5 DEF Idle, CallRecords, PCs
<1>. QED  BY <1>1, <1>2, <1>3, <1>5, <1>6

\* A state written to an operation keeps the table of operations well typed.
LEMMA SetStateType ==
  ASSUME ops \in [Ops -> OpRecords], NEW o \in Ops, NEW s \in States, SetState(o, s)
  PROVE  ops' \in [Ops -> OpRecords]
BY DEF SetState, OpRecords

LEMMA TransitionType ==
  ASSUME TypeOK, NEW c \in Procs, call[c].op \in Ops, NEW from, NEW to \in States,
         TransitionOk(c, from, to) \/ TransitionErr(c, from, to)
  PROVE  ops' \in [Ops -> OpRecords] /\ faults' \in 0..MaxFaults
<1>1. ops' \in [Ops -> OpRecords]
  BY SetStateType DEF TypeOK, TransitionOk, TransitionErr
<1>2. faults' \in 0..MaxFaults
  BY BoundsAssumption DEF TypeOK, TransitionOk, TransitionErr, Works, Breaks, Fault
<1>. QED  BY <1>1, <1>2

LEMMA ReturnType ==
  ASSUME TypeOK, NEW c \in Procs, Return(c)
  PROVE  /\ call' \in [Procs -> CallRecords] /\ lock' \in Callers \cup {Nobody}
         /\ failed' \in BOOLEAN
BY ConstantTypes DEF TypeOK, Return

LEMMA GotoType ==
  ASSUME TypeOK, NEW c \in Procs, NEW l \in PCs, Goto(c, l)
  PROVE  call' \in [Procs -> CallRecords]
BY DEF TypeOK, Goto, CallRecords

LEMMA PreflightType ==
  ASSUME TypeOK, NEW r \in CallRecords, NEW o \in Ops
  PROVE  WithPreflight(r, o) \in CallRecords
<1>1. ops[o].peer \in Peers  BY DEF TypeOK, OpRecords
<1>2. peer[ops[o].peer].spec \in Specs \cup {0}  BY <1>1 DEF TypeOK, PeerRows
<1>3. dbi.up \in BOOLEAN /\ file \in Hashes  BY DEF TypeOK
<1>. QED  BY <1>2, <1>3 DEF WithPreflight, CallRecords

LEMMA PatchedType ==
  ASSUME TypeOK, NEW o \in Ops, NEW conf \in Hashes
  PROVE  Patched(ops[o], conf) \in Hashes
<1>1. ops[o] \in OpRecords  BY DEF TypeOK
<1>2. peer[ops[o].peer].archive \in Specs \cup {0}  BY <1>1 DEF TypeOK, OpRecords, PeerRows
<1>. DEFINE v == CASE ops[o].type \in {"create", "update"} -> ops[o].spec
                   [] ops[o].type = "enable" -> peer[ops[o].peer].archive
                   [] OTHER -> 0
<1>3. v \in Specs \cup {0}  BY <1>1, <1>2 DEF OpRecords, AllTypes
<1>4. conf.peers \in PeerMap  BY DEF Hashes
<1>5. [conf.peers EXCEPT ![ops[o].peer] = v] \in PeerMap  BY <1>3, <1>4 DEF PeerMap
<1>. QED  BY <1>5 DEF Patched, Hashes

\* What every action does to the caller's record
LEMMA CallStep ==
  ASSUME TypeOK, CallInv, NEW c \in Procs, call' \in [Procs -> CallRecords],
         \/ Return(c)
         \/ \E r : /\ call' = [call EXCEPT ![c] = r]
                   /\ r.pc \notin {"idle", "plan"} => r.op \in Ops
                   /\ r.pc # "plan"
  PROVE  CallInv'
<1>1. CASE Return(c)
  BY <1>1 DEF TypeOK, CallInv, Return, Idle
<1>2. CASE ~Return(c)
  <2>1. PICK r : /\ call' = [call EXCEPT ![c] = r]
                 /\ r.pc \notin {"idle", "plan"} => r.op \in Ops
                 /\ r.pc # "plan"
    BY <1>2
  <2>2. call'[c] = r /\ \A d \in Procs \ {c} : call'[d] = call[d]
    BY <2>1 DEF TypeOK
  <2>. QED  BY <2>1, <2>2 DEF CallInv
<1>. QED  BY <1>1, <1>2

LEMMA GotoInv ==
  ASSUME TypeOK, CallInv, NEW c \in Procs, call[c].op \in Ops, NEW l \in PCs \ {"plan"}, Goto(c, l)
  PROVE  CallInv'
<1>. DEFINE r == [call[c] EXCEPT !.pc = l]
<1>1. r.op \in Ops /\ r.pc = l  BY DEF TypeOK, CallRecords
<1>2. call' = [call EXCEPT ![c] = r]  BY DEF Goto
<1>. HIDE DEF r
<1>3. call' \in [Procs -> CallRecords]  BY GotoType
<1>. QED  BY <1>1, <1>2, <1>3, CallStep

-----------------------------------------------------------------------------
(* One lemma per action *)

LEMMA PreviewType ==
  ASSUME TypeOK, CallInv, NEW c \in Procs, Preview(c)
  PROVE  TypeOK' /\ CallInv'
<1>1. PICK t \in AllTypes, p \in Peers, s \in Specs \cup {0} : Plan(c, t, p, s)
  <2>1. CASE PreviewCreatePeer(c)
    <3>1. PICK p \in Peers, s \in Specs : Plan(c, "create", p, s)
      BY <2>1 DEF PreviewCreatePeer
    <3>. QED  BY <3>1, Zenon DEF AllTypes
  <2>2. CASE PreviewUpdatePeer(c)
    <3>1. PICK p \in Peers, s \in Specs : Plan(c, "update", p, s)
      BY <2>2 DEF PreviewUpdatePeer
    <3>. QED  BY <3>1, Zenon DEF AllTypes
  <2>3. CASE PreviewPeerLifecycle(c)
    <3>1. PICK t \in {"disable", "enable", "revoke"}, p \in Peers : Plan(c, t, p, 0)
      BY <2>3 DEF PreviewPeerLifecycle
    <3>. QED  BY <3>1, Zenon DEF AllTypes
  <2>. QED  BY <2>1, <2>2, <2>3 DEF Preview
<1>2. PICK a \in Actors :
          call' = [call EXCEPT ![c] = [Idle EXCEPT
              !.pc = "plan",
              !.plan = [NoOp EXCEPT !.state = "pending", !.type = t, !.peer = p, !.spec = s,
                                    !.actor = a, !.exp = dbi.rev, !.orig = dbi.file]]]
  BY <1>1 DEF Plan
<1>. DEFINE n == [NoOp EXCEPT !.state = "pending", !.type = t, !.peer = p, !.spec = s,
                              !.actor = a, !.exp = dbi.rev, !.orig = dbi.file]
            r == [Idle EXCEPT !.pc = "plan", !.plan = n]
<1>3. n \in OpRecords /\ n.state = "pending" /\ n.revs = 0 /\ n.audits = 0 /\ n.snapP = n.snapO
  <2>1. dbi.rev \in Nat /\ dbi.file \in Hashes  BY DEF TypeOK
  <2>3. n \in OpRecords  BY <2>1, ConstantTypes DEF OpRecords, States, Active
  <2>. QED  BY <2>3 DEF NoOp
<1>. HIDE DEF n
<1>4. r \in CallRecords /\ r.pc = "plan" /\ r.plan = n
  BY <1>3, ConstantTypes DEF CallRecords, PCs, Idle
<1>5. call' = [call EXCEPT ![c] = r]  BY <1>2 DEF n
<1>. HIDE DEF r
<1>6. call' \in [Procs -> CallRecords]  BY <1>4, <1>5 DEF TypeOK
<1>7. TypeOK'
  BY <1>6 DEF TypeOK, Preview, PreviewCreatePeer, PreviewUpdatePeer, PreviewPeerLifecycle, Plan,
       host, database, agent
<1>8. CallInv'
  BY <1>3, <1>4, <1>5 DEF CallInv, TypeOK
<1>. QED  BY <1>7, <1>8

LEMMA CreateOperationType ==
  ASSUME TypeOK, CallInv, NEW c \in Procs, CreateOperation(c)
  PROVE  TypeOK' /\ CallInv'
<1>1. call[c].plan \in OpRecords  BY DEF TypeOK, CallRecords
<1>2. \A o \in Ops : [ops[o] EXCEPT !.state = "expired"] \in OpRecords
  BY DEF TypeOK, OpRecords, States
<1>3. ops' \in [Ops -> OpRecords]
  BY <1>1, <1>2 DEF TypeOK, CreateOperation
<1>4. call' \in [Procs -> CallRecords] /\ lock' \in Callers \cup {Nobody} /\ failed' \in BOOLEAN
  BY ReturnType DEF CreateOperation
<1>5. TypeOK'  BY <1>3, <1>4 DEF TypeOK, CreateOperation, host
<1>6. CallInv'  BY <1>4, CallStep DEF CreateOperation
<1>. QED  BY <1>5, <1>6

LEMMA CommitType ==
  ASSUME TypeOK, CallInv, NEW c \in Procs, Commit(c)
  PROVE  TypeOK' /\ CallInv'
<1>1. PICK o \in Ops :
        LET r == [Idle EXCEPT !.pc = "lock", !.op = o]
        IN call' = [call EXCEPT ![c] = r] \/ call' = [call EXCEPT ![c] = WithPreflight(r, o)]
  BY DEF Commit, CommitCreatePeer, CommitUpdatePeer, CommitPeerLifecycle, Enter, ForLock
<1>. DEFINE r == [Idle EXCEPT !.pc = "lock", !.op = o]
<1>2. r \in CallRecords /\ r.pc = "lock" /\ r.op = o
  BY ConstantTypes DEF CallRecords, PCs, Idle
<1>. HIDE DEF r
<1>3. /\ WithPreflight(r, o) \in CallRecords
      /\ WithPreflight(r, o).pc = "lock" /\ WithPreflight(r, o).op = o
  <2>1. WithPreflight(r, o) \in CallRecords  BY <1>2, PreflightType
  <2>. QED  BY <1>2, <2>1 DEF WithPreflight, CallRecords
<1>4. PICK q \in CallRecords : call' = [call EXCEPT ![c] = q] /\ q.pc = "lock" /\ q.op = o
  BY <1>1, <1>2, <1>3 DEF r
<1>5. call' \in [Procs -> CallRecords]  BY <1>4 DEF TypeOK
<1>6. TypeOK'  BY <1>5 DEF TypeOK, Commit, CommitCreatePeer, CommitUpdatePeer,
       CommitPeerLifecycle, Enter, host, database, agent
<1>7. CallInv'  BY <1>4, <1>5, CallStep
<1>. QED  BY <1>6, <1>7

LEMMA LockType ==
  ASSUME TypeOK, CallInv, NEW c \in Callers, Lock(c)
  PROVE  TypeOK' /\ CallInv'
<1>1. c \in Procs /\ call[c].op \in Ops  BY DEF Procs, CallInv, Lock
<1>. DEFINE l == IF Op(c).type = "create" THEN "preflight" ELSE "validate"
<1>2. l \in PCs \ {"plan"} /\ Goto(c, l)  BY DEF Lock, PCs
<1>. HIDE DEF l
<1>3. call' \in [Procs -> CallRecords] /\ CallInv'  BY <1>1, <1>2, GotoType, GotoInv
<1>4. TypeOK'  BY <1>3 DEF TypeOK, Lock, host, database, agent
<1>. QED  BY <1>3, <1>4

LEMMA CommitPreflightType ==
  ASSUME TypeOK, CallInv, NEW c \in Procs, CommitPreflight(c)
  PROVE  TypeOK' /\ CallInv'
<1>1. call[c].op \in Ops  BY DEF CallInv, CommitPreflight
<1>. DEFINE r == [call[c] EXCEPT !.pc = "validate"]
<1>2. r \in CallRecords /\ r.pc = "validate"  BY DEF TypeOK, CallRecords, PCs
<1>. HIDE DEF r
<1>3. /\ WithPreflight(r, call[c].op) \in CallRecords
      /\ WithPreflight(r, call[c].op).pc = "validate"
      /\ WithPreflight(r, call[c].op).op = call[c].op
  <2>1. WithPreflight(r, call[c].op) \in CallRecords  BY <1>1, <1>2, PreflightType
  <2>. QED  BY <1>2, <2>1 DEF WithPreflight, CallRecords, r
<1>4. CASE Return(c)
  <2>1. call' \in [Procs -> CallRecords] /\ lock' \in Callers \cup {Nobody} /\ failed' \in BOOLEAN
    BY <1>4, ReturnType
  <2>. QED  BY <1>4, <2>1, CallStep DEF TypeOK, CommitPreflight, host, database
<1>5. CASE ~Return(c)
  <2>1. call' = [call EXCEPT ![c] = WithPreflight(r, call[c].op)] /\ UNCHANGED <<lock, failed>>
    BY <1>5 DEF CommitPreflight, r
  <2>2. call' \in [Procs -> CallRecords]  BY <1>3, <2>1 DEF TypeOK
  <2>. QED  BY <1>1, <1>3, <2>1, <2>2, CallStep DEF TypeOK, CommitPreflight, host, database
<1>. QED  BY <1>4, <1>5

\* An action that changes the journal at most, and goes on or returns
LEMMA JournalStepType ==
  ASSUME TypeOK, CallInv, NEW c \in Procs, call[c].op \in Ops,
         ops' \in [Ops -> OpRecords], faults' \in 0..MaxFaults,
         \/ Return(c)
         \/ (\E l \in PCs \ {"plan"} : Goto(c, l)) /\ UNCHANGED <<lock, failed>>,
         UNCHANGED <<host, dbi, applied, peer, scan, mode, todo, toggles>>
  PROVE  TypeOK' /\ CallInv'
<1>1. CASE Return(c)
  <2>1. call' \in [Procs -> CallRecords] /\ lock' \in Callers \cup {Nobody} /\ failed' \in BOOLEAN
    BY <1>1, ReturnType
  <2>. QED  BY <1>1, <2>1, CallStep DEF TypeOK, host
<1>2. CASE (\E l \in PCs \ {"plan"} : Goto(c, l)) /\ UNCHANGED <<lock, failed>>
  <2>1. call' \in [Procs -> CallRecords] /\ CallInv'  BY <1>2, GotoType, GotoInv
  <2>. QED  BY <1>2, <2>1 DEF TypeOK, host
<1>. QED  BY <1>1, <1>2

LEMMA ValidateType ==
  ASSUME TypeOK, CallInv, NEW c \in Procs, Validate(c)
  PROVE  TypeOK' /\ CallInv'
<1>1. call[c].op \in Ops  BY DEF CallInv, Validate
<1>2. ops' \in [Ops -> OpRecords] /\ faults' \in 0..MaxFaults
  <2>1. CASE UNCHANGED <<ops, faults>>  BY <2>1 DEF TypeOK
  <2>2. CASE \/ TransitionOk(c, "pending", "validated")
             \/ TransitionErr(c, "pending", "validated")
    BY <1>1, <2>2, TransitionType DEF States, Active
  <2>. QED  BY <2>1, <2>2 DEF Validate
<1>3. \/ Return(c)
      \/ (\E l \in PCs \ {"plan"} : Goto(c, l)) /\ UNCHANGED <<lock, failed>>
  BY DEF Validate, PCs
<1>4. UNCHANGED <<host, dbi, applied, peer, scan, mode, todo, toggles>>  BY DEF Validate
<1>. QED  BY <1>1, <1>2, <1>3, <1>4, JournalStepType

LEMMA PrepareType ==
  ASSUME TypeOK, CallInv, NEW c \in Procs, Prepare(c)
  PROVE  TypeOK' /\ CallInv'
<1>. DEFINE o == call[c].op
<1>1. o \in Ops  BY DEF CallInv, Prepare
<1>2. call[c].conf \in Hashes  BY DEF TypeOK, CallRecords
<1>3. Patched(ops[o], call[c].conf) \in Hashes  BY <1>1, <1>2, PatchedType
<1>4. ops' \in [Ops -> OpRecords] /\ faults' \in 0..MaxFaults
  <2>1. CASE /\ Works(c)
             /\ ops' = [ops EXCEPT ![o].state = "snapshotted", ![o].snapO = call[c].conf,
                                   ![o].snapP = Patched(ops[o], call[c].conf)]
    <3>1. PICK new \in Hashes : new = Patched(ops[o], call[c].conf)  BY <1>3
    <3>2. ops' = [ops EXCEPT ![o].state = "snapshotted", ![o].snapO = call[c].conf,
                             ![o].snapP = new]
      BY <2>1, <3>1
    <3>3. ops'[o] = [ops[o] EXCEPT !.state = "snapshotted", !.snapO = call[c].conf, !.snapP = new]
      BY <1>1, <3>2 DEF TypeOK
    <3>4. ops'[o] \in OpRecords
      <4>1. ops[o] \in OpRecords  BY <1>1 DEF TypeOK
      <4>2. PICK conf \in Hashes : conf = call[c].conf  BY <1>2
      <4>. QED  BY <3>3, <4>1, <4>2 DEF OpRecords, States, Active
    <3>5. ops' \in [Ops -> OpRecords]  BY <1>1, <3>2, <3>4 DEF TypeOK
    <3>. QED  BY <2>1, <3>5 DEF TypeOK, Works
  <2>2. CASE \/ TransitionOk(c, "validated", "rejected")
             \/ TransitionErr(c, "validated", "rejected")
    BY <1>1, <2>2, TransitionType DEF States
  <2>3. CASE Breaks(c) /\ (UNCHANGED ops \/ SetState(o, "rejected"))
    <3>1. ops' \in [Ops -> OpRecords]  BY <1>1, <2>3, SetStateType DEF TypeOK, States
    <3>. QED  BY <2>3, <3>1, BoundsAssumption DEF TypeOK, Breaks, Fault
  <2>. QED  BY <2>1, <2>2, <2>3 DEF Prepare, Snapshotted
<1>5. \/ Return(c)
      \/ (\E l \in PCs \ {"plan"} : Goto(c, l)) /\ UNCHANGED <<lock, failed>>
  BY DEF Prepare, PCs
<1>6. UNCHANGED <<host, dbi, applied, peer, scan, mode, todo, toggles>>  BY DEF Prepare
<1>. QED  BY <1>1, <1>4, <1>5, <1>6, JournalStepType

LEMMA BeginType ==
  ASSUME TypeOK, CallInv, NEW c \in Procs, Begin(c)
  PROVE  TypeOK' /\ CallInv'
<1>1. call[c].op \in Ops  BY DEF CallInv, Begin
<1>2. ops' \in [Ops -> OpRecords] /\ faults' \in 0..MaxFaults
  BY <1>1, TransitionType DEF Begin, States, Active
<1>3. \/ Return(c)
      \/ (\E l \in PCs \ {"plan"} : Goto(c, l)) /\ UNCHANGED <<lock, failed>>
  BY DEF Begin, PCs
<1>4. UNCHANGED <<host, dbi, applied, peer, scan, mode, todo, toggles>>  BY DEF Begin
<1>. QED  BY <1>1, <1>2, <1>3, <1>4, JournalStepType

LEMMA RollbackBeginType ==
  ASSUME TypeOK, CallInv, NEW c \in Procs, RollbackBegin(c)
  PROVE  TypeOK' /\ CallInv'
<1>1. call[c].op \in Ops  BY DEF CallInv, RollbackBegin
<1>2. ops' \in [Ops -> OpRecords] /\ faults' \in 0..MaxFaults
  <2>1. CASE UNCHANGED <<ops, faults>>  BY <2>1 DEF TypeOK
  <2>2. CASE \/ TransitionOk(c, Op(c).state, "rolling_back")
             \/ TransitionErr(c, Op(c).state, "rolling_back")
    BY <1>1, <2>2, TransitionType DEF States, Active
  <2>. QED  BY <2>1, <2>2 DEF RollbackBegin
<1>3. \/ Return(c)
      \/ (\E l \in PCs \ {"plan"} : Goto(c, l)) /\ UNCHANGED <<lock, failed>>
  BY DEF RollbackBegin, PCs
<1>4. UNCHANGED <<host, dbi, applied, peer, scan, mode, todo, toggles>>  BY DEF RollbackBegin
<1>. QED  BY <1>1, <1>2, <1>3, <1>4, JournalStepType

\* A caller's record after a step that keeps its operation
Moved(c) == \E r \in CallRecords : /\ call' = [call EXCEPT ![c] = r]
                                   /\ r.op = call[c].op /\ r.pc # "plan"

LEMMA MovedInv ==
  ASSUME TypeOK, CallInv, NEW c \in Procs, call[c].op \in Ops, Moved(c)
  PROVE  call' \in [Procs -> CallRecords] /\ CallInv'
<1>1. PICK r \in CallRecords : call' = [call EXCEPT ![c] = r] /\ r.op = call[c].op /\ r.pc # "plan"
  BY DEF Moved
<1>2. call' \in [Procs -> CallRecords]  BY <1>1 DEF TypeOK
<1>. QED  BY <1>1, <1>2, CallStep

LEMMA WithField ==
  ASSUME NEW r \in CallRecords, NEW l \in PCs, NEW b \in BOOLEAN
  PROVE  LET q == [r EXCEPT !.pc = l, !.mayFile = b]
         IN q \in CallRecords /\ q.op = r.op /\ q.pc = l
<1>. DEFINE p == [r EXCEPT !.pc = l]
<1>1. p \in CallRecords /\ p.op = r.op /\ p.pc = l  BY DEF CallRecords
<1>. HIDE DEF p
<1>. DEFINE q == [p EXCEPT !.mayFile = b]
<1>2. q \in CallRecords /\ q.op = p.op /\ q.pc = p.pc  BY <1>1 DEF CallRecords
<1>. QED  BY <1>1, <1>2 DEF p

\* A step counts at most one fault, and only within the bound.
LEMMA FaultsType ==
  ASSUME TypeOK, faults' = faults \/ Fault
  PROVE  faults' \in 0..MaxFaults
BY BoundsAssumption DEF TypeOK, Fault

LEMMA GotoMoves ==
  ASSUME TypeOK, NEW c \in Procs, NEW l \in PCs \ {"plan"}, Goto(c, l)
  PROVE  Moved(c)
<1>. DEFINE r == [call[c] EXCEPT !.pc = l]
<1>1. r \in CallRecords /\ r.op = call[c].op /\ r.pc = l  BY DEF TypeOK, CallRecords
<1>2. call' = [call EXCEPT ![c] = r]  BY DEF Goto
<1>. HIDE DEF r
<1>. QED  BY <1>1, <1>2 DEF Moved

LEMMA RollbackMoves ==
  ASSUME TypeOK, NEW c \in Procs, NEW b \in BOOLEAN, Rollback(c, b)
  PROVE  Moved(c)
<1>. DEFINE r == [call[c] EXCEPT !.pc = "rb_begin", !.mayFile = b]
<1>1. r \in CallRecords /\ r.op = call[c].op /\ r.pc = "rb_begin"
  <2>1. call[c] \in CallRecords /\ "rb_begin" \in PCs  BY DEF TypeOK, PCs
  <2>. QED  BY <2>1, WithField
<1>2. call' = [call EXCEPT ![c] = r]  BY DEF Rollback, TypeOK
<1>. HIDE DEF r
<1>. QED  BY <1>1, <1>2 DEF Moved

LEMMA TargetType ==
  ASSUME TypeOK, NEW c \in Procs, call[c].op \in Ops
  PROVE  Target(c) \in Specs \cup {0} /\ Op(c) \in OpRecords
<1>1. Op(c) \in OpRecords  BY DEF TypeOK, Op
<1>2. call[c].old \in Specs \cup {0}  BY DEF TypeOK, CallRecords
<1>. QED  BY <1>1, <1>2 DEF Target, OpRecords, AllTypes

\* What the operations have left grows by what the caller's leaves, but for what is
\* taken out of the file again.
LEMMA LeftType ==
  ASSUME TypeOK, NEW c \in Procs, call[c].op \in Ops,
         \/ left' = left \/ Leaves(c, "run") \/ Leaves(c, "file")
         \/ left' = left \ {<<call[c].op, "file">>}
  PROVE  left' \subseteq Ops \X {"file", "run"}
BY DEF TypeOK, Leaves

LEMMA ApplyRuntimeType ==
  ASSUME TypeOK, CallInv, NEW c \in Procs, ApplyRuntime(c)
  PROVE  TypeOK' /\ CallInv'
<1>1. call[c].op \in Ops  BY DEF CallInv, ApplyRuntime
<1>. DEFINE changed == [run EXCEPT !.peers[Op(c).peer] = Target(c)]
<1>2. changed \in DeviceStates
  BY <1>1, TargetType DEF TypeOK, DeviceStates, PeerMap, OpRecords
<1>3. run' \in DeviceStates
  <2>1. run' \in {run, changed}  BY DEF ApplyRuntime
  <2>. QED  BY <1>2, <2>1 DEF TypeOK
<1>4. faults' \in 0..MaxFaults
  <2>1. faults' = faults \/ Fault  BY DEF ApplyRuntime, Works, Breaks
  <2>. QED  BY <2>1, FaultsType
<1>5. Moved(c)
  <2>1. Goto(c, "exchange") \/ Rollback(c, FALSE)  BY DEF ApplyRuntime
  <2>. QED  BY <2>1, GotoMoves, RollbackMoves DEF PCs
<1>6. call' \in [Procs -> CallRecords] /\ CallInv'  BY <1>1, <1>5, MovedInv
<1>7. left' = left \/ Leaves(c, "run")  BY DEF ApplyRuntime
<1>8. left' \subseteq Ops \X {"file", "run"}  BY <1>1, <1>7, LeftType
<1>. QED  BY <1>3, <1>4, <1>6, <1>8 DEF TypeOK, ApplyRuntime, database, agent

LEMMA ExchangeType ==
  ASSUME TypeOK, CallInv, NEW c \in Procs, Exchange(c)
  PROVE  TypeOK' /\ CallInv'
<1>1. call[c].op \in Ops  BY DEF CallInv, Exchange
<1>2. file' \in Hashes
  <2>1. file' = file \/ file' = Op(c).snapP  BY DEF Exchange
  <2>. QED  BY <1>1, <2>1, TargetType DEF TypeOK, OpRecords
<1>3. faults' \in 0..MaxFaults
  <2>1. faults' = faults \/ Fault  BY DEF Exchange
  <2>. QED  BY <2>1, FaultsType
<1>4. Moved(c)
  <2>1. PICK b \in BOOLEAN :
          call' = [call EXCEPT ![c].pc = "verify", ![c].mayFile = b] \/ Rollback(c, FALSE)
    BY DEF Exchange
  <2>. DEFINE r == [call[c] EXCEPT !.pc = "verify", !.mayFile = b]
  <2>2. r \in CallRecords /\ r.op = call[c].op /\ r.pc = "verify"
    <3>1. call[c] \in CallRecords /\ "verify" \in PCs  BY DEF TypeOK, PCs
    <3>. QED  BY <3>1, WithField
  <2>3. call' = [call EXCEPT ![c] = r] \/ Rollback(c, FALSE)  BY <2>1 DEF TypeOK
  <2>. HIDE DEF r
  <2>. QED  BY <2>2, <2>3, RollbackMoves DEF Moved
<1>5. call' \in [Procs -> CallRecords] /\ CallInv'  BY <1>1, <1>4, MovedInv
<1>6. left' = left \/ Leaves(c, "file")  BY DEF Exchange
<1>7. left' \subseteq Ops \X {"file", "run"}  BY <1>1, <1>6, LeftType
<1>. QED  BY <1>2, <1>3, <1>5, <1>7 DEF TypeOK, Exchange, database, agent

LEMMA VerifyRuntimeType ==
  ASSUME TypeOK, CallInv, NEW c \in Procs, VerifyRuntime(c)
  PROVE  TypeOK' /\ CallInv'
<1>1. call[c].op \in Ops  BY DEF CallInv, VerifyRuntime
<1>2. faults' \in 0..MaxFaults  BY BoundsAssumption DEF TypeOK, VerifyRuntime, Fault
<1>3. Moved(c)
  <2>1. call[c].mayFile \in BOOLEAN  BY DEF TypeOK, CallRecords
  <2>2. Goto(c, "complete") \/ Rollback(c, call[c].mayFile)  BY DEF VerifyRuntime
  <2>. QED  BY <2>1, <2>2, GotoMoves, RollbackMoves DEF PCs
<1>4. call' \in [Procs -> CallRecords] /\ CallInv'  BY <1>1, <1>3, MovedInv
<1>. QED  BY <1>2, <1>4 DEF TypeOK, VerifyRuntime, host, database, agent

LEMMA CompletedPeerType ==
  ASSUME NEW r \in PeerRows, NEW o \in OpRecords
  PROVE  CompletedPeer(r, o) \in PeerRows
<1>1. o.snapO.peers[o.peer] \in Specs \cup {0}  BY DEF OpRecords, Hashes, PeerMap
<1>2. o.type \in AllTypes /\ o.spec \in Specs \cup {0}  BY DEF OpRecords
<1>3. CASE o.type = "create"  BY <1>2, <1>3 DEF CompletedPeer, PeerCreated, PeerRows
<1>4. CASE o.type = "update"  BY <1>2, <1>4 DEF CompletedPeer, PeerUpdated, PeerRows
<1>5. CASE o.type = "enable"  BY <1>1, <1>5 DEF CompletedPeer, PeerMoved, LifecycleTarget, PeerRows
<1>6. CASE o.type = "disable"  BY <1>1, <1>6 DEF CompletedPeer, PeerMoved, LifecycleTarget, PeerRows
<1>7. CASE o.type = "revoke"  BY <1>1, <1>7 DEF CompletedPeer, PeerMoved, LifecycleTarget, PeerRows
<1>. QED  BY <1>2, <1>3, <1>4, <1>5, <1>6, <1>7 DEF AllTypes

LEMMA CompleteType ==
  ASSUME TypeOK, CallInv, NEW c \in Procs, Complete(c)
  PROVE  TypeOK' /\ CallInv'
<1>. DEFINE o == call[c].op
<1>1. o \in Ops  BY DEF CallInv, Complete
<1>2. ops[o] \in OpRecords /\ ops[o].peer \in Peers /\ ops[o].snapP \in Hashes /\ ops[o].revs \in Nat
  BY <1>1 DEF TypeOK, OpRecords
<1>3. faults' \in 0..MaxFaults
  BY BoundsAssumption DEF TypeOK, Complete, Works, Breaks, Fault
<1>4. Moved(c)
  <2>1. call[c].mayFile \in BOOLEAN  BY DEF TypeOK, CallRecords
  <2>2. Goto(c, "finalize") \/ Rollback(c, call[c].mayFile)  BY DEF Complete
  <2>. QED  BY <2>1, <2>2, GotoMoves, RollbackMoves DEF PCs
<1>5. call' \in [Procs -> CallRecords] /\ CallInv'  BY <1>1, <1>4, MovedInv
<1>6. CASE UNCHANGED database
  BY <1>3, <1>5, <1>6 DEF TypeOK, Complete, host, database, agent
<1>7. CASE ~UNCHANGED database
  <2>1. /\ peer' = [peer EXCEPT ![ops[o].peer] = CompletedPeer(peer[ops[o].peer], ops[o])]
        /\ dbi' = [dbi EXCEPT !.rev = @ + 1, !.file = ops[o].snapP, !.drift = FALSE]
        /\ applied' = [file |-> ops[o].snapP, run |-> run]
        /\ ops' = [ops EXCEPT ![o].state = "verifying", ![o].revs = @ + 1]
    BY <1>7 DEF Complete
  <2>2. peer' \in [Peers -> PeerRows]
    <3>1. CompletedPeer(peer[ops[o].peer], ops[o]) \in PeerRows
      BY <1>2, CompletedPeerType DEF TypeOK
    <3>. QED  BY <2>1, <3>1 DEF TypeOK
  <2>3. dbi' \in [rev : Nat, file : Hashes, up : BOOLEAN, drift : BOOLEAN]
    <3>. DEFINE d == [dbi EXCEPT !.rev = @ + 1]
    <3>1. d \in [rev : Nat, file : Hashes, up : BOOLEAN, drift : BOOLEAN]  BY DEF TypeOK
    <3>2. dbi' = [[d EXCEPT !.file = ops[o].snapP] EXCEPT !.drift = FALSE]  BY <2>1
    <3>. HIDE DEF d
    <3>. QED  BY <1>2, <3>1, <3>2
  <2>4. applied' \in [file : Hashes, run : DeviceStates]  BY <1>2, <2>1 DEF TypeOK
  <2>5. ops' \in [Ops -> OpRecords]
    <3>. DEFINE r == [ops[o] EXCEPT !.state = "verifying"]
                q == [r EXCEPT !.revs = ops[o].revs + 1]
    <3>1. r \in OpRecords  BY <1>2 DEF OpRecords, States, Active
    <3>2. ops' = [ops EXCEPT ![o] = q]  BY <1>1, <2>1 DEF TypeOK
    <3>. HIDE DEF r
    <3>3. q \in OpRecords  BY <1>2, <3>1 DEF OpRecords
    <3>. HIDE DEF q
    <3>. QED  BY <3>2, <3>3 DEF TypeOK
  <2>. QED  BY <1>3, <1>5, <2>2, <2>3, <2>4, <2>5 DEF TypeOK, Complete, host, agent
<1>. QED  BY <1>6, <1>7

LEMMA FinalizeType ==
  ASSUME TypeOK, CallInv, NEW c \in Procs, Finalize(c)
  PROVE  TypeOK' /\ CallInv'
<1>. DEFINE o == call[c].op
<1>1. o \in Ops  BY DEF CallInv, Finalize
<1>2. ops' \in [Ops -> OpRecords]
  <2>. DEFINE r == [ops[o] EXCEPT !.state = "committed"]
              q == [r EXCEPT !.audits = ops[o].audits + 1]
  <2>1. r \in OpRecords /\ ops[o].audits \in Nat  BY <1>1 DEF TypeOK, OpRecords, States
  <2>2. ops' = [ops EXCEPT ![o] = q] \/ ops' = ops  BY <1>1 DEF TypeOK, Finalize
  <2>. HIDE DEF r
  <2>3. q \in OpRecords  BY <2>1 DEF OpRecords
  <2>. HIDE DEF q
  <2>. QED  BY <2>2, <2>3 DEF TypeOK
<1>3. faults' \in 0..MaxFaults
  BY BoundsAssumption DEF TypeOK, Finalize, Works, Breaks, Fault
<1>4. Return(c) /\ UNCHANGED <<host, dbi, applied, peer, scan, mode, todo, toggles>>
  BY DEF Finalize
<1>. QED  BY <1>1, <1>2, <1>3, <1>4, JournalStepType

LEMMA WithError ==
  ASSUME NEW r \in CallRecords, NEW l \in PCs, NEW b \in BOOLEAN
  PROVE  LET q == [r EXCEPT !.pc = l, !.err = b]
         IN q \in CallRecords /\ q.op = r.op /\ q.pc = l
<1>. DEFINE p == [r EXCEPT !.pc = l]
<1>1. p \in CallRecords /\ p.op = r.op /\ p.pc = l  BY DEF CallRecords
<1>. HIDE DEF p
<1>. DEFINE q == [p EXCEPT !.err = b]
<1>2. q \in CallRecords /\ q.op = p.op /\ q.pc = p.pc  BY <1>1 DEF CallRecords
<1>. QED  BY <1>1, <1>2 DEF p

\* A step of a rollback: to the next label, with an error or without
LEMMA RollbackStepMoves ==
  ASSUME TypeOK, NEW c \in Procs, NEW l \in PCs \ {"plan"}, NEW b \in BOOLEAN,
         call' = [call EXCEPT ![c].pc = l, ![c].err = b]
  PROVE  Moved(c)
<1>. DEFINE r == [call[c] EXCEPT !.pc = l, !.err = b]
<1>1. r \in CallRecords /\ r.op = call[c].op /\ r.pc = l
  <2>1. call[c] \in CallRecords  BY DEF TypeOK
  <2>. QED  BY <2>1, WithError
<1>2. call' = [call EXCEPT ![c] = r]  BY DEF TypeOK
<1>. HIDE DEF r
<1>. QED  BY <1>1, <1>2 DEF Moved

LEMMA RollbackRuntimeType ==
  ASSUME TypeOK, CallInv, NEW c \in Procs, RollbackRuntime(c)
  PROVE  TypeOK' /\ CallInv'
<1>1. call[c].op \in Ops  BY DEF CallInv, RollbackRuntime
<1>. DEFINE before == IF Op(c).type \in {"create", "enable"} THEN 0 ELSE call[c].old
            restored == [run EXCEPT !.peers[Op(c).peer] = before]
            l == IF Op(c).type = "create" THEN "rb_file" ELSE "rb_end"
<1>2. restored \in DeviceStates
  <2>1. before \in Specs \cup {0}  BY DEF TypeOK, CallRecords
  <2>. HIDE DEF before
  <2>. QED  BY <1>1, <2>1, TargetType DEF TypeOK, DeviceStates, PeerMap, OpRecords
<1>3. run' \in DeviceStates
  <2>1. run' = run \/ run' = restored  BY DEF RollbackRuntime
  <2>. QED  BY <1>2, <2>1 DEF TypeOK
<1>4. faults' \in 0..MaxFaults
  <2>1. faults' = faults \/ Fault  BY DEF RollbackRuntime, Works, Breaks
  <2>. QED  BY <2>1, FaultsType
<1>5. Moved(c)
  <2>1. l \in PCs \ {"plan"}  BY DEF PCs
  <2>2. Goto(c, l) \/ call' = [call EXCEPT ![c].pc = l, ![c].err = TRUE]
    <3>1. \/ call' = [call EXCEPT ![c].pc = l]
          \/ call' = [[call EXCEPT ![c].pc = l] EXCEPT ![c].err = TRUE]
      BY DEF RollbackRuntime
    <3>. QED  BY <3>1 DEF Goto, TypeOK
  <2>. HIDE DEF l
  <2>. QED  BY <2>1, <2>2, GotoMoves, RollbackStepMoves
<1>6. call' \in [Procs -> CallRecords] /\ CallInv'  BY <1>1, <1>5, MovedInv
<1>7. left' = left \/ Leaves(c, "run")  BY DEF RollbackRuntime
<1>8. left' \subseteq Ops \X {"file", "run"}  BY <1>1, <1>7, LeftType
<1>. QED  BY <1>3, <1>4, <1>6, <1>8 DEF TypeOK, RollbackRuntime, database, agent

LEMMA RollbackFileType ==
  ASSUME TypeOK, CallInv, NEW c \in Procs, RollbackFile(c)
  PROVE  TypeOK' /\ CallInv'
<1>1. call[c].op \in Ops  BY DEF CallInv, RollbackFile
<1>. DEFINE foreign == /\ call[c].mayFile /\ file # Op(c).snapP /\ file # Op(c).snapO
                       /\ Op(c).type \in {"create", "update"}
            e == call[c].err \/ foreign
            l == IF Op(c).type = "create" THEN "rb_end" ELSE "rb_run"
<1>2. file' \in Hashes
  <2>1. file' = file \/ file' = Op(c).snapO  BY DEF RollbackFile
  <2>. QED  BY <1>1, <2>1, TargetType DEF TypeOK, OpRecords
<1>3. faults' \in 0..MaxFaults
  <2>1. faults' = faults \/ Fault  BY DEF RollbackFile
  <2>. QED  BY <2>1, FaultsType
<1>4. Moved(c)
  <2>1. l \in PCs \ {"plan"}  BY DEF PCs
  <2>2. e \in BOOLEAN  OBVIOUS
  <2>3. \/ call' = [call EXCEPT ![c].pc = l, ![c].err = e]
        \/ call' = [call EXCEPT ![c].pc = l, ![c].err = TRUE]
    <3>1. \/ call' = [call EXCEPT ![c].pc = l, ![c].err = @ \/ foreign]
          \/ call' = [[call EXCEPT ![c].pc = l, ![c].err = @ \/ foreign] EXCEPT ![c].err = TRUE]
      BY DEF RollbackFile
    <3>2. [call EXCEPT ![c].pc = l, ![c].err = @ \/ foreign]
            = [call EXCEPT ![c].pc = l, ![c].err = e]
      BY DEF TypeOK, CallRecords
    <3>3. [[call EXCEPT ![c].pc = l, ![c].err = e] EXCEPT ![c].err = TRUE]
            = [call EXCEPT ![c].pc = l, ![c].err = TRUE]
      BY DEF TypeOK, CallRecords
    <3>. HIDE DEF e, l
    <3>. QED  BY <3>1, <3>2, <3>3
  <2>. HIDE DEF e, l
  <2>. QED  BY <2>1, <2>2, <2>3, RollbackStepMoves
<1>5. call' \in [Procs -> CallRecords] /\ CallInv'  BY <1>1, <1>4, MovedInv
<1>6. \/ left' = left \/ Leaves(c, "file")
      \/ left' = left \ {<<call[c].op, "file">>}
  BY DEF RollbackFile
<1>7. left' \subseteq Ops \X {"file", "run"}  BY <1>1, <1>6, LeftType
<1>. QED  BY <1>2, <1>3, <1>5, <1>7 DEF TypeOK, RollbackFile, database, agent

LEMMA RollbackEndType ==
  ASSUME TypeOK, CallInv, NEW c \in Procs, RollbackEnd(c)
  PROVE  TypeOK' /\ CallInv'
<1>1. call[c].op \in Ops  BY DEF CallInv, RollbackEnd
<1>2. RollbackOutcome(c) \in States  BY DEF RollbackOutcome, States, Active
<1>3. ops' \in [Ops -> OpRecords] /\ faults' \in 0..MaxFaults
  BY <1>1, <1>2, TransitionType DEF RollbackEnd
<1>4. CASE Return(c)
  <2>1. UNCHANGED <<host, dbi, applied, peer, scan, mode, todo, toggles>>  BY DEF RollbackEnd
  <2>. QED  BY <1>1, <1>3, <1>4, <2>1, JournalStepType
<1>5. CASE ~Return(c)
  <2>1. /\ call' = [call EXCEPT ![c] = Idle]
        /\ lock' = IF lock = c THEN Nobody ELSE lock
        /\ UNCHANGED failed
    BY <1>5 DEF RollbackEnd
  <2>2. call' \in [Procs -> CallRecords] /\ Idle.pc = "idle"
    BY <2>1, ConstantTypes DEF TypeOK, Idle
  <2>3. CallInv'  BY <2>1, <2>2, CallStep
  <2>4. lock' \in Callers \cup {Nobody}  BY <2>1 DEF TypeOK
  <2>. QED  BY <1>3, <2>1, <2>2, <2>3, <2>4 DEF TypeOK, RollbackEnd, host
<1>. QED  BY <1>4, <1>5

LEMMA PersistedType ==
  ASSUME TypeOK, NEW s \in [file : Hashes, run : DeviceStates]
  PROVE  Persisted(s) \in [rev : Nat, file : Hashes, up : BOOLEAN, drift : BOOLEAN]
<1>. DEFINE D == [rev : Nat, file : Hashes, up : BOOLEAN, drift : BOOLEAN]
            d1 == [dbi EXCEPT !.file = s.file]
            d2 == [d1 EXCEPT !.up = s.run.up]
            d3 == [d2 EXCEPT !.drift = (s # applied)]
<1>1. d1 \in D  BY DEF TypeOK
<1>. HIDE DEF d1
<1>2. d2 \in D  BY <1>1 DEF DeviceStates
<1>. HIDE DEF d2
<1>3. d3 \in D  BY <1>2
<1>4. Persisted(s) = dbi \/ Persisted(s) = d3  BY DEF Persisted, ClassifyDrift, d1, d2
<1>. QED  BY <1>3, <1>4 DEF TypeOK

LEMMA ObservedType ==
  ASSUME TypeOK, NEW f \in BOOLEAN, NEW r \in BOOLEAN
  PROVE  Observed(f, r) \in [file : Hashes, run : DeviceStates]
BY ConstantTypes DEF TypeOK, Observed

LEMMA InventoryType ==
  ASSUME TypeOK, CallInv, Scan \/ ReplaceInventory
  PROVE  TypeOK' /\ CallInv'
<1>1. CASE Scan
  <2>1. PICK f \in BOOLEAN, r \in BOOLEAN : Sources(f, r) /\ scan' = {Observed(f, r)}
    BY <1>1 DEF Scan
  <2>2. faults' \in 0..MaxFaults
    <3>1. faults' = faults \/ Fault  BY <2>1 DEF Sources
    <3>. QED  BY <3>1, FaultsType
  <2>. QED  BY <1>1, <2>1, <2>2, ObservedType DEF TypeOK, CallInv, Scan, host, database, agent
<1>2. CASE ReplaceInventory
  BY <1>2, PersistedType DEF TypeOK, CallInv, ReplaceInventory, host, agent
<1>. QED  BY <1>1, <1>2

LEMMA StartType ==
  ASSUME TypeOK, CallInv, Start
  PROVE  TypeOK' /\ CallInv'
<1>1. faults' \in 0..MaxFaults
  <2>1. faults' = faults \/ Fault  BY DEF Start, Sources
  <2>. QED  BY <2>1, FaultsType
<1>2. dbi' \in [rev : Nat, file : Hashes, up : BOOLEAN, drift : BOOLEAN]
  <2>1. dbi' = dbi \/ \E f, r \in BOOLEAN : dbi' = Persisted(Observed(f, r))  BY DEF Start
  <2>2. CASE dbi' = dbi  BY <2>2 DEF TypeOK
  <2>3. ASSUME NEW f \in BOOLEAN, NEW r \in BOOLEAN, dbi' = Persisted(Observed(f, r))
        PROVE  dbi' \in [rev : Nat, file : Hashes, up : BOOLEAN, drift : BOOLEAN]
    <3>1. Observed(f, r) \in [file : Hashes, run : DeviceStates]  BY ObservedType
    <3>. QED  BY <2>3, <3>1, PersistedType
  <2>. QED  BY <2>1, <2>2, <2>3
<1>. QED  BY <1>1, <1>2 DEF TypeOK, CallInv, Start, RecoverableOperations, host

LEMMA RecoveredType ==
  ASSUME TypeOK, NEW o \in Ops
  PROVE  Recovered(o) \in OpRecords
<1>. DEFINE s == CASE ops[o].state = "pending" -> "expired"
                   [] ops[o].state = "validated" -> "rejected"
                   [] ops[o].state = "verifying" -> IF Agrees(o) THEN "committed" ELSE "rolling_back"
                   [] OTHER -> ops[o].state
            a == IF ops[o].state = "verifying" /\ Agrees(o) THEN ops[o].audits + 1
                 ELSE ops[o].audits
            r == [ops[o] EXCEPT !.state = s]
<1>1. s \in States /\ a \in Nat  BY DEF TypeOK, OpRecords, States, Active
<1>2. Recovered(o) = [r EXCEPT !.audits = a]  BY DEF Recovered, TypeOK, OpRecords
<1>. HIDE DEF s, a
<1>3. r \in OpRecords  BY <1>1 DEF TypeOK, OpRecords
<1>. HIDE DEF r
<1>. QED  BY <1>1, <1>2, <1>3 DEF OpRecords

LEMMA RecoverNextType ==
  ASSUME TypeOK, CallInv, RecoverNext
  PROVE  TypeOK' /\ CallInv'
<1>1. PICK o \in todo :
        /\ todo' = todo \ {o}
        /\ \/ /\ ops' = [ops EXCEPT ![o] = Recovered(o)]
              /\ call' = [call EXCEPT ![Boot] =
                   CASE ops[o].state \in {"snapshotted", "executing", "rolling_back"} ->
                          RecoverSnapshotted(o)
                     [] ops[o].state = "verifying" /\ ~Agrees(o) ->
                          [Idle EXCEPT !.pc = "manual", !.op = o]
                     [] OTHER -> Idle]
              /\ UNCHANGED <<failed, faults>>
           \/ Fault /\ failed' = TRUE /\ UNCHANGED <<ops, call>>
  BY DEF RecoverNext
<1>. DEFINE begun == [Idle EXCEPT !.pc = "rb_begin", !.op = o, !.mayFile = TRUE]
            manual == [Idle EXCEPT !.pc = "manual", !.op = o]
<1>2. o \in Ops /\ Boot \in Procs  BY DEF TypeOK, Procs
<1>3. begun \in CallRecords /\ begun.op = o /\ begun.pc = "rb_begin"
  BY <1>2, ConstantTypes DEF CallRecords, PCs, Idle
<1>4. manual \in CallRecords /\ manual.op = o /\ manual.pc = "manual"
  BY <1>2, ConstantTypes DEF CallRecords, PCs, Idle
<1>. HIDE DEF begun, manual
<1>5. WithPreflight(begun, o) \in CallRecords /\ WithPreflight(begun, o).op = o
      /\ WithPreflight(begun, o).pc = "rb_begin"
  <2>1. WithPreflight(begun, o) \in CallRecords  BY <1>2, <1>3, PreflightType
  <2>. QED  BY <1>3, <2>1 DEF WithPreflight, CallRecords
<1>6. CASE Fault /\ failed' = TRUE /\ UNCHANGED <<ops, call>>
  <2>1. faults' \in 0..MaxFaults  BY <1>6, FaultsType
  <2>. QED  BY <1>1, <1>6, <2>1 DEF TypeOK, CallInv, RecoverNext, host
<1>7. CASE ~(Fault /\ failed' = TRUE /\ UNCHANGED <<ops, call>>)
  <2>1. /\ ops' = [ops EXCEPT ![o] = Recovered(o)] /\ UNCHANGED <<failed, faults>>
        /\ \E r \in {WithPreflight(begun, o), manual, Idle} : call' = [call EXCEPT ![Boot] = r]
    BY <1>1, <1>7 DEF begun, manual, RecoverSnapshotted
  <2>2. PICK r \in {WithPreflight(begun, o), manual, Idle} : call' = [call EXCEPT ![Boot] = r]
    BY <2>1
  <2>3. r \in CallRecords /\ r.pc # "plan" /\ (r.pc # "idle" => r.op \in Ops)
    <3>1. Idle \in CallRecords /\ Idle.pc = "idle"  BY ConstantTypes DEF Idle
    <3>. QED  BY <1>2, <1>4, <1>5, <2>2, <3>1
  <2>4. call' \in [Procs -> CallRecords]  BY <1>2, <2>2, <2>3 DEF TypeOK
  <2>5. CallInv'  BY <1>2, <2>2, <2>3, <2>4, CallStep
  <2>6. ops' \in [Ops -> OpRecords]  BY <1>2, <2>1, RecoveredType DEF TypeOK
  <2>. QED  BY <1>1, <2>1, <2>4, <2>5, <2>6 DEF TypeOK, RecoverNext, host
<1>. QED  BY <1>6, <1>7

LEMMA RecoverManualType ==
  ASSUME TypeOK, CallInv, RecoverManual
  PROVE  TypeOK' /\ CallInv'
<1>1. Boot \in Procs /\ call[Boot].op \in Ops  BY DEF CallInv, RecoverManual, Procs
<1>2. ops' \in [Ops -> OpRecords] /\ faults' \in 0..MaxFaults
  BY <1>1, TransitionType DEF RecoverManual, States, Active
<1>3. Return(Boot) /\ UNCHANGED <<host, dbi, applied, peer, scan, mode, todo, toggles>>
  BY DEF RecoverManual
<1>. QED  BY <1>1, <1>2, <1>3, JournalStepType

LEMMA EnvironmentType ==
  ASSUME TypeOK, CallInv, RecoverEnd \/ Crash \/ Edit \/ Toggle
  PROVE  TypeOK' /\ CallInv'
<1>1. CASE RecoverEnd
  BY <1>1 DEF TypeOK, CallInv, RecoverEnd, host, database
<1>2. CASE Crash
  <2>1. faults' \in 0..MaxFaults  BY <1>2, FaultsType DEF Crash
  <2>2. call' \in [Procs -> CallRecords] /\ CallInv'
    BY <1>2, ConstantTypes DEF Crash, CallInv, Idle
  <2>. QED  BY <1>2, <2>1, <2>2 DEF TypeOK, Crash, host, database
<1>3. CASE Edit
  <2>1. [file EXCEPT !.edit = @ + 1] \in Hashes
    BY <1>3, BoundsAssumption DEF TypeOK, Edit, Hashes
  <2>. QED  BY <1>3, <2>1 DEF TypeOK, CallInv, Edit, database, agent
<1>4. CASE Toggle
  <2>1. run' \in DeviceStates
    <3>1. file.peers \in PeerMap  BY DEF TypeOK, Hashes
    <3>. QED  BY <1>4, <3>1, ConstantTypes DEF Toggle, DeviceStates
  <2>2. toggles' \in 0..MaxToggles  BY <1>4, BoundsAssumption DEF TypeOK, Toggle
  <2>. QED  BY <1>4, <2>1, <2>2 DEF TypeOK, CallInv, Toggle, database, agent
<1>. QED  BY <1>1, <1>2, <1>3, <1>4

LEMMA EndContextType ==
  ASSUME TypeOK, CallInv, NEW c \in Procs, EndContext(c)
  PROVE  TypeOK' /\ CallInv'
<1>. DEFINE r == [call[c] EXCEPT !.gone = TRUE]
<1>1. faults' \in 0..MaxFaults  BY FaultsType DEF EndContext
<1>2. r \in CallRecords /\ r.op = call[c].op /\ r.pc = call[c].pc /\ r.plan = call[c].plan
  BY DEF TypeOK, CallRecords
<1>3. call' = [call EXCEPT ![c] = r]  BY DEF EndContext
<1>. HIDE DEF r
<1>4. call' \in [Procs -> CallRecords]  BY <1>2, <1>3 DEF TypeOK
<1>5. CallInv'  BY <1>2, <1>3 DEF CallInv, TypeOK
<1>. QED  BY <1>1, <1>4, <1>5 DEF TypeOK, EndContext, host, database, agent

LEMMA InitType == Init => TypeOK /\ CallInv
<1>. SUFFICES ASSUME Init PROVE TypeOK /\ CallInv  OBVIOUS
<1>1. PICK managed \in SUBSET Peers, s \in Specs, up \in BOOLEAN :
        /\ file = [peers |-> [p \in Peers |-> IF p \in managed THEN s ELSE 0], edit |-> 0]
        /\ run = IF up THEN [up |-> TRUE, peers |-> file.peers] ELSE Down
        /\ peer = [p \in Peers |-> [life |-> IF p \in managed THEN "active" ELSE "none",
                                    spec |-> file.peers[p], archive |-> 0]]
        /\ dbi = [rev |-> 0, file |-> file, up |-> up, drift |-> FALSE]
  BY DEF Init
<1>2. file \in Hashes /\ file.peers \in PeerMap
  BY <1>1, BoundsAssumption DEF Hashes, PeerMap
<1>3. run \in DeviceStates  BY <1>1, <1>2, ConstantTypes DEF DeviceStates
<1>4. peer \in [Peers -> PeerRows]  BY <1>1, <1>2 DEF PeerRows, PeerMap
<1>5. dbi \in [rev : Nat, file : Hashes, up : BOOLEAN, drift : BOOLEAN]  BY <1>1, <1>2
<1>6. ops \in [Ops -> OpRecords] /\ call \in [Procs -> CallRecords]
  BY ConstantTypes DEF Init
<1>7. CallInv  BY DEF Init, CallInv, Idle
<1>8. faults \in 0..MaxFaults /\ toggles \in 0..MaxToggles  BY BoundsAssumption DEF Init
<1>. QED  BY <1>2, <1>3, <1>4, <1>5, <1>6, <1>7, <1>8 DEF Init, TypeOK

LEMMA NextType == TypeOK /\ CallInv /\ [Next]_vars => TypeOK' /\ CallInv'
<1>. SUFFICES ASSUME TypeOK, CallInv, [Next]_vars PROVE TypeOK' /\ CallInv'  OBVIOUS
<1>1. ASSUME NEW c \in Callers, Preview(c) \/ Commit(c) \/ Lock(c) \/ EndContext(c)
      PROVE  TypeOK' /\ CallInv'
  <2>1. c \in Procs  BY DEF Procs
  <2>. QED  BY <1>1, <2>1, PreviewType, CommitType, LockType, EndContextType
<1>2. ASSUME NEW c \in Procs, Work(c) PROVE TypeOK' /\ CallInv'
  BY <1>2, CreateOperationType, CommitPreflightType, ValidateType, PrepareType, BeginType,
     ApplyRuntimeType, ExchangeType, VerifyRuntimeType, CompleteType, FinalizeType,
     RollbackBeginType, RollbackRuntimeType, RollbackFileType, RollbackEndType DEF Work
<1>3. CASE UNCHANGED vars  BY <1>3 DEF vars, TypeOK, CallInv
<1>. QED  BY <1>1, <1>2, <1>3, InventoryType, StartType, RecoverNextType, RecoverManualType,
             EnvironmentType DEF Next

-----------------------------------------------------------------------------
(* The journal *)

\* The transitions that neither complete nor finalize an operation
Moves == {<<"pending", "validated">>, <<"pending", "expired">>, <<"validated", "rejected">>,
          <<"validated", "snapshotted">>, <<"snapshotted", "executing">>,
          <<"snapshotted", "rolling_back">>, <<"executing", "rolling_back">>,
          <<"verifying", "rolling_back">>, <<"rolling_back", "rolled_back">>,
          <<"rolling_back", "rollback_failed">>}

\* What an operation has left behind, by its state.  An operation that is rolled
\* back may have been completed before.
Ledger(r) ==
  /\ r.revs \in {0, 1} /\ r.audits \in {0, 1}
  /\ r.state = "committed" <=> r.audits = 1
  /\ r.state \in {"verifying", "committed"} => r.revs = 1
  /\ r.state \in {"none", "pending", "validated", "snapshotted", "executing", "rejected",
                  "expired"} => r.revs = 0

Counted == {o \in Ops : ops[o].revs = 1}

JournalInv ==
  /\ OneInProgress
  /\ \A o \in Ops : Ledger(ops[o])
  /\ dbi.rev = Cardinality(Counted)

IInv == TypeOK /\ CallInv /\ JournalInv

Step(o) ==
  /\ \A q \in Ops \ {o} : ops'[q] = ops[q]
  /\ ops'[o].revs = ops[o].revs /\ ops'[o].audits = ops[o].audits
  /\ <<ops[o].state, ops'[o].state>> \in Moves

LEMMA StepJournal ==
  ASSUME JournalInv, NEW o \in Ops, Step(o), dbi'.rev = dbi.rev
  PROVE  JournalInv'
<1>1. ops[o].state \in Active  BY DEF Step, Moves, Active
<1>2. OneInProgress'  BY <1>1 DEF JournalInv, OneInProgress, Step
<1>3. ASSUME NEW q \in Ops PROVE Ledger(ops'[q])
  <2>1. CASE q = o  BY <2>1 DEF JournalInv, Ledger, Step, Moves
  <2>2. CASE q # o  BY <2>2 DEF JournalInv, Step
  <2>. QED  BY <2>1, <2>2
<1>4. Counted' = Counted  BY DEF Counted, Step
<1>. QED  BY <1>2, <1>3, <1>4 DEF JournalInv

LEMMA SameJournal ==
  ASSUME JournalInv, ops' = ops, dbi'.rev = dbi.rev
  PROVE  JournalInv'
BY DEF JournalInv, OneInProgress, Counted

LEMMA SetStateStep ==
  ASSUME TypeOK, NEW o \in Ops, NEW s, SetState(o, s), <<ops[o].state, s>> \in Moves
  PROVE  Step(o)
<1>1. \A q \in Ops \ {o} : ops'[q] = ops[q]  BY DEF TypeOK, SetState
<1>2. ops'[o] = [ops[o] EXCEPT !.state = s]  BY DEF TypeOK, SetState
<1>3. ops'[o].revs = ops[o].revs /\ ops'[o].audits = ops[o].audits /\ ops'[o].state = s
  BY <1>2 DEF TypeOK, OpRecords
<1>. QED  BY <1>1, <1>3 DEF Step

LEMMA TransitionJournal ==
  ASSUME IInv, NEW c \in Procs, call[c].op \in Ops, NEW from, NEW to,
         TransitionOk(c, from, to) \/ TransitionErr(c, from, to),
         <<from, to>> \in Moves, dbi'.rev = dbi.rev
  PROVE  JournalInv'
<1>1. UNCHANGED ops \/ (Op(c).state = from /\ SetState(call[c].op, to))
  BY DEF TransitionOk, TransitionErr
<1>2. CASE UNCHANGED ops  BY <1>2, SameJournal DEF IInv
<1>3. CASE Op(c).state = from /\ SetState(call[c].op, to)
  BY <1>3, SetStateStep, StepJournal DEF IInv, Op
<1>. QED  BY <1>1, <1>2, <1>3

LEMMA CreateOperationJournal ==
  ASSUME IInv, NEW c \in Procs, CreateOperation(c)
  PROVE  JournalInv'
<1>. DEFINE new == call[c].plan
            free == {o \in Ops : ops[o].state = "none"}
            first(o) == o \in free /\ \A q \in free : o <= q
<1>1. new.state = "pending" /\ new.revs = 0 /\ new.audits = 0
  BY DEF IInv, CallInv, CreateOperation
<1>2. CASE UNCHANGED ops  BY <1>2, SameJournal DEF IInv, CreateOperation
<1>3. CASE ~UNCHANGED ops
  <2>1. /\ \A o \in Ops : ~InProgress(o, new)
        /\ ops' = [o \in Ops |-> IF Superseded(o, new) THEN [ops[o] EXCEPT !.state = "expired"]
                                 ELSE IF first(o) THEN new ELSE ops[o]]
    BY <1>3 DEF CreateOperation
  <2>2. \A o \in Ops : ops[o] \in OpRecords  BY DEF IInv, TypeOK
  <2>3. ASSUME NEW o \in Ops
        PROVE  \/ ops'[o] = new /\ first(o)
               \/ /\ ops'[o].state = "expired" /\ ops[o].state = "pending"
                  /\ ops'[o].revs = ops[o].revs /\ ops'[o].audits = ops[o].audits
               \/ ops'[o] = ops[o] /\ ops[o].state \notin Active
    BY <2>1, <2>2 DEF Superseded, InProgress, OpRecords
  <2>4. OneInProgress'
    <3>1. ASSUME NEW o \in Ops, NEW q \in Ops, first(o), first(q) PROVE o = q
      BY <3>1 DEF Ops
    <3>2. ASSUME NEW o \in Ops, ops'[o].state \in Active PROVE first(o)
      BY <2>3, <3>2 DEF Active
    <3>. HIDE DEF first
    <3>. QED  BY <3>1, <3>2 DEF OneInProgress
  <2>5. \A o \in Ops : Ledger(ops'[o])
    BY <1>1, <2>3 DEF IInv, JournalInv, Ledger
  <2>6. \A o \in Ops : ops'[o].revs = ops[o].revs
    BY <1>1, <2>3 DEF IInv, JournalInv, Ledger
  <2>7. Counted' = Counted  BY <2>6 DEF Counted
  <2>. QED  BY <2>4, <2>5, <2>7 DEF IInv, JournalInv, CreateOperation
<1>. QED  BY <1>2, <1>3

LEMMA PrepareJournal ==
  ASSUME IInv, NEW c \in Procs, Prepare(c)
  PROVE  JournalInv'
<1>. DEFINE o == call[c].op
<1>1. o \in Ops /\ dbi' = dbi  BY DEF IInv, CallInv, Prepare
<1>2. CASE /\ ops[o].state = "validated"
           /\ ops' = [ops EXCEPT ![o].state = "snapshotted", ![o].snapO = call[c].conf,
                                 ![o].snapP = Patched(ops[o], call[c].conf)]
  <2>1. \A q \in Ops \ {o} : ops'[q] = ops[q]  BY <1>1, <1>2 DEF IInv, TypeOK
  <2>2. ops'[o].revs = ops[o].revs /\ ops'[o].audits = ops[o].audits
        /\ ops'[o].state = "snapshotted"
    BY <1>1, <1>2 DEF IInv, TypeOK, OpRecords
  <2>3. Step(o)  BY <1>2, <2>1, <2>2 DEF Step, Moves
  <2>. QED  BY <1>1, <2>3, StepJournal DEF IInv
<1>3. CASE \/ TransitionOk(c, "validated", "rejected")
           \/ TransitionErr(c, "validated", "rejected")
  BY <1>1, <1>3, TransitionJournal DEF Moves
<1>4. CASE UNCHANGED ops  BY <1>1, <1>4, SameJournal DEF IInv
<1>5. CASE ops[o].state = "validated" /\ SetState(o, "rejected")
  <2>1. Step(o)  BY <1>1, <1>5, SetStateStep DEF IInv, Moves
  <2>. QED  BY <1>1, <2>1, StepJournal DEF IInv
<1>. QED  BY <1>2, <1>3, <1>4, <1>5 DEF Prepare, Snapshotted

LEMMA CompleteJournal ==
  ASSUME IInv, NEW c \in Procs, Complete(c)
  PROVE  JournalInv'
<1>. DEFINE o == call[c].op
<1>1. o \in Ops  BY DEF IInv, CallInv, Complete
<1>2. CASE UNCHANGED database  BY <1>2, SameJournal DEF IInv, database
<1>3. CASE ~UNCHANGED database
  <2>1. /\ ops[o].state = "executing"
        /\ ops' = [ops EXCEPT ![o].state = "verifying", ![o].revs = @ + 1]
        /\ dbi' = [dbi EXCEPT !.rev = @ + 1, !.file = ops[o].snapP, !.drift = FALSE]
    BY <1>3 DEF Complete, Completable, Op
  <2>2. ops[o].revs = 0 /\ ops[o].audits = 0
    BY <1>1, <2>1 DEF IInv, JournalInv, Ledger
  <2>3. \A q \in Ops \ {o} : ops'[q] = ops[q]  BY <1>1, <2>1 DEF IInv, TypeOK
  <2>4. ops'[o].state = "verifying" /\ ops'[o].revs = 1 /\ ops'[o].audits = 0
    BY <1>1, <2>1, <2>2 DEF IInv, TypeOK, OpRecords
  <2>5. OneInProgress'
    BY <1>1, <2>1, <2>3, <2>4 DEF IInv, JournalInv, OneInProgress, Active
  <2>6. \A q \in Ops : Ledger(ops'[q])
    BY <1>1, <2>3, <2>4 DEF IInv, JournalInv, Ledger
  <2>7. dbi'.rev = dbi.rev + 1  BY <2>1 DEF IInv, TypeOK
  <2>8. Cardinality(Counted') = Cardinality(Counted) + 1
    <3>1. IsFiniteSet(Ops)  BY BoundsAssumption, FS_Interval DEF Ops
    <3>2. IsFiniteSet(Counted)  BY <3>1, FS_Subset DEF Counted
    <3>3. o \notin Counted  BY <2>2 DEF Counted
    <3>4. Counted' = Counted \cup {o}  BY <1>1, <2>3, <2>4 DEF Counted
    <3>. QED  BY <3>2, <3>3, <3>4, FS_AddElement
  <2>. QED  BY <2>5, <2>6, <2>7, <2>8, SMTT(30) DEF IInv, JournalInv
<1>. QED  BY <1>2, <1>3

\* FinalizeControlOperation, by the caller or by the recovery
LEMMA FinalizedJournal ==
  ASSUME IInv, NEW o \in Ops, ops[o].state = "verifying", dbi'.rev = dbi.rev,
         \A q \in Ops \ {o} : ops'[q] = ops[q],
         ops'[o].state = "committed", ops'[o].revs = ops[o].revs,
         ops'[o].audits = ops[o].audits + 1
  PROVE  JournalInv'
<1>1. ops[o].revs = 1 /\ ops[o].audits = 0  BY DEF IInv, JournalInv, Ledger
<1>2. OneInProgress'  BY DEF IInv, JournalInv, OneInProgress, Active
<1>3. \A q \in Ops : Ledger(ops'[q])  BY <1>1 DEF IInv, JournalInv, Ledger
<1>4. Counted' = Counted  BY DEF Counted
<1>. QED  BY <1>2, <1>3, <1>4 DEF IInv, JournalInv

LEMMA FinalizeJournal ==
  ASSUME IInv, NEW c \in Procs, Finalize(c)
  PROVE  JournalInv'
<1>. DEFINE o == call[c].op
<1>1. o \in Ops /\ dbi' = dbi  BY DEF IInv, CallInv, Finalize
<1>2. CASE UNCHANGED ops  BY <1>1, <1>2, SameJournal DEF IInv
<1>3. CASE ~UNCHANGED ops
  <2>1. /\ ops[o].state = "verifying"
        /\ ops' = [ops EXCEPT ![o].state = "committed", ![o].audits = @ + 1]
    BY <1>3 DEF Finalize, Op
  <2>2. \A q \in Ops \ {o} : ops'[q] = ops[q]  BY <1>1, <2>1 DEF IInv, TypeOK
  <2>3. ops'[o].state = "committed" /\ ops'[o].revs = ops[o].revs
        /\ ops'[o].audits = ops[o].audits + 1
    BY <1>1, <2>1 DEF IInv, TypeOK, OpRecords
  <2>. QED  BY <1>1, <2>1, <2>2, <2>3, FinalizedJournal
<1>. QED  BY <1>2, <1>3

LEMMA RollbackJournal ==
  ASSUME IInv, NEW c \in Procs, RollbackBegin(c) \/ RollbackEnd(c)
  PROVE  JournalInv'
<1>1. call[c].op \in Ops /\ dbi' = dbi  BY DEF IInv, CallInv, RollbackBegin, RollbackEnd
<1>2. CASE UNCHANGED ops  BY <1>1, <1>2, SameJournal DEF IInv
<1>3. CASE RollbackBegin(c) /\ ~UNCHANGED ops
  <2>1. /\ Op(c).state \in {"executing", "snapshotted"}
        /\ \/ TransitionOk(c, Op(c).state, "rolling_back")
           \/ TransitionErr(c, Op(c).state, "rolling_back")
    BY <1>3 DEF RollbackBegin
  <2>2. <<Op(c).state, "rolling_back">> \in Moves  BY <2>1 DEF Moves
  <2>. QED  BY <1>1, <2>1, <2>2, TransitionJournal
<1>4. CASE RollbackEnd(c)
  <2>1. <<"rolling_back", RollbackOutcome(c)>> \in Moves  BY DEF RollbackOutcome, Moves
  <2>2. \/ TransitionOk(c, "rolling_back", RollbackOutcome(c))
        \/ TransitionErr(c, "rolling_back", RollbackOutcome(c))
    BY <1>4 DEF RollbackEnd
  <2>. QED  BY <1>1, <2>1, <2>2, TransitionJournal
<1>. QED  BY <1>2, <1>3, <1>4

LEMMA RecoverNextJournal ==
  ASSUME IInv, RecoverNext
  PROVE  JournalInv'
<1>1. dbi' = dbi  BY DEF RecoverNext
<1>2. CASE UNCHANGED ops  BY <1>1, <1>2, SameJournal DEF IInv
<1>3. CASE ~UNCHANGED ops
  <2>1. PICK o \in Ops : ops' = [ops EXCEPT ![o] = Recovered(o)]
    BY <1>3 DEF RecoverNext, IInv, TypeOK
  <2>2. (\A q \in Ops \ {o} : ops'[q] = ops[q]) /\ ops'[o] = Recovered(o)
    BY <2>1 DEF IInv, TypeOK
  <2>3. ops[o] \in OpRecords  BY DEF IInv, TypeOK
  <2>4. Recovered(o).revs = ops[o].revs  BY <2>3 DEF Recovered, OpRecords
  <2>5. CASE ops[o].state = "verifying" /\ Agrees(o)
    <3>1. Recovered(o).state = "committed" /\ Recovered(o).audits = ops[o].audits + 1
      BY <2>3, <2>5 DEF Recovered, OpRecords
    <3>. QED  BY <1>1, <2>2, <2>4, <2>5, <3>1, FinalizedJournal
  <2>6. CASE ~(ops[o].state = "verifying" /\ Agrees(o))
    <3>1. Recovered(o).audits = ops[o].audits  BY <2>3, <2>6 DEF Recovered, OpRecords
    <3>2. CASE ops[o].state \in {"pending", "validated", "verifying"}
      <4>1. <<ops[o].state, Recovered(o).state>> \in Moves
        BY <2>3, <2>6, <3>2 DEF Recovered, OpRecords, Moves
      <4>2. Step(o)  BY <2>2, <2>4, <3>1, <4>1 DEF Step
      <4>. QED  BY <1>1, <4>2, StepJournal DEF IInv
    <3>3. CASE ops[o].state \notin {"pending", "validated", "verifying"}
      <4>1. Recovered(o).state = ops[o].state  BY <2>3, <3>3 DEF Recovered, OpRecords
      <4>2. OneInProgress'  BY <2>2, <4>1 DEF IInv, JournalInv, OneInProgress
      <4>3. \A q \in Ops : Ledger(ops'[q])
        BY <2>2, <2>4, <3>1, <4>1 DEF IInv, JournalInv, Ledger
      <4>4. Counted' = Counted  BY <2>2, <2>4 DEF Counted
      <4>. QED  BY <1>1, <4>2, <4>3, <4>4 DEF IInv, JournalInv
    <3>. QED  BY <3>2, <3>3
  <2>. QED  BY <2>5, <2>6
<1>. QED  BY <1>2, <1>3

LEMMA InitJournal == Init => JournalInv
<1>. SUFFICES ASSUME Init PROVE JournalInv  OBVIOUS
<1>1. \A o \in Ops : ops[o].state = "none" /\ ops[o].revs = 0 /\ ops[o].audits = 0
  BY DEF Init, NoOp
<1>2. OneInProgress  BY <1>1 DEF OneInProgress, Active
<1>3. \A o \in Ops : Ledger(ops[o])  BY <1>1 DEF Ledger
<1>4. Counted = {}  BY <1>1 DEF Counted
<1>5. dbi.rev = 0  BY DEF Init
<1>. QED  BY <1>2, <1>3, <1>4, <1>5, FS_EmptySet DEF JournalInv

LEMMA NextJournal == IInv /\ [Next]_vars => JournalInv'
<1>. SUFFICES ASSUME IInv, [Next]_vars PROVE JournalInv'  OBVIOUS
<1>1. ASSUME NEW c \in Callers, Preview(c) \/ Commit(c) \/ Lock(c) \/ EndContext(c)
      PROVE  JournalInv'
  BY <1>1, SameJournal DEF IInv, Preview, PreviewCreatePeer, PreviewUpdatePeer,
       PreviewPeerLifecycle, Plan, Commit, CommitCreatePeer, CommitUpdatePeer,
       CommitPeerLifecycle, Enter, Lock, EndContext, database
<1>2. ASSUME NEW c \in Procs, Work(c) PROVE JournalInv'
  <2>1. CASE CreateOperation(c)  BY <2>1, CreateOperationJournal
  <2>2. CASE CommitPreflight(c) \/ ApplyRuntime(c) \/ Exchange(c) \/ VerifyRuntime(c)
             \/ RollbackRuntime(c) \/ RollbackFile(c)
    <3>1. UNCHANGED database
      BY <2>2 DEF CommitPreflight, ApplyRuntime, Exchange, VerifyRuntime, RollbackRuntime,
                  RollbackFile
    <3>. QED  BY <3>1, SameJournal DEF IInv, database
  <2>3. CASE Validate(c)
    <3>1. call[c].op \in Ops /\ dbi' = dbi  BY <2>3 DEF IInv, CallInv, Validate
    <3>2. \/ UNCHANGED ops \/ TransitionOk(c, "pending", "validated")
          \/ TransitionErr(c, "pending", "validated")
      BY <2>3 DEF Validate
    <3>. QED  BY <3>1, <3>2, SameJournal, TransitionJournal DEF IInv, Moves
  <2>4. CASE Begin(c)
    <3>1. call[c].op \in Ops /\ dbi' = dbi  BY <2>4 DEF IInv, CallInv, Begin
    <3>. QED  BY <2>4, <3>1, TransitionJournal DEF Begin, Moves
  <2>5. CASE Prepare(c) \/ Complete(c) \/ Finalize(c)
    BY <2>5, PrepareJournal, CompleteJournal, FinalizeJournal
  <2>6. CASE RollbackBegin(c) \/ RollbackEnd(c)  BY <2>6, RollbackJournal
  <2>. QED  BY <1>2, <2>1, <2>2, <2>3, <2>4, <2>5, <2>6 DEF Work
<1>3. CASE Scan \/ RecoverEnd \/ Crash \/ Edit \/ Toggle
  <2>1. UNCHANGED database
    BY <1>3 DEF Scan, RecoverEnd, Crash, Edit, Toggle
  <2>. QED  BY <2>1, SameJournal DEF IInv, database
<1>4. CASE ReplaceInventory \/ Start
  <2>1. ops' = ops /\ (dbi' = dbi \/ \E s : dbi' = Persisted(s))
    BY <1>4 DEF ReplaceInventory, Start
  <2>2. dbi'.rev = dbi.rev  BY <2>1 DEF Persisted, IInv, TypeOK
  <2>. QED  BY <2>1, <2>2, SameJournal DEF IInv
<1>5. CASE RecoverNext  BY <1>5, RecoverNextJournal
<1>6. CASE RecoverManual
  <2>1. Boot \in Procs /\ call[Boot].op \in Ops /\ dbi' = dbi
    BY <1>6 DEF IInv, CallInv, RecoverManual, Procs
  <2>. QED  BY <1>6, <2>1, TransitionJournal DEF RecoverManual, Moves
<1>7. CASE UNCHANGED vars  BY <1>7, SameJournal DEF IInv, vars
<1>. QED  BY <1>1, <1>2, <1>3, <1>4, <1>5, <1>6, <1>7 DEF Next

LEMMA Invariance == Spec => []IInv
<1>1. Init => IInv  BY InitType, InitJournal DEF IInv
<1>2. IInv /\ [Next]_vars => IInv'  BY NextType, NextJournal DEF IInv
<1>. QED  BY <1>1, <1>2, PTL DEF Spec

-----------------------------------------------------------------------------
(* Theorems *)

\* Every reachable state is well typed: rows, callers, lock and host.
THEOREM TypeCorrect == Spec => []TypeOK
BY Invariance, PTL DEF IInv

\* However many requests preview, commit and are recovered concurrently, the
\* interface has at most one operation in progress (CreateOperation).
THEOREM OneOperationAtATime == Spec => []OneInProgress
BY Invariance, PTL DEF IInv, JournalInv

\* Every operation is counted once in the interface's revision and audited exactly
\* when it is committed, whatever fails, is repeated or is recovered (Complete*,
\* FinalizeControlOperation, recoverVerifying).
THEOREM EveryOperationAccountedOnce == Spec => []AccountedOnce
<1>1. IInv => AccountedOnce
  <2>. SUFFICES ASSUME IInv PROVE AccountedOnce  OBVIOUS
  <2>1. ASSUME NEW o \in Ops
        PROVE  /\ ops[o].audits <= ops[o].revs /\ ops[o].revs <= 1
               /\ ops[o].state = "committed" <=> ops[o].audits = 1
    BY DEF IInv, JournalInv, Ledger
  <2>2. dbi.rev = Cardinality({o \in Ops : ops[o].revs = 1})
    BY DEF IInv, JournalInv, Counted
  <2>. QED  BY <2>1, <2>2 DEF AccountedOnce
<1>. QED  BY <1>1, Invariance, PTL

-----------------------------------------------------------------------------
(* What the actions do to callers and journal rows, field by field *)

Others(c) == \A d \in Procs \ {c} : call'[d] = call[d]
To(c, l) ==
  /\ Others(c) /\ call'[c].pc = l /\ call'[c].op = call[c].op
  /\ call'[c].conf = call[c].conf /\ call'[c].old = call[c].old /\ call'[c].up = call[c].up
Left(c) == Others(c) /\ call'[c].pc = "idle"
Flags(c) == call'[c].mayFile = call[c].mayFile /\ call'[c].err = call[c].err

SameRow(o) ==
  /\ ops'[o].type = ops[o].type /\ ops'[o].peer = ops[o].peer /\ ops'[o].spec = ops[o].spec
  /\ ops'[o].snapO = ops[o].snapO /\ ops'[o].snapP = ops[o].snapP
  /\ ops'[o].revs = ops[o].revs /\ ops'[o].exp = ops[o].exp
Relabels(o, s) ==
  (\A q \in Ops \ {o} : ops'[q] = ops[q]) /\ SameRow(o) /\ ops'[o].state = s
\* The row of o stays, or makes the one step
Steps(o, from, to) == ops' = ops \/ (ops[o].state = from /\ Relabels(o, to))

LEMMA SetStateRelabels ==
  ASSUME TypeOK, NEW o \in Ops, NEW s, SetState(o, s)
  PROVE  Relabels(o, s)
<1>1. \A q \in Ops \ {o} : ops'[q] = ops[q]  BY DEF TypeOK, SetState
<1>2. ops'[o] = [ops[o] EXCEPT !.state = s]  BY DEF TypeOK, SetState
<1>3. SameRow(o) /\ ops'[o].state = s
  BY <1>2 DEF TypeOK, OpRecords, SameRow
<1>. QED  BY <1>1, <1>3 DEF Relabels

LEMMA TransitionSteps ==
  ASSUME TypeOK, NEW c \in Procs, call[c].op \in Ops, NEW from, NEW to,
         TransitionOk(c, from, to) \/ TransitionErr(c, from, to)
  PROVE  /\ Steps(call[c].op, from, to)
         /\ TransitionOk(c, from, to) => ops[call[c].op].state = from /\ Relabels(call[c].op, to)
<1>1. UNCHANGED ops \/ (Op(c).state = from /\ SetState(call[c].op, to))
  BY DEF TransitionOk, TransitionErr
<1>2. TransitionOk(c, from, to) => Op(c).state = from /\ SetState(call[c].op, to)
  BY DEF TransitionOk
<1>. QED  BY <1>1, <1>2, SetStateRelabels DEF Op, Steps

LEMMA GotoTo ==
  ASSUME TypeOK, NEW c \in Procs, NEW l, Goto(c, l)
  PROVE  To(c, l) /\ Flags(c)
<1>1. Others(c)  BY DEF TypeOK, Goto, Others
<1>2. call'[c] = [call[c] EXCEPT !.pc = l]  BY DEF TypeOK, Goto
<1>3. call[c] \in CallRecords  BY DEF TypeOK
<1>. QED  BY <1>1, <1>2, <1>3 DEF To, Flags, CallRecords

LEMMA RollbackTo ==
  ASSUME TypeOK, NEW c \in Procs, NEW b, Rollback(c, b)
  PROVE  To(c, "rb_begin") /\ call'[c].mayFile = b /\ call'[c].err = call[c].err
<1>1. Others(c)  BY DEF TypeOK, Rollback, Others
<1>2. call'[c] = [call[c] EXCEPT !.pc = "rb_begin", !.mayFile = b]  BY DEF TypeOK, Rollback
<1>3. call[c] \in CallRecords  BY DEF TypeOK
<1>. QED  BY <1>1, <1>2, <1>3 DEF To, CallRecords

LEMMA IdleLeft ==
  ASSUME TypeOK, NEW c \in Procs, call' = [call EXCEPT ![c] = Idle]
  PROVE  Left(c)
BY DEF TypeOK, Left, Others, Idle

\* A step that gives the lock back, if it was held
Releases(c) == Left(c) /\ (lock' = lock \/ lock = c)
Stays(c, l) == To(c, l) /\ lock' = lock

LEMMA ReturnReleases ==
  ASSUME TypeOK, NEW c \in Procs, Return(c)
  PROVE  Releases(c)
BY IdleLeft DEF Return, Releases

LEMMA CommitPreflightDoes ==
  ASSUME IInv, NEW c \in Procs, CommitPreflight(c)
  PROVE  \/ Releases(c)
         \/ /\ Others(c) /\ lock' = lock /\ call'[c].pc = "validate" /\ call'[c].op = call[c].op
            /\ call'[c].conf = file /\ call'[c].old = peer[Op(c).peer].spec
            /\ call'[c].up = dbi.up /\ ~dbi.drift /\ file = dbi.file
<1>. USE DEF IInv
<1>1. CASE Return(c)  BY <1>1, ReturnReleases
<1>2. CASE ~Return(c)
  <2>. DEFINE r == [call[c] EXCEPT !.pc = "validate"]
              n == WithPreflight(r, call[c].op)
  <2>1. /\ call' = [call EXCEPT ![c] = WithPreflight([@ EXCEPT !.pc = "validate"], @.op)]
        /\ lock' = lock /\ ~dbi.drift /\ file = dbi.file
    BY <1>2 DEF CommitPreflight, PreflightPeer, Unchanged
  <2>2. call' = [call EXCEPT ![c] = n]  BY <2>1
  <2>3. r \in CallRecords /\ r.op = call[c].op /\ r.pc = "validate"
    BY DEF TypeOK, CallRecords, PCs
  <2>. HIDE DEF r
  <2>4. /\ n.pc = "validate" /\ n.op = call[c].op /\ n.conf = file /\ n.up = dbi.up
        /\ n.old = peer[ops[call[c].op].peer].spec
    BY <2>3 DEF WithPreflight, CallRecords
  <2>. HIDE DEF n
  <2>5. Others(c) /\ call'[c] = n  BY <2>2 DEF TypeOK, Others
  <2>. QED  BY <2>1, <2>4, <2>5 DEF Op
<1>. QED  BY <1>1, <1>2

LEMMA ValidateDoes ==
  ASSUME IInv, NEW c \in Procs, Validate(c)
  PROVE  /\ Steps(call[c].op, "pending", "validated")
         /\ \/ Releases(c)
            \/ Stays(c, "prepare") /\ Op(c).state = "pending" /\ Relabels(call[c].op, "validated")
<1>. USE DEF IInv
<1>1. call[c].op \in Ops  BY DEF CallInv, Validate
<1>2. CASE TransitionOk(c, "pending", "validated") /\ Goto(c, "prepare") /\ UNCHANGED lock
  BY <1>1, <1>2, TransitionSteps, GotoTo DEF Stays, Op
<1>3. CASE TransitionErr(c, "pending", "validated") /\ Return(c)
  BY <1>1, <1>3, TransitionSteps, ReturnReleases
<1>4. CASE ops' = ops /\ Return(c)
  BY <1>4, ReturnReleases DEF Steps
<1>. QED  BY <1>2, <1>3, <1>4 DEF Validate

LEMMA PrepareDoes ==
  ASSUME IInv, NEW c \in Procs, Prepare(c)
  PROVE  LET o == call[c].op
         IN \/ Releases(c) /\ Steps(o, "validated", "rejected")
            \/ /\ Stays(c, "execute") /\ \A q \in Ops \ {o} : ops'[q] = ops[q]
               /\ ops[o].state = "validated" /\ ops'[o].state = "snapshotted"
               /\ ops'[o].type = ops[o].type /\ ops'[o].peer = ops[o].peer
               /\ ops'[o].spec = ops[o].spec /\ ops'[o].revs = ops[o].revs
               /\ ops'[o].exp = ops[o].exp
               /\ ops'[o].snapO = call[c].conf
               /\ ops'[o].snapP = Patched(ops[o], call[c].conf)
               /\ Patchable(ops[o], call[c].conf)
<1>. USE DEF IInv
<1>. DEFINE o == call[c].op
            P == Patched(ops[o], call[c].conf)
<1>1. o \in Ops  BY DEF CallInv, Prepare
<1>2. CASE /\ Patchable(ops[o], call[c].conf) /\ ops[o].state = "validated"
           /\ ops' = Snapshotted(o, call[c].conf) /\ Goto(c, "execute") /\ UNCHANGED lock
  <2>1. ops' = [ops EXCEPT ![o].state = "snapshotted", ![o].snapO = call[c].conf, ![o].snapP = P]
    BY <1>2 DEF Snapshotted
  <2>. HIDE DEF P
  <2>2. ops[o] \in OpRecords  BY <1>1 DEF TypeOK
  <2>3. \A q \in Ops \ {o} : ops'[q] = ops[q]  BY <1>1, <2>1 DEF TypeOK
  <2>4. ops'[o] = [ops[o] EXCEPT !.state = "snapshotted", !.snapO = call[c].conf, !.snapP = P]
    BY <1>1, <2>1 DEF TypeOK
  <2>5. /\ ops'[o].state = "snapshotted" /\ ops'[o].type = ops[o].type
        /\ ops'[o].peer = ops[o].peer /\ ops'[o].spec = ops[o].spec
        /\ ops'[o].revs = ops[o].revs /\ ops'[o].snapO = call[c].conf /\ ops'[o].snapP = P
        /\ ops'[o].exp = ops[o].exp
    BY <2>2, <2>4 DEF OpRecords
  <2>6. Stays(c, "execute")  BY <1>2, GotoTo DEF Stays
  <2>. QED  BY <1>2, <2>3, <2>5, <2>6 DEF P
<1>3. CASE Return(c) /\ ( \/ TransitionOk(c, "validated", "rejected")
                          \/ TransitionErr(c, "validated", "rejected")
                          \/ UNCHANGED ops
                          \/ ops[o].state = "validated" /\ SetState(o, "rejected") )
  BY <1>1, <1>3, TransitionSteps, SetStateRelabels, ReturnReleases DEF Steps
<1>. QED  BY <1>2, <1>3 DEF Prepare

LEMMA BeginDoes ==
  ASSUME IInv, NEW c \in Procs, Begin(c)
  PROVE  /\ Steps(call[c].op, "snapshotted", "executing")
         /\ \/ Releases(c)
            \/ /\ Stays(c, "runtime") /\ Flags(c) /\ Op(c).state = "snapshotted"
               /\ Relabels(call[c].op, "executing")
<1>. USE DEF IInv
<1>1. call[c].op \in Ops  BY DEF CallInv, Begin
<1>2. CASE TransitionOk(c, "snapshotted", "executing") /\ Goto(c, "runtime") /\ UNCHANGED lock
  BY <1>1, <1>2, TransitionSteps, GotoTo DEF Stays, Op
<1>3. CASE TransitionErr(c, "snapshotted", "executing") /\ Return(c)
  BY <1>1, <1>3, TransitionSteps, ReturnReleases
<1>. QED  BY <1>2, <1>3 DEF Begin

\* A fault or none; the device is changed only when the preflight found it up.
LEMMA ApplyRuntimeDoes ==
  ASSUME IInv, NEW c \in Procs, ApplyRuntime(c)
  PROVE  LET changed == [run EXCEPT !.peers[Op(c).peer] = Target(c)]
         IN \/ Stays(c, "exchange") /\ Flags(c) /\ call[c].up /\ run' = changed
            \/ /\ Stays(c, "exchange") /\ Flags(c) /\ ~call[c].up /\ run' = run
               /\ run.up => <<call[c].op, "run">> \in left'
            \/ /\ Stays(c, "rb_begin") /\ call'[c].mayFile = FALSE /\ call'[c].err = call[c].err
               /\ run' \in {run, changed}
<1>. DEFINE changed == [run EXCEPT !.peers[Op(c).peer] = Target(c)]
<1>. HIDE DEF changed
<1>1. TypeOK /\ lock' = lock  BY DEF IInv, ApplyRuntime
<1>2. \/ Goto(c, "exchange") /\ call[c].up /\ run' = changed
      \/ Goto(c, "exchange") /\ ~call[c].up /\ run' = run /\ (run.up => Leaves(c, "run"))
      \/ Rollback(c, FALSE) /\ run' \in {run, changed}
  BY DEF ApplyRuntime, changed
<1>3. Goto(c, "exchange") => Stays(c, "exchange") /\ Flags(c)  BY <1>1, GotoTo DEF Stays
<1>4. Rollback(c, FALSE) => /\ Stays(c, "rb_begin") /\ call'[c].mayFile = FALSE
                            /\ call'[c].err = call[c].err
  BY <1>1, RollbackTo DEF Stays
<1>5. Leaves(c, "run") => <<call[c].op, "run">> \in left'  BY DEF Leaves
<1>. QED  BY <1>2, <1>3, <1>4, <1>5 DEF changed

LEMMA ExchangeDoes ==
  ASSUME IInv, NEW c \in Procs, Exchange(c)
  PROVE  LET needed == Op(c).type # "update" \/ Op(c).snapP # Op(c).snapO
         IN \/ /\ Stays(c, "verify") /\ call'[c].mayFile = needed /\ call'[c].err = call[c].err
               /\ IF needed THEN file = call[c].conf /\ file' = Op(c).snapP ELSE file' = file
            \/ /\ Stays(c, "rb_begin") /\ call'[c].mayFile = FALSE /\ call'[c].err = call[c].err
               /\ \/ file' = file
                  \/ file' = Op(c).snapP /\ <<call[c].op, "file">> \in left'
<1>. DEFINE needed == Op(c).type # "update" \/ Op(c).snapP # Op(c).snapO
<1>1. needed \in BOOLEAN  OBVIOUS
<1>. HIDE DEF needed
<1>2. TypeOK /\ lock' = lock  BY DEF IInv, Exchange
<1>3. CASE /\ call' = [call EXCEPT ![c].pc = "verify", ![c].mayFile = needed]
           /\ IF needed THEN file = call[c].conf /\ file' = Op(c).snapP ELSE file' = file
  <2>1. Others(c)  BY <1>2, <1>3 DEF TypeOK, Others
  <2>2. call'[c] = [call[c] EXCEPT !.pc = "verify", !.mayFile = needed]  BY <1>2, <1>3 DEF TypeOK
  <2>3. call[c] \in CallRecords  BY <1>2 DEF TypeOK
  <2>4. Stays(c, "verify") /\ call'[c].mayFile = needed /\ call'[c].err = call[c].err
    BY <1>2, <2>1, <2>2, <2>3 DEF Stays, To, CallRecords
  <2>. QED  BY <1>3, <2>4 DEF needed
<1>4. CASE Rollback(c, FALSE) /\ (file' = file \/ (file' = Op(c).snapP /\ Leaves(c, "file")))
  BY <1>2, <1>4, RollbackTo DEF Stays, Leaves
<1>. QED  BY <1>3, <1>4 DEF Exchange, needed

LEMMA VerifyRuntimeDoes ==
  ASSUME IInv, NEW c \in Procs, VerifyRuntime(c)
  PROVE  /\ \/ Stays(c, "complete") /\ (call[c].up => run.peers[Op(c).peer] = Target(c))
            \/ Stays(c, "rb_begin")
         /\ Flags(c)
<1>1. TypeOK /\ lock' = lock  BY DEF IInv, VerifyRuntime
<1>. QED  BY <1>1, GotoTo, RollbackTo DEF VerifyRuntime, Stays, Flags

LEMMA RollbackBeginDoes ==
  ASSUME IInv, NEW c \in Procs, RollbackBegin(c)
  PROVE  LET o == call[c].op
         IN /\ ops' = ops \/ (ops[o].state \in {"executing", "snapshotted"} /\ Relabels(o, "rolling_back"))
            /\ \/ Releases(c)
               \/ /\ Stays(c, IF Op(c).type = "create" THEN "rb_run" ELSE "rb_file") /\ Flags(c)
<1>. USE DEF IInv
<1>1. call[c].op \in Ops  BY DEF CallInv, RollbackBegin
<1>2. \/ ops' = ops
      \/ /\ Op(c).state \in {"executing", "snapshotted"}
         /\ \/ TransitionOk(c, Op(c).state, "rolling_back")
            \/ TransitionErr(c, Op(c).state, "rolling_back")
  BY DEF RollbackBegin
<1>3. ops' = ops \/ (Op(c).state \in {"executing", "snapshotted"} /\ Relabels(call[c].op, "rolling_back"))
  <2>1. ASSUME Op(c).state \in {"executing", "snapshotted"},
               \/ TransitionOk(c, Op(c).state, "rolling_back")
               \/ TransitionErr(c, Op(c).state, "rolling_back")
        PROVE  Steps(call[c].op, Op(c).state, "rolling_back")
    BY <1>1, <2>1, TransitionSteps
  <2>. QED  BY <1>2, <2>1 DEF Steps
<1>4. \/ Return(c)
      \/ Goto(c, IF Op(c).type = "create" THEN "rb_run" ELSE "rb_file") /\ lock' = lock
  BY DEF RollbackBegin
<1>. QED  BY <1>3, <1>4, ReturnReleases, GotoTo DEF Stays, Op

LEMMA RollbackRuntimeDoes ==
  ASSUME IInv, NEW c \in Procs, RollbackRuntime(c)
  PROVE  LET p == Op(c).peer
             before == IF Op(c).type \in {"create", "enable"} THEN 0 ELSE call[c].old
             restored == [run EXCEPT !.peers[p] = before]
         IN /\ Stays(c, IF Op(c).type = "create" THEN "rb_file" ELSE "rb_end")
            /\ call'[c].mayFile = call[c].mayFile
            /\ run' \in {run, restored}
            /\ ~call'[c].err =>
                 /\ ~call[c].err
                 /\ \/ run' = restored
                    \/ ~run.up \/ <<call[c].op, "run">> \in left'
                    \/ Op(c).type = "create" /\ run.peers[p] = 0
<1>. DEFINE p == Op(c).peer
            before == IF Op(c).type \in {"create", "enable"} THEN 0 ELSE call[c].old
            restored == [run EXCEPT !.peers[p] = before]
            l == IF Op(c).type = "create" THEN "rb_file" ELSE "rb_end"
<1>1. TypeOK /\ lock' = lock  BY DEF IInv, RollbackRuntime
<1>2. \/ /\ call' = [call EXCEPT ![c].pc = l] /\ run' \in {run, restored}
         /\ \/ run' = restored
            \/ ~run.up \/ <<call[c].op, "run">> \in left'
            \/ Op(c).type = "create" /\ run.peers[p] = 0
      \/ call' = [[call EXCEPT ![c].pc = l] EXCEPT ![c].err = TRUE] /\ run' \in {run, restored}
  <2>1. Leaves(c, "run") => <<call[c].op, "run">> \in left'  BY DEF Leaves
  <2>. QED  BY <2>1 DEF RollbackRuntime
<1>. HIDE DEF l, restored
<1>3. CASE call' = [call EXCEPT ![c].pc = l]
  <2>1. To(c, l) /\ Flags(c)  BY <1>1, <1>3, GotoTo DEF Goto
  <2>2. \/ call' # [[call EXCEPT ![c].pc = l] EXCEPT ![c].err = TRUE]
        \/ call'[c].err = TRUE
    BY <1>1 DEF TypeOK, CallRecords
  <2>. QED  BY <1>1, <1>2, <2>1, <2>2 DEF Stays, Flags, l, restored
<1>4. CASE call' = [[call EXCEPT ![c].pc = l] EXCEPT ![c].err = TRUE] /\ run' \in {run, restored}
  <2>1. call' = [call EXCEPT ![c].pc = l, ![c].err = TRUE]  BY <1>1, <1>4 DEF TypeOK
  <2>2. Others(c)  BY <1>1, <2>1 DEF TypeOK, Others
  <2>3. call'[c] = [call[c] EXCEPT !.pc = l, !.err = TRUE]  BY <1>1, <2>1 DEF TypeOK
  <2>4. call[c] \in CallRecords  BY <1>1 DEF TypeOK
  <2>5. To(c, l) /\ call'[c].mayFile = call[c].mayFile /\ call'[c].err = TRUE
    BY <2>2, <2>3, <2>4 DEF To, CallRecords
  <2>. QED  BY <1>1, <1>4, <2>5 DEF Stays, l, restored
<1>. QED  BY <1>2, <1>3, <1>4

LEMMA RollbackFileDoes ==
  ASSUME IInv, NEW c \in Procs, RollbackFile(c)
  PROVE  LET o == Op(c)
         IN /\ Stays(c, IF o.type = "create" THEN "rb_end" ELSE "rb_run")
            /\ call'[c].mayFile = call[c].mayFile
            /\ \/ file' = file
               \/ call[c].mayFile /\ file.peers = o.snapP.peers /\ file' = o.snapO
            /\ ~call'[c].err =>
                 /\ ~call[c].err
                 /\ \/ file' = o.snapO
                    \/ file' = file /\ ~call[c].mayFile /\ left' = left
                    \/ /\ file' = file /\ file # o.snapP /\ o.type \notin {"create", "update"}
                       /\ <<call[c].op, "file">> \in left'
<1>. DEFINE other == call[c].mayFile /\ file # Op(c).snapP /\ file # Op(c).snapO
            foreign == other /\ Op(c).type \in {"create", "update"}
            proposed == call[c].mayFile /\ file = Op(c).snapP
            e == call[c].err \/ foreign
            l == IF Op(c).type = "create" THEN "rb_end" ELSE "rb_run"
            restores == call[c].mayFile /\ file.peers = Op(c).snapP.peers /\ file' = Op(c).snapO
            quietly == \/ proposed /\ file' = Op(c).snapO
                       \/ /\ ~proposed /\ file' = file
                          /\ \/ other /\ ~foreign /\ Leaves(c, "file")
                             \/ ~(other /\ ~foreign) /\ left' = left
<1>1. TypeOK /\ lock' = lock  BY DEF IInv, RollbackFile
<1>2. e \in BOOLEAN  OBVIOUS
<1>3. \/ call' = [call EXCEPT ![c].pc = l, ![c].err = @ \/ foreign] /\ quietly
      \/ /\ call' = [[call EXCEPT ![c].pc = l, ![c].err = @ \/ foreign] EXCEPT ![c].err = TRUE]
         /\ file' = file \/ restores
  BY DEF RollbackFile
<1>4. [call EXCEPT ![c].pc = l, ![c].err = @ \/ foreign] = [call EXCEPT ![c].pc = l, ![c].err = e]
  BY <1>1 DEF TypeOK, CallRecords
<1>5. [[call EXCEPT ![c].pc = l, ![c].err = e] EXCEPT ![c].err = TRUE]
        = [call EXCEPT ![c].pc = l, ![c].err = TRUE]
  BY <1>1 DEF TypeOK, CallRecords
<1>6. quietly => file' = file \/ restores  OBVIOUS
<1>7. PICK b \in BOOLEAN :
        /\ call' = [call EXCEPT ![c].pc = l, ![c].err = b]
        /\ file' = file \/ restores
        /\ ~b => ~e /\ quietly
  <2>. HIDE DEF e, l, foreign, quietly, restores
  <2>1. CASE call' = [call EXCEPT ![c].pc = l, ![c].err = @ \/ foreign] /\ quietly
    <3>1. call' = [call EXCEPT ![c].pc = l, ![c].err = e]  BY <1>4, <2>1
    <3>. QED  BY <1>2, <1>6, <2>1, <3>1
  <2>2. CASE /\ call' = [[call EXCEPT ![c].pc = l, ![c].err = @ \/ foreign] EXCEPT ![c].err = TRUE]
             /\ file' = file \/ restores
    <3>1. call' = [call EXCEPT ![c].pc = l, ![c].err = TRUE]  BY <1>4, <1>5, <2>2
    <3>. QED  BY <2>2, <3>1
  <2>. QED  BY <1>3, <2>1, <2>2
<1>8. ~e /\ quietly =>
        /\ ~call[c].err
        /\ \/ file' = Op(c).snapO
           \/ file' = file /\ ~call[c].mayFile /\ left' = left
           \/ /\ file' = file /\ file # Op(c).snapP /\ Op(c).type \notin {"create", "update"}
              /\ <<call[c].op, "file">> \in left'
  <2>1. Leaves(c, "file") => <<call[c].op, "file">> \in left'  BY DEF Leaves
  <2>. QED  BY <2>1
<1>. HIDE DEF e, l, foreign, quietly
<1>9. Others(c)  BY <1>1, <1>7 DEF TypeOK, Others
<1>10. call'[c] = [call[c] EXCEPT !.pc = l, !.err = b]  BY <1>1, <1>7 DEF TypeOK
<1>11. call[c] \in CallRecords  BY <1>1 DEF TypeOK
<1>12. To(c, l) /\ call'[c].mayFile = call[c].mayFile /\ call'[c].err = b
  BY <1>9, <1>10, <1>11 DEF To, CallRecords
<1>. QED  BY <1>1, <1>7, <1>8, <1>12 DEF Stays, l

\* The rows of interfaces and peers change only when an operation completes.
LEMMA CompleteDoes ==
  ASSUME IInv, NEW c \in Procs, Complete(c)
  PROVE  LET o == call[c].op
         IN \/ /\ Stays(c, "finalize") /\ Completable(c)
               /\ peer' = [peer EXCEPT ![ops[o].peer] = CompletedPeer(@, ops[o])]
               /\ dbi'.file = ops[o].snapP /\ dbi'.up = dbi.up /\ dbi'.rev = dbi.rev + 1
               /\ applied'.file = ops[o].snapP
               /\ \A q \in Ops \ {o} : ops'[q] = ops[q]
               /\ ops[o].state = "executing" /\ ops'[o].state = "verifying"
               /\ ops'[o].revs = ops[o].revs + 1 /\ ops'[o].type = ops[o].type
               /\ ops'[o].peer = ops[o].peer /\ ops'[o].spec = ops[o].spec
               /\ ops'[o].exp = ops[o].exp
               /\ ops'[o].snapO = ops[o].snapO /\ ops'[o].snapP = ops[o].snapP
            \/ Stays(c, "rb_begin") /\ Flags(c) /\ UNCHANGED database
<1>. DEFINE o == call[c].op
<1>1. TypeOK /\ lock' = lock /\ o \in Ops  BY DEF IInv, CallInv, Complete
<1>2. CASE Rollback(c, call[c].mayFile) /\ UNCHANGED database
  BY <1>1, <1>2, RollbackTo, SMTT(30) DEF Stays, Flags
<1>3. CASE ~(Rollback(c, call[c].mayFile) /\ UNCHANGED database)
  <2>1. /\ Completable(c) /\ Goto(c, "finalize")
        /\ peer' = [peer EXCEPT ![ops[o].peer] = CompletedPeer(@, ops[o])]
        /\ dbi' = [dbi EXCEPT !.rev = @ + 1, !.file = ops[o].snapP, !.drift = FALSE]
        /\ applied' = [file |-> ops[o].snapP, run |-> run]
        /\ ops' = [ops EXCEPT ![o].state = "verifying", ![o].revs = @ + 1]
    BY <1>3 DEF Complete
  <2>2. /\ dbi'.file = ops[o].snapP /\ dbi'.up = dbi.up /\ dbi'.rev = dbi.rev + 1
        /\ applied'.file = ops[o].snapP
    BY <1>1, <2>1 DEF TypeOK
  <2>3. \A q \in Ops \ {o} : ops'[q] = ops[q]  BY <1>1, <2>1 DEF TypeOK
  <2>4. /\ ops'[o].state = "verifying" /\ ops'[o].revs = ops[o].revs + 1
        /\ ops'[o].type = ops[o].type /\ ops'[o].snapO = ops[o].snapO
        /\ ops'[o].snapP = ops[o].snapP /\ ops'[o].peer = ops[o].peer
        /\ ops'[o].spec = ops[o].spec /\ ops'[o].exp = ops[o].exp
    BY <1>1, <2>1 DEF TypeOK, OpRecords
  <2>5. ops[o].state = "executing"  BY <2>1 DEF Completable, Op
  <2>6. Stays(c, "finalize")  BY <1>1, <2>1, GotoTo DEF Stays
  <2>. QED  BY <2>1, <2>2, <2>3, <2>4, <2>5, <2>6
<1>. QED  BY <1>2, <1>3

LEMMA FinalizeDoes ==
  ASSUME IInv, NEW c \in Procs, Finalize(c)
  PROVE  Releases(c) /\ Steps(call[c].op, "verifying", "committed")
<1>. DEFINE o == call[c].op
<1>1. TypeOK /\ o \in Ops  BY DEF IInv, CallInv, Finalize
<1>2. Releases(c)  BY <1>1, ReturnReleases DEF Finalize
<1>3. CASE ops' = ops  BY <1>2, <1>3 DEF Steps
<1>4. CASE ops' # ops
  <2>1. /\ ops[o].state = "verifying"
        /\ ops' = [ops EXCEPT ![o].state = "committed", ![o].audits = @ + 1]
    BY <1>4 DEF Finalize, Op
  <2>2. \A q \in Ops \ {o} : ops'[q] = ops[q]  BY <1>1, <2>1 DEF TypeOK
  <2>3. SameRow(o) /\ ops'[o].state = "committed"
    BY <1>1, <2>1 DEF TypeOK, OpRecords, SameRow
  <2>. QED  BY <1>2, <2>1, <2>2, <2>3 DEF Steps, Relabels
<1>. QED  BY <1>3, <1>4

LEMMA RollbackEndDoes ==
  ASSUME IInv, NEW c \in Procs, RollbackEnd(c)
  PROVE  Releases(c) /\ Steps(call[c].op, "rolling_back", RollbackOutcome(c))
<1>1. TypeOK /\ call[c].op \in Ops  BY DEF IInv, CallInv, RollbackEnd
<1>2. Releases(c)
  <2>1. Return(c) \/ (call' = [call EXCEPT ![c] = Idle] /\ (lock' = lock \/ lock = c))
    BY DEF RollbackEnd
  <2>. QED  BY <1>1, <2>1, ReturnReleases, IdleLeft DEF Releases
<1>3. \/ TransitionOk(c, "rolling_back", RollbackOutcome(c))
      \/ TransitionErr(c, "rolling_back", RollbackOutcome(c))
  BY DEF RollbackEnd
<1>. QED  BY <1>1, <1>2, <1>3, TransitionSteps

LEMMA RecoverManualDoes ==
  ASSUME IInv, RecoverManual
  PROVE  Releases(Boot) /\ Steps(call[Boot].op, "rolling_back", "rollback_failed")
<1>1. TypeOK /\ Boot \in Procs /\ call[Boot].op \in Ops
  BY DEF IInv, CallInv, RecoverManual, Procs
<1>. QED  BY <1>1, TransitionSteps, ReturnReleases DEF RecoverManual

\* What the recovery makes of an operation at once
RecoveredState(o) ==
  CASE ops[o].state = "pending" -> "expired"
    [] ops[o].state = "validated" -> "rejected"
    [] ops[o].state = "verifying" -> IF Agrees(o) THEN "committed" ELSE "rolling_back"
    [] OTHER -> ops[o].state

LEMMA RecoverNextDoes ==
  ASSUME IInv, RecoverNext
  PROVE  \/ ops' = ops /\ call' = call
         \/ \E o \in Ops :
              /\ Others(Boot)
              /\ Relabels(o, RecoveredState(o))
              /\ \/ call'[Boot].pc = "idle"
                 \/ /\ call'[Boot].pc = "manual" /\ call'[Boot].op = o
                    /\ ops[o].state = "verifying" /\ ~Agrees(o)
                 \/ /\ call'[Boot].pc = "rb_begin" /\ call'[Boot].op = o
                    /\ ops[o].state \in {"snapshotted", "executing", "rolling_back"}
                    /\ call'[Boot].mayFile = TRUE /\ call'[Boot].up = dbi.up
                    /\ call'[Boot].old = peer[ops[o].peer].spec
<1>. USE DEF IInv
<1>1. CASE ops' = ops /\ call' = call  BY <1>1
<1>2. CASE ~(ops' = ops /\ call' = call)
  <2>. DEFINE begun(o) == [Idle EXCEPT !.pc = "rb_begin", !.op = o, !.mayFile = TRUE]
              manual(o) == [Idle EXCEPT !.pc = "manual", !.op = o]
  <2>1. PICK o \in todo :
          /\ ops' = [ops EXCEPT ![o] = Recovered(o)]
          /\ call' = [call EXCEPT ![Boot] =
               CASE ops[o].state \in {"snapshotted", "executing", "rolling_back"} ->
                      RecoverSnapshotted(o)
                 [] ops[o].state = "verifying" /\ ~Agrees(o) -> manual(o)
                 [] OTHER -> Idle]
    BY <1>2 DEF RecoverNext
  <2>2. o \in Ops /\ Boot \in Procs  BY DEF TypeOK, Procs
  <2>3. Relabels(o, RecoveredState(o))
    <3>1. (\A q \in Ops \ {o} : ops'[q] = ops[q]) /\ ops'[o] = Recovered(o)
      BY <2>1, <2>2 DEF TypeOK
    <3>2. ops[o] \in OpRecords  BY <2>2 DEF TypeOK
    <3>3. /\ Recovered(o).type = ops[o].type /\ Recovered(o).peer = ops[o].peer
          /\ Recovered(o).spec = ops[o].spec /\ Recovered(o).snapO = ops[o].snapO
          /\ Recovered(o).snapP = ops[o].snapP /\ Recovered(o).revs = ops[o].revs
          /\ Recovered(o).exp = ops[o].exp
          /\ Recovered(o).exp = ops[o].exp
      BY <3>2 DEF Recovered, OpRecords
    <3>4. Recovered(o).state = RecoveredState(o)
      <4>. DEFINE s == CASE ops[o].state = "pending" -> "expired"
                         [] ops[o].state = "validated" -> "rejected"
                         [] ops[o].state = "verifying" ->
                              IF Agrees(o) THEN "committed" ELSE "rolling_back"
                         [] OTHER -> ops[o].state
                  a == IF ops[o].state = "verifying" /\ Agrees(o) THEN ops[o].audits + 1
                       ELSE ops[o].audits
      <4>1. Recovered(o) = [ops[o] EXCEPT !.state = s, !.audits = a]
        BY <3>2 DEF Recovered, OpRecords
      <4>2. s = RecoveredState(o)  BY DEF RecoveredState
      <4>. HIDE DEF s, a
      <4>3. Recovered(o).state = s  BY <3>2, <4>1 DEF OpRecords
      <4>. QED  BY <4>2, <4>3
    <3>. QED  BY <3>1, <3>3, <3>4 DEF Relabels, SameRow
  <2>4. begun(o) \in CallRecords /\ begun(o).op = o /\ begun(o).pc = "rb_begin"
        /\ begun(o).mayFile = TRUE
    BY <2>2, ConstantTypes DEF CallRecords, PCs, Idle
  <2>5. manual(o).op = o /\ manual(o).pc = "manual"  BY DEF Idle
  <2>. HIDE DEF manual
  <2>6. RecoverSnapshotted(o) = WithPreflight(begun(o), o)  BY DEF RecoverSnapshotted
  <2>. HIDE DEF begun
  <2>7. LET r == RecoverSnapshotted(o)
        IN /\ r.pc = "rb_begin" /\ r.op = o /\ r.mayFile = TRUE /\ r.up = dbi.up
           /\ r.old = peer[ops[o].peer].spec
    BY <2>4, <2>6 DEF WithPreflight, CallRecords
  <2>8. Idle.pc = "idle"  BY DEF Idle
  <2>9. /\ Others(Boot)
        /\ \/ call'[Boot] = Idle
           \/ call'[Boot] = manual(o) /\ ops[o].state = "verifying" /\ ~Agrees(o)
           \/ /\ call'[Boot] = RecoverSnapshotted(o)
              /\ ops[o].state \in {"snapshotted", "executing", "rolling_back"}
    <3>1. Others(Boot)  BY <2>1, <2>2 DEF TypeOK, Others
    <3>2. call'[Boot] = CASE ops[o].state \in {"snapshotted", "executing", "rolling_back"} ->
                               RecoverSnapshotted(o)
                          [] ops[o].state = "verifying" /\ ~Agrees(o) -> manual(o)
                          [] OTHER -> Idle
      BY <2>1, <2>2 DEF TypeOK
    <3>. QED  BY <3>1, <3>2
  <2>. QED  BY <2>2, <2>3, <2>5, <2>7, <2>8, <2>9
<1>. QED  BY <1>1, <1>2

LEMMA PreviewDoes ==
  ASSUME IInv, NEW c \in Callers, Preview(c)
  PROVE  /\ mode = "serving" /\ call[c].pc = "idle" /\ Others(c)
         /\ call'[c].pc = "plan" /\ call'[c].plan.type \in Types
         /\ UNCHANGED <<host, database, lock, scan, agent, faults, toggles>>
<1>1. TypeOK /\ c \in Procs  BY DEF IInv, Procs
<1>2. PICK t, p, s : Plan(c, t, p, s)
  BY DEF Preview, PreviewCreatePeer, PreviewUpdatePeer, PreviewPeerLifecycle
<1>3. PICK a \in Actors :
        call' = [call EXCEPT ![c] = [Idle EXCEPT
          !.pc = "plan",
          !.plan = [NoOp EXCEPT !.state = "pending", !.type = t, !.peer = p, !.spec = s,
                                !.actor = a, !.exp = dbi.rev, !.orig = dbi.file]]]
  BY <1>2 DEF Plan
<1>. DEFINE n == [NoOp EXCEPT !.state = "pending", !.type = t, !.peer = p, !.spec = s,
                              !.actor = a, !.exp = dbi.rev, !.orig = dbi.file]
            r == [Idle EXCEPT !.pc = "plan", !.plan = n]
<1>4. n.type = t  BY DEF NoOp
<1>. HIDE DEF n
<1>5. r.pc = "plan" /\ r.plan = n  BY DEF Idle
<1>6. call' = [call EXCEPT ![c] = r]  BY <1>3 DEF n
<1>. HIDE DEF r
<1>7. Others(c) /\ call'[c] = r  BY <1>1, <1>6 DEF TypeOK, Others
<1>. QED  BY <1>2, <1>4, <1>5, <1>7 DEF Plan

LEMMA CreateOperationDoes ==
  ASSUME IInv, NEW c \in Procs, CreateOperation(c)
  PROVE  /\ Releases(c)
         /\ \A o \in Ops :
              \/ ops'[o] = ops[o]
              \/ ops[o].state = "none" /\ ops'[o] = call[c].plan
              \/ ops[o].state = "pending" /\ ops'[o].state = "expired" /\ SameRow(o)
<1>. DEFINE new == call[c].plan
<1>1. TypeOK  BY DEF IInv
<1>2. Releases(c)  BY <1>1, ReturnReleases DEF CreateOperation
<1>3. \A o \in Ops : ops[o] \in OpRecords  BY <1>1 DEF TypeOK
<1>4. ASSUME NEW o \in Ops
      PROVE  \/ ops'[o] = ops[o]
             \/ ops[o].state = "none" /\ ops'[o] = new
             \/ ops[o].state = "pending" /\ ops'[o] = [ops[o] EXCEPT !.state = "expired"]
  BY DEF CreateOperation, Superseded
<1>5. ASSUME NEW o \in Ops, ops'[o] = [ops[o] EXCEPT !.state = "expired"]
      PROVE  ops'[o].state = "expired" /\ SameRow(o)
  BY <1>3, <1>5 DEF OpRecords, SameRow
<1>. QED  BY <1>2, <1>4, <1>5

LEMMA CommitDoes ==
  ASSUME IInv, NEW c \in Callers, Commit(c)
  PROVE  /\ mode = "serving" /\ call[c].pc = "idle" /\ Others(c)
         /\ UNCHANGED <<host, database, lock, scan, agent, faults, toggles>>
         /\ \E o \in Ops :
              /\ ops[o].state = "pending" /\ call'[c].pc = "lock" /\ call'[c].op = o
              /\ \/ ops[o].type = "create"
                 \/ /\ ~dbi.drift /\ file = dbi.file /\ call'[c].conf = file
                    /\ call'[c].old = peer[ops[o].peer].spec /\ call'[c].up = dbi.up
<1>1. TypeOK /\ c \in Procs  BY DEF IInv, Procs
<1>2. PICK o, r :
        /\ o \in Ops /\ r \in {ForLock(o), WithPreflight(ForLock(o), o)}
        /\ Enter(c, o, r)
        /\ ops[o].type = "create"
           \/ (~dbi.drift /\ file = dbi.file /\ r = WithPreflight(ForLock(o), o))
  <2>1. CASE CommitCreatePeer(c)
    <3>1. PICK o \in Ops : ops[o].type = "create" /\ Enter(c, o, ForLock(o))
      BY <2>1 DEF CommitCreatePeer
    <3>. QED  BY <3>1
  <2>2. CASE CommitUpdatePeer(c)
    <3>1. PICK o \in Ops : /\ ~dbi.drift /\ file = dbi.file
                           /\ Enter(c, o, WithPreflight(ForLock(o), o))
      BY <2>2 DEF CommitUpdatePeer, PreflightPeerUpdate, Unchanged
    <3>. QED  BY <3>1
  <2>3. CASE CommitPeerLifecycle(c)
    <3>1. PICK o \in Ops : /\ ~dbi.drift /\ file = dbi.file
                           /\ Enter(c, o, WithPreflight(ForLock(o), o))
      BY <2>3 DEF CommitPeerLifecycle, PreflightPeerLifecycle, Unchanged
    <3>. QED  BY <3>1
  <2>. QED  BY <2>1, <2>2, <2>3 DEF Commit
<1>3. ForLock(o) \in CallRecords /\ ForLock(o).pc = "lock" /\ ForLock(o).op = o
  BY <1>2, ConstantTypes DEF CallRecords, PCs, Idle, ForLock
<1>4. LET w == WithPreflight(ForLock(o), o)
      IN /\ w.pc = "lock" /\ w.op = o /\ w.conf = file /\ w.old = peer[ops[o].peer].spec
         /\ w.up = dbi.up
  BY <1>3 DEF WithPreflight, CallRecords
<1>5. /\ ops[o].state = "pending" /\ mode = "serving" /\ call[c].pc = "idle"
      /\ call' = [call EXCEPT ![c] = r]
      /\ UNCHANGED <<host, database, lock, scan, agent, faults, toggles>>
  BY <1>2 DEF Enter
<1>6. Others(c) /\ call'[c] = r  BY <1>1, <1>5 DEF TypeOK, Others
<1>7. r.pc = "lock" /\ r.op = o  BY <1>2, <1>3, <1>4
<1>8. \/ ops[o].type = "create"
      \/ /\ ~dbi.drift /\ file = dbi.file /\ r.conf = file
         /\ r.old = peer[ops[o].peer].spec /\ r.up = dbi.up
  BY <1>2, <1>4
<1>. QED  BY <1>2, <1>5, <1>6, <1>7, <1>8

LEMMA LockDoes ==
  ASSUME IInv, NEW c \in Callers, Lock(c)
  PROVE  /\ call[c].pc = "lock" /\ lock = Nobody /\ lock' = c
         /\ To(c, IF Op(c).type = "create" THEN "preflight" ELSE "validate")
         /\ UNCHANGED <<host, database, scan, agent, faults, toggles>>
<1>. DEFINE l == IF Op(c).type = "create" THEN "preflight" ELSE "validate"
<1>1. TypeOK /\ c \in Procs /\ Goto(c, l)  BY DEF IInv, Procs, Lock
<1>. HIDE DEF l
<1>2. To(c, l)  BY <1>1, GotoTo
<1>. QED  BY <1>2 DEF Lock, l

LEMMA EndContextDoes ==
  ASSUME IInv, NEW c \in Callers, EndContext(c)
  PROVE  /\ call[c].pc # "idle" /\ To(c, call[c].pc) /\ Flags(c) /\ call'[c].plan = call[c].plan
         /\ UNCHANGED <<host, database, lock, scan, agent, toggles>>
<1>1. TypeOK /\ c \in Procs  BY DEF IInv, Procs
<1>2. Others(c)  BY <1>1 DEF TypeOK, EndContext, Others
<1>3. call'[c] = [call[c] EXCEPT !.gone = TRUE]  BY <1>1 DEF TypeOK, EndContext
<1>4. call[c] \in CallRecords  BY <1>1 DEF TypeOK
<1>5. To(c, call[c].pc) /\ Flags(c) /\ call'[c].plan = call[c].plan
  BY <1>2, <1>3, <1>4 DEF To, Flags, CallRecords
<1>. QED  BY <1>5 DEF EndContext

-----------------------------------------------------------------------------
(* Who is at work *)

\* Where the interface is held, by its lock or by the recovery; where the host is
\* being changed; and where it is being restored
Held == {"preflight", "validate", "prepare", "execute", "runtime", "exchange", "verify",
         "complete", "finalize", "rb_begin", "rb_run", "rb_file", "rb_end", "manual"}
AtHost == {"runtime", "exchange", "verify", "complete"}
Undoing == {"rb_begin", "rb_run", "rb_file", "rb_end"}

\* Requests work under the lock while the agent serves, the recovery while it
\* recovers.
MutexInv ==
  /\ \A c \in Callers : /\ call[c].pc \in Held => lock = c
                        /\ call[c].pc # "manual"
                        /\ mode # "serving" => call[c].pc = "idle"
  /\ call[Boot].pc \in Undoing \cup {"idle", "manual"}
  /\ mode # "recovering" => call[Boot].pc = "idle"

LEMMA OneAtWork ==
  ASSUME MutexInv, NEW c \in Procs, NEW d \in Procs, call[c].pc \in Held, call[d].pc # "idle"
  PROVE  c = d \/ (c \in Callers /\ d \in Callers /\ call[d].pc \notin Held)
<1>1. ASSUME c = Boot, d \in Callers PROVE FALSE
  BY <1>1, CallersAssumption DEF MutexInv, Held
<1>2. ASSUME d = Boot, c \in Callers PROVE FALSE
  BY <1>2, CallersAssumption DEF MutexInv, Held
<1>. QED  BY <1>1, <1>2 DEF MutexInv, Procs

LEMMA WorkPlaces ==
  ASSUME IInv, NEW c \in Procs, Work(c)
  PROVE  /\ Others(c) /\ mode' = mode /\ call[c].pc \in Held \cup {"plan"}
         /\ \/ Releases(c)
            \/ /\ lock' = lock /\ call[c].pc \in Held /\ call'[c].pc \in Held \ {"manual"}
               /\ call[c].pc \in Undoing => call'[c].pc \in Undoing
<1>. USE DEF Stays, To, Releases, Left, Held, Undoing
<1>1. CASE CreateOperation(c) BY <1>1, CreateOperationDoes DEF CreateOperation
<1>2. CASE CommitPreflight(c) BY <1>2, CommitPreflightDoes DEF CommitPreflight
<1>3. CASE Validate(c) BY <1>3, ValidateDoes DEF Validate
<1>4. CASE Prepare(c) BY <1>4, PrepareDoes DEF Prepare
<1>5. CASE Begin(c) BY <1>5, BeginDoes DEF Begin
<1>6. CASE ApplyRuntime(c)
  BY <1>6, ApplyRuntimeDoes DEF ApplyRuntime, agent
<1>7. CASE Exchange(c) BY <1>7, ExchangeDoes DEF Exchange, agent
<1>8. CASE VerifyRuntime(c) BY <1>8, VerifyRuntimeDoes DEF VerifyRuntime, agent
<1>9. CASE Complete(c) BY <1>9, CompleteDoes DEF Complete, agent
<1>10. CASE Finalize(c) BY <1>10, FinalizeDoes DEF Finalize
<1>11. CASE RollbackBegin(c) BY <1>11, RollbackBeginDoes DEF RollbackBegin
<1>12. CASE RollbackRuntime(c) BY <1>12, RollbackRuntimeDoes DEF RollbackRuntime, agent
<1>13. CASE RollbackFile(c) BY <1>13, RollbackFileDoes DEF RollbackFile, agent
<1>14. CASE RollbackEnd(c) BY <1>14, RollbackEndDoes DEF RollbackEnd
<1>. QED  BY <1>1, <1>2, <1>3, <1>4, <1>5, <1>6, <1>7, <1>8, <1>9, <1>10, <1>11, <1>12,
             <1>13, <1>14 DEF Work

LEMMA NextMutex == IInv /\ MutexInv /\ [Next]_vars => MutexInv'
<1>. SUFFICES ASSUME IInv, MutexInv, [Next]_vars PROVE MutexInv'  OBVIOUS
<1>0. /\ Callers \subseteq Procs /\ Boot \in Procs /\ Boot \notin Callers
      /\ Nobody \notin Callers /\ lock \in Callers \cup {Nobody}
  BY CallersAssumption DEF Procs, IInv, TypeOK
<1>1. ASSUME NEW c \in Callers, Preview(c) \/ Commit(c) \/ EndContext(c) PROVE MutexInv'
  <2>1. /\ Others(c) /\ mode' = mode /\ lock' = lock
        /\ \/ mode = "serving" /\ call'[c].pc \in {"plan", "lock"}
           \/ call'[c].pc = call[c].pc
    BY <1>1, PreviewDoes, CommitDoes, EndContextDoes DEF agent, To
  <2>. QED  BY <1>0, <2>1 DEF MutexInv, Others, Held
<1>2. ASSUME NEW c \in Callers, Lock(c) PROVE MutexInv'
  <2>1. /\ Others(c) /\ mode' = mode /\ lock = Nobody /\ lock' = c /\ call[c].pc = "lock"
        /\ call'[c].pc \in {"preflight", "validate"}
    BY <1>2, LockDoes DEF agent, To
  <2>. QED  BY <1>0, <2>1 DEF MutexInv, Others, Held
<1>3. ASSUME NEW c \in Procs, Work(c) PROVE MutexInv'
  <2>1. CASE Releases(c)
    <3>1. /\ mode' = mode /\ call'[c].pc = "idle" /\ \A d \in Procs \ {c} : call'[d] = call[d]
          /\ lock' = lock \/ lock = c
      BY <1>3, <2>1, WorkPlaces DEF Releases, Left, Others
    <3>2. "idle" \notin Held /\ "idle" # "manual"  BY DEF Held
    <3>3. ASSUME NEW d \in Callers
          PROVE  /\ call'[d].pc \in Held => lock' = d
                 /\ call'[d].pc # "manual"
                 /\ mode' # "serving" => call'[d].pc = "idle"
      BY <1>0, <3>1, <3>2 DEF MutexInv
    <3>. QED  BY <1>0, <3>1, <3>3 DEF MutexInv
  <2>2. CASE ~Releases(c)
    <3>1. /\ Others(c) /\ mode' = mode /\ lock' = lock /\ call[c].pc \in Held
          /\ call'[c].pc \in Held \ {"manual"}
          /\ call[c].pc \in Undoing => call'[c].pc \in Undoing
      BY <1>3, <2>2, WorkPlaces
    <3>2. CASE c = Boot
      <4>1. call[Boot].pc \in Undoing
        <5>1. call[Boot].pc # "manual"
          BY <1>3, <3>2 DEF Work, CreateOperation, CommitPreflight, Validate, Prepare, Begin,
               ApplyRuntime, Exchange, VerifyRuntime, Complete, Finalize, RollbackBegin,
               RollbackRuntime, RollbackFile, RollbackEnd
        <5>. QED  BY <3>1, <3>2, <5>1 DEF MutexInv, Held
      <4>. QED  BY <1>0, <3>1, <3>2, <4>1 DEF MutexInv, Others, Undoing
    <3>3. CASE c \in Callers
      BY <1>0, <3>1, <3>3 DEF MutexInv, Others, Held
    <3>. QED  BY <3>2, <3>3 DEF Procs
  <2>. QED  BY <2>1, <2>2
<1>4. CASE RecoverNext
  <2>1. mode = "recovering" /\ mode' = mode /\ lock' = lock  BY <1>4 DEF RecoverNext
  <2>2. call' = call \/ (Others(Boot) /\ call'[Boot].pc \in {"idle", "manual", "rb_begin"})
    BY <1>4, RecoverNextDoes
  <2>. QED  BY <1>0, <2>1, <2>2 DEF MutexInv, Others, Undoing
<1>5. CASE RecoverManual
  <2>1. Releases(Boot) /\ mode' = mode  BY <1>5, RecoverManualDoes DEF RecoverManual
  <2>. QED  BY <1>0, <2>1 DEF MutexInv, Releases, Left, Others
<1>6. CASE Scan \/ ReplaceInventory \/ Edit \/ Toggle \/ UNCHANGED vars
  <2>1. call' = call /\ mode' = mode /\ lock' = lock
    BY <1>6 DEF Scan, ReplaceInventory, Edit, Toggle, agent, vars
  <2>. QED  BY <2>1 DEF MutexInv
<1>7. CASE Start
  BY <1>7 DEF Start, MutexInv
<1>8. CASE RecoverEnd
  BY <1>8 DEF RecoverEnd, MutexInv
<1>9. CASE Crash
  <2>1. \A d \in Procs : call'[d].pc = "idle"  BY <1>9 DEF Crash, Idle
  <2>. QED  BY <1>0, <2>1 DEF MutexInv, Held
<1>. QED  BY <1>1, <1>2, <1>3, <1>4, <1>5, <1>6, <1>7, <1>8, <1>9 DEF Next

LEMMA InitMutex == Init => MutexInv
BY CallersAssumption DEF Init, MutexInv, Procs, Idle, Held

-----------------------------------------------------------------------------
(* The rows against each other *)

Begun == {"snapshotted", "executing", "rolling_back", "rollback_failed"}

\* The snapshot is of the recorded file, and of an edit that the rows still call for.
SnapOK(o) ==
  /\ ops[o].snapO = applied.file
  /\ Patchable(ops[o], ops[o].snapO) /\ ops[o].snapP = Patched(ops[o], ops[o].snapO)

\* The recorded file has what the peers' rows say; the archive of a peer that is off
\* is its configuration.
PeerOK(p) ==
  /\ applied.file.peers[p] = IF peer[p].life = "active" THEN peer[p].spec ELSE 0
  /\ peer[p].archive # 0 => peer[p].life # "active" /\ peer[p].archive = peer[p].spec

OpOK(o) ==
  /\ ops[o].state \in Begun /\ ops[o].revs = 0 => SnapOK(o)
  /\ ops[o].state # "none" => ops[o].type \in Types

RowsInv ==
  /\ ~dbi.drift => dbi.file = applied.file
  /\ \A p \in Peers : PeerOK(p)
  /\ \A o \in Ops : OpOK(o)

\* What the preflight of c has read is still so.
Looked(c) ==
  \/ call[c].pc = "lock" /\ Op(c).type # "create" /\ Op(c).state = "pending"
  \/ call[c].pc = "validate" /\ Op(c).state = "pending"
  \/ call[c].pc = "prepare" /\ Op(c).state = "validated"
  \/ call[c].pc = "execute" /\ Op(c).state = "snapshotted"
  \/ call[c].pc \in AtHost

CallOK(c) ==
  /\ call[c].pc \notin {"idle", "plan"} => Op(c).state # "none"
  /\ call[c].pc = "plan" => call[c].plan.type \in Types
  /\ call[c].pc \in AtHost => Op(c).state = "executing"
  /\ call[c].pc \in Undoing => Op(c).state \in {"snapshotted", "executing", "rolling_back"}
  /\ Looked(c) => call[c].conf = applied.file
  /\ Looked(c) \/ call[c].pc \in Undoing => call[c].old = peer[Op(c).peer].spec

CallsInv == \A c \in Procs : CallOK(c)

LEMMA SameCall ==
  ASSUME IInv, NEW d \in Procs, CallOK(d),
         call'[d].pc = call[d].pc, call'[d].op = call[d].op, call'[d].conf = call[d].conf,
         call'[d].old = call[d].old, call'[d].plan = call[d].plan,
         applied'.file = applied.file, peer' = peer,
         call[d].pc \notin {"idle", "plan"} =>
           LET o == call[d].op
           IN /\ ops'[o].type = ops[o].type /\ ops'[o].peer = ops[o].peer
              /\ \/ ops'[o].state = ops[o].state
                 \/ call[d].pc = "lock" /\ ops'[o].state \notin {"none", "pending"}
                 \/ ops[o].state = "pending" /\ ops'[o].state = "expired"
  PROVE  CallOK(d)'
<1>1. CASE call[d].pc \in {"idle", "plan"}
  BY <1>1 DEF CallOK, Looked, AtHost, Undoing
<1>2. CASE call[d].pc \notin {"idle", "plan"}
  <2>. DEFINE o == call[d].op
  <2>1. ops'[o].type = ops[o].type /\ ops'[o].peer = ops[o].peer /\ Op(d) = ops[o] /\ Op(d)' = ops'[o]
    BY <1>2 DEF Op
  <2>2. CASE ops'[o].state = ops[o].state
    BY <1>2, <2>1, <2>2 DEF CallOK, Looked
  <2>3. CASE call[d].pc = "lock" /\ ops'[o].state \notin {"none", "pending"}
    BY <2>1, <2>3 DEF CallOK, Looked, AtHost, Undoing
  <2>4. CASE ops[o].state = "pending" /\ ops'[o].state = "expired"
    BY <1>2, <2>1, <2>4 DEF CallOK, Looked, AtHost, Undoing
  <2>. QED  BY <1>2, <2>2, <2>3, <2>4
<1>. QED  BY <1>1, <1>2

\* A step at work leaves the others, who do not hold the interface, as they were.
LEMMA OthersOK ==
  ASSUME IInv, MutexInv, CallsInv, NEW c \in Procs, call[c].pc \in Held, Others(c),
         applied'.file = applied.file, peer' = peer,
         LET o == call[c].op
         IN /\ \A q \in Ops \ {o} : ops'[q] = ops[q]
            /\ ops'[o].type = ops[o].type /\ ops'[o].peer = ops[o].peer
            /\ ops'[o].state = ops[o].state \/ ops'[o].state \notin {"none", "pending"}
  PROVE  \A d \in Procs \ {c} : CallOK(d)'
<1>. SUFFICES ASSUME NEW d \in Procs \ {c} PROVE CallOK(d)'  OBVIOUS
<1>1. call'[d] = call[d] /\ CallOK(d)  BY DEF Others, CallsInv
<1>2. call[d].pc \in {"idle", "plan", "lock"}
  <2>1. call[d].pc \in PCs  BY DEF IInv, TypeOK, CallRecords
  <2>2. call[d].pc = "idle" \/ call[d].pc \notin Held  BY OneAtWork
  <2>. QED  BY <2>1, <2>2 DEF PCs, Held
<1>3. CASE call[d].pc \in {"idle", "plan"}
  BY <1>1, <1>3, SameCall
<1>4. CASE call[d].pc = "lock"
  <2>1. call[d].op \in Ops  BY <1>4 DEF IInv, CallInv
  <2>. QED  BY <1>1, <1>4, <2>1, SameCall
<1>. QED  BY <1>2, <1>3, <1>4

LEMMA LeftOK ==
  ASSUME NEW c, call'[c].pc = "idle"
  PROVE  CallOK(c)'
BY DEF CallOK, Looked, AtHost, Undoing

\* Steps of the journal that neither snapshot nor complete an operation
LEMMA RowsFrame ==
  ASSUME IInv, RowsInv, applied'.file = applied.file, peer' = peer,
         ~dbi'.drift => dbi'.file = applied.file,
         \A o \in Ops :
           /\ SameRow(o)
           /\ ops'[o].state \in Begun /\ ops[o].revs = 0 => ops[o].state \in Begun
           /\ ops'[o].state # "none" => ops[o].state # "none"
  PROVE  RowsInv'
<1>1. ASSUME NEW p \in Peers PROVE PeerOK(p)'  BY DEF RowsInv, PeerOK
<1>2. ASSUME NEW o \in Ops PROVE OpOK(o)'
  <2>1. OpOK(o) /\ SameRow(o)  BY DEF RowsInv
  <2>2. SnapOK(o) => SnapOK(o)'
    BY <2>1 DEF SnapOK, SameRow, Patchable, Patched
  <2>. QED  BY <2>1, <2>2 DEF OpOK, SameRow
<1>. QED  BY <1>1, <1>2 DEF RowsInv

LEMMA SameRows ==
  ASSUME ops' = ops
  PROVE  \A o \in Ops : SameRow(o)
BY DEF SameRow

\* The same for one row's step
LEMMA StepRows ==
  ASSUME IInv, RowsInv, applied'.file = applied.file, peer' = peer, dbi' = dbi,
         NEW o \in Ops, NEW from, NEW to, Steps(o, from, to),
         to \in Begun => from \in Begun, to # "none" /\ from # "none"
  PROVE  RowsInv'
<1>1. CASE ops' = ops
  BY <1>1, SameRows, RowsFrame DEF RowsInv
<1>2. CASE ops[o].state = from /\ Relabels(o, to)
  <2>1. ASSUME NEW q \in Ops
        PROVE  /\ SameRow(q)
               /\ ops'[q].state \in Begun => ops[q].state \in Begun
               /\ ops'[q].state # "none" => ops[q].state # "none"
    BY <1>2 DEF Relabels, SameRow
  <2>. QED  BY <2>1, RowsFrame DEF RowsInv
<1>. QED  BY <1>1, <1>2 DEF Steps

Base == IInv /\ MutexInv /\ RowsInv /\ CallsInv

LEMMA AllOK ==
  ASSUME NEW c \in Procs, CallOK(c)', \A d \in Procs \ {c} : CallOK(d)'
  PROVE  CallsInv'
BY DEF CallsInv

\* A step at work that moves one row, if any, and changes no other table
LEMMA HeldStep ==
  ASSUME Base, NEW c \in Procs, call[c].pc \in Held, Others(c), CallOK(c)',
         UNCHANGED <<dbi, applied, peer>>,
         NEW from, NEW to, Steps(call[c].op, from, to),
         to \in Begun => from \in Begun, to \notin {"none", "pending"}, from # "none"
  PROVE  RowsInv' /\ CallsInv'
<1>. USE DEF Base
<1>. DEFINE o == call[c].op
<1>1. o \in Ops  BY DEF IInv, CallInv, Held
<1>2. RowsInv'  BY <1>1, StepRows
<1>3. /\ \A q \in Ops \ {o} : ops'[q] = ops[q]
      /\ ops'[o].type = ops[o].type /\ ops'[o].peer = ops[o].peer
      /\ ops'[o].state = ops[o].state \/ ops'[o].state \notin {"none", "pending"}
  BY <1>1 DEF Steps, Relabels, SameRow
<1>4. \A d \in Procs \ {c} : CallOK(d)'  BY <1>3, OthersOK
<1>. QED  BY <1>2, <1>4, AllOK

LEMMA HeldStill ==
  ASSUME Base, NEW c \in Procs, call[c].pc \in Held, Others(c), CallOK(c)',
         UNCHANGED database
  PROVE  RowsInv' /\ CallsInv'
BY HeldStep DEF Steps, database, Begun

LEMMA CreateOperationOK ==
  ASSUME Base, NEW c \in Procs, CreateOperation(c)
  PROVE  RowsInv' /\ CallsInv'
<1>. USE DEF Base
<1>1. /\ Others(c) /\ call'[c].pc = "idle" /\ call[c].pc = "plan"
      /\ \A o \in Ops :
              \/ ops'[o] = ops[o]
              \/ ops[o].state = "none" /\ ops'[o] = call[c].plan
              \/ ops[o].state = "pending" /\ ops'[o].state = "expired" /\ SameRow(o)
      /\ UNCHANGED <<host, dbi, applied, peer>>
  BY CreateOperationDoes DEF Releases, Left, CreateOperation
<1>2. call[c].plan.type \in Types /\ call[c].plan.state = "pending"
  BY <1>1 DEF IInv, CallInv, CallsInv, CallOK
<1>3. ASSUME NEW o \in Ops PROVE OpOK(o)'
  <2>1. CASE ops'[o] = ops[o]
    BY <1>1, <2>1 DEF RowsInv, OpOK, SnapOK, Patchable, Patched
  <2>2. CASE ops'[o] = call[c].plan
    BY <1>2, <2>2 DEF OpOK, Begun
  <2>3. CASE ops[o].state = "pending" /\ ops'[o].state = "expired" /\ SameRow(o)
    BY <2>3 DEF RowsInv, OpOK, Begun, SameRow
  <2>. QED  BY <1>1, <2>1, <2>2, <2>3
<1>4. RowsInv'
  <2>1. \A p \in Peers : PeerOK(p)'  BY <1>1 DEF RowsInv, PeerOK
  <2>. QED  BY <1>1, <1>3, <2>1 DEF RowsInv, host
<1>5. ASSUME NEW d \in Procs \ {c} PROVE CallOK(d)'
  <2>1. call'[d] = call[d] /\ CallOK(d)  BY <1>1 DEF Others, CallsInv
  <2>2. CASE call[d].pc \in {"idle", "plan"}  BY <1>1, <2>1, <2>2, SameCall
  <2>3. CASE call[d].pc \notin {"idle", "plan"}
    <3>. DEFINE o == call[d].op
    <3>1. o \in Ops /\ ops[o].state # "none"
      BY <2>1, <2>3 DEF IInv, CallInv, CallOK, Op
    <3>2. /\ ops'[o].type = ops[o].type /\ ops'[o].peer = ops[o].peer
          /\ ops'[o].state = ops[o].state \/ (ops[o].state = "pending" /\ ops'[o].state = "expired")
      BY <1>1, <3>1 DEF SameRow
    <3>. QED  BY <1>1, <2>1, <2>3, <3>2, SameCall
  <2>. QED  BY <2>2, <2>3
<1>. QED  BY <1>1, <1>4, <1>5, LeftOK, AllOK

LEMMA CommitPreflightOK ==
  ASSUME Base, NEW c \in Procs, CommitPreflight(c)
  PROVE  RowsInv' /\ CallsInv'
<1>. USE DEF Base
<1>1. /\ call[c].pc = "preflight" /\ UNCHANGED <<host, database>> /\ Others(c)
      /\ call'[c].pc = "idle"
         \/ (/\ call'[c].pc = "validate" /\ call'[c].op = call[c].op /\ call'[c].conf = applied.file
             /\ call'[c].old = peer[Op(c).peer].spec)
  BY CommitPreflightDoes DEF CommitPreflight, RowsInv, Releases, Left
<1>2. CallOK(c)'
  <2>1. CASE call'[c].pc = "idle"  BY <2>1, LeftOK
  <2>2. CASE call'[c].pc # "idle"
    BY <1>1, <2>2 DEF CallsInv, CallOK, Looked, Op, AtHost, Undoing, database
  <2>. QED  BY <2>1, <2>2
<1>. QED  BY <1>1, <1>2, HeldStill DEF Held, RowsInv, host

LEMMA ValidateOK ==
  ASSUME Base, NEW c \in Procs, Validate(c)
  PROVE  RowsInv' /\ CallsInv'
<1>. USE DEF Base
<1>. DEFINE o == call[c].op
<1>1. /\ call[c].pc = "validate" /\ UNCHANGED <<host, dbi, applied, peer>> /\ Others(c)
      /\ Steps(o, "pending", "validated")
      /\ \/ call'[c].pc = "idle"
         \/ To(c, "prepare") /\ ops[o].state = "pending" /\ Relabels(o, "validated")
  BY ValidateDoes DEF Validate, Releases, Left, Stays, To, Op
<1>2. CallOK(c)'
  <2>1. CASE call'[c].pc = "idle"  BY <2>1, LeftOK
  <2>2. CASE call'[c].pc # "idle"
    <3>1. Looked(c) /\ CallOK(c)  BY <1>1, <2>2 DEF CallsInv, Looked, Op
    <3>. QED  BY <1>1, <2>2, <3>1 DEF CallOK, Looked, Op, AtHost, Undoing, To, Relabels, SameRow
  <2>. QED  BY <2>1, <2>2
<1>. QED  BY <1>1, <1>2, HeldStep DEF Held, RowsInv, host, Begun

LEMMA PrepareOK ==
  ASSUME Base, NEW c \in Procs, Prepare(c)
  PROVE  RowsInv' /\ CallsInv'
<1>. USE DEF Base
<1>0. PICK o : o = call[c].op  OBVIOUS
<1>1. o \in Ops /\ call[c].pc = "prepare" /\ UNCHANGED <<host, dbi, applied, peer>>
  BY <1>0 DEF IInv, CallInv, Prepare
<1>2. CASE Releases(c) /\ Steps(o, "validated", "rejected")
  <2>1. Others(c) /\ CallOK(c)'  BY <1>2, LeftOK DEF Releases, Left
  <2>2. call[c].pc \in Held  BY <1>1 DEF Held
  <2>3. PICK from, to : from = "validated" /\ to = "rejected"  OBVIOUS
  <2>4. (to \in Begun => from \in Begun) /\ to \notin {"none", "pending"} /\ from # "none"
    BY <2>3 DEF Begun
  <2>5. UNCHANGED <<dbi, applied, peer>> /\ Steps(call[c].op, from, to)
    BY <1>0, <1>1, <1>2, <2>3
  <2>. HIDE DEF Base
  <2>. QED  BY <2>1, <2>2, <2>4, <2>5, HeldStep
<1>3. CASE ~(Releases(c) /\ Steps(o, "validated", "rejected"))
  <2>1. /\ To(c, "execute") /\ \A q \in Ops \ {o} : ops'[q] = ops[q]
        /\ ops[o].state = "validated" /\ ops'[o].state = "snapshotted"
        /\ ops'[o].type = ops[o].type /\ ops'[o].peer = ops[o].peer
        /\ ops'[o].spec = ops[o].spec /\ ops'[o].revs = ops[o].revs
        /\ ops'[o].snapO = call[c].conf
        /\ ops'[o].snapP = Patched(ops[o], call[c].conf)
        /\ Patchable(ops[o], call[c].conf)
    BY <1>0, <1>3, PrepareDoes DEF Stays
  <2>2. /\ CallOK(c) /\ Looked(c) /\ call[c].conf = applied.file
        /\ call[c].old = peer[ops[o].peer].spec /\ ops[o].type \in Types
    BY <1>0, <1>1, <2>1 DEF CallsInv, CallOK, Looked, Op, RowsInv, OpOK
  <2>3. SnapOK(o)'
    <3>1. Patchable(ops[o], applied.file)'
      BY <1>1, <2>1, <2>2 DEF Patchable
    <3>2. Patched(ops[o], applied.file)' = Patched(ops[o], applied.file)
      BY <1>1, <2>1 DEF Patched
    <3>. QED  BY <1>1, <2>1, <2>2, <3>1, <3>2 DEF SnapOK
  <2>4. ASSUME NEW q \in Ops PROVE OpOK(q)'
    <3>1. CASE q = o  BY <2>1, <2>2, <2>3, <3>1 DEF OpOK
    <3>2. CASE q # o
      BY <1>1, <2>1, <3>2 DEF RowsInv, OpOK, SnapOK, Patchable, Patched
    <3>. QED  BY <3>1, <3>2
  <2>5. RowsInv'
    <3>1. \A p \in Peers : PeerOK(p)'  BY <1>1 DEF RowsInv, PeerOK
    <3>. QED  BY <1>1, <2>4, <3>1 DEF RowsInv, host
  <2>6. CallOK(c)'
    BY <1>0, <1>1, <2>1, <2>2 DEF CallOK, Looked, Op, AtHost, Undoing, To
  <2>7. \A d \in Procs \ {c} : CallOK(d)'
    BY <1>0, <1>1, <2>1, OthersOK DEF To, Held
  <2>. QED  BY <2>5, <2>6, <2>7, AllOK
<1>. QED  BY <1>2, <1>3

LEMMA BeginOK ==
  ASSUME Base, NEW c \in Procs, Begin(c)
  PROVE  RowsInv' /\ CallsInv'
<1>. USE DEF Base
<1>. DEFINE o == call[c].op
<1>1. /\ call[c].pc = "execute" /\ UNCHANGED <<host, dbi, applied, peer>> /\ Others(c)
      /\ Steps(o, "snapshotted", "executing")
      /\ \/ call'[c].pc = "idle"
         \/ To(c, "runtime") /\ ops[o].state = "snapshotted" /\ Relabels(o, "executing")
  BY BeginDoes DEF Begin, Releases, Left, Stays, To, Op
<1>2. CallOK(c)'
  <2>1. CASE call'[c].pc = "idle"  BY <2>1, LeftOK
  <2>2. CASE call'[c].pc # "idle"
    <3>1. Looked(c) /\ CallOK(c)  BY <1>1, <2>2 DEF CallsInv, Looked, Op
    <3>. QED  BY <1>1, <2>2, <3>1 DEF CallOK, Looked, Op, AtHost, Undoing, To, Relabels, SameRow
  <2>. QED  BY <2>1, <2>2
<1>3. call[c].pc \in Held  BY <1>1 DEF Held
<1>4. PICK from, to : from = "snapshotted" /\ to = "executing"  OBVIOUS
<1>5. (to \in Begun => from \in Begun) /\ to \notin {"none", "pending"} /\ from # "none"
  BY <1>4 DEF Begun
<1>6. UNCHANGED <<dbi, applied, peer>> /\ Others(c) /\ Steps(call[c].op, from, to)
  BY <1>1, <1>4
<1>. HIDE DEF Base
<1>. QED  BY <1>2, <1>3, <1>5, <1>6, HeldStep

\* From one place at work to another, with the same rows
LEMMA PlaceOK ==
  ASSUME Base, NEW c \in Procs, NEW l, To(c, l), UNCHANGED database,
         \/ call[c].pc \in AtHost /\ l \in AtHost \cup {"rb_begin"}
         \/ call[c].pc \in Undoing /\ l \in Undoing
  PROVE  CallOK(c)'
<1>1. CallOK(c) /\ Op(c)' = Op(c)  BY DEF Base, CallsInv, database, Op, To
<1>2. CASE call[c].pc \in AtHost /\ l \in AtHost \cup {"rb_begin"}
  BY <1>1, <1>2 DEF CallOK, Looked, AtHost, Undoing, To, database
<1>3. CASE call[c].pc \in Undoing /\ l \in Undoing
  BY <1>1, <1>3 DEF CallOK, Looked, AtHost, Undoing, To, database
<1>. QED  BY <1>2, <1>3

LEMMA HostStepOK ==
  ASSUME Base, NEW c \in Procs,
         \/ ApplyRuntime(c) \/ Exchange(c) \/ VerifyRuntime(c)
         \/ RollbackRuntime(c) \/ RollbackFile(c)
  PROVE  RowsInv' /\ CallsInv'
<1>1. IInv  BY DEF Base
<1>2. PICK l : /\ To(c, l) /\ UNCHANGED database
               /\ \/ call[c].pc \in AtHost /\ l \in AtHost \cup {"rb_begin"}
                  \/ call[c].pc \in Undoing /\ l \in Undoing
  <2>. USE DEF Stays, AtHost, Undoing
  <2>1. CASE ApplyRuntime(c)  BY <1>1, <2>1, ApplyRuntimeDoes DEF ApplyRuntime
  <2>2. CASE Exchange(c)  BY <1>1, <2>2, ExchangeDoes DEF Exchange
  <2>3. CASE VerifyRuntime(c)  BY <1>1, <2>3, VerifyRuntimeDoes DEF VerifyRuntime
  <2>4. CASE RollbackRuntime(c)  BY <1>1, <2>4, RollbackRuntimeDoes DEF RollbackRuntime
  <2>5. CASE RollbackFile(c)  BY <1>1, <2>5, RollbackFileDoes DEF RollbackFile
  <2>. QED  BY <2>1, <2>2, <2>3, <2>4, <2>5
<1>3. CallOK(c)'  BY <1>2, PlaceOK
<1>4. call[c].pc \in Held /\ Others(c)  BY <1>2 DEF Held, AtHost, Undoing, To
<1>. QED  BY <1>2, <1>3, <1>4, HeldStill

\* What an edit makes of the peers in a file
NewSpec(r) ==
  CASE r.type \in {"create", "update"} -> r.spec
    [] r.type = "enable" -> peer[r.peer].archive
    [] OTHER -> 0

LEMMA PatchedPeers ==
  ASSUME TypeOK, NEW o \in Ops, NEW conf \in Hashes
  PROVE  \A p \in Peers : Patched(ops[o], conf).peers[p] =
           IF p = ops[o].peer THEN NewSpec(ops[o]) ELSE conf.peers[p]
<1>. DEFINE n == NewSpec(ops[o])
<1>1. Patched(ops[o], conf) = [conf EXCEPT !.peers[ops[o].peer] = n]
  BY DEF Patched, NewSpec
<1>2. ops[o].peer \in Peers /\ conf.peers \in PeerMap  BY DEF TypeOK, OpRecords, Hashes
<1>. HIDE DEF n
<1>3. Patched(ops[o], conf).peers = [conf.peers EXCEPT ![ops[o].peer] = n]
  BY <1>1 DEF Hashes
<1>. QED  BY <1>2, <1>3 DEF PeerMap, n

LEMMA CompletedPeerOK ==
  ASSUME Base, NEW c \in Procs, call[c].op \in Ops, Completable(c), SnapOK(call[c].op),
         peer' = [peer EXCEPT ![Op(c).peer] = CompletedPeer(@, Op(c))],
         applied'.file = Op(c).snapP
  PROVE  \A p \in Peers : PeerOK(p)'
<1>. DEFINE r == Op(c)
<1>1. r \in OpRecords /\ r = ops[call[c].op] /\ TypeOK  BY DEF Base, IInv, TypeOK, Op
<1>2. r.peer \in Peers /\ r.snapO = applied.file /\ applied.file \in Hashes
  BY <1>1 DEF OpRecords, TypeOK, SnapOK
<1>3. \A p \in Peers : applied'.file.peers[p] =
        IF p = r.peer THEN NewSpec(r) ELSE applied.file.peers[p]
  BY <1>1, <1>2, PatchedPeers DEF SnapOK
<1>4. \A p \in Peers \ {r.peer} : peer'[p] = peer[p]  BY <1>1 DEF TypeOK
<1>5. peer'[r.peer] = CompletedPeer(peer[r.peer], r)  BY <1>1, <1>2 DEF TypeOK
<1>6. PeerOK(r.peer) /\ peer[r.peer] \in PeerRows  BY <1>1, <1>2 DEF Base, RowsInv, TypeOK
<1>7. Patchable(r, applied.file)  BY <1>1, <1>2 DEF SnapOK
<1>8. /\ applied'.file.peers[r.peer] =
           IF peer'[r.peer].life = "active" THEN peer'[r.peer].spec ELSE 0
      /\ peer'[r.peer].archive # 0 =>
           peer'[r.peer].life # "active" /\ peer'[r.peer].archive = peer'[r.peer].spec
  <2>1. applied'.file.peers[r.peer] = NewSpec(r)  BY <1>2, <1>3
  <2>2. CASE r.type = "create"
    <3>1. peer'[r.peer] = [life |-> "active", spec |-> r.spec, archive |-> 0]
      BY <1>5, <2>2 DEF CompletedPeer, PeerCreated
    <3>. QED  BY <2>1, <2>2, <3>1 DEF NewSpec
  <2>3. CASE r.type = "update"
    <3>1. peer[r.peer].life = "active"  BY <2>3 DEF Completable
    <3>2. peer'[r.peer] = [peer[r.peer] EXCEPT !.spec = r.spec]
      BY <1>5, <2>3 DEF CompletedPeer, PeerUpdated
    <3>3. /\ peer'[r.peer].life = "active" /\ peer'[r.peer].spec = r.spec
          /\ peer'[r.peer].archive = peer[r.peer].archive
      BY <1>6, <3>1, <3>2 DEF PeerRows
    <3>. QED  BY <1>6, <2>1, <2>3, <3>1, <3>3 DEF NewSpec, PeerOK
  <2>4. CASE r.type = "enable"
    <3>1. peer[r.peer].archive # 0  BY <1>7, <2>4 DEF Patchable
    <3>2. PICK l, a : /\ l = "active" /\ a = 0
                      /\ peer'[r.peer] = [peer[r.peer] EXCEPT !.life = l, !.archive = a]
      BY <1>5, <2>4 DEF CompletedPeer, PeerMoved, LifecycleTarget
    <3>3. /\ peer'[r.peer].life = "active" /\ peer'[r.peer].archive = 0
          /\ peer'[r.peer].spec = peer[r.peer].spec
      <4>1. PICK q, m : q = peer[r.peer] /\ m = peer'[r.peer]  OBVIOUS
      <4>2. q \in PeerRows /\ m = [q EXCEPT !.life = l, !.archive = a]
        BY <1>6, <3>2, <4>1
      <4>3. m.life = l /\ m.archive = a /\ m.spec = q.spec  BY <4>2 DEF PeerRows
      <4>. QED  BY <3>2, <4>1, <4>3
    <3>. QED  BY <1>6, <2>1, <2>4, <3>1, <3>3 DEF NewSpec, PeerOK
  <2>5. CASE r.type \in {"disable", "revoke"}
    <3>1. applied.file.peers[r.peer] # 0  BY <1>7, <2>5 DEF Patchable
    <3>2. PICK l, a : /\ l \in {"disabled", "revoked"} /\ a = applied.file.peers[r.peer]
                      /\ peer'[r.peer] = [peer[r.peer] EXCEPT !.life = l, !.archive = a]
      BY <1>2, <1>5, <2>5 DEF CompletedPeer, PeerMoved, LifecycleTarget
    <3>3. /\ peer'[r.peer].life = l /\ peer'[r.peer].archive = a
          /\ peer'[r.peer].spec = peer[r.peer].spec
      <4>1. PICK q, m : q = peer[r.peer] /\ m = peer'[r.peer]  OBVIOUS
      <4>2. q \in PeerRows /\ m = [q EXCEPT !.life = l, !.archive = a]
        BY <1>6, <3>2, <4>1
      <4>3. m.life = l /\ m.archive = a /\ m.spec = q.spec  BY <4>2 DEF PeerRows
      <4>. QED  BY <3>2, <4>1, <4>3
    <3>4. NewSpec(r) = 0  BY <2>5 DEF NewSpec
    <3>. QED  BY <1>6, <2>1, <3>1, <3>2, <3>3, <3>4 DEF PeerOK
  <2>. QED  BY <1>1, <2>2, <2>3, <2>4, <2>5 DEF OpRecords, AllTypes
<1>9. ASSUME NEW p \in Peers PROVE PeerOK(p)'
  <2>1. CASE p = r.peer
    <3>1. PICK q : q = r.peer  OBVIOUS
    <3>. QED  BY <1>8, <2>1 DEF PeerOK
  <2>2. CASE p # r.peer  BY <1>3, <1>4, <2>2 DEF PeerOK, Base, RowsInv
  <2>. QED  BY <2>1, <2>2
<1>. QED  BY <1>3, <1>9

LEMMA CompleteOK ==
  ASSUME Base, NEW c \in Procs, Complete(c)
  PROVE  RowsInv' /\ CallsInv'
<1>0. PICK o : o = call[c].op  OBVIOUS
<1>1. IInv /\ o \in Ops /\ call[c].pc = "complete" /\ UNCHANGED host
  BY <1>0 DEF Base, IInv, CallInv, Complete, RowsInv, host
<1>2. CASE Stays(c, "rb_begin") /\ UNCHANGED database
  <2>1. CallOK(c)'  BY <1>1, <1>2, PlaceOK DEF Stays, AtHost
  <2>. QED  BY <1>1, <1>2, <2>1, HeldStill DEF Stays, To, Held
<1>3. CASE ~(Stays(c, "rb_begin") /\ UNCHANGED database)
  <2>1. /\ To(c, "finalize") /\ Completable(c)
        /\ peer' = [peer EXCEPT ![ops[o].peer] = CompletedPeer(@, ops[o])]
        /\ dbi'.file = ops[o].snapP /\ applied'.file = ops[o].snapP
        /\ \A q \in Ops \ {o} : ops'[q] = ops[q]
        /\ ops[o].state = "executing" /\ ops'[o].state = "verifying"
        /\ ops'[o].type = ops[o].type
    BY <1>0, <1>1, <1>3, CompleteDoes DEF Stays
  <2>2. /\ ops[o].revs = 0 /\ SnapOK(o) /\ ops[o].type \in Types
        /\ \A q \in Ops \ {o} : OpOK(q) /\ ops[q].state \notin Active
    BY <1>1, <2>1 DEF Base, IInv, JournalInv, Ledger, OneInProgress, RowsInv, OpOK, Begun, Active
  <2>3. \A p \in Peers : PeerOK(p)'
    BY <1>0, <1>1, <2>1, <2>2, CompletedPeerOK DEF Op
  <2>4. ASSUME NEW q \in Ops PROVE OpOK(q)'
    <3>1. CASE q = o  BY <2>1, <2>2, <3>1 DEF OpOK, Begun
    <3>2. CASE q # o  BY <2>1, <2>2, <3>2 DEF OpOK, Begun, Active
    <3>. QED  BY <3>1, <3>2
  <2>5. RowsInv'  BY <1>1, <2>1, <2>3, <2>4 DEF Base, RowsInv
  <2>6. CallOK(c)'
    BY <1>0, <2>1 DEF CallOK, Looked, Op, To, AtHost, Undoing
  <2>7. ASSUME NEW d \in Procs \ {c} PROVE CallOK(d)'
    <3>1. call'[d] = call[d] /\ CallOK(d)  BY <2>1 DEF To, Others, Base, CallsInv
    <3>2. call[d].pc \in {"idle", "plan", "lock"}
      <4>1. call[d].pc \in PCs  BY <1>1 DEF IInv, TypeOK, CallRecords
      <4>2. call[d].pc = "idle" \/ call[d].pc \notin Held
        BY <1>1, OneAtWork DEF Base, Held
      <4>. QED  BY <4>1, <4>2 DEF PCs, Held
    <3>3. CASE call[d].pc \in {"idle", "plan"}
      BY <3>1, <3>3 DEF CallOK, Looked, AtHost, Undoing
    <3>4. CASE call[d].pc = "lock"
      <4>1. call[d].op \in Ops /\ ops[call[d].op].state # "none"
        BY <1>1, <3>1, <3>4 DEF IInv, CallInv, CallOK, Op
      <4>2. ops'[call[d].op].state \notin {"none", "pending"}
        BY <2>1, <2>2, <4>1 DEF Active
      <4>. QED  BY <3>1, <3>4, <4>2 DEF CallOK, Looked, Op, AtHost, Undoing
    <3>. QED  BY <3>2, <3>3, <3>4
  <2>. QED  BY <2>5, <2>6, <2>7, AllOK
<1>. QED  BY <1>2, <1>3

LEMMA FinalizeOK ==
  ASSUME Base, NEW c \in Procs, Finalize(c)
  PROVE  RowsInv' /\ CallsInv'
<1>0. IInv  BY DEF Base
<1>1. PICK from, to : from = "verifying" /\ to = "committed"  OBVIOUS
<1>2. (to \in Begun => from \in Begun) /\ to \notin {"none", "pending"} /\ from # "none"
  BY <1>1 DEF Begun
<1>3. /\ UNCHANGED <<dbi, applied, peer>> /\ Others(c) /\ CallOK(c)'
      /\ Steps(call[c].op, from, to) /\ call[c].pc \in Held
  BY <1>0, <1>1, FinalizeDoes, LeftOK DEF Finalize, Releases, Left, Held, host, Base, RowsInv
<1>. QED  BY <1>2, <1>3, HeldStep

LEMMA RollbackBeginOK ==
  ASSUME Base, NEW c \in Procs, RollbackBegin(c)
  PROVE  RowsInv' /\ CallsInv'
<1>0. IInv /\ call[c].pc = "rb_begin" /\ call[c].op \in Ops /\ CallOK(c)
  BY DEF Base, RollbackBegin, IInv, CallInv, CallsInv
<1>1. /\ UNCHANGED <<file, dbi, applied, peer>> /\ Others(c)
      /\ ops' = ops \/ (/\ ops[call[c].op].state \in {"executing", "snapshotted"}
                        /\ Relabels(call[c].op, "rolling_back"))
      /\ call'[c].pc = "idle" \/ \E l \in Undoing : To(c, l)
  BY <1>0, RollbackBeginDoes DEF RollbackBegin, Releases, Left, Stays, To, Undoing, host
<1>2. PICK from, to : /\ from \in {"executing", "snapshotted"} /\ to = "rolling_back"
                      /\ Steps(call[c].op, from, to)
  BY <1>1 DEF Steps
<1>3. (to \in Begun => from \in Begun) /\ to \notin {"none", "pending"} /\ from # "none"
  BY <1>2 DEF Begun
<1>4. CallOK(c)'
  <2>1. CASE call'[c].pc = "idle"  BY <2>1, LeftOK
  <2>2. CASE call'[c].pc # "idle"
    <3>1. PICK l \in Undoing : To(c, l)  BY <1>1, <2>2
    <3>2. Op(c)'.state \in {"snapshotted", "executing", "rolling_back"} /\ Op(c)'.peer = Op(c).peer
      BY <1>0, <1>2, <3>1 DEF CallOK, Op, To, Steps, Relabels, SameRow, Undoing
    <3>. QED  BY <1>0, <1>1, <3>1, <3>2 DEF CallOK, Looked, To, AtHost, Undoing
  <2>. QED  BY <2>1, <2>2
<1>5. call[c].pc \in Held  BY <1>0, <1>1 DEF Held
<1>. QED  BY <1>1, <1>2, <1>3, <1>4, <1>5, HeldStep

LEMMA RollbackEndOK ==
  ASSUME Base, NEW c \in Procs, RollbackEnd(c)
  PROVE  RowsInv' /\ CallsInv'
<1>0. IInv  BY DEF Base
<1>1. PICK from, to : from = "rolling_back" /\ to = RollbackOutcome(c)  OBVIOUS
<1>2. (to \in Begun => from \in Begun) /\ to \notin {"none", "pending"} /\ from # "none"
  BY <1>1 DEF Begun, RollbackOutcome
<1>3. /\ UNCHANGED <<dbi, applied, peer>> /\ Others(c) /\ CallOK(c)'
      /\ Steps(call[c].op, from, to) /\ call[c].pc \in Held
  BY <1>0, <1>1, RollbackEndDoes, LeftOK
     DEF RollbackEnd, Releases, Left, Held, host, Base, RowsInv
<1>. QED  BY <1>2, <1>3, HeldStep

LEMMA RecoverManualOK ==
  ASSUME Base, RecoverManual
  PROVE  RowsInv' /\ CallsInv'
<1>0. IInv /\ Boot \in Procs  BY DEF Base, Procs
<1>1. PICK from, to : from = "rolling_back" /\ to = "rollback_failed"  OBVIOUS
<1>2. (to \in Begun => from \in Begun) /\ to \notin {"none", "pending"} /\ from # "none"
  BY <1>1 DEF Begun
<1>3. /\ UNCHANGED <<dbi, applied, peer>> /\ Others(Boot) /\ CallOK(Boot)'
      /\ Steps(call[Boot].op, from, to) /\ call[Boot].pc \in Held
  BY <1>0, <1>1, RecoverManualDoes, LeftOK
     DEF RecoverManual, Releases, Left, Held, host, Base, RowsInv
<1>. QED  BY <1>0, <1>2, <1>3, HeldStep

\* While the agent recovers no request is at work.
LEMMA RecoverNextOK ==
  ASSUME Base, RecoverNext
  PROVE  RowsInv' /\ CallsInv'
<1>0. /\ IInv /\ Boot \in Procs /\ mode = "recovering"
      /\ UNCHANGED <<host, dbi, applied, peer>>
  BY DEF Base, Procs, RecoverNext, host, RowsInv
<1>1. CASE ops' = ops /\ call' = call
  <2>1. RowsInv'
    BY <1>0, <1>1, SameRows, RowsFrame DEF Base, RowsInv
  <2>2. CallsInv'
    BY <1>0, <1>1 DEF Base, CallsInv, CallOK, Looked, Op
  <2>. QED  BY <2>1, <2>2
<1>2. CASE ~(ops' = ops /\ call' = call)
  <2>1. PICK o \in Ops :
          /\ Others(Boot)
          /\ Relabels(o, RecoveredState(o))
          /\ \/ call'[Boot].pc = "idle"
             \/ /\ call'[Boot].pc = "manual" /\ call'[Boot].op = o
                /\ ops[o].state = "verifying" /\ ~Agrees(o)
             \/ /\ call'[Boot].pc = "rb_begin" /\ call'[Boot].op = o
                /\ ops[o].state \in {"snapshotted", "executing", "rolling_back"}
                /\ call'[Boot].old = peer[ops[o].peer].spec
    BY <1>0, <1>2, RecoverNextDoes
  <2>2. ASSUME NEW q \in Ops
        PROVE  /\ SameRow(q)
               /\ ops'[q].state \in Begun /\ ops[q].revs = 0 => ops[q].state \in Begun
               /\ ops'[q].state # "none" => ops[q].state # "none"
    <3>1. CASE q # o  BY <2>1, <3>1 DEF Relabels, SameRow
    <3>2. CASE q = o
      <4>1. SameRow(o) /\ ops'[o].state = RecoveredState(o)  BY <2>1 DEF Relabels
      <4>2. ops[o].state = "verifying" => ops[o].revs = 1
        BY <1>0 DEF IInv, JournalInv, Ledger
      <4>. QED  BY <3>2, <4>1, <4>2 DEF RecoveredState, Begun
    <3>. QED  BY <3>1, <3>2
  <2>3. RowsInv'  BY <1>0, <2>2, RowsFrame DEF Base, RowsInv
  <2>4. CallOK(Boot)'
    <3>1. ops'[o].peer = ops[o].peer /\ ops'[o].state = RecoveredState(o)
      BY <2>1 DEF Relabels, SameRow
    <3>2. CASE call'[Boot].pc = "idle"  BY <3>2, LeftOK
    <3>3. CASE call'[Boot].pc = "manual" /\ call'[Boot].op = o /\ ops[o].state = "verifying"
               /\ ~Agrees(o)
      BY <3>1, <3>3 DEF RecoveredState, CallOK, Looked, Op, AtHost, Undoing
    <3>4. CASE /\ call'[Boot].pc = "rb_begin" /\ call'[Boot].op = o
               /\ ops[o].state \in {"snapshotted", "executing", "rolling_back"}
               /\ call'[Boot].old = peer[ops[o].peer].spec
      <4>1. ops'[o].state = ops[o].state  BY <3>1, <3>4 DEF RecoveredState
      <4>. QED  BY <1>0, <3>1, <3>4, <4>1 DEF CallOK, Looked, Op, AtHost, Undoing
    <3>. QED  BY <2>1, <3>2, <3>3, <3>4
  <2>5. ASSUME NEW d \in Procs \ {Boot} PROVE CallOK(d)'
    <3>1. call'[d].pc = "idle"  BY <1>0, <2>1 DEF Base, MutexInv, Procs, Others
    <3>. QED  BY <3>1, LeftOK
  <2>. QED  BY <1>0, <2>3, <2>4, <2>5, AllOK
<1>. QED  BY <1>1, <1>2

\* A caller that is not at work moves; the rows stay.
LEMMA CallerOK ==
  ASSUME Base, NEW c \in Procs, Others(c), UNCHANGED <<host, database>>, CallOK(c)'
  PROVE  RowsInv' /\ CallsInv'
<1>0. /\ IInv /\ RowsInv /\ file' = file /\ dbi' = dbi /\ applied' = applied /\ peer' = peer
      /\ ops' = ops
  BY DEF Base, host, database
<1>1. RowsInv'  BY <1>0, SameRows, RowsFrame DEF RowsInv
<1>2. ASSUME NEW d \in Procs \ {c} PROVE CallOK(d)'
  <2>1. call'[d] = call[d] /\ CallOK(d)  BY DEF Others, Base, CallsInv
  <2>. QED  BY <1>0, <2>1 DEF CallOK, Looked, Op
<1>. QED  BY <1>1, <1>2, AllOK

LEMMA RequestOK ==
  ASSUME Base, NEW c \in Callers, Preview(c) \/ Commit(c) \/ Lock(c) \/ EndContext(c)
  PROVE  RowsInv' /\ CallsInv'
<1>0. IInv /\ c \in Procs /\ CallOK(c) /\ RowsInv  BY DEF Base, Procs, CallsInv
<1>1. CASE Preview(c)
  <2>1. Others(c) /\ UNCHANGED <<host, database>>  BY <1>0, <1>1, PreviewDoes
  <2>2. CallOK(c)'
    BY <1>0, <1>1, PreviewDoes DEF CallOK, Looked, AtHost, Undoing
  <2>. QED  BY <1>0, <2>1, <2>2, CallerOK
<1>2. CASE Commit(c)
  <2>1. Others(c) /\ UNCHANGED <<host, database>>  BY <1>0, <1>2, CommitDoes
  <2>2. PICK o \in Ops :
              /\ ops[o].state = "pending" /\ call'[c].pc = "lock" /\ call'[c].op = o
              /\ \/ ops[o].type = "create"
                 \/ /\ ~dbi.drift /\ file = dbi.file /\ call'[c].conf = file
                    /\ call'[c].old = peer[ops[o].peer].spec /\ call'[c].up = dbi.up
    BY <1>0, <1>2, CommitDoes
  <2>3. ops' = ops /\ peer' = peer /\ applied' = applied  BY <2>1 DEF database
  <2>6. /\ Op(c)' = ops[o] /\ ops[o].state = "pending" /\ call'[c].pc = "lock"
    BY <2>2, <2>3 DEF Op
  <2>4. ASSUME ops[o].type = "create" PROVE CallOK(c)'
    <3>1. ~Looked(c)'  BY <2>4, <2>6 DEF Looked, AtHost
    <3>. QED  BY <2>6, <3>1 DEF CallOK, AtHost, Undoing
  <2>5. ASSUME ops[o].type # "create" PROVE CallOK(c)'
    <3>1. call'[c].conf = applied.file /\ call'[c].old = peer[ops[o].peer].spec
      BY <1>0, <2>2, <2>5 DEF RowsInv
    <3>. QED  BY <2>3, <2>6, <3>1 DEF CallOK, AtHost, Undoing
  <2>. QED  BY <1>0, <2>1, <2>4, <2>5, CallerOK
<1>3. CASE Lock(c)
  <2>1. /\ UNCHANGED <<host, database>> /\ call[c].pc = "lock"
        /\ To(c, IF Op(c).type = "create" THEN "preflight" ELSE "validate")
    BY <1>0, <1>3, LockDoes
  <2>2. ops' = ops /\ peer' = peer /\ applied' = applied  BY <2>1 DEF database
  <2>3. CallOK(c)'
    BY <1>0, <2>1, <2>2 DEF CallOK, Looked, AtHost, Undoing, Op, To
  <2>. QED  BY <1>0, <2>1, <2>3, CallerOK DEF To
<1>4. CASE EndContext(c)
  <2>1. /\ UNCHANGED <<host, database>> /\ To(c, call[c].pc) /\ call'[c].plan = call[c].plan
    BY <1>0, <1>4, EndContextDoes
  <2>2. ops' = ops /\ peer' = peer /\ applied' = applied  BY <2>1 DEF database
  <2>3. CallOK(c)'
    BY <1>0, <2>1, <2>2 DEF CallOK, Looked, AtHost, Undoing, Op, To
  <2>. QED  BY <1>0, <2>1, <2>3, CallerOK DEF To
<1>. QED  BY <1>1, <1>2, <1>3, <1>4

\* Drift is the difference between what is stored and what is recorded.
LEMMA PersistedRecorded ==
  ASSUME TypeOK, RowsInv, NEW s \in [file : Hashes, run : DeviceStates], dbi' = Persisted(s)
  PROVE  ~dbi'.drift => dbi'.file = applied.file
<1>1. CASE dbi' = dbi  BY <1>1 DEF RowsInv
<1>2. CASE dbi' # dbi
  <2>. DEFINE e == ClassifyDrift(s)
  <2>1. e = (s # applied) /\ e \in BOOLEAN  BY DEF ClassifyDrift
  <2>2. dbi' = [dbi EXCEPT !.file = s.file, !.up = s.run.up, !.drift = e]
    BY <1>2 DEF Persisted
  <2>. HIDE DEF e
  <2>3. dbi'.file = s.file /\ dbi'.drift = e  BY <2>2 DEF TypeOK
  <2>. QED  BY <2>1, <2>3
<1>. QED  BY <1>1, <1>2

LEMMA OutsideOK ==
  ASSUME Base, Scan \/ ReplaceInventory \/ Start \/ RecoverEnd \/ Crash
           \/ Edit \/ Toggle \/ UNCHANGED vars
  PROVE  RowsInv' /\ CallsInv'
<1>1. /\ IInv /\ TypeOK /\ RowsInv /\ CallsInv  BY DEF Base, IInv
<1>2. applied' = applied /\ peer' = peer /\ ops' = ops
  BY DEF Scan, ReplaceInventory, Start, RecoverEnd, Crash, Edit, Toggle, database, vars
<1>3. ~dbi'.drift => dbi'.file = applied.file
  <2>1. CASE dbi' = dbi  BY <1>1, <2>1 DEF RowsInv
  <2>2. CASE dbi' # dbi
    <3>1. ReplaceInventory \/ Start
      BY <2>2 DEF Scan, RecoverEnd, Crash, Edit, Toggle, database, vars
    <3>2. PICK s \in [file : Hashes, run : DeviceStates] : dbi' = Persisted(s)
      <4>1. CASE ReplaceInventory
        BY <1>1, <4>1 DEF ReplaceInventory, TypeOK
      <4>2. CASE Start
        BY <1>1, <2>2, <4>2, ObservedType DEF Start
      <4>. QED  BY <3>1, <4>1, <4>2
    <3>. QED  BY <1>1, <3>2, PersistedRecorded
  <2>. QED  BY <2>1, <2>2
<1>4. RowsInv'  BY <1>1, <1>2, <1>3, SameRows, RowsFrame
<1>5. CallsInv'
  <2>1. CASE Crash
    <3>1. \A d \in Procs : call'[d].pc = "idle"  BY <2>1 DEF Crash, Idle
    <3>. QED  BY <3>1, LeftOK DEF CallsInv
  <2>2. CASE ~Crash
    <3>1. call' = call
      BY <2>2 DEF Scan, ReplaceInventory, Start, RecoverEnd, Edit, Toggle, vars
    <3>. QED  BY <1>1, <1>2, <3>1 DEF CallsInv, CallOK, Looked, Op
  <2>. QED  BY <2>1, <2>2
<1>. QED  BY <1>4, <1>5

LEMMA NextRows == Base /\ TypeOK' /\ [Next]_vars => RowsInv' /\ CallsInv'
<1>. SUFFICES ASSUME Base, TypeOK', [Next]_vars PROVE RowsInv' /\ CallsInv'  OBVIOUS
<1>1. ASSUME NEW c \in Callers, Preview(c) \/ Commit(c) \/ Lock(c) \/ EndContext(c)
      PROVE  RowsInv' /\ CallsInv'
  BY <1>1, RequestOK
<1>2. ASSUME NEW c \in Procs, Work(c) PROVE RowsInv' /\ CallsInv'
  BY <1>2, CreateOperationOK, CommitPreflightOK, ValidateOK, PrepareOK, BeginOK,
     HostStepOK, CompleteOK, FinalizeOK, RollbackBeginOK, RollbackEndOK DEF Work
<1>3. CASE RecoverNext \/ RecoverManual  BY <1>3, RecoverNextOK, RecoverManualOK
<1>4. CASE Scan \/ ReplaceInventory \/ Start \/ RecoverEnd \/ Crash \/ Edit \/ Toggle
           \/ UNCHANGED vars
  BY <1>4, OutsideOK
<1>. QED  BY <1>1, <1>2, <1>3, <1>4 DEF Next

LEMMA InitRows == Init => RowsInv /\ CallsInv
<1>. SUFFICES ASSUME Init PROVE RowsInv /\ CallsInv  OBVIOUS
<1>1. PICK managed \in SUBSET Peers, s \in Specs :
        /\ file = [peers |-> [p \in Peers |-> IF p \in managed THEN s ELSE 0], edit |-> 0]
        /\ peer = [p \in Peers |-> [life |-> IF p \in managed THEN "active" ELSE "none",
                                    spec |-> file.peers[p], archive |-> 0]]
        /\ \E up : dbi = [rev |-> 0, file |-> file, up |-> up, drift |-> FALSE]
  BY DEF Init
<1>2. applied.file = file /\ ops = [o \in Ops |-> NoOp] /\ call = [c \in Procs |-> Idle]
  BY DEF Init
<1>3. ASSUME NEW p \in Peers PROVE PeerOK(p)
  BY <1>1, <1>2 DEF PeerOK
<1>4. ASSUME NEW o \in Ops PROVE OpOK(o)
  BY <1>2 DEF OpOK, NoOp, Begun
<1>5. RowsInv  BY <1>1, <1>2, <1>3, <1>4 DEF RowsInv
<1>6. CallsInv  BY <1>2 DEF CallsInv, CallOK, Looked, Idle, AtHost, Undoing
<1>. QED  BY <1>5, <1>6

LEMMA BaseInvariance == Spec => []Base
<1>1. Init => MutexInv /\ RowsInv /\ CallsInv  BY InitMutex, InitRows
<1>2. Base /\ IInv' /\ [Next]_vars => Base'
  <2>1. IInv' => TypeOK'  BY DEF IInv
  <2>. QED  BY <2>1, NextMutex, NextRows DEF Base
<1>3. Init => IInv  BY InitType, InitJournal DEF IInv
<1>4. IInv /\ [Next]_vars => IInv'  BY NextType, NextJournal DEF IInv
<1>5. Base => IInv  BY DEF Base
<1>6. Init => Base  BY <1>1, <1>3 DEF Base
<1>7. Base /\ [Next]_vars => Base'  BY <1>2, <1>4, <1>5
<1>. QED  BY <1>6, <1>7, PTL DEF Spec

-----------------------------------------------------------------------------
(* The rows' steps *)

\* What one step makes of a row
RowMove(o) ==
  \/ /\ SameRow(o)
     /\ \/ ops'[o].state = ops[o].state
        \/ <<ops[o].state, ops'[o].state>> \in Moves \cup {<<"verifying", "committed">>}
  \/ ops[o].state = "none" /\ ops'[o].state = "pending" /\ ops'[o].revs = 0
  \/ ops[o].state = "validated" /\ ops'[o].state = "snapshotted"
  \/ ops[o].state = "executing" /\ ops'[o].state = "verifying"

LEMMA StepMoves ==
  ASSUME NEW o \in Ops, NEW from, NEW to, Steps(o, from, to),
         <<from, to>> \in Moves \cup {<<"verifying", "committed">>}
  PROVE  \A q \in Ops : RowMove(q)
BY DEF Steps, Relabels, RowMove, SameRow

LEMMA RecoveredMoves ==
  ASSUME NEW o \in Ops, Relabels(o, RecoveredState(o))
  PROVE  \A q \in Ops : RowMove(q)
<1>1. \A q \in Ops \ {o} : RowMove(q)  BY DEF Relabels, RowMove, SameRow
<1>2. SameRow(o) /\ ops'[o].state = RecoveredState(o)  BY DEF Relabels
<1>3. RowMove(o)
  <2>1. PICK from, to : from = ops[o].state /\ to = RecoveredState(o)  OBVIOUS
  <2>2. from = to \/ <<from, to>> \in Moves \cup {<<"verifying", "committed">>}
    BY <2>1 DEF RecoveredState, Moves
  <2>. QED  BY <1>2, <2>1, <2>2 DEF RowMove
<1>. QED  BY <1>1, <1>3

LEMMA WorkMoves ==
  ASSUME IInv, NEW c \in Procs, Work(c)
  PROVE  \A q \in Ops : RowMove(q)
<1>0. PICK o : o = call[c].op  OBVIOUS
<1>1. call[c].pc \notin {"idle", "plan"} => o \in Ops  BY <1>0 DEF IInv, CallInv
<1>2. CASE ops' = ops  BY <1>2 DEF RowMove, SameRow
<1>3. CASE CreateOperation(c)
  <2>1. call[c].plan.state = "pending" /\ call[c].plan.revs = 0
    BY <1>3 DEF CreateOperation, IInv, CallInv
  <2>2. \A q \in Ops :
              \/ ops'[q] = ops[q]
              \/ ops[q].state = "none" /\ ops'[q] = call[c].plan
              \/ ops[q].state = "pending" /\ ops'[q].state = "expired" /\ SameRow(q)
    BY <1>3, CreateOperationDoes
  <2>. QED  BY <2>1, <2>2 DEF RowMove, SameRow, Moves
<1>4. CASE Prepare(c)
  <2>1. o \in Ops  BY <1>1, <1>4 DEF Prepare
  <2>2. \/ Steps(o, "validated", "rejected")
        \/ /\ \A q \in Ops \ {o} : ops'[q] = ops[q]
           /\ ops[o].state = "validated" /\ ops'[o].state = "snapshotted"
    BY <1>0, <1>4, PrepareDoes
  <2>3. CASE Steps(o, "validated", "rejected")
    <3>1. PICK from, to : from = "validated" /\ to = "rejected"  OBVIOUS
    <3>2. <<from, to>> \in Moves  BY <3>1 DEF Moves
    <3>. QED  BY <2>1, <2>3, <3>1, <3>2, StepMoves
  <2>4. CASE /\ \A q \in Ops \ {o} : ops'[q] = ops[q]
             /\ ops[o].state = "validated" /\ ops'[o].state = "snapshotted"
    BY <2>4 DEF RowMove, SameRow
  <2>. QED  BY <2>2, <2>3, <2>4
<1>5. CASE Complete(c) /\ ops' # ops
  <2>1. /\ \A q \in Ops \ {o} : ops'[q] = ops[q]
        /\ ops[o].state = "executing" /\ ops'[o].state = "verifying"
    BY <1>0, <1>5, CompleteDoes DEF database
  <2>. QED  BY <2>1 DEF RowMove, SameRow
<1>6. CASE Validate(c) \/ Begin(c) \/ Finalize(c) \/ RollbackBegin(c) \/ RollbackEnd(c)
  <2>1. o \in Ops
    BY <1>1, <1>6 DEF Validate, Begin, Finalize, RollbackBegin, RollbackEnd
  <2>2. PICK from, to : /\ <<from, to>> \in Moves \cup {<<"verifying", "committed">>}
                        /\ Steps(o, from, to)
    <3>1. CASE Validate(c)
      <4>1. PICK from, to : from = "pending" /\ to = "validated"  OBVIOUS
      <4>. QED  BY <1>0, <3>1, <4>1, ValidateDoes DEF Moves
    <3>2. CASE Begin(c)
      <4>1. PICK from, to : from = "snapshotted" /\ to = "executing"  OBVIOUS
      <4>. QED  BY <1>0, <3>2, <4>1, BeginDoes DEF Moves
    <3>3. CASE Finalize(c)
      <4>1. PICK from, to : from = "verifying" /\ to = "committed"  OBVIOUS
      <4>. QED  BY <1>0, <3>3, <4>1, FinalizeDoes
    <3>4. CASE RollbackBegin(c)
      <4>1. PICK from, to : /\ from = IF ops[o].state = "snapshotted" THEN "snapshotted" ELSE "executing"
                            /\ to = "rolling_back"
        OBVIOUS
      <4>2. <<from, to>> \in Moves  BY <4>1 DEF Moves
      <4>3. Steps(o, from, to)  BY <1>0, <3>4, <4>1, RollbackBeginDoes DEF Steps
      <4>. QED  BY <4>2, <4>3
    <3>5. CASE RollbackEnd(c)
      <4>1. PICK from, to : from = "rolling_back" /\ to = RollbackOutcome(c)  OBVIOUS
      <4>2. <<from, to>> \in Moves  BY <4>1 DEF Moves, RollbackOutcome
      <4>3. Steps(o, from, to)  BY <1>0, <3>5, <4>1, RollbackEndDoes
      <4>. QED  BY <4>2, <4>3
    <3>. QED  BY <1>6, <3>1, <3>2, <3>3, <3>4, <3>5
  <2>. QED  BY <2>1, <2>2, StepMoves
<1>7. CASE \/ CommitPreflight(c) \/ ApplyRuntime(c) \/ Exchange(c) \/ VerifyRuntime(c)
           \/ RollbackRuntime(c) \/ RollbackFile(c)
  <2>1. ops' = ops
    BY <1>7 DEF CommitPreflight, ApplyRuntime, Exchange, VerifyRuntime, RollbackRuntime,
         RollbackFile, database
  <2>. QED  BY <1>2, <2>1
<1>. QED  BY <1>2, <1>3, <1>4, <1>5, <1>6, <1>7 DEF Work

LEMMA NextMoves == IInv /\ [Next]_vars => \A q \in Ops : RowMove(q)
<1>. SUFFICES ASSUME IInv, [Next]_vars PROVE \A q \in Ops : RowMove(q)  OBVIOUS
<1>1. CASE ops' = ops  BY <1>1 DEF RowMove, SameRow
<1>2. ASSUME NEW c \in Procs, Work(c) PROVE \A q \in Ops : RowMove(q)
  BY <1>2, WorkMoves
<1>3. CASE RecoverNext
  <2>1. ops' = ops \/ \E o \in Ops : Relabels(o, RecoveredState(o))
    BY <1>3, RecoverNextDoes
  <2>. QED  BY <1>1, <2>1, RecoveredMoves
<1>4. CASE RecoverManual
  <2>1. call[Boot].op \in Ops  BY <1>4 DEF IInv, CallInv, RecoverManual, Procs
  <2>2. PICK from, to : from = "rolling_back" /\ to = "rollback_failed"  OBVIOUS
  <2>3. <<from, to>> \in Moves /\ Steps(call[Boot].op, from, to)
    BY <1>4, <2>2, RecoverManualDoes DEF Moves
  <2>. QED  BY <2>1, <2>3, StepMoves
<1>5. CASE ~(\E c \in Procs : Work(c)) /\ ~RecoverNext /\ ~RecoverManual
  <2>1. ASSUME NEW c \in Callers, Preview(c) \/ Commit(c) \/ Lock(c) \/ EndContext(c)
        PROVE  ops' = ops
    BY <2>1, PreviewDoes, CommitDoes, LockDoes, EndContextDoes DEF database
  <2>2. CASE Scan \/ ReplaceInventory \/ Start \/ RecoverEnd \/ Crash \/ Edit \/ Toggle
             \/ UNCHANGED vars
    <3>1. ops' = ops
      BY <2>2 DEF Scan, ReplaceInventory, Start, RecoverEnd, Crash, Edit, Toggle, database, vars
    <3>. QED  BY <1>1, <3>1
  <2>. QED  BY <1>1, <1>5, <2>1, <2>2 DEF Next
<1>. QED  BY <1>2, <1>3, <1>4, <1>5

NoUndone == \A o \in Ops : ~Undone(o)

\* What was undone stays so.
LEMMA UndoneStays ==
  ASSUME IInv, [Next]_vars, NoUndone'
  PROVE  NoUndone
<1>. SUFFICES ASSUME NEW o \in Ops, Undone(o) PROVE Undone(o)'  BY DEF NoUndone
<1>1. RowMove(o)  BY NextMoves
<1>. QED  BY <1>1 DEF Undone, RowMove, SameRow, Moves

-----------------------------------------------------------------------------
(* What an operation starts from *)

Recorded == file.peers = applied.file.peers

\* An operation that has only looked at the file: its commit has passed the preflight, or
\* its row says that nothing has been touched.
FreshOp(o) == ops[o].state \in {"validated", "snapshotted"} => Recorded
FreshCall(c) == Looked(c) /\ call[c].pc \in {"lock", "validate"} => Recorded
FreshInv == (\A o \in Ops : FreshOp(o)) /\ \A c \in Procs : FreshCall(c)

\* Of the operations in progress there is only the caller's.
LEMMA OnlyMine ==
  ASSUME IInv, NEW o \in Ops, ops[o].state \in Active, NEW q \in Ops, ops[q].state \in Active
  PROVE  q = o
BY DEF IInv, JournalInv, OneInProgress

\* Only the commit that holds the operation validates it.
LEMMA OnlyValidates ==
  ASSUME Base, FreshInv, [Next]_vars, NEW o \in Ops,
         ops[o].state = "pending", ops'[o].state = "validated"
  PROVE  Recorded
<1>0. IInv  BY DEF Base
<1>1. ASSUME NEW c \in Procs, Work(c) PROVE Recorded
  <2>0. PICK q : q = call[c].op  OBVIOUS
  <2>1. CASE Validate(c)
    <3>1. Steps(q, "pending", "validated") /\ q \in Ops /\ call[c].pc = "validate"
      BY <1>0, <2>0, <2>1, ValidateDoes DEF Validate, IInv, CallInv
    <3>2. q = o  BY <3>1 DEF Steps, Relabels
    <3>3. Looked(c)  BY <2>0, <3>1, <3>2 DEF Looked, Op
    <3>. QED  BY <3>1, <3>3 DEF FreshInv, FreshCall
  <2>2. CASE CreateOperation(c)
    <3>1. \/ ops'[o] = ops[o] \/ ops[o].state = "none" \/ ops'[o].state = "expired"
      BY <1>0, <2>2, CreateOperationDoes
    <3>. QED  BY <3>1
  <2>3. CASE Prepare(c)
    <3>1. \/ Steps(q, "validated", "rejected")
          \/ (\A d \in Ops \ {q} : ops'[d] = ops[d]) /\ ops[q].state = "validated"
      BY <1>0, <2>0, <2>3, PrepareDoes
    <3>. QED  BY <3>1 DEF Steps, Relabels
  <2>4. CASE Begin(c)
    <3>1. Steps(q, "snapshotted", "executing")  BY <1>0, <2>0, <2>4, BeginDoes
    <3>. QED  BY <3>1 DEF Steps, Relabels
  <2>5. CASE Complete(c)
    <3>1. ops' = ops \/ ((\A d \in Ops \ {q} : ops'[d] = ops[d]) /\ ops[q].state = "executing")
      BY <1>0, <2>0, <2>5, CompleteDoes DEF database
    <3>. QED  BY <3>1
  <2>6. CASE Finalize(c)
    <3>1. Steps(q, "verifying", "committed")  BY <1>0, <2>0, <2>6, FinalizeDoes
    <3>. QED  BY <3>1 DEF Steps, Relabels
  <2>7. CASE RollbackBegin(c)
    <3>1. ops' = ops \/ (ops[q].state \in {"executing", "snapshotted"} /\ Relabels(q, "rolling_back"))
      BY <1>0, <2>0, <2>7, RollbackBeginDoes
    <3>. QED  BY <3>1 DEF Relabels
  <2>8. CASE RollbackEnd(c)
    <3>1. Steps(q, "rolling_back", RollbackOutcome(c))  BY <1>0, <2>0, <2>8, RollbackEndDoes
    <3>. QED  BY <3>1 DEF Steps, Relabels
  <2>9. CASE \/ CommitPreflight(c) \/ ApplyRuntime(c) \/ Exchange(c) \/ VerifyRuntime(c)
             \/ RollbackRuntime(c) \/ RollbackFile(c)
    BY <2>9 DEF CommitPreflight, ApplyRuntime, Exchange, VerifyRuntime, RollbackRuntime,
         RollbackFile, database
  <2>. QED  BY <1>1, <2>1, <2>2, <2>3, <2>4, <2>5, <2>6, <2>7, <2>8, <2>9 DEF Work
<1>2. CASE RecoverNext
  <2>1. ops' = ops \/ \E q \in Ops : Relabels(q, RecoveredState(q))
    BY <1>0, <1>2, RecoverNextDoes
  <2>. QED  BY <2>1 DEF Relabels, RecoveredState
<1>3. CASE RecoverManual
  <2>1. Steps(call[Boot].op, "rolling_back", "rollback_failed")
    BY <1>0, <1>3, RecoverManualDoes
  <2>. QED  BY <2>1 DEF Steps, Relabels
<1>4. ASSUME NEW c \in Callers, Preview(c) \/ Commit(c) \/ Lock(c) \/ EndContext(c)
      PROVE  ops' = ops
  BY <1>0, <1>4, PreviewDoes, CommitDoes, LockDoes, EndContextDoes DEF database
<1>5. CASE Scan \/ ReplaceInventory \/ Start \/ RecoverEnd \/ Crash \/ Edit \/ Toggle
           \/ UNCHANGED vars
  BY <1>5 DEF Scan, ReplaceInventory, Start, RecoverEnd, Crash, Edit, Toggle, database, vars
<1>. QED  BY <1>1, <1>2, <1>3, <1>4, <1>5 DEF Next

\* The steps that change what the file or the record say of the peers
LEMMA PeersStay ==
  ASSUME Base, [Next]_vars,
         \A c \in Procs : ~Exchange(c) /\ ~RollbackFile(c) /\ ~Complete(c)
  PROVE  file'.peers = file.peers /\ applied' = applied
<1>1. CASE Edit  BY <1>1 DEF Edit, database, Base, IInv, TypeOK, Hashes
<1>2. CASE ~Edit
  BY <1>2 DEF vars, Next, Work, Preview, PreviewCreatePeer, PreviewUpdatePeer,
       PreviewPeerLifecycle, Plan, Commit, CommitCreatePeer, CommitUpdatePeer,
       CommitPeerLifecycle, Enter, Lock, EndContext,
       CreateOperation, CommitPreflight, Validate, Prepare, Begin, ApplyRuntime, VerifyRuntime,
       Finalize, RollbackBegin, RollbackRuntime, RollbackEnd, Scan, ReplaceInventory,
       Start, RecoverNext, RecoverManual, RecoverEnd, Crash, Toggle, host, database
<1>. QED  BY <1>1, <1>2

\* As long as an operation that has touched nothing is in progress, nothing is touched.
LEMMA StaysRecorded ==
  ASSUME Base, [Next]_vars, Recorded, NEW o \in Ops,
         ops[o].state \in {"pending", "validated", "snapshotted"}
  PROVE  Recorded'
<1>0. IInv /\ ops[o].state \in Active  BY DEF Base, Active
<1>1. CASE \A c \in Procs : ~Exchange(c) /\ ~RollbackFile(c) /\ ~Complete(c)
  BY <1>1, PeersStay DEF Recorded
<1>2. ASSUME NEW c \in Procs, Exchange(c) \/ Complete(c) PROVE FALSE
  <2>1. call[c].pc \in {"exchange", "complete"} /\ call[c].op \in Ops /\ CallOK(c)
    BY <1>2 DEF Exchange, Complete, Base, IInv, CallInv, CallsInv
  <2>2. ops[call[c].op].state = "executing"  BY <2>1 DEF CallOK, AtHost, Op
  <2>3. call[c].op = o  BY <1>0, <2>1, <2>2, OnlyMine DEF Active
  <2>. QED  BY <2>2, <2>3
<1>3. ASSUME NEW c \in Procs, RollbackFile(c) PROVE Recorded'
  <2>1. call[c].pc = "rb_file" /\ call[c].op \in Ops /\ CallOK(c) /\ applied' = applied
    BY <1>3 DEF RollbackFile, Base, IInv, CallInv, CallsInv, database
  <2>2. ops[call[c].op].state \in {"snapshotted", "executing", "rolling_back"}
    BY <2>1 DEF CallOK, Undoing, Op
  <2>3. call[c].op = o  BY <1>0, <2>1, <2>2, OnlyMine DEF Active
  <2>4. ops[o].state = "snapshotted" /\ ops[o].revs = 0
    BY <2>2, <2>3 DEF Base, IInv, JournalInv, Ledger
  <2>5. ops[o].snapO = applied.file  BY <2>4 DEF Base, RowsInv, OpOK, Begun, SnapOK
  <2>6. file' = file \/ file' = ops[o].snapO
    BY <1>0, <1>3, <2>3, RollbackFileDoes DEF Op
  <2>. QED  BY <2>1, <2>5, <2>6 DEF Recorded
<1>. QED  BY <1>1, <1>2, <1>3

\* The places where a commit relies on its preflight are reached from one another or
\* from the preflight.
LEMMA Arrivals ==
  ASSUME Base, [Next]_vars, NEW d \in Procs, call'[d].pc \in {"lock", "validate"}
  PROVE  \/ /\ call[d].pc \in {"lock", "validate"} /\ call'[d].op = call[d].op
            /\ call[d].pc = "lock" => call'[d].pc = "lock" \/ Op(d).type # "create"
         \/ Recorded /\ UNCHANGED <<host, database>>
         \/ call'[d].pc = "lock" /\ ops[call'[d].op].type = "create" /\ ops' = ops
<1>0. IInv  BY DEF Base
<1>1. CASE call'[d] = call[d]  BY <1>1
<1>2. ASSUME NEW c \in Callers, Preview(c) \/ Commit(c) \/ Lock(c) \/ EndContext(c),
             call'[d] # call[d]
      PROVE  \/ /\ call[d].pc \in {"lock", "validate"} /\ call'[d].op = call[d].op
                /\ call[d].pc = "lock" => call'[d].pc = "lock" \/ Op(d).type # "create"
             \/ Recorded /\ UNCHANGED <<host, database>>
             \/ call'[d].pc = "lock" /\ ops[call'[d].op].type = "create" /\ ops' = ops
  <2>1. CASE Preview(c)
    BY <1>0, <1>2, <2>1, PreviewDoes DEF Others
  <2>2. CASE Commit(c)
    <3>1. /\ Others(c) /\ UNCHANGED <<host, database>> /\ call'[c].pc = "lock"
          /\ ops[call'[c].op].type = "create" \/ (~dbi.drift /\ file = dbi.file)
      BY <1>0, <2>2, CommitDoes
    <3>2. d = c /\ ops' = ops  BY <1>2, <3>1 DEF Others, database
    <3>3. ~dbi.drift /\ file = dbi.file => Recorded  BY DEF Base, RowsInv, Recorded
    <3>. QED  BY <3>1, <3>2, <3>3
  <2>3. CASE Lock(c)
    <3>1. call[c].pc = "lock" /\ To(c, IF Op(c).type = "create" THEN "preflight" ELSE "validate")
      BY <1>0, <2>3, LockDoes
    <3>. QED  BY <1>2, <3>1 DEF To, Others
  <2>4. CASE EndContext(c)
    <3>1. To(c, call[c].pc)  BY <1>0, <2>4, EndContextDoes
    <3>. QED  BY <1>2, <3>1 DEF To, Others
  <2>. QED  BY <1>2, <2>1, <2>2, <2>3, <2>4
<1>3. ASSUME NEW c \in Procs, Work(c), call'[d] # call[d]
      PROVE  Recorded /\ UNCHANGED <<host, database>>
  <2>1. d = c /\ (Releases(c) \/ ~Releases(c))  BY <1>0, <1>3, WorkPlaces DEF Others
  <2>2. CASE CommitPreflight(c)
    <3>1. Releases(c) \/ (~dbi.drift /\ file = dbi.file)
      BY <1>0, <2>2, CommitPreflightDoes
    <3>2. ~Releases(c)  BY <2>1 DEF Releases, Left
    <3>. QED  BY <2>2, <3>1, <3>2 DEF CommitPreflight, Base, RowsInv, Recorded
  <2>3. CASE ~CommitPreflight(c)
    <3>. USE DEF Releases, Left, Stays, To
    <3>1. CASE CreateOperation(c)  BY <1>0, <2>1, <3>1, CreateOperationDoes
    <3>2. CASE Validate(c)  BY <1>0, <2>1, <3>2, ValidateDoes
    <3>3. CASE Prepare(c)  BY <1>0, <2>1, <3>3, PrepareDoes
    <3>4. CASE Begin(c)  BY <1>0, <2>1, <3>4, BeginDoes
    <3>5. CASE ApplyRuntime(c)  BY <1>0, <2>1, <3>5, ApplyRuntimeDoes
    <3>6. CASE Exchange(c)  BY <1>0, <2>1, <3>6, ExchangeDoes
    <3>7. CASE VerifyRuntime(c)  BY <1>0, <2>1, <3>7, VerifyRuntimeDoes
    <3>8. CASE Complete(c)  BY <1>0, <2>1, <3>8, CompleteDoes
    <3>9. CASE Finalize(c)  BY <1>0, <2>1, <3>9, FinalizeDoes
    <3>10. CASE RollbackBegin(c)  BY <1>0, <2>1, <3>10, RollbackBeginDoes
    <3>11. CASE RollbackRuntime(c)  BY <1>0, <2>1, <3>11, RollbackRuntimeDoes
    <3>12. CASE RollbackFile(c)  BY <1>0, <2>1, <3>12, RollbackFileDoes
    <3>13. CASE RollbackEnd(c)  BY <1>0, <2>1, <3>13, RollbackEndDoes
    <3>. QED  BY <1>3, <2>3, <3>1, <3>2, <3>3, <3>4, <3>5, <3>6, <3>7, <3>8, <3>9, <3>10,
                 <3>11, <3>12, <3>13 DEF Work
  <2>. QED  BY <2>2, <2>3
<1>4. CASE RecoverNext /\ call'[d] # call[d]
  BY <1>0, <1>4, RecoverNextDoes DEF Others
<1>5. CASE RecoverManual /\ call'[d] # call[d]
  BY <1>0, <1>5, RecoverManualDoes DEF Releases, Left, Others
<1>6. CASE Scan \/ ReplaceInventory \/ Start \/ RecoverEnd \/ Edit \/ Toggle \/ UNCHANGED vars
  BY <1>1, <1>6 DEF Scan, ReplaceInventory, Start, RecoverEnd, Edit, Toggle, vars
<1>7. CASE Crash  BY <1>7 DEF Crash, Idle
<1>. QED  BY <1>1, <1>2, <1>3, <1>4, <1>5, <1>6, <1>7 DEF Next

LEMMA NextFresh == Base /\ FreshInv /\ [Next]_vars => FreshInv'
<1>. SUFFICES ASSUME Base, FreshInv, [Next]_vars PROVE FreshInv'  OBVIOUS
<1>0. IInv  BY DEF Base
<1>1. ASSUME NEW o \in Ops, ops'[o].state \in {"validated", "snapshotted"} PROVE Recorded'
  <2>1. RowMove(o)  BY <1>0, NextMoves
  <2>2. \/ ops[o].state \in {"validated", "snapshotted"}
        \/ ops[o].state = "pending" /\ ops'[o].state = "validated"
    BY <1>1, <2>1 DEF RowMove, Moves
  <2>3. Recorded  BY <2>2, OnlyValidates DEF FreshInv, FreshOp
  <2>. QED  BY <2>2, <2>3, StaysRecorded
<1>2. ASSUME NEW d \in Procs, Looked(d)', call'[d].pc \in {"lock", "validate"} PROVE Recorded'
  <2>1. /\ ops'[call'[d].op].state = "pending"
        /\ call'[d].pc = "lock" => ops'[call'[d].op].type # "create"
    BY <1>2 DEF Looked, Op, AtHost
  <2>2. CASE Recorded /\ UNCHANGED <<host, database>>
    BY <2>2 DEF Recorded, host, database
  <2>3. CASE /\ call[d].pc \in {"lock", "validate"} /\ call'[d].op = call[d].op
             /\ call[d].pc = "lock" => call'[d].pc = "lock" \/ Op(d).type # "create"
    <3>. PICK o : o = call[d].op  OBVIOUS
    <3>1. o \in Ops /\ ops[o].state # "none" /\ Op(d) = ops[o]
      BY <2>3 DEF Base, IInv, CallInv, CallsInv, CallOK, Op
    <3>2. RowMove(o)  BY <1>0, <3>1, NextMoves
    <3>3. ops[o].state = "pending" /\ ops'[o].type = ops[o].type
      BY <2>1, <2>3, <3>1, <3>2 DEF RowMove, Moves, SameRow
    <3>4. Looked(d)  BY <2>1, <2>3, <3>1, <3>3 DEF Looked
    <3>5. Recorded  BY <2>3, <3>4 DEF FreshInv, FreshCall
    <3>. QED  BY <3>1, <3>3, <3>5, StaysRecorded
  <2>4. CASE call'[d].pc = "lock" /\ ops[call'[d].op].type = "create" /\ ops' = ops
    BY <2>1, <2>4
  <2>. QED  BY <1>2, <2>2, <2>3, <2>4, Arrivals
<1>. QED  BY <1>1, <1>2 DEF FreshInv, FreshOp, FreshCall

LEMMA FreshInvariance == Spec => [](Base /\ FreshInv)
<1>1. Init => FreshInv
  BY DEF Init, FreshInv, FreshOp, FreshCall, Recorded
<1>. QED  BY <1>1, NextFresh, BaseInvariance, PTL DEF Spec

\* No operation goes to work on a file whose peers are not the recorded ones, whatever
\* the operations before it have left there: the preflights stand in the way, before
\* the lock or under it, and only one operation is in progress.
THEOREM WorkStartsFromRecord == Spec => []StartsFromRecord
<1>1. FreshInv => StartsFromRecord  BY DEF FreshInv, FreshOp, Recorded, StartsFromRecord
<1>. QED  BY <1>1, FreshInvariance, PTL

-----------------------------------------------------------------------------
(* The file *)

\* The states of an operation that may have changed the host
Changed == {"executing", "rolling_back", "rollback_failed"}

\* The file shows what the operation proposed, or what it proposed and left there.
Explains(o) ==
  ops[o].state \in Changed /\ ops[o].revs = 0 /\ file.peers = ops[o].snapP.peers
LeftOver(o) ==
  /\ ops[o].state = "rolled_back" /\ InFile(o)
  /\ file.peers = ops[o].snapP.peers /\ applied.file.peers = ops[o].snapO.peers

FileKnown == Recorded \/ \E o \in Ops : Explains(o) \/ LeftOver(o)

\* What a rolled back operation has left is not forgotten.
Remembers ==
  \A o \in Ops : ops[o].state = "rolled_back" =>
    SameRow(o) /\ ops'[o].state = "rolled_back" /\ (InFile(o) => <<o, "file">> \in left')

\* The file is as it was, or an operation has left its proposal there.
Kept(c) ==
  \/ Recorded
  \/ InFile(call[c].op) /\ file.peers = Op(c).snapP.peers
  \/ \E o \in Ops : LeftOver(o)

\* The file at each place of a caller
Restored(c) == call[c].pc = "rb_end" \/ (call[c].pc = "rb_run" /\ Op(c).type # "create")
FileCall(c) ==
  /\ call[c].pc \in {"runtime", "exchange"} => Recorded
  /\ call[c].pc \in {"verify", "complete"} =>
       file.peers = Op(c).snapP.peers /\ (call[c].mayFile \/ Recorded)
  /\ call[c].pc \in Undoing /\ ~call[c].mayFile => Kept(c)
  /\ Restored(c) /\ ~call[c].err => Kept(c)
FileNow == FileKnown /\ \A c \in Procs : FileCall(c)
FileInv == NoUndone => FileNow

OnHost == AtHost \cup Undoing

LEMMA AwayFile ==
  ASSUME NEW c, call'[c].pc \notin OnHost
  PROVE  FileCall(c)'
BY DEF FileCall, Restored, OnHost, AtHost, Undoing

\* Who is not at work is away from the host.
LEMMA OthersFile ==
  ASSUME IInv, MutexInv, NEW c \in Procs, call[c].pc \in Held, Others(c)
  PROVE  \A d \in Procs \ {c} : call'[d].pc \notin OnHost
<1>. SUFFICES ASSUME NEW d \in Procs \ {c} PROVE call'[d].pc \notin OnHost  OBVIOUS
<1>1. call'[d] = call[d]  BY DEF Others
<1>2. call[d].pc = "idle" \/ call[d].pc \notin Held  BY OneAtWork
<1>. QED  BY <1>1, <1>2 DEF Held, OnHost, AtHost, Undoing

\* The rows that explain the file go on to do so.
LEMMA KeepsKnown ==
  ASSUME FileKnown, Remembers, file'.peers = file.peers, applied'.file = applied.file,
         \A o \in Ops : ops[o].state \in Changed => SameRow(o) /\ ops'[o].state \in Changed
  PROVE  FileKnown'
<1>1. ASSUME NEW o \in Ops, Explains(o) PROVE Explains(o)'
  BY <1>1 DEF Explains, SameRow
<1>2. ASSUME NEW o \in Ops, LeftOver(o) PROVE LeftOver(o)'
  BY <1>2 DEF LeftOver, InFile, Remembers, SameRow
<1>. QED  BY <1>1, <1>2 DEF FileKnown, Recorded

\* The same for what a caller at its place may rely on
LEMMA StaysKept ==
  ASSUME Remembers, file'.peers = file.peers, applied'.file = applied.file,
         NEW c, Kept(c), call[c].op \in Ops, call'[c].op = call[c].op, SameRow(call[c].op),
         InFile(call[c].op) => <<call[c].op, "file">> \in left'
  PROVE  Kept(c)'
<1>1. ASSUME NEW o \in Ops, LeftOver(o) PROVE LeftOver(o)'
  BY <1>1 DEF LeftOver, InFile, Remembers, SameRow
<1>2. ASSUME InFile(call[c].op), file.peers = Op(c).snapP.peers PROVE Kept(c)'
  BY <1>2 DEF Kept, InFile, Op, SameRow
<1>. QED  BY <1>1, <1>2 DEF Kept, Recorded

LEMMA RecordedKept ==
  ASSUME file'.peers = applied'.file.peers, NEW c
  PROVE  Kept(c)'
BY DEF Kept, Recorded

LEMMA SameKnown ==
  ASSUME file'.peers = applied'.file.peers
  PROVE  FileKnown'
BY DEF FileKnown, Recorded

\* An operation at work has its snapshot, unless it was completed before.
LEMMA MySnapshot ==
  ASSUME Base, NoUndone, NEW c \in Procs, call[c].pc \in OnHost
  PROVE  /\ call[c].op \in Ops /\ Op(c).revs = 0 /\ SnapOK(call[c].op)
         /\ Op(c).state \in Active /\ Op(c).type \in Types
<1>1. call[c].op \in Ops /\ CallOK(c)
  BY DEF Base, IInv, CallInv, CallsInv, OnHost, AtHost, Undoing
<1>2. Op(c).state \in {"snapshotted", "executing", "rolling_back"}
  BY <1>1 DEF CallOK, OnHost
<1>3. Op(c) = ops[call[c].op]  BY DEF Op
<1>4. Op(c).revs = 0
  BY <1>1, <1>2, <1>3 DEF NoUndone, Undone, Base, IInv, JournalInv, Ledger
<1>5. OpOK(call[c].op)  BY <1>1 DEF Base, RowsInv
<1>. QED  BY <1>1, <1>2, <1>3, <1>4, <1>5 DEF OpOK, Begun, Active

LEMMA HeldFile ==
  ASSUME Base, NEW c \in Procs, call[c].pc \in Held, Others(c), FileKnown', FileCall(c)'
  PROVE  FileNow'
<1>1. \A d \in Procs \ {c} : FileCall(d)'  BY OthersFile, AwayFile DEF Base
<1>. QED  BY <1>1 DEF FileNow

\* A caller that stays where it is
LEMMA SameFile ==
  ASSUME IInv, Remembers, NEW d \in Procs, FileCall(d), ops' = ops, left' = left,
         file'.peers = file.peers, applied'.file = applied.file,
         call'[d].pc = call[d].pc, call'[d].op = call[d].op,
         call'[d].mayFile = call[d].mayFile, call'[d].err = call[d].err
  PROVE  FileCall(d)'
<1>1. CASE call[d].pc \notin OnHost  BY <1>1, AwayFile
<1>2. CASE call[d].pc \in OnHost
  <2>1. call[d].op \in Ops  BY <1>2 DEF IInv, CallInv, OnHost, AtHost, Undoing
  <2>2. Kept(d) => Kept(d)'  BY <2>1, SameRows, StaysKept DEF InFile
  <2>3. Op(d)' = Op(d)  BY DEF Op
  <2>. QED  BY <2>2, <2>3 DEF FileCall, Recorded, Restored
<1>. QED  BY <1>1, <1>2

LEMMA UntouchedKnown ==
  ASSUME FileKnown, Remembers, file'.peers = file.peers, applied'.file = applied.file,
         NEW o \in Ops,
         \/ ops' = ops
         \/ (\A q \in Ops \ {o} : ops'[q] = ops[q]) /\ ops[o].state \notin Changed
  PROVE  FileKnown'
BY KeepsKnown DEF SameRow

\* Up to the moment the host is touched
LEMMA EarlyFile ==
  ASSUME Base, FreshInv, NoUndone, FileNow, Remembers, NEW c \in Procs,
         \/ CommitPreflight(c) \/ Validate(c) \/ Prepare(c) \/ Begin(c)
  PROVE  FileNow'
<1>. PICK o : o = call[c].op  OBVIOUS
<1>0. /\ IInv /\ call[c].pc \in Held /\ o \in Ops
      /\ file' = file /\ applied' = applied
  BY DEF Base, IInv, CallInv, CommitPreflight, Validate, Prepare, Begin, Held, host, database
<1>1. /\ Others(c)
      /\ call'[c].pc \notin OnHost \/ (call'[c].pc = "runtime" /\ ops[o].state = "snapshotted")
      /\ \/ ops' = ops
         \/ (\A q \in Ops \ {o} : ops'[q] = ops[q]) /\ ops[o].state \notin Changed
  <2>. USE DEF Releases, Left, Stays, To, OnHost, AtHost, Undoing, Changed
  <2>1. CASE CommitPreflight(c)
    BY <1>0, <2>1, CommitPreflightDoes DEF CommitPreflight, database
  <2>2. CASE Validate(c)  BY <1>0, <2>2, ValidateDoes DEF Steps, Relabels
  <2>3. CASE Prepare(c)  BY <1>0, <2>3, PrepareDoes DEF Steps, Relabels
  <2>4. CASE Begin(c)  BY <1>0, <2>4, BeginDoes DEF Steps, Relabels, Op
  <2>. QED  BY <2>1, <2>2, <2>3, <2>4
<1>2. FileKnown'  BY <1>0, <1>1, UntouchedKnown DEF FileNow
<1>3. FileCall(c)'
  <2>1. CASE call'[c].pc \notin OnHost  BY <2>1, AwayFile
  <2>2. CASE call'[c].pc = "runtime" /\ ops[o].state = "snapshotted"
    <3>1. Recorded  BY <1>0, <2>2 DEF FreshInv, FreshOp
    <3>. QED  BY <1>0, <2>2, <3>1 DEF FileCall, Restored, Recorded, Undoing
  <2>. QED  BY <1>1, <2>1, <2>2
<1>. QED  BY <1>0, <1>1, <1>2, <1>3, HeldFile

\* At the host, before and after the exchange
LEMMA AppliedFile ==
  ASSUME Base, NoUndone, FileNow, Remembers, NEW c \in Procs, ApplyRuntime(c) \/ VerifyRuntime(c)
  PROVE  FileNow'
<1>0. /\ IInv /\ call[c].pc \in Held /\ FileCall(c) /\ ops' = ops
      /\ file' = file /\ applied' = applied
  BY DEF Base, ApplyRuntime, VerifyRuntime, Held, host, database, FileNow
<1>1. FileKnown'  BY <1>0, SameRows, KeepsKnown DEF FileNow
<1>2. CASE ApplyRuntime(c)
  <2>1. file'.peers = applied'.file.peers /\ call[c].pc = "runtime"
    BY <1>0, <1>2 DEF FileCall, Recorded, ApplyRuntime
  <2>2. Others(c) /\ call'[c].pc \in {"exchange", "rb_begin"}
    BY <1>0, <1>2, ApplyRuntimeDoes DEF Stays, To
  <2>3. FileCall(c)'  BY <2>1, <2>2, RecordedKept DEF FileCall, Recorded, Restored
  <2>. QED  BY <1>0, <1>1, <2>2, <2>3, HeldFile
<1>3. CASE VerifyRuntime(c)
  <2>1. file.peers = Op(c).snapP.peers /\ (call[c].mayFile \/ Recorded)
    BY <1>0, <1>3 DEF FileCall, VerifyRuntime
  <2>2. /\ To(c, call'[c].pc) /\ call'[c].pc \in {"complete", "rb_begin"}
        /\ call'[c].mayFile = call[c].mayFile
    BY <1>0, <1>3, VerifyRuntimeDoes DEF Stays, To, Flags
  <2>3. Op(c)' = Op(c)  BY <1>0, <2>2 DEF Op, To
  <2>4. FileCall(c)'
    BY <1>0, <2>1, <2>2, <2>3, RecordedKept DEF FileCall, Restored, Recorded
  <2>. QED  BY <1>0, <1>1, <2>2, <2>4, HeldFile DEF To
<1>. QED  BY <1>2, <1>3

LEMMA ExchangedFile ==
  ASSUME Base, NoUndone, FileNow, Remembers, NEW c \in Procs, Exchange(c)
  PROVE  FileNow'
<1>. PICK o : o = call[c].op  OBVIOUS
<1>0. /\ IInv /\ call[c].pc = "exchange" /\ FileCall(c) /\ CallOK(c) /\ ops' = ops
      /\ applied' = applied
  BY DEF Base, Exchange, database, FileNow, CallsInv
<1>1. /\ o \in Ops /\ Op(c) = ops[o] /\ ops[o].revs = 0 /\ SnapOK(o)
      /\ ops[o].state = "executing" /\ file.peers = applied.file.peers
  BY <1>0, MySnapshot DEF OnHost, AtHost, FileCall, Recorded, CallOK, Op
<1>. PICK needed : needed = (ops[o].type # "update" \/ ops[o].snapP # ops[o].snapO)  OBVIOUS
<1>2. \/ /\ To(c, "verify") /\ call'[c].mayFile = needed
         /\ IF needed THEN file' = ops[o].snapP ELSE file' = file
      \/ To(c, "rb_begin") /\ file' = file
      \/ To(c, "rb_begin") /\ file' = ops[o].snapP /\ <<o, "file">> \in left'
  BY <1>0, <1>1, ExchangeDoes DEF Stays
<1>3. Op(c)' = ops[o]  BY <1>0, <1>1, <1>2 DEF Op, To
<1>4. CASE file' = file /\ To(c, "rb_begin")
  <2>1. FileCall(c)'  BY <1>0, <1>1, <1>4, RecordedKept DEF FileCall, Restored, To
  <2>2. FileKnown'  BY <1>0, <1>1, <1>4, SameKnown
  <2>. QED  BY <1>0, <1>4, <2>1, <2>2, HeldFile DEF To, Held
<1>5. CASE To(c, "verify") /\ call'[c].mayFile = needed /\ needed /\ file' = ops[o].snapP
  <2>1. FileCall(c)'  BY <1>3, <1>5 DEF FileCall, Restored, To, Undoing
  <2>2. Explains(o)'  BY <1>0, <1>1, <1>5 DEF Explains, Changed
  <2>3. FileKnown'  BY <1>1, <2>2 DEF FileKnown
  <2>. QED  BY <1>0, <1>5, <2>1, <2>3, HeldFile DEF To, Held
<1>6. CASE To(c, "verify") /\ ~needed /\ file' = file
  <2>1. ops[o].snapP = applied.file  BY <1>1, <1>6 DEF SnapOK
  <2>2. FileCall(c)'
    BY <1>0, <1>1, <1>3, <1>6, <2>1 DEF FileCall, Recorded, Restored, To, Undoing
  <2>3. FileKnown'  BY <1>0, <1>1, <1>6, SameKnown
  <2>. QED  BY <1>0, <1>6, <2>2, <2>3, HeldFile DEF To, Held
<1>7. CASE To(c, "rb_begin") /\ file' = ops[o].snapP /\ <<o, "file">> \in left'
  <2>1. Kept(c)'  BY <1>3, <1>7 DEF Kept, InFile, To
  <2>2. FileCall(c)'  BY <1>7, <2>1 DEF FileCall, Restored, To
  <2>3. Explains(o)'  BY <1>0, <1>1, <1>7 DEF Explains, Changed
  <2>4. FileKnown'  BY <1>1, <2>3 DEF FileKnown
  <2>. QED  BY <1>0, <1>7, <2>2, <2>4, HeldFile DEF To, Held
<1>. QED  BY <1>2, <1>4, <1>5, <1>6, <1>7

LEMMA CompletedFile ==
  ASSUME Base, NoUndone, FileNow, Remembers, NEW c \in Procs, Complete(c)
  PROVE  FileNow'
<1>. PICK o : o = call[c].op  OBVIOUS
<1>0. /\ IInv /\ call[c].pc = "complete" /\ call[c].pc \in Held /\ FileCall(c) /\ file' = file
  BY DEF Base, Complete, host, FileNow, Held
<1>1. file.peers = ops[o].snapP.peers /\ (call[c].mayFile \/ Recorded)
  BY <1>0 DEF FileCall, Op
<1>2. CASE Stays(c, "rb_begin") /\ Flags(c) /\ UNCHANGED database
  <2>1. FileCall(c)'
    BY <1>0, <1>1, <1>2, RecordedKept
       DEF FileCall, Restored, Recorded, Stays, To, Flags, database
  <2>2. FileKnown'  BY <1>0, <1>2, SameRows, KeepsKnown DEF FileNow, database
  <2>. QED  BY <1>0, <1>2, <2>1, <2>2, HeldFile DEF Stays, To
<1>3. CASE ~(Stays(c, "rb_begin") /\ Flags(c) /\ UNCHANGED database)
  <2>1. Stays(c, "finalize") /\ applied'.file = ops[o].snapP
    BY <1>0, <1>3, CompleteDoes
  <2>2. FileCall(c)'  BY <2>1, AwayFile DEF Stays, To, OnHost, AtHost, Undoing
  <2>3. FileKnown'  BY <1>0, <1>1, <2>1, SameKnown
  <2>. QED  BY <1>0, <2>1, <2>2, <2>3, HeldFile DEF Stays, To
<1>. QED  BY <1>2, <1>3

\* Steps of the journal at the end of an operation
LEMMA FinalizedFile ==
  ASSUME Base, NoUndone, FileNow, Remembers, NEW c \in Procs, Finalize(c)
  PROVE  FileNow'
<1>0. /\ IInv /\ call[c].pc \in Held /\ file' = file /\ applied' = applied /\ call[c].op \in Ops
  BY DEF Base, IInv, CallInv, Finalize, host, Held
<1>1. Releases(c) /\ Steps(call[c].op, "verifying", "committed")
  BY <1>0, FinalizeDoes
<1>2. FileKnown'  BY <1>0, <1>1, UntouchedKnown DEF Steps, Relabels, Changed, FileNow
<1>3. FileCall(c)'  BY <1>1, AwayFile DEF Releases, Left, OnHost, AtHost, Undoing
<1>. QED  BY <1>0, <1>1, <1>2, <1>3, HeldFile DEF Releases, Left

LEMMA RollbackBeginFile ==
  ASSUME Base, NoUndone, FileNow, Remembers, NEW c \in Procs, RollbackBegin(c)
  PROVE  FileNow'
<1>. PICK o : o = call[c].op  OBVIOUS
<1>0. /\ IInv /\ call[c].pc = "rb_begin" /\ FileCall(c) /\ file' = file /\ applied' = applied
      /\ o \in Ops
  BY DEF Base, IInv, CallInv, RollbackBegin, host, FileNow
<1>1. ops' = ops \/ Relabels(o, "rolling_back")
  BY <1>0, RollbackBeginDoes
<1>2. ASSUME NEW q \in Ops, ops[q].state \in Changed
      PROVE  SameRow(q) /\ ops'[q].state \in Changed
  BY <1>0, <1>1, <1>2 DEF Relabels, SameRow, Changed
<1>3. FileKnown'  BY <1>0, <1>2, KeepsKnown DEF FileNow
<1>4. CASE Releases(c)
  <2>1. FileCall(c)'  BY <1>4, AwayFile DEF Releases, Left, OnHost, AtHost, Undoing
  <2>. QED  BY <1>0, <1>3, <1>4, <2>1, HeldFile DEF Releases, Left, Held
<1>5. CASE ~Releases(c)
  <2>1. To(c, IF Op(c).type = "create" THEN "rb_run" ELSE "rb_file") /\ Flags(c)
    BY <1>0, <1>5, RollbackBeginDoes DEF Stays
  <2>2. Op(c)'.type = Op(c).type /\ SameRow(o)
    BY <1>0, <1>1, <2>1 DEF Op, To, Relabels, SameRow
  <2>3. Kept(c) => Kept(c)'
    BY <1>0, <2>1, <2>2, StaysKept DEF To, RollbackBegin, host, InFile
  <2>4. FileCall(c)'
    BY <1>0, <2>1, <2>2, <2>3 DEF FileCall, Restored, To, Flags, Undoing
  <2>. QED  BY <1>0, <1>3, <2>1, <2>4, HeldFile DEF To, Held
<1>. QED  BY <1>4, <1>5

LEMMA RollbackRuntimeFile ==
  ASSUME Base, NoUndone, FileNow, Remembers, NEW c \in Procs, RollbackRuntime(c)
  PROVE  FileNow'
<1>0. /\ IInv /\ call[c].pc = "rb_run" /\ FileCall(c) /\ file' = file /\ applied' = applied
      /\ ops' = ops /\ call[c].op \in Ops
  BY DEF Base, IInv, CallInv, RollbackRuntime, database, FileNow
<1>1. /\ To(c, IF Op(c).type = "create" THEN "rb_file" ELSE "rb_end")
      /\ call'[c].mayFile = call[c].mayFile /\ (~call'[c].err => ~call[c].err)
  BY <1>0, RollbackRuntimeDoes DEF Stays
<1>2. Op(c)' = Op(c)  BY <1>0, <1>1 DEF Op, To
<1>3. Kept(c) => Kept(c)'
  <2>1. InFile(call[c].op) => <<call[c].op, "file">> \in left'
    BY DEF RollbackRuntime, Leaves, InFile
  <2>. QED  BY <1>0, <1>1, <2>1, StaysKept, SameRows DEF To
<1>4. FileCall(c)'  BY <1>0, <1>1, <1>2, <1>3 DEF FileCall, Restored, To, Undoing
<1>5. FileKnown'  BY <1>0, SameRows, KeepsKnown DEF FileNow
<1>. QED  BY <1>0, <1>1, <1>5, <1>4, HeldFile DEF To, Held

\* The exchange back restores the file, or leaves what is there and remembers it.
LEMMA RollbackFileFile ==
  ASSUME Base, NoUndone, FileNow, Remembers, NEW c \in Procs, RollbackFile(c)
  PROVE  FileNow'
<1>. PICK o : o = call[c].op  OBVIOUS
<1>0. /\ IInv /\ call[c].pc = "rb_file" /\ call[c].pc \in Held /\ FileCall(c)
      /\ applied' = applied /\ ops' = ops
  BY DEF Base, IInv, RollbackFile, database, FileNow, Held
<1>1. /\ To(c, IF Op(c).type = "create" THEN "rb_end" ELSE "rb_run")
      /\ call'[c].mayFile = call[c].mayFile
      /\ file' = file \/ file' = Op(c).snapO
      /\ ~call'[c].err =>
           \/ file' = Op(c).snapO
           \/ file' = file /\ ~call[c].mayFile /\ left' = left
           \/ file' = file /\ <<o, "file">> \in left'
  BY <1>0, RollbackFileDoes DEF Stays
<1>2. call[c].mayFile \/ left' = left  BY DEF RollbackFile
<1>3. /\ Op(c)' = Op(c) /\ SnapOK(o) /\ Op(c) = ops[o] /\ o \in Ops /\ ops[o].state \in Active
  BY <1>0, <1>1, MySnapshot DEF Op, To, OnHost, Undoing
<1>4. CASE file' = Op(c).snapO
  <2>1. file'.peers = applied'.file.peers  BY <1>0, <1>3, <1>4 DEF SnapOK
  <2>2. FileCall(c)'  BY <1>1, <2>1, RecordedKept DEF FileCall, To
  <2>. QED  BY <1>0, <1>1, <2>1, <2>2, SameKnown, HeldFile DEF To
<1>5. CASE file' = file /\ file' # Op(c).snapO
  <2>1. FileKnown'  BY <1>0, <1>5, SameRows, KeepsKnown DEF FileNow
  <2>2. ~call[c].mayFile => Kept(c)'
    <3>1. ~call[c].mayFile => Kept(c)  BY <1>0 DEF FileCall, Undoing
    <3>2. SameRow(o)  BY <1>0, <1>3, SameRows
    <3>. QED  BY <1>0, <1>1, <1>3, <1>2, <1>5, <3>1, <3>2, StaysKept DEF To, InFile
  <2>3. call[c].mayFile /\ ~call'[c].err => Kept(c)'
    <3>. SUFFICES ASSUME call[c].mayFile, ~call'[c].err PROVE Kept(c)'  OBVIOUS
    <3>1. <<o, "file">> \in left'  BY <1>1, <1>5
    <3>2. ASSUME NEW q \in Ops, Explains(q)' PROVE Kept(c)'
      <4>1. q = o  BY <1>0, <1>3, <3>2, OnlyMine DEF Explains, Changed, Active
      <4>. QED  BY <1>0, <1>1, <1>3, <3>1, <3>2, <4>1 DEF Explains, Kept, InFile, To
    <3>3. ASSUME NEW q \in Ops, LeftOver(q)' PROVE Kept(c)'  BY <3>3 DEF Kept
    <3>. QED  BY <2>1, <3>2, <3>3 DEF FileKnown, Kept
  <2>4. FileCall(c)'  BY <1>0, <1>1, <1>5, <2>2, <2>3 DEF FileCall, Restored, To
  <2>. QED  BY <1>0, <1>1, <2>1, <2>4, HeldFile DEF To
<1>. QED  BY <1>1, <1>4, <1>5

LEMMA RollbackEndFile ==
  ASSUME Base, NoUndone, FileNow, Remembers, NEW c \in Procs, RollbackEnd(c)
  PROVE  FileNow'
<1>. PICK o : o = call[c].op  OBVIOUS
<1>0. /\ IInv /\ call[c].pc = "rb_end" /\ FileCall(c) /\ file' = file /\ applied' = applied
      /\ o \in Ops /\ left' = left
  BY DEF Base, IInv, CallInv, RollbackEnd, host, FileNow
<1>1. Releases(c) /\ Steps(o, "rolling_back", RollbackOutcome(c))
  BY <1>0, RollbackEndDoes
<1>2. FileKnown'
  <2>1. CASE ~call[c].err
    <3>0. ops' = ops \/ Relabels(o, "rolled_back")
      BY <1>1, <2>1 DEF RollbackOutcome, Steps
    <3>1. CASE ops' = ops  BY <1>0, <3>1, SameRows, KeepsKnown DEF FileNow
    <3>2. CASE Relabels(o, "rolled_back")
      <4>1. Kept(c) /\ SnapOK(o)  BY <1>0, <2>1, MySnapshot DEF FileCall, Restored, OnHost, Undoing
      <4>2. CASE Recorded  BY <1>0, <4>2, SameKnown DEF Recorded
      <4>3. CASE InFile(o) /\ file.peers = ops[o].snapP.peers
        <5>1. LeftOver(o)'
          BY <1>0, <3>2, <4>1, <4>3 DEF LeftOver, InFile, Relabels, SameRow, SnapOK
        <5>. QED  BY <1>0, <5>1 DEF FileKnown
      <4>4. ASSUME NEW q \in Ops, LeftOver(q) PROVE FileKnown'
        <5>1. LeftOver(q)'
          BY <1>0, <4>4 DEF LeftOver, InFile, Remembers, SameRow
        <5>. QED  BY <5>1 DEF FileKnown
      <4>. QED  BY <4>1, <4>2, <4>3, <4>4 DEF Kept, Op
    <3>. QED  BY <3>0, <3>1, <3>2
  <2>2. CASE call[c].err
    <3>1. ASSUME NEW q \in Ops, ops[q].state \in Changed
          PROVE  SameRow(q) /\ ops'[q].state \in Changed
      BY <1>1, <2>2, <3>1 DEF RollbackOutcome, Steps, Relabels, SameRow, Changed
    <3>. QED  BY <1>0, <3>1, KeepsKnown DEF FileNow
  <2>. QED  BY <2>1, <2>2
<1>3. FileCall(c)'  BY <1>1, AwayFile DEF Releases, Left, OnHost, AtHost, Undoing
<1>. QED  BY <1>0, <1>1, <1>2, <1>3, HeldFile DEF Releases, Left, Held

LEMMA RecoveryFile ==
  ASSUME Base, NoUndone, FileNow, Remembers, NoUndone', RecoverNext \/ RecoverManual
  PROVE  FileNow'
<1>0. /\ IInv /\ Boot \in Procs /\ file' = file /\ applied' = applied
  BY DEF Base, Procs, RecoverNext, RecoverManual, host
<1>1. CASE RecoverManual
  <2>1. call[Boot].op \in Ops /\ call[Boot].pc \in Held
    BY <1>1 DEF Base, IInv, CallInv, RecoverManual, Procs, Held
  <2>2. Releases(Boot) /\ Steps(call[Boot].op, "rolling_back", "rollback_failed")
    BY <1>0, <1>1, RecoverManualDoes
  <2>3. ASSUME NEW q \in Ops, ops[q].state \in Changed
        PROVE  SameRow(q) /\ ops'[q].state \in Changed
    BY <2>2, <2>3 DEF Steps, Relabels, SameRow, Changed
  <2>4. FileKnown'  BY <1>0, <2>3, KeepsKnown DEF FileNow
  <2>5. FileCall(Boot)'  BY <2>2, AwayFile DEF Releases, Left, OnHost, AtHost, Undoing
  <2>. QED  BY <1>0, <2>1, <2>2, <2>4, <2>5, HeldFile DEF Releases, Left
<1>2. CASE RecoverNext
  <2>1. CASE ops' = ops /\ call' = call
    <3>1. FileKnown'  BY <1>0, <2>1, SameRows, KeepsKnown DEF FileNow
    <3>2. left' = left  BY <1>2 DEF RecoverNext, host
    <3>. QED  BY <1>0, <2>1, <3>1, <3>2, SameFile DEF FileNow
  <2>2. CASE ~(ops' = ops /\ call' = call)
    <3>1. PICK o \in Ops :
            /\ Others(Boot) /\ Relabels(o, RecoveredState(o))
            /\ \/ call'[Boot].pc \in {"idle", "manual"}
               \/ call'[Boot].pc = "rb_begin" /\ call'[Boot].mayFile = TRUE
      BY <1>0, <1>2, <2>2, RecoverNextDoes
    <3>2. ASSUME NEW q \in Ops, ops[q].state \in Changed
          PROVE  SameRow(q) /\ ops'[q].state \in Changed
      BY <3>1, <3>2 DEF Relabels, SameRow, Changed, RecoveredState
    <3>3. FileKnown'  BY <1>0, <3>2, KeepsKnown DEF FileNow
    <3>4. FileCall(Boot)'
      <4>1. CASE call'[Boot].pc \in {"idle", "manual"}
        BY <4>1, AwayFile DEF OnHost, AtHost, Undoing
      <4>2. CASE call'[Boot].pc = "rb_begin" /\ call'[Boot].mayFile = TRUE
        BY <4>2 DEF FileCall, Restored
      <4>. QED  BY <3>1, <4>1, <4>2
    <3>5. ASSUME NEW d \in Procs \ {Boot} PROVE FileCall(d)'
      <4>1. call'[d].pc = "idle"  BY <1>2, <3>1 DEF Base, MutexInv, Procs, Others, RecoverNext
      <4>. QED  BY <4>1, AwayFile DEF OnHost, AtHost, Undoing
    <3>. QED  BY <3>3, <3>4, <3>5 DEF FileNow
  <2>. QED  BY <2>1, <2>2
<1>. QED  BY <1>1, <1>2

\* Steps of a caller that is not at work
LEMMA CallerFile ==
  ASSUME Base, NoUndone, FileNow, Remembers, NEW c \in Callers,
         Preview(c) \/ Commit(c) \/ Lock(c) \/ EndContext(c)
  PROVE  FileNow'
<1>0. IInv /\ c \in Procs /\ FileCall(c)  BY DEF Base, Procs, FileNow
<1>1. /\ Others(c) /\ UNCHANGED <<file, left, applied, ops>>
      /\ call'[c].pc \notin OnHost \/ (To(c, call[c].pc) /\ Flags(c))
  BY <1>0, PreviewDoes, CommitDoes, LockDoes, EndContextDoes
     DEF host, database, To, OnHost, AtHost, Undoing
<1>2. FileKnown'  BY <1>1, SameRows, KeepsKnown DEF FileNow
<1>3. FileCall(c)'
  <2>1. CASE call'[c].pc \notin OnHost  BY <2>1, AwayFile
  <2>2. CASE To(c, call[c].pc) /\ Flags(c)
    BY <1>0, <1>1, <2>2, SameFile DEF To, Flags
  <2>. QED  BY <1>1, <2>1, <2>2
<1>4. ASSUME NEW d \in Procs \ {c} PROVE FileCall(d)'
  <2>1. call'[d] = call[d] /\ FileCall(d)  BY <1>1 DEF Others, FileNow
  <2>. QED  BY <1>0, <1>1, <2>1, SameFile
<1>. QED  BY <1>2, <1>3, <1>4 DEF FileNow

LEMMA CreateOperationFile ==
  ASSUME Base, NoUndone, FileNow, Remembers, NEW c \in Procs, CreateOperation(c)
  PROVE  FileNow'
<1>0. /\ IInv /\ file' = file /\ applied' = applied /\ left' = left
  BY DEF Base, CreateOperation, host
<1>1. /\ Others(c) /\ call'[c].pc = "idle"
      /\ \A o \in Ops :
              \/ ops'[o] = ops[o]
              \/ ops[o].state \in {"none", "pending"}
  BY <1>0, CreateOperationDoes DEF Releases, Left
<1>2. FileKnown'
  BY <1>0, <1>1, KeepsKnown DEF SameRow, FileNow, Changed
<1>3. ASSUME NEW d \in Procs PROVE FileCall(d)'
  <2>1. CASE d = c \/ call[d].pc \notin OnHost
    BY <1>1, <2>1, AwayFile DEF Others, OnHost, AtHost, Undoing
  <2>2. CASE d # c /\ call[d].pc \in OnHost
    <3>1. call'[d] = call[d] /\ FileCall(d)  BY <1>1, <2>2 DEF Others, FileNow
    <3>2. call[d].op \in Ops /\ Op(d).state \in Active
      BY <2>2, MySnapshot
    <3>3. Op(d)' = Op(d) /\ SameRow(call[d].op)
      <4>1. ops[call[d].op].state \in {"snapshotted", "executing", "rolling_back"}
        BY <2>2, <3>1 DEF OnHost, Base, CallsInv, CallOK, Op
      <4>. QED  BY <1>1, <3>1, <3>2, <4>1 DEF Op, SameRow
    <3>4. Kept(d) => Kept(d)'  BY <1>0, <3>1, <3>2, <3>3, StaysKept DEF InFile
    <3>. QED  BY <1>0, <3>1, <3>3, <3>4 DEF FileCall, Recorded, Restored
  <2>. QED  BY <2>1, <2>2
<1>. QED  BY <1>2, <1>3 DEF FileNow

LEMMA OutsideFile ==
  ASSUME Base, NoUndone, FileNow, Remembers, Scan \/ ReplaceInventory \/ Start \/ RecoverEnd \/ Crash
           \/ Edit \/ Toggle \/ UNCHANGED vars
  PROVE  FileNow'
<1>1. ops' = ops /\ applied' = applied
  BY DEF Scan, ReplaceInventory, Start, RecoverEnd, Crash, Edit, Toggle, database, vars
<1>2. file'.peers = file.peers
  <2>1. CASE Edit  BY <2>1 DEF Edit, Base, IInv, TypeOK, Hashes
  <2>2. CASE ~Edit
    BY <2>2 DEF Scan, ReplaceInventory, Start, RecoverEnd, Crash, Toggle, host, vars
  <2>. QED  BY <2>1, <2>2
<1>3. FileKnown'  BY <1>1, <1>2, SameRows, KeepsKnown DEF FileNow
<1>4. ASSUME NEW d \in Procs PROVE FileCall(d)'
  <2>1. CASE Crash
    <3>1. call'[d].pc = "idle"  BY <2>1 DEF Crash, Idle
    <3>. QED  BY <3>1, AwayFile DEF OnHost, AtHost, Undoing
  <2>2. CASE ~Crash
    <3>1. call' = call
      BY <2>2 DEF Scan, ReplaceInventory, Start, RecoverEnd, Edit, Toggle, vars
    <3>2. left' = left
      BY <2>2 DEF Scan, ReplaceInventory, Start, RecoverEnd, Edit, Toggle, host, vars
    <3>. QED  BY <1>1, <1>2, <3>1, <3>2, SameFile DEF FileNow, Base
  <2>. QED  BY <2>1, <2>2
<1>. QED  BY <1>3, <1>4 DEF FileNow

\* Only the rollback of its own operation takes a mark away.
LEMMA NextRemembers == Base /\ [Next]_vars => Remembers
<1>. SUFFICES ASSUME Base, [Next]_vars, NEW o \in Ops, ops[o].state = "rolled_back"
              PROVE  SameRow(o) /\ ops'[o].state = "rolled_back"
                     /\ (InFile(o) => <<o, "file">> \in left')
  BY DEF Remembers
<1>1. RowMove(o)  BY NextMoves DEF Base
<1>2. SameRow(o) /\ ops'[o].state = "rolled_back"  BY <1>1 DEF RowMove, Moves
<1>3. ASSUME NEW c \in Procs, RollbackFile(c), InFile(o) PROVE <<o, "file">> \in left'
  <2>1. call[c].pc = "rb_file" /\ CallOK(c)  BY <1>3 DEF RollbackFile, Base, CallsInv
  <2>2. Op(c).state # "rolled_back"  BY <2>1 DEF CallOK, Undoing
  <2>3. call[c].op # o  BY <2>2 DEF Op
  <2>. QED  BY <1>3, <2>3 DEF RollbackFile, Leaves, InFile
<1>4. CASE \A c \in Procs : ~RollbackFile(c)
  <2>1. ASSUME NEW c \in Procs, ApplyRuntime(c) \/ Exchange(c) \/ RollbackRuntime(c)
        PROVE  left \subseteq left'
    BY <2>1 DEF ApplyRuntime, Exchange, RollbackRuntime, Leaves
  <2>2. CASE \A c \in Procs : ~(ApplyRuntime(c) \/ Exchange(c) \/ RollbackRuntime(c))
    <3>1. left' = left
      BY <1>4, <2>2 DEF vars, Next, Work, Preview, PreviewCreatePeer, PreviewUpdatePeer,
         PreviewPeerLifecycle, Plan, Commit, CommitCreatePeer, CommitUpdatePeer,
         CommitPeerLifecycle, Enter, Lock, EndContext,
         CreateOperation, CommitPreflight, Validate, Prepare, Begin, VerifyRuntime,
         Complete, Finalize, RollbackBegin, RollbackEnd, Scan, ReplaceInventory,
         Start, RecoverNext, RecoverManual, RecoverEnd, Crash, Edit, Toggle, host
    <3>. QED  BY <3>1, <1>2 DEF InFile
  <2>. QED  BY <1>2, <2>1, <2>2 DEF InFile
<1>. QED  BY <1>2, <1>3, <1>4

LEMMA NextFile == Base /\ FreshInv /\ FileInv /\ [Next]_vars => FileInv'
<1>. SUFFICES ASSUME Base, FreshInv, FileInv, [Next]_vars, NoUndone' PROVE FileNow'
  BY DEF FileInv
<1>0. NoUndone /\ FileNow /\ Remembers  BY UndoneStays, NextRemembers DEF Base, FileInv
<1>1. ASSUME NEW c \in Callers, Preview(c) \/ Commit(c) \/ Lock(c) \/ EndContext(c)
      PROVE  FileNow'
  BY <1>0, <1>1, CallerFile
<1>2. ASSUME NEW c \in Procs, Work(c) PROVE FileNow'
  BY <1>0, <1>2, CreateOperationFile, EarlyFile, AppliedFile, ExchangedFile, CompletedFile,
     FinalizedFile, RollbackBeginFile, RollbackRuntimeFile, RollbackFileFile, RollbackEndFile
     DEF Work
<1>3. CASE RecoverNext \/ RecoverManual  BY <1>0, <1>3, RecoveryFile
<1>4. CASE Scan \/ ReplaceInventory \/ Start \/ RecoverEnd \/ Crash \/ Edit \/ Toggle
           \/ UNCHANGED vars
  BY <1>0, <1>4, OutsideFile
<1>. QED  BY <1>1, <1>2, <1>3, <1>4 DEF Next

LEMMA InitFile == Init => FileInv
<1>. SUFFICES ASSUME Init PROVE FileNow  BY DEF FileInv
<1>1. applied.file = file /\ call = [c \in Procs |-> Idle]  BY DEF Init
<1>. QED  BY <1>1 DEF FileNow, FileKnown, Recorded, FileCall, Restored, Idle, Undoing

LEMMA FileInvariance == Spec => [](Base /\ FileInv)
<1>1. Base /\ FreshInv /\ FileInv /\ [Next]_vars => FileInv'  BY NextFile
<1>. QED  BY <1>1, InitFile, FreshInvariance, PTL DEF Spec

\* Whatever was changed in the file is explained by an operation that still says so and
\* has the snapshot to undo it, or that has rolled back and is known to have left its
\* proposal there, when commits fail, race and are recovered after a crash, when an
\* exchange can neither be verified nor taken back, and whatever an editor adds
\* (SnapshotOperation before the exchange, the rollbacks).
THEOREM EveryHostChangeJournalled == Spec => []HostChangeJournalled
<1>1. Base /\ FileInv => HostChangeJournalled
  <2>. SUFFICES ASSUME Base, FileInv, ~Recorded, NoUndone
                PROVE  HostChangeJournalled
    BY DEF HostChangeJournalled, NoUndone, Recorded
  <2>1. PICK o \in Ops : Explains(o) \/ LeftOver(o)
    BY DEF FileInv, FileNow, FileKnown
  <2>2. CASE Explains(o)
    <3>1. SnapOK(o)  BY <2>2 DEF Base, RowsInv, OpOK, Explains, Changed, Begun
    <3>. QED  BY <2>2, <3>1 DEF Explains, Changed, SnapOK, HostChangeJournalled
  <2>3. CASE LeftOver(o)  BY <2>3 DEF LeftOver, HostChangeJournalled
  <2>. QED  BY <2>1, <2>2, <2>3
<1>. QED  BY <1>1, FileInvariance, PTL

LEMMA QuietFile ==
  ASSUME Base, FileInv, Quiet
  PROVE  NoUndone /\ (Recorded \/ \E o \in Ops : InFile(o))
<1>1. NoUndone  BY DEF Quiet, NoUndone
<1>2. ASSUME NEW o \in Ops, Explains(o) PROVE FALSE
  BY <1>2 DEF Quiet, Explains, Changed, Active
<1>. QED  BY <1>1, <1>2 DEF FileInv, FileNow, FileKnown, LeftOver

\* Between operations the file says of every peer what its row does, however the
\* operations before ended, unless one is known to have left its proposal in it
\* (Complete*, the rollbacks, recoverSnapshotted).
THEOREM FileAgreesBetweenOperations == Spec => []FileAgrees
<1>1. Base /\ FileInv => FileAgrees
  <2>. SUFFICES ASSUME Base, FileInv, Quiet, \A o \in Ops : ~InFile(o), NEW p \in Peers
                PROVE  file.peers[p] = Wanted(p)
    BY DEF FileAgrees
  <2>1. PeerOK(p)  BY DEF Base, RowsInv
  <2>. QED  BY <2>1, QuietFile DEF PeerOK, Wanted, Recorded
<1>. QED  BY <1>1, FileInvariance, PTL

-----------------------------------------------------------------------------
(* The device, which nobody else takes down or brings up, and which no operation *)
(* has passed over while it was running                                          *)

Untouched == toggles = 0 /\ run.up /\ \A o \in Ops : ~OnDevice(o)

LEMMA PeersKeepUp ==
  ASSUME NEW r \in DeviceStates, NEW p, NEW v
  PROVE  [r EXCEPT !.peers[p] = v].up = r.up
BY DEF DeviceStates

LEMMA SameUp ==
  ASSUME IInv, [Next]_vars, toggles' = 0
  PROVE  toggles = 0 /\ run'.up = run.up
<1>1. toggles \in Nat /\ run \in DeviceStates  BY BoundsAssumption DEF IInv, TypeOK
<1>2. ASSUME NEW c \in Procs, ApplyRuntime(c)
      PROVE  toggles = 0 /\ run'.up = run.up
  <2>1. PICK p, v : run' \in {run, [run EXCEPT !.peers[p] = v]}
    BY <1>2, ApplyRuntimeDoes
  <2>2. toggles' = toggles  BY <1>2 DEF ApplyRuntime
  <2>. QED  BY <1>1, <2>1, <2>2, PeersKeepUp
<1>3. ASSUME NEW c \in Procs, RollbackRuntime(c)
      PROVE  toggles = 0 /\ run'.up = run.up
  <2>1. PICK p, v : run' \in {run, [run EXCEPT !.peers[p] = v]}
    BY <1>3, RollbackRuntimeDoes
  <2>2. toggles' = toggles  BY <1>3 DEF RollbackRuntime
  <2>. QED  BY <1>1, <2>1, <2>2, PeersKeepUp
<1>4. CASE Toggle  BY <1>1, <1>4 DEF Toggle
<1>5. CASE /\ ~(\E c \in Procs : ApplyRuntime(c) \/ RollbackRuntime(c)) /\ ~Toggle
  BY <1>5 DEF vars, Next, Work, Preview, PreviewCreatePeer, PreviewUpdatePeer,
       PreviewPeerLifecycle, Plan, Commit, CommitCreatePeer, CommitUpdatePeer,
       CommitPeerLifecycle, Enter, Lock, EndContext,
       CreateOperation, CommitPreflight, Validate, Prepare, Begin, Exchange, VerifyRuntime,
       Complete, Finalize, RollbackBegin, RollbackFile, RollbackEnd, Scan, ReplaceInventory,
       Start, RecoverNext, RecoverManual, RecoverEnd, Crash, Edit, host
<1>. QED  BY <1>2, <1>3, <1>4, <1>5

\* What was passed over stays known.
LEMMA MarksStay ==
  ASSUME [Next]_vars, NEW o \in Ops, OnDevice(o)
  PROVE  <<o, "run">> \in left'
<1>1. ASSUME NEW c \in Procs, RollbackFile(c) PROVE <<o, "run">> \in left'
  <2>1. left' = left \ {<<call[c].op, "file">>} \/ left \subseteq left'
    BY <1>1 DEF RollbackFile, Leaves
  <2>. QED  BY <2>1 DEF OnDevice
<1>2. ASSUME NEW c \in Procs, ApplyRuntime(c) \/ Exchange(c) \/ RollbackRuntime(c)
      PROVE <<o, "run">> \in left'
  BY <1>2 DEF ApplyRuntime, Exchange, RollbackRuntime, Leaves, OnDevice
<1>3. CASE \A c \in Procs :
             ~(ApplyRuntime(c) \/ Exchange(c) \/ RollbackRuntime(c) \/ RollbackFile(c))
  <2>1. left' = left
    BY <1>3 DEF vars, Next, Work, Preview, PreviewCreatePeer, PreviewUpdatePeer,
       PreviewPeerLifecycle, Plan, Commit, CommitCreatePeer, CommitUpdatePeer,
       CommitPeerLifecycle, Enter, Lock, EndContext,
       CreateOperation, CommitPreflight, Validate, Prepare, Begin, VerifyRuntime,
       Complete, Finalize, RollbackBegin, RollbackEnd, Scan, ReplaceInventory,
       Start, RecoverNext, RecoverManual, RecoverEnd, Crash, Edit, Toggle, host
  <2>. QED  BY <2>1 DEF OnDevice
<1>. QED  BY <1>1, <1>2, <1>3

LEMMA StaysUntouched ==
  ASSUME IInv, [Next]_vars, Untouched'
  PROVE  Untouched
<1>1. toggles' = 0 /\ run'.up /\ \A o \in Ops : ~(<<o, "run">> \in left')
  BY DEF Untouched, OnDevice
<1>. QED  BY <1>1, SameUp, MarksStay DEF Untouched

\* An operation that may have changed the device at this peer
Owns(o, p) == ops[o].state \in Changed /\ ops[o].revs = 0 /\ ops[o].peer = p
DeviceKnown ==
  \A p \in Peers : run.peers[p] # applied.file.peers[p] => \E o \in Ops : Owns(o, p)

Removed(c) == call[c].pc = "rb_end" \/ (call[c].pc = "rb_file" /\ Op(c).type = "create")
DeviceCall(c) ==
  /\ call[c].pc = "runtime" => run.peers = applied.file.peers
  /\ call[c].pc \in {"exchange", "verify", "complete"} =>
       run.peers[Op(c).peer] = Op(c).snapP.peers[Op(c).peer]
  /\ Removed(c) /\ ~call[c].err => run.peers = applied.file.peers
DeviceNow == DeviceKnown /\ \A c \in Procs : DeviceCall(c)
DeviceInv == NoUndone /\ Untouched => DeviceNow

LEMMA SamePeers ==
  ASSUME NEW f \in PeerMap, NEW g \in PeerMap, \A p \in Peers : f[p] = g[p]
  PROVE  f = g
BY DEF PeerMap

LEMMA MapTypes ==
  ASSUME TypeOK
  PROVE  /\ run.peers \in PeerMap /\ applied.file.peers \in PeerMap
         /\ \A o \in Ops : ops[o].snapP.peers \in PeerMap /\ ops[o].peer \in Peers
BY DEF TypeOK, DeviceStates, Hashes, OpRecords

LEMMA AwayDevice ==
  ASSUME NEW c, call'[c].pc \notin OnHost
  PROVE  DeviceCall(c)'
BY DEF DeviceCall, Removed, OnHost, AtHost, Undoing

LEMMA HeldDevice ==
  ASSUME Base, NEW c \in Procs, call[c].pc \in Held, Others(c), DeviceKnown', DeviceCall(c)'
  PROVE  DeviceNow'
<1>1. \A d \in Procs \ {c} : DeviceCall(d)'  BY OthersFile, AwayDevice DEF Base
<1>. QED  BY <1>1 DEF DeviceNow

LEMMA KeepsDevice ==
  ASSUME DeviceKnown, run'.peers = run.peers, applied'.file = applied.file,
         \A o \in Ops : ops[o].state \in Changed => SameRow(o) /\ ops'[o].state \in Changed
  PROVE  DeviceKnown'
<1>1. ASSUME NEW o \in Ops, NEW p, Owns(o, p) PROVE Owns(o, p)'
  BY <1>1 DEF Owns, SameRow
<1>. QED  BY <1>1 DEF DeviceKnown

LEMMA SameDevice ==
  ASSUME run'.peers = applied'.file.peers
  PROVE  DeviceKnown'
BY DEF DeviceKnown

LEMMA UntouchedDevice ==
  ASSUME DeviceKnown, run'.peers = run.peers, applied'.file = applied.file, NEW o \in Ops,
         \/ ops' = ops
         \/ (\A q \in Ops \ {o} : ops'[q] = ops[q]) /\ ops[o].state \notin Changed
  PROVE  DeviceKnown'
BY KeepsDevice DEF SameRow

\* Beside the peer of the operation in progress the device has what is recorded.
LEMMA OnlyItsPeer ==
  ASSUME IInv, DeviceKnown, NEW o \in Ops, ops[o].state \in Active,
         NEW p \in Peers, p # ops[o].peer \/ ops[o].state \notin Changed
  PROVE  run.peers[p] = applied.file.peers[p]
<1>1. ASSUME NEW q \in Ops, Owns(q, p) PROVE FALSE
  BY <1>1, OnlyMine DEF Owns, Changed, Active
<1>. QED  BY <1>1 DEF DeviceKnown

LEMMA StillOnDevice ==
  ASSUME IInv, DeviceKnown, NEW o \in Ops, ops[o].state \in Active \ Changed
  PROVE  run.peers = applied.file.peers
<1>1. \A p \in Peers : run.peers[p] = applied.file.peers[p]  BY OnlyItsPeer
<1>2. run.peers \in PeerMap /\ applied.file.peers \in PeerMap  BY MapTypes DEF IInv
<1>. QED  BY <1>1, <1>2, SamePeers

\* What a step at a place does to the device's peer, and to no other
LEMMA SetPeer ==
  ASSUME TypeOK, NEW p \in Peers, NEW v, run' = [run EXCEPT !.peers[p] = v]
  PROVE  run'.peers[p] = v /\ \A q \in Peers \ {p} : run'.peers[q] = run.peers[q]
<1>1. run'.peers = [run.peers EXCEPT ![p] = v]  BY DEF TypeOK, DeviceStates
<1>. QED  BY <1>1 DEF TypeOK, DeviceStates, PeerMap

\* The configuration the operation puts on the device is the one it proposes.
LEMMA TargetProposed ==
  ASSUME Base, NoUndone, NEW c \in Procs, call[c].pc \in AtHost
  PROVE  Target(c) = Op(c).snapP.peers[Op(c).peer]
<1>. PICK o : o = call[c].op  OBVIOUS
<1>1. o \in Ops /\ Op(c) = ops[o] /\ SnapOK(o) /\ TypeOK /\ CallOK(c)
  BY MySnapshot DEF OnHost, Op, Base, IInv, CallsInv
<1>2. call[c].old = peer[ops[o].peer].spec  BY <1>1 DEF CallOK, Looked
<1>3. ops[o].peer \in Peers /\ ops[o].snapO \in Hashes /\ ops[o].type \in AllTypes
  BY <1>1 DEF TypeOK, OpRecords
<1>4. ops[o].snapP.peers[ops[o].peer] = NewSpec(ops[o])
  BY <1>1, <1>3, PatchedPeers DEF SnapOK
<1>5. CASE ops[o].type = "enable"
  <2>1. peer[ops[o].peer].archive # 0  BY <1>1, <1>5 DEF SnapOK, Patchable
  <2>2. peer[ops[o].peer].archive = peer[ops[o].peer].spec
    BY <1>3, <2>1 DEF Base, RowsInv, PeerOK
  <2>. QED  BY <1>1, <1>2, <1>4, <1>5, <2>2 DEF NewSpec, Target
<1>6. CASE ops[o].type # "enable"
  BY <1>1, <1>4, <1>6 DEF NewSpec, Target
<1>. QED  BY <1>5, <1>6

Before(c) == IF Op(c).type \in {"create", "enable"} THEN 0 ELSE call[c].old

\* The configuration a rollback puts on the device is the recorded one.
LEMMA BeforeRecorded ==
  ASSUME Base, NoUndone, NEW c \in Procs, call[c].pc \in Undoing
  PROVE  Before(c) = applied.file.peers[Op(c).peer]
<1>. PICK o : o = call[c].op  OBVIOUS
<1>1. o \in Ops /\ Op(c) = ops[o] /\ SnapOK(o) /\ TypeOK /\ CallOK(c)
  BY MySnapshot DEF OnHost, Op, Base, IInv, CallsInv
<1>2. call[c].old = peer[ops[o].peer].spec  BY <1>1 DEF CallOK
<1>3. ops[o].peer \in Peers /\ ops[o].type \in AllTypes  BY <1>1 DEF TypeOK, OpRecords
<1>4. CASE ops[o].type \in {"create", "enable"}
  <2>1. applied.file.peers[ops[o].peer] = 0  BY <1>1, <1>4 DEF SnapOK, Patchable
  <2>. QED  BY <1>1, <1>4, <2>1 DEF Before
<1>5. CASE ops[o].type \notin {"create", "enable"}
  <2>1. applied.file.peers[ops[o].peer] # 0  BY <1>1, <1>3, <1>5 DEF SnapOK, Patchable, AllTypes
  <2>2. applied.file.peers[ops[o].peer] = peer[ops[o].peer].spec
    BY <1>3, <2>1 DEF Base, RowsInv, PeerOK
  <2>. QED  BY <1>1, <1>2, <1>5, <2>2 DEF Before
<1>. QED  BY <1>4, <1>5

LEMMA EarlyDevice ==
  ASSUME Base, NoUndone, DeviceNow, NEW c \in Procs,
         \/ CommitPreflight(c) \/ Validate(c) \/ Prepare(c) \/ Begin(c)
  PROVE  DeviceNow'
<1>. PICK o : o = call[c].op  OBVIOUS
<1>0. /\ IInv /\ call[c].pc \in Held /\ o \in Ops
      /\ run' = run /\ applied' = applied
  BY DEF Base, IInv, CallInv, CommitPreflight, Validate, Prepare, Begin, Held, host, database
<1>1. /\ Others(c)
      /\ call'[c].pc \notin OnHost \/ (call'[c].pc = "runtime" /\ ops[o].state = "snapshotted")
      /\ \/ ops' = ops
         \/ (\A q \in Ops \ {o} : ops'[q] = ops[q]) /\ ops[o].state \notin Changed
  <2>. USE DEF Releases, Left, Stays, To, OnHost, AtHost, Undoing, Changed
  <2>1. CASE CommitPreflight(c)
    BY <1>0, <2>1, CommitPreflightDoes DEF CommitPreflight, database
  <2>2. CASE Validate(c)  BY <1>0, <2>2, ValidateDoes DEF Steps, Relabels
  <2>3. CASE Prepare(c)  BY <1>0, <2>3, PrepareDoes DEF Steps, Relabels
  <2>4. CASE Begin(c)  BY <1>0, <2>4, BeginDoes DEF Steps, Relabels, Op
  <2>. QED  BY <2>1, <2>2, <2>3, <2>4
<1>2. DeviceKnown'  BY <1>0, <1>1, UntouchedDevice DEF DeviceNow
<1>3. DeviceCall(c)'
  <2>1. CASE call'[c].pc \notin OnHost  BY <2>1, AwayDevice
  <2>2. CASE call'[c].pc = "runtime" /\ ops[o].state = "snapshotted"
    <3>1. ops[o].state \in Active \ Changed  BY <2>2 DEF Active, Changed
    <3>2. run.peers = applied.file.peers  BY <1>0, <3>1, StillOnDevice DEF DeviceNow
    <3>. QED  BY <1>0, <2>2, <3>2 DEF DeviceCall, Removed, Undoing
  <2>. QED  BY <1>1, <2>1, <2>2
<1>. QED  BY <1>0, <1>1, <1>2, <1>3, HeldDevice

LEMMA ApplyRuntimeDevice ==
  ASSUME Base, NoUndone, DeviceNow, Untouched, Untouched', NEW c \in Procs, ApplyRuntime(c)
  PROVE  DeviceNow'
<1>. PICK o : o = call[c].op  OBVIOUS
<1>. PICK t : t = Target(c)  OBVIOUS
<1>0. /\ IInv /\ TypeOK /\ call[c].pc = "runtime" /\ ops' = ops /\ applied' = applied
      /\ CallOK(c) /\ DeviceCall(c) /\ call[c].pc \in Held
  BY DEF Base, IInv, ApplyRuntime, database, CallsInv, DeviceNow, Held
<1>1. /\ o \in Ops /\ Op(c) = ops[o] /\ ops[o].revs = 0 /\ ops[o].peer \in Peers
      /\ ops[o].state = "executing" /\ run.peers = applied.file.peers
  BY <1>0, MySnapshot, MapTypes DEF OnHost, AtHost, DeviceCall, CallOK, Op
<1>2. call[c].up \/ To(c, "rb_begin")
  <2>1. run.up /\ ~(<<o, "run">> \in left')  BY <1>1 DEF Untouched, OnDevice
  <2>. QED  BY <1>0, <2>1, ApplyRuntimeDoes DEF Stays
<1>3. t = ops[o].snapP.peers[ops[o].peer]
  BY <1>0, <1>1, TargetProposed DEF AtHost
<1>4. /\ run' \in {run, [run EXCEPT !.peers[ops[o].peer] = t]}
      /\ \/ To(c, "exchange") /\ run' = [run EXCEPT !.peers[ops[o].peer] = t]
         \/ To(c, "rb_begin")
  BY <1>0, <1>1, <1>2, ApplyRuntimeDoes DEF Stays
<1>5. DeviceKnown'
  <2>1. \A q \in Peers \ {ops[o].peer} : run'.peers[q] = applied.file.peers[q]
    BY <1>0, <1>1, <1>4, SetPeer
  <2>2. Owns(o, ops[o].peer)'  BY <1>0, <1>1 DEF Owns, Changed
  <2>. QED  BY <1>0, <1>1, <2>1, <2>2 DEF DeviceKnown, Owns
<1>6. DeviceCall(c)'
  <2>1. Op(c)' = ops[o]  BY <1>0, <1>4 DEF Op, To
  <2>2. CASE To(c, "exchange") /\ run' = [run EXCEPT !.peers[ops[o].peer] = t]
    <3>1. run'.peers[ops[o].peer] = t  BY <1>0, <1>1, <2>2, SetPeer
    <3>. QED  BY <1>3, <2>1, <2>2, <3>1 DEF DeviceCall, Removed, To
  <2>3. CASE To(c, "rb_begin")  BY <2>3 DEF DeviceCall, Removed, To
  <2>. QED  BY <1>4, <2>2, <2>3
<1>. QED  BY <1>0, <1>4, <1>5, <1>6, HeldDevice DEF To

LEMMA ExchangedDevice ==
  ASSUME Base, NoUndone, DeviceNow, NEW c \in Procs, Exchange(c) \/ VerifyRuntime(c)
  PROVE  DeviceNow'
<1>0. /\ IInv /\ call[c].pc \in {"exchange", "verify"} /\ call[c].pc \in Held /\ ops' = ops
      /\ applied' = applied /\ run' = run /\ DeviceCall(c)
  BY DEF Base, Exchange, VerifyRuntime, database, host, DeviceNow, Held
<1>1. /\ Others(c) /\ call'[c].op = call[c].op
      /\ call'[c].pc \in {"verify", "complete", "rb_begin"}
  BY <1>0, ExchangeDoes, VerifyRuntimeDoes DEF Stays, To
<1>2. Op(c)' = Op(c)  BY <1>0, <1>1 DEF Op
<1>3. DeviceCall(c)'  BY <1>0, <1>1, <1>2 DEF DeviceCall, Removed
<1>4. DeviceKnown'  BY <1>0, SameRows, KeepsDevice DEF DeviceNow
<1>. QED  BY <1>0, <1>1, <1>3, <1>4, HeldDevice

LEMMA CompletedDevice ==
  ASSUME Base, NoUndone, DeviceNow, NEW c \in Procs, Complete(c)
  PROVE  DeviceNow'
<1>. PICK o : o = call[c].op  OBVIOUS
<1>0. /\ IInv /\ TypeOK /\ call[c].pc = "complete" /\ call[c].pc \in Held /\ DeviceCall(c)
      /\ run' = run
  BY DEF Base, IInv, Complete, host, DeviceNow, Held
<1>1. /\ o \in Ops /\ Op(c) = ops[o] /\ SnapOK(o) /\ ops[o].state \in Active
      /\ ops[o].peer \in Peers /\ ops[o].snapP.peers \in PeerMap /\ run.peers \in PeerMap
      /\ applied.file \in Hashes
      /\ run.peers[ops[o].peer] = ops[o].snapP.peers[ops[o].peer]
  BY <1>0, MySnapshot, MapTypes DEF OnHost, AtHost, Op, DeviceCall, TypeOK
<1>2. CASE Stays(c, "rb_begin") /\ Flags(c) /\ UNCHANGED database
  <2>1. DeviceCall(c)'  BY <1>2 DEF DeviceCall, Removed, Stays, To
  <2>2. DeviceKnown'  BY <1>0, <1>2, SameRows, KeepsDevice DEF DeviceNow, database
  <2>. QED  BY <1>0, <1>2, <2>1, <2>2, HeldDevice DEF Stays, To
<1>3. CASE ~(Stays(c, "rb_begin") /\ Flags(c) /\ UNCHANGED database)
  <2>1. Stays(c, "finalize") /\ applied'.file = ops[o].snapP
    BY <1>0, <1>3, CompleteDoes
  <2>2. ASSUME NEW p \in Peers PROVE run.peers[p] = ops[o].snapP.peers[p]
    <3>1. CASE p = ops[o].peer  BY <1>1, <3>1
    <3>2. CASE p # ops[o].peer
      <4>1. run.peers[p] = applied.file.peers[p]
        BY <1>0, <1>1, <3>2, OnlyItsPeer DEF DeviceNow
      <4>2. ops[o].snapP.peers[p] = applied.file.peers[p]
        BY <1>0, <1>1, <3>2, PatchedPeers DEF SnapOK
      <4>. QED  BY <4>1, <4>2
    <3>. QED  BY <3>1, <3>2
  <2>3. run.peers = ops[o].snapP.peers  BY <1>1, <2>2, SamePeers
  <2>4. DeviceKnown'  BY <1>0, <2>1, <2>3, SameDevice
  <2>5. DeviceCall(c)'  BY <2>1, AwayDevice DEF Stays, To, OnHost, AtHost, Undoing
  <2>. QED  BY <1>0, <2>1, <2>4, <2>5, HeldDevice DEF Stays, To
<1>. QED  BY <1>2, <1>3

LEMMA FinalizedDevice ==
  ASSUME Base, NoUndone, DeviceNow, NEW c \in Procs, Finalize(c)
  PROVE  DeviceNow'
<1>0. /\ IInv /\ call[c].pc \in Held /\ run' = run /\ applied' = applied /\ call[c].op \in Ops
  BY DEF Base, IInv, CallInv, Finalize, host, Held
<1>1. Releases(c) /\ Steps(call[c].op, "verifying", "committed")
  BY <1>0, FinalizeDoes
<1>2. DeviceKnown'
  BY <1>0, <1>1, UntouchedDevice DEF Steps, Relabels, Changed, DeviceNow
<1>3. DeviceCall(c)'  BY <1>1, AwayDevice DEF Releases, Left, OnHost, AtHost, Undoing
<1>. QED  BY <1>0, <1>1, <1>2, <1>3, HeldDevice DEF Releases, Left

LEMMA RollbackBeginDevice ==
  ASSUME Base, NoUndone, DeviceNow, NEW c \in Procs, RollbackBegin(c)
  PROVE  DeviceNow'
<1>. PICK o : o = call[c].op  OBVIOUS
<1>0. /\ IInv /\ call[c].pc = "rb_begin" /\ call[c].pc \in Held /\ run' = run
      /\ applied' = applied /\ o \in Ops
  BY DEF Base, IInv, CallInv, RollbackBegin, host, Held
<1>1. ops' = ops \/ Relabels(o, "rolling_back")
  BY <1>0, RollbackBeginDoes
<1>2. ASSUME NEW q \in Ops, ops[q].state \in Changed
      PROVE  SameRow(q) /\ ops'[q].state \in Changed
  BY <1>0, <1>1, <1>2 DEF Relabels, SameRow, Changed
<1>3. DeviceKnown'  BY <1>0, <1>2, KeepsDevice DEF DeviceNow
<1>4. CASE Releases(c)
  <2>1. DeviceCall(c)'  BY <1>4, AwayDevice DEF Releases, Left, OnHost, AtHost, Undoing
  <2>. QED  BY <1>0, <1>3, <1>4, <2>1, HeldDevice DEF Releases, Left
<1>5. CASE ~Releases(c)
  <2>1. To(c, IF Op(c).type = "create" THEN "rb_run" ELSE "rb_file")
    BY <1>0, <1>5, RollbackBeginDoes DEF Stays
  <2>2. Op(c)'.type = Op(c).type
    BY <1>0, <1>1, <2>1 DEF Op, To, Relabels, SameRow
  <2>3. DeviceCall(c)'  BY <2>1, <2>2 DEF DeviceCall, Removed, To
  <2>. QED  BY <1>0, <1>3, <2>1, <2>3, HeldDevice DEF To
<1>. QED  BY <1>4, <1>5

LEMMA RollbackRuntimeDevice ==
  ASSUME Base, NoUndone, DeviceNow, Untouched, Untouched', NEW c \in Procs, RollbackRuntime(c)
  PROVE  DeviceNow'
<1>. PICK o : o = call[c].op  OBVIOUS
<1>. PICK b : b = Before(c)  OBVIOUS
<1>0. /\ IInv /\ TypeOK /\ call[c].pc = "rb_run" /\ call[c].pc \in Held /\ ops' = ops
      /\ applied' = applied /\ DeviceCall(c)
  BY DEF Base, IInv, RollbackRuntime, database, DeviceNow, Held
<1>1. /\ o \in Ops /\ Op(c) = ops[o] /\ ops[o].state \in Active /\ ops[o].peer \in Peers
      /\ b = applied.file.peers[ops[o].peer]
      /\ run.peers \in PeerMap /\ applied.file.peers \in PeerMap
  BY <1>0, MySnapshot, MapTypes, BeforeRecorded DEF OnHost, Undoing, Op
<1>. PICK p : p = ops[o].peer  OBVIOUS
<1>2. /\ To(c, IF Op(c).type = "create" THEN "rb_file" ELSE "rb_end")
      /\ run' \in {run, [run EXCEPT !.peers[p] = b]}
      /\ ~call'[c].err => \/ run' = [run EXCEPT !.peers[p] = b]
                          \/ ops[o].type = "create" /\ run.peers[p] = 0
  <2>1. run.up /\ ~(<<o, "run">> \in left')  BY <1>1 DEF Untouched, OnDevice
  <2>. QED  BY <1>0, <1>1, <2>1, RollbackRuntimeDoes DEF Stays, Before
<1>3. \A q \in Peers \ {p} : run.peers[q] = applied.file.peers[q]
  BY <1>0, <1>1, OnlyItsPeer DEF DeviceNow
<1>4. CASE run' = [run EXCEPT !.peers[p] = b]
  <2>1. run'.peers[p] = b /\ \A q \in Peers \ {p} : run'.peers[q] = run.peers[q]
    <3>1. TypeOK /\ p \in Peers  BY <1>0, <1>1
    <3>. QED  BY <1>4, <3>1, SetPeer
  <2>2. run'.peers \in PeerMap
    <3>1. run'.peers = [run.peers EXCEPT ![p] = b]  BY <1>0, <1>4 DEF TypeOK, DeviceStates
    <3>2. b \in Specs \cup {0}  BY <1>1 DEF PeerMap
    <3>. QED  BY <1>1, <3>1, <3>2 DEF PeerMap
  <2>3. \A q \in Peers : run'.peers[q] = applied.file.peers[q]  BY <1>1, <1>3, <2>1
  <2>4. run'.peers = applied'.file.peers  BY <1>0, <1>1, <2>2, <2>3, SamePeers
  <2>5. DeviceKnown'  BY <2>4, SameDevice
  <2>6. DeviceCall(c)'  BY <1>2, <2>4 DEF DeviceCall, To
  <2>. QED  BY <1>0, <1>2, <2>5, <2>6, HeldDevice DEF To
<1>5. CASE run' = run
  <2>1. DeviceKnown'  BY <1>0, <1>5, SameRows, KeepsDevice DEF DeviceNow
  <2>2. ASSUME ~call'[c].err, run' # [run EXCEPT !.peers[p] = b]
        PROVE  run.peers = applied.file.peers
    <3>1. run.peers[p] = 0 /\ b = 0  BY <1>1, <1>2, <2>2 DEF Before
    <3>2. \A q \in Peers : run.peers[q] = applied.file.peers[q]  BY <1>1, <1>3, <3>1
    <3>. QED  BY <1>1, <3>2, SamePeers
  <2>3. CASE run' # [run EXCEPT !.peers[p] = b]
    <3>1. DeviceCall(c)'  BY <1>0, <1>2, <1>5, <2>2, <2>3 DEF DeviceCall, To
    <3>. QED  BY <1>0, <1>2, <2>1, <3>1, HeldDevice DEF To
  <2>. QED  BY <1>4, <2>3
<1>. QED  BY <1>2, <1>4, <1>5

LEMMA RollbackFileDevice ==
  ASSUME Base, NoUndone, DeviceNow, NEW c \in Procs, RollbackFile(c)
  PROVE  DeviceNow'
<1>0. /\ IInv /\ call[c].pc = "rb_file" /\ call[c].pc \in Held /\ ops' = ops
      /\ applied' = applied /\ run' = run /\ DeviceCall(c)
  BY DEF Base, RollbackFile, database, DeviceNow, Held
<1>1. /\ To(c, IF Op(c).type = "create" THEN "rb_end" ELSE "rb_run")
      /\ ~call'[c].err => ~call[c].err
  BY <1>0, RollbackFileDoes DEF Stays
<1>2. Op(c)' = Op(c)  BY <1>0, <1>1 DEF Op, To
<1>3. DeviceCall(c)'  BY <1>0, <1>1, <1>2 DEF DeviceCall, Removed, To
<1>4. DeviceKnown'  BY <1>0, SameRows, KeepsDevice DEF DeviceNow
<1>. QED  BY <1>0, <1>1, <1>3, <1>4, HeldDevice DEF To

LEMMA RollbackEndDevice ==
  ASSUME Base, NoUndone, DeviceNow, NEW c \in Procs, RollbackEnd(c)
  PROVE  DeviceNow'
<1>. PICK o : o = call[c].op  OBVIOUS
<1>0. /\ IInv /\ call[c].pc = "rb_end" /\ call[c].pc \in Held /\ DeviceCall(c) /\ run' = run
      /\ applied' = applied /\ o \in Ops
  BY DEF Base, IInv, CallInv, RollbackEnd, host, DeviceNow, Held
<1>1. Releases(c) /\ Steps(o, "rolling_back", RollbackOutcome(c))
  BY <1>0, RollbackEndDoes
<1>2. DeviceKnown'
  <2>1. CASE ~call[c].err
    <3>1. run.peers = applied.file.peers  BY <1>0, <2>1 DEF DeviceCall, Removed
    <3>. QED  BY <1>0, <3>1, SameDevice
  <2>2. CASE call[c].err
    <3>1. ASSUME NEW q \in Ops, ops[q].state \in Changed
          PROVE  SameRow(q) /\ ops'[q].state \in Changed
      BY <1>1, <2>2, <3>1 DEF RollbackOutcome, Steps, Relabels, SameRow, Changed
    <3>. QED  BY <1>0, <3>1, KeepsDevice DEF DeviceNow
  <2>. QED  BY <2>1, <2>2
<1>3. DeviceCall(c)'  BY <1>1, AwayDevice DEF Releases, Left, OnHost, AtHost, Undoing
<1>. QED  BY <1>0, <1>1, <1>2, <1>3, HeldDevice DEF Releases, Left

LEMMA RecoveryDevice ==
  ASSUME Base, NoUndone, DeviceNow, RecoverNext \/ RecoverManual
  PROVE  DeviceNow'
<1>0. /\ IInv /\ Boot \in Procs /\ run' = run /\ applied' = applied
  BY DEF Base, Procs, RecoverNext, RecoverManual, host
<1>1. CASE RecoverManual
  <2>1. call[Boot].op \in Ops /\ call[Boot].pc \in Held
    BY <1>1 DEF Base, IInv, CallInv, RecoverManual, Procs, Held
  <2>2. Releases(Boot) /\ Steps(call[Boot].op, "rolling_back", "rollback_failed")
    BY <1>0, <1>1, RecoverManualDoes
  <2>3. ASSUME NEW q \in Ops, ops[q].state \in Changed
        PROVE  SameRow(q) /\ ops'[q].state \in Changed
    BY <2>2, <2>3 DEF Steps, Relabels, SameRow, Changed
  <2>4. DeviceKnown'  BY <1>0, <2>3, KeepsDevice DEF DeviceNow
  <2>5. DeviceCall(Boot)'  BY <2>2, AwayDevice DEF Releases, Left, OnHost, AtHost, Undoing
  <2>. QED  BY <1>0, <2>1, <2>2, <2>4, <2>5, HeldDevice DEF Releases, Left
<1>2. CASE RecoverNext
  <2>1. CASE ops' = ops /\ call' = call
    <3>1. DeviceKnown'  BY <1>0, <2>1, SameRows, KeepsDevice DEF DeviceNow
    <3>. QED  BY <1>0, <2>1, <3>1 DEF DeviceNow, DeviceCall, Removed, Op
  <2>2. CASE ~(ops' = ops /\ call' = call)
    <3>1. PICK o \in Ops :
            /\ Others(Boot) /\ Relabels(o, RecoveredState(o))
            /\ call'[Boot].pc \in {"idle", "manual", "rb_begin"}
      BY <1>0, <1>2, <2>2, RecoverNextDoes
    <3>2. ASSUME NEW q \in Ops, ops[q].state \in Changed
          PROVE  SameRow(q) /\ ops'[q].state \in Changed
      BY <3>1, <3>2 DEF Relabels, SameRow, Changed, RecoveredState
    <3>3. DeviceKnown'  BY <1>0, <3>2, KeepsDevice DEF DeviceNow
    <3>4. DeviceCall(Boot)'  BY <3>1 DEF DeviceCall, Removed
    <3>5. ASSUME NEW d \in Procs \ {Boot} PROVE DeviceCall(d)'
      <4>1. call'[d].pc = "idle"  BY <1>2, <3>1 DEF Base, MutexInv, Procs, Others, RecoverNext
      <4>. QED  BY <4>1, AwayDevice DEF OnHost, AtHost, Undoing
    <3>. QED  BY <3>3, <3>4, <3>5 DEF DeviceNow
  <2>. QED  BY <2>1, <2>2
<1>. QED  BY <1>1, <1>2

LEMMA CallerDevice ==
  ASSUME Base, NoUndone, DeviceNow, NEW c \in Callers,
         Preview(c) \/ Commit(c) \/ Lock(c) \/ EndContext(c)
  PROVE  DeviceNow'
<1>0. IInv /\ c \in Procs /\ DeviceCall(c)  BY DEF Base, Procs, DeviceNow
<1>1. /\ Others(c) /\ UNCHANGED <<run, applied, ops>>
      /\ call'[c].pc \notin OnHost \/ (To(c, call[c].pc) /\ Flags(c))
  BY <1>0, PreviewDoes, CommitDoes, LockDoes, EndContextDoes
     DEF host, database, To, OnHost, AtHost, Undoing
<1>2. DeviceKnown'  BY <1>1, SameRows, KeepsDevice DEF DeviceNow
<1>3. DeviceCall(c)'
  <2>1. CASE call'[c].pc \notin OnHost  BY <2>1, AwayDevice
  <2>2. CASE To(c, call[c].pc) /\ Flags(c)
    BY <1>0, <1>1, <2>2 DEF DeviceCall, Removed, To, Flags, Op
  <2>. QED  BY <1>1, <2>1, <2>2
<1>4. ASSUME NEW d \in Procs \ {c} PROVE DeviceCall(d)'
  <2>1. call'[d] = call[d] /\ DeviceCall(d)  BY <1>1 DEF Others, DeviceNow
  <2>. QED  BY <1>1, <2>1 DEF DeviceCall, Removed, Op
<1>. QED  BY <1>2, <1>3, <1>4 DEF DeviceNow

LEMMA CreateOperationDevice ==
  ASSUME Base, NoUndone, DeviceNow, NEW c \in Procs, CreateOperation(c)
  PROVE  DeviceNow'
<1>0. /\ IInv /\ run' = run /\ applied' = applied  BY DEF Base, CreateOperation, host
<1>1. /\ Others(c) /\ call'[c].pc = "idle"
      /\ \A o \in Ops :
              \/ ops'[o] = ops[o]
              \/ ops[o].state \in {"none", "pending"}
  BY <1>0, CreateOperationDoes DEF Releases, Left
<1>2. DeviceKnown'
  BY <1>0, <1>1, KeepsDevice DEF SameRow, DeviceNow, Changed
<1>3. ASSUME NEW d \in Procs PROVE DeviceCall(d)'
  <2>1. CASE d = c \/ call[d].pc \notin OnHost
    BY <1>1, <2>1, AwayDevice DEF Others, OnHost, AtHost, Undoing
  <2>2. CASE d # c /\ call[d].pc \in OnHost
    <3>1. call'[d] = call[d] /\ DeviceCall(d)  BY <1>1, <2>2 DEF Others, DeviceNow
    <3>2. call[d].op \in Ops /\ Op(d).state \in Active
      BY <2>2, MySnapshot
    <3>3. Op(d)' = Op(d)
      <4>1. ops[call[d].op].state \in {"snapshotted", "executing", "rolling_back"}
        BY <2>2, <3>1 DEF OnHost, Base, CallsInv, CallOK, Op
      <4>. QED  BY <1>1, <3>1, <3>2, <4>1 DEF Op
    <3>. QED  BY <1>0, <3>1, <3>3 DEF DeviceCall, Removed
  <2>. QED  BY <2>1, <2>2
<1>. QED  BY <1>2, <1>3 DEF DeviceNow

LEMMA OutsideDevice ==
  ASSUME Base, NoUndone, DeviceNow, Scan \/ ReplaceInventory \/ Start \/ RecoverEnd \/ Crash
           \/ Edit \/ UNCHANGED vars
  PROVE  DeviceNow'
<1>1. ops' = ops /\ applied' = applied /\ run' = run
  BY DEF Scan, ReplaceInventory, Start, RecoverEnd, Crash, Edit, database, host, vars
<1>2. DeviceKnown'  BY <1>1, SameRows, KeepsDevice DEF DeviceNow
<1>3. ASSUME NEW d \in Procs PROVE DeviceCall(d)'
  <2>1. CASE Crash
    <3>1. call'[d].pc = "idle"  BY <2>1 DEF Crash, Idle
    <3>. QED  BY <3>1, AwayDevice DEF OnHost, AtHost, Undoing
  <2>2. CASE ~Crash
    <3>1. call' = call
      BY <2>2 DEF Scan, ReplaceInventory, Start, RecoverEnd, Edit, vars
    <3>. QED  BY <1>1, <3>1 DEF DeviceNow, DeviceCall, Removed, Op
  <2>. QED  BY <2>1, <2>2
<1>. QED  BY <1>2, <1>3 DEF DeviceNow

LEMMA NextDevice == Base /\ DeviceInv /\ [Next]_vars => DeviceInv'
<1>. SUFFICES ASSUME Base, DeviceInv, [Next]_vars, NoUndone', Untouched'
              PROVE  DeviceNow'
  BY DEF DeviceInv
<1>0. NoUndone /\ DeviceNow /\ Untouched /\ toggles' = 0
  BY UndoneStays, StaysUntouched DEF Base, DeviceInv, Untouched
<1>1. ASSUME NEW c \in Callers, Preview(c) \/ Commit(c) \/ Lock(c) \/ EndContext(c)
      PROVE  DeviceNow'
  BY <1>0, <1>1, CallerDevice
<1>2. ASSUME NEW c \in Procs, Work(c) PROVE DeviceNow'
  BY <1>0, <1>2, CreateOperationDevice, EarlyDevice, ApplyRuntimeDevice, ExchangedDevice,
     CompletedDevice, FinalizedDevice, RollbackBeginDevice, RollbackRuntimeDevice,
     RollbackFileDevice, RollbackEndDevice
     DEF Work
<1>3. CASE RecoverNext \/ RecoverManual  BY <1>0, <1>3, RecoveryDevice
<1>4. CASE Scan \/ ReplaceInventory \/ Start \/ RecoverEnd \/ Crash \/ Edit \/ UNCHANGED vars
  BY <1>0, <1>4, OutsideDevice
<1>5. CASE Toggle
  BY <1>0, <1>5 DEF Toggle, Untouched
<1>. QED  BY <1>1, <1>2, <1>3, <1>4, <1>5 DEF Next

LEMMA InitDevice == Init => DeviceInv
<1>. SUFFICES ASSUME Init, run.up PROVE DeviceNow  BY DEF DeviceInv, Untouched
<1>1. run.peers = file.peers /\ applied.file = file /\ call = [c \in Procs |-> Idle]
  BY DEF Init, Down
<1>. QED  BY <1>1 DEF DeviceNow, DeviceKnown, DeviceCall, Removed, Idle

\* Between operations a running device that nobody else has touched shows what the
\* database says of every peer, whatever is in the file: what a failed commit or a crash
\* left on it has been taken off and what was completed is there, unless an operation is
\* known to have passed over it (ApplyPeer, RemovePeer and their rollbacks).
THEOREM RuntimeAgreesBetweenOperations == Spec => []RuntimeAgrees
<1>1. Base /\ DeviceInv /\ [Next]_vars => DeviceInv'  BY NextDevice
<1>2. Base /\ DeviceInv => RuntimeAgrees
  <2>. SUFFICES ASSUME Base, DeviceInv, Quiet, Untouched, NEW p \in Peers
                PROVE  run.peers[p] = Wanted(p)
    BY DEF RuntimeAgrees, Untouched
  <2>1. NoUndone  BY DEF Quiet, NoUndone
  <2>2. ASSUME NEW o \in Ops, Owns(o, p) PROVE FALSE
    BY <2>2 DEF Quiet, Owns, Changed, Active
  <2>3. run.peers[p] = applied.file.peers[p]
    BY <2>1, <2>2 DEF DeviceInv, DeviceNow, DeviceKnown
  <2>4. PeerOK(p)  BY DEF Base, RowsInv
  <2>. QED  BY <2>3, <2>4 DEF PeerOK, Wanted
<1>. QED  BY <1>1, <1>2, InitDevice, BaseInvariance, PTL DEF Spec

-----------------------------------------------------------------------------
(* The changes that requests, crashes and recoveries add up to. *)

\* What was asked for stays, of the operation and of all others
SameRequest(o) ==
  /\ ops'[o].type = ops[o].type /\ ops'[o].peer = ops[o].peer /\ ops'[o].spec = ops[o].spec
  /\ ops'[o].exp = ops[o].exp

\* One operation gets a new state, without being completed.
Advances(o) ==
  /\ \A q \in Ops \ {o} : ops'[q] = ops[q]
  /\ SameRequest(o) /\ ops'[o].revs = ops[o].revs
  /\ \/ ops'[o].state = ops[o].state
     \/ <<ops[o].state, ops'[o].state>> \in Moves \cup {<<"verifying", "committed">>}

LEMMA StepAdvances ==
  ASSUME NEW o \in Ops, NEW from, NEW to, Steps(o, from, to),
         <<from, to>> \in Moves \cup {<<"verifying", "committed">>}
  PROVE  ops' = ops \/ Advances(o)
BY DEF Steps, Relabels, SameRow, SameRequest, Advances

LEMMA WorkAdvances ==
  ASSUME IInv, NEW c \in Procs, Work(c), ~CreateOperation(c), ~(Complete(c) /\ ops' # ops)
  PROVE  ops' = ops \/ Advances(call[c].op)
<1>0. PICK o : o = call[c].op  OBVIOUS
<1>1. o \in Ops
  <2>1. call[c].pc \notin {"idle", "plan"}
    BY DEF Work, CommitPreflight, Validate, Prepare, Begin, ApplyRuntime, Exchange,
         VerifyRuntime, Complete, Finalize, RollbackBegin, RollbackRuntime, RollbackFile,
         RollbackEnd
  <2>. QED  BY <1>0, <2>1 DEF IInv, CallInv
<1>2. CASE Prepare(c)
  <2>1. \/ Steps(o, "validated", "rejected")
        \/ /\ \A q \in Ops \ {o} : ops'[q] = ops[q]
           /\ ops[o].state = "validated" /\ ops'[o].state = "snapshotted"
           /\ SameRequest(o) /\ ops'[o].revs = ops[o].revs
    BY <1>0, <1>2, PrepareDoes DEF SameRequest
  <2>2. CASE Steps(o, "validated", "rejected")
    <3>1. PICK from, to : from = "validated" /\ to = "rejected"  OBVIOUS
    <3>2. <<from, to>> \in Moves  BY <3>1 DEF Moves
    <3>. QED  BY <1>0, <1>1, <2>2, <3>1, <3>2, StepAdvances
  <2>. QED  BY <1>0, <2>1, <2>2 DEF Advances, Moves
<1>3. CASE Validate(c) \/ Begin(c) \/ Finalize(c) \/ RollbackBegin(c) \/ RollbackEnd(c)
  <2>1. PICK from, to : /\ <<from, to>> \in Moves \cup {<<"verifying", "committed">>}
                        /\ Steps(o, from, to)
    <3>1. CASE Validate(c)
      <4>1. PICK from, to : from = "pending" /\ to = "validated"  OBVIOUS
      <4>. QED  BY <1>0, <3>1, <4>1, ValidateDoes DEF Moves
    <3>2. CASE Begin(c)
      <4>1. PICK from, to : from = "snapshotted" /\ to = "executing"  OBVIOUS
      <4>. QED  BY <1>0, <3>2, <4>1, BeginDoes DEF Moves
    <3>3. CASE Finalize(c)
      <4>1. PICK from, to : from = "verifying" /\ to = "committed"  OBVIOUS
      <4>. QED  BY <1>0, <3>3, <4>1, FinalizeDoes
    <3>4. CASE RollbackBegin(c)
      <4>1. PICK from, to : /\ from = IF ops[o].state = "snapshotted" THEN "snapshotted" ELSE "executing"
                            /\ to = "rolling_back"
        OBVIOUS
      <4>2. <<from, to>> \in Moves  BY <4>1 DEF Moves
      <4>3. Steps(o, from, to)  BY <1>0, <3>4, <4>1, RollbackBeginDoes DEF Steps
      <4>. QED  BY <4>2, <4>3
    <3>5. CASE RollbackEnd(c)
      <4>1. PICK from, to : from = "rolling_back" /\ to = RollbackOutcome(c)  OBVIOUS
      <4>2. <<from, to>> \in Moves  BY <4>1 DEF Moves, RollbackOutcome
      <4>3. Steps(o, from, to)  BY <1>0, <3>5, <4>1, RollbackEndDoes
      <4>. QED  BY <4>2, <4>3
    <3>. QED  BY <1>3, <3>1, <3>2, <3>3, <3>4, <3>5
  <2>. QED  BY <1>0, <1>1, <2>1, StepAdvances
<1>4. CASE \/ CommitPreflight(c) \/ ApplyRuntime(c) \/ Exchange(c) \/ VerifyRuntime(c)
           \/ RollbackRuntime(c) \/ RollbackFile(c)
  BY <1>4 DEF CommitPreflight, ApplyRuntime, Exchange, VerifyRuntime, RollbackRuntime,
       RollbackFile, database
<1>. QED  BY <1>2, <1>3, <1>4 DEF Work

\* A refresh writes no revision.
LEMMA PersistedRev ==
  ASSUME TypeOK, NEW s, dbi' = Persisted(s)
  PROVE  dbi'.rev = dbi.rev
BY DEF TypeOK, Persisted

\* All that the database sees of a step
LEMMA NextWrites ==
  ASSUME IInv, [Next]_vars
  PROVE  \/ \E c \in Procs : Complete(c) /\ ops' # ops
         \/ /\ peer' = peer /\ applied' = applied /\ dbi'.rev = dbi.rev
            /\ \/ ops' = ops
               \/ \E c \in Procs : CreateOperation(c)
               \/ \E o \in Ops : Advances(o)
<1>1. ASSUME NEW c \in Callers, Preview(c) \/ Commit(c) \/ Lock(c) \/ EndContext(c)
      PROVE  UNCHANGED database
  BY <1>1, PreviewDoes, CommitDoes, LockDoes, EndContextDoes DEF database
<1>2. CASE \E c \in Procs : Work(c) /\ ~(Complete(c) /\ ops' # ops)
  <2>1. PICK c \in Procs : Work(c) /\ ~(Complete(c) /\ ops' # ops)  BY <1>2
  <2>2. CASE CreateOperation(c)  BY <2>2 DEF CreateOperation
  <2>3. CASE ~CreateOperation(c)
    <3>1. dbi' = dbi /\ peer' = peer /\ applied' = applied
      BY <2>1, <2>3, CompleteDoes DEF Work, CommitPreflight, Validate, Prepare, Begin, ApplyRuntime,
           Exchange, VerifyRuntime, Finalize, RollbackBegin, RollbackRuntime, RollbackFile,
           RollbackEnd, database
    <3>2. ops' = ops \/ \E o \in Ops : Advances(o)
      <4>1. CASE call[c].op \in Ops  BY <2>1, <2>3, <4>1, WorkAdvances
      <4>2. CASE call[c].op \notin Ops
        <5>1. call[c].pc \in {"idle", "plan"}  BY <4>2 DEF IInv, CallInv
        <5>. QED  BY <2>1, <2>3, <5>1 DEF Work, CommitPreflight, Validate, Prepare, Begin,
                  ApplyRuntime, Exchange, VerifyRuntime, Complete, Finalize, RollbackBegin,
                  RollbackRuntime, RollbackFile, RollbackEnd
      <4>. QED  BY <4>1, <4>2
    <3>. QED  BY <3>1, <3>2
  <2>. QED  BY <2>2, <2>3
<1>3. CASE RecoverNext
  <2>1. dbi' = dbi /\ peer' = peer /\ applied' = applied  BY <1>3 DEF RecoverNext
  <2>2. CASE \E o \in Ops : Relabels(o, RecoveredState(o))
    <3>1. PICK o \in Ops : Relabels(o, RecoveredState(o))  BY <2>2
    <3>2. PICK from, to : from = ops[o].state /\ to = RecoveredState(o)  OBVIOUS
    <3>3. from = to \/ <<from, to>> \in Moves \cup {<<"verifying", "committed">>}
      BY <3>2 DEF RecoveredState, Moves
    <3>4. Advances(o)
      BY <3>1, <3>2, <3>3 DEF Advances, Relabels, SameRow, SameRequest
    <3>. QED  BY <2>1, <3>4
  <2>. QED  BY <1>3, <2>1, <2>2, RecoverNextDoes
<1>4. CASE RecoverManual
  <2>1. dbi' = dbi /\ peer' = peer /\ applied' = applied  BY <1>4 DEF RecoverManual
  <2>2. call[Boot].op \in Ops  BY <1>4 DEF IInv, CallInv, RecoverManual, Procs
  <2>3. PICK from, to : from = "rolling_back" /\ to = "rollback_failed"  OBVIOUS
  <2>4. <<from, to>> \in Moves /\ Steps(call[Boot].op, from, to)
    BY <1>4, <2>3, RecoverManualDoes DEF Moves
  <2>. QED  BY <2>1, <2>2, <2>4, StepAdvances
<1>5. CASE ReplaceInventory \/ Start
  <2>1. ops' = ops /\ peer' = peer /\ applied' = applied
        /\ (dbi' = dbi \/ \E s : dbi' = Persisted(s))
    BY <1>5 DEF ReplaceInventory, Start
  <2>. QED  BY <2>1, PersistedRev DEF IInv
<1>6. CASE Scan \/ RecoverEnd \/ Crash \/ Edit \/ Toggle \/ UNCHANGED vars
  BY <1>6 DEF Scan, RecoverEnd, Crash, Edit, Toggle, database, vars
<1>7. CASE UNCHANGED database  BY <1>7 DEF database
<1>. QED  BY <1>1, <1>2, <1>3, <1>4, <1>5, <1>6, <1>7 DEF Next, Work

\* What was asked for is of a revision there has been; and nobody asks to enable, of
\* the current one, a peer that is not disabled.
AskedOK(r) ==
  /\ r.exp <= dbi.rev
  /\ r.type = "enable" /\ r.exp = dbi.rev => peer[r.peer].life = "disabled"
LedgerInv ==
  /\ \A o \in Ops : AskedOK(ops[o])
  /\ \A c \in Procs : call[c].pc = "plan" => AskedOK(call[c].plan)

LEMMA PreviewAsks ==
  ASSUME IInv, NEW c \in Callers, Preview(c)
  PROVE  AskedOK(call'[c].plan)
<1>1. TypeOK /\ c \in Procs  BY DEF IInv, Procs
<1>2. PICK t, p, s : /\ Plan(c, t, p, s)
                     /\ t = "enable" => peer[p].life = "disabled"
  BY DEF Preview, PreviewCreatePeer, PreviewUpdatePeer, PreviewPeerLifecycle,
         PreflightPeerLifecycle
<1>3. PICK a \in Actors :
        call' = [call EXCEPT ![c] = [Idle EXCEPT
          !.pc = "plan",
          !.plan = [NoOp EXCEPT !.state = "pending", !.type = t, !.peer = p, !.spec = s,
                                !.actor = a, !.exp = dbi.rev, !.orig = dbi.file]]]
  BY <1>2 DEF Plan
<1>. DEFINE n == [NoOp EXCEPT !.state = "pending", !.type = t, !.peer = p, !.spec = s,
                              !.actor = a, !.exp = dbi.rev, !.orig = dbi.file]
            r == [Idle EXCEPT !.pc = "plan", !.plan = n]
<1>4. n.type = t /\ n.peer = p /\ n.exp = dbi.rev  BY DEF NoOp
<1>. HIDE DEF n
<1>5. r.plan = n  BY DEF Idle
<1>6. call' = [call EXCEPT ![c] = r]  BY <1>3 DEF n
<1>. HIDE DEF r
<1>7. call'[c] = r  BY <1>1, <1>6 DEF TypeOK
<1>8. dbi.rev \in Nat  BY <1>1 DEF TypeOK
<1>. QED  BY <1>2, <1>4, <1>5, <1>7, <1>8 DEF AskedOK

\* A plan is what its preview made it.
LEMMA PlansStay ==
  ASSUME IInv, [Next]_vars, NEW d \in Procs, call'[d].pc = "plan"
  PROVE  \/ call[d].pc = "plan" /\ call'[d].plan = call[d].plan
         \/ d \in Callers /\ Preview(d)
<1>1. ASSUME NEW c \in Callers, Preview(c) \/ Commit(c) \/ Lock(c) \/ EndContext(c), c # d
      PROVE  call'[d] = call[d]
  BY <1>1, PreviewDoes, CommitDoes, LockDoes, EndContextDoes DEF Others, To
<1>2. ASSUME d \in Callers, Commit(d) \/ Lock(d)
      PROVE  FALSE
  BY <1>2, CommitDoes, LockDoes DEF To
<1>3. CASE d \in Callers /\ EndContext(d)
  BY <1>3, EndContextDoes DEF To
<1>4. ASSUME NEW c \in Procs, Work(c)
      PROVE  call'[d] = call[d]
  <2>1. Others(c) /\ call'[c].pc \in Held \cup {"idle"}
    BY <1>4, WorkPlaces DEF Releases, Left
  <2>. QED  BY <2>1 DEF Others, Held
<1>5. CASE RecoverNext
  <2>1. call' = call \/ (Others(Boot) /\ call'[Boot].pc \in {"idle", "manual", "rb_begin"})
    BY <1>5, RecoverNextDoes
  <2>. QED  BY <2>1 DEF Others
<1>6. CASE RecoverManual
  BY <1>6, RecoverManualDoes DEF Releases, Left, Others
<1>7. CASE Scan \/ ReplaceInventory \/ Start \/ RecoverEnd \/ Edit \/ Toggle \/ UNCHANGED vars
  BY <1>7 DEF Scan, ReplaceInventory, Start, RecoverEnd, Edit, Toggle, vars
<1>8. CASE Crash
  BY <1>8 DEF Crash, Idle
<1>. QED  BY <1>1, <1>2, <1>3, <1>4, <1>5, <1>6, <1>7, <1>8 DEF Next

\* Only a completion makes a revision, a new one.
LEMMA RevGrows ==
  ASSUME IInv, [Next]_vars
  PROVE  (peer' = peer /\ dbi'.rev = dbi.rev) \/ dbi'.rev = dbi.rev + 1
<1>1. ASSUME NEW c \in Procs, Complete(c), ops' # ops
      PROVE  dbi'.rev = dbi.rev + 1
  BY <1>1, CompleteDoes DEF database
<1>. QED  BY <1>1, NextWrites

\* So what is asked for once stays in order.
LEMMA StillAsked ==
  ASSUME IInv, [Next]_vars, NEW r, NEW s, AskedOK(r), r.exp \in Nat,
         s.type = r.type, s.peer = r.peer, s.exp = r.exp
  PROVE  AskedOK(s)'
<1>1. dbi.rev \in Nat  BY DEF IInv, TypeOK
<1>. QED  BY <1>1, RevGrows DEF AskedOK

LEMMA NextLedger == IInv /\ IInv' /\ LedgerInv /\ [Next]_vars => LedgerInv'
<1>. SUFFICES ASSUME IInv, IInv', LedgerInv, [Next]_vars PROVE LedgerInv'  OBVIOUS
<1>1. ASSUME NEW o \in Ops PROVE AskedOK(ops[o])'
  <2>1. CASE ops'[o].type = ops[o].type /\ ops'[o].peer = ops[o].peer /\ ops'[o].exp = ops[o].exp
    <3>1. AskedOK(ops[o]) /\ ops[o].exp \in Nat  BY DEF LedgerInv, IInv, TypeOK, OpRecords
    <3>. QED  BY <2>1, <3>1, StillAsked
  <2>2. ASSUME NEW c \in Procs, CreateOperation(c), ops'[o] = call[c].plan
        PROVE  AskedOK(ops[o])'
    <3>1. AskedOK(call[c].plan) /\ call[c].plan.exp \in Nat
      BY <2>2 DEF CreateOperation, LedgerInv, IInv, TypeOK, CallRecords, OpRecords
    <3>. QED  BY <2>2, <3>1, StillAsked
  <2>3. ASSUME NEW c \in Procs, Complete(c), ops' # ops
        PROVE  ops'[o].type = ops[o].type /\ ops'[o].peer = ops[o].peer /\ ops'[o].exp = ops[o].exp
    BY <2>3, CompleteDoes DEF database
  <2>4. CASE \E c \in Procs : CreateOperation(c)
    BY <2>1, <2>2, <2>4, CreateOperationDoes DEF SameRow
  <2>. QED  BY <2>1, <2>3, <2>4, NextWrites DEF Advances, SameRequest
<1>2. ASSUME NEW c \in Procs, call'[c].pc = "plan" PROVE AskedOK(call[c].plan)'
  <2>1. CASE call[c].pc = "plan" /\ call'[c].plan = call[c].plan
    <3>1. AskedOK(call[c].plan) /\ call[c].plan.exp \in Nat
      BY <2>1 DEF LedgerInv, IInv, TypeOK, CallRecords, OpRecords
    <3>. QED  BY <2>1, <3>1, StillAsked
  <2>2. CASE c \in Callers /\ Preview(c)
    <3>1. AskedOK(call'[c].plan)  BY <2>2, PreviewAsks
    <3>2. dbi' = dbi /\ peer' = peer  BY <2>2, PreviewDoes DEF database
    <3>. QED  BY <3>1, <3>2 DEF AskedOK
  <2>. QED  BY <1>2, <2>1, <2>2, PlansStay
<1>. QED  BY <1>1, <1>2 DEF LedgerInv

\* How far a step of the journal takes an operation
LEMMA AdvancesStage ==
  ASSUME NEW o \in Ops, Ledger(ops[o]), Advances(o)
  PROVE  \/ Stage(ops'[o]) = Stage(ops[o])
         \/ Stage(ops[o]) = "asked" /\ Stage(ops'[o]) \in {"begun", "dropped"}
         \/ Stage(ops[o]) = "begun" /\ Stage(ops'[o]) = "dropped"
         \/ Stage(ops[o]) = "applied" /\ Stage(ops'[o]) \in {"audited", "disowned"}
<1>1. CASE ops'[o].state = ops[o].state
  BY <1>1 DEF Advances, Stage
<1>2. CASE <<ops[o].state, ops'[o].state>> \in Moves \cup {<<"verifying", "committed">>}
  <2>1. PICK s, t, n : s = ops[o].state /\ t = ops'[o].state /\ n = ops[o].revs  OBVIOUS
  <2>2. n = ops'[o].revs  BY <2>1 DEF Advances
  <2>3. /\ s \in {"pending", "validated", "snapshotted", "executing"} => n = 0
        /\ s = "verifying" => n = 1
        /\ n \in {0, 1}
    BY <2>1 DEF Ledger
  <2>4. <<s, t>> \in Moves \cup {<<"verifying", "committed">>}  BY <1>2, <2>1
  <2>. QED  BY <2>1, <2>2, <2>3, <2>4 DEF Stage, Moves
<1>. QED  BY <1>1, <1>2 DEF Advances

LEMMA AdvancesPass ==
  ASSUME IInv, NEW o \in Ops, Advances(o), peer' = peer, applied' = applied, dbi'.rev = dbi.rev
  PROVE  Promise!Next \/ UNCHANGED Promise!vars
<1>1. Ledger(ops[o])  BY DEF IInv, JournalInv
<1>2. \A q \in Ops : Request(ops'[q]) = Request(ops[q])
  BY DEF Advances, SameRequest, Request
<1>3. [q \in Ops |-> Request(ops'[q])] = [q \in Ops |-> Request(ops[q])]
  BY <1>2
<1>. DEFINE st == [q \in Ops |-> Stage(ops[q])]
            to == Stage(ops'[o])
<1>4. [q \in Ops |-> Stage(ops'[q])] = [st EXCEPT ![o] = to]
  BY DEF Advances
<1>5. st[o] = Stage(ops[o])  OBVIOUS
<1>6. CASE to = Stage(ops[o])
  <2>1. [q \in Ops |-> Stage(ops'[q])] = st  BY <1>4, <1>5, <1>6
  <2>. QED  BY <1>3, <2>1 DEF Promise!vars
<1>7. CASE to # Stage(ops[o])
  <2>1. \/ Promise!Goes(o, {"asked"}, "begun")
        \/ Promise!Goes(o, {"asked", "begun"}, "dropped")
        \/ Promise!Goes(o, {"applied"}, "audited")
        \/ Promise!Goes(o, {"applied"}, "disowned")
    BY <1>1, <1>4, <1>5, <1>7, AdvancesStage DEF Promise!Goes
  <2>2. Promise!Pass(o)
    BY <1>3, <2>1 DEF Promise!Pass
  <2>3. [q \in Ops |-> Stage(ops'[q])][o] # st[o]
    BY <1>7
  <2>. QED  BY <2>2, <2>3 DEF Promise!Next
<1>. QED  BY <1>6, <1>7

\* Among free rows one is the first.
LEMMA FirstFree ==
  ASSUME NEW F \in SUBSET Ops, F # {}
  PROVE  \E o \in F : \A q \in F : o <= q
<1>. DEFINE R == OpToRel(<, Nat)
<1>0. F \in SUBSET Nat  BY BoundsAssumption DEF Ops
<1>1. IsWellFoundedOn(R, Nat)  BY NatLessThanWellFounded, Zenon
<1>2. \A a, b \in Nat : a < b => <<a, b>> \in R  BY DEF OpToRel
<1>. HIDE DEF R
<1>3. PICK o \in F : \A q \in F : ~(<<q, o>> \in R)  BY <1>0, <1>1, WFMin
<1>4. \A q \in F : ~(q < o)  BY <1>0, <1>2, <1>3, Zenon
<1>5. \A q \in F : o <= q  BY <1>0, <1>4
<1>. QED  BY <1>5

\* The transaction that stores a preview asks, for one operation alone.
LEMMA CreateAsks ==
  ASSUME IInv, LedgerInv, NEW c \in Procs, CreateOperation(c)
  PROVE  Promise!Next \/ UNCHANGED Promise!vars
<1>. DEFINE new == call[c].plan
            free == {o \in Ops : ops[o].state = "none"}
            st == [q \in Ops |-> Stage(ops[q])]
            req == [q \in Ops |-> Request(ops[q])]
<1>1. peer' = peer /\ applied' = applied /\ dbi' = dbi  BY DEF CreateOperation
<1>2. CASE ops' = ops
  BY <1>1, <1>2 DEF Promise!vars
<1>3. CASE ops' # ops
  <2>1. /\ free # {} /\ \A q \in Ops : ~InProgress(q, new)
        /\ ops' = [o \in Ops |-> IF Superseded(o, new) THEN [ops[o] EXCEPT !.state = "expired"]
                                 ELSE IF o \in free /\ \A q \in free : o <= q THEN new
                                 ELSE ops[o]]
    BY <1>3 DEF CreateOperation
  <2>2. free \in SUBSET Ops  OBVIOUS
  <2>3. PICK o \in free : \A q \in free : o <= q
    BY <2>1, <2>2, FirstFree
  <2>4. \A q \in free : q # o => ~(q <= o)
    BY <2>3, BoundsAssumption DEF Ops
  <2>5. o \in Ops /\ ops[o].state = "none"  BY <2>3
  <2>6. /\ new \in OpRecords /\ new.state = "pending" /\ AskedOK(new)
        /\ \A q \in Ops : ops[q] \in OpRecords
    BY DEF CreateOperation, IInv, TypeOK, CallInv, LedgerInv, CallRecords
  <2>. HIDE DEF new, free
  <2>7. ops'[o] = new
    BY <2>1, <2>3, <2>5 DEF Superseded
  <2>8. ASSUME NEW q \in Ops, q # o
        PROVE  IF ops[q].state = "pending" THEN ops'[q] = [ops[q] EXCEPT !.state = "expired"]
               ELSE ops'[q] = ops[q]
    <3>1. CASE ops[q].state = "pending"
      <4>1. Superseded(q, new)  BY <2>1, <3>1 DEF InProgress, Active
      <4>. QED  BY <2>1, <3>1, <4>1
    <3>2. CASE ops[q].state # "pending"
      <4>1. ~Superseded(q, new)  BY <3>2 DEF Superseded
      <4>2. ~(q \in free /\ \A p \in free : q <= p)  BY <2>3, <2>4, <2>8
      <4>. QED  BY <2>1, <3>2, <4>1, <4>2
    <3>. QED  BY <3>1, <3>2
  <2>9. st[o] = "none"  BY <2>5 DEF Stage
  <2>10. ASSUME NEW q \in Ops PROVE st[q] \notin {"begun", "applied"}
    <3>1. ops[q].state \in Active => ops[q].state = "pending"
      BY <2>1 DEF InProgress, Superseded
    <3>2. ops[q].state \in States  BY <2>6 DEF OpRecords
    <3>. QED  BY <3>1, <3>2 DEF Stage, States, Active
  <2>11. ASSUME NEW q \in Ops
         PROVE  Stage(ops'[q]) = IF q = o THEN "asked"
                                 ELSE IF st[q] = "asked" THEN "dropped"
                                 ELSE st[q]
    <3>1. CASE q = o  BY <2>6, <2>7, <3>1 DEF Stage
    <3>2. CASE q # o /\ ops[q].state = "pending"
      <4>1. ops'[q].state = "expired"  BY <2>6, <2>8, <3>2 DEF OpRecords
      <4>. QED  BY <3>2, <4>1 DEF Stage
    <3>3. CASE q # o /\ ops[q].state # "pending"
      <4>1. ops'[q] = ops[q]  BY <2>8, <3>3
      <4>2. st[q] # "asked"  BY <3>3 DEF Stage
      <4>. QED  BY <3>3, <4>1, <4>2
    <3>. QED  BY <3>1, <3>2, <3>3
  <2>12. ASSUME NEW q \in Ops, q # o PROVE Request(ops'[q]) = Request(ops[q])
    <3>1. CASE ops'[q] = ops[q]  BY <3>1
    <3>2. CASE ops'[q] = [ops[q] EXCEPT !.state = "expired"]
      BY <2>6, <3>2 DEF Request, OpRecords
    <3>. QED  BY <2>8, <2>12, <3>1, <3>2
  <2>13. Request(new) \in Promise!Requests(0..dbi.rev)
    <3>1. dbi.rev \in Nat  BY DEF IInv, TypeOK
    <3>2. /\ new.type \in AllTypes /\ new.peer \in Peers /\ new.spec \in Specs \cup {0}
          /\ new.exp \in 0..dbi.rev
      BY <2>6, <3>1 DEF OpRecords, AskedOK
    <3>. QED  BY <3>2 DEF Request, Promise!Requests, AllTypes
  <2>14. [q \in Ops |-> Request(ops'[q])] = [req EXCEPT ![o] = Request(new)]
    BY <2>5, <2>7, <2>12
  <2>15. [q \in Ops |-> Stage(ops'[q])] =
           [q \in Ops |-> IF q = o THEN "asked" ELSE IF st[q] = "asked" THEN "dropped" ELSE st[q]]
    BY <2>11
  <2>16. Promise!Ask(o)
    BY <1>1, <2>9, <2>10, <2>13, <2>14, <2>15 DEF Promise!Ask
  <2>17. [q \in Ops |-> Stage(ops'[q])][o] # st[o]
    BY <2>5, <2>9, <2>11
  <2>. QED  BY <2>5, <2>16, <2>17 DEF Promise!Next
<1>. QED  BY <1>2, <1>3

\* What a completion finds is what its preview saw: the peer may be changed as asked,
\* and its archive is what was in force.
LEMMA CompleteApplicable ==
  ASSUME Base, LedgerInv, NEW c \in Procs, call[c].op \in Ops, Completable(c), SnapOK(call[c].op)
  PROVE  /\ Promise!Applicable(Request(Op(c)))
         /\ CompletedPeer(peer[Op(c).peer], Op(c)) =
              Promise!Changed(peer[Op(c).peer], Request(Op(c)))
<1>. DEFINE r == Op(c)
            a == Request(r)
<1>0. PICK p : p = Op(c).peer  OBVIOUS
<1>1. r = ops[call[c].op] /\ r \in OpRecords /\ p \in Peers /\ p = r.peer
  BY <1>0 DEF Base, IInv, TypeOK, OpRecords, Op
<1>2. a.type = r.type /\ a.peer = p /\ a.spec = r.spec /\ a.base = r.exp
  BY <1>1 DEF Request
<1>3. PeerOK(p) /\ peer[p] \in PeerRows  BY <1>1 DEF Base, IInv, RowsInv, TypeOK
<1>4. dbi.rev = r.exp /\ r.snapO = applied.file /\ Patchable(r, applied.file)
  BY <1>1 DEF Completable, SnapOK
<1>5. AskedOK(r)  BY <1>1 DEF LedgerInv
<1>6. CASE r.type = "create"
  <2>1. peer[p].life = "none"  BY <1>1, <1>6 DEF Completable
  <2>2. Promise!Applicable(a)  BY <1>2, <1>6, <2>1 DEF Promise!Applicable
  <2>3. CompletedPeer(peer[p], r) = Promise!Changed(peer[p], a)
    BY <1>2, <1>6 DEF CompletedPeer, PeerCreated, Promise!Changed
  <2>. QED  BY <1>0, <2>2, <2>3
<1>7. CASE r.type = "update"
  <2>1. peer[p].life = "active"  BY <1>1, <1>7 DEF Completable
  <2>2. Promise!Applicable(a)  BY <1>2, <1>7, <2>1 DEF Promise!Applicable
  <2>3. CompletedPeer(peer[p], r) = Promise!Changed(peer[p], a)
    BY <1>2, <1>7 DEF CompletedPeer, PeerUpdated, Promise!Changed
  <2>. QED  BY <1>0, <2>2, <2>3
<1>8. CASE r.type = "enable"
  <2>1. peer[p].life = "disabled"  BY <1>1, <1>4, <1>5, <1>8 DEF AskedOK
  <2>2. Promise!Applicable(a)  BY <1>2, <1>8, <2>1 DEF Promise!Applicable
  <2>3. CompletedPeer(peer[p], r) = Promise!Changed(peer[p], a)
    BY <1>2, <1>8 DEF CompletedPeer, PeerMoved, LifecycleTarget, Promise!Changed
  <2>. QED  BY <1>0, <2>2, <2>3
<1>9. CASE r.type \in {"disable", "revoke"}
  <2>1. applied.file.peers[p] # 0  BY <1>1, <1>4, <1>9 DEF Patchable
  <2>2. peer[p].life = "active" /\ applied.file.peers[p] = peer[p].spec
    BY <1>3, <2>1 DEF PeerOK
  <2>3. Promise!Applicable(a)
    BY <1>2, <1>9, <2>2 DEF Promise!Applicable
  <2>4. r.snapO.peers[r.peer] = peer[p].spec  BY <1>1, <1>4, <2>2
  <2>5. CompletedPeer(peer[p], r) = Promise!Changed(peer[p], a)
    BY <1>2, <1>9, <2>4 DEF CompletedPeer, PeerMoved, LifecycleTarget, Promise!Changed
  <2>. QED  BY <1>0, <2>3, <2>5
<1>. QED  BY <1>1, <1>6, <1>7, <1>8, <1>9 DEF OpRecords, AllTypes

\* The transaction that completes an operation applies it.
LEMMA CompleteApplies ==
  ASSUME Base, Base', LedgerInv, NEW c \in Procs, Complete(c), ops' # ops
  PROVE  Promise!Next
<1>0. PICK o : o = call[c].op  OBVIOUS
<1>1. IInv /\ TypeOK' /\ o \in Ops /\ Op(c) = ops[o]
  BY <1>0 DEF Base, IInv, CallInv, Complete, Op
<1>2. /\ Completable(c)
      /\ peer' = [peer EXCEPT ![ops[o].peer] = CompletedPeer(@, ops[o])]
      /\ dbi'.rev = dbi.rev + 1
      /\ \A q \in Ops \ {o} : ops'[q] = ops[q]
      /\ ops[o].state = "executing" /\ ops'[o].state = "verifying"
      /\ ops'[o].revs = ops[o].revs + 1 /\ SameRequest(o)
  BY <1>0, <1>1, CompleteDoes DEF database, SameRequest
<1>3. ops[o].revs = 0  BY <1>1, <1>2 DEF IInv, JournalInv, Ledger
<1>4. SnapOK(o)  BY <1>1, <1>2, <1>3 DEF Base, RowsInv, OpOK, Begun
<1>. DEFINE st == [q \in Ops |-> Stage(ops[q])]
            req == [q \in Ops |-> Request(ops[q])]
<1>5. Promise!Applicable(req[o])
      /\ CompletedPeer(peer[ops[o].peer], ops[o]) = Promise!Changed(peer[ops[o].peer], req[o])
  BY <1>0, <1>1, <1>2, <1>4, CompleteApplicable
<1>6. [q \in Ops |-> Request(ops'[q])] = req
  BY <1>2 DEF SameRequest, Request
<1>7. Stage(ops[o]) = "begun"  BY <1>2, <1>3 DEF Stage
<1>8. Stage(ops'[o]) = "applied"  BY <1>2, <1>3 DEF Stage
<1>9. Promise!Goes(o, {"begun"}, "applied")
  <2>1. [q \in Ops |-> Stage(ops'[q])] = [st EXCEPT ![o] = "applied"]
    BY <1>2, <1>8
  <2>. QED  BY <1>1, <1>7, <2>1 DEF Promise!Goes
<1>10. req[o].base = dbi.rev /\ req[o].peer = ops[o].peer
  BY <1>1, <1>2 DEF Completable, Request
<1>11. peer' = [peer EXCEPT ![req[o].peer] = Promise!Changed(@, req[o])]
  <2>1. PICK n : n = Promise!Changed(peer[ops[o].peer], req[o])  OBVIOUS
  <2>2. peer' = [peer EXCEPT ![ops[o].peer] = n]  BY <1>2, <1>5, <2>1
  <2>. QED  BY <1>10, <2>1, <2>2
<1>12. applied'.file.peers = Promise!InForce(peer')
  <2>1. applied'.file.peers \in PeerMap  BY <1>1 DEF TypeOK, Hashes
  <2>2. \A p \in Peers : applied'.file.peers[p] = IF peer'[p].life = "active" THEN peer'[p].spec ELSE 0
    BY DEF Base, RowsInv, PeerOK
  <2>. QED  BY <2>1, <2>2 DEF PeerMap, Promise!InForce
<1>13. Promise!Apply(o)
  BY <1>2, <1>5, <1>6, <1>9, <1>10, <1>11, <1>12 DEF Promise!Apply
<1>14. [q \in Ops |-> Stage(ops'[q])][o] # st[o]
  BY <1>1, <1>7, <1>8
<1>. QED  BY <1>1, <1>13, <1>14 DEF Promise!Next

LEMMA LedgerInit == Init => Promise!Init /\ LedgerInv
<1>. SUFFICES ASSUME Init PROVE Promise!Init /\ LedgerInv  OBVIOUS
<1>1. ops = [o \in Ops |-> NoOp] /\ dbi.rev = 0 /\ applied.file = file  BY DEF Init
<1>2. TypeOK /\ RowsInv  BY InitType, InitRows
<1>3. \A p \in Peers : peer[p].life \in {"none", "active"} /\ peer[p].archive = 0
  BY DEF Init
<1>4. applied.file.peers = Promise!InForce(peer)
  <2>1. applied.file.peers \in PeerMap  BY <1>2 DEF TypeOK, Hashes
  <2>2. \A p \in Peers : applied.file.peers[p] = IF peer[p].life = "active" THEN peer[p].spec ELSE 0
    BY <1>2 DEF RowsInv, PeerOK
  <2>. QED  BY <2>1, <2>2 DEF PeerMap, Promise!InForce
<1>5. [o \in Ops |-> Stage(ops[o])] = [o \in Ops |-> "none"]
  BY <1>1 DEF Stage, NoOp
<1>6. [o \in Ops |-> Request(ops[o])] \in [Ops -> Promise!Requests(Nat)]
  BY <1>2 DEF TypeOK, OpRecords, AllTypes, Request, Promise!Requests
<1>7. \A o \in Ops : AskedOK(ops[o])  BY <1>1 DEF NoOp, AskedOK
<1>8. \A c \in Procs : call[c].pc # "plan"  BY DEF Init, Idle
<1>. QED  BY <1>1, <1>3, <1>4, <1>5, <1>6, <1>7, <1>8 DEF Promise!Init, LedgerInv

\* For any number of peers, callers, operations, edits and failures, the database shows
\* one change after another: each applied once and wholly, to the revision that its
\* preview saw, beside no other, with the archive and the recorded configuration that
\* the rows ask for (CreateOperation, Complete*, Finalize, the recovery).
THEOREM ChangesAreSerial == Spec => IsLedger
<1>1. Base /\ LedgerInv /\ Base' /\ [Next]_vars => [Promise!Next]_(Promise!vars)
  <2>. SUFFICES ASSUME Base, LedgerInv, Base', [Next]_vars
                PROVE  Promise!Next \/ UNCHANGED Promise!vars
    OBVIOUS
  <2>1. IInv  BY DEF Base
  <2>2. ASSUME NEW c \in Procs, Complete(c), ops' # ops PROVE Promise!Next
    BY <2>2, CompleteApplies
  <2>3. CASE peer' = peer /\ applied' = applied /\ dbi'.rev = dbi.rev /\ ops' = ops
    BY <2>3 DEF Promise!vars
  <2>4. ASSUME NEW c \in Procs, CreateOperation(c) PROVE Promise!Next \/ UNCHANGED Promise!vars
    BY <2>1, <2>4, CreateAsks
  <2>5. ASSUME NEW o \in Ops, Advances(o), peer' = peer, applied' = applied, dbi'.rev = dbi.rev
        PROVE  Promise!Next \/ UNCHANGED Promise!vars
    BY <2>1, <2>5, AdvancesPass
  <2>. QED  BY <2>1, <2>2, <2>3, <2>4, <2>5, NextWrites
<1>2. Base /\ Base' /\ LedgerInv /\ [Next]_vars => LedgerInv'
  BY NextLedger DEF Base
<1>3. Init => Promise!Init /\ LedgerInv  BY LedgerInit
<1>. QED  BY <1>1, <1>2, <1>3, BaseInvariance, PTL DEF Spec, IsLedger, Promise!Spec
=============================================================================
