----------------------- MODULE InterfaceControlProofs -----------------------
(***************************************************************************)
(* Proofs about InterfaceControl, for any names, any number of operations, *)
(* faults and changes by the operator.                                     *)
(*                                                                         *)
(* The control part of the invariant says which operation may work on an   *)
(* interface: the one that holds the lock, whose id the row carries.  The  *)
(* host part says what that operation has made of the files and the unit,  *)
(* step by step, and that at rest an interface is there as a whole or not  *)
(* at all, but for a unit that a failed query has hidden.  A third part    *)
(* follows the forwarding switch, which all interfaces share.              *)
(***************************************************************************)
EXTENDS InterfaceControl, WellFoundedInduction, TLAPS

-----------------------------------------------------------------------------
(* The scripts *)

LEMMA Numbers == /\ \A o \in Ops : o \in Int /\ o > 0
                 /\ MaxOps \in Nat /\ MaxFaults \in Nat /\ MaxEdits \in Nat
                 /\ Absent = 0 /\ Partial = -1 /\ Foreign = -2
BY BoundsAssumption DEF Ops, Absent, Partial, Foreign

LEMMA LeastNumber ==
  ASSUME NEW S \in SUBSET Nat, S # {}
  PROVE  \E m \in S : \A n \in S : m <= n
<1> DEFINE R == OpToRel(<, Nat)
<1>1. IsWellFoundedOn(R, Nat)
  BY NatLessThanWellFounded, Zenon
<1>2. \A a, b \in Nat : a < b => <<a, b>> \in R
  BY DEF OpToRel
<1> HIDE DEF R
<1>3. PICK m \in S : \A n \in S : ~(<<n, m>> \in R)
  BY <1>1, WFMin
<1>4. \A n \in S : ~(n < m)
  BY <1>2, <1>3, Zenon
<1>5. \A n \in S : m <= n
  BY <1>4
<1> QED BY <1>5

\* No step comes twice in a script.
Distinct(q) == \A j, l \in 1..Len(q) : q[j] = q[l] => j = l

LEMMA SequenceFacts ==
  /\ Len(CreateSteps) = 8 /\ Len(UndoCreateSteps) = 7 /\ Len(RemoveSteps) = 8 /\ Len(UndoRemoveSteps) = 7
  /\ Distinct(CreateSteps) /\ Distinct(UndoCreateSteps) /\ Distinct(RemoveSteps) /\ Distinct(UndoRemoveSteps)
<1>1. /\ Len(CreateSteps) = 8 /\ Len(UndoCreateSteps) = 7 /\ Len(RemoveSteps) = 8 /\ Len(UndoRemoveSteps) = 7
  BY DEF CreateSteps, UndoCreateSteps, RemoveSteps, UndoRemoveSteps
<1>2. Distinct(CreateSteps)
  BY DEF Distinct, CreateSteps
<1>3. Distinct(UndoCreateSteps)
  BY DEF Distinct, UndoCreateSteps
<1>4. Distinct(RemoveSteps)
  BY DEF Distinct, RemoveSteps
<1>5. Distinct(UndoRemoveSteps)
  BY DEF Distinct, UndoRemoveSteps
<1> QED BY <1>1, <1>2, <1>3, <1>4, <1>5

LEMMA ScriptFacts ==
  ASSUME NEW o \in Ops
  PROVE  /\ Len(Script(o)) \in 7..8 /\ Distinct(Script(o))
         /\ ops[o].type = "create" /\ call[o].pc = "do" => Script(o) = CreateSteps
         /\ ops[o].type = "create" /\ call[o].pc # "do" => Script(o) = UndoCreateSteps
         /\ ops[o].type # "create" /\ call[o].pc = "do" => Script(o) = RemoveSteps
         /\ ops[o].type # "create" /\ call[o].pc # "do" => Script(o) = UndoRemoveSteps
<1>1. /\ ops[o].type = "create" /\ call[o].pc = "do" => Script(o) = CreateSteps
      /\ ops[o].type = "create" /\ call[o].pc # "do" => Script(o) = UndoCreateSteps
      /\ ops[o].type # "create" /\ call[o].pc = "do" => Script(o) = RemoveSteps
      /\ ops[o].type # "create" /\ call[o].pc # "do" => Script(o) = UndoRemoveSteps
  BY DEF Script
<1> QED BY <1>1, SequenceFacts

\* What a script holds of the steps that make an interface, or that take it away
Making == Kinds \cup {"enable", "start"}
Taking == Kinds \cup {"disable", "stop"}

LEMMA WritingScript ==
  ASSUME NEW o \in Ops, Writes(o)
  PROVE  /\ \A t \in Making : \E j \in 1..Len(Script(o)) : Script(o)[j] = t
         /\ \A j, l \in 1..Len(Script(o)) : Script(o)[j] = "start" /\ Script(o)[l] = "conf" => l < j
         /\ \A j \in 1..Len(Script(o)) : Script(o)[j] \notin {"disable", "stop"}
<1>1. CASE ops[o].type = "create"
  <2>1. Script(o) = CreateSteps /\ Len(CreateSteps) = 8
    BY <1>1, ScriptFacts, SequenceFacts DEF Writes
  <2>2. \A t \in Making : \E j \in 1..8 : CreateSteps[j] = t
    BY DEF CreateSteps, Making, Kinds
  <2>3. \A j, l \in 1..8 : CreateSteps[j] = "start" /\ CreateSteps[l] = "conf" => l < j
    BY DEF CreateSteps
  <2>4. \A j \in 1..8 : CreateSteps[j] \notin {"disable", "stop"}
    BY DEF CreateSteps
  <2> QED BY <2>1, <2>2, <2>3, <2>4
<1>2. CASE ops[o].type # "create"
  <2>1. Script(o) = UndoRemoveSteps /\ Len(UndoRemoveSteps) = 7
    BY <1>2, ScriptFacts, SequenceFacts DEF Writes
  <2>2. \A t \in Making : \E j \in 1..7 : UndoRemoveSteps[j] = t
    BY DEF UndoRemoveSteps, Making, Kinds
  <2>3. \A j, l \in 1..7 : UndoRemoveSteps[j] = "start" /\ UndoRemoveSteps[l] = "conf" => l < j
    BY DEF UndoRemoveSteps
  <2>4. \A j \in 1..7 : UndoRemoveSteps[j] \notin {"disable", "stop"}
    BY DEF UndoRemoveSteps
  <2> QED BY <2>1, <2>2, <2>3, <2>4
<1> QED BY <1>1, <1>2

LEMMA ErasingScript ==
  ASSUME NEW o \in Ops, ~Writes(o)
  PROVE  /\ \A t \in Taking : \E j \in 1..Len(Script(o)) : Script(o)[j] = t
         /\ \A j \in 1..Len(Script(o)) : Script(o)[j] \notin {"enable", "start"}
<1>1. CASE ops[o].type = "create"
  <2>1. Script(o) = UndoCreateSteps /\ Len(UndoCreateSteps) = 7
    BY <1>1, ScriptFacts, SequenceFacts DEF Writes
  <2>2. \A t \in Taking : \E j \in 1..7 : UndoCreateSteps[j] = t
    BY DEF UndoCreateSteps, Taking, Kinds
  <2>3. \A j \in 1..7 : UndoCreateSteps[j] \notin {"enable", "start"}
    BY DEF UndoCreateSteps
  <2> QED BY <2>1, <2>2, <2>3
<1>2. CASE ops[o].type # "create"
  <2>1. Script(o) = RemoveSteps /\ Len(RemoveSteps) = 8
    BY <1>2, ScriptFacts, SequenceFacts DEF Writes
  <2>2. \A t \in Taking : \E j \in 1..8 : RemoveSteps[j] = t
    BY DEF RemoveSteps, Taking, Kinds
  <2>3. \A j \in 1..8 : RemoveSteps[j] \notin {"enable", "start"}
    BY DEF RemoveSteps
  <2> QED BY <2>1, <2>2, <2>3
<1> QED BY <1>1, <1>2

\* The step a call is at
LEMMA HereFacts ==
  ASSUME NEW o \in Ops, call[o].i \in 1..8, More(o, call[o].i)
  PROVE  /\ Here(o) \in call[o].i..Len(Script(o)) /\ Used(o, Here(o))
         /\ \A l \in call[o].i..(Here(o) - 1) : ~Used(o, l)
<1> DEFINE S == {j \in call[o].i..Len(Script(o)) : Used(o, j)}
<1>1. S \in SUBSET Nat /\ S # {}
  BY ScriptFacts DEF More
<1>2. PICK m \in S : \A l \in S : m <= l
  <2> HIDE DEF S
  <2> QED BY <1>1, LeastNumber
<1>3. \A l \in call[o].i..(m - 1) : ~Used(o, l)
  <2> TAKE l \in call[o].i..(m - 1)
  <2>1. l \in call[o].i..Len(Script(o)) /\ ~(m <= l)
    BY <1>2, ScriptFacts
  <2> QED BY <1>2, <2>1
<1>4. m \in call[o].i..Len(Script(o)) /\ Used(o, m)
  BY <1>2
<1> QED BY <1>3, <1>4, Zenon DEF Here

\* The steps a call has behind it
Passed(o, s) == \E j \in 1..(call[o].i - 1) : j \in 1..Len(Script(o)) /\ Used(o, j) /\ Script(o)[j] = s

\* A call and its operation as far as the script goes
LEMMA SameScript ==
  ASSUME NEW o \in Ops, ops'[o] = ops[o], call'[o].pc = call[o].pc, call'[o].i = call[o].i
  PROVE  /\ Script(o)' = Script(o) /\ Here(o)' = Here(o) /\ (More(o, call[o].i)' <=> More(o, call[o].i))
         /\ \A s : (At(o, s)' <=> At(o, s)) /\ (Passed(o, s)' <=> Passed(o, s)) /\ (Uses(o, s)' <=> Uses(o, s))
<1>1. Script(o)' = Script(o)
  BY DEF Script
<1>2. \A s : Uses(o, s)' <=> Uses(o, s)
  BY DEF Uses, NameOf
<1>3. \A j : Used(o, j)' <=> Used(o, j)
  BY <1>1, <1>2 DEF Used
<1> HIDE DEF Script, Used
<1>4. Here(o)' = Here(o)
  BY <1>1, <1>3 DEF Here
<1>5. More(o, call[o].i)' <=> More(o, call[o].i)
  BY <1>1, <1>3 DEF More
<1>6. \A s : At(o, s)' <=> At(o, s)
  BY <1>1, <1>4 DEF At
<1>7. \A s : Passed(o, s)' <=> Passed(o, s)
  BY <1>1, <1>3 DEF Passed
<1> QED BY <1>1, <1>2, <1>4, <1>5, <1>6, <1>7

-----------------------------------------------------------------------------
(* The control part of the invariant *)

\* The operations that keep their interface to themselves
Current == UnderWay \cup {"validated"}

\* Where a call is tells the state of its operation.
PcOK(o) ==
  LET pc == call[o].pc
      st == ops[o].state
      creates == ops[o].type = "create"
  IN /\ pc \in {"lock", "preflight", "validate"} => st \in {"pending", "expired"}
     /\ pc = "validate" /\ ~creates /\ st = "pending" => row[NameOf(o)].id = ops[o].id
     /\ pc = "reserve" => st = "validated" /\ creates /\ ops[o].id = 0
     /\ pc = "reject" => st = "validated"
     /\ pc \in {"read", "snapshot"} => st = "validated" /\ ops[o].id # 0
     /\ pc = "begin" => st = "snapshotted"
     /\ pc = "do" => st = "executing"
     /\ pc \in {"inspect", "complete"} => st = "executing" /\ creates
     /\ pc = "verify" => st = "executing" /\ ~creates
     /\ pc \in {"check", "finalize"} => st = "verifying" /\ creates
     /\ pc = "delete" => st = "verifying" /\ ~creates
     /\ pc = "rb_begin" => st \in UnderWay \ {"rollback_failed"} \/ (st = "committed" /\ ~creates)
     /\ pc \in {"undo", "rb_end"} => st = "rolling_back"
     /\ pc = "manual" => st = "rolling_back" /\ creates

\* A call that works on an interface holds its lock.
LockOK(o) == call[o].pc \notin {"idle", "lock", "manual"} => lock[NameOf(o)] = o

\* A row belongs to the creation that reserved it.
RowOK(n) ==
  LET c == row[n].id
  IN /\ c = 0 => row[n] = NoRow
     /\ c # 0 => /\ ops[c].type = "create" /\ NameOf(c) = n /\ ops[c].id = c
                 /\ ops[c].state \in Current \cup {"committed"}
                 /\ row[n].rev = 1 => ops[c].state \in {"verifying", "rolling_back", "rollback_failed",
                                                        "committed"}
                 /\ ops[c].state \in {"verifying", "committed"} => row[n].rev = 1

\* A current operation's interface carries its id; a removal is of an interface
\* whose creation is committed.
OpOK(o) ==
  /\ ops[o].type = "create" /\ ops[o].id # 0 => ops[o].id = o
  /\ ops[o].type = "create" /\ ops[o].state = "pending" => ops[o].id = 0
  /\ ops[o].state \in UnderWay => ops[o].id # 0
  /\ ops[o].state \in Current /\ ops[o].id # 0 => row[NameOf(o)].id = ops[o].id
  /\ ops[o].type = "remove" =>
       LET c == ops[o].id
       IN /\ c \in Ops /\ ops[c].type = "create" /\ ops[c].state = "committed"
          /\ NameOf(c) = NameOf(o) /\ ops[c].id = c

\* At most one operation on an interface is in progress.
Alone(o, q) ==
  /\ ops[o].id # 0 /\ ops[o].id = ops[q].id
  /\ ops[o].state \in Active /\ ops[q].state \in Active
  => o = q

\* Half a write is a partial file; neither that nor half a removal is of a file of
\* the operator's, unless one has been put there since.
HalfOK(o) ==
  LET n == NameOf(o)
  IN /\ call[o].pc \in {"do", "undo"} =>
          /\ More(o, call[o].i)
          /\ call[o].half => \E k \in KindsOf(n) :
                               /\ At(o, k)
                               /\ Writes(o) /\ n \notin touched => file[n][k] = Partial
                               /\ <<n, k>> \in raced \/ file[n][k] # Foreign
     /\ call[o].pc \notin {"do", "undo"} => ~call[o].half /\ call[o].i = 1

\* What an interface does not use is not there.
Unused(n) == \A k \in Kinds \ KindsOf(n) : file[n][k] = Absent

Control ==
  /\ TypeOK
  /\ \A o \in Ops : PcOK(o) /\ LockOK(o) /\ OpOK(o) /\ HalfOK(o)
  /\ \A o, q \in Ops : Alone(o, q)
  /\ \A n \in Names : RowOK(n) /\ Unused(n)

-----------------------------------------------------------------------------
(* The host part of the invariant *)

\* Of a name whose unit a failed query has hidden, the unit may be left.
Bare(n) == /\ \A k \in Kinds : file[n][k] = Absent
           /\ n \in misled \/ (active[n] = 0 /\ ~enabled[n])
Whole(n, id) == /\ \A k \in KindsOf(n) : file[n][k] = id
                /\ active[n] = id /\ enabled[n] = (n \in AutoStart)

NoRemoval(id) == \A r \in Ops : ops[r].type = "remove" /\ ops[r].id = id => ops[r].state \notin UnderWay

\* An interface nobody is at work on is there as a whole or not at all.
Rest(n) ==
  LET c == row[n].id
  IN /\ c = 0 => Bare(n)
     /\ c # 0 => /\ ops[c].state = "validated" => Bare(n)
                 /\ ops[c].state \in {"verifying", "committed"} /\ NoRemoval(c) => Whole(n, c)

Boots(n) == n \notin AutoStart => ~enabled[n]

\* What a step of a script is for
Made(o, s) ==
  LET n == NameOf(o)
  IN /\ s \in Kinds => file[n][s] = ops[o].id
     /\ s = "enable" => enabled[n]
     /\ s = "start" => active[n] = ops[o].id
Unmade(o, s) ==
  LET n == NameOf(o)
  IN /\ s \in Kinds => file[n][s] = Absent
     /\ s = "disable" => n \in misled \/ ~enabled[n]
     /\ s = "stop" => n \in misled \/ active[n] = 0
Goal(o, s) == (Writes(o) => Made(o, s)) /\ (~Writes(o) => Unmade(o, s))

\* The work of a call has not met an error so far.
Clean(o) == call[o].pc = "do" \/ (~call[o].err /\ ~call[o].gone)

\* How far a call has come
Progress(o) ==
  LET n == NameOf(o)
      pc == call[o].pc
  IN /\ pc \in {"do", "undo"} /\ Clean(o) => \A s \in Making \cup Taking : Passed(o, s) => Goal(o, s)
     /\ pc \in {"inspect", "complete"} => Whole(n, ops[o].id)
     /\ pc = "verify" => Bare(n)
     /\ pc = "rb_end" /\ Clean(o) => IF ops[o].type = "create" THEN Bare(n) ELSE Whole(n, ops[o].id)

\* What the snapshot of a removal says of the unit: the truth, or no.  A unit that
\* it does not speak of is left alone.
Told(o) ==
  LET n == NameOf(o)
  IN /\ n \in misled \/ (ops[o].active /\ ops[o].enabled = (n \in AutoStart))
     /\ ~ops[o].active => active[n] = ops[o].id
     /\ ops[o].enabled => n \in AutoStart
     /\ ~ops[o].enabled => enabled[n] = (n \in AutoStart)

\* What a removal finds, leaves and has in its snapshot, whoever works on it
Removing(o) ==
  LET n == NameOf(o)
      id == ops[o].id
      st == ops[o].state
      conf == file[n]["conf"]
  IN ops[o].type = "remove" =>
       /\ st \in UnderWay \/ call[o].pc = "snapshot" => Told(o)
       /\ st = "snapshotted" => Whole(n, id)
       /\ st = "executing" => conf \in {Absent, id} /\ active[n] \in {0, id}
       /\ st = "verifying" => Bare(n) /\ active[n] \in {0, id}
       /\ st \in {"rolling_back", "rollback_failed"} =>
            /\ conf \in {Absent, Partial, id}
            /\ active[n] \in {0, id} \/ (conf = Partial /\ ~(call[o].half /\ At(o, "conf")))

Host ==
  /\ \A n \in Names \ touched : Rest(n) /\ Boots(n)
  /\ \A o \in Ops : NameOf(o) \notin touched => Progress(o) /\ Removing(o)

IInv == Control /\ Host

-----------------------------------------------------------------------------
(* The parts of a step *)

LEMMA OpFields ==
  ASSUME ops \in [Ops -> OpRecords], NEW o \in Ops
  PROVE  /\ ops[o].state \in States /\ ops[o].type \in {"create", "remove"} /\ ops[o].name \in Names
         /\ ops[o].id \in Ops \cup {0} /\ ops[o].hash \in Contents /\ ops[o].before \in {0, 1}
         /\ ops[o].after \in {0, 1} /\ ops[o].active \in BOOLEAN /\ ops[o].enabled \in BOOLEAN
         /\ NameOf(o) \in Names
BY Zenon DEF OpRecords, NameOf

LEMMA CallFields ==
  ASSUME call \in [Ops -> CallRecords], NEW o \in Ops
  PROVE  /\ call[o].pc \in PCs /\ call[o].i \in 1..8 /\ call[o].half \in BOOLEAN
         /\ call[o].err \in BOOLEAN /\ call[o].gone \in BOOLEAN /\ call[o].boot \in BOOLEAN
BY Zenon DEF CallRecords

LEMMA SetStateFacts ==
  ASSUME ops \in [Ops -> OpRecords], NEW o \in Ops, NEW s \in States, SetState(o, s)
  PROVE  /\ ops' \in [Ops -> OpRecords] /\ ops'[o] = [ops[o] EXCEPT !.state = s]
         /\ ops'[o].state = s /\ ops'[o].type = ops[o].type /\ ops'[o].name = ops[o].name
         /\ ops'[o].id = ops[o].id /\ ops'[o].active = ops[o].active /\ ops'[o].enabled = ops[o].enabled
         /\ NameOf(o)' = NameOf(o)
         /\ \A q \in Ops \ {o} : ops'[q] = ops[q]
<1>1. ops'[o] = [ops[o] EXCEPT !.state = s] /\ \A q \in Ops \ {o} : ops'[q] = ops[q]
  BY DEF SetState
<1>2. [ops[o] EXCEPT !.state = s] \in OpRecords
  BY Zenon DEF OpRecords
<1>3. ops' \in [Ops -> OpRecords]
  BY <1>1, <1>2 DEF SetState
<1>4. /\ ops'[o].state = s /\ ops'[o].type = ops[o].type /\ ops'[o].name = ops[o].name
      /\ ops'[o].id = ops[o].id /\ ops'[o].active = ops[o].active /\ ops'[o].enabled = ops[o].enabled
  BY <1>1 DEF OpRecords
<1> QED BY <1>1, <1>3, <1>4 DEF NameOf

LEMMA IdleFacts == /\ Idle \in CallRecords /\ Idle.pc = "idle" /\ Idle.i = 1 /\ Idle.half = FALSE
                   /\ Idle.err = FALSE /\ Idle.gone = FALSE
<1>1. "idle" \in PCs /\ 1 \in 1..8 /\ FALSE \in BOOLEAN
  BY DEF PCs
<1>2. Idle \in CallRecords
  BY <1>1, Zenon DEF Idle, CallRecords
<1> QED BY <1>2 DEF Idle

LEMMA GotoFacts ==
  ASSUME call \in [Ops -> CallRecords], NEW o \in Ops, NEW l \in PCs, Goto(o, l)
  PROVE  /\ call' \in [Ops -> CallRecords]
         /\ call'[o].pc = l /\ call'[o].i = call[o].i /\ call'[o].half = call[o].half
         /\ call'[o].err = call[o].err /\ call'[o].gone = call[o].gone
         /\ \A q \in Ops \ {o} : call'[q] = call[q]
         /\ lock' = lock /\ failed' = failed
<1>1. /\ call'[o] = [call[o] EXCEPT !.pc = l] /\ \A q \in Ops \ {o} : call'[q] = call[q]
      /\ lock' = lock /\ failed' = failed
  BY DEF Goto
<1>2. [call[o] EXCEPT !.pc = l] \in CallRecords
  BY Zenon DEF CallRecords
<1>3. call' \in [Ops -> CallRecords]
  BY <1>2 DEF Goto
<1>4. /\ call'[o].pc = l /\ call'[o].i = call[o].i /\ call'[o].half = call[o].half
      /\ call'[o].err = call[o].err /\ call'[o].gone = call[o].gone
  BY <1>1, Zenon DEF CallRecords
<1> QED BY <1>1, <1>3, <1>4

LEMMA ReturnFacts ==
  ASSUME TypeOK, NEW o \in Ops, NEW e \in BOOLEAN, Return(o, e)
  PROVE  /\ call' \in [Ops -> CallRecords] /\ call'[o] = Idle
         /\ \A q \in Ops \ {o} : call'[q] = call[q]
         /\ lock' \in [Names -> Ops \cup {0}] /\ \A n \in Names : lock[n] # o => lock'[n] = lock[n]
         /\ failed' \in BOOLEAN
<1>1. /\ call'[o] = Idle /\ \A q \in Ops \ {o} : call'[q] = call[q]
  BY DEF Return, TypeOK
<1>2. call' \in [Ops -> CallRecords]
  BY IdleFacts DEF Return, TypeOK
<1>3. lock' \in [Names -> Ops \cup {0}] /\ \A n \in Names : lock[n] # o => lock'[n] = lock[n]
  BY DEF Return, TypeOK
<1>4. failed' \in BOOLEAN
  <2>1. call[o].boot \in BOOLEAN /\ failed \in BOOLEAN
    BY CallFields DEF TypeOK
  <2> QED BY <2>1, Zenon DEF Return
<1> QED BY <1>1, <1>2, <1>3, <1>4

LEMMA FaultFacts ==
  ASSUME faults \in 0..MaxFaults, NEW o \in Ops
  PROVE  /\ Fault \/ UNCHANGED faults \/ Works(o) \/ Breaks(o) => faults' \in 0..MaxFaults
<1>1. Fault => faults' \in 0..MaxFaults
  BY Numbers DEF Fault
<1> QED BY <1>1, Zenon DEF Works, Breaks

-----------------------------------------------------------------------------
(* Whose step it is *)

\* A step for one operation: the others, and the other interfaces, are left alone.
Own(o) ==
  /\ \A q \in Ops \ {o} : ops'[q] = ops[q] /\ call'[q] = call[q]
  /\ ops'[o].type = ops[o].type /\ ops'[o].name = ops[o].name
  /\ \A m \in Names \ {NameOf(o)} : /\ row'[m] = row[m] /\ file'[m] = file[m]
                                    /\ active'[m] = active[m] /\ enabled'[m] = enabled[m]
  /\ \A q \in Ops \ {o} : LockOK(q) => LockOK(q)'
  /\ touched' = touched /\ raced' = raced /\ misled \subseteq misled'

\* What such a step may do to the operation and to the row
Lawful(o) ==
  LET n == NameOf(o)
  IN /\ ops[o].state = "committed" /\ ops[o].type = "create" =>
          ops'[o].state = ops[o].state /\ ops'[o].id = ops[o].id
     /\ ops'[o].state \in Active => ops[o].state \in Active
     /\ ops'[o].id \in {0, ops[o].id} \/ (ops'[o].id = o /\ ops[o].state = "validated")
     /\ row'[n].id # row[n].id =>
          /\ row[n].id = 0 \/ (row[n].id = ops[o].id /\ ops[o].state \in Active)
          /\ \A q \in Ops \ {o} : NameOf(q) = n => call[q].pc # "validate"

\* Only the holder of the lock touches the host.
Locked(o) ==
  LET n == NameOf(o)
  IN \/ file'[n] = file[n] /\ active'[n] = active[n] /\ enabled'[n] = enabled[n]
     \/ lock[n] = o /\ ops[o].state \in Current /\ ops[o].id # 0

StateFacts == /\ Active \subseteq States /\ UnderWay \subseteq Current /\ Current \subseteq Active
              /\ "committed" \notin Active /\ "pending" \notin Current /\ "validated" \notin UnderWay

LEMMA StatesLemma == StateFacts
BY DEF StateFacts, Active, States, UnderWay, Current

\* The conditions on the other operations and interfaces survive such a step.
LEMMA OthersKeptControl ==
  ASSUME Control, NEW o \in Ops, Own(o), Lawful(o), Locked(o), TypeOK'
  PROVE  /\ \A q \in Ops \ {o} : (PcOK(q) /\ LockOK(q) /\ OpOK(q) /\ HalfOK(q))'
         /\ \A m \in Names \ {NameOf(o)} : (RowOK(m) /\ Unused(m))'
         /\ \A p, q \in Ops : Alone(p, q)'
<1> USE StatesLemma DEF StateFacts
<1>1. /\ \A q \in Ops \ {o} : ops'[q] = ops[q] /\ call'[q] = call[q] /\ NameOf(q)' = NameOf(q)
      /\ NameOf(o)' = NameOf(o) /\ ops'[o].type = ops[o].type
  BY DEF Own, NameOf
<1>2. \A q \in Ops \ {o} : /\ ops[q].state \in Current /\ ops[q].id # 0 => row'[NameOf(q)].id = row[NameOf(q)].id
                           /\ call[q].pc = "validate" => row'[NameOf(q)].id = row[NameOf(q)].id
  <2> SUFFICES ASSUME NEW q \in Ops \ {o}, row'[NameOf(q)].id # row[NameOf(q)].id
               PROVE  ~(ops[q].state \in Current /\ ops[q].id # 0) /\ call[q].pc # "validate"
    OBVIOUS
  <2>1. NameOf(q) = NameOf(o)
    <3>1. NameOf(q) \in Names
      BY OpFields DEF Control, TypeOK
    <3> QED BY <3>1 DEF Own
  <2>2. call[q].pc # "validate"
    BY <2>1 DEF Lawful
  <2>3. ~(ops[q].state \in Current /\ ops[q].id # 0)
    <3> SUFFICES ASSUME ops[q].state \in Current, ops[q].id # 0 PROVE FALSE
      OBVIOUS
    <3>1. row[NameOf(q)].id = ops[q].id
      BY DEF Control, OpOK
    <3>2. row[NameOf(o)].id = ops[o].id /\ ops[o].state \in Active
      BY <2>1, <3>1 DEF Lawful
    <3>3. Alone(o, q)
      BY DEF Control
    <3> QED BY <2>1, <3>1, <3>2, <3>3 DEF Alone
  <2> QED BY <2>2, <2>3
<1>3. \A q \in Ops \ {o} : (PcOK(q) /\ LockOK(q))'
  <2> TAKE q \in Ops \ {o}
  <2>1. PcOK(q) /\ LockOK(q)
    BY DEF Control
  <2>2. PcOK(q)'
    BY <1>1, <1>2, <2>1 DEF PcOK
  <2>3. LockOK(q)'
    BY <2>1 DEF Own
  <2> QED BY <2>2, <2>3
<1>4. \A q \in Ops \ {o} : OpOK(q)'
  <2> TAKE q \in Ops \ {o}
  <2>1. OpOK(q)
    BY DEF Control
  <2>2. ops[q].type = "remove" => LET c == ops[q].id
                                  IN /\ ops'[c].state = ops[c].state /\ ops'[c].id = ops[c].id
                                     /\ ops'[c].type = ops[c].type /\ ops'[c].name = ops[c].name
    <3> SUFFICES ASSUME ops[q].type = "remove"
                 PROVE  LET c == ops[q].id
                        IN /\ ops'[c].state = ops[c].state /\ ops'[c].id = ops[c].id
                           /\ ops'[c].type = ops[c].type /\ ops'[c].name = ops[c].name
      OBVIOUS
    <3>1. ops[q].id \in Ops /\ ops[ops[q].id].type = "create" /\ ops[ops[q].id].state = "committed"
      BY <2>1 DEF OpOK
    <3> QED BY <1>1, <3>1 DEF Lawful, Own
  <2> QED BY <1>1, <1>2, <2>1, <2>2 DEF OpOK, NameOf
<1>5. \A q \in Ops \ {o} : HalfOK(q)'
  <2> TAKE q \in Ops \ {o}
  <2>1. HalfOK(q) /\ LockOK(q) /\ NameOf(q) \in Names
    BY OpFields DEF Control, TypeOK
  <2>2. /\ More(q, call[q].i)' <=> More(q, call[q].i)
        /\ \A s : At(q, s)' <=> At(q, s)
        /\ Writes(q)' <=> Writes(q)
    BY <1>1, SameScript DEF Writes
  <2>3. call[q].pc \in {"do", "undo"} => file'[NameOf(q)] = file[NameOf(q)]
    <3>1. CASE NameOf(q) # NameOf(o)
      BY <2>1, <3>1 DEF Own
    <3>2. CASE NameOf(q) = NameOf(o) /\ call[q].pc \in {"do", "undo"}
      <4>1. lock[NameOf(o)] = q
        BY <2>1, <3>2 DEF LockOK
      <4> QED BY <3>2, <4>1 DEF Locked
    <3> QED BY <3>1, <3>2
  <2>4. KindsOf(NameOf(q))' = KindsOf(NameOf(q)) /\ raced' = raced /\ touched' = touched
    BY <1>1 DEF KindsOf, Own
  <2>5. CASE call[q].pc \in {"do", "undo"}
    BY <1>1, <2>1, <2>2, <2>3, <2>4, <2>5 DEF HalfOK
  <2>6. CASE call[q].pc \notin {"do", "undo"}
    BY <1>1, <2>1, <2>6 DEF HalfOK
  <2> QED BY <2>5, <2>6
<1>6. \A m \in Names \ {NameOf(o)} : (RowOK(m) /\ Unused(m))'
  <2> TAKE m \in Names \ {NameOf(o)}
  <2>1. RowOK(m) /\ Unused(m) /\ row'[m] = row[m] /\ file'[m] = file[m] /\ enabled'[m] = enabled[m]
    BY DEF Control, Own
  <2>2. row[m].id # 0 => row[m].id \in Ops \ {o}
    <3>1. row[m].id \in Ops \cup {0}
      BY DEF Control, TypeOK, RowRecords
    <3> QED BY <2>1, <3>1 DEF RowOK
  <2>3. RowOK(m)'
    BY <1>1, <2>1, <2>2 DEF RowOK, NoRow, NameOf
  <2>4. Unused(m)'
    BY <2>1 DEF Unused, KindsOf
  <2> QED BY <2>3, <2>4
<1>7. \A q \in Ops \ {o} : Alone(o, q)' /\ Alone(q, o)'
  <2> SUFFICES ASSUME NEW q \in Ops \ {o}, ops'[o].id # 0, ops'[o].id = ops'[q].id,
                      ops'[o].state \in Active, ops'[q].state \in Active
               PROVE  FALSE
    BY DEF Alone
  <2>1. ops'[q] = ops[q] /\ Alone(o, q) /\ OpOK(q) /\ ops[o].state \in Active
    BY DEF Own, Control, Lawful
  <2>2. ops'[o].id # ops[o].id
    BY <2>1 DEF Alone
  <2>3. ops'[o].id = o /\ ops[o].state = "validated"
    BY <2>2 DEF Lawful
  <2>4. ops[q].type \in {"create", "remove"}
    BY OpFields DEF Control, TypeOK
  <2> QED BY <2>1, <2>3, <2>4 DEF OpOK
<1>8. \A p, q \in Ops : Alone(p, q)'
  <2> TAKE p, q \in Ops
  <2>1. Alone(p, q)
    BY DEF Control
  <2>2. CASE p # o /\ q # o
    BY <1>1, <2>1, <2>2 DEF Alone
  <2>3. CASE p = o /\ q = o
    BY <2>3 DEF Alone
  <2> QED BY <1>7, <2>2, <2>3
<1> QED BY <1>3, <1>4, <1>5, <1>6, <1>8

\* What is left to show of a step for one operation
LEMMA ControlStep ==
  ASSUME Control, NEW o \in Ops, Own(o), Lawful(o), Locked(o), TypeOK',
         (PcOK(o) /\ LockOK(o) /\ OpOK(o) /\ HalfOK(o))', (RowOK(NameOf(o)) /\ Unused(NameOf(o)))'
  PROVE  Control'
<1>1. NameOf(o)' = NameOf(o)
  BY DEF Own, NameOf
<1>2. /\ \A q \in Ops : (PcOK(q) /\ LockOK(q) /\ OpOK(q) /\ HalfOK(q))'
      /\ \A p, q \in Ops : Alone(p, q)'
  BY OthersKeptControl
<1>3. \A m \in Names : (RowOK(m) /\ Unused(m))'
  BY <1>1, OthersKeptControl
<1> QED BY <1>2, <1>3 DEF Control

\* Goals, when the host is as it was
LEMMA SameHost ==
  ASSUME NEW n \in Names, file'[n] = file[n], active'[n] = active[n], enabled'[n] = enabled[n]
  PROVE  /\ misled \subseteq misled' => (Bare(n) => Bare(n)')
         /\ \A id : Whole(n, id)' <=> Whole(n, id)
BY DEF Bare, Whole, KindsOf

LEMMA SameTold ==
  ASSUME NEW o \in Ops, Told(o), misled \subseteq misled',
         active'[NameOf(o)] = active[NameOf(o)], enabled'[NameOf(o)] = enabled[NameOf(o)],
         NameOf(o)' = NameOf(o), ops'[o].id = ops[o].id,
         ops'[o].active = ops[o].active, ops'[o].enabled = ops[o].enabled
  PROVE  Told(o)'
BY DEF Told

LEMMA OthersKeptHost ==
  ASSUME Control, Host, NEW o \in Ops, Own(o), Lawful(o), Locked(o), TypeOK'
  PROVE  /\ \A q \in Ops \ {o} : NameOf(q) \notin touched => (Progress(q) /\ Removing(q))'
         /\ \A m \in Names \ (touched \cup {NameOf(o)}) : Rest(m)'
<1> USE StatesLemma DEF StateFacts
<1>1. /\ \A q \in Ops \ {o} : ops'[q] = ops[q] /\ call'[q] = call[q] /\ NameOf(q)' = NameOf(q)
      /\ NameOf(o)' = NameOf(o) /\ ops'[o].type = ops[o].type
  BY DEF Own, NameOf
<1>2. ASSUME NEW q \in Ops \ {o}, NameOf(q) \notin touched
      PROVE  (Progress(q) /\ Removing(q))'
  <2>0. NameOf(q) \in Names
    BY OpFields DEF Control, TypeOK
  <2> PICK n \in Names : n = NameOf(q)
    BY <2>0
  <2>1. Progress(q) /\ Removing(q) /\ LockOK(q) /\ PcOK(q) /\ OpOK(q) /\ NameOf(q)' = n
    BY <1>1, <1>2 DEF Host, Control, TypeOK
  <2>2. /\ Script(q)' = Script(q) /\ \A s : (At(q, s)' <=> At(q, s)) /\ (Passed(q, s)' <=> Passed(q, s))
        /\ Writes(q)' <=> Writes(q)
        /\ Clean(q)' <=> Clean(q)
    BY <1>1, SameScript DEF Writes, Clean
  <2>3. CASE file'[n] = file[n] /\ active'[n] = active[n] /\ enabled'[n] = enabled[n]
    <3>1. /\ Bare(n) => Bare(n)'
          /\ \A id : Whole(n, id)' <=> Whole(n, id)
      BY <2>1, <2>3, SameHost DEF Own
    <3>2. Progress(q)'
      <4>1. \A s \in Making \cup Taking : Goal(q, s) => Goal(q, s)'
        BY <1>1, <2>2, <2>3 DEF Goal, Made, Unmade, Own
      <4> QED BY <1>1, <2>1, <2>2, <3>1, <4>1 DEF Progress
    <3>3. Removing(q)'
      <4>1. Told(q) => Told(q)'
        BY <1>1, <2>1, <2>3, SameTold DEF Own
      <4> HIDE DEF Told
      <4> QED BY <1>1, <2>1, <2>2, <2>3, <3>1, <4>1 DEF Removing
    <3> QED BY <3>2, <3>3
  <2>4. CASE ~(file'[n] = file[n] /\ active'[n] = active[n] /\ enabled'[n] = enabled[n])
    <3>1. n = NameOf(o) /\ lock[n] = o /\ ops[o].state \in Current /\ ops[o].id # 0
      BY <2>1, <2>4 DEF Own, Locked
    <3>2. call[q].pc \in {"idle", "lock", "manual"}
      BY <2>1, <3>1 DEF LockOK
    <3>3. ~(ops[q].state \in Current /\ ops[q].id # 0)
      <4>1. OpOK(o) /\ Alone(o, q)
        BY DEF Control
      <4> QED BY <2>1, <3>1, <4>1 DEF OpOK, Alone
    <3>4. ops[q].state \notin UnderWay
      BY <2>1, <3>3 DEF OpOK
    <3>5. Progress(q)'
      BY <1>1, <3>2 DEF Progress
    <3>6. Removing(q)'
      BY <1>1, <3>2, <3>4 DEF Removing, UnderWay, Active
    <3> QED BY <3>5, <3>6
  <2> QED BY <2>3, <2>4
<1>3. ASSUME NEW m \in Names, m \notin touched, m # NameOf(o)
      PROVE  Rest(m)'
  <2>1. Rest(m) /\ RowOK(m) /\ row[m].id \in Ops \cup {0}
    BY <1>3 DEF Host, Control, TypeOK, RowRecords
  <2>2. row'[m] = row[m] /\ file'[m] = file[m] /\ active'[m] = active[m] /\ enabled'[m] = enabled[m]
    BY <1>3 DEF Own
  <2>3. /\ Bare(m) => Bare(m)'
        /\ \A id : Whole(m, id)' <=> Whole(m, id)
    BY <2>2, SameHost DEF Own
  <2>4. row[m].id # 0 => row[m].id \in Ops \ {o}
    BY <1>3, <2>1 DEF RowOK
  <2>5. row[m].id # 0 => (NoRemoval(row[m].id)' <=> NoRemoval(row[m].id))
    <3> SUFFICES ASSUME row[m].id # 0 PROVE NoRemoval(row[m].id)' <=> NoRemoval(row[m].id)
      OBVIOUS
    <3>1. ops[o].type = "remove" => ops[o].id # row[m].id
      <4>1. OpOK(o)
        BY DEF Control
      <4> QED BY <1>3, <2>1, <4>1 DEF OpOK, RowOK
    <3>2. ops[o].type = "remove" => ops'[o].id # row[m].id
      <4>1. ops[o].type = "remove" /\ ops'[o].id = o => row[m].id # o
        BY <2>1 DEF RowOK
      <4> QED BY <3>1, <4>1 DEF Lawful
    <3> QED BY <1>1, <2>2, <3>1, <3>2 DEF NoRemoval
  <2> QED BY <1>1, <2>1, <2>2, <2>3, <2>4, <2>5 DEF Rest
<1> QED BY <1>2, <1>3

LEMMA HostStepFrame ==
  ASSUME Control, Host, NEW o \in Ops, Own(o), Lawful(o), Locked(o), TypeOK',
         NameOf(o) \notin touched =>
           Rest(NameOf(o))' /\ Boots(NameOf(o))' /\ Progress(o)' /\ Removing(o)'
  PROVE  Host'
<1> SUFFICES /\ \A n \in Names \ touched' : Rest(n)' /\ Boots(n)'
             /\ \A q \in Ops : NameOf(q)' \notin touched' => Progress(q)' /\ Removing(q)'
  BY DEF Host
<1>1. touched' = touched /\ \A q \in Ops : NameOf(q)' = NameOf(q)
  BY DEF Own, NameOf
<1>2. \A n \in Names \ touched : Rest(n)' /\ Boots(n)'
  <2>1. NameOf(o) \notin touched => Rest(NameOf(o))' /\ Boots(NameOf(o))'
    OBVIOUS
  <2>2. \A m \in Names \ (touched \cup {NameOf(o)}) : Rest(m)' /\ Boots(m)'
    BY OthersKeptHost DEF Host, Own, Boots
  <2> QED BY <1>1, <2>1, <2>2
<1>3. \A q \in Ops : NameOf(q) \notin touched => Progress(q)' /\ Removing(q)'
  <2>1. \A q \in Ops \ {o} : NameOf(q) \notin touched => (Progress(q) /\ Removing(q))'
    BY OthersKeptHost
  <2> QED BY <2>1
<1> QED BY <1>1, <1>2, <1>3

-----------------------------------------------------------------------------
(* The steps in the journal *)

Free == {"idle", "lock", "manual"}

\* What a step that stands outside the scripts does to its call and to the locks
CallStep(o) ==
  /\ call' \in [Ops -> CallRecords] /\ lock' \in [Names -> Ops \cup {0}] /\ failed' \in BOOLEAN
  /\ \A q \in Ops \ {o} : call'[q] = call[q]
  /\ call'[o].i = 1 /\ ~call'[o].half
  /\ \A q \in Ops \ {o}, n \in Names : call[q].pc \notin Free /\ lock[n] = q => lock'[n] = q
  /\ call'[o].pc \notin Free => lock'[NameOf(o)] = o

LEMMA GotoStep ==
  ASSUME Control, NEW o \in Ops, NEW l \in PCs, call[o].pc \notin {"do", "undo"},
         call[o].pc \notin Free \/ l \in Free, Goto(o, l)
  PROVE  CallStep(o) /\ call'[o].pc = l /\ call'[o].err = call[o].err /\ call'[o].gone = call[o].gone
<1>1. TypeOK /\ LockOK(o) /\ HalfOK(o)
  BY DEF Control
<1>2. /\ call' \in [Ops -> CallRecords]
      /\ call'[o].pc = l /\ call'[o].i = call[o].i /\ call'[o].half = call[o].half
      /\ call'[o].err = call[o].err /\ call'[o].gone = call[o].gone
      /\ \A q \in Ops \ {o} : call'[q] = call[q]
      /\ lock' = lock /\ failed' = failed
  BY <1>1, GotoFacts DEF TypeOK
<1>3. call[o].i = 1 /\ ~call[o].half
  BY <1>1 DEF HalfOK
<1>4. call[o].pc \notin Free => lock[NameOf(o)] = o
  BY <1>1 DEF LockOK, Free
<1>5. lock \in [Names -> Ops \cup {0}] /\ failed \in BOOLEAN
  BY <1>1 DEF TypeOK
<1> QED BY <1>2, <1>3, <1>4, <1>5 DEF CallStep

LEMMA ReturnStep ==
  ASSUME Control, NEW o \in Ops, NEW e \in BOOLEAN, Return(o, e)
  PROVE  CallStep(o) /\ call'[o].pc = "idle"
<1>1. TypeOK
  BY DEF Control
<1> QED BY <1>1, ReturnFacts, IdleFacts DEF CallStep, Free

LEMMA LocksKept ==
  ASSUME NEW o \in Ops, CallStep(o), \A q \in Ops : ops'[q].name = ops[q].name,
         \A q \in Ops : NameOf(q) \in Names
  PROVE  LockOK(o)' /\ \A q \in Ops \ {o} : LockOK(q) => LockOK(q)'
<1>1. \A q \in Ops : NameOf(q)' = NameOf(q)
  BY DEF NameOf
<1>2. LockOK(o)'
  BY <1>1 DEF LockOK, CallStep, Free
<1>3. \A q \in Ops \ {o} : LockOK(q) => LockOK(q)'
  BY <1>1 DEF LockOK, CallStep, Free
<1> QED BY <1>2, <1>3

LEMMA MoreAtStart ==
  ASSUME NEW o \in Ops
  PROVE  More(o, 1)
<1>1. PICK j \in 1..Len(Script(o)) : Script(o)[j] = "conf"
  BY WritingScript, ErasingScript DEF Making, Taking, Kinds
<1>2. Used(o, j)
  BY <1>1 DEF Used, Uses
<1> QED BY <1>1, <1>2 DEF More

LEMMA MoreAtStartAgain == (\A o \in Ops : More(o, 1))'
<1>1. \A o \in Ops : More(o, 1)
  BY MoreAtStart
<1> QED BY <1>1, PTL

\* The fields of an operation that its control depends on
Moved(o, s) ==
  /\ \A q \in Ops \ {o} : ops'[q] = ops[q]
  /\ ops'[o].state = s /\ ops'[o].type = ops[o].type /\ ops'[o].name = ops[o].name
  /\ ops'[o].id = ops[o].id

\* The moves in the journal that leave the row alone
Moves(o, s) ==
  LET st == ops[o].state
      creates == ops[o].type = "create"
  IN \/ s = st
     \/ st = "pending" /\ s = "expired"
     \/ st = "pending" /\ s = "validated" /\ (~creates => row[NameOf(o)].id = ops[o].id)
     \/ st = "validated" /\ s = "snapshotted" /\ ops[o].id # 0
     \/ st = "validated" /\ s = "rejected" /\ ~creates
     \/ st = "snapshotted" /\ s = "executing"
     \/ st = "executing" /\ s = "verifying" /\ ~creates
     \/ st = "verifying" /\ s = "committed" /\ creates
     \/ st \in {"snapshotted", "executing", "verifying"} /\ s = "rolling_back"
     \/ st = "rolling_back" /\ s = "rollback_failed"
     \/ st = "rolling_back" /\ s = "rolled_back" /\ ~creates

HostKept == UNCHANGED <<row, file, active, enabled, touched, raced>> /\ misled \subseteq misled'

LEMMA JournalControl ==
  ASSUME Control, NEW o \in Ops, NEW s \in States, Moved(o, s), Moves(o, s), CallStep(o), HostKept, TypeOK',
         PcOK(o)'
  PROVE  Own(o) /\ Lawful(o) /\ Locked(o) /\ Control'
<1> DEFINE n == NameOf(o)
<1>1. /\ TypeOK /\ OpOK(o) /\ RowOK(n) /\ Unused(n) /\ HalfOK(o)
      /\ \A q \in Ops : NameOf(q) \in Names /\ ops[q].type \in {"create", "remove"}
      /\ n \in Names
  BY OpFields DEF Control, TypeOK
<1>2. NameOf(o)' = n /\ \A q \in Ops : ops'[q].name = ops[q].name
  BY DEF Moved, NameOf
<1>3. LockOK(o)' /\ \A q \in Ops \ {o} : LockOK(q) => LockOK(q)'
  BY <1>1, <1>2, LocksKept
<1>4. Own(o)
  BY <1>1, <1>3 DEF Own, Moved, CallStep, HostKept
<1>5. Lawful(o)
  BY DEF Lawful, Moved, Moves, HostKept, Active
<1>6. Locked(o)
  BY DEF Locked, HostKept
<1>7. OpOK(o)'
  <2>1. ops[o].type = "remove" => ops[o].id # o
    BY <1>1 DEF OpOK
  <2>2. ops[o].type = "remove" => ops'[ops[o].id] = ops[ops[o].id]
    BY <1>1, <2>1 DEF OpOK, Moved
  <2> QED BY <1>1, <1>2, <2>1, <2>2 DEF OpOK, Moved, Moves, HostKept, UnderWay, Active, Current, NameOf
<1>8. RowOK(n)'
  <2>1. row' = row /\ row[n].id \in Ops \cup {0}
    BY <1>1 DEF HostKept, TypeOK, RowRecords
  <2>2. CASE row[n].id # o
    BY <1>1, <1>2, <2>1, <2>2 DEF RowOK, Moved, NoRow, NameOf
  <2>3. CASE row[n].id = o
    BY <1>1, <1>2, <2>1, <2>3, Numbers DEF RowOK, Moved, Moves, UnderWay, Active, Current
  <2> QED BY <2>2, <2>3
<1>9. Unused(n)'
  BY <1>1, <1>2 DEF Unused, HostKept, KindsOf
<1>10. HalfOK(o)'
  <2>1. More(o, 1)'
    BY MoreAtStartAgain
  <2> QED BY <2>1 DEF HalfOK, CallStep
<1> QED
  <2>1. RowOK(NameOf(o))' /\ Unused(NameOf(o))'
    BY <1>2, <1>8, <1>9
  <2> QED BY <1>3, <1>4, <1>5, <1>6, <1>7, <1>10, <2>1, ControlStep

\* A call that begins a script has no step behind it.
LEMMA NothingPassed ==
  ASSUME NEW o \in Ops, NEW s, call[o].i = 1
  PROVE  ~Passed(o, s)
BY DEF Passed

LEMMA NothingPassedNext ==
  ASSUME NEW o \in Ops, NEW s, call'[o].i = 1
  PROVE  ~Passed(o, s)'
BY DEF Passed

\* A removal that has not begun finds the interface whole.
LEMMA WholeBefore ==
  ASSUME Control, NEW o \in Ops, Rest(NameOf(o)), ops[o].type = "remove", ops[o].state = "validated"
  PROVE  Whole(NameOf(o), ops[o].id)
<1>1. OpOK(o) /\ \A q \in Ops : Alone(o, q)
  BY DEF Control
<1>2. row[NameOf(o)].id = ops[o].id /\ ops[o].id # 0 /\ ops[ops[o].id].state = "committed"
  BY <1>1, Numbers DEF OpOK, Current
<1>3. NoRemoval(ops[o].id)
  BY <1>1, <1>2 DEF NoRemoval, Alone, UnderWay, Active
<1> QED BY <1>2, <1>3 DEF Rest

\* What a move needs of the host
Earned(o, s) ==
  LET n == NameOf(o)
      id == ops[o].id
  IN /\ s = "verifying" /\ ops[o].state # s => Bare(n)
     /\ s = "rolled_back" /\ ops[o].state # s => Whole(n, id)
     /\ ops[o].type = "remove" /\ (s \in UnderWay \/ call'[o].pc = "snapshot") => Told(o)'
     /\ call'[o].pc = "complete" => Whole(n, id)
     /\ call'[o].pc \notin {"inspect", "verify", "rb_end"}

LEMMA JournalHost ==
  ASSUME Control, Host, NEW o \in Ops, NEW s \in States, Moved(o, s), Moves(o, s), CallStep(o), HostKept, TypeOK',
         PcOK(o)', NameOf(o) \notin touched => Earned(o, s)
  PROVE  Host'
<1> USE StatesLemma DEF StateFacts
<1>1. Own(o) /\ Lawful(o) /\ Locked(o)
  BY JournalControl
<1> SUFFICES ASSUME NameOf(o) \notin touched
             PROVE  Rest(NameOf(o))' /\ Boots(NameOf(o))' /\ Progress(o)' /\ Removing(o)'
  BY <1>1, HostStepFrame
<1>2. /\ Rest(NameOf(o)) /\ Boots(NameOf(o)) /\ Removing(o) /\ RowOK(NameOf(o)) /\ OpOK(o) /\ Earned(o, s)
      /\ NameOf(o) \in Names /\ ops[o].type \in {"create", "remove"} /\ row[NameOf(o)].id \in Ops \cup {0}
  BY OpFields DEF Host, Control, TypeOK, RowRecords
<1> PICK n \in Names : n = NameOf(o)
  BY <1>2
<1>3. /\ NameOf(o)' = n /\ ops'[o].id = ops[o].id /\ ops'[o].type = ops[o].type /\ ops'[o].state = s
      /\ \A q \in Ops \ {o} : ops'[q] = ops[q]
  BY DEF Moved, NameOf
<1>4. /\ Bare(n) => Bare(n)'
      /\ \A id : Whole(n, id)' <=> Whole(n, id)
  BY SameHost DEF HostKept
<1>5. Rest(n)'
  <2>1. row'[n] = row[n]
    BY DEF HostKept
  <2>2. CASE row[n].id = 0
    BY <1>2, <1>4, <2>1, <2>2 DEF Rest
  <2>3. CASE row[n].id = o
    <3>1. ops[o].type = "create"
      BY <1>2, <2>3, Numbers DEF RowOK
    <3>2. NoRemoval(o)' <=> NoRemoval(o)
      BY <1>3, <3>1 DEF NoRemoval
    <3>3. /\ s = "validated" => ops[o].state = "validated"
          /\ s \in {"verifying", "committed"} => ops[o].state \in {"verifying", "committed"}
      BY <1>2, <2>3, <3>1, Numbers DEF Moves, RowOK, Current, UnderWay, Active
    <3> QED BY <1>2, <1>3, <1>4, <2>1, <2>3, <3>2, <3>3, Numbers DEF Rest
  <2>4. CASE row[n].id \in Ops \ {o}
    <3>1. PICK c \in Ops : c = row[n].id /\ c # o /\ c # 0
      BY <2>4, Numbers
    <3>2. NoRemoval(c)' => NoRemoval(c) \/ Whole(n, c)
      <4> SUFFICES ASSUME NoRemoval(c)', NEW r \in Ops, ops[r].type = "remove", ops[r].id = c,
                          ops[r].state \in UnderWay
                   PROVE  Whole(n, c)
        BY DEF NoRemoval
      <4>1. r = o
        BY <1>3 DEF NoRemoval
      <4>2. s \notin UnderWay
        BY <1>3, <4>1 DEF NoRemoval
      <4>3. s = "rolled_back" /\ ops[o].state # s
        BY <4>1, <4>2 DEF Moves, UnderWay, Active
      <4> QED BY <1>2, <4>1, <4>3 DEF Earned
    <3>3. ops'[c] = ops[c]
      BY <1>3, <3>1
    <3> QED BY <1>2, <1>4, <2>1, <3>1, <3>2, <3>3 DEF Rest
  <2> QED BY <1>2, <2>2, <2>3, <2>4
<1>6. Progress(o)'
  <2>1. \A t : ~Passed(o, t)'
    BY NothingPassedNext DEF CallStep
  <2>2. call'[o].pc = "complete" => Whole(n, ops[o].id)'
    BY <1>2, <1>3, <1>4 DEF Earned
  <2> QED BY <1>2, <1>3, <1>4, <2>1, <2>2 DEF Progress, Earned
<1>7. Removing(o)'
  <2>1. s = "snapshotted" /\ ops[o].type = "remove" => Whole(n, ops[o].id)
    <3>1. CASE ops[o].state = "snapshotted"
      BY <1>2, <3>1 DEF Removing
    <3>2. CASE ops[o].state = "validated"
      BY <1>2, <3>2, WholeBefore
    <3> QED BY <3>1, <3>2 DEF Moves
  <2> DEFINE conf == file[n]["conf"]
  <2>2. ops[o].type = "remove" /\ s = "executing" => conf \in {Absent, ops[o].id} /\ active[n] \in {0, ops[o].id}
    <3>1. CASE ops[o].state = "executing"
      BY <1>2, <3>1 DEF Removing
    <3>2. CASE ops[o].state = "snapshotted"
      BY <1>2, <3>2 DEF Removing, Whole, KindsOf, Kinds
    <3> QED BY <3>1, <3>2 DEF Moves
  <2>3. ops[o].type = "remove" /\ s = "verifying" => Bare(n) /\ active[n] \in {0, ops[o].id}
    <3>1. CASE ops[o].state = "verifying"
      BY <1>2, <3>1 DEF Removing
    <3>2. CASE ops[o].state # "verifying"
      BY <1>2, <3>2 DEF Earned, Removing, Moves
    <3> QED BY <3>1, <3>2
  <2>4. ops[o].type = "remove" /\ s \in {"rolling_back", "rollback_failed"} =>
          conf \in {Absent, Partial, ops[o].id} /\ (active[n] \in {0, ops[o].id} \/ conf = Partial)
    <3>1. CASE ops[o].state \in {"rolling_back", "rollback_failed"}
      BY <1>2, <3>1 DEF Removing
    <3>2. CASE ops[o].state = "snapshotted"
      BY <1>2, <3>2 DEF Removing, Whole, KindsOf, Kinds
    <3>3. CASE ops[o].state = "executing"
      BY <1>2, <3>3 DEF Removing
    <3>4. CASE ops[o].state = "verifying"
      BY <1>2, <3>4 DEF Removing, Bare, Kinds
    <3> QED BY <3>1, <3>2, <3>3, <3>4 DEF Moves
  <2>5. ~call'[o].half /\ file' = file /\ active' = active
    BY DEF CallStep, HostKept
  <2>6. ops[o].type = "remove" /\ (s \in UnderWay \/ call'[o].pc = "snapshot") => Told(o)'
    BY <1>2 DEF Earned
  <2> QED BY <1>3, <1>4, <2>1, <2>2, <2>3, <2>4, <2>5, <2>6 DEF Removing
<1>8. Boots(n)'
  BY <1>2 DEF Boots, HostKept
<1> QED BY <1>3, <1>5, <1>6, <1>7, <1>8

\* The operation's state changes, or nothing of it.
Written(o, s) ==
  /\ ops' \in [Ops -> OpRecords] /\ Moved(o, s)
  /\ ops'[o].active = ops[o].active /\ ops'[o].enabled = ops[o].enabled

LEMMA WrittenFacts ==
  ASSUME ops \in [Ops -> OpRecords], NEW o \in Ops, NEW s \in States, SetState(o, s)
  PROVE  Written(o, s)
BY SetStateFacts DEF Written, Moved

LEMMA UnwrittenFacts ==
  ASSUME ops \in [Ops -> OpRecords], NEW o \in Ops, ops' = ops
  PROVE  Written(o, ops[o].state)
BY DEF Written, Moved

LEMMA TransitionFacts ==
  ASSUME TypeOK, NEW o \in Ops, NEW from \in States, NEW to \in States
  PROVE  /\ TransitionOk(o, from, to) =>
              Written(o, to) /\ ops[o].state = from /\ ~call[o].gone /\ faults' \in 0..MaxFaults
         /\ TransitionErr(o, from, to) =>
              /\ faults' \in 0..MaxFaults
              /\ Written(o, ops[o].state) \/ (Written(o, to) /\ ops[o].state = from)
<1>1. ops \in [Ops -> OpRecords] /\ faults \in 0..MaxFaults
  BY DEF TypeOK
<1>2. Fault \/ UNCHANGED faults \/ Works(o) \/ Breaks(o) => faults' \in 0..MaxFaults
  BY <1>1, FaultFacts
<1>3. SetState(o, to) => Written(o, to)
  BY <1>1, WrittenFacts
<1>4. ops' = ops => Written(o, ops[o].state)
  BY <1>1, UnwrittenFacts
<1>5. Works(o) => ~call[o].gone
  BY DEF Works
<1> QED BY <1>2, <1>3, <1>4, <1>5 DEF TransitionOk, TransitionErr

LEMMA Journal ==
  ASSUME IInv, NEW o \in Ops, NEW s \in States, ops' \in [Ops -> OpRecords], Moved(o, s), Moves(o, s),
         CallStep(o), faults' \in 0..MaxFaults, overlapped' \in BOOLEAN,
         UNCHANGED <<row, host, mode, edits, touched, raced>>, misled \subseteq misled', misled' \subseteq Names,
         todo' \subseteq Ops, PcOK(o)',
         NameOf(o) \notin touched => Earned(o, s)
  PROVE  IInv'
<1>1. Control /\ Host /\ TypeOK /\ HostKept
  BY DEF IInv, Control, HostKept, host
<1>2. TypeOK'
  BY <1>1 DEF TypeOK, CallStep, host
<1>3. Control'
  BY <1>1, <1>2, JournalControl
<1>4. Host'
  BY <1>1, <1>2, JournalHost
<1> QED BY <1>3, <1>4 DEF IInv

HistoryKept == UNCHANGED <<touched, raced, overlapped>> /\ misled \subseteq misled' /\ misled' \subseteq Names

LEMMA HistoryLemma ==
  ASSUME IInv, UNCHANGED history
  PROVE  HistoryKept
BY DEF IInv, Control, TypeOK, history, HistoryKept

\* The common case: nothing but the state of the operation and the call
LEMMA JournalMoveBoot ==
  ASSUME IInv, NEW o \in Ops, NEW s \in States, Written(o, s), Moves(o, s), CallStep(o),
         faults' \in 0..MaxFaults, UNCHANGED <<row, host, mode, edits, touched, raced, overlapped>>,
         misled \subseteq misled', misled' \subseteq Names, todo' \subseteq Ops, PcOK(o)',
         s \in UnderWay => ops[o].state \in UnderWay \/ call[o].pc = "snapshot",
         s = "verifying" => ops[o].state = s \/ call[o].pc = "verify",
         s = "rolled_back" => ops[o].state = s \/ (call[o].pc = "rb_end" /\ Clean(o)),
         call'[o].pc \notin {"snapshot", "complete", "inspect", "verify", "rb_end"}
  PROVE  IInv'
<1>1. overlapped' \in BOOLEAN /\ touched' = touched /\ raced' = raced
  BY DEF IInv, Control, TypeOK
<1>2. ASSUME NameOf(o) \notin touched
      PROVE  Earned(o, s)
  <2>1. Progress(o) /\ Removing(o) /\ ops[o].type \in {"create", "remove"}
    BY <1>2, OpFields DEF IInv, Host, Control, TypeOK
  <2>2. s = "verifying" /\ ops[o].state # s => Bare(NameOf(o))
    BY <2>1 DEF Progress
  <2>3. s = "rolled_back" /\ ops[o].state # s => Whole(NameOf(o), ops[o].id)
    BY <2>1 DEF Progress, Moves
  <2>4. ops[o].type = "remove" /\ s \in UnderWay => Told(o)'
    <3>1. ops[o].type = "remove" /\ s \in UnderWay => Told(o)
      BY <2>1 DEF Removing
    <3>2. Told(o) => Told(o)'
      BY SameTold DEF Written, Moved, NameOf, host
    <3> QED BY <3>1, <3>2
  <2> QED BY <2>2, <2>3, <2>4 DEF Earned
<1> QED BY <1>1, <1>2, Journal DEF Written

LEMMA JournalMove ==
  ASSUME IInv, NEW o \in Ops, NEW s \in States, Written(o, s), Moves(o, s), CallStep(o),
         faults' \in 0..MaxFaults, UNCHANGED <<row, host, mode, todo, edits, history>>, PcOK(o)',
         s \in UnderWay => ops[o].state \in UnderWay \/ call[o].pc = "snapshot",
         s = "verifying" => ops[o].state = s \/ call[o].pc = "verify",
         s = "rolled_back" => ops[o].state = s \/ (call[o].pc = "rb_end" /\ Clean(o)),
         call'[o].pc \notin {"snapshot", "complete", "inspect", "verify", "rb_end"}
  PROVE  IInv'
<1>1. todo' \subseteq Ops /\ HistoryKept
  BY HistoryLemma DEF IInv, Control, TypeOK
<1> QED BY <1>1, JournalMoveBoot DEF HistoryKept

-----------------------------------------------------------------------------
(* One step per action: a request up to its snapshot *)

LEMMA StayStep ==
  ASSUME Control, NEW o \in Ops, call[o].pc \notin {"do", "undo"}, UNCHANGED <<call, lock>>, failed' \in BOOLEAN
  PROVE  CallStep(o) /\ call'[o].pc = call[o].pc
<1>1. TypeOK /\ LockOK(o) /\ HalfOK(o)
  BY DEF Control
<1>2. call[o].i = 1 /\ ~call[o].half
  BY <1>1 DEF HalfOK
<1> QED BY <1>1, <1>2 DEF CallStep, TypeOK, LockOK, Free

LEMMA Known ==
  ASSUME IInv, NEW o \in Ops
  PROVE  /\ Control /\ Host /\ TypeOK /\ PcOK(o) /\ OpOK(o) /\ ops[o].state \in States
         /\ ops[o].type \in {"create", "remove"} /\ NameOf(o) \in Names /\ ops[o].id \in Ops \cup {0}
         /\ ops \in [Ops -> OpRecords]
         /\ (UNCHANGED faults \/ Fault \/ Works(o) \/ Breaks(o)) => faults' \in 0..MaxFaults
         /\ ops' = ops => Written(o, ops[o].state)
<1>1. Control /\ Host /\ TypeOK /\ PcOK(o) /\ OpOK(o) /\ ops \in [Ops -> OpRecords] /\ faults \in 0..MaxFaults
  BY DEF IInv, Control, TypeOK
<1> QED BY <1>1, OpFields, FaultFacts, UnwrittenFacts

LEMMA CommitKeeps ==
  ASSUME IInv, NEW o \in Ops, Commit(o)
  PROVE  IInv'
<1>1. /\ call[o].pc = "idle" /\ ops[o].state = "pending" /\ Goto(o, "lock") /\ ops' = ops
      /\ UNCHANGED <<row, host, mode, todo, edits, history>> /\ faults' = faults
  BY DEF Commit
<1>2. CallStep(o) /\ call'[o].pc = "lock"
  BY <1>1, Known, GotoStep DEF PCs, Free
<1>3. PcOK(o)'
  BY <1>1, <1>2 DEF PcOK
<1> QED BY <1>1, <1>2, <1>3, Known, JournalMove DEF Moves, UnderWay

LEMMA CommitExpiredKeeps ==
  ASSUME IInv, NEW o \in Ops, CommitExpired(o)
  PROVE  IInv'
<1>1. /\ call[o].pc = "idle" /\ ops[o].state = "pending" /\ SetState(o, "expired")
      /\ UNCHANGED <<row, host, mode, todo, edits, history>> /\ faults' = faults
      /\ UNCHANGED <<call, lock>> /\ failed' \in BOOLEAN
  BY Known DEF CommitExpired, agent, TypeOK
<1>2. CallStep(o) /\ call'[o].pc = "idle"
  BY <1>1, Known, StayStep
<1>3. PcOK(o)'
  BY <1>2 DEF PcOK
<1>4. Written(o, "expired") /\ "expired" \in States
  BY <1>1, Known, WrittenFacts DEF States
<1> QED BY <1>1, <1>2, <1>3, <1>4, Known, JournalMove DEF Moves, UnderWay, Active

LEMMA LockInterfaceKeeps ==
  ASSUME IInv, NEW o \in Ops, LockInterface(o)
  PROVE  IInv'
<1>1. /\ call[o].pc = "lock" /\ lock[NameOf(o)] = 0 /\ ops' = ops
      /\ UNCHANGED <<row, host, mode, todo, edits, history>> /\ faults' = faults /\ failed' = failed
  BY DEF LockInterface, agent
<1>2. CallStep(o) /\ call'[o].pc = "preflight"
  <2>1. TypeOK /\ HalfOK(o) /\ NameOf(o) \in Names
    BY Known DEF Control
  <2>2. call[o].i = 1 /\ ~call[o].half
    BY <1>1, <2>1 DEF HalfOK
  <2>3. /\ call'[o] = [call[o] EXCEPT !.pc = "preflight"] /\ \A q \in Ops \ {o} : call'[q] = call[q]
        /\ lock' = [lock EXCEPT ![NameOf(o)] = o]
    BY <2>1 DEF LockInterface, TypeOK
  <2>4. [call[o] EXCEPT !.pc = "preflight"] \in CallRecords
    <3>1. "preflight" \in PCs /\ call[o] \in CallRecords
      BY <2>1 DEF PCs, TypeOK
    <3> QED BY <3>1, Zenon DEF CallRecords
  <2>5. call' \in [Ops -> CallRecords]
    BY <2>1, <2>4 DEF LockInterface, TypeOK
  <2>6. call'[o].pc = "preflight" /\ call'[o].i = call[o].i /\ call'[o].half = call[o].half
    <3>1. call[o] \in CallRecords
      BY <2>1 DEF TypeOK
    <3> QED BY <2>3, <3>1, Zenon DEF CallRecords
  <2>7. lock' \in [Names -> Ops \cup {0}] /\ lock'[NameOf(o)] = o
        /\ \A q \in Ops \ {o}, n \in Names : lock[n] = q => lock'[n] = q
    BY <1>1, <2>1, <2>3, Numbers DEF TypeOK
  <2> QED BY <1>1, <2>1, <2>2, <2>3, <2>5, <2>6, <2>7 DEF CallStep, TypeOK
<1>3. PcOK(o)'
  BY <1>1, <1>2, Known DEF PcOK
<1> QED BY <1>1, <1>2, <1>3, Known, JournalMove DEF Moves, UnderWay

LEMMA CommitPreflightKeeps ==
  ASSUME IInv, NEW o \in Ops, CommitPreflight(o)
  PROVE  IInv'
<1>1. /\ call[o].pc = "preflight" /\ ops' = ops /\ ops[o].state \in {"pending", "expired"}
      /\ UNCHANGED <<row, host, mode, todo, edits, history>> /\ faults' \in 0..MaxFaults
  BY Known DEF CommitPreflight, PcOK
<1>2. CASE Return(o, TRUE)
  <2>1. CallStep(o) /\ call'[o].pc = "idle"
    BY <1>2, Known, ReturnStep
  <2>2. PcOK(o)'
    BY <2>1 DEF PcOK
  <2> QED BY <1>1, <2>1, <2>2, Known, JournalMove DEF Moves, UnderWay, Active
<1>3. CASE Goto(o, "validate") /\ (ops[o].type # "create" => PreflightRemoval(NameOf(o), ops[o].id))
  <2>1. CallStep(o) /\ call'[o].pc = "validate"
    BY <1>1, <1>3, Known, GotoStep DEF PCs, Free
  <2>2. PcOK(o)'
    BY <1>1, <1>3, <2>1 DEF PcOK, PreflightRemoval, NameOf
  <2> QED BY <1>1, <2>1, <2>2, Known, JournalMove DEF Moves, UnderWay, Active
<1> QED BY <1>2, <1>3 DEF CommitPreflight

LEMMA ValidateKeeps ==
  ASSUME IInv, NEW o \in Ops, Validate(o)
  PROVE  IInv'
<1>1. /\ call[o].pc = "validate" /\ ops[o].state \in {"pending", "expired"}
      /\ UNCHANGED <<row, host, mode, todo, edits, history>>
      /\ ops[o].state = "pending" /\ ops[o].type # "create" => row[NameOf(o)].id = ops[o].id
  BY Known DEF Validate, PcOK
<1>2. "pending" \in States /\ "validated" \in States
  BY DEF States, Active
<1>3. CASE TransitionErr(o, "pending", "validated") /\ Return(o, TRUE)
  <2>1. CallStep(o) /\ call'[o].pc = "idle"
    BY <1>3, Known, ReturnStep
  <2>2. PcOK(o)'
    BY <2>1 DEF PcOK
  <2>3. /\ faults' \in 0..MaxFaults
        /\ Written(o, ops[o].state) \/ (Written(o, "validated") /\ ops[o].state = "pending")
    BY <1>2, <1>3, Known, TransitionFacts
  <2> QED BY <1>1, <1>2, <2>1, <2>2, <2>3, Known, JournalMove DEF Moves, UnderWay, Active
<1>4. CASE /\ TransitionOk(o, "pending", "validated")
           /\ Goto(o, IF ops[o].type = "create" THEN "reserve" ELSE "read")
  <2>1. CallStep(o) /\ call'[o].pc = IF ops[o].type = "create" THEN "reserve" ELSE "read"
    BY <1>1, <1>4, Known, GotoStep DEF PCs, Free
  <2>2. Written(o, "validated") /\ ops[o].state = "pending" /\ faults' \in 0..MaxFaults
    BY <1>2, <1>4, Known, TransitionFacts
  <2>3. PcOK(o)'
    BY <2>1, <2>2, Known, Numbers DEF PcOK, OpOK, Written, Moved
  <2> QED BY <1>1, <1>2, <2>1, <2>2, <2>3, JournalMove DEF Moves, UnderWay, Active
<1> QED BY <1>3, <1>4 DEF Validate

LEMMA NoteOverlapType ==
  ASSUME overlapped \in BOOLEAN, NEW o \in Ops, NoteOverlap(o)
  PROVE  overlapped' \in BOOLEAN
BY Zenon DEF NoteOverlap

LEMMA ReadKeeps ==
  ASSUME IInv, NEW o \in Ops, Read(o)
  PROVE  IInv'
<1>1. /\ call[o].pc = "read" /\ ops[o].state = "validated" /\ ops[o].id # 0
      /\ UNCHANGED <<row, host, mode, todo, edits, touched, raced>> /\ misled \subseteq Names
      /\ todo' \subseteq Ops
      /\ overlapped \in BOOLEAN /\ fwd \in {0, 1} /\ "validated" \in States /\ ops[o] \in OpRecords
  BY Known DEF Read, PcOK, TypeOK, States, Active
<1>2. CASE UNCHANGED <<ops, misled, overlapped>> /\ Goto(o, "reject") /\ (Fault \/ UNCHANGED faults)
  <2>1. CallStep(o) /\ call'[o].pc = "reject"
    BY <1>1, <1>2, Known, GotoStep DEF PCs, Free
  <2>2. PcOK(o)'
    BY <1>1, <1>2, <2>1 DEF PcOK
  <2>3. UNCHANGED <<row, host, mode, todo, edits, history>> /\ ops' = ops /\ faults' \in 0..MaxFaults
    BY <1>1, <1>2, Known DEF history
  <2> QED BY <1>1, <2>1, <2>2, <2>3, Known, JournalMove DEF Moves, UnderWay, Active
<1>3. ASSUME NEW b \in {0, 1}, NEW a \in {0, 1}, NEW act \in BOOLEAN, NEW enb \in BOOLEAN,
             ops' = [ops EXCEPT ![o] = [ops[o] EXCEPT !.before = b, !.after = a, !.active = act, !.enabled = enb]],
             NoteOverlap(o), Goto(o, "snapshot"), faults' \in 0..MaxFaults,
             misled \subseteq misled', misled' \subseteq Names,
             ops[o].type = "remove" =>
               /\ act => active[NameOf(o)] # 0
               /\ enb => enabled[NameOf(o)]
               /\ NameOf(o) \in misled' \/ ((act <=> active[NameOf(o)] # 0) /\ (enb <=> enabled[NameOf(o)]))
      PROVE  IInv'
  <2> DEFINE w == [ops[o] EXCEPT !.before = b, !.after = a, !.active = act, !.enabled = enb]
  <2>1. w \in OpRecords
    BY <1>1, Zenon DEF OpRecords
  <2>2. /\ w.state = ops[o].state /\ w.type = ops[o].type /\ w.name = ops[o].name /\ w.id = ops[o].id
        /\ w.active = act /\ w.enabled = enb
    BY <1>1, Zenon DEF OpRecords
  <2> HIDE DEF w
  <2>3. ops' = [ops EXCEPT ![o] = w] /\ ops \in [Ops -> OpRecords]
    BY <1>3, Known DEF w
  <2>4. ops' \in [Ops -> OpRecords] /\ ops'[o] = w /\ \A q \in Ops \ {o} : ops'[q] = ops[q]
    BY <2>1, <2>3
  <2>5. Moved(o, "validated") /\ Moves(o, "validated")
    BY <1>1, <2>2, <2>4 DEF Moved, Moves
  <2>6. CallStep(o) /\ call'[o].pc = "snapshot"
    BY <1>1, <1>3, Known, GotoStep DEF PCs, Free
  <2>7. PcOK(o)'
    BY <1>1, <2>2, <2>4, <2>6 DEF PcOK
  <2>8. overlapped' \in BOOLEAN
    BY <1>1, <1>3, NoteOverlapType
  <2>9. ASSUME NameOf(o) \notin touched
        PROVE  Earned(o, "validated")
    <3>1. ops[o].type = "remove" => Whole(NameOf(o), ops[o].id)
      <4>1. Rest(NameOf(o)) /\ Control
        BY <2>9, Known DEF Host
      <4> QED BY <1>1, <4>1, WholeBefore
    <3>2. ops[o].type = "remove" => Told(o)'
      <4> SUFFICES ASSUME ops[o].type = "remove"
                   PROVE  Told(o)'
        OBVIOUS
      <4> DEFINE n == NameOf(o)
      <4>1. active[n] = ops[o].id /\ enabled[n] = (n \in AutoStart) /\ enabled[n] \in BOOLEAN
        BY <3>1, Known DEF Whole, TypeOK
      <4>2. /\ ops'[o].active = act /\ ops'[o].enabled = enb /\ ops'[o].id = ops[o].id /\ NameOf(o)' = n
            /\ active' = active /\ enabled' = enabled
        BY <1>1, <2>2, <2>4 DEF NameOf, host
      <4>3. n \in misled' \/ (act /\ (enb <=> n \in AutoStart))
        BY <1>1, <1>3, <4>1
      <4>4. enb => n \in AutoStart
        BY <1>3, <4>1
      <4> HIDE DEF n
      <4> QED BY <4>1, <4>2, <4>3, <4>4 DEF Told
    <3> QED BY <1>1, <2>6, <3>2 DEF Earned
  <2> QED BY <1>1, <1>3, <2>4, <2>5, <2>6, <2>7, <2>8, <2>9, Journal
<1>4. CASE /\ ops[o].type = "create" /\ ops' = [ops EXCEPT ![o].before = fwd, ![o].after = 1]
           /\ NoteOverlap(o) /\ Goto(o, "snapshot") /\ UNCHANGED <<faults, misled>>
  <2>1. ops[o].active \in BOOLEAN /\ ops[o].enabled \in BOOLEAN
    BY Known, OpFields
  <2>2. ops' = [ops EXCEPT ![o] = [ops[o] EXCEPT !.before = fwd, !.after = 1, !.active = ops[o].active,
                                                !.enabled = ops[o].enabled]]
    <3>1. [ops[o] EXCEPT !.before = fwd, !.after = 1, !.active = ops[o].active, !.enabled = ops[o].enabled]
            = [ops[o] EXCEPT !.before = fwd, !.after = 1]
      BY <1>1 DEF OpRecords
    <3>2. [ops EXCEPT ![o].before = fwd, ![o].after = 1] = [ops EXCEPT ![o] = [ops[o] EXCEPT !.before = fwd, !.after = 1]]
      BY Known
    <3> QED BY <1>4, <3>1, <3>2
  <2>3. 1 \in {0, 1} /\ faults' \in 0..MaxFaults /\ ops[o].type # "remove"
        /\ misled \subseteq misled' /\ misled' \subseteq Names
    BY <1>1, <1>4, Known
  <2> QED BY <1>1, <1>3, <1>4, <2>1, <2>2, <2>3
<1>5. CASE /\ ops[o].type = "remove"
           /\ \E isActive, isEnabled \in BOOLEAN :
                /\ QueryBoth(o, isActive, isEnabled)
                /\ ops' = [ops EXCEPT ![o].before = fwd, ![o].after = RestoredForwarding(o),
                                      ![o].active = isActive, ![o].enabled = isEnabled]
           /\ NoteOverlap(o) /\ Goto(o, "snapshot")
  <2>1. PICK act \in BOOLEAN, enb \in BOOLEAN :
                /\ QueryBoth(o, act, enb)
                /\ ops' = [ops EXCEPT ![o].before = fwd, ![o].after = RestoredForwarding(o),
                                      ![o].active = act, ![o].enabled = enb]
    BY <1>5
  <2>2. RestoredForwarding(o) \in {0, 1}
    <3>1. ops[o].id \in Ops
      BY <1>5, Known DEF OpOK
    <3>2. ops[ops[o].id].before \in {0, 1}
      BY <3>1, Known, OpFields
    <3> QED BY <1>1, <3>2 DEF RestoredForwarding
  <2>3. ops' = [ops EXCEPT ![o] = [ops[o] EXCEPT !.before = fwd, !.after = RestoredForwarding(o), !.active = act,
                                                !.enabled = enb]]
    BY <2>1, Known
  <2>4. faults' \in 0..MaxFaults
    BY <2>1, Known DEF QueryBoth
  <2>5. /\ misled \subseteq misled' /\ misled' \subseteq Names
        /\ act => active[NameOf(o)] # 0
        /\ enb => enabled[NameOf(o)]
        /\ NameOf(o) \in misled' \/ ((act <=> active[NameOf(o)] # 0) /\ (enb <=> enabled[NameOf(o)]))
    <3>1. enabled[NameOf(o)] \in BOOLEAN /\ NameOf(o) \in Names
      BY Known DEF TypeOK
    <3> QED BY <1>1, <2>1, <3>1 DEF QueryBoth
  <2> HIDE DEF RestoredForwarding
  <2> QED BY <1>1, <1>3, <1>5, <2>2, <2>3, <2>4, <2>5
<1> QED BY <1>2, <1>4, <1>5 DEF Read

LEMMA SnapshotKeeps ==
  ASSUME IInv, NEW o \in Ops, Snapshot(o)
  PROVE  IInv'
<1>1. /\ call[o].pc = "snapshot" /\ ops[o].state = "validated" /\ ops[o].id # 0
      /\ UNCHANGED <<row, host, mode, todo, edits, history>>
      /\ "validated" \in States /\ "snapshotted" \in States
  BY Known DEF Snapshot, PcOK, States, Active
<1>2. CASE TransitionOk(o, "validated", "snapshotted") /\ Goto(o, "begin")
  <2>1. CallStep(o) /\ call'[o].pc = "begin"
    BY <1>1, <1>2, Known, GotoStep DEF PCs, Free
  <2>2. Written(o, "snapshotted") /\ faults' \in 0..MaxFaults
    BY <1>1, <1>2, Known, TransitionFacts
  <2>3. PcOK(o)'
    BY <2>1, <2>2 DEF PcOK, Written, Moved
  <2> QED BY <1>1, <2>1, <2>2, <2>3, JournalMove DEF Moves
<1>3. CASE Breaks(o) /\ UNCHANGED ops /\ Goto(o, "reject")
  <2>1. CallStep(o) /\ call'[o].pc = "reject"
    BY <1>1, <1>3, Known, GotoStep DEF PCs, Free
  <2>2. PcOK(o)'
    BY <1>1, <1>3, <2>1 DEF PcOK
  <2> QED BY <1>1, <1>3, <2>1, <2>2, Known, JournalMove DEF Moves
<1>4. CASE Fault /\ SetState(o, "snapshotted") /\ Return(o, TRUE)
  <2>1. CallStep(o) /\ call'[o].pc = "idle"
    BY <1>4, Known, ReturnStep
  <2>2. PcOK(o)'
    BY <2>1 DEF PcOK
  <2>3. Written(o, "snapshotted") /\ faults' \in 0..MaxFaults
    BY <1>1, <1>4, Known, WrittenFacts
  <2> QED BY <1>1, <2>1, <2>2, <2>3, JournalMove DEF Moves
<1> QED BY <1>2, <1>3, <1>4 DEF Snapshot

LEMMA BeginKeeps ==
  ASSUME IInv, NEW o \in Ops, Begin(o)
  PROVE  IInv'
<1>1. /\ call[o].pc = "begin" /\ ops[o].state = "snapshotted"
      /\ UNCHANGED <<row, host, mode, todo, edits, history>>
      /\ "snapshotted" \in States /\ "executing" \in States /\ {"snapshotted", "executing"} \subseteq UnderWay
  BY Known DEF Begin, PcOK, States, Active, UnderWay
<1>2. CASE TransitionOk(o, "snapshotted", "executing") /\ Goto(o, "do")
  <2>1. CallStep(o) /\ call'[o].pc = "do"
    BY <1>1, <1>2, Known, GotoStep DEF PCs, Free
  <2>2. Written(o, "executing") /\ faults' \in 0..MaxFaults
    BY <1>1, <1>2, Known, TransitionFacts
  <2>3. PcOK(o)'
    BY <2>1, <2>2 DEF PcOK, Written, Moved
  <2> QED BY <1>1, <2>1, <2>2, <2>3, JournalMove DEF Moves
<1>3. CASE TransitionErr(o, "snapshotted", "executing") /\ (Return(o, TRUE) \/ Goto(o, "rb_begin"))
  <2>1. /\ faults' \in 0..MaxFaults
        /\ Written(o, ops[o].state) \/ (Written(o, "executing") /\ ops[o].state = "snapshotted")
    BY <1>1, <1>3, Known, TransitionFacts
  <2>2. PICK s \in {"snapshotted", "executing"} : Written(o, s)
    BY <1>1, <2>1
  <2>3. CASE Return(o, TRUE)
    <3>1. CallStep(o) /\ call'[o].pc = "idle"
      BY <2>3, Known, ReturnStep
    <3>2. PcOK(o)'
      BY <3>1 DEF PcOK
    <3> QED BY <1>1, <2>1, <2>2, <3>1, <3>2, JournalMove DEF Moves
  <2>4. CASE Goto(o, "rb_begin")
    <3>1. CallStep(o) /\ call'[o].pc = "rb_begin"
      BY <1>1, <2>4, Known, GotoStep DEF PCs, Free
    <3>2. PcOK(o)'
      BY <1>1, <2>2, <3>1 DEF PcOK, Written, Moved
    <3> QED BY <1>1, <2>1, <2>2, <3>1, <3>2, JournalMove DEF Moves
  <2> QED BY <1>3, <2>3, <2>4
<1> QED BY <1>2, <1>3 DEF Begin

-----------------------------------------------------------------------------
(* One step per action: the end of an operation, its rollback *)

LEMMA InspectKeeps ==
  ASSUME IInv, NEW o \in Ops, Inspect(o)
  PROVE  IInv'
<1>1. /\ call[o].pc = "inspect" /\ ops[o].state = "executing" /\ ops[o].type = "create"
      /\ UNCHANGED <<row, host, mode, todo, edits, history>>
      /\ "executing" \in States /\ "executing" \in UnderWay
  BY Known DEF Inspect, PcOK, States, Active, UnderWay
<1>2. CASE (Fault \/ UNCHANGED faults) /\ UNCHANGED ops /\ Goto(o, "rb_begin")
  <2>1. CallStep(o) /\ call'[o].pc = "rb_begin"
    BY <1>1, <1>2, Known, GotoStep DEF PCs, Free
  <2>2. PcOK(o)'
    BY <1>1, <1>2, <2>1 DEF PcOK, UnderWay
  <2> QED BY <1>1, <1>2, <2>1, <2>2, Known, JournalMove DEF Moves
<1>3. CASE /\ UNCHANGED faults /\ Goto(o, "complete")
           /\ ops' = [ops EXCEPT ![o].hash = file[NameOf(o)]["conf"]]
  <2> DEFINE w == [ops[o] EXCEPT !.hash = file[NameOf(o)]["conf"]]
  <2>1. ops[o] \in OpRecords /\ file[NameOf(o)]["conf"] \in Contents
    BY Known DEF TypeOK, Kinds
  <2>2. w \in OpRecords
    BY <2>1, Zenon DEF OpRecords
  <2>3. w.state = ops[o].state /\ w.type = ops[o].type /\ w.name = ops[o].name /\ w.id = ops[o].id
    BY <2>1, Zenon DEF OpRecords
  <2>4. ops' = [ops EXCEPT ![o] = w]
    BY <1>3, Known
  <2> HIDE DEF w
  <2>5. ops' \in [Ops -> OpRecords] /\ ops'[o] = w /\ \A q \in Ops \ {o} : ops'[q] = ops[q]
    BY <2>2, <2>4, Known
  <2>6. Moved(o, "executing") /\ Moves(o, "executing")
    BY <1>1, <2>3, <2>5 DEF Moved, Moves
  <2>7. CallStep(o) /\ call'[o].pc = "complete"
    BY <1>1, <1>3, Known, GotoStep DEF PCs, Free
  <2>8. PcOK(o)'
    BY <1>1, <2>3, <2>5, <2>7 DEF PcOK
  <2>9. /\ overlapped' \in BOOLEAN /\ touched' = touched /\ raced' = raced /\ faults' \in 0..MaxFaults
        /\ todo' \subseteq Ops /\ misled \subseteq misled' /\ misled' \subseteq Names
    BY <1>1, <1>3, Known DEF TypeOK, history
  <2>10. ASSUME NameOf(o) \notin touched
         PROVE  Earned(o, "executing")
    <3>1. Whole(NameOf(o), ops[o].id)
      BY <1>1, <2>10, Known DEF Host, Progress
    <3> QED BY <1>1, <2>7, <3>1 DEF Earned
  <2> QED BY <1>1, <2>5, <2>6, <2>7, <2>8, <2>9, <2>10, Journal
<1> QED BY <1>2, <1>3 DEF Inspect

LEMMA CheckServiceKeeps ==
  ASSUME IInv, NEW o \in Ops, CheckService(o)
  PROVE  IInv'
<1>1. /\ call[o].pc = "check" /\ ops[o].state = "verifying" /\ ops[o].type = "create" /\ ops' = ops
      /\ UNCHANGED <<row, host, mode, todo, edits, touched, raced, overlapped>> /\ "verifying" \in UnderWay
      /\ todo' \subseteq Ops
  BY Known DEF CheckService, PcOK, Active, UnderWay, TypeOK
<1>2. PICK l \in {"finalize", "rb_begin"} : Goto(o, l)
  BY DEF CheckService
<1>3. faults' \in 0..MaxFaults /\ misled \subseteq misled' /\ misled' \subseteq Names
  BY Known DEF CheckService, Query, TypeOK
<1>4. CallStep(o) /\ call'[o].pc = l
  BY <1>1, <1>2, Known, GotoStep DEF PCs, Free
<1>5. PcOK(o)'
  BY <1>1, <1>4 DEF PcOK, UnderWay
<1> QED BY <1>1, <1>3, <1>4, <1>5, Known, JournalMoveBoot DEF Moves

LEMMA FinalizeKeeps ==
  ASSUME IInv, NEW o \in Ops, Finalize(o)
  PROVE  IInv'
<1>1. /\ call[o].pc = "finalize" /\ ops[o].state = "verifying" /\ ops[o].type = "create"
      /\ UNCHANGED <<row, host, mode, todo, edits, history>>
      /\ "verifying" \in States /\ "committed" \in States /\ "verifying" \in UnderWay
  BY Known DEF Finalize, PcOK, States, Active, UnderWay
<1>2. CallStep(o) /\ call'[o].pc = "idle"
  BY Known, ReturnStep DEF Finalize
<1>3. PcOK(o)'
  BY <1>2 DEF PcOK
<1>4. faults' \in 0..MaxFaults /\ (Written(o, "verifying") \/ Written(o, "committed"))
  BY <1>1, Known, TransitionFacts DEF Finalize
<1> QED BY <1>1, <1>2, <1>3, <1>4, JournalMove DEF Moves

LEMMA ToVerifyingKeeps ==
  ASSUME IInv, NEW o \in Ops, ToVerifying(o)
  PROVE  IInv'
<1>1. /\ call[o].pc = "verify" /\ ops[o].state = "executing" /\ ops[o].type # "create"
      /\ UNCHANGED <<row, host, mode, todo, edits, history>>
      /\ {"executing", "verifying"} \subseteq States /\ {"executing", "verifying"} \subseteq UnderWay
  BY Known DEF ToVerifying, PcOK, States, Active, UnderWay
<1>2. CASE TransitionOk(o, "executing", "verifying") /\ Goto(o, "delete")
  <2>1. CallStep(o) /\ call'[o].pc = "delete"
    BY <1>1, <1>2, Known, GotoStep DEF PCs, Free
  <2>2. Written(o, "verifying") /\ faults' \in 0..MaxFaults
    BY <1>1, <1>2, Known, TransitionFacts
  <2>3. PcOK(o)'
    BY <1>1, <2>1, <2>2 DEF PcOK, Written, Moved
  <2> QED BY <1>1, <2>1, <2>2, <2>3, JournalMove DEF Moves
<1>3. CASE TransitionErr(o, "executing", "verifying") /\ Goto(o, "rb_begin")
  <2>1. CallStep(o) /\ call'[o].pc = "rb_begin"
    BY <1>1, <1>3, Known, GotoStep DEF PCs, Free
  <2>2. faults' \in 0..MaxFaults /\ \E s \in {"executing", "verifying"} : Written(o, s)
    BY <1>1, <1>3, Known, TransitionFacts
  <2>3. PICK s \in {"executing", "verifying"} : Written(o, s)
    BY <2>2
  <2>4. PcOK(o)'
    BY <1>1, <2>1, <2>3 DEF PcOK, Written, Moved, UnderWay
  <2> QED BY <1>1, <2>1, <2>2, <2>3, <2>4, JournalMove DEF Moves
<1> QED BY <1>2, <1>3 DEF ToVerifying

LEMMA RollbackBeginKeeps ==
  ASSUME IInv, NEW o \in Ops, RollbackBegin(o)
  PROVE  IInv'
<1> DEFINE st == ops[o].state
<1>1. /\ call[o].pc = "rb_begin"
      /\ st \in {"snapshotted", "executing", "verifying", "rolling_back", "committed"}
      /\ UNCHANGED <<row, host, mode, todo, edits, history>>
      /\ "rolling_back" \in States /\ {"snapshotted", "executing", "verifying", "rolling_back"} \subseteq UnderWay
  BY Known DEF RollbackBegin, PcOK, States, Active, UnderWay
<1>2. CASE Return(o, TRUE) \/ Return(o, ops[o].type = "remove" /\ st \notin {"committed", "rolled_back"})
           \/ Return(o, ops[o].type = "remove")
  <2>1. CallStep(o) /\ call'[o].pc = "idle"
    <3>1. Control /\ (ops[o].type = "remove" /\ st \notin {"committed", "rolled_back"}) \in BOOLEAN
          /\ (ops[o].type = "remove") \in BOOLEAN /\ TRUE \in BOOLEAN
      BY Known
    <3> QED BY <1>2, <3>1, ReturnStep
  <2>2. PcOK(o)'
    BY <2>1 DEF PcOK
  <2>3. /\ faults' \in 0..MaxFaults
        /\ Written(o, st) \/ (Written(o, "rolling_back") /\ st \in {"snapshotted", "executing", "verifying"})
    <3>1. CASE st \in {"snapshotted", "executing", "verifying"} /\ TransitionErr(o, st, "rolling_back")
      BY <1>1, <3>1, Known, TransitionFacts
    <3>2. CASE ops' = ops /\ (Works(o) \/ Breaks(o))
      BY <3>2, Known
    <3>3. CASE st \in {"snapshotted", "executing", "verifying"} /\ TransitionOk(o, st, "rolling_back")
      BY <1>1, <3>3, Known, TransitionFacts
    <3> QED BY <3>1, <3>2, <3>3 DEF RollbackBegin
  <2> QED BY <1>1, <2>1, <2>2, <2>3, Known, JournalMove DEF Moves
<1>3. CASE Goto(o, "undo") /\ \/ TransitionOk(o, st, "rolling_back") /\ st \in {"snapshotted", "executing", "verifying"}
                              \/ Works(o) /\ ops' = ops /\ st = "rolling_back"
  <2>1. CallStep(o) /\ call'[o].pc = "undo"
    BY <1>1, <1>3, Known, GotoStep DEF PCs, Free
  <2>2. /\ faults' \in 0..MaxFaults /\ Written(o, "rolling_back")
        /\ st \in {"snapshotted", "executing", "verifying", "rolling_back"}
    BY <1>1, <1>3, Known, TransitionFacts
  <2>3. PcOK(o)'
    BY <2>1, <2>2 DEF PcOK, Written, Moved
  <2> QED BY <1>1, <2>1, <2>2, <2>3, JournalMove DEF Moves
<1> QED BY <1>2, <1>3 DEF RollbackBegin

LEMMA RecoverManualKeeps ==
  ASSUME IInv, NEW o \in Ops, RecoverManual(o)
  PROVE  IInv'
<1>1. /\ call[o].pc = "manual" /\ ops[o].state = "rolling_back"
      /\ UNCHANGED <<row, host, mode, todo, edits, history>>
      /\ {"rolling_back", "rollback_failed"} \subseteq States /\ "rolling_back" \in UnderWay
  BY Known DEF RecoverManual, PcOK, States, Active, UnderWay
<1>2. CallStep(o) /\ call'[o].pc = "idle"
  BY Known, ReturnStep DEF RecoverManual
<1>3. PcOK(o)'
  BY <1>2 DEF PcOK
<1>4. faults' \in 0..MaxFaults /\ (Written(o, "rolling_back") \/ Written(o, "rollback_failed"))
  BY <1>1, Known, TransitionFacts DEF RecoverManual
<1> QED BY <1>1, <1>2, <1>3, <1>4, JournalMove DEF Moves

-----------------------------------------------------------------------------
(* One step per action: the steps that change a row *)

\* While a call holds the lock nobody else works on the interface.
LEMMA HoldsLock ==
  ASSUME Control, NEW o \in Ops, call[o].pc \notin Free
  PROVE  \A q \in Ops \ {o} : NameOf(q) = NameOf(o) => call[q].pc \in Free
BY DEF Control, LockOK, Free

LEMMA RowStep ==
  ASSUME IInv, NEW o \in Ops, ops' \in [Ops -> OpRecords], row' \in [Names -> RowRecords],
         \A q \in Ops \ {o} : ops'[q] = ops[q],
         ops'[o].type = ops[o].type, ops'[o].name = ops[o].name,
         \A m \in Names \ {NameOf(o)} : row'[m] = row[m], Lawful(o), CallStep(o),
         faults' \in 0..MaxFaults, UNCHANGED <<host, mode, edits, history>>, todo' \subseteq Ops,
         call'[o].pc \in {"idle", "read", "reject", "check", "rb_begin"},
         PcOK(o)', OpOK(o)', RowOK(NameOf(o))',
         NameOf(o) \notin touched => Rest(NameOf(o))' /\ Removing(o)'
  PROVE  IInv'
<1>1. Control /\ Host /\ TypeOK
  BY DEF IInv, Control
<1>2. TypeOK'
  BY <1>1 DEF TypeOK, CallStep, host, history
<1>3. /\ \A q \in Ops : ops'[q].name = ops[q].name /\ NameOf(q) \in Names
      /\ NameOf(o)' = NameOf(o)
  BY Known, OpFields DEF NameOf
<1>4. LockOK(o)' /\ \A q \in Ops \ {o} : LockOK(q) => LockOK(q)'
  BY <1>3, LocksKept
<1>5. Own(o)
  BY <1>3, <1>4 DEF Own, CallStep, host, history
<1>6. Locked(o)
  BY DEF Locked, host
<1>7. Unused(NameOf(o))'
  <2>1. Unused(NameOf(o)) /\ file' = file /\ enabled' = enabled
    BY <1>1, <1>3 DEF Control, host
  <2> QED BY <1>3, <2>1 DEF Unused, KindsOf
<1>8. HalfOK(o)'
  <2>1. More(o, 1)'
    BY MoreAtStartAgain
  <2> QED BY <2>1 DEF HalfOK, CallStep
<1>9. Control'
  BY <1>1, <1>2, <1>4, <1>5, <1>6, <1>7, <1>8, ControlStep
<1>10. Progress(o)'
  BY DEF Progress
<1>11. NameOf(o) \notin touched => Boots(NameOf(o))'
  <2>1. NameOf(o) \notin touched => Boots(NameOf(o))
    BY <1>1, <1>3 DEF Host
  <2> QED BY <1>3, <2>1 DEF Boots, host
<1>12. Host'
  BY <1>1, <1>2, <1>5, <1>6, <1>10, <1>11, HostStepFrame
<1> QED BY <1>9, <1>12 DEF IInv

LEMMA NoRowFacts == NoRow \in RowRecords /\ NoRow.id = 0 /\ NoRow.rev = 0
BY DEF NoRow, RowRecords, Contents

LEMMA ReserveKeeps ==
  ASSUME IInv, NEW o \in Ops, Reserve(o)
  PROVE  IInv'
<1> DEFINE n == NameOf(o)
<1>1. /\ call[o].pc = "reserve" /\ ops[o].state = "validated" /\ ops[o].type = "create" /\ ops[o].id = 0
      /\ UNCHANGED <<host, mode, todo, edits, history>> /\ "validated" \in States /\ ops[o] \in OpRecords
      /\ row \in [Names -> RowRecords] /\ todo' \subseteq Ops
  BY Known DEF Reserve, PcOK, States, Active, TypeOK
<1>2. PICK l \in {"read", "reject"} : Goto(o, l) /\ (row' = row => l = "reject")
  <2>1. row[n] = NoRow /\ row' = [row EXCEPT ![n].id = o] => row' # row
    BY <1>1, Known, NoRowFacts, Numbers DEF RowRecords
  <2> QED BY <2>1 DEF Reserve
<1>3. CallStep(o) /\ call'[o].pc = l
  BY <1>1, <1>2, Known, GotoStep DEF PCs, Free
<1>4. faults' \in 0..MaxFaults
  BY Known DEF Reserve
<1>5. CASE UNCHANGED <<row, ops>>
  <2>1. PcOK(o)'
    BY <1>1, <1>2, <1>3, <1>5 DEF PcOK
  <2>2. UNCHANGED <<row, host, mode, todo, edits, history>> /\ ops' = ops
    BY <1>1, <1>5
  <2> QED BY <1>1, <1>3, <1>4, <2>1, <2>2, Known, JournalMove DEF Moves, UnderWay, Active
<1>6. CASE /\ row[n] = NoRow /\ row' = [row EXCEPT ![n].id = o] /\ ops' = [ops EXCEPT ![o].id = o]
  <2> DEFINE w == [ops[o] EXCEPT !.id = o]
  <2>1. w \in OpRecords
    BY <1>1, Zenon DEF OpRecords
  <2>2. w.state = ops[o].state /\ w.type = ops[o].type /\ w.name = ops[o].name /\ w.id = o
    BY <1>1, Zenon DEF OpRecords
  <2>3. ops' = [ops EXCEPT ![o] = w]
    BY <1>6, Known
  <2> HIDE DEF w
  <2>4. ops' \in [Ops -> OpRecords] /\ ops'[o] = w /\ \A q \in Ops \ {o} : ops'[q] = ops[q]
    BY <2>1, <2>3, Known
  <2>5. NameOf(o)' = n /\ ops'[o].state = "validated" /\ ops'[o].type = "create" /\ ops'[o].id = o
    BY <1>1, <2>2, <2>4 DEF NameOf
  <2>6. /\ row' \in [Names -> RowRecords] /\ row'[n].id = o /\ row'[n].rev = 0
        /\ \A m \in Names \ {n} : row'[m] = row[m]
    BY <1>1, <1>6, Known, NoRowFacts DEF RowRecords
  <2>7. PcOK(o)'
    BY <1>3, <2>5, Numbers DEF PcOK
  <2>8. OpOK(o)'
    BY <2>5, <2>6, Numbers DEF OpOK
  <2>9. RowOK(NameOf(o))'
    BY <2>5, <2>6, Numbers DEF RowOK, Current
  <2>10. Lawful(o)
    <3>1. row[n].id = 0
      BY <1>6, NoRowFacts
    <3>2. \A q \in Ops \ {o} : NameOf(q) = n => call[q].pc # "validate"
      BY <1>1, Known, HoldsLock DEF Free
    <3> QED BY <1>1, <2>5, <3>1, <3>2 DEF Lawful, Active
  <2>11. ASSUME NameOf(o) \notin touched
         PROVE  Rest(NameOf(o))' /\ Removing(o)'
    <3>1. Bare(n)
      BY <1>6, <2>11, Known, NoRowFacts DEF Host, Rest
    <3>2. Bare(NameOf(o))'
      BY <1>1, <2>5, <3>1 DEF Bare, host, history
    <3>3. Rest(NameOf(o))'
      BY <2>5, <2>6, <3>2, Numbers DEF Rest
    <3> QED BY <2>5, <3>3 DEF Removing
  <2> QED BY <1>1, <1>3, <1>4, <2>2, <2>4, <2>6, <2>7, <2>8, <2>9, <2>10, <2>11, RowStep
<1> QED BY <1>5, <1>6 DEF Reserve

\* An interface that goes away leaves nothing, one that stays is as it was.
LEMMA RejectedKeeps ==
  ASSUME IInv, NEW o \in Ops, ops[o].state = "validated", Rejected(o), CallStep(o), call'[o].pc = "idle",
         faults' \in 0..MaxFaults, UNCHANGED <<host, mode, edits, history>>, todo' \subseteq Ops,
         \A q \in Ops \ {o} : NameOf(q) = NameOf(o) => call[q].pc # "validate"
  PROVE  IInv'
<1> DEFINE n == NameOf(o)
<1>1. PcOK(o)' /\ "rejected" \in States
  BY DEF PcOK, States
<1>2. CASE ops[o].type # "create"
  <2>1. Written(o, "rejected") /\ row' = row
    BY <1>1, <1>2, Known, WrittenFacts DEF Rejected
  <2>2. UNCHANGED <<row, host, mode, edits>> /\ HistoryKept
    BY HistoryLemma, <2>1
  <2> QED BY <1>1, <1>2, <2>1, <2>2, JournalMoveBoot DEF Moves, HistoryKept, UnderWay, Active
<1>3. CASE ops[o].type = "create"
  <2> DEFINE w == [ops[o] EXCEPT !.state = "rejected", !.id = 0]
  <2>0. ops[o] \in OpRecords /\ row \in [Names -> RowRecords] /\ row[n].id \in Ops \cup {0}
    BY Known DEF TypeOK, RowRecords
  <2>1. w \in OpRecords
    BY <1>1, <2>0, Zenon DEF OpRecords
  <2>2. w.state = "rejected" /\ w.type = ops[o].type /\ w.name = ops[o].name /\ w.id = 0
    BY <2>0, Zenon DEF OpRecords
  <2>3. ops' = [ops EXCEPT ![o] = w]
    BY <1>3, Known DEF Rejected
  <2> HIDE DEF w
  <2>4. ops' \in [Ops -> OpRecords] /\ ops'[o] = w /\ \A q \in Ops \ {o} : ops'[q] = ops[q]
    BY <2>1, <2>3, Known
  <2>5. NameOf(o)' = n /\ ops'[o].state = "rejected" /\ ops'[o].type = "create" /\ ops'[o].id = 0
    BY <1>3, <2>2, <2>4 DEF NameOf
  <2>6. OpOK(o)'
    BY <2>5 DEF OpOK, UnderWay, Active, Current
  <2>7. /\ row' \in [Names -> RowRecords] /\ \A m \in Names \ {n} : row'[m] = row[m]
        /\ ops[o].id = 0 => row' = row
        /\ ops[o].id # 0 => row'[n] = NoRow /\ row[n].id = o /\ ops[o].id = o
    BY <1>3, <2>0, Known, NoRowFacts DEF Rejected, OpOK, Current
  <2>8. RowOK(n) /\ (ops[o].id = 0 => row[n].id # o)
    BY Known, Numbers DEF Control, RowOK
  <2>9. RowOK(NameOf(o))'
    <3>1. CASE ops[o].id = 0
      BY <2>0, <2>4, <2>5, <2>7, <2>8, <3>1 DEF RowOK, NoRow, NameOf
    <3>2. CASE ops[o].id # 0
      BY <2>5, <2>7, <3>2, NoRowFacts DEF RowOK, NoRow
    <3> QED BY <3>1, <3>2
  <2>10. Lawful(o)
    BY <2>5, <2>7 DEF Lawful, Active
  <2>11. ASSUME NameOf(o) \notin touched
         PROVE  Rest(NameOf(o))' /\ Removing(o)'
    <3>1. Rest(n)
      BY <2>11, Known DEF Host
    <3> PICK m \in Names : m = n
      BY Known
    <3>2. /\ Bare(m) => Bare(m)'
          /\ \A id : Whole(m, id)' <=> Whole(m, id)
      BY SameHost DEF host, history
    <3>3. \A c : NoRemoval(c)' <=> NoRemoval(c)
      BY <1>3, <2>4, <2>5 DEF NoRemoval
    <3>4. CASE ops[o].id = 0
      <4>1. row[m].id # 0 => ops'[row[m].id] = ops[row[m].id]
        BY <2>0, <2>4, <2>8, <3>4
      <4> QED BY <2>5, <2>7, <3>1, <3>2, <3>3, <3>4, <4>1 DEF Rest, Removing
    <3>5. CASE ops[o].id # 0
      BY <2>5, <2>7, <3>1, <3>2, <3>5, NoRowFacts DEF Rest, Removing
    <3> QED BY <3>4, <3>5
  <2> QED BY <1>1, <2>2, <2>4, <2>6, <2>7, <2>9, <2>10, <2>11, RowStep
<1> QED BY <1>2, <1>3

LEMMA RejectKeeps ==
  ASSUME IInv, NEW o \in Ops, Reject(o)
  PROVE  IInv'
<1>1. /\ call[o].pc = "reject" /\ ops[o].state = "validated" /\ todo' \subseteq Ops
      /\ UNCHANGED <<host, mode, todo, edits, history>> /\ Return(o, TRUE)
  BY Known DEF Reject, PcOK, TypeOK
<1>2. CallStep(o) /\ call'[o].pc = "idle"
  BY <1>1, Known, ReturnStep
<1>3. faults' \in 0..MaxFaults
  BY Known DEF Reject
<1>4. CASE Rejected(o)
  <2>1. \A q \in Ops \ {o} : NameOf(q) = NameOf(o) => call[q].pc # "validate"
    BY <1>1, Known, HoldsLock DEF Free
  <2> QED BY <1>1, <1>2, <1>3, <1>4, <2>1, RejectedKeeps
<1>5. CASE UNCHANGED <<ops, row>>
  <2>1. PcOK(o)'
    BY <1>2 DEF PcOK
  <2>2. UNCHANGED <<row, host, mode, todo, edits, history>> /\ ops' = ops
    BY <1>1, <1>5
  <2> QED BY <1>1, <1>2, <1>3, <2>1, <2>2, Known, JournalMove DEF Moves, UnderWay, Active
<1> QED BY <1>4, <1>5 DEF Reject

LEMMA CompleteKeeps ==
  ASSUME IInv, NEW o \in Ops, Complete(o)
  PROVE  IInv'
<1> DEFINE n == NameOf(o)
<1>1. /\ call[o].pc = "complete" /\ ops[o].state = "executing" /\ ops[o].type = "create" /\ ops[o].id = o
      /\ UNCHANGED <<host, mode, todo, edits, history>> /\ todo' \subseteq Ops
      /\ {"executing", "verifying"} \subseteq States /\ {"executing", "verifying"} \subseteq UnderWay
      /\ row[n].id = o /\ row \in [Names -> RowRecords] /\ ops[o].hash \in Contents
  BY Known, OpFields DEF Complete, PcOK, OpOK, States, Active, UnderWay, Current, TypeOK
<1>2. PICK l \in {"check", "rb_begin"} : Goto(o, l) /\ (ops' = ops => l = "rb_begin")
  <2>1. SetState(o, "verifying") => ops' # ops
    BY <1>1, Known, WrittenFacts DEF Written, Moved
  <2> QED BY <2>1 DEF Complete
<1>3. CallStep(o) /\ call'[o].pc = l
  BY <1>1, <1>2, Known, GotoStep DEF PCs, Free
<1>4. faults' \in 0..MaxFaults
  BY Known DEF Complete
<1>5. CASE UNCHANGED <<ops, row>>
  <2>1. PcOK(o)'
    BY <1>1, <1>2, <1>3, <1>5 DEF PcOK, UnderWay
  <2>2. UNCHANGED <<row, host, mode, todo, edits, history>> /\ ops' = ops
    BY <1>1, <1>5
  <2> QED BY <1>1, <1>3, <1>4, <2>1, <2>2, Known, JournalMove DEF Moves
<1>6. CASE /\ row' = [row EXCEPT ![n] = [id |-> o, rev |-> 1, hash |-> ops[o].hash]]
           /\ SetState(o, "verifying")
  <2>1. Written(o, "verifying")
    BY <1>1, <1>6, Known, WrittenFacts
  <2>2. /\ ops' \in [Ops -> OpRecords] /\ ops'[o].type = "create" /\ ops'[o].name = ops[o].name
        /\ ops'[o].state = "verifying" /\ ops'[o].id = o /\ \A q \in Ops \ {o} : ops'[q] = ops[q]
        /\ NameOf(o)' = n
    BY <1>1, <2>1 DEF Written, Moved, NameOf
  <2>3. /\ row' \in [Names -> RowRecords] /\ row'[n].id = o /\ row'[n].rev = 1
        /\ \A m \in Names \ {n} : row'[m] = row[m]
    BY <1>1, <1>6, Known DEF RowRecords
  <2>4. PcOK(o)'
    BY <1>3, <2>2 DEF PcOK, UnderWay, Active
  <2>5. OpOK(o)'
    BY <2>2, <2>3, Numbers DEF OpOK
  <2>6. RowOK(NameOf(o))'
    BY <1>1, <2>2, <2>3, Numbers DEF RowOK, Current
  <2>7. Lawful(o)
    BY <1>1, <2>2, <2>3 DEF Lawful, Active
  <2>8. ASSUME NameOf(o) \notin touched
        PROVE  Rest(NameOf(o))' /\ Removing(o)'
    <3>1. Whole(n, o)
      BY <1>1, <2>8, Known DEF Host, Progress
    <3> PICK m \in Names : m = n
      BY Known
    <3>2. Whole(m, o)'
      BY <3>1, <1>1, SameHost DEF host, history
    <3> QED BY <2>2, <2>3, <3>2, Numbers DEF Rest, Removing
  <2> QED BY <1>1, <1>3, <1>4, <2>2, <2>3, <2>4, <2>5, <2>6, <2>7, <2>8, RowStep
<1> QED BY <1>5, <1>6 DEF Complete

LEMMA FinalizeRemovalKeeps ==
  ASSUME IInv, NEW o \in Ops, FinalizeRemoval(o)
  PROVE  IInv'
<1> DEFINE n == NameOf(o)
<1>1. /\ call[o].pc = "delete" /\ ops[o].state = "verifying" /\ ops[o].type # "create"
      /\ UNCHANGED <<host, mode, todo, edits, history>> /\ todo' \subseteq Ops
      /\ {"committed", "verifying"} \subseteq States /\ "verifying" \in UnderWay
      /\ row[n].id = ops[o].id /\ row \in [Names -> RowRecords]
  BY Known DEF FinalizeRemoval, PcOK, OpOK, States, Active, UnderWay, Current, TypeOK
<1>2. faults' \in 0..MaxFaults
  BY Known DEF FinalizeRemoval
<1>3. CASE UNCHANGED <<ops, row>> /\ Goto(o, "rb_begin")
  <2>1. CallStep(o) /\ call'[o].pc = "rb_begin"
    BY <1>1, <1>3, Known, GotoStep DEF PCs, Free
  <2>2. PcOK(o)'
    BY <1>1, <1>3, <2>1 DEF PcOK, UnderWay
  <2>3. UNCHANGED <<row, host, mode, todo, edits, history>> /\ ops' = ops
    BY <1>1, <1>3
  <2> QED BY <1>1, <1>2, <2>1, <2>2, <2>3, Known, JournalMove DEF Moves
<1>4. CASE /\ row' = [row EXCEPT ![n] = NoRow] /\ SetState(o, "committed")
           /\ Return(o, FALSE) \/ Goto(o, "rb_begin")
  <2>0. CallStep(o) /\ call'[o].pc \in {"idle", "rb_begin"}
    BY <1>1, <1>4, Known, GotoStep, ReturnStep DEF PCs, Free
  <2>1. Written(o, "committed")
    BY <1>1, <1>4, Known, WrittenFacts
  <2>2. /\ ops' \in [Ops -> OpRecords] /\ ops'[o].type = ops[o].type /\ ops'[o].name = ops[o].name
        /\ ops'[o].state = "committed" /\ ops'[o].id = ops[o].id /\ \A q \in Ops \ {o} : ops'[q] = ops[q]
        /\ NameOf(o)' = n
    BY <1>1, <2>1 DEF Written, Moved, NameOf
  <2>3. /\ row' \in [Names -> RowRecords] /\ row'[n] = NoRow
        /\ \A m \in Names \ {n} : row'[m] = row[m]
    BY <1>1, <1>4, Known, NoRowFacts
  <2>4. PcOK(o)'
    BY <1>1, <2>0, <2>2 DEF PcOK
  <2>5. OpOK(o)'
    <3>1. ops[o].id \in Ops \ {o}
      BY <1>1, Known DEF OpOK
    <3>2. ops'[ops[o].id] = ops[ops[o].id]
      BY <2>2, <3>1
    <3> QED BY <1>1, <2>2, <3>1, <3>2, Known DEF OpOK, UnderWay, Active, Current, NameOf
  <2>6. RowOK(NameOf(o))'
    BY <2>2, <2>3, NoRowFacts DEF RowOK, NoRow
  <2>7. Lawful(o)
    <3>1. \A q \in Ops \ {o} : NameOf(q) = n => call[q].pc # "validate"
      BY <1>1, Known, HoldsLock DEF Free
    <3> QED BY <1>1, <2>2, <2>3, <3>1 DEF Lawful, Active
  <2>8. ASSUME NameOf(o) \notin touched
        PROVE  Rest(NameOf(o))' /\ Removing(o)'
    <3>1. Bare(n)
      BY <1>1, <2>8, Known DEF Host, Removing
    <3> PICK m \in Names : m = n
      BY Known
    <3>2. Bare(m)'
      BY <3>1, <1>1, SameHost DEF host, history
    <3> QED BY <2>0, <2>2, <2>3, <3>2, NoRowFacts DEF Rest, Removing, UnderWay, Active
  <2> QED BY <1>1, <1>2, <2>0, <2>2, <2>3, <2>4, <2>5, <2>6, <2>7, <2>8, RowStep
<1> QED BY <1>3, <1>4 DEF FinalizeRemoval

LEMMA RollbackEndKeeps ==
  ASSUME IInv, NEW o \in Ops, RollbackEnd(o)
  PROVE  IInv'
<1> DEFINE n == NameOf(o)
<1>1. /\ call[o].pc = "rb_end" /\ ops[o].state = "rolling_back"
      /\ UNCHANGED <<host, mode, todo, edits, history>> /\ todo' \subseteq Ops
      /\ {"rolling_back", "rolled_back", "rollback_failed"} \subseteq States /\ "rolling_back" \in UnderWay
      /\ row[n].id = ops[o].id /\ row \in [Names -> RowRecords] /\ ops[o].id # 0
      /\ call[o].err \in BOOLEAN
  BY Known, CallFields DEF RollbackEnd, PcOK, OpOK, States, Active, UnderWay, Current, TypeOK
<1>2. faults' \in 0..MaxFaults
  BY Known DEF RollbackEnd
<1>3. CallStep(o) /\ call'[o].pc = "idle" /\ PcOK(o)'
  <2>1. CallStep(o) /\ call'[o].pc = "idle"
    BY <1>1, Known, ReturnStep DEF RollbackEnd
  <2> QED BY <2>1 DEF PcOK
<1>4. CASE UNCHANGED <<ops, row>>
  <2>1. UNCHANGED <<row, host, mode, todo, edits, history>> /\ ops' = ops
    BY <1>1, <1>4
  <2> QED BY <1>1, <1>2, <1>3, <2>1, Known, JournalMove DEF Moves
<1>5. CASE SetState(o, RollbackOutcome(o)) /\ call[o].err /\ UNCHANGED row
  <2>1. Written(o, "rollback_failed")
    BY <1>1, <1>5, Known, WrittenFacts DEF RollbackOutcome
  <2>2. UNCHANGED <<row, host, mode, todo, edits, history>>
    BY <1>1, <1>5
  <2> QED BY <1>1, <1>2, <1>3, <2>1, <2>2, JournalMove DEF Moves
<1>6. CASE SetState(o, "rolled_back") /\ ~call[o].err /\ ~call[o].gone /\ ops[o].type # "create" /\ UNCHANGED row
  <2>1. Written(o, "rolled_back")
    BY <1>1, <1>6, Known, WrittenFacts
  <2>2. UNCHANGED <<row, host, mode, todo, edits, history>> /\ Clean(o)
    BY <1>1, <1>6 DEF Clean
  <2> QED BY <1>1, <1>2, <1>3, <1>6, <2>1, <2>2, JournalMove DEF Moves, UnderWay, Active
<1>7. CASE /\ SetState(o, "rolled_back") /\ ~call[o].err /\ ~call[o].gone /\ ops[o].type = "create"
           /\ row' = [row EXCEPT ![n] = NoRow]
  <2>1. Written(o, "rolled_back") /\ ops[o].id = o
    BY <1>1, <1>7, Known, WrittenFacts DEF OpOK
  <2>2. /\ ops' \in [Ops -> OpRecords] /\ ops'[o].type = "create" /\ ops'[o].name = ops[o].name
        /\ ops'[o].state = "rolled_back" /\ ops'[o].id = o /\ \A q \in Ops \ {o} : ops'[q] = ops[q]
        /\ NameOf(o)' = n
    BY <1>7, <2>1 DEF Written, Moved, NameOf
  <2>3. /\ row' \in [Names -> RowRecords] /\ row'[n] = NoRow
        /\ \A m \in Names \ {n} : row'[m] = row[m]
    BY <1>1, <1>7, Known, NoRowFacts
  <2>5. OpOK(o)'
    BY <2>2 DEF OpOK, UnderWay, Active, Current
  <2>6. RowOK(NameOf(o))'
    BY <2>2, <2>3, NoRowFacts DEF RowOK, NoRow
  <2>7. Lawful(o)
    <3>1. \A q \in Ops \ {o} : NameOf(q) = n => call[q].pc # "validate"
      BY <1>1, Known, HoldsLock DEF Free
    <3> QED BY <1>1, <2>1, <2>2, <2>3, <3>1 DEF Lawful, Active
  <2>8. ASSUME NameOf(o) \notin touched
        PROVE  Rest(NameOf(o))' /\ Removing(o)'
    <3>1. Bare(n)
      BY <1>1, <1>7, <2>8, Known DEF Host, Progress, Clean
    <3> PICK m \in Names : m = n
      BY Known
    <3>2. Bare(m)'
      BY <3>1, <1>1, SameHost DEF host, history
    <3> QED BY <2>2, <2>3, <3>2, NoRowFacts DEF Rest, Removing
  <2> QED BY <1>1, <1>2, <1>3, <1>7, <2>2, <2>3, <2>5, <2>6, <2>7, <2>8, RowStep
<1> QED BY <1>4, <1>5, <1>6, <1>7 DEF RollbackEnd, RollbackOutcome, Works

-----------------------------------------------------------------------------
(* One step per action: start-up, crashes and the operator *)

\* A call the recovery starts
LEMMA BootStep ==
  ASSUME Control, NEW o \in Ops, NEW l \in PCs, \A q \in Ops : call[q].pc = "idle", failed' \in BOOLEAN,
         call' = [call EXCEPT ![o] = [Idle EXCEPT !.pc = l, !.boot = TRUE]],
         \/ lock' = lock /\ l \in Free
         \/ lock' = [lock EXCEPT ![NameOf(o)] = o]
  PROVE  CallStep(o) /\ call'[o].pc = l
<1> DEFINE w == [Idle EXCEPT !.pc = l, !.boot = TRUE]
<1>1. call \in [Ops -> CallRecords] /\ lock \in [Names -> Ops \cup {0}] /\ NameOf(o) \in Names
  BY OpFields DEF Control, TypeOK
<1>2. w \in CallRecords
  BY IdleFacts, Zenon DEF CallRecords
<1>3. w.pc = l /\ w.i = 1 /\ w.half = FALSE
  BY DEF Idle
<1> HIDE DEF w
<1>4. call' \in [Ops -> CallRecords] /\ call'[o] = w /\ \A q \in Ops \ {o} : call'[q] = call[q]
  <2>1. call' = [call EXCEPT ![o] = w]
    BY DEF w
  <2> QED BY <1>1, <1>2, <2>1
<1>5. lock' \in [Names -> Ops \cup {0}] /\ (l \notin Free => lock'[NameOf(o)] = o)
  BY <1>1
<1> QED BY <1>3, <1>4, <1>5 DEF CallStep, Free

LEMMA RecoverNextKeeps ==
  ASSUME IInv, RecoverNext
  PROVE  IInv'
<1>1. TypeOK /\ todo \subseteq Ops /\ UNCHANGED <<host, mode, edits, history>> /\ \A q \in Ops : call[q].pc = "idle"
  BY DEF IInv, Control, TypeOK, RecoverNext
<1>2. PICK o \in todo :
        /\ todo' = todo \ {o}
        /\ LET boot(l) == [call EXCEPT ![o] = [Idle EXCEPT !.pc = l, !.boot = TRUE]]
               verifying == ops[o].state = "verifying" /\ ~RecoverRollsBack(o)
           IN \/ /\ ops[o].state = "pending" /\ SetState(o, "expired")
                 /\ UNCHANGED <<row, call, lock, failed, faults>>
              \/ /\ ops[o].state = "validated" /\ Rejected(o)
                 /\ UNCHANGED <<call, lock, failed, faults>>
              \/ /\ verifying /\ Readable(o) /\ Agrees(o) /\ SetState(o, "committed")
                 /\ UNCHANGED <<row, call, lock, failed, faults>>
              \/ /\ verifying /\ Readable(o) /\ ~Agrees(o) /\ SetState(o, "rolling_back")
                 /\ call' = boot("manual") /\ UNCHANGED <<row, lock, failed, faults>>
              \/ /\ verifying /\ ~Readable(o) /\ failed' = TRUE
                 /\ UNCHANGED <<ops, row, call, lock, faults>>
              \/ /\ RecoverRollsBack(o) /\ lock' = [lock EXCEPT ![NameOf(o)] = o]
                 /\ call' = boot("rb_begin") /\ UNCHANGED <<ops, row, failed, faults>>
              \/ Fault /\ failed' = TRUE /\ UNCHANGED <<ops, row, call, lock>>
  BY Zenon DEF RecoverNext
<1>3. o \in Ops /\ todo' \subseteq Ops /\ failed \in BOOLEAN /\ call[o].pc = "idle"
  BY <1>1, <1>2 DEF TypeOK
<1>4. {"expired", "committed", "rolling_back"} \subseteq States /\ {"manual", "rb_begin"} \subseteq PCs
  BY DEF States, Active, PCs
<1>5. CASE ops[o].state = "pending" /\ SetState(o, "expired") /\ UNCHANGED <<row, call, lock, failed, faults>>
  <2>1. CallStep(o) /\ call'[o].pc = "idle"
    BY <1>3, <1>5, Known, StayStep
  <2>2. PcOK(o)'
    BY <2>1 DEF PcOK
  <2>3. Written(o, "expired") /\ faults' \in 0..MaxFaults
    BY <1>3, <1>4, <1>5, Known, WrittenFacts
  <2>4. UNCHANGED <<row, host, mode, edits>> /\ HistoryKept
    BY HistoryLemma, <1>1, <1>5
  <2> QED BY <1>3, <1>4, <1>5, <2>1, <2>2, <2>3, <2>4, JournalMoveBoot DEF Moves, HistoryKept, UnderWay, Active
<1>6. CASE ops[o].state = "validated" /\ Rejected(o) /\ UNCHANGED <<call, lock, failed, faults>>
  <2>1. CallStep(o) /\ call'[o].pc = "idle" /\ faults' \in 0..MaxFaults
    BY <1>3, <1>6, Known, StayStep
  <2> QED BY <1>1, <1>3, <1>6, <2>1, RejectedKeeps
<1>7. CASE /\ ops[o].state = "verifying" /\ ~RecoverRollsBack(o) /\ SetState(o, "committed")
           /\ UNCHANGED <<row, call, lock, failed, faults>>
  <2>1. CallStep(o) /\ call'[o].pc = "idle" /\ faults' \in 0..MaxFaults
    BY <1>3, <1>7, Known, StayStep
  <2>2. PcOK(o)'
    BY <2>1 DEF PcOK
  <2>3. Written(o, "committed") /\ ops[o].type = "create"
    BY <1>3, <1>4, <1>7, Known, WrittenFacts DEF RecoverRollsBack
  <2>4. UNCHANGED <<row, host, mode, edits>> /\ HistoryKept
    BY HistoryLemma, <1>1, <1>7
  <2> QED BY <1>3, <1>4, <1>7, <2>1, <2>2, <2>3, <2>4, JournalMoveBoot DEF Moves, HistoryKept, UnderWay, Active
<1>8. CASE /\ ops[o].state = "verifying" /\ ~RecoverRollsBack(o) /\ SetState(o, "rolling_back")
           /\ call' = [call EXCEPT ![o] = [Idle EXCEPT !.pc = "manual", !.boot = TRUE]]
           /\ UNCHANGED <<row, lock, failed, faults>>
  <2>1. CallStep(o) /\ call'[o].pc = "manual" /\ faults' \in 0..MaxFaults
    BY <1>1, <1>3, <1>4, <1>8, Known, BootStep DEF Free
  <2>3. Written(o, "rolling_back") /\ ops[o].type = "create"
    BY <1>3, <1>4, <1>8, Known, WrittenFacts DEF RecoverRollsBack
  <2>2. PcOK(o)'
    BY <2>1, <2>3 DEF PcOK, Written, Moved
  <2>4. UNCHANGED <<row, host, mode, edits>> /\ HistoryKept
    BY HistoryLemma, <1>1, <1>8
  <2> QED BY <1>3, <1>4, <1>8, <2>1, <2>2, <2>3, <2>4, JournalMoveBoot DEF Moves, HistoryKept, UnderWay, Active
<1>9. CASE RecoverRollsBack(o) /\ lock' = [lock EXCEPT ![NameOf(o)] = o]
           /\ call' = [call EXCEPT ![o] = [Idle EXCEPT !.pc = "rb_begin", !.boot = TRUE]]
           /\ UNCHANGED <<ops, row, failed, faults>>
  <2>1. CallStep(o) /\ call'[o].pc = "rb_begin" /\ faults' \in 0..MaxFaults
    BY <1>1, <1>3, <1>4, <1>9, Known, BootStep
  <2>2. PcOK(o)'
    BY <1>9, <2>1 DEF PcOK, RecoverRollsBack, UnderWay, Active
  <2>4. UNCHANGED <<row, host, mode, edits>> /\ HistoryKept /\ ops' = ops
    BY HistoryLemma, <1>1, <1>9
  <2> QED BY <1>3, <2>1, <2>2, <2>4, Known, JournalMoveBoot DEF Moves, HistoryKept
<1>10. CASE (Fault \/ UNCHANGED faults) /\ failed' = TRUE /\ UNCHANGED <<ops, row, call, lock>>
  <2>1. CallStep(o) /\ call'[o].pc = "idle" /\ faults' \in 0..MaxFaults
    BY <1>3, <1>10, Known, StayStep
  <2>2. PcOK(o)'
    BY <2>1 DEF PcOK
  <2>4. UNCHANGED <<row, host, mode, edits>> /\ HistoryKept /\ ops' = ops
    BY HistoryLemma, <1>1, <1>10
  <2> QED BY <1>3, <2>1, <2>2, <2>4, Known, JournalMoveBoot DEF Moves, HistoryKept
<1> QED BY <1>2, <1>5, <1>6, <1>7, <1>8, <1>9, <1>10

\* Calls that go away or lose their context, and nothing else
LEMMA CallsChange ==
  ASSUME IInv, TypeOK', UNCHANGED <<ops, row, file, active, enabled, touched, misled, raced>>,
         \A o \in Ops : \/ /\ call'[o].pc = call[o].pc /\ call'[o].i = call[o].i
                           /\ call'[o].half = call[o].half /\ (Clean(o)' => Clean(o))
                           /\ lock'[NameOf(o)] = lock[NameOf(o)]
                        \/ call'[o] = Idle
  PROVE  IInv'
<1>1. \A o \in Ops : /\ NameOf(o)' = NameOf(o) /\ ops'[o] = ops[o]
  BY DEF NameOf
<1>2. \A n \in Names : /\ Bare(n) => Bare(n)'
                       /\ \A id : Whole(n, id)' <=> Whole(n, id)
  BY SameHost
<1>3. ASSUME NEW o \in Ops
      PROVE  /\ (PcOK(o) /\ LockOK(o) /\ OpOK(o) /\ HalfOK(o))'
             /\ NameOf(o) \notin touched => (Progress(o) /\ Removing(o))'
  <2>1. /\ PcOK(o) /\ LockOK(o) /\ OpOK(o) /\ HalfOK(o) /\ NameOf(o) \in Names
        /\ NameOf(o) \notin touched => Progress(o) /\ Removing(o)
    BY OpFields DEF IInv, Control, Host, TypeOK
  <2>2. OpOK(o)'
    BY <1>1, <2>1 DEF OpOK, NameOf
  <2>3. CASE call'[o] = Idle
    <3>1. call'[o].pc = "idle" /\ call'[o].i = 1 /\ ~call'[o].half
      BY <2>3, IdleFacts
    <3>2. (PcOK(o) /\ LockOK(o) /\ HalfOK(o))'
      BY <3>1 DEF PcOK, LockOK, HalfOK
    <3>3. Progress(o)'
      BY <3>1 DEF Progress
    <3>4. Removing(o) => Removing(o)'
      <4> PICK n \in Names : n = NameOf(o)
        BY <2>1
      <4>1. NameOf(o)' = n /\ file'[n] = file[n] /\ active'[n] = active[n]
        BY <1>1
      <4>2. Told(o) => Told(o)'
        BY <1>1, SameTold
      <4> QED BY <1>1, <1>2, <3>1, <4>1, <4>2 DEF Removing
    <3> QED BY <2>1, <2>2, <3>2, <3>3, <3>4
  <2>4. CASE /\ call'[o].pc = call[o].pc /\ call'[o].i = call[o].i
             /\ call'[o].half = call[o].half /\ (Clean(o)' => Clean(o))
             /\ lock'[NameOf(o)] = lock[NameOf(o)]
    <3>1. /\ More(o, call[o].i)' <=> More(o, call[o].i)
          /\ \A s : (At(o, s)' <=> At(o, s)) /\ (Passed(o, s)' <=> Passed(o, s))
          /\ Writes(o)' <=> Writes(o)
      BY <1>1, <2>4, SameScript DEF Writes
    <3>2. (PcOK(o) /\ LockOK(o))'
      BY <1>1, <2>1, <2>4 DEF PcOK, LockOK
    <3>3. HalfOK(o)'
      <4>1. KindsOf(NameOf(o))' = KindsOf(NameOf(o)) /\ file'[NameOf(o)] = file[NameOf(o)] /\ raced' = raced
        BY <1>1 DEF KindsOf
      <4> QED BY <1>1, <2>1, <2>4, <3>1, <4>1 DEF HalfOK
    <3>4. PICK n \in Names : n = NameOf(o) /\ n = NameOf(o)'
      BY <1>1, <2>1
    <3>5. file'[n] = file[n] /\ active'[n] = active[n] /\ enabled'[n] = enabled[n]
      OBVIOUS
    <3>6. Progress(o) => Progress(o)'
      <4>1. \A s \in Making \cup Taking : Goal(o, s)' <=> Goal(o, s)
        BY <1>1, <3>1, <3>4, <3>5 DEF Goal, Made, Unmade
      <4> QED BY <1>1, <1>2, <2>4, <3>1, <3>4, <4>1 DEF Progress
    <3>7. Removing(o) => Removing(o)'
      <4>1. Told(o) => Told(o)'
        BY <1>1, SameTold
      <4> QED BY <1>1, <1>2, <2>4, <3>1, <3>4, <3>5, <4>1 DEF Removing
    <3> QED BY <2>1, <2>2, <3>2, <3>3, <3>6, <3>7
  <2> QED BY <2>3, <2>4
<1>4. \A p, q \in Ops : Alone(p, q)'
  <2> TAKE p, q \in Ops
  <2>1. Alone(p, q)
    BY DEF IInv, Control
  <2> QED BY <1>1, <2>1 DEF Alone
<1>5. ASSUME NEW n \in Names
      PROVE  /\ (RowOK(n) /\ Unused(n))'
             /\ n \notin touched => Rest(n)' /\ Boots(n)'
  <2>1. RowOK(n) /\ Unused(n) /\ (n \notin touched => Rest(n) /\ Boots(n))
    BY DEF IInv, Control, Host
  <2>2. RowOK(n)'
    BY <2>1 DEF RowOK, NameOf, NoRow
  <2>3. Unused(n)'
    BY <2>1 DEF Unused, KindsOf
  <2>4. Rest(n) => Rest(n)'
    BY <1>2 DEF Rest, NoRemoval
  <2>5. Boots(n) => Boots(n)'
    BY DEF Boots
  <2> QED BY <2>1, <2>2, <2>3, <2>4, <2>5
<1>6. Control'
  BY <1>3, <1>4, <1>5 DEF Control
<1>7. Host'
  BY <1>1, <1>3, <1>5 DEF Host
<1> QED BY <1>6, <1>7 DEF IInv

LEMMA AgentKeeps ==
  ASSUME IInv, StartAgent \/ RecoverEnd \/ UNCHANGED vars
  PROVE  IInv'
<1>1. TypeOK /\ UNCHANGED <<ops, row, file, active, enabled, fwd, call, lock, faults, edits>>
      /\ UNCHANGED <<touched, misled, raced, overlapped>>
  BY DEF StartAgent, RecoverEnd, IInv, Control, host, history, agent, vars
<1>2. mode' \in {"down", "recovering", "serving"} /\ todo' \subseteq Ops /\ failed' \in BOOLEAN
  BY <1>1 DEF StartAgent, RecoverEnd, TypeOK, vars
<1>3. TypeOK'
  BY <1>1, <1>2 DEF TypeOK
<1>4. \A o \in Ops : Clean(o)' <=> Clean(o)
  BY <1>1 DEF Clean
<1> QED BY <1>1, <1>3, <1>4, CallsChange

LEMMA CrashKeeps ==
  ASSUME IInv, Crash
  PROVE  IInv'
<1>1. TypeOK /\ UNCHANGED <<ops, row, file, active, enabled, fwd, edits, touched, misled, raced, overlapped>>
  BY DEF Crash, IInv, Control, host, history
<1>2. /\ mode' = "down" /\ todo' = {} /\ failed' = FALSE /\ faults' \in 0..MaxFaults
      /\ call' = [o \in Ops |-> Idle] /\ lock' = [n \in Names |-> 0]
  BY <1>1, Numbers DEF Crash, Fault, TypeOK
<1>3. call' \in [Ops -> CallRecords] /\ \A o \in Ops : call'[o] = Idle
  BY <1>2, IdleFacts
<1>4. TypeOK'
  BY <1>1, <1>2, <1>3 DEF TypeOK
<1> QED BY <1>1, <1>3, <1>4, CallsChange

LEMMA EndContextKeeps ==
  ASSUME IInv, NEW o \in Ops, EndContext(o)
  PROVE  IInv'
<1>1. /\ TypeOK /\ UNCHANGED <<ops, row, file, active, enabled, fwd, edits, touched, misled, raced, overlapped,
                               lock, mode, todo, failed>>
      /\ faults' \in 0..MaxFaults
  BY Known DEF EndContext, IInv, Control, host, history, agent
<1>2. call[o] \in CallRecords /\ call \in [Ops -> CallRecords] /\ TRUE \in BOOLEAN
  BY <1>1 DEF TypeOK
<1> DEFINE w == [call[o] EXCEPT !.gone = TRUE]
<1>3. w \in CallRecords
  BY <1>2, Zenon DEF CallRecords
<1>4. /\ w.pc = call[o].pc /\ w.i = call[o].i /\ w.half = call[o].half /\ w.err = call[o].err /\ w.gone = TRUE
  BY <1>2, Zenon DEF CallRecords
<1>5. call' = [call EXCEPT ![o] = w]
  BY <1>2 DEF EndContext
<1> HIDE DEF w
<1>6. call' \in [Ops -> CallRecords] /\ call'[o] = w /\ \A q \in Ops \ {o} : call'[q] = call[q]
  BY <1>2, <1>3, <1>5
<1>7. TypeOK'
  BY <1>1, <1>6 DEF TypeOK
<1>8. \A q \in Ops : Clean(q)' => Clean(q)
  BY <1>4, <1>6 DEF Clean
<1> QED BY <1>1, <1>4, <1>6, <1>7, <1>8, CallsChange

LEMMA EditKeeps ==
  ASSUME IInv, Edit
  PROVE  IInv'
<1>0. PICK n \in Names, k \in Kinds :
        /\ k \in KindsOf(n)
        /\ \E v \in {Absent, Foreign} \ {file[n][k]} : file' = [file EXCEPT ![n][k] = v]
        /\ touched' = touched \cup {n}
        /\ raced' = IF \E o \in Ops : AtFile(o, k) /\ NameOf(o) = n /\ call[o].half
                    THEN raced \cup {<<n, k>>} ELSE raced
  BY DEF Edit
<1>1. /\ TypeOK /\ UNCHANGED <<ops, row, active, enabled, fwd, call, lock, mode, todo, failed, faults, misled,
                               overlapped>>
      /\ edits' \in 0..MaxEdits
  <2>1. TypeOK /\ edits < MaxEdits /\ edits' = edits + 1
    BY DEF Edit, IInv, Control
  <2>2. edits' \in 0..MaxEdits
    BY <2>1, Numbers DEF TypeOK
  <2> QED BY <2>1, <2>2 DEF Edit, units, agent
<1>2. PICK v \in {Absent, Foreign} : file' = [file EXCEPT ![n][k] = v]
  BY <1>0
<1>3. /\ file' \in [Names -> [Kinds -> Contents]] /\ \A m \in Names \ {n} : file'[m] = file[m]
      /\ \A j \in Kinds \ {k} : file'[n][j] = file[n][j]
      /\ file'[n][k] = v
  BY <1>1, <1>2 DEF TypeOK, Contents
<1>4. /\ raced' \subseteq Names \X Kinds /\ raced \subseteq raced'
      /\ \A o \in Ops : AtFile(o, k) /\ NameOf(o) = n /\ call[o].half => <<n, k>> \in raced'
  <2>1. raced \subseteq Names \X Kinds
    BY <1>1 DEF TypeOK
  <2>2. raced' \in {raced, raced \cup {<<n, k>>}}
    BY <1>0
  <2>3. (\E o \in Ops : AtFile(o, k) /\ NameOf(o) = n /\ call[o].half) => raced' = raced \cup {<<n, k>>}
    BY <1>0
  <2> QED BY <2>1, <2>2, <2>3
<1>5. TypeOK'
  BY <1>0, <1>1, <1>3, <1>4 DEF TypeOK
<1>6. \A o \in Ops : NameOf(o)' = NameOf(o) /\ ops'[o] = ops[o] /\ call'[o] = call[o]
  BY <1>1 DEF NameOf
<1>7. ASSUME NEW o \in Ops
      PROVE  (PcOK(o) /\ LockOK(o) /\ OpOK(o) /\ HalfOK(o))'
  <2>1. PcOK(o) /\ LockOK(o) /\ OpOK(o) /\ HalfOK(o) /\ NameOf(o) \in Names
    BY OpFields DEF IInv, Control, TypeOK
  <2>2. (PcOK(o) /\ LockOK(o))'
    BY <1>1, <1>6, <2>1 DEF PcOK, LockOK
  <2>3. OpOK(o)'
    BY <1>1, <1>6, <2>1 DEF OpOK, NameOf
  <2>4. /\ More(o, call[o].i)' <=> More(o, call[o].i)
        /\ \A s : At(o, s)' <=> At(o, s)
        /\ Writes(o)' <=> Writes(o)
    BY <1>6, SameScript DEF Writes
  <2>5. HalfOK(o)'
    <3>1. CASE ~(call[o].pc \in {"do", "undo"} /\ call[o].half)
      BY <1>6, <2>1, <2>4, <3>1 DEF HalfOK
    <3>2. CASE call[o].pc \in {"do", "undo"} /\ call[o].half
      <4>1. PICK j \in KindsOf(NameOf(o)) :
              /\ At(o, j)
              /\ Writes(o) /\ NameOf(o) \notin touched => file[NameOf(o)][j] = Partial
              /\ <<NameOf(o), j>> \in raced \/ file[NameOf(o)][j] # Foreign
        BY <2>1, <3>2 DEF HalfOK
      <4>2. j \in Kinds /\ More(o, call[o].i)
        BY <2>1, <3>2, <4>1 DEF KindsOf, HalfOK
      <4>3. /\ Writes(o) /\ NameOf(o) \notin touched' => file'[NameOf(o)][j] = Partial
            /\ <<NameOf(o), j>> \in raced' \/ file'[NameOf(o)][j] # Foreign
        <5>1. CASE NameOf(o) = n /\ j = k
          BY <1>0, <1>4, <3>2, <4>1, <4>2, <5>1 DEF AtFile
        <5>2. CASE ~(NameOf(o) = n /\ j = k)
          <6>1. file'[NameOf(o)][j] = file[NameOf(o)][j]
            BY <1>3, <2>1, <4>2, <5>2
          <6>2. touched \subseteq touched'
            BY <1>0
          <6> QED BY <1>4, <4>1, <6>1, <6>2
        <5> QED BY <5>1, <5>2
      <4>4. j \in KindsOf(NameOf(o))'
        BY <1>6, <4>1 DEF KindsOf
      <4> QED BY <1>6, <2>4, <3>2, <4>1, <4>2, <4>3, <4>4 DEF HalfOK
    <3> QED BY <3>1, <3>2
  <2> QED BY <2>2, <2>3, <2>5
<1>8. \A p, q \in Ops : Alone(p, q)'
  <2> TAKE p, q \in Ops
  <2>1. Alone(p, q)
    BY DEF IInv, Control
  <2> QED BY <1>6, <2>1 DEF Alone
<1>9. ASSUME NEW m \in Names
      PROVE  (RowOK(m) /\ Unused(m))'
  <2>1. RowOK(m) /\ Unused(m)
    BY DEF IInv, Control
  <2>2. RowOK(m)'
    BY <1>1, <2>1 DEF RowOK, NameOf, NoRow
  <2>3. \A j \in Kinds \ KindsOf(m) : file'[m][j] = file[m][j]
    BY <1>0, <1>3
  <2> QED BY <1>1, <2>1, <2>2, <2>3 DEF Unused, KindsOf
<1>10. Control'
  BY <1>5, <1>7, <1>8, <1>9 DEF Control
<1>11. Host'
  <2> SUFFICES /\ \A m \in Names \ touched' : Rest(m)' /\ Boots(m)'
               /\ \A o \in Ops : NameOf(o)' \notin touched' => Progress(o)' /\ Removing(o)'
    BY DEF Host
  <2>1. \A m \in Names \ touched' : /\ m \notin touched /\ file'[m] = file[m]
                                    /\ (Bare(m) => Bare(m)') /\ \A id : Whole(m, id)' <=> Whole(m, id)
    <3> TAKE m \in Names \ touched'
    <3>1. m \notin touched /\ file'[m] = file[m] /\ active'[m] = active[m] /\ enabled'[m] = enabled[m]
      BY <1>0, <1>1, <1>3
    <3> QED BY <1>1, <3>1, SameHost
  <2>2. ASSUME NEW m \in Names \ touched' PROVE Rest(m)' /\ Boots(m)'
    <3>1. Rest(m) /\ Boots(m)
      BY <2>1 DEF IInv, Host
    <3>2. Rest(m)'
      BY <1>1, <2>1, <3>1 DEF Rest, NoRemoval
    <3> QED BY <1>1, <3>1, <3>2 DEF Boots
  <2>3. ASSUME NEW o \in Ops, NameOf(o) \notin touched'
        PROVE  Progress(o)' /\ Removing(o)'
    <3>1. PICK m \in Names : m = NameOf(o) /\ m = NameOf(o)' /\ m \notin touched'
      BY <1>6, <2>3, Known
    <3>2. Progress(o) /\ Removing(o)
      BY <2>1, <3>1 DEF IInv, Host
    <3>3. /\ \A s : (At(o, s)' <=> At(o, s)) /\ (Passed(o, s)' <=> Passed(o, s))
          /\ Writes(o)' <=> Writes(o)
          /\ Clean(o)' <=> Clean(o)
      BY <1>6, SameScript DEF Writes, Clean
    <3>4. file'[m] = file[m] /\ active'[m] = active[m] /\ enabled'[m] = enabled[m]
      BY <1>1, <2>1, <3>1
    <3>5. \A s \in Making \cup Taking : Goal(o, s)' <=> Goal(o, s)
      BY <1>1, <1>6, <3>1, <3>3, <3>4 DEF Goal, Made, Unmade
    <3>6. Progress(o)'
      BY <1>6, <2>1, <3>1, <3>2, <3>3, <3>5 DEF Progress
    <3>7. Removing(o)'
      <4>1. Told(o) => Told(o)'
        BY <1>1, <1>6, <3>1, <3>4, SameTold
      <4> QED BY <1>6, <2>1, <3>1, <3>2, <3>3, <3>4, <4>1 DEF Removing
    <3> QED BY <3>6, <3>7
  <2> QED BY <1>6, <2>2, <2>3
<1> QED BY <1>10, <1>11 DEF IInv

-----------------------------------------------------------------------------
(* One step per action: the previews *)

LEMMA NextOpFacts ==
  ASSUME CanPlan
  PROVE  NextOp \in Ops /\ ops[NextOp].state = "none"
<1> DEFINE S == {o \in Ops : ops[o].state = "none"}
<1>1. S \in SUBSET Nat /\ S # {}
  BY Numbers DEF CanPlan, Ops
<1>2. PICK m \in S : \A o \in S : m <= o
  <2> HIDE DEF S
  <2> QED BY <1>1, LeastNumber
<1>3. \A q \in 1..(m - 1) : ops[q].state # "none"
  <2> TAKE q \in 1..(m - 1)
  <2>1. q \in Ops /\ ~(m <= q)
    BY <1>2, Numbers DEF Ops
  <2> QED BY <1>2, <2>1
<1>4. m \in Ops /\ ops[m].state = "none" /\ \A q \in 1..(m - 1) : ops[q].state # "none"
  BY <1>2, <1>3
<1> QED BY <1>4, Zenon DEF NextOp

\* A pending removal that a new preview replaces
Superseded(q) ==
  /\ ops[q].type = "remove" /\ ops[q].state = "pending"
  /\ ops'[q].state = "expired" /\ ops'[q].type = ops[q].type /\ ops'[q].name = ops[q].name
  /\ ops'[q].id = ops[q].id

LEMMA PlannedKeeps ==
  ASSUME IInv, NEW o \in Ops, ops[o].state = "none", ops' \in [Ops -> OpRecords], ops'[o].state = "pending",
         \A q \in Ops \ {o} : ops'[q] = ops[q] \/ Superseded(q), OpOK(o)',
         \A q \in Ops \ {o} : ops'[o].id = 0 \/ ops'[q].id # ops'[o].id \/ ops'[q].state \notin Active,
         UNCHANGED <<row, host, call, lock, agent, faults, edits, history>>
  PROVE  IInv'
<1> USE StatesLemma DEF StateFacts
<1>1. /\ TypeOK /\ UNCHANGED <<row, file, active, enabled, fwd, call, lock, mode, todo, failed, faults, edits,
                               touched, misled, raced, overlapped>>
  BY DEF IInv, Control, host, agent, history
<1>2. TypeOK'
  BY <1>1 DEF TypeOK
<1>3. call[o].pc = "idle"
  <2>1. PcOK(o) /\ call[o].pc \in PCs
    BY <1>1, Known, CallFields DEF TypeOK
  <2> QED BY <2>1 DEF PcOK, PCs, UnderWay, Active
<1>4. \A q \in Ops \ {o} : NameOf(q)' = NameOf(q) /\ ops'[q].type = ops[q].type /\ ops'[q].id = ops[q].id
  BY DEF Superseded, NameOf
<1>5. \A c \in Ops : ops[c].type = "create" /\ ops[c].state # "none" => ops'[c] = ops[c] /\ NameOf(c)' = NameOf(c)
  BY <1>4 DEF Superseded
<1>6. ASSUME NEW q \in Ops
      PROVE  (PcOK(q) /\ LockOK(q) /\ OpOK(q) /\ HalfOK(q))'
  <2>1. PcOK(q) /\ LockOK(q) /\ OpOK(q) /\ HalfOK(q)
    BY DEF IInv, Control
  <2>2. CASE q = o
    <3>1. (PcOK(q) /\ LockOK(q) /\ HalfOK(q))'
      BY <1>1, <1>3, <2>1, <2>2 DEF PcOK, LockOK, HalfOK
    <3> QED BY <2>2, <3>1
  <2>3. CASE q # o
    <3>1. LockOK(q)'
      BY <1>1, <1>4, <2>1, <2>3 DEF LockOK
    <3>2. ops[q].type = "remove" => ops[q].id \in Ops /\ ops'[ops[q].id] = ops[ops[q].id] /\ ops[q].id # o
      BY <1>5, <2>1 DEF OpOK
    <3>3. CASE ops'[q] = ops[q]
      <4>1. PcOK(q)'
        BY <1>1, <1>4, <2>1, <2>3, <3>3 DEF PcOK
      <4>2. OpOK(q)'
        BY <1>1, <1>4, <2>1, <2>3, <3>2, <3>3 DEF OpOK, NameOf
      <4>3. /\ More(q, call[q].i)' <=> More(q, call[q].i)
            /\ \A s : At(q, s)' <=> At(q, s)
            /\ Writes(q)' <=> Writes(q)
        BY <1>1, <3>3, SameScript DEF Writes
      <4>4. KindsOf(NameOf(q))' = KindsOf(NameOf(q))
        BY <1>4, <2>3 DEF KindsOf
      <4>5. HalfOK(q)'
        BY <1>1, <1>4, <2>1, <2>3, <4>3, <4>4 DEF HalfOK
      <4> QED BY <3>1, <4>1, <4>2, <4>5
    <3>4. CASE Superseded(q)
      <4>1. call[q].pc \in {"idle", "lock", "preflight", "validate"}
        <5>1. call[q].pc \in PCs
          BY <1>1, CallFields DEF TypeOK
        <5> QED BY <2>1, <3>4, <5>1 DEF PcOK, PCs, UnderWay, Active, Superseded
      <4>2. PcOK(q)'
        BY <1>1, <3>4, <4>1 DEF PcOK, Superseded
      <4>3. HalfOK(q)'
        BY <1>1, <2>1, <4>1 DEF HalfOK
      <4>4. OpOK(q)'
        BY <1>1, <1>4, <2>1, <2>3, <3>2, <3>4 DEF OpOK, NameOf, Superseded, UnderWay, Active, Current
      <4> QED BY <3>1, <4>2, <4>3, <4>4
    <3> QED BY <2>3, <3>3, <3>4
  <2> QED BY <2>2, <2>3
<1>7. \A p, q \in Ops : Alone(p, q)'
  <2> TAKE p, q \in Ops
  <2>1. CASE p = o \/ q = o
    BY <2>1 DEF Alone
  <2>2. CASE p # o /\ q # o
    <3>1. Alone(p, q)
      BY DEF IInv, Control
    <3>2. \A r \in {p, q} : ops'[r].state \in Active => ops'[r] = ops[r]
      BY <2>2 DEF Superseded, Active
    <3> QED BY <3>1, <3>2 DEF Alone
  <2> QED BY <2>1, <2>2
<1>8. ASSUME NEW n \in Names
      PROVE  (RowOK(n) /\ Unused(n))' /\ (n \notin touched => Rest(n)' /\ Boots(n)')
  <2>1. /\ RowOK(n) /\ Unused(n) /\ row[n].id \in Ops \cup {0} /\ row' = row
        /\ n \notin touched => Rest(n) /\ Boots(n)
    BY <1>1 DEF IInv, Control, Host, TypeOK, RowRecords
  <2>2. row[n].id # 0 => ops'[row[n].id] = ops[row[n].id] /\ NameOf(row[n].id)' = NameOf(row[n].id)
    BY <1>5, <2>1 DEF RowOK, Current, UnderWay, Active
  <2>3. RowOK(n)'
    BY <2>1, <2>2 DEF RowOK, NoRow, NameOf
  <2>4. Unused(n)'
    BY <1>1, <2>1 DEF Unused, KindsOf
  <2>5. \A c : NoRemoval(c)' => NoRemoval(c)
    <3>1. \A r \in Ops : ops[r].state \in UnderWay => ops'[r] = ops[r]
      BY DEF Superseded, UnderWay, Active
    <3> QED BY <3>1 DEF NoRemoval
  <2>6. /\ Bare(n) => Bare(n)'
        /\ \A id : Whole(n, id)' <=> Whole(n, id)
    BY <1>1, SameHost
  <2>7. Rest(n) => Rest(n)'
    BY <2>1, <2>2, <2>5, <2>6 DEF Rest
  <2>8. Boots(n) => Boots(n)'
    BY <1>1 DEF Boots
  <2> QED BY <2>1, <2>3, <2>4, <2>7, <2>8
<1>9. ASSUME NEW q \in Ops, NameOf(q)' \notin touched
      PROVE  Progress(q)' /\ Removing(q)'
  <2>1. CASE q = o
    BY <1>1, <1>3, <2>1 DEF Progress, Removing, UnderWay, Active
  <2>2. CASE q # o
    <3>1. PICK n \in Names : n = NameOf(q) /\ n = NameOf(q)' /\ n \notin touched
      BY <1>4, <1>9, <2>2, Known
    <3>2. Progress(q) /\ Removing(q)
      BY <1>9, <3>1 DEF IInv, Host
    <3>3. CASE ops'[q] = ops[q]
      <4>1. /\ \A s : (At(q, s)' <=> At(q, s)) /\ (Passed(q, s)' <=> Passed(q, s))
            /\ Writes(q)' <=> Writes(q)
            /\ Clean(q)' <=> Clean(q)
        BY <1>1, <3>3, SameScript DEF Writes, Clean
      <4>2. /\ Bare(n) => Bare(n)'
            /\ \A id : Whole(n, id)' <=> Whole(n, id)
        BY <1>1, SameHost
      <4>3. \A s \in Making \cup Taking : Goal(q, s)' <=> Goal(q, s)
        BY <1>1, <3>1, <3>3, <4>1 DEF Goal, Made, Unmade
      <4>4. Progress(q)'
        BY <1>1, <3>1, <3>2, <3>3, <4>1, <4>2, <4>3 DEF Progress
      <4>5. Told(q) => Told(q)'
        BY <1>1, <3>1, <3>3, SameTold
      <4>6. Removing(q)'
        BY <1>1, <3>1, <3>2, <3>3, <4>1, <4>2, <4>5 DEF Removing
      <4> QED BY <4>4, <4>6
    <3>4. CASE Superseded(q)
      <4>1. call[q].pc \in {"idle", "lock", "preflight", "validate"}
        <5>1. call[q].pc \in PCs /\ PcOK(q)
          BY <1>1, Known, CallFields DEF TypeOK
        <5> QED BY <3>4, <5>1 DEF PcOK, PCs, UnderWay, Active, Superseded
      <4> QED BY <1>1, <3>4, <4>1 DEF Progress, Removing, Superseded, UnderWay, Active
    <3> QED BY <2>2, <3>3, <3>4
  <2> QED BY <2>1, <2>2
<1>10. Control'
  BY <1>2, <1>6, <1>7, <1>8 DEF Control
<1>11. Host'
  BY <1>1, <1>8, <1>9 DEF Host
<1> QED BY <1>10, <1>11 DEF IInv

LEMMA NoOpFacts ==
  /\ NoOp \in OpRecords /\ NoOp.id = 0 /\ NoOp.type = "create" /\ NoOp.state = "none"
<1>1. (CHOOSE n \in Names : TRUE) \in Names
  BY NamesAssumption
<1>2. "none" \in States /\ 0 \in Ops \cup {0} /\ Absent \in Contents /\ FALSE \in BOOLEAN
      /\ 0 \in {0, 1} /\ 1 \in {0, 1} /\ "create" \in {"create", "remove"}
  BY DEF States, Contents
<1>3. NoOp \in OpRecords
  BY <1>1, <1>2, Zenon DEF NoOp, OpRecords
<1> QED BY <1>3 DEF NoOp

LEMMA PreviewCreateKeeps ==
  ASSUME IInv, PreviewCreateInterface
  PROVE  IInv'
<1>1. PICK o \in Ops : o = NextOp /\ ops[o].state = "none"
  BY NextOpFacts DEF PreviewCreateInterface
<1>2. PICK n \in Names : ops' = [ops EXCEPT ![NextOp] = [NoOp EXCEPT !.state = "pending", !.name = n]]
  BY DEF PreviewCreateInterface
<1> DEFINE w == [NoOp EXCEPT !.state = "pending", !.name = n]
<1>3. w \in OpRecords
  <2>1. "pending" \in States /\ NoOp \in OpRecords
    BY NoOpFacts DEF States, Active
  <2> QED BY <2>1, Zenon DEF OpRecords
<1>4. w.state = "pending" /\ w.type = "create" /\ w.id = 0
  BY DEF NoOp
<1> HIDE DEF w
<1>5. ops' = [ops EXCEPT ![o] = w] /\ ops \in [Ops -> OpRecords]
  BY <1>1, <1>2, Known DEF w
<1>6. ops' \in [Ops -> OpRecords] /\ ops'[o] = w /\ \A q \in Ops \ {o} : ops'[q] = ops[q]
  BY <1>3, <1>5
<1>7. OpOK(o)'
  BY <1>4, <1>6 DEF OpOK, UnderWay, Active, Current
<1>8. UNCHANGED <<row, host, call, lock, agent, faults, edits, history>>
  BY DEF PreviewCreateInterface
<1> QED BY <1>1, <1>4, <1>6, <1>7, <1>8, PlannedKeeps

LEMMA PreviewSetKeeps ==
  ASSUME IInv, PreviewSetInterfaceState
  PROVE  IInv'
<1>1. PICK o \in Ops : o = NextOp /\ ops[o].state = "none"
  BY NextOpFacts DEF PreviewSetInterfaceState
<1>2. PICK n \in Names :
       LET id == row[n].id
           superseded == {q \in Ops : ops[q].id = id /\ ops[q].type = "remove" /\ ops[q].state = "pending"}
       IN /\ id # 0 /\ PreflightRemoval(n, id)
          /\ \A q \in Ops \ superseded : ops[q].id = id => ops[q].state \notin Active
          /\ ops' = [q \in Ops |->
                       IF q \in superseded THEN [ops[q] EXCEPT !.state = "expired"]
                       ELSE IF q = NextOp
                       THEN [NoOp EXCEPT !.state = "pending", !.type = "remove", !.name = n, !.id = id]
                       ELSE ops[q]]
  BY Zenon DEF PreviewSetInterfaceState
<1>3. PICK id \in Ops \cup {0} : id = row[n].id
  BY DEF IInv, Control, TypeOK, RowRecords
<1> DEFINE superseded == {q \in Ops : ops[q].id = id /\ ops[q].type = "remove" /\ ops[q].state = "pending"}
           w == [NoOp EXCEPT !.state = "pending", !.type = "remove", !.name = n, !.id = id]
<1>4. /\ id # 0 /\ PreflightRemoval(n, id)
      /\ \A q \in Ops \ superseded : ops[q].id = id => ops[q].state \notin Active
      /\ ops' = [q \in Ops |-> IF q \in superseded THEN [ops[q] EXCEPT !.state = "expired"]
                               ELSE IF q = o THEN w ELSE ops[q]]
  BY <1>1, <1>2, <1>3
<1>5. w \in OpRecords
  <2>1. "pending" \in States /\ NoOp \in OpRecords /\ "remove" \in {"create", "remove"}
    BY NoOpFacts DEF States, Active
  <2> QED BY <1>3, <2>1, Zenon DEF OpRecords
<1>6. w.state = "pending" /\ w.type = "remove" /\ w.id = id /\ w.name = n
  BY DEF NoOp
<1> HIDE DEF w
<1>7. \A q \in superseded : /\ [ops[q] EXCEPT !.state = "expired"] \in OpRecords
                            /\ q # o
                            /\ [ops[q] EXCEPT !.state = "expired"].state = "expired"
                            /\ [ops[q] EXCEPT !.state = "expired"].type = ops[q].type
                            /\ [ops[q] EXCEPT !.state = "expired"].name = ops[q].name
                            /\ [ops[q] EXCEPT !.state = "expired"].id = ops[q].id
  <2> TAKE q \in superseded
  <2>1. ops[q] \in OpRecords /\ "expired" \in States /\ q \in Ops /\ ops[q].state = "pending"
    BY Known DEF States
  <2>2. [ops[q] EXCEPT !.state = "expired"] \in OpRecords
    BY <2>1, Zenon DEF OpRecords
  <2>3. /\ [ops[q] EXCEPT !.state = "expired"].state = "expired"
        /\ [ops[q] EXCEPT !.state = "expired"].type = ops[q].type
        /\ [ops[q] EXCEPT !.state = "expired"].name = ops[q].name
        /\ [ops[q] EXCEPT !.state = "expired"].id = ops[q].id
    BY <2>1, Zenon DEF OpRecords
  <2>4. q # o
    BY <1>1, <2>1
  <2> QED BY <2>2, <2>3, <2>4
<1>8. ops' \in [Ops -> OpRecords]
  <2>1. ops \in [Ops -> OpRecords]
    BY <1>1, Known
  <2>2. \A q \in Ops : (IF q \in superseded THEN [ops[q] EXCEPT !.state = "expired"]
                        ELSE IF q = o THEN w ELSE ops[q]) \in OpRecords
    <3> HIDE DEF superseded
    <3> QED BY <1>5, <1>7, <2>1
  <2> HIDE DEF superseded
  <2> QED BY <1>4, <2>2
<1>9. ops'[o] = w /\ \A q \in Ops \ {o} : ops'[q] = ops[q] \/ Superseded(q)
  <2>1. ops'[o] = w
    BY <1>4, <1>7
  <2>2. \A q \in superseded : Superseded(q)
    <3> TAKE q \in superseded
    <3>1. ops'[q] = [ops[q] EXCEPT !.state = "expired"] /\ ops[q].type = "remove" /\ ops[q].state = "pending"
      BY <1>4
    <3> QED BY <1>7, <3>1 DEF Superseded
  <2>3. \A q \in Ops \ {o} : q \notin superseded => ops'[q] = ops[q]
    <3> HIDE DEF superseded
    <3> QED BY <1>4
  <2> QED BY <2>1, <2>2, <2>3
<1>10. \A q \in Ops \ {o} : ops'[q].id # id \/ ops'[q].state \notin Active
  <2> TAKE q \in Ops \ {o}
  <2>1. CASE q \in superseded
    <3>1. ops'[q].state = "expired"
      BY <1>4, <1>7, <2>1
    <3> QED BY <3>1 DEF Active
  <2>2. CASE q \notin superseded
    BY <1>4, <2>2
  <2> QED BY <2>1, <2>2
<1>11. OpOK(o)'
  <2>1. RowOK(n) /\ row[n].rev = 1 /\ id \in Ops
    BY <1>3, <1>4 DEF IInv, Control, PreflightRemoval
  <2>2. ops[id].type = "create" /\ NameOf(id) = n /\ ops[id].id = id
        /\ ops[id].state \in {"verifying", "rolling_back", "rollback_failed", "committed"}
    BY <1>3, <1>4, <2>1 DEF RowOK
  <2>3. id \notin superseded /\ id # o
    BY <1>1, <2>2
  <2>4. ops[id].state = "committed"
    BY <1>4, <2>1, <2>2, <2>3 DEF Active
  <2>5. ops'[id] = ops[id] /\ ops'[o] = w
    <3> HIDE DEF superseded
    <3> QED BY <1>4, <1>9, <2>1, <2>3
  <2> QED BY <1>6, <2>1, <2>2, <2>4, <2>5, Numbers DEF OpOK, NameOf, UnderWay, Active, Current
<1>12. UNCHANGED <<row, host, call, lock, agent, faults, edits, history>>
  BY DEF PreviewSetInterfaceState
<1> QED BY <1>1, <1>6, <1>8, <1>9, <1>10, <1>11, <1>12, PlannedKeeps

-----------------------------------------------------------------------------
(* One step per action: the host *)

Scripted == {"do", "undo"}

LEMMA AdvancedFacts ==
  ASSUME Control, NEW o \in Ops, call[o].pc \in Scripted
  PROVE  LET h == Here(o)
             a == Advanced(o)
         IN /\ h \in call[o].i..Len(Script(o)) /\ h \in 1..8 /\ call[o].i \in 1..8
            /\ a \in CallRecords /\ a.half = FALSE /\ a.err = call[o].err /\ a.gone = call[o].gone
            /\ More(o, h + 1) => a.pc = call[o].pc /\ a.i = h + 1
            /\ ~More(o, h + 1) => a.pc = Finished(o) /\ a.i = 1
<1> DEFINE h == Here(o)
<1>1. call[o] \in CallRecords /\ call[o].i \in 1..8 /\ More(o, call[o].i) /\ Len(Script(o)) \in 7..8
  BY CallFields, ScriptFacts DEF Control, TypeOK, HalfOK, Scripted
<1>2. h \in call[o].i..Len(Script(o))
  BY <1>1, HereFacts
<1>3. PICK i \in 1..8, l \in 7..8 : i = call[o].i /\ l = Len(Script(o))
  BY <1>1
<1>31. h \in i..l /\ h \in 1..8
  <2> HIDE DEF h
  <2> QED BY <1>2, <1>3
<1>4. CASE More(o, h + 1)
  <2>1. h + 1 \in 1..8
    <3>1. \E j \in (h + 1)..l : TRUE
      BY <1>3, <1>4 DEF More
    <3> HIDE DEF h
    <3> QED BY <1>31, <3>1
  <2>2. Advanced(o) = [call[o] EXCEPT !.i = h + 1, !.half = FALSE]
    BY <1>4 DEF Advanced
  <2> HIDE DEF h
  <2>3. [call[o] EXCEPT !.i = h + 1, !.half = FALSE] \in CallRecords
    <3>1. FALSE \in BOOLEAN
      OBVIOUS
    <3> QED BY <1>1, <2>1, <3>1, Zenon DEF CallRecords
  <2>4. LET a == [call[o] EXCEPT !.i = h + 1, !.half = FALSE]
        IN /\ a.half = FALSE /\ a.err = call[o].err /\ a.gone = call[o].gone /\ a.pc = call[o].pc /\ a.i = h + 1
    BY <1>1, Zenon DEF CallRecords
  <2>5. /\ Advanced(o) \in CallRecords /\ Advanced(o).half = FALSE /\ Advanced(o).err = call[o].err
        /\ Advanced(o).gone = call[o].gone /\ Advanced(o).pc = call[o].pc /\ Advanced(o).i = h + 1
    BY <2>2, <2>3, <2>4, Zenon
  <2> QED BY <1>1, <1>2, <1>31, <1>4, <2>5 DEF h
<1>5. CASE ~More(o, h + 1)
  <2>1. Finished(o) \in PCs
    BY DEF Finished, PCs
  <2>2. Advanced(o) = [call[o] EXCEPT !.pc = Finished(o), !.i = 1, !.half = FALSE]
    BY <1>5 DEF Advanced
  <2> HIDE DEF h
  <2>3. [call[o] EXCEPT !.pc = Finished(o), !.i = 1, !.half = FALSE] \in CallRecords
    <3>1. FALSE \in BOOLEAN /\ 1 \in 1..8
      OBVIOUS
    <3> QED BY <1>1, <2>1, <3>1, Zenon DEF CallRecords
  <2>4. LET a == [call[o] EXCEPT !.pc = Finished(o), !.i = 1, !.half = FALSE]
        IN /\ a.half = FALSE /\ a.err = call[o].err /\ a.gone = call[o].gone /\ a.pc = Finished(o) /\ a.i = 1
    BY <1>1, Zenon DEF CallRecords
  <2>5. /\ Advanced(o) \in CallRecords /\ Advanced(o).half = FALSE /\ Advanced(o).err = call[o].err
        /\ Advanced(o).gone = call[o].gone /\ Advanced(o).pc = Finished(o) /\ Advanced(o).i = 1
    BY <2>2, <2>3, <2>4, Zenon
  <2> QED BY <1>1, <1>2, <1>31, <1>5, <2>5 DEF h
<1> QED BY <1>4, <1>5

\* The step at hand is not behind the call yet, and is once it is done.
LEMMA StepFacts ==
  ASSUME Control, NEW o \in Ops, call[o].pc \in Scripted
  PROVE  LET h == Here(o)
             s == Script(o)[h]
         IN /\ Used(o, h) /\ h \in 1..Len(Script(o))
            /\ ~Passed(o, s)
            /\ \A j \in 1..(h - 1) : Used(o, j) => Passed(o, Script(o)[j])
            /\ ~More(o, h + 1) => \A j \in 1..Len(Script(o)) : Used(o, j) => Passed(o, Script(o)[j]) \/ Script(o)[j] = s
<1> DEFINE h == Here(o)
           s == Script(o)[h]
           i == call[o].i
<1>1. i \in 1..8 /\ More(o, i) /\ Len(Script(o)) \in 7..8 /\ Distinct(Script(o))
  BY CallFields, ScriptFacts DEF Control, TypeOK, HalfOK, Scripted
<1>2. h \in i..Len(Script(o)) /\ Used(o, h) /\ \A l \in i..(h - 1) : ~Used(o, l)
  BY <1>1, HereFacts
<1> HIDE DEF h, i
<1>3. h \in 1..Len(Script(o))
  BY <1>1, <1>2
<1>4. ~Passed(o, s)
  <2> SUFFICES ASSUME NEW j \in 1..(i - 1), j \in 1..Len(Script(o)), Script(o)[j] = s PROVE FALSE
    BY DEF Passed, i
  <2>1. j = h
    BY <1>1, <1>3 DEF Distinct
  <2> QED BY <1>1, <1>2, <2>1
<1>5. \A j \in 1..(h - 1) : Used(o, j) => Passed(o, Script(o)[j])
  <2> SUFFICES ASSUME NEW j \in 1..(h - 1), Used(o, j) PROVE Passed(o, Script(o)[j])
    OBVIOUS
  <2>1. j \in 1..(i - 1) /\ j \in 1..Len(Script(o))
    BY <1>1, <1>2
  <2> QED BY <2>1 DEF Passed, i
<1>6. ~More(o, h + 1) => \A j \in 1..Len(Script(o)) : Used(o, j) => Passed(o, Script(o)[j]) \/ Script(o)[j] = s
  <2> SUFFICES ASSUME ~More(o, h + 1), NEW j \in 1..Len(Script(o)), Used(o, j), ~Passed(o, Script(o)[j])
               PROVE  j = h
    OBVIOUS
  <2>1. ~(j \in (h + 1)..Len(Script(o)))
    BY DEF More
  <2>2. ~(j \in 1..(h - 1))
    BY <1>5
  <2> QED BY <1>1, <1>3, <2>1, <2>2
<1> QED BY <1>2, <1>3, <1>4, <1>5, <1>6 DEF h

LEMMA PassedNext ==
  ASSUME Control, NEW o \in Ops, call[o].pc \in Scripted, ops'[o] = ops[o], call'[o].pc = call[o].pc,
         call'[o].i = Here(o) + 1, More(o, Here(o) + 1)
  PROVE  /\ More(o, call[o].i)'
         /\ \A t : Passed(o, t)' => Passed(o, t) \/ t = Script(o)[Here(o)]
<1> PICK h \in 1..8 : h = Here(o)
  BY AdvancedFacts
<1>1. Script(o)' = Script(o) /\ \A j : Used(o, j)' <=> Used(o, j)
  <2>1. Script(o)' = Script(o)
    BY DEF Script
  <2>2. \A s : Uses(o, s)' <=> Uses(o, s)
    BY DEF Uses, NameOf
  <2> QED BY <2>1, <2>2 DEF Used
<1>2. More(o, call[o].i)'
  BY <1>1 DEF More
<1>3. ASSUME NEW t, Passed(o, t)'
      PROVE  Passed(o, t) \/ t = Script(o)[h]
  <2>1. PICK j \in 1..h : j \in 1..Len(Script(o)) /\ Used(o, j) /\ Script(o)[j] = t
    <3>1. \E j \in 1..(call'[o].i - 1) : j \in 1..Len(Script(o)) /\ Used(o, j) /\ Script(o)[j] = t
      BY <1>1, <1>3 DEF Passed
    <3>2. call'[o].i - 1 = h
      OBVIOUS
    <3> QED BY <3>1, <3>2
  <2>2. CASE j = h
    BY <2>1, <2>2
  <2>3. CASE j \in 1..(h - 1)
    BY <2>1, <2>3, StepFacts
  <2> QED BY <2>2, <2>3
<1> QED BY <1>2, <1>3

LEMMA UsesFacts ==
  ASSUME NEW o \in Ops
  PROVE  /\ \A k \in Kinds : Uses(o, k) <=> k \in KindsOf(NameOf(o))
         /\ Uses(o, "conf")
         /\ ops[o].type = "create" => /\ Uses(o, "enable") <=> NameOf(o) \in AutoStart
                                      /\ Uses(o, "disable") <=> NameOf(o) \in AutoStart
                                      /\ Uses(o, "start") /\ Uses(o, "stop")
         /\ ops[o].type # "create" => /\ Uses(o, "enable") <=> ops[o].enabled
                                      /\ Uses(o, "disable") <=> ops[o].enabled
                                      /\ Uses(o, "start") <=> ops[o].active
                                      /\ Uses(o, "stop") <=> ops[o].active
<1>1. \A k \in Kinds : Uses(o, k) <=> k \in KindsOf(NameOf(o))
  <2>1. \A k \in {"nft_up", "nft_down"} : (Uses(o, k) <=> NameOf(o) \in Nft) /\ (k \in KindsOf(NameOf(o)) <=> NameOf(o) \in Nft)
    BY DEF Uses, KindsOf, Kinds
  <2>2. (Uses(o, "sysctl") <=> NameOf(o) \in Forwarding) /\ ("sysctl" \in KindsOf(NameOf(o)) <=> NameOf(o) \in Forwarding)
    BY DEF Uses, KindsOf, Kinds
  <2>3. Uses(o, "conf") /\ "conf" \in KindsOf(NameOf(o))
    BY DEF Uses, KindsOf, Kinds
  <2> QED BY <2>1, <2>2, <2>3 DEF Kinds
<1>2. Uses(o, "conf")
  BY DEF Uses
<1>3. ops[o].type = "create" => /\ Uses(o, "enable") <=> NameOf(o) \in AutoStart
                                /\ Uses(o, "disable") <=> NameOf(o) \in AutoStart
                                /\ Uses(o, "start") /\ Uses(o, "stop")
  BY DEF Uses
<1>4. ops[o].type # "create" => /\ Uses(o, "enable") <=> ops[o].enabled
                                /\ Uses(o, "disable") <=> ops[o].enabled
                                /\ Uses(o, "start") <=> ops[o].active
                                /\ Uses(o, "stop") <=> ops[o].active
  BY DEF Uses
<1> QED BY <1>1, <1>2, <1>3, <1>4

LEMMA AtFacts ==
  ASSUME Control, NEW o \in Ops, NEW s, At(o, s)
  PROVE  /\ call[o].pc \in Scripted /\ Script(o)[Here(o)] = s /\ Uses(o, s) /\ ~Passed(o, s)
         /\ Writes(o) => s \notin {"disable", "stop"}
         /\ ~Writes(o) => s \notin {"enable", "start"}
         /\ Writes(o) /\ s = "start" => Passed(o, "conf")
<1>1. call[o].pc \in Scripted /\ Script(o)[Here(o)] = s
  BY DEF At, Scripted
<1>2. /\ Used(o, Here(o)) /\ Here(o) \in 1..Len(Script(o)) /\ ~Passed(o, s)
      /\ \A j \in 1..(Here(o) - 1) : Used(o, j) => Passed(o, Script(o)[j])
  BY <1>1, StepFacts
<1>3. Uses(o, s)
  BY <1>1, <1>2 DEF Used
<1>4. Writes(o) => s \notin {"disable", "stop"}
  BY <1>1, <1>2, WritingScript
<1>5. ~Writes(o) => s \notin {"enable", "start"}
  BY <1>1, <1>2, ErasingScript
<1>6. ASSUME Writes(o), s = "start" PROVE Passed(o, "conf")
  <2>1. PICK l \in 1..Len(Script(o)) : Script(o)[l] = "conf"
    BY <1>6, WritingScript DEF Making, Kinds
  <2>2. l < Here(o)
    BY <1>1, <1>2, <1>6, <2>1, WritingScript
  <2>3. Used(o, l)
    BY <2>1, UsesFacts DEF Used
  <2>4. PICK h \in 1..8 : h = Here(o)
    BY <1>1, AdvancedFacts
  <2>5. l \in 1..(h - 1)
    <3>1. l \in Int /\ l >= 1
      BY <2>1, ScriptFacts
    <3> QED BY <2>2, <2>4, <3>1
  <2> QED BY <1>2, <2>1, <2>3, <2>4, <2>5
<1> QED BY <1>1, <1>2, <1>3, <1>4, <1>5, <1>6

LEMMA FinishedFacts ==
  ASSUME Control, NEW o \in Ops, NEW s, At(o, s), ~More(o, Here(o) + 1)
  PROVE  /\ Writes(o) => \A t \in Making : Uses(o, t) => Passed(o, t) \/ t = s
         /\ ~Writes(o) => \A t \in Taking : Uses(o, t) => Passed(o, t) \/ t = s
<1>1. \A j \in 1..Len(Script(o)) : Used(o, j) => Passed(o, Script(o)[j]) \/ Script(o)[j] = s
  BY AtFacts, StepFacts
<1>2. ASSUME Writes(o), NEW t \in Making, Uses(o, t) PROVE Passed(o, t) \/ t = s
  <2>1. PICK j \in 1..Len(Script(o)) : Script(o)[j] = t
    BY <1>2, WritingScript
  <2> QED BY <1>1, <1>2, <2>1 DEF Used
<1>3. ASSUME ~Writes(o), NEW t \in Taking, Uses(o, t) PROVE Passed(o, t) \/ t = s
  <2>1. PICK j \in 1..Len(Script(o)) : Script(o)[j] = t
    BY <1>3, ErasingScript
  <2> QED BY <1>1, <1>3, <2>1 DEF Used
<1> QED BY <1>2, <1>3

\* What the three ends of a step do to the call
LEMMA DoneFacts ==
  ASSUME Control, NEW o \in Ops, call[o].pc \in Scripted, Done(o)
  PROVE  /\ call' \in [Ops -> CallRecords] /\ \A q \in Ops \ {o} : call'[q] = call[q]
         /\ ~call'[o].half /\ call'[o].err = call[o].err /\ call'[o].gone = call[o].gone
         /\ More(o, Here(o) + 1) => call'[o].pc = call[o].pc /\ call'[o].i = Here(o) + 1
         /\ ~More(o, Here(o) + 1) => call'[o].pc = Finished(o) /\ call'[o].i = 1
<1>1. call \in [Ops -> CallRecords]
  BY DEF Control, TypeOK
<1>2. Advanced(o) \in CallRecords
  BY AdvancedFacts
<1>3. call' \in [Ops -> CallRecords] /\ call'[o] = Advanced(o) /\ \A q \in Ops \ {o} : call'[q] = call[q]
  BY <1>1, <1>2 DEF Done
<1> PICK a : a = Advanced(o)
  OBVIOUS
<1>4. /\ a.half = FALSE /\ a.err = call[o].err /\ a.gone = call[o].gone
      /\ More(o, Here(o) + 1) => a.pc = call[o].pc /\ a.i = Here(o) + 1
      /\ ~More(o, Here(o) + 1) => a.pc = Finished(o) /\ a.i = 1
  BY AdvancedFacts
<1>5. call'[o] = a
  BY <1>3
<1> QED BY <1>3, <1>4, <1>5

LEMMA FailedFacts ==
  ASSUME Control, NEW o \in Ops, call[o].pc \in Scripted, Failed(o)
  PROVE  /\ call' \in [Ops -> CallRecords] /\ \A q \in Ops \ {o} : call'[q] = call[q]
         /\ ~call'[o].half
         /\ call[o].pc = "do" => call'[o].pc = "rb_begin" /\ call'[o].i = 1
         /\ call[o].pc = "undo" =>
              /\ call'[o].err
              /\ More(o, Here(o) + 1) => call'[o].pc = call[o].pc /\ call'[o].i = Here(o) + 1
              /\ ~More(o, Here(o) + 1) => call'[o].pc = Finished(o) /\ call'[o].i = 1
<1>1. call \in [Ops -> CallRecords] /\ call[o] \in CallRecords
  BY DEF Control, TypeOK
<1>2. CASE call[o].pc = "do"
  <2> DEFINE w == [call[o] EXCEPT !.pc = "rb_begin", !.i = 1, !.half = FALSE]
  <2>1. call' = [call EXCEPT ![o] = w]
    BY <1>1, <1>2 DEF Failed
  <2>2. w \in CallRecords
    <3>1. "rb_begin" \in PCs /\ 1 \in 1..8 /\ FALSE \in BOOLEAN
      BY DEF PCs
    <3> QED BY <1>1, <3>1, Zenon DEF CallRecords
  <2>3. w.pc = "rb_begin" /\ w.i = 1 /\ w.half = FALSE
    BY <1>1, Zenon DEF CallRecords
  <2> HIDE DEF w
  <2> QED BY <1>1, <1>2, <2>1, <2>2, <2>3
<1>3. CASE call[o].pc = "undo"
  <2> DEFINE a == Advanced(o)
             w == [a EXCEPT !.err = TRUE]
  <2>1. call' = [call EXCEPT ![o] = w]
    BY <1>1, <1>3 DEF Failed
  <2>2. /\ a \in CallRecords /\ a.half = FALSE
        /\ More(o, Here(o) + 1) => a.pc = call[o].pc /\ a.i = Here(o) + 1
        /\ ~More(o, Here(o) + 1) => a.pc = Finished(o) /\ a.i = 1
    BY AdvancedFacts
  <2> HIDE DEF a
  <2>3. w \in CallRecords
    <3>1. TRUE \in BOOLEAN
      OBVIOUS
    <3> QED BY <2>2, <3>1, Zenon DEF CallRecords
  <2>4. w.pc = a.pc /\ w.i = a.i /\ w.half = a.half /\ w.err = TRUE
    BY <2>2, Zenon DEF CallRecords
  <2> HIDE DEF w
  <2> QED BY <1>1, <1>3, <2>1, <2>2, <2>3, <2>4
<1> QED BY <1>2, <1>3 DEF Scripted

LEMMA HalfFacts ==
  ASSUME Control, NEW o \in Ops, Half(o)
  PROVE  /\ call' \in [Ops -> CallRecords] /\ \A q \in Ops \ {o} : call'[q] = call[q]
         /\ call'[o].half /\ call'[o].pc = call[o].pc /\ call'[o].i = call[o].i
         /\ call'[o].err = call[o].err /\ call'[o].gone = call[o].gone
<1> DEFINE w == [call[o] EXCEPT !.half = TRUE]
<1>1. call \in [Ops -> CallRecords] /\ call[o] \in CallRecords /\ TRUE \in BOOLEAN
  BY DEF Control, TypeOK
<1>2. w \in CallRecords
  BY <1>1, Zenon DEF CallRecords
<1>3. w.half = TRUE /\ w.pc = call[o].pc /\ w.i = call[o].i /\ w.err = call[o].err /\ w.gone = call[o].gone
  BY <1>1, Zenon DEF CallRecords
<1>4. call' = [call EXCEPT ![o] = w]
  BY <1>1 DEF Half
<1> HIDE DEF w
<1> QED BY <1>1, <1>2, <1>3, <1>4

\* A step on the host touches the one thing it is named for.
Touches(o, s) ==
  LET n == NameOf(o)
  IN /\ UNCHANGED <<ops, row, lock, mode, todo, failed, edits, touched, raced, overlapped>>
     /\ faults' \in 0..MaxFaults /\ misled \subseteq misled' /\ misled' \subseteq Names
     /\ file' \in [Names -> [Kinds -> Contents]] /\ active' \in [Names -> Contents]
     /\ enabled' \in [Names -> BOOLEAN] /\ fwd' \in {0, 1}
     /\ \A m \in Names \ {n} : file'[m] = file[m] /\ active'[m] = active[m] /\ enabled'[m] = enabled[m]
     /\ \A k \in Kinds \ {s} : file'[n][k] = file[n][k]
     /\ s \notin {"start", "stop"} => active'[n] = active[n]
     /\ s \notin {"enable", "disable"} => enabled'[n] = enabled[n]

HalfDone(o, s) ==
  LET n == NameOf(o)
  IN /\ Half(o) /\ s \in Kinds
     /\ Writes(o) /\ n \notin touched => file'[n][s] = Partial
     /\ <<n, s>> \in raced \/ file'[n][s] # Foreign

Ends(o, s) == Done(o) \/ Failed(o) \/ HalfDone(o, s)

LEMMA EndsFacts ==
  ASSUME Control, NEW o \in Ops, NEW s, At(o, s), Ends(o, s), ops' = ops
  PROVE  /\ call' \in [Ops -> CallRecords] /\ \A q \in Ops \ {o} : call'[q] = call[q]
         /\ \/ HalfDone(o, s) /\ call'[o].half /\ call'[o].pc = call[o].pc /\ call'[o].i = call[o].i
            \/ ~call'[o].half /\ call'[o].pc = call[o].pc /\ call'[o].i = Here(o) + 1 /\ More(o, Here(o) + 1)
            \/ ~call'[o].half /\ call'[o].pc = Finished(o) /\ call'[o].i = 1 /\ ~More(o, Here(o) + 1)
            \/ ~call'[o].half /\ call'[o].pc = "rb_begin" /\ call'[o].i = 1 /\ call[o].pc = "do"
         /\ Clean(o)' /\ call'[o].pc # "rb_begin" => (Done(o) \/ HalfDone(o, s)) /\ Clean(o)
         /\ call[o].pc = "do" /\ call'[o].pc # "rb_begin" => Done(o) \/ HalfDone(o, s)
<1>1. call[o].pc \in Scripted
  BY AtFacts
<1>2. CASE Done(o)
  BY <1>1, <1>2, DoneFacts DEF Clean, Finished, Scripted
<1>3. CASE Failed(o)
  BY <1>1, <1>3, FailedFacts DEF Clean, Finished, Scripted
<1>4. CASE HalfDone(o, s)
  BY <1>1, <1>4, HalfFacts DEF Clean, HalfDone
<1> QED BY <1>2, <1>3, <1>4 DEF Ends

LEMMA HostStepControl ==
  ASSUME Control, NEW o \in Ops, NEW s, At(o, s), Touches(o, s), Ends(o, s)
  PROVE  Own(o) /\ Lawful(o) /\ Locked(o) /\ TypeOK' /\ Control'
<1> USE StatesLemma DEF StateFacts
<1>1. /\ TypeOK /\ PcOK(o) /\ LockOK(o) /\ OpOK(o) /\ HalfOK(o) /\ NameOf(o) \in Names /\ RowOK(NameOf(o))
      /\ Unused(NameOf(o)) /\ ops[o].type \in {"create", "remove"}
  BY OpFields DEF Control, TypeOK
<1>2. PICK n \in Names : n = NameOf(o)
  BY <1>1
<1>3. /\ call[o].pc \in Scripted /\ Uses(o, s) /\ lock[n] = o /\ ops[o].state \in {"executing", "rolling_back"}
      /\ (call[o].pc = "do" <=> ops[o].state = "executing")
  BY <1>1, <1>2, AtFacts DEF LockOK, PcOK, Scripted
<1>4. ops[o].state \in Current /\ ops[o].state \in UnderWay /\ ops[o].id # 0
  BY <1>1, <1>3 DEF UnderWay, Active, OpOK, Current
<1>5. /\ ops' = ops /\ row' = row /\ lock' = lock /\ raced' = raced /\ touched' = touched
      /\ NameOf(o)' = n /\ \A q \in Ops : NameOf(q)' = NameOf(q)
  BY <1>2 DEF Touches, NameOf
<1>6. /\ call' \in [Ops -> CallRecords] /\ \A q \in Ops \ {o} : call'[q] = call[q]
      /\ \/ HalfDone(o, s) /\ call'[o].half /\ call'[o].pc = call[o].pc /\ call'[o].i = call[o].i
         \/ ~call'[o].half /\ call'[o].pc = call[o].pc /\ call'[o].i = Here(o) + 1 /\ More(o, Here(o) + 1)
         \/ ~call'[o].half /\ call'[o].pc = Finished(o) /\ call'[o].i = 1 /\ ~More(o, Here(o) + 1)
         \/ ~call'[o].half /\ call'[o].pc = "rb_begin" /\ call'[o].i = 1 /\ call[o].pc = "do"
  BY <1>5, EndsFacts
<1>7. TypeOK'
  BY <1>1, <1>6 DEF TypeOK, Touches
<1>8. Own(o)
  <2>1. \A q \in Ops \ {o} : LockOK(q) => LockOK(q)'
    BY <1>5, <1>6 DEF LockOK
  <2> QED BY <1>2, <1>5, <1>6, <2>1 DEF Own, Touches
<1>9. Lawful(o)
  BY <1>5 DEF Lawful
<1>10. Locked(o)
  BY <1>2, <1>3, <1>4 DEF Locked
<1>11. PcOK(o)'
  <2>1. CASE call'[o].pc = call[o].pc
    BY <1>3, <1>5, <2>1 DEF PcOK, Scripted
  <2>2. CASE call'[o].pc = "rb_begin" /\ call[o].pc = "do"
    BY <1>3, <1>5, <2>2 DEF PcOK, UnderWay, Active
  <2>3. CASE call'[o].pc = Finished(o)
    <3>1. CASE call[o].pc = "undo"
      <4>1. call'[o].pc = "rb_end"
        BY <2>3, <3>1 DEF Finished
      <4>2. ops'[o].state = "rolling_back"
        BY <1>3, <1>5, <3>1
      <4> QED BY <4>1, <4>2 DEF PcOK
    <3>2. CASE call[o].pc = "do" /\ ops[o].type = "create"
      <4>1. call'[o].pc = "inspect"
        BY <2>3, <3>2 DEF Finished
      <4> QED BY <1>3, <1>5, <3>2, <4>1 DEF PcOK
    <3>3. CASE call[o].pc = "do" /\ ops[o].type = "remove"
      <4>1. call'[o].pc = "verify"
        BY <2>3, <3>3 DEF Finished
      <4> QED BY <1>3, <1>5, <3>3, <4>1 DEF PcOK
    <3> QED BY <1>1, <1>3, <3>1, <3>2, <3>3 DEF Scripted
  <2> QED BY <1>6, <2>1, <2>2, <2>3
<1>12. LockOK(o)'
  BY <1>3, <1>5 DEF LockOK
<1>13. OpOK(o)'
  BY <1>1, <1>5, SMTT(30) DEF OpOK, NameOf
<1>14. RowOK(NameOf(o))'
  BY <1>1, <1>2, <1>5 DEF RowOK, NoRow, NameOf
<1>15. Unused(NameOf(o))'
  <2>1. s \in Kinds => s \in KindsOf(n)
    BY <1>2, <1>3, UsesFacts
  <2>2. \A k \in Kinds \ KindsOf(n) : file'[n][k] = file[n][k]
    BY <1>2, <2>1 DEF Touches
  <2> QED BY <1>1, <1>2, <1>5, <2>2 DEF Unused, KindsOf
<1>16. HalfOK(o)'
  <2>1. CASE HalfDone(o, s) /\ call'[o].half /\ call'[o].pc = call[o].pc /\ call'[o].i = call[o].i
    <3>1. /\ More(o, call[o].i)' <=> More(o, call[o].i)
          /\ \A t : At(o, t)' <=> At(o, t)
          /\ Writes(o)' <=> Writes(o)
      BY <1>5, <2>1, SameScript DEF Writes
    <3>2. s \in KindsOf(n)' /\ More(o, call[o].i)
      BY <1>1, <1>2, <1>3, <2>1, UsesFacts DEF HalfDone, HalfOK, Scripted, KindsOf
    <3>3. KindsOf(NameOf(o))' = KindsOf(n)
      BY <1>5 DEF KindsOf
    <3>4. \E k \in KindsOf(NameOf(o))' : /\ At(o, k)'
                                         /\ Writes(o)' /\ n \notin touched' => file'[n][k] = Partial
                                         /\ <<n, k>> \in raced' \/ file'[n][k] # Foreign
      <4>1. /\ At(o, s)' /\ s \in KindsOf(NameOf(o))'
            /\ Writes(o)' /\ n \notin touched' => file'[n][s] = Partial
            /\ <<n, s>> \in raced' \/ file'[n][s] # Foreign
        BY <1>2, <1>5, <2>1, <3>1, <3>2, <3>3 DEF HalfDone
      <4> QED BY <4>1
    <3> QED BY <1>3, <1>5, <2>1, <3>1, <3>2, <3>4 DEF HalfOK, Scripted
  <2>2. CASE ~call'[o].half /\ call'[o].pc = call[o].pc /\ call'[o].i = Here(o) + 1 /\ More(o, Here(o) + 1)
    <3>1. More(o, call[o].i)'
      BY <1>3, <1>5, <2>2, PassedNext
    <3> QED BY <1>3, <2>2, <3>1 DEF HalfOK, Scripted
  <2>3. CASE ~call'[o].half /\ call'[o].pc \in {Finished(o), "rb_begin"} /\ call'[o].i = 1
    BY <2>3 DEF HalfOK, Finished
  <2> QED BY <1>6, <2>1, <2>2, <2>3
<1>17. Control'
  BY <1>7, <1>8, <1>9, <1>10, <1>11, <1>12, <1>13, <1>14, <1>15, <1>16, ControlStep
<1> QED BY <1>7, <1>8, <1>9, <1>10, <1>17

\* What a step has to reach on the host: its goal when it has succeeded, and what
\* the removal of an interface may find of it whatever happens
Reached(o, t) == (Writes(o) => Made(o, t)') /\ (~Writes(o) => Unmade(o, t)')
Reaches(o, s) ==
  LET n == NameOf(o)
      id == ops[o].id
      conf == file'[n]["conf"]
  IN /\ Done(o) /\ Clean(o) /\ s \in Making \cup Taking => Reached(o, s)
     /\ ops[o].type = "remove" /\ call[o].pc = "do" => conf \in {Absent, id} /\ active'[n] \in {0, id}
     /\ ops[o].type = "remove" /\ call[o].pc = "undo" =>
          /\ conf \in {Absent, Partial, id}
          /\ active'[n] \in {0, id} \/ (conf = Partial /\ ~(call'[o].half /\ s = "conf"))

\* The goals of the steps behind a call are safe from the step at hand.
LEMMA ReachedKept ==
  ASSUME Control, NEW o \in Ops, NEW s, At(o, s), Touches(o, s),
         NEW t \in Making \cup Taking, Passed(o, t), Goal(o, t)
  PROVE  Reached(o, t)
<1>1. t # s /\ (Writes(o) => s \notin {"disable", "stop"}) /\ (~Writes(o) => s \notin {"enable", "start"})
  BY AtFacts
<1>2. PICK n \in Names : n = NameOf(o)
  BY OpFields DEF Control, TypeOK
<1>3. NameOf(o)' = n /\ ops' = ops
  BY <1>2 DEF Touches, NameOf
<1>4. /\ t \in Kinds => file'[n][t] = file[n][t]
      /\ s \notin {"start", "stop"} => active'[n] = active[n]
      /\ s \notin {"enable", "disable"} => enabled'[n] = enabled[n]
      /\ misled \subseteq misled'
  BY <1>1, <1>2 DEF Touches
<1>5. ASSUME Writes(o) PROVE Made(o, t)'
  BY <1>1, <1>2, <1>3, <1>4, <1>5 DEF Goal, Made
<1>6. ASSUME ~Writes(o) PROVE Unmade(o, t)'
  BY <1>1, <1>2, <1>3, <1>4, <1>6 DEF Goal, Unmade
<1> QED BY <1>5, <1>6 DEF Reached

\* A call that has come to the end of its script has made the interface, or has
\* taken it away.
LEMMA EndReached ==
  ASSUME Control, NEW o \in Ops, NEW s, At(o, s), Touches(o, s), TypeOK', Unused(NameOf(o))',
         ~More(o, Here(o) + 1), Boots(NameOf(o))', ops[o].type = "remove" => Told(o)',
         \A t \in Making \cup Taking : Passed(o, t) => Goal(o, t),
         s \in Making \cup Taking => Reached(o, s)
  PROVE  /\ Writes(o) => Whole(NameOf(o), ops[o].id)'
         /\ ~Writes(o) => Bare(NameOf(o))'
<1>1. PICK n \in Names : n = NameOf(o)
  BY OpFields DEF Control, TypeOK
<1>2. NameOf(o)' = n /\ ops' = ops /\ enabled'[n] \in BOOLEAN /\ ops[o].enabled \in BOOLEAN
  BY <1>1, OpFields DEF Touches, NameOf, TypeOK, Control
<1>3. /\ ops[o].type \in {"create", "remove"} /\ Boots(n)' /\ Unused(n)'
      /\ ops[o].type = "remove" =>
           /\ n \in misled' \/ (ops[o].active /\ ops[o].enabled = (n \in AutoStart))
           /\ ~ops[o].active => active'[n] = ops[o].id
           /\ ~ops[o].enabled => enabled'[n] = (n \in AutoStart)
           /\ ops[o].enabled => n \in AutoStart
  BY <1>1, <1>2, OpFields DEF Told, Control, TypeOK
<1>4. /\ \A k \in Kinds : Uses(o, k) <=> k \in KindsOf(n)
      /\ Uses(o, "start") \/ (ops[o].type = "remove" /\ ~ops[o].active)
      /\ Uses(o, "enable") \/ n \notin AutoStart \/ (ops[o].type = "remove" /\ ~ops[o].enabled)
      /\ n \notin misled' => Uses(o, "stop") /\ (n \in AutoStart => Uses(o, "disable"))
  BY <1>1, <1>2, <1>3, UsesFacts
<1>5. CASE Writes(o)
  <2>1. ASSUME NEW t \in Making, Uses(o, t) PROVE Made(o, t)'
    BY <1>5, <2>1, FinishedFacts, ReachedKept DEF Reached
  <2>2. \A k \in KindsOf(n) : file'[n][k] = ops[o].id
    <3> TAKE k \in KindsOf(n)
    <3>1. k \in Kinds /\ k \in Making
      BY DEF KindsOf, Making
    <3>2. Made(o, k)'
      BY <1>4, <2>1, <3>1
    <3> QED BY <1>2, <3>1, <3>2 DEF Made
  <2>3. active'[n] = ops[o].id
    <3>1. CASE Uses(o, "start")
      <4>1. Made(o, "start")'
        BY <2>1, <3>1 DEF Making
      <4> QED BY <1>2, <4>1 DEF Made
    <3>2. CASE ops[o].type = "remove" /\ ~ops[o].active
      BY <1>3, <3>2
    <3> QED BY <1>4, <3>1, <3>2
  <2>4. enabled'[n] = (n \in AutoStart)
    <3>1. CASE n \in AutoStart /\ Uses(o, "enable")
      <4>1. Made(o, "enable")'
        BY <2>1, <3>1 DEF Making
      <4> QED BY <1>2, <3>1, <4>1 DEF Made
    <3>2. CASE n \notin AutoStart
      BY <1>2, <1>3, <3>2 DEF Boots
    <3>3. CASE ops[o].type = "remove" /\ ~ops[o].enabled
      BY <1>3, <3>3
    <3> QED BY <1>4, <3>1, <3>2, <3>3
  <2> QED BY <1>1, <1>2, <1>5, <2>2, <2>3, <2>4 DEF Whole, KindsOf
<1>6. CASE ~Writes(o)
  <2>1. ASSUME NEW t \in Taking, Uses(o, t) PROVE Unmade(o, t)'
    BY <1>6, <2>1, FinishedFacts, ReachedKept DEF Reached
  <2>2. \A k \in Kinds : file'[n][k] = Absent
    <3> TAKE k \in Kinds
    <3>1. CASE k \in KindsOf(n)
      <4>1. Unmade(o, k)'
        BY <1>4, <2>1, <3>1 DEF Taking
      <4> QED BY <1>2, <4>1 DEF Unmade
    <3>2. CASE k \notin KindsOf(n)
      BY <1>3, <3>2 DEF Unused, KindsOf
    <3> QED BY <3>1, <3>2
  <2>3. CASE n \in misled'
    BY <1>1, <1>2, <1>6, <2>2, <2>3 DEF Bare
  <2>4. CASE n \notin misled'
    <3>1. active'[n] = 0
      <4>1. Unmade(o, "stop")'
        BY <1>4, <2>1, <2>4 DEF Taking
      <4> QED BY <1>2, <2>4, <4>1 DEF Unmade
    <3>2. ~enabled'[n]
      <4>1. CASE n \in AutoStart
        <5>1. Unmade(o, "disable")'
          BY <1>4, <2>1, <2>4, <4>1 DEF Taking
        <5> QED BY <1>2, <2>4, <5>1 DEF Unmade
      <4>2. CASE n \notin AutoStart
        BY <1>3, <4>2 DEF Boots
      <4> QED BY <4>1, <4>2
    <3> QED BY <1>1, <1>2, <1>6, <2>2, <3>1, <3>2 DEF Bare
  <2> QED BY <2>3, <2>4
<1> QED BY <1>5, <1>6

LEMMA HostStepHost ==
  ASSUME IInv, NEW o \in Ops, NEW s, At(o, s), Touches(o, s), Ends(o, s),
         NameOf(o) \notin touched => Reaches(o, s)
  PROVE  IInv'
<1> USE StatesLemma DEF StateFacts
<1>1. Control /\ Host /\ Own(o) /\ Lawful(o) /\ Locked(o) /\ TypeOK' /\ Control'
  BY HostStepControl DEF IInv
<1> SUFFICES ASSUME NameOf(o) \notin touched
             PROVE  Rest(NameOf(o))' /\ Boots(NameOf(o))' /\ Progress(o)' /\ Removing(o)'
  BY <1>1, HostStepFrame DEF IInv
<1>2. PICK n \in Names : n = NameOf(o)
  BY <1>1, OpFields DEF Control, TypeOK
<1>3. /\ NameOf(o)' = n /\ ops' = ops /\ row' = row /\ n \notin touched
      /\ s \notin {"enable", "disable"} => enabled'[n] = enabled[n]
  BY <1>2 DEF Touches, NameOf
<1>4. /\ Rest(n) /\ Boots(n) /\ Progress(o) /\ Removing(o) /\ Reaches(o, s)
      /\ PcOK(o) /\ OpOK(o) /\ RowOK(n) /\ Unused(n)' /\ ops[o].type \in {"create", "remove"}
  BY <1>1, <1>2, <1>3, OpFields DEF Host, Control, TypeOK
<1>5. /\ call[o].pc \in {"do", "undo"} /\ Uses(o, s) /\ ~Passed(o, s) /\ Script(o)[Here(o)] = s
      /\ call[o].pc = "do" => ops[o].state = "executing"
      /\ call[o].pc = "undo" => ops[o].state = "rolling_back"
  BY <1>1, <1>4, AtFacts DEF PcOK, Scripted
<1>6. ops[o].state \in {"executing", "rolling_back"} /\ ops[o].state \in UnderWay /\ ops[o].state \in Current
  BY <1>5 DEF UnderWay, Active, Current
<1>7. ops[o].id # 0 /\ row[n].id = ops[o].id
  BY <1>2, <1>4, <1>6 DEF OpOK
<1>8. Rest(n)'
  <2>1. CASE ops[o].type = "create"
    <3>1. row[n].id = o
      BY <1>4, <1>7, <2>1 DEF OpOK
    <3> QED BY <1>3, <1>5, <1>7, <3>1 DEF Rest
  <2>2. CASE ops[o].type = "remove"
    <3>1. ~NoRemoval(row[n].id)'
      BY <1>3, <1>6, <1>7, <2>2 DEF NoRemoval
    <3>2. ops[row[n].id].state = "committed"
      BY <1>4, <1>7, <2>2 DEF OpOK
    <3> QED BY <1>3, <1>7, <3>1, <3>2 DEF Rest
  <2> QED BY <1>4, <2>1, <2>2
<1>9. Boots(n)'
  <2>1. CASE s \in {"enable", "disable"}
    <3>1. n \in AutoStart
      <4>1. CASE ops[o].type = "create"
        BY <1>2, <1>5, <2>1, <4>1, UsesFacts
      <4>2. CASE ops[o].type = "remove"
        <5>1. ops[o].enabled /\ Told(o)
          BY <1>2, <1>4, <1>5, <1>6, <2>1, <4>2, UsesFacts DEF Removing
        <5> QED BY <1>2, <5>1 DEF Told
      <4> QED BY <1>4, <4>1, <4>2
    <3> QED BY <3>1 DEF Boots
  <2>2. CASE s \notin {"enable", "disable"}
    BY <1>3, <1>4, <2>2 DEF Boots
  <2> QED BY <2>1, <2>2
<1>10. /\ \/ HalfDone(o, s) /\ call'[o].half /\ call'[o].pc = call[o].pc /\ call'[o].i = call[o].i
          \/ ~call'[o].half /\ call'[o].pc = call[o].pc /\ call'[o].i = Here(o) + 1 /\ More(o, Here(o) + 1)
          \/ ~call'[o].half /\ call'[o].pc = Finished(o) /\ call'[o].i = 1 /\ ~More(o, Here(o) + 1)
          \/ ~call'[o].half /\ call'[o].pc = "rb_begin" /\ call'[o].i = 1 /\ call[o].pc = "do"
       /\ Clean(o)' /\ call'[o].pc # "rb_begin" => (Done(o) \/ HalfDone(o, s)) /\ Clean(o)
       /\ call[o].pc = "do" /\ call'[o].pc # "rb_begin" => Done(o) \/ HalfDone(o, s)
  BY <1>1, <1>3, EndsFacts
<1>105. ops[o].type = "remove" => Told(o)'
  <2> SUFFICES ASSUME ops[o].type = "remove" PROVE Told(o)'
    OBVIOUS
  <2>1. Told(o) /\ misled \subseteq misled'
    BY <1>4, <1>6 DEF Removing, Touches
  <2>2. ~ops[o].active => active'[n] = active[n]
    BY <1>2, <1>5, UsesFacts DEF Touches
  <2>3. ~ops[o].enabled => enabled'[n] = enabled[n]
    BY <1>2, <1>5, UsesFacts DEF Touches
  <2> QED BY <1>2, <1>3, <2>1, <2>2, <2>3 DEF Told
<1>11. Progress(o)'
  <2>1. CASE HalfDone(o, s) /\ call'[o].half /\ call'[o].pc = call[o].pc /\ call'[o].i = call[o].i
    <3>1. /\ \A t : Passed(o, t)' <=> Passed(o, t)
          /\ Writes(o)' <=> Writes(o)
      BY <1>3, <2>1, SameScript DEF Writes
    <3>2. ASSUME Clean(o)', NEW t \in Making \cup Taking, Passed(o, t)' PROVE Goal(o, t)'
      <4>1. Clean(o) /\ Passed(o, t)
        BY <1>5, <1>10, <2>1, <3>1, <3>2
      <4>2. Goal(o, t)
        BY <1>4, <1>5, <4>1 DEF Progress
      <4>3. Reached(o, t)
        BY <1>1, <4>1, <4>2, ReachedKept
      <4> QED BY <3>1, <4>3 DEF Reached, Goal
    <3> QED BY <1>5, <2>1, <3>2 DEF Progress
  <2>2. CASE ~call'[o].half /\ call'[o].pc = call[o].pc /\ call'[o].i = Here(o) + 1 /\ More(o, Here(o) + 1)
    <3>1. /\ \A t : Passed(o, t)' => Passed(o, t) \/ t = s
          /\ Writes(o)' <=> Writes(o)
      BY <1>1, <1>3, <1>5, <2>2, PassedNext DEF Writes, Scripted
    <3>2. ASSUME Clean(o)', NEW t \in Making \cup Taking, Passed(o, t)' PROVE Goal(o, t)'
      <4>1. Clean(o) /\ Done(o)
        <5>1. ~HalfDone(o, s)
          BY <1>1, <2>2, HalfFacts DEF HalfDone
        <5> QED BY <1>5, <1>10, <2>2, <3>2, <5>1
      <4>2. CASE Passed(o, t)
        <5>1. Goal(o, t)
          BY <1>4, <1>5, <4>1, <4>2 DEF Progress
        <5>2. Reached(o, t)
          BY <1>1, <4>2, <5>1, ReachedKept
        <5> QED BY <3>1, <5>2 DEF Reached, Goal
      <4>3. CASE t = s
        <5>1. Reached(o, t)
          BY <1>4, <4>1, <4>3 DEF Reaches
        <5> QED BY <3>1, <5>1 DEF Reached, Goal
      <4> QED BY <3>1, <3>2, <4>2, <4>3
    <3> QED BY <1>5, <2>2, <3>2 DEF Progress
  <2>3. CASE ~call'[o].half /\ call'[o].pc = Finished(o) /\ call'[o].i = 1 /\ ~More(o, Here(o) + 1)
    <3>1. ~HalfDone(o, s)
      BY <1>1, <2>3, HalfFacts DEF HalfDone
    <3>2. ASSUME Clean(o), Done(o)
          PROVE  (Writes(o) => Whole(n, ops[o].id)') /\ (~Writes(o) => Bare(n)')
      <4>1. \A t \in Making \cup Taking : Passed(o, t) => Goal(o, t)
        BY <1>4, <1>5, <3>2 DEF Progress
      <4>2. s \in Making \cup Taking => Reached(o, s)
        BY <1>4, <3>2 DEF Reaches
      <4>3. Boots(NameOf(o))' /\ Unused(NameOf(o))'
        BY <1>3, <1>4, <1>9
      <4>4. /\ Writes(o) => Whole(NameOf(o), ops[o].id)'
            /\ ~Writes(o) => Bare(NameOf(o))'
        BY <1>1, <1>105, <2>3, <4>1, <4>2, <4>3, EndReached
      <4> QED BY <1>3, <4>4
    <3>3. CASE call[o].pc = "do"
      <4>1. Clean(o) /\ Done(o)
        BY <1>5, <1>10, <2>3, <3>1, <3>3 DEF Clean, Finished
      <4>2. CASE ops[o].type = "create"
        <5>1. call'[o].pc = "inspect" /\ Writes(o)
          BY <2>3, <3>3, <4>2 DEF Finished, Writes
        <5> QED BY <1>3, <3>2, <4>1, <5>1 DEF Progress
      <4>3. CASE ops[o].type = "remove"
        <5>1. call'[o].pc = "verify" /\ ~Writes(o)
          BY <2>3, <3>3, <4>3 DEF Finished, Writes
        <5> QED BY <1>3, <3>2, <4>1, <5>1 DEF Progress
      <4> QED BY <1>4, <4>2, <4>3
    <3>4. CASE call[o].pc = "undo"
      <4>1. call'[o].pc = "rb_end"
        BY <2>3, <3>4 DEF Finished
      <4>2. Clean(o)' => Clean(o) /\ Done(o)
        BY <1>10, <3>1, <4>1
      <4>3. CASE ops[o].type = "create"
        <5>1. ~Writes(o)
          BY <3>4, <4>3 DEF Writes
        <5> QED BY <1>3, <3>2, <4>1, <4>2, <4>3, <5>1 DEF Progress
      <4>4. CASE ops[o].type = "remove"
        <5>1. Writes(o)
          BY <3>4, <4>4 DEF Writes
        <5> QED BY <1>3, <3>2, <4>1, <4>2, <4>4, <5>1 DEF Progress
      <4> QED BY <1>4, <4>3, <4>4
    <3> QED BY <1>5, <3>3, <3>4
  <2>4. CASE call'[o].pc = "rb_begin"
    BY <2>4 DEF Progress
  <2> QED BY <1>10, <2>1, <2>2, <2>3, <2>4
<1>12. Removing(o)'
  <2>1. ASSUME call'[o].half /\ At(o, "conf")' PROVE s = "conf"
    <3>1. call'[o].pc = call[o].pc /\ call'[o].i = call[o].i
      BY <1>10, <2>1
    <3>2. At(o, "conf")
      BY <1>3, <2>1, <3>1, SameScript
    <3> QED BY <1>5, <3>2 DEF At
  <2>2. CASE ops[o].type = "remove"
    <3>1. Told(o)'
      BY <1>105, <2>2
    <3>2. CASE call[o].pc = "do"
      <4>1. file'[n]["conf"] \in {Absent, ops[o].id} /\ active'[n] \in {0, ops[o].id}
        BY <1>2, <1>4, <2>2, <3>2 DEF Reaches
      <4> QED BY <1>3, <1>5, <2>2, <3>1, <3>2, <4>1 DEF Removing
    <3>3. CASE call[o].pc = "undo"
      <4>1. /\ file'[n]["conf"] \in {Absent, Partial, ops[o].id}
            /\ active'[n] \in {0, ops[o].id} \/ (file'[n]["conf"] = Partial /\ ~(call'[o].half /\ s = "conf"))
        BY <1>2, <1>4, <2>2, <3>3 DEF Reaches
      <4> QED BY <1>3, <1>5, <2>1, <2>2, <3>1, <3>3, <4>1 DEF Removing
    <3> QED BY <1>5, <3>2, <3>3
  <2>3. CASE ops[o].type = "create"
    BY <1>3, <2>3 DEF Removing
  <2> QED BY <1>4, <2>2, <2>3
<1> QED BY <1>3, <1>8, <1>9, <1>11, <1>12

-----------------------------------------------------------------------------
(* The steps on the host *)

LEMMA AtWork ==
  ASSUME Control, NEW o \in Ops, NEW s, At(o, s)
  PROVE  /\ NameOf(o) \in Names /\ ops[o].id \in Ops /\ ops[o].type \in {"create", "remove"}
         /\ ops[o].type = "create" => ops[o].id = o
         /\ call[o].pc \in {"do", "undo"} /\ TypeOK /\ file[NameOf(o)] \in [Kinds -> Contents]
         /\ call[o].half \in BOOLEAN /\ call[o].gone \in BOOLEAN
         /\ call[o].pc = "do" => ops[o].state = "executing"
         /\ call[o].pc = "undo" => ops[o].state = "rolling_back"
         /\ ops[o].id \in Contents /\ Absent \in Contents /\ Partial \in Contents /\ 0 \in Contents
         /\ ops[o].id # Absent /\ ops[o].id # Partial /\ ops[o].id # Foreign /\ Partial # Foreign
         /\ Partial # Absent
<1>1. TypeOK /\ PcOK(o) /\ OpOK(o)
  BY DEF Control
<1>2. /\ NameOf(o) \in Names /\ ops[o].id \in Ops \cup {0} /\ ops[o].type \in {"create", "remove"}
      /\ call[o].half \in BOOLEAN /\ call[o].gone \in BOOLEAN
  BY <1>1, OpFields, CallFields DEF TypeOK
<1>3. /\ call[o].pc \in {"do", "undo"} /\ (call[o].pc = "do" => ops[o].state = "executing")
      /\ (call[o].pc = "undo" => ops[o].state = "rolling_back")
  BY <1>1 DEF PcOK, At
<1>4. ops[o].id # 0
  BY <1>1, <1>3 DEF OpOK, UnderWay, Active
<1>5. ops[o].type = "create" => ops[o].id = o
  BY <1>1, <1>4 DEF OpOK
<1>6. file[NameOf(o)] \in [Kinds -> Contents]
  BY <1>1, <1>2 DEF TypeOK
<1>7. ops[o].id \in Contents /\ Absent \in Contents /\ Partial \in Contents /\ 0 \in Contents
  BY <1>2 DEF Contents, Absent
<1>8. /\ ops[o].id # Absent /\ ops[o].id # Partial /\ ops[o].id # Foreign /\ Partial # Foreign
      /\ Partial # Absent
  BY <1>2, <1>4, Numbers
<1> QED BY <1>1, <1>2, <1>3, <1>4, <1>5, <1>6, <1>7, <1>8

\* A step on a file leaves it, or puts something there.
FileMove(o, k, v) == Put(o, k, v) \/ (file' = file /\ v = file[NameOf(o)][k])

LEMMA FileTouches ==
  ASSUME Control, NEW o \in Ops, NEW k \in Kinds, At(o, k), FileStep, NEW v \in Contents, FileMove(o, k, v),
         faults' \in 0..MaxFaults
  PROVE  Touches(o, k) /\ file'[NameOf(o)][k] = v
<1>1. TypeOK /\ NameOf(o) \in Names /\ file \in [Names -> [Kinds -> Contents]]
  BY AtWork DEF TypeOK
<1>2. PICK n \in Names : n = NameOf(o)
  BY <1>1
<1>3. /\ file' \in [Names -> [Kinds -> Contents]] /\ file'[n][k] = v
      /\ \A m \in Names \ {n} : file'[m] = file[m]
      /\ \A l \in Kinds \ {k} : file'[n][l] = file[n][l]
  <2>1. CASE Put(o, k, v)
    <3>1. file' = [file EXCEPT ![n] = [file[n] EXCEPT ![k] = v]]
      BY <1>1, <1>2, <2>1 DEF Put
    <3>2. [file[n] EXCEPT ![k] = v] \in [Kinds -> Contents]
      BY <1>1, <1>2
    <3> QED BY <1>1, <1>2, <3>1, <3>2
  <2>2. CASE file' = file /\ v = file[n][k]
    BY <1>1, <2>2
  <2> QED BY <1>2, <2>1, <2>2 DEF FileMove
<1>4. /\ UNCHANGED <<ops, row, lock, mode, todo, failed, edits, touched, misled, raced, overlapped>>
      /\ active' = active /\ enabled' = enabled /\ fwd' = fwd
  BY DEF FileStep, agent, history
<1>5. active \in [Names -> Contents] /\ enabled \in [Names -> BOOLEAN] /\ fwd \in {0, 1} /\ misled \subseteq Names
  BY <1>1 DEF TypeOK
<1>6. Touches(o, k)
  BY <1>2, <1>3, <1>4, <1>5 DEF Touches
<1> QED BY <1>2, <1>3, <1>6

\* A step on something else than a file
LEMMA OtherTouches ==
  ASSUME Control, NEW o \in Ops, NEW s, At(o, s), OtherStep, faults' \in 0..MaxFaults,
         active' \in [Names -> Contents], enabled' \in [Names -> BOOLEAN], fwd' \in {0, 1},
         misled \subseteq misled', misled' \subseteq Names,
         \A m \in Names \ {NameOf(o)} : active'[m] = active[m] /\ enabled'[m] = enabled[m],
         s \notin {"start", "stop"} => active'[NameOf(o)] = active[NameOf(o)],
         s \notin {"enable", "disable"} => enabled'[NameOf(o)] = enabled[NameOf(o)]
  PROVE  Touches(o, s) /\ file' = file
<1>1. TypeOK
  BY AtWork
<1>2. UNCHANGED <<ops, row, lock, mode, todo, failed, edits, touched, raced, overlapped>> /\ file' = file
  BY DEF OtherStep, agent, history
<1>3. file' \in [Names -> [Kinds -> Contents]]
  BY <1>1, <1>2 DEF TypeOK
<1> QED BY <1>2, <1>3 DEF Touches

\* What the invariant knows about the interface at a step
LEMMA AtHost ==
  ASSUME IInv, NEW o \in Ops, NEW s, At(o, s), NameOf(o) \notin touched
  PROVE  LET n == NameOf(o)
             id == ops[o].id
             conf == file[n]["conf"]
         IN /\ Writes(o) /\ s = "start" /\ Clean(o) => conf = id
            /\ ops[o].type = "remove" /\ call[o].pc = "do" => conf \in {Absent, id} /\ active[n] \in {0, id}
            /\ ops[o].type = "remove" /\ call[o].pc = "undo" =>
                 /\ conf \in {Absent, Partial, id}
                 /\ active[n] \in {0, id} \/ (conf = Partial /\ ~(call[o].half /\ s = "conf"))
<1>1. Control /\ Progress(o) /\ Removing(o) /\ NameOf(o) \in Names
  BY AtWork DEF IInv, Host
<1>2. PICK n \in Names : n = NameOf(o)
  BY <1>1
<1>3. ASSUME Writes(o), s = "start", Clean(o) PROVE file[n]["conf"] = ops[o].id
  <2>1. Passed(o, "conf")
    BY <1>1, <1>3, AtFacts
  <2>2. "conf" \in Making \cup Taking /\ "conf" \in Kinds
    BY DEF Making, Kinds
  <2>3. Goal(o, "conf")
    BY <1>1, <1>3, <2>1, <2>2, AtWork DEF Progress
  <2> QED BY <1>2, <1>3, <2>2, <2>3 DEF Goal, Made
<1>4. ASSUME ops[o].type = "remove", call[o].pc = "do"
      PROVE  file[n]["conf"] \in {Absent, ops[o].id} /\ active[n] \in {0, ops[o].id}
  BY <1>1, <1>2, <1>4, AtWork DEF Removing
<1>5. ASSUME ops[o].type = "remove", call[o].pc = "undo"
      PROVE  /\ file[n]["conf"] \in {Absent, Partial, ops[o].id}
             /\ active[n] \in {0, ops[o].id} \/ (file[n]["conf"] = Partial /\ ~(call[o].half /\ s = "conf"))
  <2>1. ops[o].state = "rolling_back"
    BY <1>1, <1>5, AtWork
  <2>2. s = "conf" => At(o, "conf")
    OBVIOUS
  <2> QED BY <1>1, <1>2, <1>5, <2>1, <2>2 DEF Removing
<1> QED BY <1>2, <1>3, <1>4, <1>5

\* A step that leaves the configuration and the unit's state meets what a removal
\* asks of every step.
LEMMA ReachesOther ==
  ASSUME IInv, NEW o \in Ops, NEW s, At(o, s), s # "conf",
         file'[NameOf(o)]["conf"] = file[NameOf(o)]["conf"], active'[NameOf(o)] = active[NameOf(o)],
         NameOf(o) \notin touched /\ Done(o) /\ Clean(o) /\ s \in Making \cup Taking => Reached(o, s)
  PROVE  NameOf(o) \notin touched => Reaches(o, s)
<1> SUFFICES ASSUME NameOf(o) \notin touched PROVE Reaches(o, s)
  OBVIOUS
<1> QED BY AtHost DEF Reaches

\* A step that failed did not succeed as well, unless an earlier one has failed.
LEMMA EndsApart ==
  ASSUME Control, NEW o \in Ops, NEW s, At(o, s)
  PROVE  /\ Half(o) => ~Done(o)
         /\ Failed(o) /\ Clean(o) => ~Done(o)
         /\ Failed(o) \/ Done(o) => ~call'[o].half
<1>1. call[o].pc \in Scripted
  BY AtFacts
<1>2. Half(o) => call'[o].half
  BY HalfFacts
<1>3. /\ Failed(o) => ~call'[o].half /\ (call[o].pc = "do" => call'[o].pc = "rb_begin")
                                    /\ (call[o].pc = "undo" => call'[o].err)
  BY <1>1, FailedFacts
<1>4. Done(o) => /\ ~call'[o].half /\ call'[o].err = call[o].err
                 /\ call[o].pc = "do" => call'[o].pc # "rb_begin"
  BY <1>1, DoneFacts DEF Finished, Scripted
<1> QED BY <1>1, <1>2, <1>3, <1>4 DEF Clean, Scripted

LEMMA WriteOwnedFileKeeps ==
  ASSUME IInv, NEW o \in Ops, NEW k \in Kinds, WriteOwnedFile(o, k)
  PROVE  IInv'
<1>1. Control /\ At(o, k) /\ Writes(o) /\ FileStep
  BY DEF IInv, WriteOwnedFile, AtFile
<1> DEFINE n == NameOf(o)
           now == file[n][k]
           id == ops[o].id
<1>2. /\ n \in Names /\ id \in Ops /\ id \in Contents /\ Absent \in Contents /\ Partial \in Contents
      /\ now \in Contents /\ Partial # Foreign /\ id # Partial /\ id # Absent /\ Partial # Absent /\ TypeOK
      /\ ops[o].type \in {"create", "remove"} /\ call[o].pc \in {"do", "undo"}
  BY <1>1, AtWork
<1>3. faults \in 0..MaxFaults /\ (Fault => faults' \in 0..MaxFaults)
  BY <1>2, FaultFacts DEF TypeOK
<1>4. ops[o].type = "remove" => call[o].pc = "undo"
  BY <1>1, <1>2 DEF Writes
<1>45. call[o].half /\ n \notin touched => now = Partial
  <2> SUFFICES ASSUME call[o].half, n \notin touched PROVE now = Partial
    OBVIOUS
  <2>1. PICK j \in KindsOf(n) : At(o, j) /\ file[n][j] = Partial
    BY <1>1, <1>2 DEF Control, HalfOK
  <2>2. j = k
    BY <1>1, <2>1 DEF At
  <2> QED BY <2>1, <2>2
<1>5. ASSUME NEW v \in Contents, FileMove(o, k, v), faults' \in 0..MaxFaults, Ends(o, k),
             n \notin touched /\ Done(o) /\ Clean(o) => v = id,
             n \notin touched /\ k = "conf" =>
                           \/ ~call[o].half /\ now = Absent /\ v = Partial
                           \/ ~call[o].half /\ v = now /\ ~call'[o].half
                           \/ call[o].half /\ v \in {id, Absent}
      PROVE  IInv'
  <2>1. Touches(o, k) /\ file'[n][k] = v
    BY <1>1, <1>5, FileTouches
  <2>2. active' = active /\ ops' = ops /\ NameOf(o)' = n
    BY <1>1 DEF FileStep, NameOf
  <2>3. n \notin touched /\ Done(o) /\ Clean(o) => Reached(o, k)
    BY <1>1, <1>5, <2>1, <2>2 DEF Reached, Made, Kinds
  <2>4. n \notin touched => Reaches(o, k)
    <3>1. CASE k # "conf"
      <4>1. file'[n]["conf"] = file[n]["conf"]
        BY <2>1, <3>1 DEF Touches, Kinds
      <4> QED BY <1>1, <2>2, <2>3, <3>1, <4>1, ReachesOther
    <3>2. ASSUME k = "conf", n \notin touched PROVE Reaches(o, k)
      <4>1. ops[o].type = "remove" => /\ now \in {Absent, Partial, id}
                                      /\ active[n] \in {0, id} \/ (now = Partial /\ ~call[o].half)
        BY <1>1, <1>4, <3>2, AtHost
      <4>2. ops[o].type = "remove" => /\ v \in {Absent, Partial, id}
                                      /\ active[n] \in {0, id} \/ (v = Partial /\ ~call'[o].half)
        BY <1>2, <1>5, <3>2, <4>1
      <4> QED BY <1>4, <2>1, <2>2, <2>3, <3>2, <4>2 DEF Reaches
    <3> QED BY <3>1, <3>2
  <2> QED BY <1>1, <1>5, <2>1, <2>4, HostStepHost
<1>6. /\ Done(o) => Ends(o, k) /\ ~call'[o].half
      /\ Failed(o) => Ends(o, k) /\ ~call'[o].half /\ ~(Done(o) /\ Clean(o))
      /\ Put(o, k, Partial) /\ Half(o) => Ends(o, k) /\ ~Done(o)
  <2>1. Put(o, k, Partial) /\ Half(o) => HalfDone(o, k)
    <3> SUFFICES ASSUME Put(o, k, Partial), Half(o) PROVE file'[n][k] = Partial
      BY <1>1, <1>2 DEF HalfDone
    <3> QED BY <1>2 DEF Put, TypeOK
  <2> QED BY <1>1, <2>1, EndsApart DEF Ends
<1>7. /\ \A v : Put(o, k, v) => FileMove(o, k, v)
      /\ file' = file => FileMove(o, k, now)
  BY DEF FileMove
<1> HIDE DEF n, now, id
<1>8. CASE ~call[o].half /\ now = Absent /\ Put(o, k, Partial) /\ Half(o) /\ UNCHANGED faults
  BY <1>2, <1>3, <1>5, <1>6, <1>7, <1>8
<1>9. CASE ~call[o].half /\ now = id /\ UNCHANGED <<file, faults>> /\ Done(o)
  BY <1>2, <1>3, <1>5, <1>6, <1>7, <1>9
<1>10. CASE ~call[o].half /\ (UNCHANGED faults \/ Fault) /\ file' = file /\ Failed(o)
  BY <1>2, <1>3, <1>5, <1>6, <1>7, <1>10
<1>11. CASE call[o].half /\ Put(o, k, IF now = Partial THEN id ELSE now) /\ Done(o) /\ UNCHANGED faults
  <2>1. PICK v \in Contents : v = IF now = Partial THEN id ELSE now
    BY <1>2
  <2>2. n \notin touched => v = id
    BY <1>11, <1>45, <2>1
  <2> QED BY <1>3, <1>5, <1>6, <1>7, <1>11, <2>1, <2>2
<1>12. CASE call[o].half /\ Fault /\ Put(o, k, Absent) /\ Failed(o)
  BY <1>2, <1>3, <1>5, <1>6, <1>7, <1>12
<1> QED BY <1>8, <1>9, <1>10, <1>11, <1>12 DEF WriteOwnedFile, n, now, id

LEMMA CreateConfigKeeps ==
  ASSUME IInv, NEW o \in Ops, CreateConfig(o)
  PROVE  IInv'
<1>1. Control /\ At(o, "conf") /\ Writes(o) /\ FileStep /\ call[o].pc = "do" /\ "conf" \in Kinds
  BY DEF IInv, CreateConfig, AtFile
<1> DEFINE n == NameOf(o)
           now == file[n]["conf"]
<1>2. n \in Names /\ o \in Contents /\ now \in Contents /\ TypeOK /\ ops[o].type = "create" /\ ops[o].id = o
  BY <1>1, AtWork DEF Writes
<1>3. faults \in 0..MaxFaults /\ (Fault => faults' \in 0..MaxFaults)
  BY <1>2, FaultFacts DEF TypeOK
<1>4. ASSUME NEW v \in Contents, FileMove(o, "conf", v), faults' \in 0..MaxFaults, Ends(o, "conf"),
             Done(o) /\ Clean(o) => v = o
      PROVE  IInv'
  <2>1. Touches(o, "conf") /\ file'[n]["conf"] = v
    BY <1>1, <1>4, FileTouches
  <2>2. ops' = ops /\ NameOf(o)' = n
    BY <1>1 DEF FileStep, NameOf
  <2>3. Done(o) /\ Clean(o) => Reached(o, "conf")
    BY <1>1, <1>2, <1>4, <2>1, <2>2 DEF Reached, Made
  <2>4. Reaches(o, "conf")
    BY <1>2, <2>3 DEF Reaches
  <2> QED BY <1>1, <1>4, <2>1, <2>4, HostStepHost
<1>5. /\ Done(o) => Ends(o, "conf")
      /\ Failed(o) => Ends(o, "conf") /\ ~(Done(o) /\ Clean(o))
  BY <1>1, EndsApart DEF Ends
<1>6. /\ \A v : Put(o, "conf", v) => FileMove(o, "conf", v)
      /\ file' = file => FileMove(o, "conf", now)
  BY DEF FileMove
<1> HIDE DEF n, now
<1>7. CASE Put(o, "conf", o) /\ Done(o) /\ UNCHANGED faults
  BY <1>2, <1>3, <1>4, <1>5, <1>6, <1>7
<1>8. CASE file' = file /\ (UNCHANGED faults \/ Fault) /\ Failed(o)
  BY <1>2, <1>3, <1>4, <1>5, <1>6, <1>8
<1>9. CASE Fault /\ Failed(o) /\ Put(o, "conf", o)
  BY <1>2, <1>3, <1>4, <1>5, <1>6, <1>9
<1> QED BY <1>7, <1>8, <1>9 DEF CreateConfig

LEMMA RemoveOwnedFileKeeps ==
  ASSUME IInv, NEW o \in Ops, NEW k \in Kinds, RemoveOwnedFile(o, k)
  PROVE  IInv'
<1>1. Control /\ At(o, k) /\ ~Writes(o) /\ FileStep
  BY DEF IInv, RemoveOwnedFile, AtFile
<1> DEFINE n == NameOf(o)
           now == file[n][k]
<1>2. /\ n \in Names /\ Absent \in Contents /\ now \in Contents /\ TypeOK
      /\ ops[o].type \in {"create", "remove"} /\ call[o].pc \in {"do", "undo"}
      /\ ops[o].id # Foreign /\ Partial # Foreign
  BY <1>1, AtWork
<1>3. faults \in 0..MaxFaults /\ (Fault => faults' \in 0..MaxFaults)
  BY <1>2, FaultFacts DEF TypeOK
<1>4. ops[o].type = "remove" => call[o].pc = "do"
  BY <1>1, <1>2 DEF Writes
<1>5. ASSUME NEW v \in {now, Absent}, FileMove(o, k, v), faults' \in 0..MaxFaults, Ends(o, k),
             Done(o) /\ Clean(o) => v = Absent
      PROVE  IInv'
  <2>1. Touches(o, k) /\ file'[n][k] = v
    BY <1>1, <1>2, <1>5, FileTouches
  <2>2. active' = active /\ ops' = ops /\ NameOf(o)' = n
    BY <1>1 DEF FileStep, NameOf
  <2>3. Done(o) /\ Clean(o) => Reached(o, k)
    BY <1>1, <1>5, <2>1, <2>2 DEF Reached, Unmade, Kinds
  <2>4. n \notin touched => Reaches(o, k)
    <3>1. CASE k # "conf"
      <4>1. file'[n]["conf"] = file[n]["conf"]
        BY <2>1, <3>1 DEF Touches, Kinds
      <4> QED BY <1>1, <2>2, <2>3, <3>1, <4>1, ReachesOther
    <3>2. ASSUME k = "conf", n \notin touched PROVE Reaches(o, k)
      <4>1. ops[o].type = "remove" => now \in {Absent, ops[o].id} /\ active[n] \in {0, ops[o].id}
        BY <1>1, <1>4, <3>2, AtHost
      <4> QED BY <1>4, <1>5, <2>1, <2>2, <2>3, <3>2, <4>1 DEF Reaches
    <3> QED BY <3>1, <3>2
  <2> QED BY <1>1, <1>5, <2>1, <2>4, HostStepHost
<1>6. /\ Done(o) => Ends(o, k)
      /\ Failed(o) => Ends(o, k) /\ ~(Done(o) /\ Clean(o))
      /\ MayRemove(o, k) /\ file' = file /\ Half(o) => Ends(o, k) /\ ~Done(o)
  <2>1. MayRemove(o, k) /\ file' = file /\ Half(o) => HalfDone(o, k)
    BY <1>1, <1>2 DEF HalfDone, MayRemove
  <2> QED BY <1>1, <2>1, EndsApart DEF Ends
<1>7. /\ \A v : Put(o, k, v) => FileMove(o, k, v)
      /\ file' = file => FileMove(o, k, now)
  BY DEF FileMove
<1>71. file' = [file EXCEPT ![NameOf(o)][k] = Absent] => Put(o, k, Absent)
  BY DEF Put
<1> HIDE DEF n, now
<1>8. CASE now = Absent /\ file' = file /\ UNCHANGED faults /\ Done(o)
  BY <1>3, <1>5, <1>6, <1>7, <1>8
<1>9. CASE MayRemove(o, k) /\ file' = file /\ UNCHANGED faults /\ Half(o)
  BY <1>3, <1>5, <1>6, <1>7, <1>9
<1>10. CASE (UNCHANGED faults \/ Fault) /\ file' = file /\ Failed(o)
  BY <1>3, <1>5, <1>6, <1>7, <1>10
<1>11. CASE Put(o, k, Absent) /\ Done(o) /\ UNCHANGED faults
  BY <1>3, <1>5, <1>6, <1>7, <1>11
<1>12. CASE Fault /\ Put(o, k, Absent) /\ Failed(o)
  BY <1>3, <1>5, <1>6, <1>7, <1>12
<1> QED BY <1>71, <1>8, <1>9, <1>10, <1>11, <1>12 DEF RemoveOwnedFile, n, now

\* The steps that leave files and units alone
LEMMA QuietKeeps ==
  ASSUME IInv, NEW o \in Ops, NEW s, At(o, s), s \notin Making \cup Taking, OtherStep, UNCHANGED <<units, misled>>,
         faults' \in 0..MaxFaults, fwd' \in {0, 1}, Done(o) \/ Failed(o)
  PROVE  IInv'
<1>1. Control /\ TypeOK /\ active' = active /\ enabled' = enabled /\ misled' = misled
  BY AtWork DEF IInv, units
<1>2. Touches(o, s) /\ file' = file
  BY <1>1, OtherTouches DEF TypeOK
<1>3. s # "conf"
  BY DEF Making, Kinds
<1>4. NameOf(o) \notin touched => Reaches(o, s)
  BY <1>1, <1>2, <1>3, ReachesOther
<1> QED BY <1>2, <1>4, HostStepHost DEF Ends

LEMMA ValidateNFTKeeps ==
  ASSUME IInv, NEW o \in Ops, ValidateNFT(o)
  PROVE  IInv'
<1>1. At(o, "check") /\ TypeOK /\ "check" \notin Making \cup Taking
  BY DEF ValidateNFT, IInv, Control, Making, Taking, Kinds
<1>2. faults' \in 0..MaxFaults
  BY <1>1, FaultFacts DEF TypeOK, ValidateNFT
<1> QED BY <1>1, <1>2, QuietKeeps DEF ValidateNFT, TypeOK

LEMMA InspectRemovedKeeps ==
  ASSUME IInv, NEW o \in Ops, InspectRemoved(o)
  PROVE  IInv'
<1>1. At(o, "inspect") /\ TypeOK /\ "inspect" \notin Making \cup Taking
  BY DEF InspectRemoved, IInv, Control, Making, Taking, Kinds
<1>2. faults' \in 0..MaxFaults
  BY <1>1, FaultFacts DEF TypeOK, InspectRemoved
<1> QED BY <1>1, <1>2, QuietKeeps DEF InspectRemoved, TypeOK

LEMMA SetForwardingKeeps ==
  ASSUME IInv, NEW o \in Ops, SetForwarding(o)
  PROVE  IInv'
<1>1. At(o, "forward") /\ TypeOK /\ "forward" \notin Making \cup Taking
  BY DEF SetForwarding, IInv, Control, Making, Taking, Kinds
<1>2. faults' \in 0..MaxFaults
  BY <1>1, FaultFacts DEF TypeOK, SetForwarding
<1>3. fwd' \in {0, 1}
  BY <1>1, OpFields DEF TypeOK, SetForwarding
<1> QED BY <1>1, <1>2, <1>3, QuietKeeps DEF SetForwarding

\* What systemctl does to the unit
LEMMA SystemctlFacts ==
  ASSUME TypeOK, NEW o \in Ops, NEW s \in {"start", "stop", "enable", "disable"}, Systemctl(o, s)
  PROVE  LET n == NameOf(o)
         IN /\ active' \in [Names -> Contents] /\ enabled' \in [Names -> BOOLEAN]
            /\ \A m \in Names \ {n} : active'[m] = active[m] /\ enabled'[m] = enabled[m]
            /\ s = "start" => active'[n] = file[n]["conf"] /\ file[n]["conf"] # Absent
            /\ s = "stop" => active'[n] = 0
            /\ s = "enable" => enabled'[n]
            /\ s = "disable" => ~enabled'[n]
            /\ s \notin {"start", "stop"} => active'[n] = active[n]
            /\ s \notin {"enable", "disable"} => enabled'[n] = enabled[n]
<1>1. NameOf(o) \in Names
  BY OpFields DEF TypeOK
<1>2. PICK n \in Names : n = NameOf(o)
  BY <1>1
<1>3. active \in [Names -> Contents] /\ enabled \in [Names -> BOOLEAN] /\ 0 \in Contents
  BY DEF TypeOK, Contents, Absent
<1>4. CASE s = "start"
  <2>1. file[n]["conf"] # Absent /\ active' = [active EXCEPT ![n] = file[n]["conf"]] /\ enabled' = enabled
    BY <1>2, <1>4 DEF Systemctl, Start
  <2>2. file[n]["conf"] \in Contents
    BY DEF TypeOK, Kinds
  <2> QED BY <1>2, <1>3, <1>4, <2>1, <2>2
<1>5. CASE s = "stop"
  <2>1. active' = [active EXCEPT ![n] = 0] /\ enabled' = enabled
    BY <1>2, <1>5 DEF Systemctl, Stop
  <2> QED BY <1>2, <1>3, <1>5, <2>1
<1>6. CASE s = "enable"
  <2>1. enabled' = [enabled EXCEPT ![n] = TRUE] /\ active' = active
    BY <1>2, <1>6 DEF Systemctl, Enable
  <2> QED BY <1>2, <1>3, <1>6, <2>1
<1>7. CASE s = "disable"
  <2>1. enabled' = [enabled EXCEPT ![n] = FALSE] /\ active' = active
    BY <1>2, <1>7 DEF Systemctl, Enable
  <2> QED BY <1>2, <1>3, <1>7, <2>1
<1> QED BY <1>4, <1>5, <1>6, <1>7

LEMMA ServiceKeeps ==
  ASSUME IInv, NEW o \in Ops, NEW s \in {"start", "stop", "enable", "disable"}, Service(o, s)
  PROVE  IInv'
<1> DEFINE n == NameOf(o)
           id == ops[o].id
           conf == file[n]["conf"]
           fact == IF s \in {"start", "stop"} THEN active[n] # 0 ELSE enabled[n]
           needed(answer) == answer = (s \in {"stop", "disable"})
<1>1. Control /\ At(o, s) /\ OtherStep /\ UNCHANGED fwd
  BY DEF IInv, Service
<1>2. /\ n \in Names /\ id \in Ops /\ TypeOK /\ ops[o].type \in {"create", "remove"}
      /\ call[o].pc \in {"do", "undo"} /\ id # Partial
  BY <1>1, AtWork
<1>3. /\ Writes(o) => s \in {"start", "enable"}
      /\ ~Writes(o) => s \in {"stop", "disable"}
  BY <1>1, AtFacts
<1>4. \/ UNCHANGED units
      \/ Systemctl(o, s)
  BY DEF Service
<1>5. /\ active' \in [Names -> Contents] /\ enabled' \in [Names -> BOOLEAN] /\ fwd' \in {0, 1}
      /\ \A m \in Names \ {n} : active'[m] = active[m] /\ enabled'[m] = enabled[m]
      /\ s \notin {"start", "stop"} => active'[n] = active[n]
      /\ s \notin {"enable", "disable"} => enabled'[n] = enabled[n]
      /\ active'[n] = active[n] \/ (s = "start" /\ active'[n] = conf /\ conf # Absent) \/ (s = "stop" /\ active'[n] = 0)
  <2>1. CASE UNCHANGED units
    BY <1>1, <1>2, <2>1 DEF units, TypeOK
  <2>2. CASE Systemctl(o, s)
    BY <1>1, <1>2, <2>2, SystemctlFacts DEF TypeOK
  <2> QED BY <1>4, <2>1, <2>2
<1>6. faults' \in 0..MaxFaults
  <2>1. faults \in 0..MaxFaults
    BY <1>2 DEF TypeOK
  <2>2. Fault \/ UNCHANGED faults \/ Works(o) \/ Breaks(o)
    BY DEF Service, Query
  <2> QED BY <2>1, <2>2, FaultFacts
<1>65. misled \subseteq misled' /\ misled' \subseteq Names
  <2>1. misled' = misled \/ misled' = misled \cup {n}
    BY DEF Service, Query
  <2> QED BY <1>2, <2>1 DEF TypeOK
<1>7. Touches(o, s) /\ file' = file
  BY <1>1, <1>5, <1>6, <1>65, OtherTouches
<1>8. Done(o) \/ Failed(o)
  BY DEF Service
<1>9. ops' = ops /\ NameOf(o)' = n
  BY <1>1 DEF OtherStep, NameOf
<1>10. ASSUME n \notin touched PROVE Reaches(o, s)
  <2>1. /\ Writes(o) /\ s = "start" /\ Clean(o) => conf = id
        /\ ops[o].type = "remove" /\ call[o].pc = "do" => conf \in {Absent, id} /\ active[n] \in {0, id}
        /\ ops[o].type = "remove" /\ call[o].pc = "undo" =>
             conf \in {Absent, Partial, id} /\ (active[n] \in {0, id} \/ conf = Partial)
    BY <1>1, <1>10, AtHost
  <2>2. ops[o].type = "remove" /\ call[o].pc = "do" => ~Writes(o)
    BY DEF Writes
  <2>3. call[o].pc = "undo" /\ Writes(o) => ops[o].type = "remove"
    BY <1>2 DEF Writes
  <2>4. ASSUME Done(o), Clean(o) PROVE Reached(o, s)
    <3>0. ~Failed(o)
      BY <1>1, <2>4, EndsApart
    <3>1. CASE Systemctl(o, s)
      BY <1>2, <1>3, <1>9, <2>1, <2>4, <3>1, SystemctlFacts DEF Reached, Made, Unmade, Kinds
    <3>2. CASE call[o].pc = "undo" /\ UNCHANGED units /\ \E answer \in BOOLEAN : ~needed(answer) /\ Query(o, fact, answer)
      <4>1. ~call[o].gone
        BY <2>4, <3>2 DEF Clean
      <4>2. ~needed(fact) \/ (s \in {"stop", "disable"} /\ n \in misled')
        BY <3>2, <4>1 DEF Query
      <4>3. active' = active /\ enabled' = enabled
        BY <3>2 DEF units
      <4>4. CASE s = "start"
        <5>1. active[n] = id
          BY <1>2, <1>3, <2>1, <2>3, <2>4, <3>2, <4>2, <4>4
        <5> QED BY <1>3, <1>9, <4>3, <4>4, <5>1 DEF Reached, Made, Kinds
      <4>5. CASE s = "stop"
        BY <1>3, <1>9, <4>2, <4>3, <4>5 DEF Reached, Unmade, Kinds
      <4>6. CASE s = "enable"
        <5>1. enabled[n] \in BOOLEAN
          BY <1>2 DEF TypeOK
        <5> QED BY <1>3, <1>9, <4>2, <4>3, <4>6, <5>1 DEF Reached, Made, Kinds
      <4>7. CASE s = "disable"
        <5>1. enabled[n] \in BOOLEAN
          BY <1>2 DEF TypeOK
        <5> QED BY <1>3, <1>9, <4>2, <4>3, <4>7, <5>1 DEF Reached, Unmade, Kinds
      <4> QED BY <4>4, <4>5, <4>6, <4>7
    <3>3. CASE call[o].pc = "undo" /\ UNCHANGED units /\ fact /\ s \in {"start", "enable"}
      <4>1. CASE s = "start"
        <5>1. active[n] = id /\ active' = active
          BY <1>2, <1>3, <2>1, <2>3, <2>4, <3>3, <4>1 DEF units
        <5> QED BY <1>3, <1>9, <4>1, <5>1 DEF Reached, Made, Kinds
      <4>2. CASE s = "enable"
        <5>1. enabled[n] /\ enabled' = enabled
          BY <3>3, <4>2 DEF units
        <5> QED BY <1>3, <1>9, <4>2, <5>1 DEF Reached, Made, Kinds
      <4> QED BY <3>3, <4>1, <4>2
    <3>4. ~call[o].gone \/ call[o].pc = "do"
      BY <2>4 DEF Clean
    <3> QED BY <1>2, <3>0, <3>1, <3>2, <3>3, <3>4 DEF Service
  <2>5. ops[o].type = "remove" /\ call[o].pc = "do" => active'[n] \in {0, id}
    BY <1>3, <1>5, <2>1, <2>2
  <2>6. ops[o].type = "remove" /\ call[o].pc = "undo" => active'[n] \in {0, id} \/ conf = Partial
    BY <1>3, <1>5, <2>1
  <2> QED BY <1>7, <2>1, <2>4, <2>5, <2>6 DEF Reaches
<1> QED BY <1>1, <1>7, <1>8, <1>10, HostStepHost DEF Ends

LEMMA HostStepKeeps ==
  ASSUME IInv, NEW o \in Ops, HostStep(o)
  PROVE  IInv'
BY WriteOwnedFileKeeps, RemoveOwnedFileKeeps, CreateConfigKeeps, ValidateNFTKeeps, SetForwardingKeeps,
   InspectRemovedKeeps, ServiceKeeps DEF HostStep

-----------------------------------------------------------------------------
(* The theorems *)

LEMMA InitOK == Init => IInv
<1> SUFFICES ASSUME Init PROVE IInv
  OBVIOUS
<1>1. /\ \A o \in Ops : ops[o] = NoOp /\ call[o] = Idle
      /\ \A n \in Names : /\ row[n] = NoRow /\ active[n] = 0 /\ enabled[n] = FALSE
                          /\ \A k \in Kinds : file[n][k] = Absent
  BY DEF Init
<1>2. /\ NoOp \in OpRecords /\ NoOp.id = 0 /\ NoOp.type = "create" /\ NoOp.state = "none"
      /\ Idle \in CallRecords /\ Idle.pc = "idle" /\ Idle.i = 1 /\ Idle.half = FALSE
      /\ NoRow \in RowRecords /\ NoRow.id = 0
  BY NoOpFacts, IdleFacts, NoRowFacts
<1>3. TypeOK
  <2>1. Absent \in Contents /\ 0 \in Contents /\ 0 \in 0..MaxFaults /\ 0 \in 0..MaxEdits
    BY Numbers DEF Contents, Absent
  <2>2. ops \in [Ops -> OpRecords] /\ row \in [Names -> RowRecords] /\ call \in [Ops -> CallRecords]
    BY <1>2 DEF Init
  <2> QED BY <2>1, <2>2 DEF Init, TypeOK
<1>4. \A o \in Ops : PcOK(o) /\ LockOK(o) /\ OpOK(o) /\ HalfOK(o)
  <2> TAKE o \in Ops
  <2>1. ops[o].id = 0 /\ ops[o].type = "create" /\ ops[o].state = "none"
    BY <1>1, <1>2
  <2>2. call[o].pc = "idle" /\ call[o].i = 1 /\ ~call[o].half
    BY <1>1, <1>2
  <2>3. "none" \notin Current /\ "none" \notin UnderWay
    BY DEF Current, UnderWay, Active
  <2> QED BY <2>1, <2>2, <2>3 DEF PcOK, LockOK, OpOK, HalfOK
<1>5. \A o, q \in Ops : Alone(o, q)
  BY <1>1, <1>2 DEF Alone
<1>6. \A n \in Names : RowOK(n) /\ Unused(n)
  BY <1>1, <1>2 DEF RowOK, Unused
<1>7. Control
  BY <1>3, <1>4, <1>5, <1>6 DEF Control
<1>8. \A n \in Names : Rest(n) /\ Boots(n)
  BY <1>1, <1>2 DEF Rest, Boots, Bare
<1>9. \A o \in Ops : Progress(o) /\ Removing(o)
  BY <1>1, <1>2 DEF Progress, Removing
<1> QED BY <1>7, <1>8, <1>9 DEF IInv, Host

LEMMA NextOK == IInv /\ [Next]_vars => IInv'
<1> SUFFICES ASSUME IInv, [Next]_vars PROVE IInv'
  OBVIOUS
<1>1. CASE PreviewCreateInterface \/ PreviewSetInterfaceState
  BY <1>1, PreviewCreateKeeps, PreviewSetKeeps
<1>2. ASSUME NEW o \in Ops, Commit(o) \/ CommitExpired(o) \/ LockInterface(o) \/ EndContext(o) PROVE IInv'
  BY <1>2, CommitKeeps, CommitExpiredKeeps, LockInterfaceKeeps, EndContextKeeps
<1>3. ASSUME NEW o \in Ops, Work(o) PROVE IInv'
  <2>1. CASE CommitPreflight(o) \/ Validate(o) \/ Reserve(o) \/ Reject(o) \/ Read(o) \/ Snapshot(o) \/ Begin(o)
    BY <2>1, CommitPreflightKeeps, ValidateKeeps, ReserveKeeps, RejectKeeps, ReadKeeps, SnapshotKeeps, BeginKeeps
  <2>2. CASE HostStep(o)
    BY <2>2, HostStepKeeps
  <2>3. CASE Inspect(o) \/ Complete(o) \/ CheckService(o) \/ Finalize(o) \/ ToVerifying(o) \/ FinalizeRemoval(o)
    BY <2>3, InspectKeeps, CompleteKeeps, CheckServiceKeeps, FinalizeKeeps, ToVerifyingKeeps, FinalizeRemovalKeeps
  <2>4. CASE RollbackBegin(o) \/ RollbackEnd(o) \/ RecoverManual(o)
    BY <2>4, RollbackBeginKeeps, RollbackEndKeeps, RecoverManualKeeps
  <2> QED BY <1>3, <2>1, <2>2, <2>3, <2>4 DEF Work
<1>4. CASE StartAgent \/ RecoverEnd \/ UNCHANGED vars
  BY <1>4, AgentKeeps
<1>5. CASE RecoverNext \/ Crash \/ Edit
  BY <1>5, RecoverNextKeeps, CrashKeeps, EditKeeps
<1> QED BY <1>1, <1>2, <1>3, <1>4, <1>5 DEF Next

LEMMA Inductive == Spec => []IInv
BY InitOK, NextOK, PTL DEF Spec

\* Whatever the requests, the recovery, the faults and the operator do, the rows,
\* the host and the calls keep their types.
THEOREM TypeCorrect == Spec => []TypeOK
<1>1. IInv => TypeOK
  BY DEF IInv, Control
<1> QED BY <1>1, Inductive, PTL

\* A name the database does not know has no file of WireGate's on the host, and no
\* unit but one that a failed query has hidden: RollbackManagedInterface and
\* FinalizeManagedInterfaceRemoval delete a row only behind a host that is bare.
THEOREM NothingIsLeft == Spec => []NothingLeft
<1>1. IInv => NothingLeft
  <2> SUFFICES ASSUME IInv, NEW n \in Names \ touched, row[n].id = 0 PROVE Bare(n)
    BY DEF NothingLeft, Bare
  <2> QED BY DEF IInv, Host, Rest
<1> QED BY <1>1, Inductive, PTL

\* Between operations an interface the database shows as created is there as a
\* whole, also after a removal that was rolled back half-way by the request or by
\* the recovery, and whatever systemctl's queries have answered.
THEOREM LiveIsWhole == Spec => []LiveIsComplete
<1>1. IInv => LiveIsComplete
  <2> SUFFICES ASSUME IInv, NEW n \in Names \ touched, row[n].rev = 1, Settled(n)
               PROVE  Whole(n, row[n].id)
    BY DEF LiveIsComplete, Whole
  <2>1. RowOK(n) /\ Rest(n) /\ row[n].id \in Ops \cup {0} /\ TypeOK /\ \A o \in Ops : OpOK(o)
    BY DEF IInv, Host, Control, TypeOK, RowRecords
  <2>2. row[n].id # 0
    BY <2>1, NoRowFacts DEF RowOK
  <2> DEFINE c == row[n].id
  <2>3. /\ c \in Ops /\ NameOf(c) = n
        /\ ops[c].state \in {"verifying", "rolling_back", "rollback_failed", "committed"}
    BY <2>1, <2>2 DEF RowOK
  <2>4. ops[c].state = "committed"
    BY <2>3 DEF Settled, UnderWay, Active
  <2>5. NoRemoval(c)
    <3> SUFFICES ASSUME NEW r \in Ops, ops[r].type = "remove", ops[r].id = c PROVE ops[r].state \notin UnderWay
      BY DEF NoRemoval
    <3>1. NameOf(r) = n
      BY <2>1, <2>3 DEF OpOK
    <3> QED BY <3>1 DEF Settled
  <2> QED BY <2>1, <2>2, <2>4, <2>5 DEF Rest
<1> QED BY <1>1, Inductive, PTL

\* A step on a file over a file of the operator's leaves it there.
LEMMA ForeignSafe ==
  ASSUME Control, NEW o \in Ops, NEW k \in Kinds, WriteOwnedFile(o, k) \/ RemoveOwnedFile(o, k),
         NEW n \in Names, NEW l \in Kinds, file[n][l] = Foreign, <<n, l>> \notin raced
  PROVE  file'[n][l] = Foreign
<1>1. At(o, k) /\ HalfOK(o) /\ TypeOK /\ k \in Kinds /\ NameOf(o) \in Names
  BY OpFields DEF Control, WriteOwnedFile, RemoveOwnedFile, AtFile, TypeOK
<1>2. call[o].half /\ n = NameOf(o) => l # k
  <2> SUFFICES ASSUME call[o].half, n = NameOf(o), l = k PROVE FALSE
    OBVIOUS
  <2>1. PICK j \in KindsOf(NameOf(o)) : At(o, j) /\ (<<NameOf(o), j>> \in raced \/ file[NameOf(o)][j] # Foreign)
    BY <1>1 DEF HalfOK, At
  <2>2. j = k
    BY <1>1, <2>1 DEF At
  <2> QED BY <2>1, <2>2
<1>3. ASSUME NEW v, Put(o, k, v), n = NameOf(o) => l # k PROVE file'[n][l] = Foreign
  <2>1. \A m \in Names, j \in Kinds : ~(m = NameOf(o) /\ j = k) => file'[m][j] = file[m][j]
    BY <1>1, <1>3 DEF Put, TypeOK
  <2> QED BY <1>3, <2>1
<1>4. Absent # Foreign
  BY Numbers
<1>5. CASE WriteOwnedFile(o, k)
  <2>1. \/ file' = file
        \/ ~call[o].half /\ file[NameOf(o)][k] = Absent /\ \E v : Put(o, k, v)
        \/ call[o].half /\ \E v : Put(o, k, v)
    BY <1>5 DEF WriteOwnedFile
  <2> QED BY <1>2, <1>3, <1>4, <2>1
<1>6. CASE RemoveOwnedFile(o, k)
  <2>1. file' = file \/ (call[o].half /\ Put(o, k, Absent))
    BY <1>6 DEF RemoveOwnedFile, Put
  <2> QED BY <1>2, <1>3, <2>1
<1> QED BY <1>5, <1>6

\* The agent never removes or replaces a file of the operator's, but for the two
\* windows in which it works on a name: between RemoveOwnedFile's look at the marker
\* and the removal, and until WriteOwnedFile has filled the file it created.
THEOREM ForeignStays == Spec => ForeignKeptUnlessRaced
<1> DEFINE kept == AgentSteps =>
                     \A n \in Names, k \in Kinds :
                       file[n][k] = Foreign /\ <<n, k>> \notin raced => file'[n][k] = Foreign
<1>1. IInv /\ [Next]_vars => kept
  <2> SUFFICES ASSUME IInv, [Next]_vars, AgentSteps,
                      NEW n \in Names, NEW l \in Kinds, file[n][l] = Foreign, <<n, l>> \notin raced
               PROVE  file'[n][l] = Foreign
    OBVIOUS
  <2>1. Control
    BY DEF IInv
  <2>2. CASE \E o \in Ops, k \in Kinds : WriteOwnedFile(o, k) \/ RemoveOwnedFile(o, k)
    BY <2>1, <2>2, ForeignSafe
  <2>3. ASSUME NEW o \in Ops, CreateConfig(o) PROVE file'[n][l] = Foreign
    <3>1. TypeOK /\ NameOf(o) \in Names /\ Absent # Foreign
      BY <2>1, OpFields, Numbers DEF Control, TypeOK
    <3>2. CASE file' = file
      BY <3>2
    <3>3. CASE file[NameOf(o)]["conf"] = Absent /\ Put(o, "conf", o)
      <4>1. \A m \in Names, j \in Kinds : ~(m = NameOf(o) /\ j = "conf") => file'[m][j] = file[m][j]
        BY <3>1, <3>3 DEF Put, TypeOK, Kinds
      <4> QED BY <3>1, <3>3, <4>1
    <3> QED BY <2>3, <3>2, <3>3 DEF CreateConfig
  <2>4. CASE Edit
    <3>1. edits \in Int
      BY <2>1 DEF Control, TypeOK
    <3> QED BY <2>4, <3>1 DEF Edit, AgentSteps
  <2>5. CASE UNCHANGED file
    BY <2>5
  <2>6. CASE PreviewCreateInterface \/ PreviewSetInterfaceState \/ StartAgent \/ RecoverEnd \/ Crash \/ RecoverNext
    BY <2>5, <2>6 DEF PreviewCreateInterface, PreviewSetInterfaceState, StartAgent, RecoverEnd, Crash, RecoverNext, host
  <2>7. ASSUME NEW o \in Ops, Commit(o) \/ CommitExpired(o) \/ LockInterface(o) \/ EndContext(o)
        PROVE  file'[n][l] = Foreign
    BY <2>5, <2>7 DEF Commit, CommitExpired, LockInterface, EndContext, host
  <2>8. ASSUME NEW o \in Ops, HostStep(o) PROVE file'[n][l] = Foreign
    <3>1. \A s \in {"start", "stop", "enable", "disable"} : Service(o, s) => UNCHANGED file
      BY DEF Service, OtherStep
    <3>2. ValidateNFT(o) \/ SetForwarding(o) \/ InspectRemoved(o) => UNCHANGED file
      BY DEF ValidateNFT, SetForwarding, InspectRemoved, OtherStep
    <3> QED BY <2>2, <2>3, <2>5, <2>8, <3>1, <3>2 DEF HostStep
  <2>9. ASSUME NEW o \in Ops, Work(o) PROVE file'[n][l] = Foreign
    <3>1. CommitPreflight(o) \/ Validate(o) \/ Reserve(o) \/ Reject(o) \/ Read(o) \/ Snapshot(o) \/ Begin(o)
          => UNCHANGED file
      BY DEF CommitPreflight, Validate, Reserve, Reject, Read, Snapshot, Begin, host
    <3>2. \/ Inspect(o) \/ Complete(o) \/ CheckService(o) \/ Finalize(o) \/ ToVerifying(o) \/ FinalizeRemoval(o)
          \/ RollbackBegin(o) \/ RollbackEnd(o) \/ RecoverManual(o)
          => UNCHANGED file
      BY DEF Inspect, Complete, CheckService, Finalize, ToVerifying, FinalizeRemoval, RollbackBegin, RollbackEnd,
             RecoverManual, host
    <3> QED BY <2>5, <2>8, <2>9, <3>1, <3>2 DEF Work
  <2> QED BY <2>4, <2>5, <2>6, <2>7, <2>9 DEF Next, vars
<1> QED BY <1>1, Inductive, PTL DEF Spec, ForeignKeptUnlessRaced

-----------------------------------------------------------------------------
(* The forwarding switch *)

\* The operations whose reading of the switch still counts: they hold it in memory
\* or in their snapshot.
HasRead(o) == NameOf(o) \in Forwarding /\ (ops[o].state \in UnderWay \/ call[o].pc = "snapshot")

OthersLive(o) == \E m \in Forwarding \ {NameOf(o)} : row[m].rev = 1

\* A creation has switched forwarding on; a rollback has switched it back.
SwitchedOn(o) ==
  \/ ops[o].state = "verifying" \/ call[o].pc \in {"inspect", "complete"}
  \/ call[o].pc = "do" /\ Passed(o, "forward")
SwitchedBack(o) ==
  ~call[o].err /\ (call[o].pc = "rb_end" \/ (call[o].pc = "undo" /\ Passed(o, "forward")))

\* What an operation on a forwarding interface knows of the switch and does to it
Switch(o) ==
  /\ OthersLive(o) => fwd = 1 /\ ops[o].before = 1 /\ ops[o].after = 1
  /\ ops[o].type = "create" => ops[o].after = 1 /\ (SwitchedOn(o) => fwd = 1)
  /\ ops[o].type = "remove" => ops[o].before = 1 /\ (SwitchedBack(o) => fwd = 1)

Quiet == \A q \in Ops : NameOf(q) \in Forwarding => ops[q].state \notin UnderWay

\* As long as no two operations on forwarding interfaces have overlapped, one
\* reading at most counts, and forwarding is on when nothing is under way.
Forward ==
  ~overlapped =>
    /\ \A o, q \in Ops : HasRead(o) /\ HasRead(q) => o = q
    /\ Quiet /\ (\E n \in Forwarding : row[n].rev = 1) => fwd = 1
    /\ \A o \in Ops : HasRead(o) => Switch(o)

\* An operation and its call as far as the switch goes
LEMMA SameSwitch ==
  ASSUME NEW q \in Ops, ops'[q] = ops[q],
         \/ call'[q].pc = call[q].pc /\ call'[q].i = call[q].i /\ call'[q].err = call[q].err
         \/ call'[q].pc = "idle"
  PROVE  /\ NameOf(q)' = NameOf(q) /\ (HasRead(q)' => HasRead(q))
         /\ SwitchedOn(q)' => SwitchedOn(q)
         /\ SwitchedBack(q)' => SwitchedBack(q)
<1>1. NameOf(q)' = NameOf(q) /\ (HasRead(q)' => HasRead(q))
  BY DEF NameOf, HasRead
<1>2. CASE call'[q].pc = "idle"
  BY <1>1, <1>2 DEF SwitchedOn, SwitchedBack
<1>3. CASE call'[q].pc = call[q].pc /\ call'[q].i = call[q].i /\ call'[q].err = call[q].err
  <2>1. Passed(q, "forward")' <=> Passed(q, "forward")
    BY <1>3, SameScript
  <2> QED BY <1>1, <1>3, <2>1 DEF SwitchedOn, SwitchedBack
<1> QED BY <1>1, <1>2, <1>3

LEMMA ForwardFrame ==
  ASSUME Forward, overlapped' = overlapped, fwd' = fwd, row' = row,
         \A q \in Ops : \/ /\ ops'[q] = ops[q]
                           /\ \/ call'[q].pc = call[q].pc /\ call'[q].i = call[q].i /\ call'[q].err = call[q].err
                              \/ call'[q].pc = "idle"
                        \/ /\ ops[q].state \notin UnderWay /\ ops'[q].state \notin UnderWay
                           /\ call'[q].pc # "snapshot"
  PROVE  Forward'
<1> SUFFICES ASSUME ~overlapped
             PROVE  /\ \A o, q \in Ops : HasRead(o)' /\ HasRead(q)' => o = q
                    /\ Quiet' /\ (\E n \in Forwarding : row'[n].rev = 1) => fwd' = 1
                    /\ \A o \in Ops : HasRead(o)' => Switch(o)'
  BY DEF Forward
<1>1. ASSUME NEW q \in Ops, HasRead(q)'
      PROVE  /\ ops'[q] = ops[q] /\ NameOf(q)' = NameOf(q) /\ HasRead(q)
             /\ SwitchedOn(q)' => SwitchedOn(q)
             /\ SwitchedBack(q)' => SwitchedBack(q)
  <2>1. ops'[q].state \in UnderWay \/ call'[q].pc = "snapshot"
    BY <1>1 DEF HasRead
  <2> QED BY <1>1, <2>1, SameSwitch
<1>2. \A o, q \in Ops : HasRead(o)' /\ HasRead(q)' => o = q
  BY <1>1 DEF Forward
<1>3. Quiet' => Quiet
  BY DEF Quiet, NameOf
<1>4. \A o \in Ops : HasRead(o)' => Switch(o)'
  <2> SUFFICES ASSUME NEW o \in Ops, HasRead(o)' PROVE Switch(o)'
    OBVIOUS
  <2>1. Switch(o)
    BY <1>1 DEF Forward
  <2>2. OthersLive(o)' => OthersLive(o)
    BY <1>1 DEF OthersLive
  <2> QED BY <1>1, <2>1, <2>2 DEF Switch
<1> QED BY <1>2, <1>3, <1>4 DEF Forward

\* A step for one operation
Single(o) ==
  /\ overlapped' = overlapped
  /\ \A q \in Ops \ {o} : ops'[q] = ops[q] /\ call'[q] = call[q]
  /\ ops'[o].name = ops[o].name /\ ops'[o].type = ops[o].type
  /\ \A m \in Names \ {NameOf(o)} : row'[m] = row[m]

LEMMA ForwardStep ==
  ASSUME Forward, TypeOK, NEW o \in Ops, Single(o), HasRead(o)' => HasRead(o),
         fwd' = fwd \/ (HasRead(o) /\ (~overlapped /\ OthersLive(o) => fwd' = 1)),
         NameOf(o) \in Forwarding /\ row'[NameOf(o)].rev = 1 => row[NameOf(o)].rev = 1 \/ HasRead(o),
         ~overlapped /\ HasRead(o)' => Switch(o)',
         ~overlapped /\ NameOf(o) \in Forwarding /\ ops'[o].state \notin UnderWay /\ row'[NameOf(o)].rev = 1 =>
           fwd' = 1 \/ (ops[o].state \notin UnderWay /\ row[NameOf(o)].rev = 1 /\ fwd' = fwd)
  PROVE  Forward'
<1> SUFFICES ASSUME ~overlapped
             PROVE  /\ \A p, q \in Ops : HasRead(p)' /\ HasRead(q)' => p = q
                    /\ Quiet' /\ (\E n \in Forwarding : row'[n].rev = 1) => fwd' = 1
                    /\ \A q \in Ops : HasRead(q)' => Switch(q)'
  BY DEF Forward, Single
<1>0. /\ Forwarding \subseteq Names /\ \A q \in Ops : NameOf(q)' = NameOf(q) /\ NameOf(q) \in Names
  BY NamesAssumption, OpFields DEF Single, NameOf, TypeOK
<1>1. ASSUME NEW q \in Ops \ {o}
      PROVE  /\ HasRead(q)' => HasRead(q)
             /\ SwitchedOn(q)' => SwitchedOn(q)
             /\ SwitchedBack(q)' => SwitchedBack(q)
  BY SameSwitch DEF Single
<1>2. \A p, q \in Ops : HasRead(p)' /\ HasRead(q)' => p = q
  BY <1>1 DEF Forward
<1>3. \A q \in Ops : HasRead(q)' => Switch(q)'
  <2> SUFFICES ASSUME NEW q \in Ops \ {o}, HasRead(q)' PROVE Switch(q)'
    OBVIOUS
  <2>1. Switch(q) /\ ~HasRead(o)
    BY <1>1 DEF Forward
  <2>2. fwd' = fwd /\ ops'[q] = ops[q]
    BY <2>1 DEF Single
  <2>3. OthersLive(q)' => OthersLive(q)
    BY <1>0, <2>1 DEF OthersLive, Single
  <2> QED BY <1>1, <2>1, <2>2, <2>3 DEF Switch
<1>4. ASSUME Quiet', NEW n \in Forwarding, row'[n].rev = 1
      PROVE  fwd' = 1
  <2>1. \A q \in Ops \ {o} : NameOf(q) \in Forwarding => ops[q].state \notin UnderWay
    BY <1>0, <1>4 DEF Quiet, Single
  <2>2. NameOf(o) \in Forwarding => ops'[o].state \notin UnderWay
    BY <1>0, <1>4 DEF Quiet
  <2>3. CASE n = NameOf(o)
    <3>1. fwd' = 1 \/ (ops[o].state \notin UnderWay /\ row[n].rev = 1 /\ fwd' = fwd)
      BY <1>4, <2>2, <2>3
    <3>2. ops[o].state \notin UnderWay => Quiet
      BY <2>1 DEF Quiet
    <3> QED BY <3>1, <3>2 DEF Forward
  <2>4. CASE n # NameOf(o)
    <3>1. row[n].rev = 1
      BY <1>0, <1>4, <2>4 DEF Single
    <3>2. OthersLive(o)
      BY <2>4, <3>1 DEF OthersLive
    <3>3. fwd = 1
      <4>1. CASE NameOf(o) \in Forwarding /\ ops[o].state \in UnderWay
        BY <3>2, <4>1 DEF Forward, Switch, HasRead
      <4>2. CASE ~(NameOf(o) \in Forwarding /\ ops[o].state \in UnderWay)
        BY <2>1, <3>1, <4>2 DEF Forward, Quiet
      <4> QED BY <4>1, <4>2
    <3> QED BY <3>2, <3>3
  <2> QED BY <2>3, <2>4
<1> QED BY <1>2, <1>3, <1>4

\* A step outside the scripts
ReadKept(o) == HasRead(o)' => ops'[o].before = ops[o].before /\ ops'[o].after = ops[o].after

LEMMA ForwardJournal ==
  ASSUME Forward, TypeOK, NEW o \in Ops, Single(o), ReadKept(o), fwd' = fwd, call'[o].i = 1,
         call'[o].pc \notin {"rb_end", "inspect"},
         ops'[o].state \in UnderWay => ops[o].state \in UnderWay \/ call[o].pc = "snapshot",
         call'[o].pc = "snapshot" => call[o].pc = "snapshot",
         call'[o].pc = "complete" => call[o].pc = "inspect",
         ops'[o].state = "verifying" => \/ ops[o].state = "verifying" \/ call[o].pc = "complete"
                                        \/ ops[o].type = "remove",
         row'[NameOf(o)].rev = 1 => row[NameOf(o)].rev = 1 \/ ops[o].state \in UnderWay,
         ops[o].state \in UnderWay /\ ops'[o].state \notin UnderWay /\ row'[NameOf(o)].rev = 1 =>
           \/ ops[o].type = "create" /\ ops[o].state = "verifying"
           \/ ops[o].type = "remove" /\ call[o].pc = "rb_end" /\ ~call[o].err
  PROVE  Forward'
<1>0. NameOf(o)' = NameOf(o) /\ Forwarding \subseteq Names
  BY NamesAssumption DEF Single, NameOf
<1>1. HasRead(o)' => HasRead(o)
  BY <1>0 DEF HasRead
<1>2. ASSUME ~overlapped, HasRead(o)' PROVE Switch(o)'
  <2>1. Switch(o)
    BY <1>1, <1>2 DEF Forward
  <2>2. OthersLive(o)' => OthersLive(o)
    BY <1>0 DEF OthersLive, Single
  <2>3. ~Passed(o, "forward")'
    BY NothingPassedNext
  <2>4. SwitchedOn(o)' /\ ops[o].type = "create" => SwitchedOn(o)
    BY <2>3 DEF SwitchedOn
  <2>5. ~SwitchedBack(o)'
    BY <2>3 DEF SwitchedBack
  <2>6. ops'[o].before = ops[o].before /\ ops'[o].after = ops[o].after /\ ops'[o].type = ops[o].type
    BY <1>2 DEF ReadKept, Single
  <2> QED BY <2>1, <2>2, <2>4, <2>5, <2>6 DEF Switch
<1>3. ASSUME ~overlapped, NameOf(o) \in Forwarding, ops'[o].state \notin UnderWay, row'[NameOf(o)].rev = 1
      PROVE  fwd' = 1 \/ (ops[o].state \notin UnderWay /\ row[NameOf(o)].rev = 1 /\ fwd' = fwd)
  <2>1. ASSUME ops[o].state \in UnderWay PROVE fwd = 1
    <3>1. HasRead(o) /\ Switch(o)
      BY <1>3, <2>1 DEF Forward, HasRead
    <3> QED BY <1>3, <2>1, <3>1 DEF Switch, SwitchedOn, SwitchedBack
  <2> QED BY <1>3, <2>1
<1>4. NameOf(o) \in Forwarding /\ row'[NameOf(o)].rev = 1 => row[NameOf(o)].rev = 1 \/ HasRead(o)
  BY DEF HasRead
<1> QED BY <1>1, <1>2, <1>3, <1>4, ForwardStep

\* One operation that is not under way, before and after
LEMMA ForwardEarly ==
  ASSUME Forward, NEW o \in Ops, \A q \in Ops \ {o} : ops'[q] = ops[q] /\ call'[q] = call[q],
         ops[o].state \notin UnderWay, ops'[o].state \notin UnderWay, call'[o].pc # "snapshot",
         UNCHANGED <<row, host, history>>
  PROVE  Forward'
BY ForwardFrame DEF host, history

\* The state of one operation is written, or stays.
Setting(o, s) == SetState(o, s) \/ (ops' = ops /\ s = ops[o].state)

LEMMA SettingFacts ==
  ASSUME TypeOK, NEW o \in Ops, NEW s \in States, Setting(o, s)
  PROVE  /\ ops'[o].state = s /\ ops'[o].name = ops[o].name /\ ops'[o].type = ops[o].type
         /\ ops'[o].before = ops[o].before /\ ops'[o].after = ops[o].after
         /\ \A q \in Ops \ {o} : ops'[q] = ops[q]
<1>1. ops \in [Ops -> OpRecords] /\ ops[o] \in OpRecords
  BY DEF TypeOK
<1>2. CASE SetState(o, s)
  <2> DEFINE w == [ops[o] EXCEPT !.state = s]
  <2>1. /\ w.state = s /\ w.name = ops[o].name /\ w.type = ops[o].type
        /\ w.before = ops[o].before /\ w.after = ops[o].after
    BY <1>1, Zenon DEF OpRecords
  <2>2. ops' = [ops EXCEPT ![o] = w]
    BY <1>1, <1>2 DEF SetState
  <2> HIDE DEF w
  <2> QED BY <1>1, <2>1, <2>2
<1> QED BY <1>2 DEF Setting

LEMMA TransitionSets ==
  ASSUME NEW o \in Ops, NEW from, NEW to
  PROVE  /\ TransitionOk(o, from, to) => Setting(o, to) /\ ops[o].state = from
         /\ TransitionErr(o, from, to) => Setting(o, ops[o].state) \/ (Setting(o, to) /\ ops[o].state = from)
BY DEF TransitionOk, TransitionErr, Setting

\* A move in the journal that leaves the rows alone
LEMMA ForwardWritten ==
  ASSUME IInv, Forward, NEW o \in Ops, NEW s \in States, Setting(o, s), CallStep(o),
         UNCHANGED <<row, host, overlapped>>, call'[o].pc \notin {"rb_end", "inspect", "snapshot"},
         call'[o].pc = "complete" => call[o].pc = "inspect",
         s \in UnderWay => ops[o].state \in UnderWay \/ call[o].pc = "snapshot",
         s = "verifying" => ops[o].state = "verifying" \/ ops[o].type = "remove",
         ops[o].state \in UnderWay /\ s \notin UnderWay =>
           \/ ops[o].type = "create" /\ ops[o].state = "verifying"
           \/ ops[o].type = "remove" /\ call[o].pc = "rb_end" /\ ~call[o].err
  PROVE  Forward'
<1>1. TypeOK /\ row' = row /\ fwd' = fwd /\ overlapped' = overlapped
  BY DEF IInv, Control, host
<1>2. /\ ops'[o].state = s /\ ops'[o].name = ops[o].name /\ ops'[o].type = ops[o].type
      /\ ops'[o].before = ops[o].before /\ ops'[o].after = ops[o].after
      /\ \A q \in Ops \ {o} : ops'[q] = ops[q]
  BY <1>1, SettingFacts
<1>3. Single(o) /\ ReadKept(o) /\ call'[o].i = 1
  BY <1>1, <1>2 DEF Single, ReadKept, CallStep
<1> QED BY <1>1, <1>2, <1>3, ForwardJournal

\* The same with the history as it was
LEMMA ForwardMove ==
  ASSUME IInv, Forward, NEW o \in Ops, NEW s \in States, Setting(o, s), CallStep(o),
         UNCHANGED <<row, host, history>>, call'[o].pc \notin {"rb_end", "inspect", "snapshot"},
         call'[o].pc = "complete" => call[o].pc = "inspect",
         s \in UnderWay => ops[o].state \in UnderWay \/ call[o].pc = "snapshot",
         s = "verifying" => ops[o].state = "verifying" \/ ops[o].type = "remove",
         ops[o].state \in UnderWay /\ s \notin UnderWay =>
           \/ ops[o].type = "create" /\ ops[o].state = "verifying"
           \/ ops[o].type = "remove" /\ call[o].pc = "rb_end" /\ ~call[o].err
  PROVE  Forward'
BY ForwardWritten DEF history

-----------------------------------------------------------------------------
(* Forwarding, one step per action: a request *)

LEMMA EarlyForward ==
  ASSUME IInv, Forward, NEW o \in Ops,
         Commit(o) \/ CommitExpired(o) \/ LockInterface(o) \/ CommitPreflight(o) \/ Validate(o)
  PROVE  Forward'
<1>1. /\ TypeOK /\ PcOK(o) /\ ops \in [Ops -> OpRecords] /\ call \in [Ops -> CallRecords]
      /\ \A s \in {"pending", "expired", "validated"} : s \in States /\ s \notin UnderWay
  BY Known DEF TypeOK, States, Active, UnderWay
<1>2. UNCHANGED <<row, host, history>>
  BY DEF Commit, CommitExpired, LockInterface, CommitPreflight, Validate
<1>3. ops[o].state \in {"pending", "expired"}
  BY <1>1 DEF Commit, CommitExpired, LockInterface, CommitPreflight, Validate, PcOK
<1>4. ops'[o].state \in {"pending", "expired", "validated"} /\ \A q \in Ops \ {o} : ops'[q] = ops[q]
  <2>1. ops' = ops \/ SetState(o, "expired") \/ SetState(o, "validated")
    BY DEF Commit, CommitExpired, LockInterface, CommitPreflight, Validate, TransitionOk, TransitionErr
  <2> QED BY <1>1, <1>3, <2>1, SetStateFacts
<1>5. call'[o].pc # "snapshot" /\ \A q \in Ops \ {o} : call'[q] = call[q]
  <2>1. CASE Commit(o) \/ CommitPreflight(o) \/ Validate(o)
    <3>1. \/ \E l \in {"lock", "validate", "reserve", "read"} : Goto(o, l)
          \/ Return(o, TRUE)
      BY <2>1 DEF Commit, CommitPreflight, Validate
    <3>2. \A l \in {"lock", "validate", "reserve", "read"} : l \in PCs /\ l # "snapshot"
      BY DEF PCs
    <3> QED BY <1>1, <3>1, <3>2, GotoFacts, ReturnFacts, IdleFacts
  <2>2. CASE CommitExpired(o)
    BY <2>2 DEF CommitExpired
  <2>3. CASE LockInterface(o)
    <3>1. call'[o] = [call[o] EXCEPT !.pc = "preflight"] /\ \A q \in Ops \ {o} : call'[q] = call[q]
      BY <1>1, <2>3 DEF LockInterface
    <3>2. call[o] \in CallRecords
      BY <1>1
    <3>3. call'[o].pc = "preflight"
      BY <3>1, <3>2, Zenon DEF CallRecords
    <3> QED BY <3>1, <3>3
  <2> QED BY <2>1, <2>2, <2>3
<1> QED BY <1>1, <1>2, <1>3, <1>4, <1>5, ForwardEarly

LEMMA ReserveForward ==
  ASSUME IInv, Forward, NEW o \in Ops, Reserve(o)
  PROVE  Forward'
<1> PICK n \in Names : n = NameOf(o)
  BY Known
<1>1. /\ call[o].pc = "reserve" /\ ops[o].state = "validated" /\ TypeOK /\ PcOK(o)
      /\ fwd' = fwd /\ overlapped' = overlapped /\ row[n] \in RowRecords /\ ops[o] \in OpRecords
  BY Known DEF Reserve, PcOK, host, history, TypeOK
<1>2. PICK l \in {"read", "reject"} : Goto(o, l)
  BY DEF Reserve
<1>3. CallStep(o) /\ call'[o].pc = l
  BY <1>1, <1>2, Known, GotoStep DEF PCs, Free
<1>4. /\ ops'[o].state = ops[o].state /\ ops'[o].name = ops[o].name /\ ops'[o].type = ops[o].type
      /\ \A q \in Ops \ {o} : ops'[q] = ops[q]
  <2>1. CASE ops' = ops
    BY <2>1
  <2>2. CASE ops' = [ops EXCEPT ![o].id = o]
    <3> DEFINE w == [ops[o] EXCEPT !.id = o]
    <3>1. w.state = ops[o].state /\ w.type = ops[o].type /\ w.name = ops[o].name
      BY <1>1, Zenon DEF OpRecords
    <3>2. ops' = [ops EXCEPT ![o] = w]
      BY <1>1, <2>2 DEF TypeOK
    <3> HIDE DEF w
    <3> QED BY <1>1, <3>1, <3>2 DEF TypeOK
  <2> QED BY <2>1, <2>2 DEF Reserve
<1>5. row'[n].rev = row[n].rev /\ \A m \in Names \ {n} : row'[m] = row[m]
  <2>1. CASE row' = row
    BY <2>1
  <2>2. CASE row' = [row EXCEPT ![n].id = o]
    <3> DEFINE w == [row[n] EXCEPT !.id = o]
    <3>1. w.rev = row[n].rev
      BY <1>1, Zenon DEF RowRecords
    <3>2. row' = [row EXCEPT ![n] = w]
      BY <1>1, <2>2 DEF TypeOK
    <3> HIDE DEF w
    <3> QED BY <1>1, <3>1, <3>2 DEF TypeOK
  <2> QED BY <2>1, <2>2 DEF Reserve
<1>6. "validated" \notin UnderWay
  BY DEF UnderWay, Active
<1>7. Single(o) /\ ReadKept(o) /\ call'[o].i = 1
  BY <1>1, <1>3, <1>4, <1>5, <1>6 DEF Single, ReadKept, CallStep, HasRead
<1> QED BY <1>1, <1>3, <1>4, <1>5, <1>6, <1>7, ForwardJournal

LEMMA RejectedForward ==
  ASSUME IInv, Forward, NEW o \in Ops, ops[o].state = "validated", Rejected(o), CallStep(o), call'[o].pc = "idle",
         UNCHANGED <<host, history>>
  PROVE  Forward'
<1> PICK n \in Names : n = NameOf(o)
  BY Known
<1>1. /\ TypeOK /\ fwd' = fwd /\ overlapped' = overlapped /\ ops[o] \in OpRecords
      /\ ops \in [Ops -> OpRecords] /\ row \in [Names -> RowRecords]
  BY Known DEF host, history, TypeOK
<1>2. /\ ops'[o].state = "rejected" /\ ops'[o].name = ops[o].name /\ ops'[o].type = ops[o].type
      /\ \A q \in Ops \ {o} : ops'[q] = ops[q]
  <2>1. CASE SetState(o, "rejected")
    <3>1. "rejected" \in States
      BY DEF States
    <3> QED BY <1>1, <2>1, <3>1, SetStateFacts
  <2>2. CASE ops' = [ops EXCEPT ![o].state = "rejected", ![o].id = 0]
    <3> DEFINE w == [ops[o] EXCEPT !.state = "rejected", !.id = 0]
    <3>1. w.state = "rejected" /\ w.type = ops[o].type /\ w.name = ops[o].name
      BY <1>1, Zenon DEF OpRecords
    <3>2. ops' = [ops EXCEPT ![o] = w]
      BY <1>1, <2>2
    <3> HIDE DEF w
    <3> QED BY <1>1, <3>1, <3>2
  <2> QED BY <2>1, <2>2 DEF Rejected
<1>3. (row'[n].rev = 1 => row[n].rev = 1) /\ \A m \in Names \ {n} : row'[m] = row[m]
  <2>1. row' = row \/ row' = [row EXCEPT ![n] = NoRow]
    BY DEF Rejected
  <2> QED BY <1>1, <2>1, NoRowFacts
<1>4. "validated" \notin UnderWay /\ "rejected" \notin UnderWay
  BY DEF UnderWay, Active
<1>5. Single(o) /\ ReadKept(o) /\ call'[o].i = 1
  BY <1>1, <1>2, <1>3, <1>4 DEF Single, ReadKept, CallStep, HasRead
<1> QED BY <1>1, <1>2, <1>3, <1>4, <1>5, ForwardJournal

LEMMA RejectForward ==
  ASSUME IInv, Forward, NEW o \in Ops, Reject(o)
  PROVE  Forward'
<1>1. call[o].pc = "reject" /\ ops[o].state = "validated" /\ UNCHANGED <<host, history>>
  BY Known DEF Reject, PcOK
<1>2. CallStep(o) /\ call'[o].pc = "idle"
  BY Known, ReturnStep DEF Reject
<1>3. CASE UNCHANGED <<ops, row>>
  <2>1. UNCHANGED <<row, host, history>> /\ ops' = ops
    BY <1>1, <1>3
  <2> QED BY <1>1, <1>2, <2>1, Known, ForwardEarly DEF CallStep, UnderWay, Active
<1>4. CASE Rejected(o)
  BY <1>1, <1>2, <1>4, RejectedForward
<1> QED BY <1>3, <1>4 DEF Reject

\* The reading: nothing else on a forwarding interface is under way, so the switch
\* is on for every interface that is live.
LEMMA ReadForward ==
  ASSUME IInv, Forward, NEW o \in Ops, Read(o)
  PROVE  Forward'
<1> PICK n \in Names : n = NameOf(o)
  BY Known
<1>1. /\ call[o].pc = "read" /\ ops[o].state = "validated" /\ ops[o].id # 0 /\ TypeOK /\ Control
      /\ ops[o].type \in {"create", "remove"} /\ OpOK(o) /\ RowOK(n) /\ fwd \in {0, 1} /\ overlapped \in BOOLEAN
      /\ ops \in [Ops -> OpRecords] /\ ops[o] \in OpRecords
      /\ UNCHANGED <<row, host, touched, raced>> /\ row' = row /\ fwd' = fwd
  BY Known DEF Read, PcOK, TypeOK, Control, host
<1>2. "validated" \notin UnderWay /\ "validated" \in Current
  BY DEF UnderWay, Active, Current
<1>3. CASE UNCHANGED <<ops, misled, overlapped>> /\ Goto(o, "reject")
  <2>1. CallStep(o) /\ call'[o].pc = "reject"
    BY <1>1, <1>3, Known, GotoStep DEF PCs, Free
  <2>2. UNCHANGED <<row, host, history>> /\ ops' = ops
    BY <1>1, <1>3 DEF history
  <2> QED BY <1>1, <1>2, <2>1, <2>2, ForwardEarly DEF CallStep
<1>4. ASSUME NEW a, NEW act, NEW enb, ops[o].type = "create" => a = 1,
             ops[o].type = "remove" => a = RestoredForwarding(o),
             ops' = [ops EXCEPT ![o] = [ops[o] EXCEPT !.before = fwd, !.after = a, !.active = act, !.enabled = enb]],
             NoteOverlap(o), Goto(o, "snapshot")
      PROVE  Forward'
  <2> DEFINE w == [ops[o] EXCEPT !.before = fwd, !.after = a, !.active = act, !.enabled = enb]
  <2>1. /\ w.state = ops[o].state /\ w.type = ops[o].type /\ w.name = ops[o].name
        /\ w.before = fwd /\ w.after = a
    BY <1>1, Zenon DEF OpRecords
  <2>2. ops' = [ops EXCEPT ![o] = w]
    BY <1>4
  <2> HIDE DEF w
  <2>3. ops'[o] = w /\ \A q \in Ops \ {o} : ops'[q] = ops[q]
    BY <1>1, <2>2
  <2>4. CallStep(o) /\ call'[o].pc = "snapshot"
    BY <1>1, <1>4, Known, GotoStep DEF PCs, Free
  <2>5. NameOf(o)' = n /\ (overlapped' = overlapped => Single(o))
    BY <1>1, <2>1, <2>3, <2>4 DEF NameOf, Single, CallStep
  <2>6. CASE n \notin Forwarding
    <3>1. overlapped' = overlapped
      BY <1>1, <1>4, <2>6 DEF NoteOverlap
    <3>2. ~HasRead(o)'
      BY <2>5, <2>6, <3>1 DEF HasRead
    <3> QED BY <1>1, <2>5, <2>6, <3>1, <3>2, ForwardStep
  <2>7. CASE n \in Forwarding
    <3> SUFFICES ASSUME ~overlapped' PROVE Forward'
      BY DEF Forward
    <3>1. ~overlapped /\ \A q \in Ops \ {o} : NameOf(q) \in Forwarding => ops[q].state \notin Active \ {"pending"}
      BY <1>1, <1>4, <2>7 DEF NoteOverlap
    <3>2. Single(o) /\ NameOf(o)' = n /\ \A q \in Ops : NameOf(q)' = NameOf(q)
      <4>1. overlapped' \in BOOLEAN
        BY <1>1, <1>4, NoteOverlapType
      <4>2. overlapped' = overlapped
        BY <1>1, <3>1, <4>1, Zenon
      <4> QED BY <2>3, <2>5, <4>2 DEF Single, NameOf
    <3>3. ASSUME NEW q \in Ops, HasRead(q)' PROVE q = o
      <4> SUFFICES ASSUME q # o PROVE FALSE
        OBVIOUS
      <4>1. NameOf(q) \in Forwarding /\ (ops[q].state \in UnderWay \/ call[q].pc = "snapshot")
        BY <3>2, <3>3 DEF HasRead, Single
      <4>2. PcOK(q)
        BY <1>1 DEF Control
      <4>3. ops[q].state \in UnderWay \/ ops[q].state = "validated"
        BY <4>1, <4>2 DEF PcOK
      <4> QED BY <3>1, <4>1, <4>3 DEF UnderWay, Active
    <3>4. Quiet
      BY <1>1, <1>2, <3>1 DEF Quiet, UnderWay, Active
    <3>5. (\E m \in Forwarding : row[m].rev = 1) => fwd = 1
      BY <3>1, <3>4 DEF Forward
    <3>6. ops[o].type = "remove" => fwd = 1
      <4> SUFFICES ASSUME ops[o].type = "remove" PROVE fwd = 1
        OBVIOUS
      <4>1. row[n].id = ops[o].id /\ ops[ops[o].id].state = "committed"
        BY <1>1, <1>2 DEF OpOK
      <4>2. row[n].rev = 1
        BY <1>1, <4>1 DEF RowOK
      <4> QED BY <2>7, <3>5, <4>2
    <3>7. OthersLive(o)' => fwd = 1 /\ a = 1
      <4> SUFFICES ASSUME OthersLive(o)' PROVE fwd = 1 /\ a = 1
        OBVIOUS
      <4>1. PICK m \in Forwarding \ {n} : row[m].rev = 1
        BY <1>1, <3>2 DEF OthersLive
      <4>2. fwd = 1
        BY <3>5, <4>1
      <4>3. RowOK(m)
        BY <1>1, <4>1, NamesAssumption DEF Control
      <4>4. row[m].id # 0
        BY <4>1, <4>3, NoRowFacts DEF RowOK
      <4>5. OthersForward(n)
        BY <4>1, <4>4 DEF OthersForward
      <4>6. RestoredForwarding(o) = fwd
        BY <4>5 DEF RestoredForwarding
      <4> QED BY <1>1, <1>4, <4>2, <4>6
    <3>8. ~SwitchedOn(o)' /\ ~SwitchedBack(o)'
      BY <1>1, <2>1, <2>3, <2>4 DEF SwitchedOn, SwitchedBack
    <3>9. Switch(o)'
      <4>1. ops'[o].before = fwd /\ ops'[o].after = a /\ ops'[o].type = ops[o].type
        BY <2>1, <2>3
      <4> QED BY <1>1, <1>4, <3>6, <3>7, <3>8, <4>1 DEF Switch
    <3>10. (\E m \in Forwarding : row'[m].rev = 1) => fwd' = 1
      BY <1>1, <3>5
    <3> QED BY <3>3, <3>9, <3>10 DEF Forward
  <2> QED BY <2>6, <2>7
<1>5. CASE /\ ops[o].type = "create" /\ ops' = [ops EXCEPT ![o].before = fwd, ![o].after = 1]
           /\ NoteOverlap(o) /\ Goto(o, "snapshot")
  <2>2. ops' = [ops EXCEPT ![o] = [ops[o] EXCEPT !.before = fwd, !.after = 1, !.active = ops[o].active,
                                                !.enabled = ops[o].enabled]]
    <3>1. [ops[o] EXCEPT !.before = fwd, !.after = 1, !.active = ops[o].active, !.enabled = ops[o].enabled]
            = [ops[o] EXCEPT !.before = fwd, !.after = 1]
      BY <1>1 DEF OpRecords
    <3>2. [ops EXCEPT ![o].before = fwd, ![o].after = 1] = [ops EXCEPT ![o] = [ops[o] EXCEPT !.before = fwd, !.after = 1]]
      BY Known
    <3> QED BY <1>5, <3>1, <3>2
  <2> QED BY <1>4, <1>5, <2>2
<1>6. CASE /\ ops[o].type = "remove"
           /\ \E isActive, isEnabled \in BOOLEAN :
                /\ QueryBoth(o, isActive, isEnabled)
                /\ ops' = [ops EXCEPT ![o].before = fwd, ![o].after = RestoredForwarding(o),
                                      ![o].active = isActive, ![o].enabled = isEnabled]
           /\ NoteOverlap(o) /\ Goto(o, "snapshot")
  <2>1. PICK act, enb : ops' = [ops EXCEPT ![o].before = fwd, ![o].after = RestoredForwarding(o),
                                           ![o].active = act, ![o].enabled = enb]
    BY <1>6
  <2>2. ops' = [ops EXCEPT ![o] = [ops[o] EXCEPT !.before = fwd, !.after = RestoredForwarding(o), !.active = act,
                                                !.enabled = enb]]
    BY <2>1, Known
  <2> HIDE DEF RestoredForwarding
  <2> QED BY <1>4, <1>6, <2>2
<1> QED BY <1>3, <1>5, <1>6 DEF Read

LEMMA SnapshotForward ==
  ASSUME IInv, Forward, NEW o \in Ops, Snapshot(o)
  PROVE  Forward'
<1>1. /\ call[o].pc = "snapshot" /\ ops[o].state = "validated" /\ UNCHANGED <<row, host, history>>
      /\ "validated" \in States /\ "snapshotted" \in States
  BY Known DEF Snapshot, PcOK, States, Active
<1>2. PICK l \in {"begin", "reject", "idle"} : CallStep(o) /\ call'[o].pc = l
  BY <1>1, Known, GotoStep, ReturnStep DEF Snapshot, PCs, Free
<1>3. PICK s \in {"validated", "snapshotted"} : Setting(o, s)
  BY <1>1, TransitionSets DEF Snapshot, Setting
<1> QED BY <1>1, <1>2, <1>3, ForwardMove DEF UnderWay, Active

LEMMA BeginForward ==
  ASSUME IInv, Forward, NEW o \in Ops, Begin(o)
  PROVE  Forward'
<1>1. /\ call[o].pc = "begin" /\ ops[o].state = "snapshotted" /\ UNCHANGED <<row, host, history>>
      /\ "executing" \in States /\ "snapshotted" \in States
  BY Known DEF Begin, PcOK, States, Active
<1>2. PICK l \in {"do", "rb_begin", "idle"} : CallStep(o) /\ call'[o].pc = l
  <2>1. (\E l \in {"do", "rb_begin"} : Goto(o, l)) \/ Return(o, TRUE)
    BY DEF Begin
  <2>2. {"do", "rb_begin"} \subseteq PCs
    BY DEF PCs
  <2> QED BY <1>1, <2>1, <2>2, Known, GotoStep, ReturnStep DEF Free
<1>3. PICK s \in {"executing", "snapshotted"} : Setting(o, s)
  BY <1>1, TransitionSets DEF Begin, Setting
<1> QED BY <1>1, <1>2, <1>3, ForwardMove DEF UnderWay, Active

LEMMA InspectForward ==
  ASSUME IInv, Forward, NEW o \in Ops, Inspect(o)
  PROVE  Forward'
<1>1. /\ call[o].pc = "inspect" /\ ops[o].state = "executing" /\ TypeOK /\ ops[o] \in OpRecords
      /\ row' = row /\ fwd' = fwd /\ overlapped' = overlapped
  BY Known DEF Inspect, PcOK, TypeOK, host, history
<1>2. PICK l \in {"complete", "rb_begin"} : CallStep(o) /\ call'[o].pc = l
  <2>1. \E l \in {"complete", "rb_begin"} : Goto(o, l)
    BY DEF Inspect
  <2>2. {"complete", "rb_begin"} \subseteq PCs
    BY DEF PCs
  <2> QED BY <1>1, <2>1, <2>2, Known, GotoStep DEF Free
<1>3. /\ ops'[o].state = ops[o].state /\ ops'[o].name = ops[o].name /\ ops'[o].type = ops[o].type
      /\ ops'[o].before = ops[o].before /\ ops'[o].after = ops[o].after
      /\ \A q \in Ops \ {o} : ops'[q] = ops[q]
  <2>1. CASE ops' = ops
    BY <2>1
  <2>2. ASSUME NEW v, ops' = [ops EXCEPT ![o].hash = v]
        PROVE  /\ ops'[o].state = ops[o].state /\ ops'[o].name = ops[o].name /\ ops'[o].type = ops[o].type
               /\ ops'[o].before = ops[o].before /\ ops'[o].after = ops[o].after
               /\ \A q \in Ops \ {o} : ops'[q] = ops[q]
    <3> DEFINE w == [ops[o] EXCEPT !.hash = v]
    <3>1. /\ w.state = ops[o].state /\ w.type = ops[o].type /\ w.name = ops[o].name
          /\ w.before = ops[o].before /\ w.after = ops[o].after
      BY <1>1, Zenon DEF OpRecords
    <3>2. ops' = [ops EXCEPT ![o] = w]
      BY <1>1, <2>2 DEF TypeOK
    <3> HIDE DEF w
    <3> QED BY <1>1, <3>1, <3>2 DEF TypeOK
  <2> QED BY <2>1, <2>2 DEF Inspect
<1>4. Single(o) /\ ReadKept(o) /\ call'[o].i = 1
  BY <1>1, <1>2, <1>3 DEF Single, ReadKept, CallStep
<1> QED BY <1>1, <1>2, <1>3, <1>4, ForwardJournal

\* The rows of an operation under way may change with its state.
LEMMA ForwardRow ==
  ASSUME IInv, Forward, NEW o \in Ops, NEW s \in States, Setting(o, s), CallStep(o), UNCHANGED <<host, history>>,
         \A m \in Names \ {NameOf(o)} : row'[m] = row[m],
         ops[o].state \in UnderWay, call'[o].pc \in {"idle", "check", "rb_begin"},
         s = "verifying" => call[o].pc = "complete" \/ ops[o].type = "remove",
         s \in UnderWay \/ row'[NameOf(o)].rev # 1
  PROVE  Forward'
<1>1. TypeOK /\ fwd' = fwd /\ overlapped' = overlapped
  BY DEF IInv, Control, host, history
<1>2. /\ ops'[o].state = s /\ ops'[o].name = ops[o].name /\ ops'[o].type = ops[o].type
      /\ ops'[o].before = ops[o].before /\ ops'[o].after = ops[o].after
      /\ \A q \in Ops \ {o} : ops'[q] = ops[q]
  BY <1>1, SettingFacts
<1>3. Single(o) /\ ReadKept(o) /\ call'[o].i = 1
  BY <1>1, <1>2 DEF Single, ReadKept, CallStep
<1> QED BY <1>1, <1>2, <1>3, ForwardJournal

LEMMA CompleteForward ==
  ASSUME IInv, Forward, NEW o \in Ops, Complete(o)
  PROVE  Forward'
<1>1. /\ call[o].pc = "complete" /\ ops[o].state = "executing" /\ TypeOK /\ UNCHANGED <<host, history>>
      /\ {"executing", "verifying"} \subseteq States /\ {"executing", "verifying"} \subseteq UnderWay
  BY Known DEF Complete, PcOK, States, Active, UnderWay
<1>2. PICK l \in {"check", "rb_begin"} : CallStep(o) /\ call'[o].pc = l
  <2>1. \E l \in {"check", "rb_begin"} : Goto(o, l)
    BY DEF Complete
  <2>2. {"check", "rb_begin"} \subseteq PCs
    BY DEF PCs
  <2> QED BY <1>1, <2>1, <2>2, Known, GotoStep DEF Free
<1>3. PICK s \in {"executing", "verifying"} : Setting(o, s)
  BY <1>1 DEF Complete, Setting
<1>4. \A m \in Names \ {NameOf(o)} : row'[m] = row[m]
  BY <1>1 DEF Complete, TypeOK
<1> QED BY <1>1, <1>2, <1>3, <1>4, ForwardRow

LEMMA VerifiedForward ==
  ASSUME IInv, Forward, NEW o \in Ops, CheckService(o) \/ Finalize(o) \/ ToVerifying(o)
  PROVE  Forward'
<1>1. /\ PcOK(o) /\ UNCHANGED <<row, host, overlapped>> /\ ops[o].type \in {"create", "remove"}
      /\ {"executing", "verifying", "committed"} \subseteq States /\ {"executing", "verifying"} \subseteq UnderWay
  BY Known DEF CheckService, Finalize, ToVerifying, States, Active, UnderWay, history
<1>2. PICK l \in {"finalize", "rb_begin", "idle", "delete"} : CallStep(o) /\ call'[o].pc = l
  <2>1. \/ \E l \in {"finalize", "rb_begin", "delete"} : Goto(o, l)
        \/ \E e \in BOOLEAN : Return(o, e)
    BY DEF CheckService, Finalize, ToVerifying
  <2>2. {"finalize", "rb_begin", "delete"} \subseteq PCs
    BY DEF PCs
  <2>3. call[o].pc \notin {"do", "undo"} /\ call[o].pc \notin Free
    BY DEF CheckService, Finalize, ToVerifying, Free
  <2> QED BY <2>1, <2>2, <2>3, Known, GotoStep, ReturnStep
<1>3. CASE CheckService(o)
  <2>1. Setting(o, ops[o].state)
    BY <1>3 DEF CheckService, Setting
  <2>2. ops[o].state = "verifying"
    BY <1>1, <1>3 DEF CheckService, PcOK
  <2> QED BY <1>1, <1>2, <2>1, <2>2, ForwardWritten
<1>4. CASE Finalize(o)
  <2>1. ops[o].state = "verifying" /\ ops[o].type = "create"
    BY <1>1, <1>4 DEF Finalize, PcOK
  <2>2. PICK s \in {"verifying", "committed"} : Setting(o, s)
    BY <1>4, <2>1, TransitionSets DEF Finalize
  <2> QED BY <1>1, <1>2, <2>1, <2>2, ForwardWritten
<1>5. CASE ToVerifying(o)
  <2>1. ops[o].state = "executing" /\ ops[o].type = "remove"
    BY <1>1, <1>5 DEF ToVerifying, PcOK
  <2>2. PICK s \in {"executing", "verifying"} : Setting(o, s)
    BY <1>5, <2>1, TransitionSets DEF ToVerifying
  <2> QED BY <1>1, <1>2, <2>1, <2>2, ForwardWritten
<1> QED BY <1>3, <1>4, <1>5

LEMMA FinalizeRemovalForward ==
  ASSUME IInv, Forward, NEW o \in Ops, FinalizeRemoval(o)
  PROVE  Forward'
<1>1. /\ call[o].pc = "delete" /\ ops[o].state = "verifying" /\ ops[o].type = "remove" /\ TypeOK
      /\ UNCHANGED <<host, history>> /\ NameOf(o) \in Names /\ ops[o].type \in {"create", "remove"}
      /\ {"verifying", "committed"} \subseteq States /\ "verifying" \in UnderWay
  BY Known DEF FinalizeRemoval, PcOK, States, Active, UnderWay
<1>2. PICK l \in {"rb_begin", "idle"} : CallStep(o) /\ call'[o].pc = l
  <2>1. Goto(o, "rb_begin") \/ Return(o, FALSE)
    BY DEF FinalizeRemoval
  <2> QED BY <1>1, <2>1, Known, GotoStep, ReturnStep DEF PCs, Free
<1>3. CASE UNCHANGED <<ops, row>>
  <2>1. Setting(o, ops[o].state) /\ UNCHANGED <<row, host, history>>
    BY <1>1, <1>3 DEF Setting
  <2> QED BY <1>1, <1>2, <2>1, ForwardMove
<1>4. CASE row' = [row EXCEPT ![NameOf(o)] = NoRow] /\ SetState(o, "committed")
  <2>1. row'[NameOf(o)] = NoRow /\ \A m \in Names \ {NameOf(o)} : row'[m] = row[m]
    BY <1>1, <1>4 DEF TypeOK
  <2>2. row'[NameOf(o)].rev # 1
    BY <2>1, NoRowFacts
  <2> QED BY <1>1, <1>2, <1>4, <2>1, <2>2, ForwardRow DEF Setting
<1> QED BY <1>3, <1>4 DEF FinalizeRemoval

LEMMA RollbackBeginForward ==
  ASSUME IInv, Forward, NEW o \in Ops, RollbackBegin(o)
  PROVE  Forward'
<1>1. /\ call[o].pc = "rb_begin" /\ UNCHANGED <<row, host, history>>
      /\ "rolling_back" \in States /\ "rolling_back" \in UnderWay /\ ops[o].state \in States
      /\ {"snapshotted", "executing", "verifying"} \subseteq UnderWay
      /\ {"snapshotted", "executing", "verifying"} \subseteq States
  BY Known DEF RollbackBegin, States, Active, UnderWay
<1>2. PICK l \in {"undo", "idle"} : CallStep(o) /\ call'[o].pc = l
  <2>1. Goto(o, "undo") \/ Return(o, TRUE)
        \/ Return(o, ops[o].type = "remove" /\ ops[o].state \notin {"committed", "rolled_back"})
        \/ Return(o, ops[o].type = "remove")
    BY DEF RollbackBegin
  <2> QED BY <1>1, <2>1, Known, GotoStep, ReturnStep DEF PCs, Free
<1>3. \/ Setting(o, ops[o].state)
      \/ ops[o].state \in {"snapshotted", "executing", "verifying"} /\ Setting(o, "rolling_back")
  BY TransitionSets DEF RollbackBegin, Setting
<1>4. CASE Setting(o, ops[o].state)
  BY <1>1, <1>2, <1>4, ForwardMove
<1>5. CASE ops[o].state \in {"snapshotted", "executing", "verifying"} /\ Setting(o, "rolling_back")
  BY <1>1, <1>2, <1>5, ForwardMove
<1> QED BY <1>3, <1>4, <1>5

LEMMA RollbackEndForward ==
  ASSUME IInv, Forward, NEW o \in Ops, RollbackEnd(o)
  PROVE  Forward'
<1>1. /\ call[o].pc = "rb_end" /\ ops[o].state = "rolling_back" /\ TypeOK /\ UNCHANGED <<host, history>>
      /\ NameOf(o) \in Names /\ ops[o].type \in {"create", "remove"} /\ call[o].err \in BOOLEAN
      /\ {"rolling_back", "rolled_back", "rollback_failed"} \subseteq States
      /\ {"rolling_back", "rollback_failed"} \subseteq UnderWay
  BY Known, CallFields DEF RollbackEnd, PcOK, States, Active, UnderWay, TypeOK
<1>2. CallStep(o) /\ call'[o].pc = "idle"
  BY <1>1, Known, ReturnStep DEF RollbackEnd
<1>3. CASE UNCHANGED <<ops, row>>
  <2>1. Setting(o, ops[o].state) /\ UNCHANGED <<row, host, history>>
    BY <1>1, <1>3 DEF Setting
  <2> QED BY <1>1, <1>2, <2>1, ForwardMove
<1>4. CASE SetState(o, "rollback_failed") /\ UNCHANGED row
  <2>1. Setting(o, "rollback_failed") /\ UNCHANGED <<row, host, history>>
    BY <1>1, <1>4 DEF Setting
  <2> QED BY <1>1, <1>2, <2>1, ForwardMove
<1>5. CASE SetState(o, "rolled_back") /\ ~call[o].err /\ ops[o].type # "create" /\ UNCHANGED row
  <2>1. Setting(o, "rolled_back") /\ UNCHANGED <<row, host, history>> /\ ops[o].type = "remove"
    BY <1>1, <1>5 DEF Setting
  <2>2. "rolled_back" \notin UnderWay
    BY DEF UnderWay, Active
  <2> QED BY <1>1, <1>2, <1>5, <2>1, <2>2, ForwardMove
<1>6. CASE SetState(o, "rolled_back") /\ row' = [row EXCEPT ![NameOf(o)] = NoRow]
  <2>1. row'[NameOf(o)] = NoRow /\ \A m \in Names \ {NameOf(o)} : row'[m] = row[m]
    BY <1>1, <1>6 DEF TypeOK
  <2>2. row'[NameOf(o)].rev # 1
    BY <2>1, NoRowFacts
  <2> QED BY <1>1, <1>2, <1>6, <2>1, <2>2, ForwardRow DEF Setting
<1> QED BY <1>3, <1>4, <1>5, <1>6 DEF RollbackEnd, RollbackOutcome

LEMMA RecoverManualForward ==
  ASSUME IInv, Forward, NEW o \in Ops, RecoverManual(o)
  PROVE  Forward'
<1>1. /\ ops[o].state = "rolling_back" /\ UNCHANGED <<row, host, history>>
      /\ {"rolling_back", "rollback_failed"} \subseteq States
      /\ {"rolling_back", "rollback_failed"} \subseteq UnderWay
  BY Known DEF RecoverManual, PcOK, States, Active, UnderWay
<1>2. CallStep(o) /\ call'[o].pc = "idle"
  BY Known, ReturnStep DEF RecoverManual
<1>3. PICK s \in {"rolling_back", "rollback_failed"} : Setting(o, s)
  BY <1>1, TransitionSets DEF RecoverManual
<1> QED BY <1>1, <1>2, <1>3, ForwardMove

-----------------------------------------------------------------------------
(* Forwarding, one step per action: the host *)

LEMMA ForwardInScript ==
  ASSUME NEW o \in Ops
  PROVE  /\ \E j \in 1..Len(Script(o)) : Script(o)[j] = "forward"
         /\ Uses(o, "forward") <=> NameOf(o) \in Forwarding
<1>1. Uses(o, "forward") <=> NameOf(o) \in Forwarding
  BY DEF Uses
<1>2. /\ CreateSteps[5] = "forward" /\ UndoCreateSteps[5] = "forward"
      /\ RemoveSteps[7] = "forward" /\ UndoRemoveSteps[5] = "forward"
  BY DEF CreateSteps, UndoCreateSteps, RemoveSteps, UndoRemoveSteps
<1>3. Script(o) \in {CreateSteps, UndoCreateSteps, RemoveSteps, UndoRemoveSteps}
  BY DEF Script
<1>4. 5 \in 1..Len(Script(o)) /\ 7 \in 1..Len(Script(o))
  <2>1. PICK l \in 7..8 : l = Len(Script(o))
    BY ScriptFacts
  <2> QED BY <2>1
<1> QED BY <1>1, <1>2, <1>3, <1>4, SequenceFacts

\* A step that is done: where the call is past it, the switch is set.
LEMMA DoneSwitches ==
  ASSUME Control, NEW o \in Ops, NEW s, At(o, s), ops' = ops, Done(o), NameOf(o) \in Forwarding
  PROVE  /\ ops[o].type = "create" /\ SwitchedOn(o)' =>
              call[o].pc = "do" /\ (Passed(o, "forward") \/ s = "forward")
         /\ ops[o].type = "remove" /\ SwitchedBack(o)' =>
              call[o].pc = "undo" /\ ~call[o].err /\ (Passed(o, "forward") \/ s = "forward")
<1>1. /\ call[o].pc \in Scripted /\ call[o].pc \in {"do", "undo"} /\ Script(o)[Here(o)] = s
      /\ ops[o].state \in {"executing", "rolling_back"}
  BY AtFacts, AtWork
<1>2. /\ call'[o].err = call[o].err
      /\ More(o, Here(o) + 1) => call'[o].pc = call[o].pc /\ call'[o].i = Here(o) + 1
      /\ ~More(o, Here(o) + 1) => call'[o].pc = Finished(o) /\ call'[o].i = 1
  BY <1>1, DoneFacts
<1>3. CASE More(o, Here(o) + 1)
  <2>1. Passed(o, "forward")' => Passed(o, "forward") \/ s = "forward"
    BY <1>1, <1>2, <1>3, PassedNext
  <2> QED BY <1>1, <1>2, <1>3, <2>1 DEF SwitchedOn, SwitchedBack
<1>4. CASE ~More(o, Here(o) + 1)
  <2>1. PICK j \in 1..Len(Script(o)) : Script(o)[j] = "forward"
    BY ForwardInScript
  <2>2. Used(o, j)
    BY <2>1, ForwardInScript DEF Used
  <2>3. Passed(o, "forward") \/ s = "forward"
    BY <1>1, <1>4, <2>1, <2>2, StepFacts
  <2> QED BY <1>1, <1>2, <1>4, <2>3 DEF SwitchedOn, SwitchedBack, Finished
<1> QED BY <1>3, <1>4

LEMMA HostForward ==
  ASSUME IInv, Forward, NEW o \in Ops, NEW s, At(o, s), UNCHANGED <<ops, row, overlapped>>,
         \/ Done(o) /\ fwd' = IF s # "forward" THEN fwd ELSE IF call[o].pc = "do" THEN ops[o].after ELSE ops[o].before
         \/ Failed(o) /\ fwd' = fwd
         \/ Half(o) /\ fwd' = fwd
  PROVE  Forward'
<1>1. /\ Control /\ TypeOK /\ call[o].pc \in Scripted /\ call[o].pc \in {"do", "undo"} /\ Uses(o, s)
      /\ ops[o].state \in {"executing", "rolling_back"} /\ ops[o].type \in {"create", "remove"}
      /\ "executing" \in UnderWay /\ "rolling_back" \in UnderWay
  BY AtFacts, AtWork DEF IInv, UnderWay, Active
<1>2. \A q \in Ops \ {o} : call'[q] = call[q]
  BY <1>1, DoneFacts, FailedFacts, HalfFacts
<1>3. Single(o) /\ (HasRead(o)' => HasRead(o)) /\ NameOf(o)' = NameOf(o)
  BY <1>1, <1>2 DEF Single, HasRead, NameOf
<1>4. s = "forward" => HasRead(o)
  BY <1>1, ForwardInScript DEF HasRead
<1>5. ~overlapped /\ HasRead(o) => Switch(o)
  BY DEF Forward
<1>6. ~overlapped /\ HasRead(o) /\ OthersLive(o) => fwd' = 1
  BY <1>5 DEF Switch
<1>7. ASSUME ~overlapped, HasRead(o)' PROVE Switch(o)'
  <2>1. Switch(o) /\ NameOf(o) \in Forwarding /\ (OthersLive(o)' => OthersLive(o) /\ fwd' = 1)
    BY <1>3, <1>5, <1>6, <1>7 DEF OthersLive, HasRead
  <2>2. ASSUME ops[o].type = "create", SwitchedOn(o)' PROVE fwd' = 1
    <3>1. CASE /\ Done(o)
               /\ fwd' = IF s # "forward" THEN fwd ELSE IF call[o].pc = "do" THEN ops[o].after ELSE ops[o].before
      <4>1. call[o].pc = "do" /\ (Passed(o, "forward") \/ s = "forward")
        BY <1>1, <2>1, <2>2, <3>1, DoneSwitches
      <4> QED BY <2>1, <2>2, <3>1, <4>1 DEF Switch, SwitchedOn
    <3>2. CASE Failed(o)
      BY <1>1, <2>2, <3>2, FailedFacts DEF SwitchedOn, Finished
    <3>3. CASE Half(o) /\ fwd' = fwd
      <4>1. SwitchedOn(o)
        BY <1>1, <2>2, <3>3, HalfFacts, SameSwitch
      <4> QED BY <2>1, <2>2, <3>3, <4>1 DEF Switch
    <3> QED BY <3>1, <3>2, <3>3
  <2>3. ASSUME ops[o].type = "remove", SwitchedBack(o)' PROVE fwd' = 1
    <3>1. CASE /\ Done(o)
               /\ fwd' = IF s # "forward" THEN fwd ELSE IF call[o].pc = "do" THEN ops[o].after ELSE ops[o].before
      <4>1. call[o].pc = "undo" /\ ~call[o].err /\ (Passed(o, "forward") \/ s = "forward")
        BY <1>1, <2>1, <2>3, <3>1, DoneSwitches
      <4> QED BY <2>1, <2>3, <3>1, <4>1 DEF Switch, SwitchedBack
    <3>2. CASE Failed(o)
      BY <1>1, <2>3, <3>2, FailedFacts DEF SwitchedBack
    <3>3. CASE Half(o) /\ fwd' = fwd
      <4>1. SwitchedBack(o)
        BY <1>1, <2>3, <3>3, HalfFacts, SameSwitch
      <4> QED BY <2>1, <2>3, <3>3, <4>1 DEF Switch
    <3> QED BY <3>1, <3>2, <3>3
  <2>4. ops' = ops
    OBVIOUS
  <2> QED BY <2>1, <2>2, <2>3, <2>4 DEF Switch
<1>8. fwd' = fwd \/ (HasRead(o) /\ (~overlapped /\ OthersLive(o) => fwd' = 1))
  BY <1>4, <1>6
<1>9. ops'[o].state \in UnderWay /\ row' = row
  BY <1>1
<1> QED BY <1>1, <1>3, <1>7, <1>8, <1>9, ForwardStep

LEMMA HostStepForward ==
  ASSUME IInv, Forward, NEW o \in Ops, HostStep(o)
  PROVE  Forward'
<1>1. ASSUME NEW k \in Kinds, WriteOwnedFile(o, k) \/ RemoveOwnedFile(o, k) PROVE Forward'
  <2>1. At(o, k) /\ UNCHANGED <<ops, row, overlapped>> /\ fwd' = fwd /\ k # "forward"
    BY <1>1 DEF WriteOwnedFile, RemoveOwnedFile, AtFile, FileStep, history, Kinds
  <2>2. Done(o) \/ Failed(o) \/ Half(o)
    BY <1>1, Zenon DEF WriteOwnedFile, RemoveOwnedFile
  <2> QED BY <2>1, <2>2, HostForward
<1>2. CASE CreateConfig(o)
  <2>1. At(o, "conf") /\ UNCHANGED <<ops, row, overlapped>> /\ fwd' = fwd /\ (Done(o) \/ Failed(o))
    BY <1>2 DEF CreateConfig, AtFile, FileStep, history
  <2> QED BY <2>1, HostForward
<1>3. CASE ValidateNFT(o)
  <2>1. At(o, "check") /\ UNCHANGED <<ops, row, overlapped>> /\ fwd' = fwd /\ (Done(o) \/ Failed(o))
    BY <1>3 DEF ValidateNFT, OtherStep, history
  <2> QED BY <2>1, HostForward
<1>4. CASE InspectRemoved(o)
  <2>1. At(o, "inspect") /\ UNCHANGED <<ops, row, overlapped>> /\ fwd' = fwd /\ (Done(o) \/ Failed(o))
    BY <1>4 DEF InspectRemoved, OtherStep, history
  <2> QED BY <2>1, HostForward
<1>5. CASE SetForwarding(o)
  <2>1. At(o, "forward") /\ UNCHANGED <<ops, row, overlapped>>
    BY <1>5 DEF SetForwarding, OtherStep, history
  <2>2. \/ Done(o) /\ fwd' = (IF call[o].pc = "do" THEN ops[o].after ELSE ops[o].before)
        \/ Failed(o) /\ fwd' = fwd
    BY <1>5 DEF SetForwarding
  <2> QED BY <2>1, <2>2, HostForward
<1>6. ASSUME NEW s \in {"start", "stop", "enable", "disable"}, Service(o, s) PROVE Forward'
  <2>1. At(o, s) /\ UNCHANGED <<ops, row, overlapped>> /\ fwd' = fwd /\ s # "forward"
    BY <1>6 DEF Service, OtherStep, history
  <2>2. Done(o) \/ Failed(o)
    BY <1>6 DEF Service
  <2> QED BY <2>1, <2>2, HostForward
<1> QED BY <1>1, <1>2, <1>3, <1>4, <1>5, <1>6 DEF HostStep

-----------------------------------------------------------------------------
(* Forwarding, one step per action: start-up, previews and the environment *)

LEMMA RecoverNextForward ==
  ASSUME IInv, Forward, RecoverNext
  PROVE  Forward'
<1>1. TypeOK /\ todo \subseteq Ops /\ UNCHANGED <<host, history>> /\ \A q \in Ops : call[q].pc = "idle"
  BY DEF IInv, Control, TypeOK, RecoverNext
<1>2. PICK o \in todo :
        LET boot(l) == [call EXCEPT ![o] = [Idle EXCEPT !.pc = l, !.boot = TRUE]]
            verifying == ops[o].state = "verifying" /\ ~RecoverRollsBack(o)
        IN \/ /\ ops[o].state = "pending" /\ SetState(o, "expired")
              /\ UNCHANGED <<row, call, lock, failed, faults>>
           \/ /\ ops[o].state = "validated" /\ Rejected(o)
              /\ UNCHANGED <<call, lock, failed, faults>>
           \/ /\ verifying /\ Readable(o) /\ Agrees(o) /\ SetState(o, "committed")
              /\ UNCHANGED <<row, call, lock, failed, faults>>
           \/ /\ verifying /\ Readable(o) /\ ~Agrees(o) /\ SetState(o, "rolling_back")
              /\ call' = boot("manual") /\ UNCHANGED <<row, lock, failed, faults>>
           \/ /\ verifying /\ ~Readable(o) /\ failed' = TRUE
              /\ UNCHANGED <<ops, row, call, lock, faults>>
           \/ /\ RecoverRollsBack(o) /\ lock' = [lock EXCEPT ![NameOf(o)] = o]
              /\ call' = boot("rb_begin") /\ UNCHANGED <<ops, row, failed, faults>>
           \/ Fault /\ failed' = TRUE /\ UNCHANGED <<ops, row, call, lock>>
  BY Zenon DEF RecoverNext
<1>3. o \in Ops /\ failed \in BOOLEAN /\ call[o].pc = "idle" /\ ops[o].type \in {"create", "remove"}
      /\ ops[o].state \in States
  BY <1>1, <1>2, Known DEF TypeOK
<1>4. /\ {"expired", "committed", "rolling_back"} \subseteq States /\ {"manual", "rb_begin"} \subseteq PCs
      /\ "pending" \notin UnderWay /\ "expired" \notin UnderWay
      /\ "verifying" \in UnderWay /\ "rolling_back" \in UnderWay
  BY DEF States, Active, PCs, UnderWay
<1>5. CASE ops[o].state = "pending" /\ SetState(o, "expired") /\ UNCHANGED <<row, call, lock, failed, faults>>
  <2>1. CallStep(o) /\ call'[o].pc = "idle"
    BY <1>3, <1>5, Known, StayStep
  <2>2. Setting(o, "expired") /\ UNCHANGED <<row, host, history>>
    BY <1>1, <1>5 DEF Setting
  <2> QED BY <1>3, <1>4, <1>5, <2>1, <2>2, ForwardMove
<1>6. CASE ops[o].state = "validated" /\ Rejected(o) /\ UNCHANGED <<call, lock, failed, faults>>
  <2>1. CallStep(o) /\ call'[o].pc = "idle"
    BY <1>3, <1>6, Known, StayStep
  <2> QED BY <1>1, <1>3, <1>6, <2>1, RejectedForward
<1>7. CASE /\ ops[o].state = "verifying" /\ ~RecoverRollsBack(o) /\ SetState(o, "committed")
           /\ UNCHANGED <<row, call, lock, failed, faults>>
  <2>1. CallStep(o) /\ call'[o].pc = "idle"
    BY <1>3, <1>7, Known, StayStep
  <2>2. Setting(o, "committed") /\ UNCHANGED <<row, host, history>> /\ ops[o].type = "create"
    BY <1>1, <1>3, <1>7 DEF Setting, RecoverRollsBack
  <2> QED BY <1>3, <1>4, <1>7, <2>1, <2>2, ForwardMove
<1>8. CASE /\ ops[o].state = "verifying" /\ SetState(o, "rolling_back")
           /\ call' = [call EXCEPT ![o] = [Idle EXCEPT !.pc = "manual", !.boot = TRUE]]
           /\ UNCHANGED <<row, lock, failed, faults>>
  <2>1. CallStep(o) /\ call'[o].pc = "manual"
    BY <1>1, <1>3, <1>4, <1>8, Known, BootStep DEF Free
  <2>2. Setting(o, "rolling_back") /\ UNCHANGED <<row, host, history>>
    BY <1>1, <1>8 DEF Setting
  <2> QED BY <1>3, <1>4, <1>8, <2>1, <2>2, ForwardMove
<1>9. CASE RecoverRollsBack(o) /\ lock' = [lock EXCEPT ![NameOf(o)] = o]
           /\ call' = [call EXCEPT ![o] = [Idle EXCEPT !.pc = "rb_begin", !.boot = TRUE]]
           /\ UNCHANGED <<ops, row, failed, faults>>
  <2>1. CallStep(o) /\ call'[o].pc = "rb_begin"
    BY <1>1, <1>3, <1>4, <1>9, Known, BootStep
  <2>2. Setting(o, ops[o].state) /\ UNCHANGED <<row, host, history>>
    BY <1>1, <1>9 DEF Setting
  <2> QED BY <1>3, <2>1, <2>2, ForwardMove
<1>10. CASE UNCHANGED <<ops, row, call, lock>>
  <2>1. overlapped' = overlapped /\ fwd' = fwd /\ row' = row /\ ops' = ops /\ call' = call
    BY <1>1, <1>10 DEF host, history
  <2> QED BY <2>1, ForwardFrame
<1> QED BY <1>2, <1>5, <1>6, <1>7, <1>8, <1>9, <1>10

\* Steps that leave the operations, the rows and the switch alone
LEMMA EnvironmentForward ==
  ASSUME IInv, Forward, StartAgent \/ RecoverEnd \/ Crash \/ Edit \/ UNCHANGED vars \/ \E o \in Ops : EndContext(o)
  PROVE  Forward'
<1>1. overlapped' = overlapped /\ fwd' = fwd /\ row' = row /\ ops' = ops
  BY DEF StartAgent, RecoverEnd, Crash, Edit, EndContext, vars, host, history
<1>2. CASE StartAgent \/ RecoverEnd \/ Edit \/ UNCHANGED vars
  <2>1. call' = call
    BY <1>2 DEF StartAgent, RecoverEnd, Edit, vars
  <2> QED BY <1>1, <2>1, ForwardFrame
<1>3. CASE Crash
  <2>1. \A o \in Ops : call'[o].pc = "idle"
    BY <1>3, IdleFacts DEF Crash
  <2> QED BY <1>1, <2>1, ForwardFrame
<1>4. ASSUME NEW o \in Ops, EndContext(o) PROVE Forward'
  <2>1. call[o] \in CallRecords /\ call \in [Ops -> CallRecords]
    BY DEF IInv, Control, TypeOK
  <2> DEFINE w == [call[o] EXCEPT !.gone = TRUE]
  <2>2. w.pc = call[o].pc /\ w.i = call[o].i /\ w.err = call[o].err
    BY <2>1, Zenon DEF CallRecords
  <2>3. call' = [call EXCEPT ![o] = w]
    BY <1>4, <2>1 DEF EndContext
  <2> HIDE DEF w
  <2>4. \A q \in Ops : call'[q].pc = call[q].pc /\ call'[q].i = call[q].i /\ call'[q].err = call[q].err
    BY <2>1, <2>2, <2>3
  <2> QED BY <1>1, <2>4, ForwardFrame
<1> QED BY <1>2, <1>3, <1>4

LEMMA PreviewForward ==
  ASSUME IInv, Forward, PreviewCreateInterface \/ PreviewSetInterfaceState
  PROVE  Forward'
<1>1. PICK o \in Ops : o = NextOp /\ ops[o].state = "none"
  BY NextOpFacts DEF PreviewCreateInterface, PreviewSetInterfaceState
<1>2. overlapped' = overlapped /\ fwd' = fwd /\ row' = row /\ call' = call
  BY DEF PreviewCreateInterface, PreviewSetInterfaceState, host, history
<1>3. ops \in [Ops -> OpRecords] /\ \A q \in Ops : PcOK(q)
  BY DEF IInv, Control, TypeOK
<1>4. \A st \in {"none", "pending", "expired"} : st \notin UnderWay /\ st # "validated"
  BY DEF UnderWay, Active
<1>5. ops'[o].state \in {"pending", "expired"}
      /\ \A q \in Ops \ {o} : ops'[q] = ops[q] \/ (ops[q].state = "pending" /\ ops'[q].state = "expired")
  <2>1. CASE PreviewCreateInterface
    <3>1. PICK n \in Names : ops' = [ops EXCEPT ![NextOp] = [NoOp EXCEPT !.state = "pending", !.name = n]]
      BY <2>1 DEF PreviewCreateInterface
    <3> DEFINE w == [NoOp EXCEPT !.state = "pending", !.name = n]
    <3>2. w.state = "pending"
      BY DEF NoOp
    <3>3. ops' = [ops EXCEPT ![o] = w]
      BY <1>1, <3>1
    <3> HIDE DEF w
    <3> QED BY <1>3, <3>2, <3>3
  <2>2. CASE PreviewSetInterfaceState
    <3>0. PICK n \in Names :
            LET id == row[n].id
                superseded == {q \in Ops : ops[q].id = id /\ ops[q].type = "remove" /\ ops[q].state = "pending"}
            IN ops' = [q \in Ops |->
                         IF q \in superseded THEN [ops[q] EXCEPT !.state = "expired"]
                         ELSE IF q = NextOp
                         THEN [NoOp EXCEPT !.state = "pending", !.type = "remove", !.name = n, !.id = id]
                         ELSE ops[q]]
      BY <2>2, Zenon DEF PreviewSetInterfaceState
    <3> PICK id : id = row[n].id
      OBVIOUS
    <3> PICK superseded : superseded = {q \in Ops : ops[q].id = id /\ ops[q].type = "remove" /\ ops[q].state = "pending"}
      OBVIOUS
    <3>1. ops' = [q \in Ops |->
                    IF q \in superseded THEN [ops[q] EXCEPT !.state = "expired"]
                    ELSE IF q = NextOp
                    THEN [NoOp EXCEPT !.state = "pending", !.type = "remove", !.name = n, !.id = id]
                    ELSE ops[q]]
      BY <3>0
    <3> DEFINE w == [NoOp EXCEPT !.state = "pending", !.type = "remove", !.name = n, !.id = id]
    <3>2. w.state = "pending"
      BY DEF NoOp
    <3>3. \A q \in Ops : [ops[q] EXCEPT !.state = "expired"].state = "expired"
      BY <1>3 DEF OpRecords
    <3>4. ops' = [q \in Ops |-> IF q \in superseded THEN [ops[q] EXCEPT !.state = "expired"]
                                ELSE IF q = o THEN w ELSE ops[q]]
      BY <1>1, <3>1
    <3>5. \A q \in superseded : q \in Ops /\ ops[q].state = "pending"
      OBVIOUS
    <3> HIDE DEF w
    <3> QED BY <1>1, <3>2, <3>3, <3>4, <3>5
  <2> QED BY <2>1, <2>2
<1>6. call[o].pc # "snapshot" /\ \A q \in Ops : ops[q].state = "pending" => call[q].pc # "snapshot"
  BY <1>1, <1>3, <1>4 DEF PcOK
<1>7. \A q \in Ops : \/ ops'[q] = ops[q] /\ call'[q] = call[q]
                     \/ /\ ops[q].state \notin UnderWay /\ ops'[q].state \notin UnderWay
                        /\ call'[q].pc # "snapshot"
  BY <1>1, <1>2, <1>4, <1>5, <1>6
<1> QED BY <1>2, <1>7, ForwardFrame

LEMMA ForwardNext == IInv /\ Forward /\ [Next]_vars => Forward'
<1> SUFFICES ASSUME IInv, Forward, [Next]_vars PROVE Forward'
  OBVIOUS
<1>1. CASE PreviewCreateInterface \/ PreviewSetInterfaceState
  BY <1>1, PreviewForward
<1>2. ASSUME NEW o \in Ops, Commit(o) \/ CommitExpired(o) \/ LockInterface(o) \/ EndContext(o) PROVE Forward'
  BY <1>2, EarlyForward, EnvironmentForward
<1>3. ASSUME NEW o \in Ops, Work(o) PROVE Forward'
  <2>1. CASE CommitPreflight(o) \/ Validate(o) \/ Reserve(o) \/ Reject(o) \/ Read(o) \/ Snapshot(o) \/ Begin(o)
    BY <2>1, EarlyForward, ReserveForward, RejectForward, ReadForward, SnapshotForward, BeginForward
  <2>2. CASE HostStep(o)
    BY <2>2, HostStepForward
  <2>3. CASE Inspect(o) \/ Complete(o) \/ CheckService(o) \/ Finalize(o) \/ ToVerifying(o) \/ FinalizeRemoval(o)
    BY <2>3, InspectForward, CompleteForward, VerifiedForward, FinalizeRemovalForward
  <2>4. CASE RollbackBegin(o) \/ RollbackEnd(o) \/ RecoverManual(o)
    BY <2>4, RollbackBeginForward, RollbackEndForward, RecoverManualForward
  <2> QED BY <1>3, <2>1, <2>2, <2>3, <2>4 DEF Work
<1>4. CASE StartAgent \/ RecoverEnd \/ Crash \/ Edit \/ UNCHANGED vars
  BY <1>4, EnvironmentForward
<1>5. CASE RecoverNext
  BY <1>5, RecoverNextForward
<1> QED BY <1>1, <1>2, <1>3, <1>4, <1>5 DEF Next

\* Between operations IPv4 forwarding is on while an interface needs it, as long
\* as no two operations on forwarding interfaces have overlapped: whatever else
\* happens on the host, in the agent or to its requests, and whatever systemctl
\* answers.
THEOREM ForwardingIsKept == Spec => []ForwardingKept
<1>1. Init => Forward
  <2> SUFFICES ASSUME Init PROVE Forward
    OBVIOUS
  <2>1. \A o \in Ops : ~HasRead(o)
    <3>1. \A o \in Ops : ops[o].state = "none" /\ call[o].pc = "idle"
      BY NoOpFacts, IdleFacts DEF Init
    <3> QED BY <3>1 DEF HasRead, UnderWay, Active
  <2>2. \A n \in Forwarding : row[n].rev = 0
    BY NamesAssumption, NoRowFacts DEF Init
  <2> QED BY <2>1, <2>2 DEF Forward
<1>2. IInv /\ Forward => ForwardingKept
  <2> SUFFICES ASSUME Forward, ~overlapped, \A n \in Forwarding : Settled(n), \E n \in Forwarding : row[n].rev = 1
               PROVE  fwd = 1
    BY DEF ForwardingKept
  <2>1. Quiet
    BY DEF Quiet, Settled
  <2> QED BY <2>1 DEF Forward
<1> QED BY <1>1, <1>2, ForwardNext, Inductive, PTL DEF Spec
=============================================================================
