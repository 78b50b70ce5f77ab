-------------------------- MODULE InterfaceControl --------------------------
(***************************************************************************)
(* Creating and removing a managed WireGuard interface:                    *)
(*   src/src/internal/agent/control/interface.go, interface_state.go, over *)
(*   repository/control_store.go, interface_removal_store.go and the       *)
(*   adapters host/host_linux.go and filesystem/config.go.                 *)
(*                                                                         *)
(* One interface is up to four files, a systemd unit and a row of the      *)
(* database; all interfaces share the kernel's IPv4 forwarding switch.     *)
(* The agent changes them one at a time and undoes them one at a time,     *)
(* while requests for other interfaces do the same, a request's context    *)
(* ends, the agent is killed, or an operator touches the files.            *)
(*                                                                         *)
(* A file is what it says: the operation whose marker it carries.  A hash  *)
(* stands for the content.  The peers of an interface, its drift and its   *)
(* later revisions are PeerControl's.  The nftables table and the device   *)
(* come and go with the unit.                                              *)
(***************************************************************************)
EXTENDS Integers, Sequences, FiniteSets

CONSTANTS
  Names,        \* interface names
  Forwarding,   \* those with a profile other than server_only
  Nft,          \* those with firewall mode managed_nft
  AutoStart,    \* those started at boot
  MaxOps,       \* bound on the operations of a behaviour
  MaxEdits,     \* bound on the files an operator replaces or deletes
  MaxFaults     \* bound on errors, ended contexts and crashes

ASSUME NamesAssumption == Names # {} /\ {Forwarding, Nft, AutoStart} \subseteq SUBSET Names
ASSUME BoundsAssumption == {MaxOps, MaxEdits, MaxFaults} \subseteq Nat

VARIABLES
  ops,          \* rows of operations, with their snapshots
  row,          \* rows of interfaces by name: id, revision, file_hash
  file,         \* the files of an interface, by kind
  active,       \* the unit: the configuration it was started with, if any
  enabled,      \* the unit is enabled
  fwd,          \* net.ipv4.ip_forward
  call,         \* the request or the recovery working on an operation
  lock,         \* holder of an interface's lock
  mode,         \* the agent: down, recovering, serving
  todo,         \* operations the running recovery has yet to look at
  failed,       \* the running recovery met an error
  faults, edits,
  touched,      \* history: names whose files an operator has touched
  misled,       \* history: names whose unit a failed query hid
  raced,        \* history: files an operator replaced while they were being written,
                \* or after their marker had been read
  overlapped    \* history: two forwarding operations were under way at once

units == <<active, enabled>>
host == <<file, active, enabled, fwd>>
agent == <<mode, todo, failed>>
history == <<touched, misled, raced, overlapped>>
vars == <<ops, row, file, active, enabled, fwd, call, lock, mode, todo, failed, faults,
          edits, touched, misled, raced, overlapped>>

Ops == 1..MaxOps
Absent == 0
Partial == -1   \* a write that was interrupted
Foreign == -2   \* a file of the operator's
Contents == Ops \cup {Absent, Partial, Foreign}
Kinds == {"nft_up", "nft_down", "sysctl", "conf"}

\* The operations CreateOperation counts as in progress, and of them those that
\* have begun to change something
Active == {"pending", "validated", "snapshotted", "executing", "verifying", "rolling_back",
           "rollback_failed"}
UnderWay == Active \ {"pending", "validated"}
States == Active \cup {"none", "committed", "rolled_back", "rejected", "expired"}

NoRow == [id |-> 0, rev |-> 0, hash |-> Absent]
NoOp == [state |-> "none", type |-> "create", name |-> CHOOSE n \in Names : TRUE, id |-> 0,
         hash |-> Absent, before |-> 0, after |-> 1, active |-> FALSE, enabled |-> FALSE]
Idle == [pc |-> "idle", i |-> 1, half |-> FALSE, err |-> FALSE, gone |-> FALSE, boot |-> FALSE]

NameOf(o) == ops[o].name
KindsOf(n) == {k \in Kinds : /\ k \in {"nft_up", "nft_down"} => n \in Nft
                             /\ k = "sysctl" => n \in Forwarding}

Fault == faults < MaxFaults /\ faults' = faults + 1
\* A call that takes the request's context works, or does not: for ever once
\* the context has ended, now and then before.
Works(o) == ~call[o].gone /\ UNCHANGED faults
Breaks(o) == IF call[o].gone THEN UNCHANGED faults ELSE Fault

Goto(o, l) == call' = [call EXCEPT ![o].pc = l] /\ UNCHANGED <<lock, failed>>
Return(o, err) ==
  /\ call' = [call EXCEPT ![o] = Idle]
  /\ lock' = [n \in Names |-> IF lock[n] = o THEN 0 ELSE lock[n]]
  /\ failed' = (failed \/ (call[o].boot /\ err))

SetState(o, s) == ops' = [ops EXCEPT ![o].state = s]

\* A write to the database: it takes effect and says so, or an error comes back,
\* with or without the effect.
TransitionOk(o, from, to) == Works(o) /\ ops[o].state = from /\ SetState(o, to)
TransitionErr(o, from, to) ==
  \/ Works(o) /\ ops[o].state # from /\ UNCHANGED ops
  \/ Breaks(o) /\ UNCHANGED ops
  \/ ~call[o].gone /\ Fault /\ ops[o].state = from /\ SetState(o, to)

-----------------------------------------------------------------------------
(* Preview *)

\* preflightCreate: no device, no configuration
PreflightCreate(n) == active[n] = 0 /\ file[n]["conf"] = Absent

\* preflightManagedRemoval: the recorded configuration, carrying the marker, and
\* a device that agrees with the unit
PreflightRemoval(n, id) ==
  /\ row[n].id = id /\ row[n].rev = 1
  /\ file[n]["conf"] = row[n].hash /\ row[n].hash = id
  /\ active[n] = id

NextOp == CHOOSE o \in Ops : ops[o].state = "none" /\ \A q \in 1..(o - 1) : ops[q].state # "none"
CanPlan == mode = "serving" /\ \E o \in Ops : ops[o].state = "none"

PreviewCreateInterface ==
  /\ CanPlan
  /\ \E n \in Names :
       /\ PreflightCreate(n)
       /\ ops' = [ops EXCEPT ![NextOp] = [NoOp EXCEPT !.state = "pending", !.name = n]]
  /\ UNCHANGED <<row, host, call, lock, agent, faults, edits, history>>

\* CreateOperation expires the administrator's pending preview and refuses an
\* interface with an operation in progress.
PreviewSetInterfaceState ==
  /\ CanPlan
  /\ \E n \in Names :
       LET id == row[n].id
           superseded == {o \in Ops : ops[o].id = id /\ ops[o].type = "remove"
                                      /\ ops[o].state = "pending"}
       IN /\ id # 0 /\ PreflightRemoval(n, id)
          /\ \A o \in Ops \ superseded : ops[o].id = id => ops[o].state \notin Active
          /\ ops' = [o \in Ops |->
                       IF o \in superseded THEN [ops[o] EXCEPT !.state = "expired"]
                       ELSE IF o = NextOp
                       THEN [NoOp EXCEPT !.state = "pending", !.type = "remove", !.name = n, !.id = id]
                       ELSE ops[o]]
  /\ UNCHANGED <<row, host, call, lock, agent, faults, edits, history>>

-----------------------------------------------------------------------------
(* Commit, up to the snapshot *)

\* CommitCreateInterface, CommitSetInterfaceState; the second needs the row to
\* know the name.
Commit(o) ==
  /\ mode = "serving" /\ call[o].pc = "idle" /\ ops[o].state = "pending"
  /\ ops[o].type = "remove" => row[NameOf(o)].id = ops[o].id
  /\ Goto(o, "lock")
  /\ UNCHANGED <<ops, row, host, mode, todo, faults, edits, history>>

\* The preview has outlived its five minutes: a removal says so in the journal.
CommitExpired(o) ==
  /\ mode = "serving" /\ call[o].pc = "idle" /\ ops[o].state = "pending"
  /\ ops[o].type = "remove" /\ SetState(o, "expired")
  /\ UNCHANGED <<row, host, call, lock, agent, faults, edits, history>>

\* lockInterface
LockInterface(o) ==
  /\ call[o].pc = "lock" /\ lock[NameOf(o)] = 0
  /\ lock' = [lock EXCEPT ![NameOf(o)] = o]
  /\ call' = [call EXCEPT ![o].pc = "preflight"]
  /\ UNCHANGED <<ops, row, host, agent, faults, edits, history>>

CommitPreflight(o) ==
  /\ call[o].pc = "preflight"
  /\ IF /\ ~call[o].gone
        /\ IF ops[o].type = "create" THEN PreflightCreate(NameOf(o))
                                     ELSE PreflightRemoval(NameOf(o), ops[o].id)
     THEN \/ Goto(o, "validate") /\ UNCHANGED faults
          \/ Return(o, TRUE) /\ Fault
     ELSE Return(o, TRUE) /\ UNCHANGED faults
  /\ UNCHANGED <<ops, row, host, mode, todo, edits, history>>

Validate(o) ==
  /\ call[o].pc = "validate"
  /\ \/ /\ TransitionOk(o, "pending", "validated")
        /\ Goto(o, IF ops[o].type = "create" THEN "reserve" ELSE "read")
     \/ TransitionErr(o, "pending", "validated") /\ Return(o, TRUE)
  /\ UNCHANGED <<row, host, mode, todo, edits, history>>

\* ReserveManagedInterface: the name must be free; the row's id is the operation's.
Reserve(o) ==
  /\ call[o].pc = "reserve"
  /\ LET free == row[NameOf(o)] = NoRow
         reserved == /\ row' = [row EXCEPT ![NameOf(o)].id = o]
                     /\ ops' = [ops EXCEPT ![o].id = o]
     IN \/ free /\ Works(o) /\ reserved /\ Goto(o, "read")
        \/ /\ (~free /\ Works(o)) \/ Breaks(o)
           /\ UNCHANGED <<row, ops>> /\ Goto(o, "reject")
        \/ free /\ ~call[o].gone /\ Fault /\ reserved /\ Goto(o, "reject")
  /\ UNCHANGED <<host, mode, todo, edits, history>>

\* RejectManagedInterfaceReservation, rejectValidated: one transaction
Rejected(o) ==
  IF ops[o].type = "create"
  THEN /\ ops' = [ops EXCEPT ![o].state = "rejected", ![o].id = 0]
       /\ row' = IF ops[o].id = 0 THEN row ELSE [row EXCEPT ![NameOf(o)] = NoRow]
  ELSE SetState(o, "rejected") /\ UNCHANGED row

\* The result of the rejection is ignored.
Reject(o) ==
  /\ call[o].pc = "reject"
  /\ \/ Works(o) /\ Rejected(o)
     \/ Breaks(o) /\ UNCHANGED <<ops, row>>
  /\ Return(o, TRUE)
  /\ UNCHANGED <<host, mode, todo, edits, history>>

\* The other managed interfaces that need forwarding, reserved ones included
OthersForward(n) == \E m \in Forwarding \ {n} : row[m].id # 0

\* Mistake: a removal does not ask whether others still need forwarding.
RestoredForwardingAlone(o) == ops[ops[o].id].before

\* What a removal leaves behind in ip_forward: what the interface's creation
\* found there (originalIPv4Forwarding), unless others need it
RestoredForwarding(o) ==
  IF OthersForward(NameOf(o)) THEN fwd ELSE ops[ops[o].id].before

\* The files a removal must find with the interface's marker
FilesOwned(n, id) == \A k \in KindsOf(n) : file[n][k] = id

\* ServiceActive and ServiceEnabled: every error reads as no.
QueryBoth(o, isActive, isEnabled) ==
  LET n == NameOf(o)
      told == isActive = (active[n] # 0) /\ isEnabled = enabled[n]
  IN \/ told /\ UNCHANGED <<faults, misled>>
     \/ /\ ~told /\ Fault /\ misled' = misled \cup {n}
        /\ (isActive => active[n] # 0) /\ (isEnabled => enabled[n])

NoteOverlap(o) ==
  overlapped' = (overlapped \/ /\ NameOf(o) \in Forwarding
                               /\ \E q \in Ops \ {o} : /\ NameOf(q) \in Forwarding
                                                       /\ ops[q].state \in Active \ {"pending"})

\* ReadSysctlIPv4Forwarding and, for a removal, buildInterfaceRemovalSnapshot:
\* the snapshot in memory.  Errors on the way lead to the rejection.
Read(o) ==
  /\ call[o].pc = "read"
  /\ \/ /\ ops[o].type = "create"
        /\ ops' = [ops EXCEPT ![o].before = fwd, ![o].after = 1]
        /\ NoteOverlap(o) /\ Goto(o, "snapshot") /\ UNCHANGED <<faults, misled>>
     \/ /\ ops[o].type = "remove" /\ ~call[o].gone /\ FilesOwned(NameOf(o), ops[o].id)
        /\ \E isActive, isEnabled \in BOOLEAN :
             /\ QueryBoth(o, isActive, isEnabled)
             /\ ops' = [ops EXCEPT ![o].before = fwd, ![o].after = RestoredForwarding(o),
                                   ![o].active = isActive, ![o].enabled = isEnabled]
        /\ NoteOverlap(o) /\ Goto(o, "snapshot")
     \/ /\ IF ops[o].type = "remove" /\ (call[o].gone \/ ~FilesOwned(NameOf(o), ops[o].id))
           THEN UNCHANGED faults ELSE Fault
        /\ UNCHANGED <<ops, misled, overlapped>> /\ Goto(o, "reject")
  /\ UNCHANGED <<row, host, mode, todo, edits, touched, raced>>

\* SnapshotOperation.  When it took effect although it failed, the rejection is
\* refused and the operation stays snapshotted.
Snapshot(o) ==
  /\ call[o].pc = "snapshot"
  /\ \/ TransitionOk(o, "validated", "snapshotted") /\ Goto(o, "begin")
     \/ Breaks(o) /\ UNCHANGED ops /\ Goto(o, "reject")
     \/ ~call[o].gone /\ Fault /\ SetState(o, "snapshotted") /\ Return(o, TRUE)
  /\ UNCHANGED <<row, host, mode, todo, edits, history>>

\* Only a removal rolls back when the operation cannot begin.
Begin(o) ==
  /\ call[o].pc = "begin"
  /\ \/ TransitionOk(o, "snapshotted", "executing") /\ Goto(o, "do")
     \/ /\ TransitionErr(o, "snapshotted", "executing")
        /\ IF ops[o].type = "create" THEN Return(o, TRUE) ELSE Goto(o, "rb_begin")
  /\ UNCHANGED <<row, host, mode, todo, edits, history>>

-----------------------------------------------------------------------------
(* The host, one step at a time *)

\* applyInterfaceHost, rollbackCreateInterface, removeManagedInterfaceHost (files
\* ORDER BY resource_kind) and rollbackInterfaceRemoval
CreateSteps == <<"nft_up", "nft_down", "check", "sysctl", "forward", "conf", "enable", "start">>
UndoCreateSteps == <<"stop", "disable", "nft_up", "nft_down", "forward", "sysctl", "conf">>
RemoveSteps == <<"stop", "disable", "nft_down", "nft_up", "sysctl", "conf", "forward", "inspect">>
UndoRemoveSteps == <<"nft_down", "nft_up", "sysctl", "conf", "forward", "enable", "start">>

Uses(o, s) ==
  LET n == NameOf(o)
      creates == ops[o].type = "create"
  IN CASE s \in {"nft_up", "nft_down", "check"} -> n \in Nft
       [] s \in {"sysctl", "forward"} -> n \in Forwarding
       [] s \in {"enable", "disable"} -> IF creates THEN n \in AutoStart ELSE ops[o].enabled
       [] s \in {"start", "stop"} -> creates \/ ops[o].active
       [] OTHER -> TRUE

\* What the work on an operation goes through; a step it does not use is passed over.
Script(o) ==
  CASE ops[o].type = "create" /\ call[o].pc = "do" -> CreateSteps
    [] ops[o].type = "create" /\ call[o].pc # "do" -> UndoCreateSteps
    [] ops[o].type # "create" /\ call[o].pc = "do" -> RemoveSteps
    [] OTHER -> UndoRemoveSteps
Used(o, j) == Uses(o, Script(o)[j])
More(o, i) == \E j \in i..Len(Script(o)) : Used(o, j)
Here(o) == CHOOSE j \in call[o].i..Len(Script(o)) :
             Used(o, j) /\ \A l \in call[o].i..(j - 1) : ~Used(o, l)

At(o, s) == call[o].pc \in {"do", "undo"} /\ Script(o)[Here(o)] = s
AtFile(o, k) == k \in Kinds /\ At(o, k)
\* A file is put there by a creation and by the rollback of a removal.
Writes(o) == (ops[o].type = "create") = (call[o].pc = "do")

Finished(o) ==
  IF call[o].pc = "undo" THEN "rb_end" ELSE IF ops[o].type = "create" THEN "inspect" ELSE "verify"
Advanced(o) ==
  IF More(o, Here(o) + 1) THEN [call[o] EXCEPT !.i = Here(o) + 1, !.half = FALSE]
  ELSE [call[o] EXCEPT !.pc = Finished(o), !.i = 1, !.half = FALSE]

\* A step has succeeded, has failed (the first error ends the work; a rollback
\* collects errors and goes on), or is half done.
Done(o) == call' = [call EXCEPT ![o] = Advanced(o)]
Failed(o) ==
  call' = [call EXCEPT ![o] = IF @.pc = "do" THEN [@ EXCEPT !.pc = "rb_begin", !.i = 1, !.half = FALSE]
                              ELSE [Advanced(o) EXCEPT !.err = TRUE]]
Half(o) == call' = [call EXCEPT ![o].half = TRUE]

Put(o, k, v) == file' = [file EXCEPT ![NameOf(o)][k] = v]
\* What only a step on the files, or only another step, leaves alone
FileStep == UNCHANGED <<ops, row, active, enabled, fwd, lock, agent, edits, history>>
OtherStep == UNCHANGED <<ops, row, file, lock, agent, edits, touched, raced, overlapped>>

\* WriteOwnedFile creates the file exclusively and then fills what it has created;
\* on an error it removes the name again, whatever stands there by then.  The rollback
\* of a removal looks first.
WriteOwnedFile(o, k) ==
  /\ AtFile(o, k) /\ Writes(o) /\ (call[o].pc = "do" => k # "conf")
  /\ LET now == file[NameOf(o)][k]
         restored == call[o].pc = "undo" /\ now = ops[o].id
     IN \/ ~call[o].half /\ now = Absent /\ Put(o, k, Partial) /\ Half(o) /\ UNCHANGED faults
        \/ ~call[o].half /\ restored /\ UNCHANGED <<file, faults>> /\ Done(o)
        \/ ~call[o].half /\ now # Absent /\ ~restored /\ UNCHANGED <<file, faults>> /\ Failed(o)
        \/ /\ call[o].half /\ Put(o, k, IF now = Partial THEN ops[o].id ELSE now)
           /\ Done(o) /\ UNCHANGED faults
        \/ ~call[o].half /\ Fault /\ UNCHANGED file /\ Failed(o)
        \/ call[o].half /\ Fault /\ Put(o, k, Absent) /\ Failed(o)
  /\ FileStep

\* CreateConfig renames a complete file into place, never over another.
CreateConfig(o) ==
  /\ AtFile(o, "conf") /\ Writes(o) /\ call[o].pc = "do"
  /\ LET free == file[NameOf(o)]["conf"] = Absent
     IN \/ free /\ Put(o, "conf", o) /\ Done(o) /\ UNCHANGED faults
        \/ ~free /\ UNCHANGED <<file, faults>> /\ Failed(o)
        \/ Fault /\ Failed(o) /\ (UNCHANGED file \/ (free /\ Put(o, "conf", o)))
  /\ FileStep

\* Mistake: whatever the file says, it is removed.
MayRemoveAny(o, k) == TRUE

\* The marker the file must carry.  An interrupted write may have got that far.
MayRemove(o, k) == file[NameOf(o)][k] \in {ops[o].id, Partial}

\* RemoveOwnedFile reads the file and then removes its name.
RemoveOwnedFile(o, k) ==
  /\ AtFile(o, k) /\ ~Writes(o)
  /\ LET now == file[NameOf(o)][k]
     IN \/ ~call[o].half /\ now = Absent /\ UNCHANGED <<file, faults>> /\ Done(o)
        \/ /\ ~call[o].half /\ now # Absent /\ MayRemove(o, k)
           /\ UNCHANGED <<file, faults>> /\ Half(o)
        \/ /\ ~call[o].half /\ now # Absent /\ (~MayRemove(o, k) \/ now = Partial)
           /\ UNCHANGED <<file, faults>> /\ Failed(o)
        \/ call[o].half /\ now # Absent /\ Put(o, k, Absent) /\ Done(o) /\ UNCHANGED faults
        \/ call[o].half /\ now = Absent /\ UNCHANGED <<file, faults>> /\ Failed(o)
        \/ ~call[o].half /\ Fault /\ UNCHANGED file /\ Failed(o)
        \/ call[o].half /\ Fault /\ file' \in {file, [file EXCEPT ![NameOf(o)][k] = Absent]} /\ Failed(o)
  /\ FileStep

ValidateNFT(o) ==
  /\ At(o, "check")
  /\ \/ Works(o) /\ Done(o)
     \/ Breaks(o) /\ Failed(o)
  /\ OtherStep /\ UNCHANGED <<units, fwd, misled>>

\* SetSysctlIPv4Forwarding: for the operation, or back to what it found
SetForwarding(o) ==
  /\ At(o, "forward")
  /\ \/ fwd' = (IF call[o].pc = "do" THEN ops[o].after ELSE ops[o].before) /\ Done(o) /\ UNCHANGED faults
     \/ Fault /\ UNCHANGED fwd /\ Failed(o)
  /\ OtherStep /\ UNCHANGED <<units, misled>>

\* ServiceActive, ServiceEnabled: every error reads as no.
Query(o, fact, answer) ==
  \/ ~call[o].gone /\ answer = fact /\ UNCHANGED <<faults, misled>>
  \/ call[o].gone /\ ~answer /\ UNCHANGED <<faults, misled>>
  \/ ~call[o].gone /\ fact /\ ~answer /\ Fault /\ misled' = misled \cup {NameOf(o)}

Start(o) == file[NameOf(o)]["conf"] # Absent /\ active' = [active EXCEPT ![NameOf(o)] = file[NameOf(o)]["conf"]]
                                             /\ UNCHANGED enabled
Stop(o) == active' = [active EXCEPT ![NameOf(o)] = 0] /\ UNCHANGED enabled
Enable(o, to) == enabled' = [enabled EXCEPT ![NameOf(o)] = to] /\ UNCHANGED active

Systemctl(o, s) ==
  \/ s = "start" /\ Start(o)
  \/ s = "stop" /\ Stop(o)
  \/ s \in {"enable", "disable"} /\ Enable(o, s = "enable")

\* A rollback asks first whether there is anything to do, the work does not; what it
\* was told falsely it does again, or it fails.  systemctl may have done its work
\* although it reports an error.
Service(o, s) ==
  /\ s \in {"start", "stop", "enable", "disable"} /\ At(o, s)
  /\ LET fact == IF s \in {"start", "stop"} THEN active[NameOf(o)] # 0 ELSE enabled[NameOf(o)]
         needed(answer) == answer = (s \in {"stop", "disable"})
     IN \/ /\ call[o].pc = "undo"
           /\ \E answer \in BOOLEAN : ~needed(answer) /\ Query(o, fact, answer)
           /\ UNCHANGED units /\ Done(o)
        \/ /\ call[o].pc = "do" \/ needed(fact)
           /\ \/ Works(o) /\ Systemctl(o, s) /\ Done(o)
              \/ /\ s = "start" /\ file[NameOf(o)]["conf"] = Absent
                 /\ UNCHANGED <<units, faults>> /\ Failed(o)
              \/ Breaks(o) /\ UNCHANGED units /\ Failed(o)
              \/ ~call[o].gone /\ Fault /\ Systemctl(o, s) /\ Failed(o)
           /\ UNCHANGED misled
        \/ /\ call[o].pc = "undo" /\ needed(FALSE) /\ (call[o].gone \/ fact)
           /\ Query(o, fact, FALSE) /\ UNCHANGED units
           /\ Failed(o) \/ (~call[o].gone /\ Done(o))
  /\ OtherStep /\ UNCHANGED fwd

\* removeManagedInterfaceHost ends with a look at the device and the files.
InspectRemoved(o) ==
  /\ At(o, "inspect")
  /\ LET gone == active[NameOf(o)] = 0 /\ \A k \in KindsOf(NameOf(o)) : file[NameOf(o)][k] = Absent
     IN \/ gone /\ UNCHANGED faults /\ Done(o)
        \/ ~gone /\ UNCHANGED faults /\ Failed(o)
        \/ Fault /\ Failed(o)
  /\ OtherStep /\ UNCHANGED <<units, fwd, misled>>

HostStep(o) ==
  \/ \E k \in Kinds : WriteOwnedFile(o, k) \/ RemoveOwnedFile(o, k)
  \/ CreateConfig(o) \/ ValidateNFT(o) \/ SetForwarding(o) \/ InspectRemoved(o)
  \/ \E s \in {"start", "stop", "enable", "disable"} : Service(o, s)

-----------------------------------------------------------------------------
(* The end of a creation and of a removal *)

\* InspectDevice shows the key of the configuration; FileSHA256 takes what is in
\* the file now.
Inspect(o) ==
  /\ call[o].pc = "inspect"
  /\ LET shown == active[NameOf(o)] = o /\ file[NameOf(o)]["conf"] # Absent
     IN \/ /\ shown /\ UNCHANGED faults /\ Goto(o, "complete")
           /\ ops' = [ops EXCEPT ![o].hash = file[NameOf(o)]["conf"]]
        \/ (IF shown THEN Fault ELSE UNCHANGED faults) /\ UNCHANGED ops /\ Goto(o, "rb_begin")
  /\ UNCHANGED <<row, host, mode, todo, edits, history>>

\* CompleteManagedInterface
Complete(o) ==
  /\ call[o].pc = "complete"
  /\ LET completed == /\ row' = [row EXCEPT ![NameOf(o)] = [id |-> o, rev |-> 1, hash |-> ops[o].hash]]
                      /\ SetState(o, "verifying")
     IN \/ Works(o) /\ ops[o].state = "executing" /\ completed /\ Goto(o, "check")
        \/ Breaks(o) /\ UNCHANGED <<ops, row>> /\ Goto(o, "rb_begin")
        \/ ~call[o].gone /\ Fault /\ completed /\ Goto(o, "rb_begin")
  /\ UNCHANGED <<host, mode, todo, edits, history>>

\* The unit must still be active.
CheckService(o) ==
  /\ call[o].pc = "check"
  /\ \E answer \in BOOLEAN :
       /\ Query(o, active[NameOf(o)] # 0, answer)
       /\ Goto(o, IF answer THEN "finalize" ELSE "rb_begin")
  /\ UNCHANGED <<ops, row, host, mode, todo, edits, touched, raced, overlapped>>

\* FinalizeControlOperation; when it fails the operation stays verifying.
Finalize(o) ==
  /\ call[o].pc = "finalize"
  /\ \/ TransitionOk(o, "verifying", "committed") /\ Return(o, FALSE)
     \/ TransitionErr(o, "verifying", "committed") /\ Return(o, TRUE)
  /\ UNCHANGED <<row, host, mode, todo, edits, history>>

ToVerifying(o) ==
  /\ call[o].pc = "verify"
  /\ \/ TransitionOk(o, "executing", "verifying") /\ Goto(o, "delete")
     \/ TransitionErr(o, "executing", "verifying") /\ Goto(o, "rb_begin")
  /\ UNCHANGED <<row, host, mode, todo, edits, history>>

\* FinalizeManagedInterfaceRemoval: the row goes with the commit.
FinalizeRemoval(o) ==
  /\ call[o].pc = "delete"
  /\ LET removed == row' = [row EXCEPT ![NameOf(o)] = NoRow] /\ SetState(o, "committed")
     IN \/ Works(o) /\ ops[o].state = "verifying" /\ removed /\ Return(o, FALSE)
        \/ Breaks(o) /\ UNCHANGED <<ops, row>> /\ Goto(o, "rb_begin")
        \/ ~call[o].gone /\ Fault /\ removed /\ Goto(o, "rb_begin")
  /\ UNCHANGED <<host, mode, todo, edits, history>>

-----------------------------------------------------------------------------
(* Rollback *)

\* rollbackCreateInterface takes an operation it cannot read for one that needs
\* no rollback; rollbackInterfaceRemoval reports it.
RollbackBegin(o) ==
  /\ call[o].pc = "rb_begin"
  /\ LET from == ops[o].state
         started == from \in {"snapshotted", "executing", "verifying"}
     IN \/ started /\ TransitionOk(o, from, "rolling_back") /\ Goto(o, "undo")
        \/ started /\ TransitionErr(o, from, "rolling_back") /\ Return(o, TRUE)
        \/ from = "rolling_back" /\ Works(o) /\ UNCHANGED ops /\ Goto(o, "undo")
        \/ from \notin {"rolling_back"} /\ ~started /\ Works(o) /\ UNCHANGED ops
           /\ Return(o, ops[o].type = "remove" /\ from \notin {"committed", "rolled_back"})
        \/ Breaks(o) /\ UNCHANGED ops /\ Return(o, ops[o].type = "remove")
  /\ UNCHANGED <<row, host, mode, todo, edits, history>>

\* Mistake: the metadata is rolled back whatever went wrong on the host.
RollbackOutcomeIgnored(o) == "rolled_back"

RollbackOutcome(o) == IF call[o].err THEN "rollback_failed" ELSE "rolled_back"

\* Mistake: the rollback's last write uses a context of its own.
RollbackEndDetached(o) ==
  /\ call[o].pc = "rb_end"
  /\ SetState(o, RollbackOutcome(o)) /\ UNCHANGED faults
  /\ row' = IF ops[o].type = "create" /\ ~call[o].err THEN [row EXCEPT ![NameOf(o)] = NoRow] ELSE row
  /\ Return(o, call[o].err)
  /\ UNCHANGED <<host, mode, todo, edits, history>>

\* Mistake: a rollback that failed is left for the next start.
RollbackEndRetried(o) ==
  /\ call[o].pc = "rb_end" /\ UNCHANGED faults
  /\ IF call[o].err THEN UNCHANGED <<ops, row>>
     ELSE /\ SetState(o, "rolled_back")
          /\ row' = IF ops[o].type = "create" THEN [row EXCEPT ![NameOf(o)] = NoRow] ELSE row
  /\ Return(o, call[o].err)
  /\ UNCHANGED <<host, mode, todo, edits, history>>

\* RollbackManagedInterface deletes the row with the last transition;
\* FinishControlRollback leaves it.  The step to rollback_failed ignores its result.
RollbackEnd(o) ==
  /\ call[o].pc = "rb_end"
  /\ LET to == RollbackOutcome(o)
         end == /\ SetState(o, to)
                /\ row' = IF ops[o].type = "create" /\ to = "rolled_back"
                          THEN [row EXCEPT ![NameOf(o)] = NoRow] ELSE row
     IN \/ Works(o) /\ ops[o].state = "rolling_back" /\ end /\ Return(o, call[o].err)
        \/ Breaks(o) /\ UNCHANGED <<ops, row>> /\ Return(o, TRUE)
        \/ ~call[o].gone /\ Fault /\ end /\ Return(o, TRUE)
  /\ UNCHANGED <<host, mode, todo, edits, history>>

-----------------------------------------------------------------------------
(* Start and recovery *)

StartAgent ==
  /\ mode = "down" /\ mode' = "recovering" /\ failed' = FALSE
  /\ todo' = {o \in Ops : ops[o].state \in Active \ {"rollback_failed"}}
  /\ UNCHANGED <<ops, row, host, call, lock, faults, edits, history>>

\* recoverVerifying, for a creation: the file and the row show what was proposed.
Agrees(o) == file[NameOf(o)]["conf"] = ops[o].hash /\ row[NameOf(o)].hash = ops[o].hash
Readable(o) == file[NameOf(o)]["conf"] # Absent

\* The operations recoverSnapshotted and recoverInterfaceRemoval roll back
RecoverRollsBack(o) ==
  \/ ops[o].state \in {"snapshotted", "executing", "rolling_back"}
  \/ ops[o].state = "verifying" /\ ops[o].type = "remove"

\* Recover, for the oldest operation left.  An error is kept for the end.
RecoverNext ==
  /\ mode = "recovering" /\ \A o \in Ops : call[o].pc = "idle"
  /\ \E o \in todo :
       /\ \A q \in todo : o <= q
       /\ todo' = todo \ {o}
       /\ LET boot(l) == [call EXCEPT ![o] = [Idle EXCEPT !.pc = l, !.boot = TRUE]]
              verifying == ops[o].state = "verifying" /\ ~RecoverRollsBack(o)
          IN \/ /\ ops[o].state = "pending" /\ SetState(o, "expired")
                /\ UNCHANGED <<row, call, lock, failed, faults>>
             \/ /\ ops[o].state = "validated" /\ Rejected(o)
                /\ UNCHANGED <<call, lock, failed, faults>>
             \/ /\ verifying /\ Readable(o) /\ Agrees(o) /\ SetState(o, "committed")
                /\ UNCHANGED <<row, call, lock, failed, faults>>
             \/ /\ verifying /\ Readable(o) /\ ~Agrees(o) /\ SetState(o, "rolling_back")
                /\ call' = boot("manual") /\ UNCHANGED <<row, lock, failed, faults>>
             \/ /\ verifying /\ ~Readable(o) /\ failed' = TRUE
                /\ UNCHANGED <<ops, row, call, lock, faults>>
             \/ /\ RecoverRollsBack(o) /\ lock' = [lock EXCEPT ![NameOf(o)] = o]
                /\ call' = boot("rb_begin") /\ UNCHANGED <<ops, row, failed, faults>>
             \/ Fault /\ failed' = TRUE /\ UNCHANGED <<ops, row, call, lock>>
  /\ UNCHANGED <<host, mode, edits, history>>

\* recoverVerifying without agreement: the second transition, and the error
RecoverManual(o) ==
  /\ call[o].pc = "manual"
  /\ \/ TransitionOk(o, "rolling_back", "rollback_failed")
     \/ TransitionErr(o, "rolling_back", "rollback_failed")
  /\ Return(o, TRUE)
  /\ UNCHANGED <<row, host, mode, todo, edits, history>>

\* The agent serves, or exits when an operation could not be recovered.
RecoverEnd ==
  /\ mode = "recovering" /\ todo = {} /\ \A o \in Ops : call[o].pc = "idle"
  /\ mode' = IF failed THEN "down" ELSE "serving"
  /\ UNCHANGED <<ops, row, host, call, lock, todo, failed, faults, edits, history>>

-----------------------------------------------------------------------------
(* The environment *)

Crash ==
  /\ mode # "down" /\ Fault
  /\ mode' = "down" /\ todo' = {} /\ failed' = FALSE
  /\ call' = [o \in Ops |-> Idle] /\ lock' = [n \in Names |-> 0]
  /\ UNCHANGED <<ops, row, host, edits, history>>

EndContext(o) ==
  /\ call[o].pc # "idle" /\ ~call[o].gone /\ ~call[o].boot /\ Fault
  /\ call' = [call EXCEPT ![o].gone = TRUE]
  /\ UNCHANGED <<ops, row, host, lock, agent, edits, history>>

\* An operator renames a file of another make into place, or deletes one, also one
\* that is being written.
Edit ==
  /\ edits < MaxEdits /\ edits' = edits + 1
  /\ \E n \in Names, k \in Kinds :
       /\ k \in KindsOf(n)
       /\ \E v \in {Absent, Foreign} \ {file[n][k]} : file' = [file EXCEPT ![n][k] = v]
       /\ touched' = touched \cup {n}
       /\ raced' = IF \E o \in Ops : AtFile(o, k) /\ NameOf(o) = n /\ call[o].half
                   THEN raced \cup {<<n, k>>} ELSE raced
  /\ UNCHANGED <<ops, row, units, fwd, call, lock, agent, faults, misled, overlapped>>

-----------------------------------------------------------------------------
\* The steps a request or the recovery takes on its own once it has the lock
Work(o) ==
  \/ CommitPreflight(o) \/ Validate(o) \/ Reserve(o) \/ Reject(o) \/ Read(o) \/ Snapshot(o)
  \/ Begin(o) \/ HostStep(o) \/ Inspect(o) \/ Complete(o) \/ CheckService(o) \/ Finalize(o)
  \/ ToVerifying(o) \/ FinalizeRemoval(o) \/ RollbackBegin(o) \/ RollbackEnd(o)
  \/ RecoverManual(o)

\* A host without managed interfaces, forwarding or not
Init ==
  /\ ops = [o \in Ops |-> NoOp] /\ row = [n \in Names |-> NoRow]
  /\ file = [n \in Names |-> [k \in Kinds |-> Absent]]
  /\ active = [n \in Names |-> 0] /\ enabled = [n \in Names |-> FALSE] /\ fwd \in {0, 1}
  /\ call = [o \in Ops |-> Idle] /\ lock = [n \in Names |-> 0]
  /\ mode = "serving" /\ todo = {} /\ failed = FALSE
  /\ faults = 0 /\ edits = 0 /\ touched = {} /\ misled = {} /\ raced = {}
  /\ overlapped = FALSE

Next ==
  \/ PreviewCreateInterface \/ PreviewSetInterfaceState
  \/ \E o \in Ops : Commit(o) \/ CommitExpired(o) \/ LockInterface(o) \/ Work(o) \/ EndContext(o)
  \/ StartAgent \/ RecoverNext \/ RecoverEnd \/ Crash \/ Edit

Spec == Init /\ [][Next]_vars

\* A started request and the start-up run on; systemd restarts the agent.
FairSpec ==
  /\ Spec
  /\ \A o \in Ops : WF_vars(Work(o)) /\ SF_vars(LockInterface(o))
  /\ WF_vars(StartAgent) /\ WF_vars(RecoverNext) /\ WF_vars(RecoverEnd)

-----------------------------------------------------------------------------
(* Properties *)

OpRecords ==
  [state : States, type : {"create", "remove"}, name : Names, id : Ops \cup {0}, hash : Contents,
   before : {0, 1}, after : {0, 1}, active : BOOLEAN, enabled : BOOLEAN]
PCs == {"idle", "lock", "preflight", "validate", "reserve", "reject", "read", "snapshot", "begin",
        "do", "inspect", "complete", "check", "finalize", "verify", "delete", "rb_begin", "undo",
        "rb_end", "manual"}

RowRecords == [id : Ops \cup {0}, rev : {0, 1}, hash : Contents]
CallRecords ==
  [pc : PCs, i : 1..8, half : BOOLEAN, err : BOOLEAN, gone : BOOLEAN, boot : BOOLEAN]

\* The types of the rows, of the host and of every request.
TypeOK ==
  /\ ops \in [Ops -> OpRecords] /\ row \in [Names -> RowRecords]
  /\ file \in [Names -> [Kinds -> Contents]]
  /\ active \in [Names -> Contents] /\ enabled \in [Names -> BOOLEAN] /\ fwd \in {0, 1}
  /\ call \in [Ops -> CallRecords] /\ lock \in [Names -> Ops \cup {0}]
  /\ mode \in {"down", "recovering", "serving"} /\ todo \subseteq Ops /\ failed \in BOOLEAN
  /\ faults \in 0..MaxFaults /\ edits \in 0..MaxEdits
  /\ touched \subseteq Names /\ misled \subseteq Names /\ raced \subseteq Names \X Kinds
  /\ overlapped \in BOOLEAN

\* A name the database does not know has nothing of WireGate's on the host: no
\* file, whole or partial, no running and no enabled unit.  "Host resources must
\* already have been compensated and verified by the control service before this
\* metadata rollback is called" (RollbackManagedInterface).  A query that failed
\* reads as no, so a unit it has hidden may stay; the files never do.
NothingLeft ==
  \A n \in Names \ touched :
    row[n].id = 0 => /\ \A k \in Kinds : file[n][k] = Absent
                     /\ n \in misled \/ (active[n] = 0 /\ ~enabled[n])

\* Nothing on the name has started that has not ended.
Settled(n) == \A o \in Ops : NameOf(o) = n => ops[o].state \notin UnderWay

\* Between operations an interface the database shows as created has all its
\* files, its own configuration running and its unit enabled as asked: also after
\* a removal that was rolled back half-way, by the request or by the recovery.
LiveIsComplete ==
  \A n \in Names \ touched :
    row[n].rev = 1 /\ Settled(n) =>
      /\ \A k \in KindsOf(n) : file[n][k] = row[n].id
      /\ active[n] = row[n].id /\ enabled[n] = (n \in AutoStart)

\* Between operations IPv4 forwarding is on while an interface needs it, unless
\* two operations on forwarding interfaces overlapped.
ForwardingKept ==
  /\ ~overlapped /\ \A n \in Forwarding : Settled(n)
  /\ \E n \in Forwarding : row[n].rev = 1
  => fwd = 1

\* The agent's own steps
AgentSteps == edits' = edits

\* The agent never removes or replaces a file of the operator's ("deletes only
\* host files marked as WireGate-owned", README.md).  Two windows are open, and
\* only they: a file put there between the look at the marker and the removal of
\* the name (RemoveOwnedFile), and one put over a file that WriteOwnedFile has
\* created and not yet filled, whose cleanup removes the name without a look.
ForeignKeptUnlessRaced ==
  [][AgentSteps =>
       \A n \in Names, k \in Kinds :
         file[n][k] = Foreign /\ <<n, k>> \notin raced => file'[n][k] = Foreign]_vars

\* An agent that is down serves again, whatever state the operations are in; only
\* a configuration somebody deleted stops it, which recoverVerifying cannot read.
AgentServes == mode = "down" ~> mode = "serving" \/ touched # {}
=============================================================================
