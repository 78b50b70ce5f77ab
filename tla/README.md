# Verification of WireGate

TLA+ modules of WireGate, a control plane for WireGuard gateways, with the TLC runs
that check them on small instances and TLAPS proofs for all instances. Paths below
are relative to the repository's root; the Go code is under `src/`.

## The system

A privileged **agent** (`src/internal/agent`, `src/cmd/wiregate-agent`) owns an SQLite
database and the host's WireGuard state; an unprivileged **web** process
(`src/internal/web`) authenticates people and calls the agent over gRPC on a Unix
socket. Everything that changes the host is an *operation*: a preview stores the plan
as a `pending` row, a commit executes it against the row. The row's state is the
journal from which the agent recovers when it starts again.

| Component | State | Operations | Interacts with | What makes it correct |
|---|---|---|---|---|
| Operation engine (`operation/engine.go`) | operation and step states | Execute, Recover, rollback | journal store, effects | the final state tells the truth about the effects; write-ahead; at most once; undo in reverse |
| Peer control (`control/peer*.go`) | operations, peers, the file, the device | preview, commit, execute, roll back; create, update, enable, disable, revoke | journal, file store, device, interface lock | one operation at a time, each accounted for once, file, device and database agree when nothing is in progress |
| Operation journal (`repository/*_store.go`) | operations, revisions, audit events, snapshots | CreateOperation, TransitionOperation, Complete…, Finalize… | every service | compare-and-swap transitions, completion in one transaction |
| Start-up recovery (`control/interface.go`, `main.go`) | – | Recover, recoverVerifying, recoverSnapshotted | journal, file, device | finishes or undoes what a crash left, never undoes what was completed |
| Inventory (`inventory`, `repository.go`) | observed file hash, device, drift | Refresh every few seconds | file and device sources, database | observations do not overwrite what operations have established |
| File exchange (`adapters/filesystem`) | the file, a stage file | ExchangeConfig, ReadConfig | every operation, editors | compare-and-swap on a file that anyone may edit; never half a file |
| One-time artifacts (`artifact`, `secret_store.go`) | artifact rows, ciphertext | create, consume, finalize, clean up | peer creation, RPC streams | a secret is handed out at most once, and erased |
| Interface control (`control/interface*.go`) | reservations, host files, unit, ip_forward | create, remove, recover | as peer control, and the host | a failed creation leaves nothing behind; a failed removal leaves everything |
| Address pools (`ipam`, `peer_store.go`, `peer_update_store.go`) | allocation rows, AllowedIPs | allocate, validate, quarantine | peer control, adoption | the rows are what the peers' AllowedIPs ask for; what a preview shows can be kept |
| Adoption (`adoption`) | imported rows, ledger | preview, commit, recover | inventory, secrets | importing changes no file, and undoing it removes exactly what it added |
| Configuration documents (`configdoc`) | the lines of a wg-quick file | parse, patch, add, remove and restore a peer | every peer operation | the file says what was asked for, and every other line is kept |
| Web authentication (`web/auth`, `web/repository`) | the user, sessions, lock-out | bootstrap, login, reauthenticate, change and reset the password, log out | HTTP API | a new password shuts everybody else out, the lock holds, sensitive calls are confirmed |

What is hard here: requests of several actors interleave with each other, with the
periodic refresh and with editors of the same file; every step of an operation may
fail or lose its acknowledgement; the context of a request may end anywhere; and the
agent may die between any two steps, recovery included. `PROJECT.json` lists each of
these hazards at its line, with the properties that cover it.

## Modules

| Module | Models |
|---|---|
| `OperationEngine` | `operation/engine.go` |
| `PeerControl` | peer operations from preview to audit, rollback, refresh and start-up recovery on one interface |
| `ConfigExchange` | `ExchangeConfig`, system call by system call |
| `Transaction` | what an operation of the engine promises: all or nothing, decided once; `OperationEngine` implements it |
| `PeerLedger` | what the database says of the peers: one change after another, each to the revision it was asked for; `PeerControl` implements it |
| `CompareAndSwap` | what a caller of `ExchangeConfig` may rely on; `ConfigExchange` implements it |
| `OneTimeArtifact` | one-time artifacts |
| `InterfaceControl` | creating and removing managed interfaces, with rollback and recovery |
| `Adoption` | adopting an observed interface: import, rollback and recovery, against the refresh |
| `ConfigDocument` | `configdoc/document.go`: the safety gate and the four edits of a file |
| `ConfigMeaning` | what a caller expects of it: a table of peers and settings, which `ConfigDocument` implements |
| `AddressPool` | allocation, the address checks of previews and commits, and the rows the final transactions write |
| `WebAuth` | bootstrap, sign-in, lock-out, sessions, confirmation and password changes, request against request |
| `OperationEngineProofs`, `PeerControlProofs`, `OneTimeArtifactProofs`, `InterfaceControlProofs`, `AdoptionProofs`, `AddressPoolProofs`, `WebAuthProofs` | the inductive invariants of these modules and the theorems |
| `ConfigFileProofs` | the same for `ConfigExchange` and `ConfigDocument`, how a file is replaced and what is written into it |
| `MC…` | instances for TLC |

Definitions keep the names of the functions they model; `PROJECT.json` maps each to
its lines. An operator commented *Mistake:* is a plausible bug, which takes the place
of the definition after it to show that a property would notice.

### OperationEngine

One operation with `Steps` steps. `Execute` and `Recover` are calls whose every
journal write, inspection and effect is a step of the model; each may fail, lose its
acknowledgement, or be the last before a crash (`MaxFaults` in all). An effect is
described by what its inspection shows: the original state, the proposed one, or
neither, after it failed half-way. Original and proposed fingerprints are assumed to
differ, and nobody else changes what an effect changes. The engine is used by the
repository's tests only; the services in `control` follow the same protocol in code
of their own, which `PeerControl` models.

`IsTransaction` reads a `Transaction` off it: the parts are the steps' effects, those
whose step was ever begun are touched, and the outcome is the operation's row (`Outcome`).
Every journal write, inspection, retry and restart is then a change of one part or
nothing; a commit finds all parts proposed, and a rollback that is reported as done finds
every touched part original.

### PeerControl

One managed interface; callers that preview and commit, the start-up recovery as one
more process, the refresh loop, an editor, and wg-quick. The database rows that matter
(`ops`, `peers`, the interface's revision, hash, drift and runtime flag), the file's
content, the device's peers, the in-process lock and each caller's local variables are
the state. The file's hash is its content. Where the code does something in one
transaction the model does it in one step; where it calls the host or the database
again it is another step.

 - A preview is two steps, the preflight and `CreateOperation`; the preflight's reads
   are one. A repeated idempotency key and the expiry of a preview change nothing.
 - Transactions report what they did; single `UPDATE`s (`TransitionOperation`) may be
   stored and report an error.
 - A context that has ended makes database and device calls fail; file operations and
   `InspectPeer` do not look at it.
 - `ExchangeConfig` is one step here: it replaces the file the caller has seen, fails and
   leaves the file, or fails after the exchange and cannot exchange back, which leaves the
   proposal at the path (`config.go:158-184`). The callers take every error for a file as
   it was. `ConfigExchange` opens the step up.
 - A refresh reads the host at one time and is persisted later; a source may silently
   show nothing, and `InspectPeer` may fail in the rollback of a creation.
 - `left` is a history variable: the operations that have left their proposal in the file
   (`InFile`), and those that passed over a running device (`OnDevice`). No action reads it.
 - The drift states are told apart only as drift or none. Deleting the file, preshared
   keys, addresses and client profiles are not modelled.

Every action is total in the failures of the call it models; `Crash` may happen in any
state. Recovery follows `main`: refresh, whose failure is only logged, then
`Recover`; a failure exits, and systemd (`Restart=on-failure`) starts the agent again.

`IsLedger` reads a `PeerLedger` off the database: the peers' rows, the contents recorded
with the revision, and of each operation its request (`Request`) and how far it has come
(`Stage`). Previews, the host, failures, crashes and recoveries are then steps of one
operation or nothing, and rows change only when an operation is applied: as a whole, to
the revision it was previewed on, with the configuration recorded in the same step.
A *disowned* operation is one that was applied and rolled back all the same (the finding).

### ConfigExchange

One call at a time (the interface's lock), each system call a step that may fail; a
crash and an editor's replacement of the file may fall anywhere. A content is told
apart by the last edit in it and by which of two versions the agent made of it.
`raced` remembers an edit that was made while the call had its own file at the path.

`IsCompareAndSwap` dates the effect of a call to the end of its checks. Until then the file
it has displaced to the stage counts as the configuration, and an edit of the path in
between as a late change, which takes effect together with the replacement or not at all.

### OneTimeArtifact

Artifacts are written with their peer, claimed, opened, streamed and finalized.
Requests interleave; contexts end; calls fail; the response with the token may be
lost; the interface may be removed; the agent may die. Every transaction is one step.
The finalizer runs under its own context, so an ended request does not stop it, but a
database error does.

### InterfaceControl

Names that interfaces may get, each with the resources its request asks for
(`Forwarding`, `Nft`, `AutoStart`), and the operations on them in the order they were
previewed. The state is the journal with its snapshots, the rows of `interfaces`, up to
four files per name, the unit, `ip_forward`, and for every operation the request (or
the recovery) that works on it; one operation is committed by one request, as
`PeerControl` has the races of two.

 - The host is changed by four lists of steps: applying and undoing a creation, and
   applying and undoing a removal. The work stops at the first error, a rollback
   collects errors and goes on. Each list is the code's order, filtered by what the
   request or the snapshot asks for.
 - A file is the operation whose marker it carries, a partial file or the operator's.
   `WriteOwnedFile` creates and fills in two steps, `RemoveOwnedFile` reads and removes
   in two, `CreateConfig` renames in one.
 - systemctl may do its work and report an error. A query of it that fails, or whose
   context has ended, reads as no (`host_linux.go:284-290`).
 - An operator may replace or delete any file at any time, a half-written one too. The
   clean-up after an error of `WriteOwnedFile` removes what stands at the name then.
 - Two history variables that no action reads: `raced` has the files an operator put where
   the agent was at work on the name, `misled` the names whose unit a failed query has hidden.
 - The snapshot is taken in two steps, what was read and what was stored, so two
   operations may read `ip_forward` before either changes it.
 - The nftables table and the device are taken to come and go with the unit, which
   makes `ApplyNFT` in a rollback (its result is ignored) no step of its own. Peers,
   drift and later revisions are `PeerControl`'s.

### Adoption

One interface that wg-quick runs, in the file all the time. The state is the file and
the device, the rows of `interfaces`, `peers` with their AllowedIPs, what an adoption
imports (profiles, pools, allocations, the purpose of a prefix, preshared keys), the
ledger and the staged secrets from which it is undone, the operations, and the running
preview, commit, refresh or recovery.

 - A row says which operation made it, so an import that outlives its rollback shows.
 - A preview is two steps, its reads and `CreateOperation`; a commit is one step for
   each call of the repository, and every transaction may be stored and lose its
   answer. Of two commits of one operation all but one end at the first transition
   without any effect, so one is modelled.
 - The plan that a preview shows is stored and never looked at again, and is left out.
 - `Files` and `Devices` are the contents the host may have. A network stands for its
   interface address, so two gateways in one network do not occur; a peer has an
   AllowedIP; the import makes every profile, since an observed interface has no other,
   so `attachStagedAdoptionSecrets` makes none.
 - Peers that leave the host keep their rows, as in `ReplaceInventory`.

### ConfigDocument and ConfigMeaning

A file is a sequence of lines, a line its kind, its key, the list of its values and
whether it ends with a newline. Sections and blocks are computed from the lines as
`analyze` computes them, `AdoptionSafe` is the gate of every edit, and each edit is one
action: it works on the lines and the lines are read again, as the code concatenates
bytes and parses them. Lines without newline that come to stand before another one are
joined, which is what the bytes do.

 - Values are model values: what a CIDR, a key or a number looks like is left out, that
   some do not parse is not (`Garbled`, the `raw` line).
 - `ConfigMeaning` knows nothing of lines: a table from public keys to settings, a table
   of archived settings, and the request. `MeaningKept` is its specification with
   `peers` read from the blocks (`ReadSettings`) and `archived` from the archived block.
 - A request that the code refuses changes nothing, so it is no step.
 - A file may end without newline anywhere, inside a peer's block too. A patch that
   appends a key there continues that line (`Spoils`), and the request is recorded as
   `spoil`: what such a patch does to its own peer no property promises. In `ConfigMeaning`
   it is an action of its own, which may change that peer's settings in any way and
   nothing else.

### AddressPool

The pools of one interface, the allocation rows, the peers' lifecycle states and
AllowedIPs, per actor a request that has passed its preview, and the one operation in
progress, which `CreateOperation` guarantees (`OneInProgress`). An address is a number in
its family and a prefix a range, so overlap, containment, and the network, gateway and
broadcast addresses are what they are in the code, on small numbers.

 - Preview, journal entry, commit with its second check, and completion are separate
   steps; a request of another actor may complete between any two.
 - `Completes` decides on the rows as they are then, as `CompletePeerCreate` does inside
   its transaction. A commit that fails there is `Abandon`; what the host went through
   meanwhile is `PeerControl`'s.
 - The interface may be fresh or adopted (`Adopted`).
 - A revision is current or it is not.

### WebAuth

The user, the bootstrap token, the sessions, and up to two handlers at once, each with
what it has read. Every database call is a step; between two of them the password is
hashed, slowly. Deadlines are the time that is left, in the rows and in what a handler
has read, and `Tick` lets it pass for all.

 - `Kinds` are the handlers that write, or call the agent after a recent confirmation.
   Reads and unconfirmed previews only renew the idle deadline.
 - Hashes and tokens are exact: a password verifies if it is the one. A row of a session
   that nobody can use again may stand for a new one.
 - Errors of `RecordLoginFailure` and `RecordLoginSuccess` are ignored, as in the code;
   any other failing call ends its handler (`Abort`); `WebStops` ends all.
 - The check of a confirmation and the call of the agent are two steps. `exportClient`,
   `consumeOneTimeArtifact` and `commitOperation` read the body between them, which takes
   up to `ReadFor`, the server's `ReadTimeout`; the time that has passed since a
   confirmation ended is counted that far (`reauth` below zero).
 - `guesses` counts the wrong passwords tried and not turned away by a lock (`IsGuess`),
   whether or not the failure is recorded, and `lost` those whose record failed. Both
   start anew with a recorded success, a reset, or when a lock runs out.
 - `ResetAdminPassword` runs on the console; `deployments/bundle/admin.sh` stops the web
   process around it.

## Runs

| Run | Question | Bounds | Result |
|---|---|---|---|
| `engine` | is an operation all or nothing, does the journal tell the truth, and does every operation end? | 3 steps, one idempotent; 3 faults; fairness | pass, but for the end where `Wedged` |
| `peer_faults` | what do failures and crashes leave, and does the database show one change after another? | every type, 2 operations over 2 contents of a peer, 1 caller, device down or up from the start, 3 faults, failing sources and exchanges that stay | pass, but for what such an exchange, or passing over a running device, is known to leave |
| `peer_live` | do two callers stay apart, and do callers and agent get on? | 2 callers, 1 operation that checks the file, 1 edit, 1 change of the device, 1 fault, failing sources; fairness | pass |
| `peer_kept` | is a completed peer kept? | as the finding | violated: see findings |
| `exchange` | is ExchangeConfig a compare-and-swap? | 2 calls, 2 edits, 3 faults | pass, but for one window |
| `artifact` | is a secret handed out once, and erased in the end? | 2 artifacts, 2 requests, 2 faults, 2 ticks; fairness | pass |
| `interface` | does a failed creation leave nothing and a failed removal everything? are the operator's files safe, and does the agent come back? | 1 name with every resource, 2 operations, 1 edit, 2 faults, failing queries; fairness | pass, but for a unit a failed query has hidden, and two windows of an operator's file |
| `interface_pair` | does one interface's removal or rollback take forwarding from another? | 2 names, 3 operations, 1 fault, failing queries | pass, unless operations overlap |
| `adoption` | is an interface adopted wholly or not at all, and does the agent resolve adoptions before it serves? | 2 administrators, 2 operations, 2 peers, 2 networks that share an address, 1 change of file or device, 2 faults; fairness | pass |
| `document` | does a file say what was asked for, with every other line as it was? | 17 files of an interface and 1 or 2 peers, some ending without newline in the interface's section or in a peer's block; all sequences of patches of 1 or 2 fields, additions, removals and restorations up to 11 lines | pass, but for a patch that appends a key behind a last line without newline |
| `address_pool` | do the rows follow the peers, and do previews stay true? | 2 actors, 2 peers, an IPv4 pool of 4 addresses and an IPv6 pool larger than a scan, 5 creations, 4 updates, 5 states to start from | pass |
| `web_auth` | does a new password shut others out, does the lock hold, are sensitive calls confirmed? | 2 handlers, 2 sessions, 2 passwords, locked after 3 failures, 1 lost record per period, lifetimes of 1 or 2 ticks, a body of 1 | pass |

The bounds are those at which the interesting cases happen: a second fault is needed
to interrupt a rollback, a third to interrupt the recovery of that; two callers are
enough for every race on one interface, since each lock, row and compare-and-swap
involves two (`IsLedger` and `AccountedOnce` are also proved for any number, and a
preview that has become stale, which takes two callers, is in `peer_live` and in the
theorem, as is wg-quick taking the device down or up); two operations in a row let one
find what another left; an IPv4 pool of four addresses has
one to hand out, so it runs out; three failures lock, so two handlers can overrun it. Each
property
is broken by at least one mutant under the same bounds, so none holds for want of
states. Faults and edits are bounded by counters, so a bounded system may stop: runs
with `CHECK_DEADLOCK FALSE` say so.

**Fairness.** A goroutine that can run does run, so the steps of a caller, of the
recovery and of a request are weakly fair, and the lock is granted to some waiter that
keeps waiting. systemd restarts an agent that exits, so the start is weakly fair.
Nothing else is: no client must call, no editor edits, no refresh must run.

## Findings

 - **A completed peer is destroyed** (`peer_kept`). A refresh that read the host before
   an operation persists after it; a crash, a failing start-up refresh and a second
   crash between the two transitions of `recoverVerifying` then lead to a rollback of
   an operation whose metadata is complete. The properties about host and database
   leave such operations out.

Limits of what is checked, which TLC shows when the exclusion is taken away:

 - `ResolvesOrWedged` leaves out a wedged operation: a failed step whose effect
   nevertheless shows the proposed state makes `recoverExecuting` (`engine.go:194`) ask
   for `failed → applied`, which `validStepTransition` refuses; each recovery ends there,
   although the comment on `Recover` says that "Such states immediately enter rollback".
   One step and two faults are enough. Only tests use the engine.
 - `ForwardingKept` holds only while operations on forwarding interfaces do not overlap.
   A creation that is rolled back (at once, or by the recovery) sets `ip_forward` to what
   it found, also when another interface has come to rely on it since (two names, one
   fault).
 - `ForeignKeptUnlessRaced` leaves out two windows. A file that an operator renames into
   place between `RemoveOwnedFile`'s look at the marker and its removal of the name goes;
   and so does one renamed over a file that `WriteOwnedFile` has created and not yet
   filled, when filling it fails: the deferred removal (`host_linux.go:202-207`) takes the
   name without a look. `README.md` has WireGate delete "only host files marked as
   WireGate-owned".
 - `NothingLeft` leaves out the unit of a name whose unit a failed query has hidden. A
   failing `systemctl is-active` reads as inactive, so the rollback of a creation may leave
   the unit running while it removes the files and the row (one operation, two faults).
   The comment on `RollbackManagedInterface` asks for a host that has been verified;
   nothing verifies it. The files are always gone.
 - `FileAgrees` leaves out an operation that left its proposal in the file and is recorded
   as rolled back. Two failing calls in `ExchangeConfig`, the check or sync and then the
   exchange back, are enough: the callers roll back with `fileMayBeProposed` false
   (`peer.go:278`, `peer_update.go:260`, `peer_lifecycle.go:233`), never look at the file,
   and report success of the rollback. `HostChangeJournalled` says that this operation's
   snapshot accounts for the file, `StartsFromRecord` that nothing builds on it: the
   preflights refuse until somebody restores the file. A lifecycle change whose proposal
   is edited before its rollback is the other such case (`peer_lifecycle.go:312`).
 - `RuntimeAgrees` leaves out operations that passed over a running device. A refresh
   that cannot read the device, at the start or while an operation runs, writes
   `runtime_present = 0` and a drift; `Complete…` clears the drift and keeps the flag, so
   the next operation is let through and changes the file and the rows only. An
   `InspectPeer` that fails in the rollback of a creation (`peer.go:531`) leaves the peer on
   the device in the same silence.
 - An adoption need not import what its preview showed. The commit compares the file's
   hash and the revision, and builds the import anew: a change of the device that a
   refresh has stored in between (an address, a peer) brings other pools or peers. The
   comment on `AdoptionImportPlan` calls the plan the metadata "that will be imported".
 - `EditKeptUnlessRaced` leaves out an edit made between the exchange and the end of its
   checks. The swap back moves such an edit to the stage path, which the deferred call
   removes (`config.go:151`; the comment at `config.go:104` has the check after the
   exchange "closing the editor/CLI race between the initial read and rename", which it
   does for edits before the exchange).
 - `MeaningKept`, `LinesKept` and `StaysSafe` leave out what a patch spoils that appends a
   key behind a last line without newline (`document.go:268-279`). The two become one
   line: the old value is spoilt and the new key is missing, which the agent then exchanges
   into place. If the last line is the `PublicKey`, the block has no valid key any more and
   the gate refuses every later edit of the file. The package comment has a document
   that "only rewrites the assignment tokens selected by a caller". The other peers'
   settings and the lines in front of the block are kept in this case too. `AddPeer` and
   `RestorePeerBlock` write the newline first.
 - `OverlapOnlyByEnable` leaves out enabling: `preflightPeerLifecycle` does not look for
   overlaps, so a peer that was disabled while its addresses went to another one is
   active again with the same addresses.
 - `AddressPool` promises no progress. Quarantined addresses are never released; the
   automatic allocation offers the lowest free address although an extra AllowedIP of an
   active peer may hold it without a row, and is then refused each time; a repeated
   prefix passes a creation's preview and fails in its transaction; an address that an
   administrator names may be the network's or the gateway's. Extra addresses in a pool
   get their rows with the next update of the peer (`synced`).
 - `KnowsPassword` leaves out a login that read the user before a change of the password
   and opened its session after it; `SensitiveIsConfirmed` shows that such a session does
   nothing sensitive before it has confirmed the new one. `LockOnlyOutrun` leaves out a
   login that read the account before the lock was set: its success clears the lock.
 - A failure whose record is lost is a guess for nothing: `Login` ignores the error of
   `RecordLoginFailure` (`manager.go:114`), so while the database refuses that write, the
   count does not rise and the account is never locked. `GuessesBounded` adds those
   guesses to the bound. It does not count a login that read a lock, outlasted it, and
   tries its password while others have prolonged that lock: `Login` looks at the lock it
   has read only. Each such guess takes a login across the end of a lock.
 - A sensitive call may come after its confirmation has run out, by as much as the body
   takes to be read (15 s): `SensitiveIsConfirmed` says so, and no more.

## Proofs

A theorem is `Spec => []Inv` for an invariant, `Spec => P` for an action property, for
every value of the constants under the assumptions the modules name. Each component
has one inductive invariant (`IInv` with `Invariance`, or its own name), one lemma per
action and part of it, and the theorems at the end. No theorem has a hypothesis beside
the assumptions on the constants, listed below.

| Module | Theorems | Of the properties |
|---|---|---|
| `OperationEngineProofs` | `TypeCorrect`, `EngineIsTransaction`, and five more | `IsTransaction`, `RolledBackRestores`, `JournalledBeforeEffect`, `NonIdempotentOnce`, `RollbackInReverse` |
| `PeerControlProofs` | `TypeCorrect`, `ChangesAreSerial`, and six more | `IsLedger`, `AccountedOnce`, `StartsFromRecord`, `HostChangeJournalled`, `FileAgrees`, `RuntimeAgrees` |
| `ConfigFileProofs` | `ExchangeTyped`, `ExchangeIsCompareAndSwap`, `OriginalIsKept`, `LastEditIsKept`, `DocumentTyped`, `NeverLockedOut`, `SaysWhatWasAsked`, `OnlyTheSelectedLines` | `IsCompareAndSwap`, `EditKeptUnlessRaced`, `StaysSafe`, `MeaningKept`, `LinesKept` |
| `OneTimeArtifactProofs` | `TypeCorrect`, and three more | `HandedOutOnce`, `CiphertextFollowsRow`, `SuccessErases` |
| `InterfaceControlProofs` | `TypeCorrect`, `NothingIsLeft`, `LiveIsWhole`, `ForwardingIsKept`, `ForeignStays` | `NothingLeft`, `LiveIsComplete`, `ForwardingKept`, `ForeignKeptUnlessRaced` |
| `AdoptionProofs` | `TypeCorrect`, `ObservedStaysClean`, `AdoptionIsComplete`, `SecretsHaveOwners`, `RecoveryResolves` | `ObservedIsUntouched`, `AdoptedIsComplete`, `NoOrphanSecret`, `ResolvedBeforeServing` |
| `AddressPoolProofs` | `TypeCorrect`, `RowsAgree`, `PreviewHolds`, `OverlapsComeFromEnable` | `RowsMatchPeers`, `PreviewedAddressHolds`, `OverlapOnlyByEnable` |
| `WebAuthProofs` | `TypeCorrect`, `SessionsKnowPassword`, `LockHolds`, `GuessesAreBounded`, `SensitiveCallsAreConfirmed` | `KnowsPassword`, `LockOnlyOutrun`, `GuessesBounded`, `SensitiveIsConfirmed` |

Four theorems are refinements: `EngineIsTransaction`, `ChangesAreSerial`,
`ExchangeIsCompareAndSwap` and `SaysWhatWasAsked`. They say the most, so the invariants
they contain (`CommittedMeansProposed`, `OneInProgress`, `FailureKeepsOriginal`) are
theorems and no run is spent on them.

The arguments:

 - **OperationEngine.** What a step's journal entry says of its effect depends on where
   the call is; the inductive invariant states it for each program location. Any number
   of steps, any faults. For the refinement, the actions that write the operation's row
   are told apart from the rest: the former decide (`TransactionDecides`), and the
   invariant supplies what a commit and a finished rollback must find; the latter work on
   at most one part (`TransactionWorks`), one whose step has begun, since nothing is
   touched before (`Unbegun`).
 - **PeerControl.** Each caller's location is related to the row it works on (who holds
   the lock, which row is active) and the revision to the set of completed operations
   (`IInv`). That the three stores agree takes a second invariant on top (`Base`):
   requests work under the lock and the recovery alone (`MutexInv`), a snapshot is of the
   recorded file and of an edit the peers' rows still call for (`RowsInv`), and what a
   preflight has read is still so while its caller's row says so (`CallsInv`), which is
   what the second transition of a commit, a compare-and-swap, is good for. `FileInv` and
   `DeviceInv` then say at each location whether the file and the device are the recorded
   ones, the proposed ones, or unknown and accounted for by the one row in progress
   (`Explains`, `Owns`). What an exchange leaves, or a rollback of a lifecycle change that
   takes an edit of its proposal for the original (`peer_lifecycle.go:312`), stays
   explained by the rolled back row (`LeftOver`), since that row is final and `left` does
   not forget (`Remembers`); and no work starts before the file is the recorded one again
   (`FreshInv`), which is `StartsFromRecord`. The proof about the device is for as long as
   no operation has passed over a running one (`Untouched`), which is what `RuntimeAgrees`
   speaks of. Operations that were completed and then rolled back all the same (`Undone`,
   the finding) are excluded by the properties themselves.
   The refinement `IsLedger` excludes nothing. Each write of an
   operation's row moves its stage the allowed way (`Advances`, `NextWrites`: one lemma for
   every writer, the recovery included). That a completed change is applicable
   (`CompleteApplicable`) is what the completing transaction does not check in full. For a
   peer that is taken off it follows from the snapshot, which has the peer's block and is of
   the recorded file (`Base`); for an enabled one it takes `LedgerInv`: what was asked was
   asked of a revision there has been, and while that is the current one a peer to enable
   is disabled (`AskedOK`).
 - **ConfigExchange.** `Prepared` says what each location knows of the two paths,
   `Untouched` that until the exchange the original is at its path, `Accounted` where an
   edit is: at the path, on the stage while it is still to be swapped back, or raced.
   With `Checked`, that a file which has passed the check is the one the caller has seen,
   each system call is a step of `CompareAndSwap`: the one that ends the checks, or swaps
   back, decides, and those before it leave the file that counts what it was.
 - **ConfigDocument.** `MeaningKept` is a refinement: the initial lines map to a table, and
   each edit of the lines to the edit of `ConfigMeaning` with the same request, so a
   sequence of edits of any length, with any number of peers and values, says what was
   asked. Every edit is a block put into a document or cut out of it, a patch is both, so
   two lemmas carry most of the weight: `InsertSafe` says when a document with a block put
   in passes the gate (read backwards it is the removal), `InsertSaid` what its peers then
   say. `PatchedIs` and `NewBlockIs` say of a rewritten and a new block that it is safe,
   is the same peer's, reads back as asked and keeps all other lines: the values in force
   depend on the order of a key's assignments alone (`KeyMap`), and a rewritten key is
   assigned once. Below are lemmas about the elements of a sequence at some indices, in
   order (`SelectIs`, `SelectSelect`, `SelectConcat`). The operators are written with sets
   of indices and no recursion, so that none of it takes induction over lines.
   `DocumentInv` is the invariant: the lines are well formed and each archived block is a
   safe block of its peer. That the file itself is safe is no part of it, since a patch
   that spoils may make a file the gate refuses; each edit has passed the gate, so it is
   known where it is used (`ManagedIs`). Blocks may end without newline, in the file or
   archived (`OnlyLastOpen`). Of a patch that spoils, `SpoiltBlockIs` says that the block
   it makes is a block of one peer, that peer, or of none, and `SpoiltIs` what follows for
   the rest of the file.
 - **OneTimeArtifact.** That a secret goes out once needs that at most one request holds
   a claimed row (`ClaimInv`) and that nothing went out before the claim.
 - **InterfaceControl.** Two halves. `Control` is about who works on an interface: a row
   of the journal in progress has one actor (`PcOK`, `OpOK`, `Alone`), the actor at work
   holds the name's lock (`LockOK`), the row of `interfaces` follows (`RowOK`), and names
   without an operation are unused. `Host` says what an operation has made of its files
   and its unit when it is at a given step of its list: `Progress` that every step
   before it has been made if there was no error so far, `Removing` what an unfinished
   removal may still take, `Rest` and `Boots` what is there between operations. A
   creation's rollback must undo steps that never began, that failed half-way and that a
   crash interrupted; that is why the invariant says of every step what may be found, not
   only of completed ones.
   What the invariant says of the unit excludes names whose unit a failed query has hidden
   (`misled`), step by step, and what it says of the files excludes nothing but the names
   an operator has touched; so a snapshot taken by a query that failed leads nowhere else.
   `ForwardingKept` rests on `Forward`: an operation that has read
   `ip_forward` (`HasRead`) is the only one on a forwarding interface whose reading still
   counts; if another interface is live, the switch is on and so is every value the
   operation may write to it (`OthersLive`); a removal, whose own interface is live, has
   read 1; a creation that has come past its own step (`SwitchedOn`) and a removal that
   has been undone past it without an error (`SwitchedBack`) leave the switch on. With
   `Control` alone, that is inductive, through crashes, recoveries and lost answers.
 - **Adoption.** The contents of the database are determined by the interface's mode and
   the ledger: while it is observed nothing is imported, while an import stands the
   ledger lists all of it (`ImportsOK`, `SecretsOK`), when it is adopted nothing is left
   to stage (`AdoptedIsComplete`). `FirstRevision` shows that a later operation cannot
   find the revision an earlier one was previewed on. `Recovery` and `UndoesBegun` relate
   a recovery to the rows it has yet to look at.
 - **AddressPool.** `RowsMatchPeers` is inductive together with `RequestsOK`, what a
   preview has checked and is still true while the revision it saw is current. The scans
   for a free address are recursive functions; what they return is proved from their
   equations with the least number at which they could differ, no induction scheme
   being usable here.
 - **WebAuth.** A handler works with copies of rows that others change meanwhile.
   `HandlersOK` says how stale each copy may be at each location, `Registered` that
   sessions and handlers belong to the user, `SessionsOK` who may hold an open session,
   `Counted` that each guess is a failure in the user's row, a lost one, or one of the
   logins that are still open. A login that `Accepted` lets in has read no lock, or
   outlasted it; so if one stands, it was set since (`LockOnlyOutrun`).

**Assumptions.** Bounds are naturals. The placeholder for "no operation" or "no value" is
none of the values it stands in for. There is at least one administrator who can adopt
(`ActorsAssumption`) and one interface name. Requests of `AddressPool` are finite sets or
sequences of prefixes, since they are parsed from messages; a pool contains its gateway,
which the plan of an interface checks; the addresses of adopted peers do not overlap,
since the table's key is the address (`PoolsAssumption`, `RequestsAssumption`,
`AdoptedAssumption`). The requests to `ConfigDocument` are lists of values that parse, as
`canonicalPrefixes`, `validateKey` and the callers see to (`RequestsAssumption`), the file
to start from has passed the gate (`FilesAssumption`), and the placeholders are no keys or
values (`NamesAssumption`). TLC evaluates all of them in the runs.

**Only model-checked.** Liveness (`ResolvesOrWedged`, `LockIsGranted`, `AgentServes`,
`ClaimIsSettled`), which this prover does not reach.
`TypeOK` is a theorem where there are proofs and no run is spent on it.

What an operation of `InterfaceControl` becomes when it has ended (`Finished`) used to be
a `CASE` with overlapping guards; TLC takes the first, but the language leaves the choice
open, and the proof did not go through until the order of the code was spelt out.

## Not modelled

 - Cryptography and key files (`secret`): sealing and opening succeed or fail.
 - The shared database package and its migrations; SQLite is the transactions.
 - Generated protocol code, and the RPC and HTTP layers where they translate messages
   and keep nothing: routing, JSON, headers, permissions by operation type.
 - The UI, the inventory's own reader of files, firewall plans, and the rendering of
   client configurations: text from text.
 - The kernel, systemd, nftables and wg-quick behind the adapters, beyond what a call of
   them may do and report.

`PROJECT.json` gives the reason for each component, and for the operations left out of
those that are modelled in part.

## Next

 - `InterfaceControl` and `Adoption` have no abstract specification yet. What an operation
   on an interface promises is weaker than a `Transaction`: a failed query of systemd and
   overlapping operations on forwarding interfaces break it (see the findings).
 - The hazards without a property, which `PROJECT.json` lists with the reason for each.
