-------------------------- MODULE OneTimeArtifact --------------------------
(***************************************************************************)
(* The one-time artifacts of the agent: a client configuration with its    *)
(* private key, sealed in the database and handed out once against a token *)
(* (src/src/internal/agent/artifact/service.go and                         *)
(* src/src/internal/agent/repository/secret_store.go).  Requests claim,    *)
(* open, stream and finalize beside one another, their contexts end, calls *)
(* fail, the agent dies at any point and cleans up when it starts.         *)
(*                                                                         *)
(* A transaction is one step: the pool holds a single connection.  The     *)
(* clock is read before the transaction begins, as the code does.          *)
(***************************************************************************)
EXTENDS Integers

CONSTANTS
  Artifacts,    \* identifiers, each with its own token and envelope
  NoArtifact,
  Requests,     \* concurrent ConsumeOneTimeArtifact streams
  TTL,          \* artifact_ttl, in ticks
  MaxTime,      \* bound on the clock
  MaxFaults     \* bound on failing calls and crashes

ASSUME TimeAssumption == TTL \in Nat \ {0} /\ MaxTime \in Nat /\ MaxFaults \in Nat
ASSUME NoArtifactAssumption == NoArtifact \notin Artifacts

VARIABLES
  row,          \* one_time_artifacts.state; "none" before, "removed" after
  expires,      \* expires_at_ms; 0 without a row
  envelopes,    \* artifacts whose ciphertext is in secret_envelopes
  issued,       \* artifacts whose token some client holds
  handed,       \* times the plaintext went to a stream
  unsettled,    \* artifacts whose finalizer failed
  pc, art, at,  \* per request: where it is, the artifact, the clock it read
  result,
  ended,        \* requests whose context has ended
  up, now, faults

vars == <<row, expires, envelopes, issued, handed, unsettled, pc, art, at, result, ended, up,
          now, faults>>
rows == <<row, expires, envelopes, issued>>

Fault == faults < MaxFaults /\ faults' = faults + 1
Goto(r, l) == pc' = [pc EXCEPT ![r] = l]
Result(r, x) == result' = [result EXCEPT ![r] = x]

Init ==
  /\ row = [a \in Artifacts |-> "none"] /\ expires = [a \in Artifacts |-> 0]
  /\ envelopes = {} /\ issued = {} /\ unsettled = {}
  /\ handed = [a \in Artifacts |-> 0]
  /\ pc = [r \in Requests |-> "idle"] /\ art = [r \in Requests |-> NoArtifact]
  /\ at = [r \in Requests |-> 0] /\ result = [r \in Requests |-> "none"]
  /\ ended = {} /\ up = TRUE /\ now = 0 /\ faults = 0

\* Written with the peer's metadata.  The expiry counts from a clock read earlier and
\* must still be ahead.  The response that carries the token may be lost: the audit
\* commit fails, or the client is gone.
CreateOneTime(a) ==
  /\ up /\ row[a] = "none"
  /\ \E e \in (now + 1)..(now + TTL) : expires' = [expires EXCEPT ![a] = e]
  /\ row' = [row EXCEPT ![a] = "ready"] /\ envelopes' = envelopes \cup {a}
  /\ \/ issued' = issued \cup {a} /\ UNCHANGED faults
     \/ Fault /\ UNCHANGED issued
  /\ UNCHANGED <<handed, unsettled, pc, art, at, result, ended, up, now>>

Consume(r, a) ==
  /\ up /\ pc[r] = "idle" /\ a \in issued
  /\ Goto(r, "begin") /\ art' = [art EXCEPT ![r] = a] /\ at' = [at EXCEPT ![r] = now]
  /\ Result(r, "none") /\ ended' = ended \ {r}
  /\ UNCHANGED <<rows, handed, unsettled, up, now, faults>>

\* Every failure is the same ErrUnavailable to the caller.
BeginOneTimeConsume(r) ==
  /\ pc[r] = "begin"
  /\ LET a == art[r]
         claimable == row[a] = "ready" /\ expires[a] > at[r]
     IN \/ /\ claimable /\ r \notin ended
           /\ row' = [row EXCEPT ![a] = "consuming"] /\ Goto(r, "open")
           /\ UNCHANGED <<result, faults>>
        \/ /\ \/ ~claimable /\ UNCHANGED faults
              \/ r \in ended /\ UNCHANGED faults
              \/ Fault
           /\ Goto(r, "idle") /\ Result(r, "unavailable") /\ UNCHANGED row
  /\ UNCHANGED <<expires, envelopes, issued, handed, unsettled, art, at, ended, up, now>>

\* The master key is loaded and the envelope opened; neither looks at the context.
Open(r) ==
  /\ pc[r] = "open"
  /\ \/ Goto(r, "deliver") /\ UNCHANGED <<result, faults>>
     \/ Fault /\ Goto(r, "finalize") /\ Result(r, "error")
  /\ UNCHANGED <<rows, handed, unsettled, art, at, ended, up, now>>

\* The consumer encodes the payload and sends it chunk by chunk: a stream that breaks
\* may have delivered all of it, some of it or nothing.
Deliver(r) ==
  /\ pc[r] = "deliver" /\ Goto(r, "finalize")
  /\ \/ /\ r \notin ended /\ Result(r, "ok") /\ UNCHANGED faults
        /\ handed' = [handed EXCEPT ![art[r]] = @ + 1]
     \/ /\ \/ r \in ended /\ UNCHANGED faults
           \/ Fault
        /\ Result(r, "error")
        /\ \E sent \in {0, 1} : handed' = [handed EXCEPT ![art[r]] = @ + sent]
  /\ UNCHANGED <<rows, unsettled, art, at, ended, up, now>>

\* What the deferred finalizer does to the row and what it makes of the result
Finalized(r, after) ==
  LET a == art[r]
      consuming == row[a] = "consuming"
  IN \/ /\ row' = IF consuming THEN [row EXCEPT ![a] = "consumed"] ELSE row
        /\ envelopes' = IF consuming THEN envelopes \ {a} ELSE envelopes
        /\ UNCHANGED <<result, unsettled, faults>>
     \/ /\ Fault /\ Result(r, after) /\ unsettled' = unsettled \cup {a}
        /\ UNCHANGED <<row, envelopes>>

\* Mistake: the finalizer's error is dropped.
FinalizeIgnoringError(r) ==
  /\ pc[r] = "finalize" /\ Goto(r, "idle") /\ Finalized(r, result[r])
  /\ UNCHANGED <<expires, issued, handed, art, at, ended, up, now>>

\* Mistake: the finalizer runs under the request's context.
FinalizeUnderRequest(r) ==
  /\ pc[r] = "finalize" /\ Goto(r, "idle")
  /\ IF r \in ended THEN UNCHANGED <<row, envelopes, result, unsettled, faults>>
                    ELSE Finalized(r, "error")
  /\ UNCHANGED <<expires, issued, handed, art, at, ended, up, now>>

\* Mistake: the ciphertext stays.
FinalizeKeepsEnvelope(r) ==
  /\ pc[r] = "finalize" /\ Goto(r, "idle")
  /\ row' = [row EXCEPT ![art[r]] = "consumed"]
  /\ UNCHANGED <<expires, envelopes, issued, handed, unsettled, art, at, result, ended, up, now,
                 faults>>

\* The deferred call, under a context of its own; a row that is gone is no error.
FinalizeOneTimeConsume(r) ==
  /\ pc[r] = "finalize" /\ Goto(r, "idle") /\ Finalized(r, "error")
  /\ UNCHANGED <<expires, issued, handed, art, at, ended, up, now>>

EndContext(r) ==
  /\ pc[r] # "idle" /\ ended' = ended \cup {r}
  /\ UNCHANGED <<rows, handed, unsettled, pc, art, at, result, up, now, faults>>

\* Removing the interface deletes its peers, their artifacts with them, and the
\* envelopes these own, in one transaction.
FinalizeInterfaceRemoval ==
  /\ up /\ \E a \in Artifacts : row[a] \notin {"none", "removed"}
  /\ row' = [a \in Artifacts |-> IF row[a] = "none" THEN "none" ELSE "removed"]
  /\ envelopes' = {}
  /\ UNCHANGED <<expires, issued, handed, unsettled, pc, art, at, result, ended, up, now, faults>>

Crash ==
  /\ up /\ Fault /\ up' = FALSE
  /\ pc' = [r \in Requests |-> "idle"] /\ result' = [r \in Requests |-> "none"] /\ ended' = {}
  /\ UNCHANGED <<rows, handed, unsettled, art, at, now>>

\* Mistake: an interrupted hand-over may be tried again.
CleanupReopens ==
  /\ ~up /\ up' = TRUE
  /\ row' = [a \in Artifacts |-> IF row[a] = "consuming" THEN "ready" ELSE row[a]]
  /\ UNCHANGED <<expires, envelopes, issued, handed, unsettled, pc, art, at, result, ended, now,
                 faults>>

Stale(a) == row[a] = "consuming" \/ (row[a] = "ready" /\ expires[a] <= now)

\* Before the agent serves; when it fails the agent exits and systemd starts it again.
CleanupOneTime ==
  /\ ~up
  /\ \/ /\ row' = [a \in Artifacts |-> IF ~Stale(a) THEN row[a]
                                       ELSE IF row[a] = "consuming" THEN "consumed" ELSE "expired"]
        /\ envelopes' = {a \in envelopes : ~Stale(a)} /\ up' = TRUE /\ UNCHANGED faults
     \/ Fault /\ UNCHANGED <<row, envelopes, up>>
  /\ UNCHANGED <<expires, issued, handed, unsettled, pc, art, at, result, ended, now>>

Tick ==
  /\ now < MaxTime /\ now' = now + 1
  /\ UNCHANGED <<rows, handed, unsettled, pc, art, at, result, ended, up, faults>>

Step(r) == BeginOneTimeConsume(r) \/ Open(r) \/ Deliver(r) \/ FinalizeOneTimeConsume(r)

Next ==
  \/ \E a \in Artifacts : CreateOneTime(a) \/ \E r \in Requests : Consume(r, a)
  \/ \E r \in Requests : Step(r) \/ EndContext(r)
  \/ FinalizeInterfaceRemoval \/ Crash \/ CleanupOneTime \/ Tick

Spec == Init /\ [][Next]_vars

\* The Go scheduler runs every request on, and systemd restarts an agent that exits.
FairSpec == Spec /\ WF_vars(CleanupOneTime) /\ \A r \in Requests : WF_vars(Step(r))

-----------------------------------------------------------------------------
\* The rows, the requests and the clock are of their types; every row was created
\* with an expiry ahead of the clock.
TypeOK ==
  /\ row \in [Artifacts -> {"none", "ready", "consuming", "consumed", "expired", "removed"}]
  /\ expires \in [Artifacts -> Nat] /\ envelopes \subseteq Artifacts
  /\ \A a \in Artifacts : row[a] = "none" <=> expires[a] = 0
  /\ issued \subseteq Artifacts /\ unsettled \subseteq Artifacts
  /\ handed \in [Artifacts -> Nat]
  /\ pc \in [Requests -> {"idle", "begin", "open", "deliver", "finalize"}]
  /\ art \in [Requests -> Artifacts \cup {NoArtifact}]
  /\ \A r \in Requests : pc[r] # "idle" => art[r] \in Artifacts
  /\ at \in [Requests -> 0..MaxTime]
  /\ result \in [Requests -> {"none", "ok", "error", "unavailable"}]
  /\ ended \subseteq Requests /\ up \in BOOLEAN
  /\ now \in 0..MaxTime /\ faults \in 0..MaxFaults

\* Consume's promise that "no retry path can return the same secret twice": whatever
\* concurrent requests, broken streams, failed finalizers and restarts do, the
\* plaintext of an artifact goes to a stream at most once.
HandedOutOnce == \A a \in Artifacts : handed[a] <= 1

\* The ciphertext is in the database exactly as long as its row is ready or being
\* consumed, the removal of the interface in the middle of a hand-over included.
CiphertextFollowsRow ==
  \A a \in Artifacts : a \in envelopes <=> row[a] \in {"ready", "consuming"}

\* Consume answers without an error only when the secret it handed out is erased.
SuccessErases ==
  \A r \in Requests : pc[r] = "idle" /\ result[r] = "ok" => art[r] \notin envelopes

\* A claimed artifact does not stay claimed: its request erases it however it ends,
\* or a failed finalizer is on record; and a start of the agent erases it anyway.
ClaimIsSettled ==
  \A a \in Artifacts :
    /\ row[a] = "consuming" ~> (row[a] # "consuming" \/ a \in unsettled)
    /\ (row[a] = "consuming" /\ ~up) ~> a \notin envelopes
=============================================================================
