------------------------------- MODULE WebAuth -------------------------------
(***************************************************************************)
(* Sign-in, sessions and password confirmation of wiregate-web:            *)
(* internal/web/auth/manager.go over internal/web/repository/auth.go, as   *)
(* the handlers of internal/web/httpapi call them.                         *)
(*                                                                         *)
(* Handlers run concurrently and every database call is a step, because    *)
(* the verification of a password between two of them is slow on purpose.  *)
(* A deadline is kept as the time that remains, in the database and in     *)
(* what a handler has read; Tick lets time pass.  A confirmation that has  *)
(* ended keeps how long ago it did.  The first administrator is the only   *)
(* user the program ever creates.                                          *)
(***************************************************************************)
EXTENDS Integers, FiniteSets, FiniteSetsExt

CONSTANTS
  Passwords,
  Tokens,      \* bootstrap tokens
  Sessions,    \* rows of the sessions table in use
  Requests,    \* handlers that may run at the same time
  Attempts,    \* recorded failures that lock the account (5)
  LockFor,     \* lifetimes: the lock (15 min), a session without requests
  IdleFor,     \* (30 min) and at most (12 h), a password confirmation
  SessionFor,  \* (5 min), a bootstrap token (15 min)
  ReauthFor,
  TokenFor,
  ReadFor,     \* how long the body of a request may take (ReadTimeout, 15 s)
  MaxLost,     \* bound on the failures of one count that are not recorded
  None

ASSUME LifetimesAssumption ==
  /\ {Attempts, LockFor, IdleFor, SessionFor, ReauthFor, TokenFor} \subseteq Nat \ {0}
  /\ IdleFor <= SessionFor /\ ReadFor \in Nat /\ MaxLost \in Nat
ASSUME RequestsAssumption == IsFiniteSet(Requests)

VARIABLES
  admin,    \* the row of users: password, failed_login_count, locked_until
  token,    \* bootstrap_state
  sess,     \* sessions
  req,      \* what each handler has read, and where it stands
  guesses,  \* history: guesses of the password (IsGuess), and
  lost      \* how many of them were not recorded, since the counts last began:
            \* with a recorded success, a reset or the end of a lock

history == <<guesses, lost>>
vars == <<admin, token, sess, req, history>>

(* A request that changes something, by its handler: reauthenticate,
   changePassword, logout; "sensitive" stands for the export, the consumption of
   an artifact and the preview of a revocation; "commit" for the commit of a
   revocation or a removal. *)
Kinds == {"reauth", "change", "logout", "sensitive", "commit"}

(* Rows and handlers.  None is none of them. *)
Users == [pw : Passwords, failed : 0 .. Attempts + 1, locked : 0 .. LockFor]
BootstrapTokens == [id : Tokens, left : 0 .. TokenFor, consumed : BOOLEAN]
SessionRows ==
  [left : 0 .. SessionFor, idle : 0 .. IdleFor, reauth : -ReadFor .. ReauthFor, revoked : BOOLEAN,
   knows : SUBSET Passwords, late : BOOLEAN]
Handlers ==
  [pc : {"login", "welcome", "required", "confirmed", "check", "body", "agent"},
   kind : Kinds \cup {None}, s : Sessions \cup {None}, pw : Passwords \cup {None}, ok : BOOLEAN,
   locked : 0 .. LockFor, reauth : -ReadFor .. ReauthFor, read : 0 .. ReadFor + 1,
   open : BOOLEAN, overtaken : BOOLEAN]

ASSUME NoneAssumption ==
  None \notin Users /\ None \notin BootstrapTokens /\ None \notin SessionRows /\ None \notin Handlers
-----------------------------------------------------------------------------
(* Sessions *)

Live(s) == sess[s] # None /\ ~sess[s].revoked /\ sess[s].left > 0 /\ sess[s].idle > 0

(* GetSession refuses while the account is locked, and renews the idle deadline. *)
CanGetSession(s) == Live(s) /\ admin.locked = 0
Touched(s) == [sess EXCEPT ![s].idle = Min({IdleFor, sess[s].left})]

NewSession(pw) ==
  [left |-> SessionFor, idle |-> IdleFor, reauth |-> -ReadFor, revoked |-> FALSE,
   knows |-> {pw},            \* history: passwords this session proved or set
   late |-> pw # admin.pw]    \* history: the password changed during its login

(* A row can stand for a new session when no handler holds the old one's token. *)
Unused(s) == ~Live(s) /\ ~\E r \in Requests : req[r] # None /\ req[r].s = s
-----------------------------------------------------------------------------
(* The first administrator *)

Init ==
  /\ admin = None /\ token = None
  /\ sess = [s \in Sessions |-> None]
  /\ req = [r \in Requests |-> None]
  /\ guesses = 0 /\ lost = 0

SetBootstrapToken ==
  /\ admin = None
  /\ \E t \in Tokens : token' = [id |-> t, left |-> TokenFor, consumed |-> FALSE]
  /\ UNCHANGED <<admin, sess, req, history>>

BootstrapAdmin ==
  /\ admin = None
  /\ \E t \in Tokens : /\ token # None /\ token.id = t
                       /\ token.left > 0 /\ ~token.consumed
  /\ \E w \in Passwords : admin' = [pw |-> w, failed |-> 0, locked |-> 0]
  /\ token' = [token EXCEPT !.consumed = TRUE, !.left = 0]
  /\ UNCHANGED <<sess, req, history>>
-----------------------------------------------------------------------------
(* Login *)

Handler(pc) ==
  [pc |-> pc, kind |-> None, s |-> None, pw |-> None, ok |-> FALSE,
   locked |-> 0, reauth |-> 0, read |-> 0,
   open |-> FALSE,            \* history: the account was read as unlocked
   overtaken |-> FALSE]       \* history: a lock was set after the user was read
Done(r) == req' = [req EXCEPT ![r] = None]

(* FindUserByUsername; the given password will be verified against this row. *)
LoginLookup(r) ==
  /\ req[r] = None /\ admin # None
  /\ \E w \in Passwords :
        req' = [req EXCEPT ![r] = [Handler("login") EXCEPT
                  !.pw = admin.pw, !.ok = (w = admin.pw),
                  !.locked = admin.locked, !.open = (admin.locked = 0)]]
  /\ UNCHANGED <<admin, token, sess, history>>

(* Mistake: the lock comes one failure late. *)
LocksLate(failed) == failed > Attempts

LocksAt(failed) == failed >= Attempts

(* RecordLoginFailure: counted also while the account is locked, which prolongs
   the lock.  Counts beyond Attempts are all alike. *)
RecordLoginFailure(r) ==
  LET failed == admin.failed + 1
  IN  /\ admin' = [admin EXCEPT !.failed = Min({failed, Attempts + 1}),
                                !.locked = IF LocksAt(failed) THEN LockFor ELSE @]
      /\ req' = [q \in Requests |->
                   IF q = r THEN None
                   ELSE IF LocksAt(failed) /\ req[q] # None
                        THEN [req[q] EXCEPT !.overtaken = req[q].pc \in {"login", "welcome"}]
                        ELSE req[q]]

(* Mistake: a good password opens a locked account. *)
AcceptedWhileLocked(r) == req[r].ok

Accepted(r) == req[r].ok /\ req[r].locked = 0
Rejected(r) == req[r] # None /\ req[r].pc = "login" /\ ~Accepted(r)

(* History: a wrong password was tried, not turned away by a lock.  What does not
   count is a login that read a lock and outlasted it, when that lock had been
   prolonged meanwhile. *)
IsGuess(r) == req[r].open \/ (req[r].locked = 0 /\ ~req[r].overtaken)

(* The error of RecordLoginFailure is ignored: a failure may go unrecorded. *)
LoginRejected(r) ==
  /\ Rejected(r)
  /\ LET guess == IF IsGuess(r) THEN 1 ELSE 0
     IN  /\ guesses' = guesses + guess
         /\ \/ RecordLoginFailure(r) /\ lost' = lost
            \/ lost + guess <= MaxLost /\ lost' = lost + guess /\ Done(r) /\ admin' = admin
  /\ UNCHANGED <<token, sess>>

(* CreateSession, whatever has happened to the user since it was read. *)
LoginAccepted(r) ==
  /\ req[r] # None /\ req[r].pc = "login" /\ Accepted(r)
  /\ \E s \in Sessions : Unused(s) /\ sess' = [sess EXCEPT ![s] = NewSession(req[r].pw)]
  /\ req' = [req EXCEPT ![r].pc = "welcome"]
  /\ UNCHANGED <<admin, token, history>>

(* RecordLoginSuccess; its error is ignored too. *)
LoginRecorded(r) ==
  /\ req[r] # None /\ req[r].pc = "welcome"
  /\ \/ admin' = [admin EXCEPT !.failed = 0, !.locked = 0] /\ guesses' = 0 /\ lost' = 0
     \/ UNCHANGED <<admin, history>>
  /\ Done(r)
  /\ UNCHANGED <<token, sess>>
-----------------------------------------------------------------------------
(* Requests of a session *)

(* Manager.Require: the principal is a copy of the session's row. *)
Principal(s, kind, pc) ==
  [Handler(pc) EXCEPT !.kind = kind, !.s = s, !.reauth = sess[s].reauth]

Require(r, s) ==
  /\ req[r] = None /\ CanGetSession(s)
  /\ sess' = Touched(s)
  /\ \E kind \in Kinds :
        req' = [req EXCEPT ![r] =
                  Principal(s, kind, IF kind = "sensitive" THEN "check" ELSE "required")]
  /\ UNCHANGED <<admin, token, history>>

At(r, pc, kinds) == req[r] # None /\ req[r].pc = pc /\ req[r].kind \in kinds

(* Reauthenticate and ChangePassword read the session again, and verify the
   password against the row they got. *)
ReadPassword(r) ==
  /\ At(r, "required", {"reauth", "change"})
  /\ LET s == req[r].s
     IN  \/ /\ CanGetSession(s)
            /\ sess' = Touched(s)
            /\ \/ req' = [req EXCEPT ![r].pc = "confirmed", ![r].pw = admin.pw]
               \/ Done(r)     \* the password is wrong
         \/ ~CanGetSession(s) /\ Done(r) /\ UNCHANGED sess
  /\ UNCHANGED <<admin, token, history>>

Confirm(s, pw) ==
  [sess[s] EXCEPT !.reauth = ReauthFor, !.knows = @ \cup {pw}]

MarkReauthenticated(r) ==
  /\ At(r, "confirmed", {"reauth"})
  /\ LET s == req[r].s
     IN  sess' = IF sess[s].revoked THEN sess
                 ELSE [sess EXCEPT ![s] = Confirm(s, req[r].pw)]
  /\ Done(r)
  /\ UNCHANGED <<admin, token, history>>

(* Mistake: the other sessions stay. *)
ChangedKeepingOthers(s, t, w) ==
  IF t = s /\ ~sess[t].revoked THEN Confirm(t, w) ELSE sess[t]

(* What ChangePassword on session s does to session t. *)
Changed(s, t, w) ==
  IF sess[t] = None \/ sess[t].revoked THEN sess[t]
  ELSE IF t = s THEN Confirm(t, w) ELSE [sess[t] EXCEPT !.revoked = TRUE]

(* Neither the old password nor the session is looked at again. *)
ChangePassword(r) ==
  /\ At(r, "confirmed", {"change"})
  /\ \E w \in Passwords :
        /\ admin' = [admin EXCEPT !.pw = w]
        /\ sess' = [t \in Sessions |-> Changed(req[r].s, t, w)]
  /\ Done(r)
  /\ UNCHANGED <<token, history>>

Logout(r) ==
  /\ At(r, "required", {"logout"})
  /\ sess' = [sess EXCEPT ![req[r].s].revoked = TRUE]
  /\ Done(r)
  /\ UNCHANGED <<admin, token, history>>

(* commitOperation asks the agent for the operation's type and requires its
   permission in a second round. *)
RequireAgain(r) ==
  /\ At(r, "required", {"commit"})
  /\ LET s == req[r].s
     IN  \/ /\ CanGetSession(s)
            /\ sess' = Touched(s)
            /\ req' = [req EXCEPT ![r] = Principal(s, "commit", "check")]
         \/ ~CanGetSession(s) /\ Done(r) /\ UNCHANGED sess
  /\ UNCHANGED <<admin, token, history>>

(* Mistake: the password given at sign-in counts as a confirmation. *)
ConfirmedAtLogin(s, reauth) == sess[s].knows # {}

(* RequireRecentReauth, on the copy the handler has. *)
RecentlyConfirmed(s, reauth) == reauth > 0

CheckReauth(r) ==
  /\ At(r, "check", Kinds)
  /\ IF RecentlyConfirmed(req[r].s, req[r].reauth)
     THEN req' = [req EXCEPT ![r].pc = "body"] ELSE Done(r)
  /\ UNCHANGED <<admin, token, sess, history>>

(* The body is read after the check, until the server's read timeout at most; only
   previewPeerLifecycle reads it before, and calls at once. *)
CallAgent(r) ==
  /\ At(r, "body", Kinds) /\ req[r].read <= ReadFor
  /\ req' = [req EXCEPT ![r].pc = "agent"]
  /\ UNCHANGED <<admin, token, sess, history>>

AgentAnswers(r) ==
  /\ At(r, "agent", Kinds)
  /\ Done(r)
  /\ UNCHANGED <<admin, token, sess, history>>
-----------------------------------------------------------------------------
(* The process and the clock *)

(* The next call of a handler fails, its body is not read in time, or its client has
   gone: it answers with an error and writes nothing more.  A rejected login is left
   to LoginRejected, where the call that fails is the record of its failure. *)
Abort(r) ==
  /\ req[r] # None /\ ~Rejected(r)
  /\ Done(r)
  /\ UNCHANGED <<admin, token, sess, history>>

(* The web process ends, with its handlers; rows survive. *)
WebStops ==
  /\ \E r \in Requests : req[r] # None
  /\ req' = [r \in Requests |-> None]
  /\ UNCHANGED <<admin, token, sess, history>>

(* reset-password on the console; deployments/bundle/admin.sh stops the web process
   around it. *)
ResetAdminPassword ==
  /\ admin # None
  /\ \E w \in Passwords : admin' = [pw |-> w, failed |-> 0, locked |-> 0]
  /\ sess' = [s \in Sessions |-> IF sess[s] = None THEN None
                                 ELSE [sess[s] EXCEPT !.revoked = TRUE]]
  /\ req' = [r \in Requests |-> None]
  /\ guesses' = 0 /\ lost' = 0
  /\ UNCHANGED token

Less(n) == IF n = 0 THEN 0 ELSE n - 1
Past(n) == IF n = -ReadFor THEN n ELSE n - 1

(* When a lock runs out, one more recorded failure locks again. *)
Tick ==
  /\ admin' = IF admin = None THEN None ELSE [admin EXCEPT !.locked = Less(@)]
  /\ token' = IF token = None THEN None ELSE [token EXCEPT !.left = Less(@)]
  /\ sess' = [s \in Sessions |-> IF sess[s] = None THEN None
                ELSE [sess[s] EXCEPT !.left = Less(@), !.idle = Less(@), !.reauth = Past(@)]]
  /\ req' = [r \in Requests |-> IF req[r] = None THEN None
                ELSE [req[r] EXCEPT !.locked = Less(@), !.reauth = Past(@),
                        !.read = IF req[r].pc = "body" THEN Min({@ + 1, ReadFor + 1}) ELSE @]]
  /\ IF admin # None /\ admin.locked = 1
     THEN guesses' = Attempts - 1 /\ lost' = 0 ELSE UNCHANGED history

Next ==
  \/ SetBootstrapToken \/ BootstrapAdmin
  \/ \E r \in Requests :
        \/ LoginLookup(r) \/ LoginRejected(r) \/ LoginAccepted(r) \/ LoginRecorded(r)
        \/ \E s \in Sessions : Require(r, s)
        \/ ReadPassword(r) \/ MarkReauthenticated(r) \/ ChangePassword(r) \/ Logout(r)
        \/ RequireAgain(r) \/ CheckReauth(r) \/ CallAgent(r)
        \/ AgentAnswers(r) \/ Abort(r)
  \/ WebStops \/ ResetAdminPassword \/ Tick

Spec == Init /\ [][Next]_vars
-----------------------------------------------------------------------------
(* Types *)
TypeOK ==
  /\ admin \in Users \cup {None} /\ token \in BootstrapTokens \cup {None}
  /\ sess \in [Sessions -> SessionRows \cup {None}]
  /\ req \in [Requests -> Handlers \cup {None}]
  /\ guesses \in Nat /\ lost \in 0 .. MaxLost

(* Whoever can still use a session proved, or set, the password now in force:
   changing or resetting it shuts out every session opened with another one, also
   when two changes, logins and confirmations run at once.  The one exception is a
   login that read the user before the change and opened its session after it
   (Login, ChangePassword, ResetAdminPassword). *)
KnowsPassword ==
  \A s \in Sessions : Live(s) => admin.pw \in sess[s].knows \/ sess[s].late

(* A locked account is entered, and its lock taken back by a recorded success, only
   by a login that read the user before that lock was set or prolonged, whatever
   locks, expiries and failures run in between (Login checks the lock it read,
   RecordLoginFailure sets it, RecordLoginSuccess clears it unseen). *)
LockOnlyOutrun ==
  [][\A r \in Requests :
       LoginAccepted(r) \/ (LoginRecorded(r) /\ admin' # admin)
         => admin.locked = 0 \/ req[r].overtaken]_vars

(* Concurrent sign-ins do not buy more than one guess each beyond the failures that
   lock the account, whatever sequence of locks and expiries went before; and one
   more for each failure whose record was lost, since Login ignores the error of
   RecordLoginFailure.  The count starts anew with a recorded success or a reset, and
   from one below the lock when a lock runs out.  A login that outlasts a lock it has
   read, which others have prolonged, makes a guess that is not counted (IsGuess). *)
GuessesBounded == guesses <= Attempts - 1 + Cardinality(Requests) + lost

(* RequireRecentReauth lets a handler on only while the session's confirmation is
   recent, though it looks at a copy, which may have waited for a body; and the
   agent is called while that confirmation ended no longer ago than a body takes to
   be read, for exportClient, consumeOneTimeArtifact and commitOperation read theirs
   after the check.  If the session has not been revoked meanwhile, what was
   confirmed is the password now in force, even for a session whose login was
   overtaken (MarkReauthenticated, ChangePassword). *)
SensitiveIsConfirmed ==
  [][\A r \in Requests :
       LET session == sess[req[r].s]
       IN  /\ CheckReauth(r) /\ req'[r] # None => session.reauth > 0
           /\ CallAgent(r) => /\ session.reauth > -ReadFor
                              /\ session.revoked \/ admin.pw \in session.knows]_vars
=============================================================================
