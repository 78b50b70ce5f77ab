---------------------------- MODULE WebAuthProofs ----------------------------
(***************************************************************************)
(* Proofs about WebAuth, for any number of handlers, sessions and          *)
(* passwords and any lifetimes.                                            *)
(*                                                                         *)
(* What a handler has read may be stale when it is used.  The invariant    *)
(* says how stale: HandlerOK relates a handler's copy to the rows of the   *)
(* database, SessionOK a session to the password in force, and Counted     *)
(* the guesses to the recorded failures and the logins still under way.    *)
(***************************************************************************)
EXTENDS WebAuth, FiniteSetTheorems, TLAPS

InLogin == {"login", "welcome"}
InSession == {"required", "confirmed", "check", "body", "agent"}

\* Before the first administrator exists nobody can have signed in.
Registered ==
  admin = None => /\ \A s \in Sessions : sess[s] = None
                  /\ \A r \in Requests : req[r] = None

\* A login's copy of the lock lasts as long as the lock, unless it was overtaken; a
\* principal's confirmation no longer than the session's; a handler that reads its
\* body found a confirmation that has ended since at most; and a password that was
\* read for a session that still holds is the one in force, or that session knows
\* what replaced it.
HandlerOK(q) ==
  /\ q.pc \in InLogin => q.pw \in Passwords /\ (q.locked >= admin.locked \/ q.overtaken)
  /\ q.pc \in InSession =>
       q.kind \in Kinds /\ q.s \in Sessions /\ sess[q.s] # None /\ q.reauth <= sess[q.s].reauth
  /\ q.pc = "welcome" => q.locked = 0
  /\ q.pc = "check" => q.read = 0
  /\ q.pc = "body" => sess[q.s].reauth + q.read > 0 \/ q.read > ReadFor
  /\ q.pc = "confirmed" =>
       /\ q.kind \in {"reauth", "change"} /\ q.pw \in Passwords
       /\ sess[q.s].revoked \/ q.pw = admin.pw \/ admin.pw \in sess[q.s].knows
HandlersOK == \A r \in Requests : req[r] # None => HandlerOK(req[r])

\* A session that can be used knows the password, or is late; one whose password
\* has been confirmed lately knows it in any case.
SessionOK(x) ==
  /\ ~x.revoked /\ x.left > 0 /\ x.idle > 0 => admin.pw \in x.knows \/ x.late
  /\ ~x.revoked /\ x.reauth > -ReadFor => admin.pw \in x.knows
SessionsOK == \A s \in Sessions : sess[s] # None => SessionOK(sess[s])

\* Logins under way that read the account as unlocked
Opens == {r \in Requests : req[r] # None /\ req[r].pc = "login" /\ req[r].open}

\* Without a lock every guess is a recorded failure or lost, or the next recorded one
\* locks again; under a lock only the logins that are still open can add to them.
Counted ==
  admin # None =>
    IF admin.locked = 0
    THEN guesses < Attempts + lost /\ (admin.failed < Attempts => guesses <= admin.failed + lost)
    ELSE /\ admin.failed >= Attempts
         /\ guesses + Cardinality(Opens) <= Attempts - 1 + Cardinality(Requests) + lost

IInv ==
  /\ TypeOK /\ Registered /\ HandlersOK /\ SessionsOK /\ Counted
  /\ admin = None => guesses = 0 /\ lost = 0

-----------------------------------------------------------------------------
(* Lemmas *)

LEMMA Lifetimes ==
  /\ Attempts \in Nat /\ LockFor \in Nat /\ IdleFor \in Nat /\ SessionFor \in Nat
  /\ ReauthFor \in Nat /\ TokenFor \in Nat
  /\ Attempts > 0 /\ LockFor > 0 /\ IdleFor > 0 /\ SessionFor > 0 /\ ReauthFor > 0 /\ TokenFor > 0
  /\ IdleFor <= SessionFor /\ ReadFor \in Nat /\ MaxLost \in Nat
BY LifetimesAssumption

LEMMA MinOfTwo ==
  ASSUME NEW a \in Nat, NEW b \in Nat
  PROVE  Min({a, b}) = IF a <= b THEN a ELSE b
<1> DEFINE m == IF a <= b THEN a ELSE b
<1>1. m \in {a, b} /\ \A y \in {a, b} : m <= y
  OBVIOUS
<1>2. \A x \in {a, b} : (\A y \in {a, b} : x <= y) => x = m
  OBVIOUS
<1> QED BY <1>1, <1>2 DEF Min

\* The open logins are among the handlers, so their number is known to be small.
LEMMA OpensBounded ==
  /\ Cardinality(Requests) \in Nat
  /\ IsFiniteSet(Opens) /\ Cardinality(Opens) \in Nat /\ Cardinality(Opens) <= Cardinality(Requests)
<1>1. Opens \subseteq Requests
  BY DEF Opens
<1>2. IsFiniteSet(Opens) /\ Cardinality(Opens) <= Cardinality(Requests)
  BY <1>1, RequestsAssumption, FS_Subset
<1> QED BY <1>2, RequestsAssumption, FS_CardinalityType

\* A step that opens no login keeps the count.
LEMMA CountedKept ==
  ASSUME TypeOK, Counted, admin # None, admin' # None, UNCHANGED history, Opens' \subseteq Opens,
         admin'.locked = admin.locked, admin'.failed = admin.failed
  PROVE  Counted'
<1>1. Cardinality(Opens') <= Cardinality(Opens) /\ Cardinality(Opens') \in Nat
  BY OpensBounded, FS_Subset, FS_CardinalityType
<1> QED BY <1>1, OpensBounded, Lifetimes DEF TypeOK, Counted, history

-----------------------------------------------------------------------------
(* Steps *)

LEMMA InitInv == Init => IInv
<1> SUFFICES ASSUME Init PROVE IInv
  OBVIOUS
<1>1. TypeOK
  BY Lifetimes DEF Init, TypeOK
<1>2. Registered /\ HandlersOK /\ SessionsOK /\ Counted /\ guesses = 0 /\ lost = 0
  BY DEF Init, Registered, HandlersOK, SessionsOK, Counted
<1> QED BY <1>1, <1>2 DEF IInv

\* A handler that ends, and changes nothing
LEMMA DoneStep ==
  ASSUME IInv, NEW r \in Requests, Done(r), UNCHANGED <<admin, token, sess, history>>
  PROVE  IInv'
<1>1. TypeOK' /\ Registered'
  BY DEF IInv, Done, TypeOK, Registered, history
<1>2. HandlersOK'
  BY DEF IInv, Done, TypeOK, HandlersOK, HandlerOK
<1>3. SessionsOK'
  BY DEF IInv, TypeOK, SessionsOK, SessionOK
<1>4. Opens' \subseteq Opens
  BY DEF IInv, Done, TypeOK, Opens
<1>5. Counted'
  BY <1>4, CountedKept DEF IInv, Counted
<1> QED BY <1>1, <1>2, <1>3, <1>5 DEF IInv, history

LEMMA SetBootstrapTokenStep == ASSUME IInv, SetBootstrapToken PROVE IInv'
<1>1. TypeOK'
  BY Lifetimes DEF IInv, TypeOK, SetBootstrapToken, BootstrapTokens, history
<1>2. Registered' /\ HandlersOK' /\ SessionsOK' /\ Counted'
  BY DEF IInv, SetBootstrapToken, Registered, HandlersOK, HandlerOK, SessionsOK, SessionOK, Counted,
         Opens
<1> QED BY <1>1, <1>2 DEF IInv, SetBootstrapToken, history

LEMMA BootstrapAdminStep == ASSUME IInv, BootstrapAdmin PROVE IInv'
<1>0. PICK w \in Passwords : admin' = [pw |-> w, failed |-> 0, locked |-> 0]
  BY DEF BootstrapAdmin
<1>1. admin' \in Users /\ admin' # None
  BY <1>0, Lifetimes, NoneAssumption DEF Users
<1>2. token' \in BootstrapTokens
  <2>1. token \in BootstrapTokens /\ token' = [token EXCEPT !.consumed = TRUE, !.left = 0]
    BY DEF IInv, TypeOK, BootstrapAdmin
  <2>2. 0 \in 0 .. TokenFor /\ TRUE \in BOOLEAN
    BY Lifetimes
  <2> QED BY <2>1, <2>2, Zenon DEF BootstrapTokens
<1>3. TypeOK'
  BY <1>1, <1>2 DEF IInv, TypeOK, BootstrapAdmin, history
<1>4. HandlersOK' /\ SessionsOK'
  BY DEF IInv, BootstrapAdmin, Registered, HandlersOK, SessionsOK
<1>5. Counted'
  BY <1>0, Lifetimes DEF IInv, BootstrapAdmin, Counted, history
<1> QED BY <1>1, <1>3, <1>4, <1>5 DEF IInv, Registered

\* A fresh handler is well typed, and takes no part in anything yet.
LEMMA HandlerType ==
  ASSUME NEW pc \in InLogin \cup InSession
  PROVE  Handler(pc) \in Handlers
BY Lifetimes DEF Handler, Handlers, InLogin, InSession

LEMMA LoginLookupStep ==
  ASSUME IInv, NEW r \in Requests, LoginLookup(r)
  PROVE  IInv'
<1> DEFINE q(w) == [Handler("login") EXCEPT !.pw = admin.pw, !.ok = (w = admin.pw),
                      !.locked = admin.locked, !.open = (admin.locked = 0)]
<1>0. PICK w \in Passwords : req' = [req EXCEPT ![r] = q(w)]
  BY DEF LoginLookup
<1>1. admin \in Users /\ admin # None /\ req[r] = None
  BY DEF IInv, TypeOK, LoginLookup
<1>2. q(w) \in Handlers
  <2>1. (w = admin.pw) \in BOOLEAN /\ (admin.locked = 0) \in BOOLEAN
    OBVIOUS
  <2>2. admin.pw \in Passwords /\ admin.locked \in 0 .. LockFor
    BY <1>1 DEF Users
  <2>3. Handler("login") \in Handlers
    BY HandlerType DEF InLogin
  <2> HIDE <1>1
  <2> QED BY <2>1, <2>2, <2>3, Zenon DEF Handlers
<1>3. /\ q(w).pc = "login" /\ q(w).pw = admin.pw /\ q(w).locked = admin.locked
      /\ q(w).open = (admin.locked = 0)
  BY DEF Handler
<1> HIDE DEF q
<1>4. TypeOK'
  BY <1>0, <1>2 DEF IInv, TypeOK, LoginLookup, history
<1>5. HandlersOK'
  <2> SUFFICES ASSUME NEW x \in Requests, req'[x] # None PROVE HandlerOK(req[x])'
    BY DEF HandlersOK
  <2>1. CASE x = r
    <3>1. req'[x] = q(w) /\ admin' = admin
      BY <2>1, <1>0 DEF IInv, TypeOK, LoginLookup
    <3>2. admin.pw \in Passwords /\ admin.locked \in Nat
      BY <1>1, Lifetimes DEF Users
    <3> QED BY <3>1, <3>2, <1>3 DEF HandlerOK, InLogin, InSession
  <2>2. CASE x # r
    BY <2>2, <1>0 DEF IInv, TypeOK, LoginLookup, HandlersOK, HandlerOK
  <2> QED BY <2>1, <2>2
<1>6. SessionsOK'
  BY DEF IInv, LoginLookup, SessionsOK, SessionOK
<1>7. Counted'
  <2>1. CASE admin.locked = 0
    BY <2>1, <1>1 DEF IInv, LoginLookup, Counted, history
  <2>2. CASE admin.locked # 0
    <3>1. Opens' \subseteq Opens
      BY <2>2, <1>0, <1>3 DEF IInv, TypeOK, LoginLookup, Opens
    <3> QED BY <3>1, <1>1, CountedKept DEF IInv, LoginLookup
  <2> QED BY <2>1, <2>2
<1> QED BY <1>1, <1>4, <1>5, <1>6, <1>7 DEF IInv, Registered, LoginLookup

LEMMA OvertakenType ==
  ASSUME NEW q \in Handlers
  PROVE  [q EXCEPT !.overtaken = q.pc \in {"login", "welcome"}] \in Handlers
<1>1. (q.pc \in {"login", "welcome"}) \in BOOLEAN
  OBVIOUS
<1> QED BY <1>1, Zenon DEF Handlers

\* A recorded failure overtakes the other logins if it locks, and is counted if it was
\* a guess.
LEMMA RecordLoginFailureStep ==
  ASSUME IInv, NEW r \in Requests, LoginRejected(r), RecordLoginFailure(r), lost' = lost
  PROVE  IInv'
<1> DEFINE failed == admin.failed + 1
<1>0. admin \in Users /\ admin # None /\ req[r] # None /\ req[r].pc = "login" /\ req[r] \in Handlers
  BY DEF IInv, TypeOK, Registered, LoginRejected, Rejected
<1>1. /\ admin.failed \in Nat /\ admin.failed <= Attempts + 1
      /\ admin.locked \in 0 .. LockFor /\ admin.pw \in Passwords
  BY <1>0, Lifetimes DEF Users
<1>2. Min({failed, Attempts + 1}) = IF failed <= Attempts + 1 THEN failed ELSE Attempts + 1
  BY <1>1, Lifetimes, MinOfTwo
<1>3. admin' = [admin EXCEPT !.failed = Min({failed, Attempts + 1}),
                             !.locked = IF LocksAt(failed) THEN LockFor ELSE @]
  BY DEF RecordLoginFailure
<1>4. /\ admin' \in Users /\ admin'.pw = admin.pw
      /\ admin'.locked = IF failed >= Attempts THEN LockFor ELSE admin.locked
      /\ admin'.failed = IF failed <= Attempts + 1 THEN failed ELSE Attempts + 1
  <2> DEFINE n == Min({failed, Attempts + 1})
             l == IF LocksAt(failed) THEN LockFor ELSE admin.locked
  <2>1. n \in 0 .. Attempts + 1 /\ l \in 0 .. LockFor
    BY <1>1, <1>2, Lifetimes
  <2>2. l = IF failed >= Attempts THEN LockFor ELSE admin.locked
    BY DEF LocksAt
  <2>3. admin' = [admin EXCEPT !.failed = n, !.locked = l]
    BY <1>3
  <2> HIDE DEF n, l
  <2>4. admin' \in Users /\ admin'.pw = admin.pw /\ admin'.failed = n /\ admin'.locked = l
    BY <1>0, <2>1, <2>3 DEF Users
  <2>5. n = IF failed <= Attempts + 1 THEN failed ELSE Attempts + 1
    BY <1>2 DEF n
  <2> QED BY <2>2, <2>4, <2>5
<1>5. admin' # None
  BY <1>4, NoneAssumption
<1>6. req' = [q \in Requests |->
                   IF q = r THEN None
                   ELSE IF LocksAt(failed) /\ req[q] # None
                        THEN [req[q] EXCEPT !.overtaken = req[q].pc \in {"login", "welcome"}]
                        ELSE req[q]]
  BY DEF RecordLoginFailure
<1>7. TypeOK'
  <2>1. \A q \in Requests : req'[q] \in Handlers \cup {None}
    <3> TAKE q \in Requests
    <3>1. req[q] # None => [req[q] EXCEPT !.overtaken = req[q].pc \in {"login", "welcome"}] \in Handlers
      BY OvertakenType DEF IInv, TypeOK
    <3> QED BY <1>6, <3>1 DEF IInv, TypeOK
  <2>2. guesses' \in Nat
    BY DEF IInv, TypeOK, LoginRejected
  <2>3. req' \in [Requests -> Handlers \cup {None}]
    BY <1>6, <2>1
  <2> QED BY <1>4, <2>2, <2>3 DEF IInv, TypeOK, LoginRejected
<1>8. \A q \in Requests : req'[q] # None =>
        /\ req[q] # None /\ q # r /\ req'[q].read = req[q].read
        /\ req'[q].pc = req[q].pc /\ req'[q].pw = req[q].pw /\ req'[q].locked = req[q].locked
        /\ req'[q].kind = req[q].kind /\ req'[q].s = req[q].s /\ req'[q].reauth = req[q].reauth
        /\ req'[q].open = req[q].open
        /\ failed >= Attempts /\ req[q].pc \in InLogin => req'[q].overtaken
        /\ failed < Attempts => req'[q] = req[q]
  <2> SUFFICES ASSUME NEW q \in Requests, req'[q] # None
               PROVE  /\ req[q] # None /\ q # r /\ req'[q].read = req[q].read
                      /\ req'[q].pc = req[q].pc /\ req'[q].pw = req[q].pw
                      /\ req'[q].locked = req[q].locked /\ req'[q].kind = req[q].kind
                      /\ req'[q].s = req[q].s /\ req'[q].reauth = req[q].reauth
                      /\ req'[q].open = req[q].open
                      /\ failed >= Attempts /\ req[q].pc \in InLogin => req'[q].overtaken
                      /\ failed < Attempts => req'[q] = req[q]
    OBVIOUS
  <2>1. req[q] # None /\ q # r /\ req[q] \in Handlers
    BY <1>6 DEF IInv, TypeOK
  <2>2. CASE LocksAt(failed)
    <3>1. req'[q] = [req[q] EXCEPT !.overtaken = req[q].pc \in InLogin] /\ failed >= Attempts
      BY <1>6, <2>1, <2>2 DEF LocksAt, InLogin
    <3>2. ~(failed < Attempts)
      BY <3>1, <1>1, Lifetimes
    <3> QED BY <2>1, <3>1, <3>2, Zenon DEF Handlers
  <2>3. CASE ~LocksAt(failed)
    BY <1>6, <2>1, <2>3 DEF LocksAt
  <2> QED BY <2>2, <2>3
<1>9. HandlersOK'
  BY <1>1, <1>4, <1>8, Lifetimes DEF IInv, HandlersOK, HandlerOK, LoginRejected
<1>10. SessionsOK'
  BY <1>4 DEF IInv, SessionsOK, SessionOK, LoginRejected
<1>11. Counted'
  <2>1. Opens' = Opens \ {r}
    <3>1. \A q \in Requests : q # r /\ req[q] # None => req'[q] # None
      <4> SUFFICES ASSUME NEW q \in Requests, q # r, req[q] # None PROVE req'[q] # None
        OBVIOUS
      <4>1. [req[q] EXCEPT !.overtaken = req[q].pc \in {"login", "welcome"}] \in Handlers
        BY OvertakenType DEF IInv, TypeOK
      <4> QED BY <1>6, <4>1, NoneAssumption
    <3> QED BY <1>6, <1>8, <3>1 DEF Opens
  <2>2. Cardinality(Opens') = IF req[r].open THEN Cardinality(Opens) - 1 ELSE Cardinality(Opens)
    <3>1. r \in Opens <=> req[r].open
      BY <1>0 DEF Opens
    <3> QED BY <2>1, <3>1, OpensBounded, FS_RemoveElement
  <2>3. guesses' = guesses + IF IsGuess(r) THEN 1 ELSE 0
    BY DEF LoginRejected
  <2>5. IsGuess(r) => req[r].open \/ admin.locked = 0
    BY <1>0, <1>1, Lifetimes DEF IsGuess, IInv, HandlersOK, HandlerOK, InLogin, Handlers
  <2>6. Cardinality(Opens') <= Cardinality(Requests) - 1
    <3>1. Opens' \subseteq Requests \ {r} /\ IsFiniteSet(Requests \ {r})
      BY <2>1, OpensBounded, FS_RemoveElement, RequestsAssumption DEF Opens
    <3>2. Cardinality(Requests \ {r}) = Cardinality(Requests) - 1
      BY FS_RemoveElement, RequestsAssumption
    <3> QED BY <3>1, <3>2, FS_Subset
  <2>4. guesses \in Nat /\ lost \in Nat /\ Counted
    BY Lifetimes DEF IInv, TypeOK
  <2> QED BY <1>0, <1>1, <1>4, <2>2, <2>3, <2>4, <2>5, <2>6, OpensBounded, Lifetimes DEF Counted
<1> QED BY <1>0, <1>5, <1>7, <1>9, <1>10, <1>11 DEF IInv, Registered

\* A failure that is lost is a guess all the same.
LEMMA RecordLostStep ==
  ASSUME IInv, NEW r \in Requests, LoginRejected(r), Done(r), admin' = admin,
         lost' = lost + (IF IsGuess(r) THEN 1 ELSE 0), lost' <= MaxLost
  PROVE  IInv'
<1>0. /\ admin \in Users /\ admin # None /\ req[r] # None /\ req[r].pc = "login"
      /\ req[r] \in Handlers /\ UNCHANGED <<token, sess>>
  BY DEF IInv, TypeOK, Registered, LoginRejected, Rejected
<1>1. guesses' = guesses + IF IsGuess(r) THEN 1 ELSE 0
  BY DEF LoginRejected
<1>2. guesses \in Nat /\ lost \in Nat /\ guesses' \in Nat /\ lost' \in 0 .. MaxLost
  BY <1>1, Lifetimes DEF IInv, TypeOK
<1>3. TypeOK' /\ Registered'
  BY <1>0, <1>2 DEF IInv, Done, TypeOK, Registered
<1>4. HandlersOK'
  BY <1>0 DEF IInv, Done, TypeOK, HandlersOK, HandlerOK
<1>5. SessionsOK'
  BY <1>0 DEF IInv, TypeOK, SessionsOK, SessionOK
<1>6. Opens' = Opens \ {r}
  BY DEF IInv, Done, TypeOK, Opens
<1>7. Cardinality(Opens') = IF req[r].open THEN Cardinality(Opens) - 1 ELSE Cardinality(Opens)
  <2>1. r \in Opens <=> req[r].open
    BY <1>0 DEF Opens
  <2> QED BY <1>6, <2>1, OpensBounded, FS_RemoveElement
<1>8. Counted'
  BY <1>0, <1>1, <1>2, <1>7, OpensBounded, Lifetimes DEF IInv, Counted, Users
<1> QED BY <1>0, <1>3, <1>4, <1>5, <1>8 DEF IInv

LEMMA LoginRejectedStep == ASSUME IInv, NEW r \in Requests, LoginRejected(r) PROVE IInv'
BY RecordLoginFailureStep, RecordLostStep DEF LoginRejected

\* Whoever holds a session's token holds it until the request is over, so a new
\* session takes nobody's row; and it knows the password, or is late.
LEMMA LoginAcceptedStep == ASSUME IInv, NEW r \in Requests, LoginAccepted(r) PROVE IInv'
<1>0. /\ admin \in Users /\ admin # None /\ req[r] \in Handlers /\ req[r] # None
      /\ req[r].pc = "login" /\ req[r].pw \in Passwords
      /\ req' = [req EXCEPT ![r].pc = "welcome"] /\ UNCHANGED <<admin, token, history>>
  BY DEF IInv, TypeOK, Registered, HandlersOK, HandlerOK, LoginAccepted, InLogin
<1>1. PICK s \in Sessions : Unused(s) /\ sess' = [sess EXCEPT ![s] = NewSession(req[r].pw)]
  BY DEF LoginAccepted
<1> DEFINE x == NewSession(req[r].pw)
<1>2. x.reauth = -ReadFor /\ (admin.pw \in x.knows \/ x.late)
  BY Zenon DEF NewSession
<1>3. x # None /\ x \in SessionRows
  <2>1. (req[r].pw # admin.pw) \in BOOLEAN
    OBVIOUS
  <2>2. SessionFor \in 0 .. SessionFor /\ IdleFor \in 0 .. IdleFor /\ -ReadFor \in -ReadFor .. ReauthFor
    BY Lifetimes
  <2>3. x \in SessionRows
    BY <1>0, <2>1, <2>2, Zenon DEF NewSession, SessionRows
  <2> QED BY <2>3, NoneAssumption
<1> HIDE DEF x
<1>4. /\ req'[r].pc = "welcome" /\ req'[r].pw = req[r].pw /\ req'[r].locked = req[r].locked
      /\ req'[r].overtaken = req[r].overtaken /\ req'[r] \in Handlers
      /\ \A q \in Requests \ {r} : req'[q] = req[q]
  BY <1>0 DEF IInv, TypeOK, Handlers
<1>5. TypeOK'
  BY <1>0, <1>1, <1>3 DEF IInv, TypeOK, Handlers, x, history
<1>6. HandlersOK'
  <2> SUFFICES ASSUME NEW q \in Requests, req'[q] # None PROVE HandlerOK(req[q])'
    BY DEF HandlersOK
  <2>1. CASE q = r
    BY <2>1, <1>0, <1>4 DEF IInv, HandlersOK, HandlerOK, LoginAccepted, Accepted, InLogin, InSession
  <2>2. CASE q # r
    <3>1. req'[q] = req[q] /\ HandlerOK(req[q]) /\ req[q].s # s
      BY <2>2, <1>1, <1>4 DEF IInv, HandlersOK, Unused
    <3> QED BY <3>1, <1>0, <1>1 DEF IInv, TypeOK, HandlerOK, InSession
  <2> QED BY <2>1, <2>2
<1>7. SessionsOK'
  BY <1>0, <1>1, <1>2, <1>3, Lifetimes DEF IInv, TypeOK, SessionsOK, SessionOK, x
<1>8. Opens' \subseteq Opens
  BY <1>4 DEF Opens
<1>9. Counted'
  BY <1>0, <1>8, CountedKept DEF IInv
<1> QED BY <1>0, <1>5, <1>6, <1>7, <1>9 DEF IInv, Registered

LEMMA LoginRecordedStep == ASSUME IInv, NEW r \in Requests, LoginRecorded(r) PROVE IInv'
<1>1. CASE UNCHANGED <<admin, history>>
  BY <1>1, DoneStep DEF LoginRecorded
<1>2. CASE admin' = [admin EXCEPT !.failed = 0, !.locked = 0] /\ guesses' = 0 /\ lost' = 0
  <2>0. admin \in Users
    BY DEF IInv, TypeOK, Registered, LoginRecorded
  <2>1. admin' \in Users /\ admin'.pw = admin.pw /\ admin'.locked = 0 /\ admin'.failed = 0
    <3>1. 0 \in 0 .. Attempts + 1 /\ 0 \in 0 .. LockFor
      BY Lifetimes
    <3> QED BY <1>2, <2>0, <3>1, Zenon DEF Users
  <2>2. admin' # None
    BY <2>1, NoneAssumption
  <2>3. TypeOK'
    BY <1>2, <2>1, Lifetimes DEF IInv, TypeOK, LoginRecorded, Done, history
  <2>4. \A q \in Requests : req'[q] # None => req'[q] = req[q] /\ req[q].locked \in Nat
    BY Lifetimes DEF IInv, TypeOK, LoginRecorded, Done, Handlers
  <2>5. HandlersOK'
    <3> SUFFICES ASSUME NEW q \in Requests, req'[q] # None PROVE HandlerOK(req[q])'
      BY DEF HandlersOK
    <3>1. req'[q] = req[q] /\ req[q].locked >= 0 /\ HandlerOK(req[q]) /\ sess' = sess
      BY <2>4 DEF IInv, HandlersOK, LoginRecorded
    <3> QED BY <2>1, <3>1 DEF HandlerOK
  <2>6. SessionsOK'
    BY <2>1 DEF IInv, SessionsOK, SessionOK, LoginRecorded
  <2>7. Counted'
    BY <1>2, <2>1, Lifetimes DEF Counted
  <2> QED BY <2>2, <2>3, <2>5, <2>6, <2>7 DEF IInv, Registered
<1> QED BY <1>1, <1>2 DEF LoginRecorded

-----------------------------------------------------------------------------
(* Requests of a session *)

\* What a step leaves alone in session t, apart from its deadlines
RowKept(t) ==
  /\ sess'[t] # None <=> sess[t] # None
  /\ sess[t] # None =>
       /\ sess'[t].reauth = sess[t].reauth /\ sess'[t].revoked = sess[t].revoked
       /\ sess'[t].knows = sess[t].knows /\ sess'[t].late = sess[t].late
       /\ Live(t)' => Live(t)

LEMMA TouchedKeeps ==
  ASSUME TypeOK, NEW s \in Sessions, CanGetSession(s), sess' = Touched(s)
  PROVE  /\ sess' \in [Sessions -> SessionRows \cup {None}]
         /\ \A t \in Sessions : RowKept(t)
<1> DEFINE n == Min({IdleFor, sess[s].left})
<1>1. sess[s] # None /\ sess[s] \in SessionRows /\ Live(s)
  BY DEF TypeOK, CanGetSession, Live
<1>2. n \in 0 .. IdleFor
  <2>1. sess[s].left \in Nat
    BY <1>1, Lifetimes DEF SessionRows
  <2> QED BY <2>1, MinOfTwo, Lifetimes
<1>3. sess' = [sess EXCEPT ![s].idle = n]
  BY DEF Touched
<1> HIDE DEF n
<1>4. /\ sess'[s] \in SessionRows
      /\ sess'[s].reauth = sess[s].reauth /\ sess'[s].revoked = sess[s].revoked
      /\ sess'[s].knows = sess[s].knows /\ sess'[s].late = sess[s].late
  BY <1>1, <1>2, <1>3 DEF TypeOK, SessionRows
<1>5. \A t \in Sessions \ {s} : sess'[t] = sess[t]
  BY <1>3 DEF TypeOK
<1>6. sess' \in [Sessions -> SessionRows \cup {None}]
  BY <1>1, <1>3, <1>4 DEF TypeOK
<1>7. RowKept(s)
  BY <1>1, <1>4, NoneAssumption DEF RowKept
<1>8. \A t \in Sessions \ {s} : RowKept(t)
  BY <1>5 DEF RowKept, Live
<1> QED BY <1>6, <1>7, <1>8

LEMMA SessionsKept ==
  ASSUME IInv, admin' = admin, \A t \in Sessions : RowKept(t)
  PROVE  SessionsOK'
BY DEF IInv, SessionsOK, SessionOK, RowKept, Live

\* A handler that stays where it is while rows are kept
LEMMA HandlerKept ==
  ASSUME IInv, admin' = admin, \A t \in Sessions : RowKept(t), NEW q \in Requests, req'[q] # None,
         req'[q] = req[q]
  PROVE  HandlerOK(req[q])'
<1>1. HandlerOK(req[q])
  BY DEF IInv, HandlersOK
<1> QED BY <1>1 DEF HandlerOK, RowKept, InSession

\* The principal carries the session's own confirmation.
LEMMA PrincipalOK ==
  ASSUME TypeOK, NEW s \in Sessions, sess[s] # None, NEW kind \in Kinds,
         NEW pc \in {"required", "check"}
  PROVE  /\ Principal(s, kind, pc) \in Handlers
         /\ Principal(s, kind, pc).pc = pc /\ Principal(s, kind, pc).kind = kind
         /\ Principal(s, kind, pc).s = s /\ Principal(s, kind, pc).reauth = sess[s].reauth
         /\ Principal(s, kind, pc).read = 0
<1>1. Handler(pc) \in Handlers
  BY HandlerType DEF InSession
<1>2. sess[s].reauth \in -ReadFor .. ReauthFor
  BY DEF TypeOK, SessionRows
<1>3. Principal(s, kind, pc) \in Handlers
  BY <1>1, <1>2 DEF Principal, Handlers
<1> QED BY <1>3 DEF Principal, Handler

LEMMA PrincipalHandlerOK ==
  ASSUME IInv, admin' = admin, \A t \in Sessions : RowKept(t), NEW s \in Sessions, sess[s] # None,
         NEW q \in Requests, NEW kind \in Kinds, NEW pc \in {"required", "check"},
         req'[q] = Principal(s, kind, pc)
  PROVE  HandlerOK(req[q])'
<1>1. sess[s].reauth \in Int
  BY Lifetimes DEF IInv, TypeOK, SessionRows
<1> QED BY <1>1, PrincipalOK DEF IInv, HandlerOK, RowKept, InLogin, InSession

\* A handler that moves on, while rows are kept
LEMMA MoveStep ==
  ASSUME IInv, admin # None, UNCHANGED <<admin, token, history>>,
         sess' \in [Sessions -> SessionRows \cup {None}], \A t \in Sessions : RowKept(t),
         NEW r \in Requests, NEW q \in Handlers \cup {None}, req' = [req EXCEPT ![r] = q],
         q # None => q.pc # "login" /\ HandlerOK(req[r])'
  PROVE  IInv'
<1>1. req'[r] = q /\ \A x \in Requests \ {r} : req'[x] = req[x]
  BY DEF IInv, TypeOK
<1>2. TypeOK'
  BY DEF IInv, TypeOK, history
<1>3. HandlersOK'
  BY <1>1, HandlerKept DEF HandlersOK
<1>4. SessionsOK'
  BY SessionsKept
<1>5. Opens' \subseteq Opens
  BY <1>1 DEF Opens
<1>6. Counted'
  BY <1>5, CountedKept DEF IInv
<1> QED BY <1>2, <1>3, <1>4, <1>6 DEF IInv, Registered

LEMMA RequireStep ==
  ASSUME IInv, NEW r \in Requests, NEW s \in Sessions, Require(r, s)
  PROVE  IInv'
<1>0. /\ CanGetSession(s) /\ sess' = Touched(s) /\ UNCHANGED <<admin, token, history>>
      /\ sess[s] # None /\ admin # None
  BY DEF IInv, Registered, Require, CanGetSession, Live
<1>1. sess' \in [Sessions -> SessionRows \cup {None}] /\ \A t \in Sessions : RowKept(t)
  BY <1>0, TouchedKeeps DEF IInv
<1>2. PICK kind \in Kinds, pc \in {"required", "check"} :
        req' = [req EXCEPT ![r] = Principal(s, kind, pc)]
  BY DEF Require
<1> DEFINE q == Principal(s, kind, pc)
<1>3. q \in Handlers /\ q.pc # "login" /\ req'[r] = q
  BY <1>0, <1>2, PrincipalOK DEF IInv, TypeOK
<1>4. HandlerOK(req[r])'
  BY <1>0, <1>1, <1>3, PrincipalHandlerOK
<1> HIDE DEF q
<1> QED BY <1>0, <1>1, <1>2, <1>3, <1>4, MoveStep DEF q

LEMMA RowsUnchanged == ASSUME UNCHANGED sess PROVE \A t \in Sessions : RowKept(t)
BY DEF RowKept, Live

\* A request at work for a session has an administrator and a row.
LEMMA InSessionFacts ==
  ASSUME IInv, NEW r \in Requests, req[r] # None, req[r].pc \in InSession
  PROVE  /\ admin \in Users /\ admin # None /\ req[r] \in Handlers /\ req[r].kind \in Kinds
         /\ req[r].s \in Sessions /\ sess[req[r].s] # None /\ sess[req[r].s] \in SessionRows
BY DEF IInv, TypeOK, Registered, HandlersOK, HandlerOK

LEMMA ReadPasswordStep == ASSUME IInv, NEW r \in Requests, ReadPassword(r) PROVE IInv'
<1> DEFINE s == req[r].s
           q == [req[r] EXCEPT !.pc = "confirmed", !.pw = admin.pw]
<1>0. /\ req[r] # None /\ req[r].pc = "required" /\ req[r].kind \in {"reauth", "change"}
      /\ UNCHANGED <<admin, token, history>> /\ req[r].pc \in InSession
  BY DEF ReadPassword, At, InSession
<1>1. /\ admin \in Users /\ admin # None /\ req[r] \in Handlers /\ s \in Sessions
      /\ sess[s] # None /\ sess[s] \in SessionRows
  BY <1>0, InSessionFacts
<1>2. CASE ~CanGetSession(s)
  BY <1>0, <1>2, DoneStep DEF ReadPassword
<1>3. CASE CanGetSession(s)
  <2>1. sess' = Touched(s)
    BY <1>3 DEF ReadPassword
  <2>2. sess' \in [Sessions -> SessionRows \cup {None}] /\ \A t \in Sessions : RowKept(t)
    BY <1>1, <1>3, <2>1, TouchedKeeps DEF IInv
  <2>3. CASE Done(r)
    BY <1>0, <1>1, <2>2, <2>3, MoveStep DEF Done
  <2>4. CASE req' = [req EXCEPT ![r].pc = "confirmed", ![r].pw = admin.pw]
    <3>1. req' = [req EXCEPT ![r] = q]
      BY <2>4 DEF IInv, TypeOK
    <3>2. q \in Handlers
      BY <1>1 DEF Handlers, Users
    <3>3. /\ q.pc = "confirmed" /\ q.pw = admin.pw /\ q.kind = req[r].kind /\ q.s = s
          /\ q.reauth = req[r].reauth /\ admin.pw \in Passwords
      BY <1>1 DEF Handlers, Users
    <3> HIDE DEF q
    <3>4. req'[r] = q
      BY <3>1 DEF IInv, TypeOK
    <3>5. HandlerOK(req[r])
      BY <1>0 DEF IInv, HandlersOK
    <3>6. HandlerOK(req[r])'
      BY <1>0, <1>1, <2>2, <3>3, <3>4, <3>5 DEF HandlerOK, RowKept, InLogin, InSession
    <3> QED BY <1>0, <1>1, <2>2, <3>1, <3>2, <3>3, <3>6, MoveStep
  <2> QED BY <1>3, <2>3, <2>4 DEF ReadPassword
<1> QED BY <1>2, <1>3

LEMMA RequireAgainStep == ASSUME IInv, NEW r \in Requests, RequireAgain(r) PROVE IInv'
<1> DEFINE s == req[r].s
           q == Principal(s, "commit", "check")
<1>0. /\ req[r] # None /\ req[r].pc = "required" /\ UNCHANGED <<admin, token, history>>
      /\ req[r].pc \in InSession
  BY DEF RequireAgain, At, InSession
<1>1. admin # None /\ s \in Sessions /\ sess[s] # None
  BY <1>0, InSessionFacts
<1>2. CASE ~CanGetSession(s)
  BY <1>0, <1>2, DoneStep DEF RequireAgain
<1>3. CASE CanGetSession(s)
  <2>1. sess' = Touched(s) /\ req' = [req EXCEPT ![r] = q]
    BY <1>3 DEF RequireAgain
  <2>2. sess' \in [Sessions -> SessionRows \cup {None}] /\ \A t \in Sessions : RowKept(t)
    BY <1>1, <1>3, <2>1, TouchedKeeps DEF IInv
  <2>3. q \in Handlers /\ q.pc # "login" /\ req'[r] = q /\ "commit" \in Kinds
    BY <1>1, <2>1, PrincipalOK DEF IInv, TypeOK, Kinds
  <2>4. HandlerOK(req[r])'
    BY <1>0, <1>1, <2>2, <2>3, PrincipalHandlerOK
  <2> HIDE DEF q
  <2> QED BY <1>0, <1>1, <2>1, <2>2, <2>3, <2>4, MoveStep
<1> QED BY <1>2, <1>3

\* A handler that goes on from pc, with what it has read
LEMMA GoOnStep ==
  ASSUME IInv, NEW r \in Requests, req[r] # None, NEW pc \in {"body", "agent"},
         req[r].pc \in {"check", "body"}, req' = [req EXCEPT ![r].pc = pc],
         UNCHANGED <<admin, token, sess, history>>,
         pc = "body" => req[r].pc = "check" /\ req[r].reauth > 0
  PROVE  IInv'
<1> DEFINE q == [req[r] EXCEPT !.pc = pc]
<1>0. req[r].pc \in InSession
  BY DEF InSession
<1>1. /\ admin # None /\ req[r] \in Handlers /\ HandlerOK(req[r])
      /\ req[r].s \in Sessions /\ sess[req[r].s] \in SessionRows
  BY <1>0, InSessionFacts DEF IInv, HandlersOK
<1>2. req' = [req EXCEPT ![r] = q] /\ req'[r] = q
  BY DEF IInv, TypeOK
<1>3. q \in Handlers /\ q.pc = pc /\ q.kind = req[r].kind /\ q.s = req[r].s
      /\ q.reauth = req[r].reauth /\ q.read = req[r].read
  BY <1>1 DEF Handlers
<1>4. sess[req[r].s].reauth \in Int /\ req[r].reauth \in Int
  BY <1>1 DEF SessionRows, Handlers
<1> HIDE DEF q
<1>5. HandlerOK(req[r])'
  BY <1>0, <1>1, <1>2, <1>3, <1>4 DEF HandlerOK, InLogin, InSession
<1>6. sess' \in [Sessions -> SessionRows \cup {None}]
  BY DEF IInv, TypeOK
<1> QED BY <1>1, <1>2, <1>3, <1>5, <1>6, RowsUnchanged, MoveStep

LEMMA CheckReauthStep == ASSUME IInv, NEW r \in Requests, CheckReauth(r) PROVE IInv'
<1>0. req[r] # None /\ req[r].pc = "check" /\ UNCHANGED <<admin, token, sess, history>>
  BY DEF CheckReauth, At
<1>1. CASE RecentlyConfirmed(req[r].s, req[r].reauth)
  <2>1. req' = [req EXCEPT ![r].pc = "body"] /\ req[r].reauth > 0
    BY <1>1 DEF CheckReauth, RecentlyConfirmed
  <2> QED BY <1>0, <2>1, GoOnStep
<1>2. CASE ~RecentlyConfirmed(req[r].s, req[r].reauth)
  BY <1>0, <1>2, DoneStep DEF CheckReauth
<1> QED BY <1>1, <1>2

LEMMA CallAgentStep == ASSUME IInv, NEW r \in Requests, CallAgent(r) PROVE IInv'
BY GoOnStep DEF CallAgent, At

LEMMA ConfirmFacts ==
  ASSUME NEW s \in Sessions, sess[s] \in SessionRows, NEW w \in Passwords
  PROVE  /\ Confirm(s, w) \in SessionRows /\ Confirm(s, w) # None
         /\ Confirm(s, w).reauth = ReauthFor /\ Confirm(s, w).knows = sess[s].knows \cup {w}
         /\ Confirm(s, w).revoked = sess[s].revoked /\ Confirm(s, w).late = sess[s].late
         /\ Confirm(s, w).left = sess[s].left /\ Confirm(s, w).idle = sess[s].idle
<1>1. ReauthFor \in -ReadFor .. ReauthFor
  BY Lifetimes
<1>2. sess[s].knows \cup {w} \in SUBSET Passwords
  BY DEF SessionRows
<1>3. Confirm(s, w) \in SessionRows
  BY <1>1, <1>2 DEF Confirm, SessionRows
<1> QED BY <1>3, NoneAssumption DEF Confirm, SessionRows

\* A confirmation is of a password the session may go by: had it changed since it
\* was read, the session would be revoked or know the new one.
LEMMA MarkReauthenticatedStep ==
  ASSUME IInv, NEW r \in Requests, MarkReauthenticated(r)
  PROVE  IInv'
<1> DEFINE s == req[r].s
<1>0. /\ req[r] # None /\ req[r].pc = "confirmed" /\ UNCHANGED <<admin, token, history>>
      /\ req[r].pc \in InSession /\ Done(r)
  BY DEF MarkReauthenticated, At, InSession
<1>1. /\ admin \in Users /\ admin # None /\ s \in Sessions /\ sess[s] # None
      /\ sess[s] \in SessionRows
  BY <1>0, InSessionFacts
<1>2. req[r].pw \in Passwords /\ (sess[s].revoked \/ req[r].pw = admin.pw \/ admin.pw \in sess[s].knows)
  BY <1>0 DEF IInv, HandlersOK, HandlerOK
<1>3. CASE sess[s].revoked
  BY <1>0, <1>3, DoneStep DEF MarkReauthenticated
<1>4. CASE ~sess[s].revoked
  <2>1. sess' = [sess EXCEPT ![s] = Confirm(s, req[r].pw)]
    BY <1>4 DEF MarkReauthenticated
  <2>2. /\ sess'[s] = Confirm(s, req[r].pw) /\ \A t \in Sessions \ {s} : sess'[t] = sess[t]
        /\ sess' \in [Sessions -> SessionRows \cup {None}]
    BY <1>1, <1>2, <2>1, ConfirmFacts DEF IInv, TypeOK
  <2>3. TypeOK'
    BY <1>0, <2>2 DEF IInv, TypeOK, Done, history
  <2>4. \A q \in Requests : req'[q] # None =>
          req'[q] = req[q] /\ HandlerOK(req[q])
          /\ req[q].reauth \in -ReadFor .. ReauthFor /\ req[q].read \in Nat
    BY <1>0, Lifetimes DEF IInv, TypeOK, Done, Handlers, HandlersOK
  <2>5. HandlersOK'
    <3> SUFFICES ASSUME NEW q \in Requests, req'[q] # None PROVE HandlerOK(req[q])'
      BY DEF HandlersOK
    <3>1. CASE req[q].s = s
      <4>1. /\ sess'[s].reauth = ReauthFor /\ sess'[s].revoked = sess[s].revoked
            /\ sess'[s].knows = sess[s].knows \cup {req[r].pw} /\ sess'[s] # None
        BY <1>1, <1>2, <2>2, ConfirmFacts
      <4> QED BY <1>0, <1>1, <2>4, <3>1, <4>1, Lifetimes DEF HandlerOK
    <3>2. CASE req[q].s # s
      BY <1>0, <2>2, <2>4, <3>2 DEF HandlerOK, InSession
    <3> QED BY <3>1, <3>2
  <2>6. SessionsOK'
    BY <1>0, <1>1, <1>2, <1>4, <2>2, ConfirmFacts DEF IInv, SessionsOK, SessionOK
  <2>7. Opens' \subseteq Opens
    BY <2>4 DEF Opens
  <2>8. Counted'
    BY <1>0, <1>1, <2>7, CountedKept DEF IInv
  <2> QED BY <1>0, <1>1, <2>3, <2>5, <2>6, <2>8 DEF IInv, Registered
<1> QED BY <1>3, <1>4

\* A row with revoked set
LEMMA RevokedFacts ==
  ASSUME NEW x \in SessionRows
  PROVE  /\ [x EXCEPT !.revoked = TRUE] \in SessionRows /\ [x EXCEPT !.revoked = TRUE] # None
         /\ [x EXCEPT !.revoked = TRUE].revoked
         /\ [x EXCEPT !.revoked = TRUE].reauth = x.reauth
<1>1. TRUE \in BOOLEAN
  OBVIOUS
<1>2. [x EXCEPT !.revoked = TRUE] \in SessionRows
  BY <1>1, Zenon DEF SessionRows
<1>3. [x EXCEPT !.revoked = TRUE].revoked /\ [x EXCEPT !.revoked = TRUE].reauth = x.reauth
  BY Zenon DEF SessionRows
<1> QED BY <1>2, <1>3, NoneAssumption

\* The session that changes the password knows the new one; the others are revoked.
LEMMA ChangePasswordStep == ASSUME IInv, NEW r \in Requests, ChangePassword(r) PROVE IInv'
<1> DEFINE s == req[r].s
<1>0. /\ req[r] # None /\ req[r].pc = "confirmed" /\ UNCHANGED <<token, history>>
      /\ req[r].pc \in InSession /\ Done(r)
  BY DEF ChangePassword, At, InSession
<1>1. /\ admin \in Users /\ admin # None /\ s \in Sessions /\ sess[s] # None
      /\ sess[s] \in SessionRows
  BY <1>0, InSessionFacts
<1>2. PICK w \in Passwords : /\ admin' = [admin EXCEPT !.pw = w]
                             /\ sess' = [t \in Sessions |-> Changed(s, t, w)]
  BY DEF ChangePassword
<1>3. /\ admin' \in Users /\ admin'.pw = w /\ admin'.locked = admin.locked
      /\ admin'.failed = admin.failed
  BY <1>1, <1>2 DEF Users
<1>4. admin' # None
  BY <1>3, NoneAssumption
<1>5. \A t \in Sessions :
        /\ sess'[t] \in SessionRows \cup {None}
        /\ sess'[t] # None <=> sess[t] # None
        /\ sess[t] # None =>
             /\ sess'[t].revoked \/ w \in sess'[t].knows
             /\ sess'[t].reauth = sess[t].reauth \/ sess'[t].reauth = ReauthFor
  <2> TAKE t \in Sessions
  <2>1. sess[t] # None => sess[t] \in SessionRows
    BY DEF IInv, TypeOK
  <2>2. sess'[t] = Changed(s, t, w)
    BY <1>2
  <2>3. CASE sess[t] = None
    BY <2>2, <2>3 DEF Changed
  <2>4. CASE sess[t] # None /\ sess[t].revoked
    BY <2>1, <2>2, <2>4, Zenon DEF Changed
  <2>5. CASE sess[t] # None /\ ~sess[t].revoked /\ t = s
    BY <2>1, <2>2, <2>5, ConfirmFacts DEF Changed
  <2>6. CASE sess[t] # None /\ ~sess[t].revoked /\ t # s
    <3>1. sess'[t] = [sess[t] EXCEPT !.revoked = TRUE] /\ sess[t] \in SessionRows
      BY <2>1, <2>2, <2>6 DEF Changed
    <3> QED BY <2>6, <3>1, RevokedFacts
  <2> QED BY <2>3, <2>4, <2>5, <2>6
<1>6. TypeOK'
  BY <1>0, <1>2, <1>3, <1>5 DEF IInv, TypeOK, Done, history
<1>7. \A q \in Requests : req'[q] # None =>
        req'[q] = req[q] /\ HandlerOK(req[q])
          /\ req[q].reauth \in -ReadFor .. ReauthFor /\ req[q].read \in Nat
  BY <1>0, Lifetimes DEF IInv, TypeOK, Done, Handlers, HandlersOK
<1>8. HandlersOK'
  BY <1>3, <1>5, <1>7, Lifetimes DEF HandlersOK, HandlerOK, InSession
<1>9. SessionsOK'
  BY <1>3, <1>5 DEF SessionsOK, SessionOK
<1>10. Opens' \subseteq Opens
  BY <1>7 DEF Opens
<1>11. Counted'
  BY <1>0, <1>1, <1>3, <1>4, <1>10, CountedKept DEF IInv
<1> QED BY <1>4, <1>6, <1>8, <1>9, <1>11 DEF IInv, Registered

LEMMA LogoutStep == ASSUME IInv, NEW r \in Requests, Logout(r) PROVE IInv'
<1> DEFINE s == req[r].s
           x == [sess[s] EXCEPT !.revoked = TRUE]
<1>0. /\ req[r] # None /\ req[r].pc = "required" /\ UNCHANGED <<admin, token, history>>
      /\ req[r].pc \in InSession /\ Done(r)
  BY DEF Logout, At, InSession
<1>1. admin # None /\ s \in Sessions /\ sess[s] # None /\ sess[s] \in SessionRows
  BY <1>0, InSessionFacts
<1>2. x \in SessionRows /\ x # None /\ x.revoked /\ x.reauth = sess[s].reauth
  BY <1>1, RevokedFacts
<1>3. sess' = [sess EXCEPT ![s] = x]
  <2>1. sess' = [sess EXCEPT ![s].revoked = TRUE]
    BY DEF Logout
  <2> QED BY <2>1
<1> HIDE DEF x
<1>4. sess'[s] = x /\ \A t \in Sessions \ {s} : sess'[t] = sess[t]
  BY <1>1, <1>3 DEF IInv, TypeOK
<1>5. TypeOK'
  BY <1>0, <1>2, <1>3 DEF IInv, TypeOK, Done, history
<1>6. \A q \in Requests : req'[q] # None => req'[q] = req[q] /\ HandlerOK(req[q])
  BY <1>0 DEF IInv, TypeOK, Done, HandlersOK
<1>7. HandlersOK'
  BY <1>0, <1>1, <1>2, <1>4, <1>6 DEF HandlersOK, HandlerOK, InSession
<1>8. SessionsOK'
  BY <1>0, <1>2, <1>4 DEF IInv, SessionsOK, SessionOK
<1>9. Opens' \subseteq Opens
  BY <1>6 DEF Opens
<1>10. Counted'
  BY <1>0, <1>1, <1>9, CountedKept DEF IInv
<1> QED BY <1>0, <1>1, <1>5, <1>7, <1>8, <1>10 DEF IInv, Registered

-----------------------------------------------------------------------------
(* The process and the clock *)

LEMMA WebStopsStep == ASSUME IInv, WebStops PROVE IInv'
<1>1. TypeOK' /\ Registered' /\ HandlersOK'
  BY DEF IInv, WebStops, TypeOK, Registered, HandlersOK, history
<1>2. SessionsOK'
  BY DEF IInv, WebStops, SessionsOK, SessionOK
<1>3. Opens' \subseteq Opens
  BY DEF WebStops, Opens
<1>4. Counted'
  BY <1>3, CountedKept DEF IInv, WebStops, Counted
<1> QED BY <1>1, <1>2, <1>4 DEF IInv, WebStops, history

LEMMA ResetStep == ASSUME IInv, ResetAdminPassword PROVE IInv'
<1>0. PICK w \in Passwords : admin' = [pw |-> w, failed |-> 0, locked |-> 0]
  BY DEF ResetAdminPassword
<1>1. admin' \in Users /\ admin' # None
  BY <1>0, Lifetimes, NoneAssumption DEF Users
<1>2. \A s \in Sessions : /\ sess'[s] \in SessionRows \cup {None}
                          /\ sess'[s] # None => sess'[s].revoked
  <2> TAKE s \in Sessions
  <2>1. CASE sess[s] = None
    BY <2>1 DEF ResetAdminPassword
  <2>2. CASE sess[s] # None
    <3>1. sess'[s] = [sess[s] EXCEPT !.revoked = TRUE] /\ sess[s] \in SessionRows
      BY <2>2 DEF IInv, TypeOK, ResetAdminPassword
    <3> QED BY <3>1, RevokedFacts
  <2> QED BY <2>1, <2>2
<1>3. TypeOK'
  <2>1. sess' \in [Sessions -> SessionRows \cup {None}]
    BY <1>2 DEF ResetAdminPassword
  <2>2. req' \in [Requests -> Handlers \cup {None}] /\ guesses' = 0 /\ lost' = 0 /\ token' = token
    BY DEF ResetAdminPassword
  <2> QED BY <1>1, <2>1, <2>2, Lifetimes DEF IInv, TypeOK
<1>4. HandlersOK'
  BY DEF ResetAdminPassword, HandlersOK
<1>5. SessionsOK'
  BY <1>2 DEF SessionsOK, SessionOK
<1>6. Counted'
  BY <1>0, Lifetimes DEF ResetAdminPassword, Counted
<1> QED BY <1>1, <1>3, <1>4, <1>5, <1>6 DEF IInv, Registered

LEMMA PastFacts ==
  ASSUME NEW n \in -ReadFor .. ReauthFor
  PROVE  /\ Past(n) \in -ReadFor .. ReauthFor /\ Past(n) \in Int
         /\ Past(n) = n - 1 \/ (n = -ReadFor /\ Past(n) = n)
BY Lifetimes DEF Past

LEMMA LessFacts ==
  ASSUME NEW b \in Nat, NEW n \in 0 .. b
  PROVE  Less(n) \in 0 .. b /\ (Less(n) > 0 => n > 0)
BY DEF Less

\* Time passes for a row and for what was copied from it alike.
LEMMA TickStep == ASSUME IInv, Tick PROVE IInv'
<1> DEFINE older(x) == [x EXCEPT !.left = Less(@), !.idle = Less(@), !.reauth = Past(@)]
           read(q) == IF q.pc = "body" THEN Min({q.read + 1, ReadFor + 1}) ELSE q.read
           later(q) == [q EXCEPT !.locked = Less(@), !.reauth = Past(@), !.read = read(q)]
<1>1. admin # None => /\ admin \in Users /\ admin' \in Users /\ admin' # None
                      /\ admin'.pw = admin.pw /\ admin'.failed = admin.failed
                      /\ admin'.locked = Less(admin.locked)
  <2> SUFFICES ASSUME admin # None
               PROVE  /\ admin \in Users /\ admin' \in Users /\ admin' # None
                      /\ admin'.pw = admin.pw /\ admin'.failed = admin.failed
                      /\ admin'.locked = Less(admin.locked)
    OBVIOUS
  <2>1. admin \in Users /\ admin' = [admin EXCEPT !.locked = Less(@)]
    BY DEF IInv, TypeOK, Tick
  <2>2. Less(admin.locked) \in 0 .. LockFor
    BY <2>1, LessFacts, Lifetimes DEF Users
  <2>3. admin' \in Users
    BY <2>1, <2>2 DEF Users
  <2> QED BY <2>1, <2>3, NoneAssumption DEF Users
<1>2. token' \in BootstrapTokens \cup {None}
  <2>1. CASE token = None
    BY <2>1 DEF Tick
  <2>2. CASE token # None
    <3>1. token \in BootstrapTokens /\ token' = [token EXCEPT !.left = Less(@)]
      BY <2>2 DEF IInv, TypeOK, Tick
    <3>2. Less(token.left) \in 0 .. TokenFor
      BY <3>1, LessFacts, Lifetimes DEF BootstrapTokens
    <3> QED BY <3>1, <3>2 DEF BootstrapTokens
  <2> QED BY <2>1, <2>2
<1>3. \A s \in Sessions : sess[s] # None =>
        /\ sess[s] \in SessionRows /\ sess'[s] \in SessionRows /\ sess'[s] # None
        /\ sess'[s].revoked = sess[s].revoked /\ sess'[s].knows = sess[s].knows
        /\ sess'[s].late = sess[s].late /\ sess'[s].reauth = Past(sess[s].reauth)
        /\ sess'[s].left = Less(sess[s].left) /\ sess'[s].idle = Less(sess[s].idle)
  <2> TAKE s \in Sessions
  <2> HAVE sess[s] # None
  <2>1. sess[s] \in SessionRows /\ sess'[s] = older(sess[s])
    BY DEF IInv, TypeOK, Tick
  <2>2. /\ Less(sess[s].left) \in 0 .. SessionFor /\ Less(sess[s].idle) \in 0 .. IdleFor
        /\ Past(sess[s].reauth) \in -ReadFor .. ReauthFor
    BY <2>1, LessFacts, PastFacts, Lifetimes DEF SessionRows
  <2>3. older(sess[s]) \in SessionRows
    BY <2>1, <2>2 DEF SessionRows
  <2> QED BY <2>1, <2>3, NoneAssumption DEF SessionRows
<1>4. \A r \in Requests : req[r] # None =>
        /\ req[r] \in Handlers /\ req'[r] \in Handlers /\ req'[r] # None
        /\ req'[r].pc = req[r].pc /\ req'[r].kind = req[r].kind /\ req'[r].s = req[r].s
        /\ req'[r].pw = req[r].pw /\ req'[r].open = req[r].open
        /\ req'[r].overtaken = req[r].overtaken
        /\ req'[r].locked = Less(req[r].locked) /\ req'[r].reauth = Past(req[r].reauth)
        /\ req[r].pc # "body" => req'[r].read = req[r].read
        /\ req[r].pc = "body" => req'[r].read = req[r].read + 1 \/ req'[r].read > ReadFor
  <2> TAKE r \in Requests
  <2> HAVE req[r] # None
  <2>1. req[r] \in Handlers /\ req'[r] = later(req[r])
    BY DEF IInv, TypeOK, Tick
  <2>2. Less(req[r].locked) \in 0 .. LockFor /\ Past(req[r].reauth) \in -ReadFor .. ReauthFor
    BY <2>1, LessFacts, PastFacts, Lifetimes DEF Handlers
  <2>3. /\ read(req[r]) \in 0 .. ReadFor + 1
        /\ req[r].pc # "body" => read(req[r]) = req[r].read
        /\ req[r].pc = "body" => read(req[r]) = req[r].read + 1 \/ read(req[r]) > ReadFor
    <3>1. req[r].read \in Nat /\ req[r].read \in 0 .. ReadFor + 1
      BY <2>1, Lifetimes DEF Handlers
    <3>2. Min({req[r].read + 1, ReadFor + 1}) =
            IF req[r].read + 1 <= ReadFor + 1 THEN req[r].read + 1 ELSE ReadFor + 1
      BY <3>1, MinOfTwo, Lifetimes
    <3> QED BY <3>1, <3>2, Lifetimes
  <2> HIDE DEF read
  <2>4. later(req[r]) \in Handlers
    BY <2>1, <2>2, <2>3 DEF Handlers
  <2> DEFINE n == read(req[r])
             l == Less(req[r].locked)
             p == Past(req[r].reauth)
  <2>5. /\ req'[r] = [req[r] EXCEPT !.locked = l, !.reauth = p, !.read = n]
        /\ req'[r] \in Handlers
    BY <2>1, <2>4
  <2> HIDE DEF n, l, p
  <2>6. /\ req'[r].pc = req[r].pc /\ req'[r].kind = req[r].kind /\ req'[r].s = req[r].s
        /\ req'[r].pw = req[r].pw /\ req'[r].open = req[r].open
        /\ req'[r].overtaken = req[r].overtaken
        /\ req'[r].locked = l /\ req'[r].reauth = p /\ req'[r].read = n
    BY <2>1, <2>5, Zenon DEF Handlers
  <2> QED BY <2>1, <2>3, <2>5, <2>6, NoneAssumption DEF n, l, p
<1>5. /\ \A s \in Sessions : sess[s] = None => sess'[s] = None
      /\ \A r \in Requests : req[r] = None => req'[r] = None
      /\ admin = None => admin' = None
      /\ guesses' = IF admin # None /\ admin.locked = 1 THEN Attempts - 1 ELSE guesses
      /\ lost' = IF admin # None /\ admin.locked = 1 THEN 0 ELSE lost
      /\ sess' \in [Sessions -> SessionRows \cup {None}]
      /\ req' \in [Requests -> Handlers \cup {None}]
  BY <1>3, <1>4 DEF Tick, history
<1>6. TypeOK'
  BY <1>1, <1>2, <1>5, Lifetimes DEF IInv, TypeOK
<1>7. HandlersOK'
  <2> SUFFICES ASSUME NEW r \in Requests, req'[r] # None PROVE HandlerOK(req[r])'
    BY DEF HandlersOK
  <2>1. req[r] # None /\ HandlerOK(req[r]) /\ admin # None
    BY <1>5 DEF IInv, HandlersOK, Registered
  <2>2. /\ admin.locked \in Nat /\ req[r].locked \in Nat
        /\ req[r].reauth \in -ReadFor .. ReauthFor /\ req[r].read \in Nat
    BY <1>1, <1>4, <2>1, Lifetimes DEF Users, Handlers
  <2>3. /\ req[r].locked >= admin.locked => Less(req[r].locked) >= Less(admin.locked)
        /\ req[r].locked = 0 => Less(req[r].locked) = 0
    BY <2>2 DEF Less
  <2>4. ASSUME req[r].pc \in InSession
        PROVE  /\ sess[req[r].s] # None /\ sess'[req[r].s] # None
               /\ sess'[req[r].s].reauth = Past(sess[req[r].s].reauth)
               /\ sess[req[r].s].reauth \in -ReadFor .. ReauthFor
               /\ Past(req[r].reauth) <= sess'[req[r].s].reauth
               /\ sess'[req[r].s].reauth >= sess[req[r].s].reauth - 1
    <3>1. /\ req[r].s \in Sessions /\ sess[req[r].s] # None
          /\ req[r].reauth <= sess[req[r].s].reauth
      BY <2>1, <2>4 DEF HandlerOK
    <3>2. /\ sess'[req[r].s] # None /\ sess'[req[r].s].reauth = Past(sess[req[r].s].reauth)
          /\ sess[req[r].s].reauth \in -ReadFor .. ReauthFor
      BY <1>3, <3>1 DEF SessionRows
    <3> QED BY <3>1, <3>2, <2>2, Lifetimes DEF Past
  <2>5. req'[r].pc = "body" => sess'[req'[r].s].reauth + req'[r].read > 0 \/ req'[r].read > ReadFor
    BY <1>4, <2>1, <2>2, <2>4, Lifetimes DEF HandlerOK, InSession, Past
  <2> QED BY <1>1, <1>3, <1>4, <2>1, <2>3, <2>4, <2>5 DEF HandlerOK, InSession
<1>8. SessionsOK'
  <2> SUFFICES ASSUME NEW s \in Sessions, sess'[s] # None PROVE SessionOK(sess[s])'
    BY DEF SessionsOK
  <2>1. sess[s] # None /\ SessionOK(sess[s]) /\ admin # None /\ sess[s] \in SessionRows
    BY <1>3, <1>5 DEF IInv, SessionsOK, Registered
  <2>2. /\ Less(sess[s].left) > 0 => sess[s].left > 0
        /\ Less(sess[s].idle) > 0 => sess[s].idle > 0
        /\ Past(sess[s].reauth) > -ReadFor => sess[s].reauth > -ReadFor
    BY <2>1, Lifetimes DEF SessionRows, Less, Past
  <2> QED BY <1>1, <1>3, <2>1, <2>2 DEF SessionOK
<1>9. Opens' = Opens
  BY <1>4, <1>5 DEF Opens
<1>10. Counted'
  BY <1>1, <1>5, <1>9, Lifetimes DEF IInv, TypeOK, Users, Counted, Less
<1>11. Registered' /\ (admin' = None => guesses' = 0 /\ lost' = 0)
  BY <1>1, <1>5 DEF IInv, Registered
<1> QED BY <1>6, <1>7, <1>8, <1>10, <1>11 DEF IInv

-----------------------------------------------------------------------------
(* Theorems *)

LEMMA StutterStep == ASSUME IInv, UNCHANGED vars PROVE IInv'
BY DEF IInv, TypeOK, Registered, HandlersOK, HandlerOK, SessionsOK, SessionOK, Counted, Opens, vars, history

LEMMA NextStep == ASSUME IInv, [Next]_vars PROVE IInv'
<1>1. CASE SetBootstrapToken \/ BootstrapAdmin \/ WebStops \/ ResetAdminPassword \/ Tick
  BY <1>1, SetBootstrapTokenStep, BootstrapAdminStep, WebStopsStep, ResetStep, TickStep
<1>2. ASSUME NEW r \in Requests,
             \/ LoginLookup(r) \/ LoginRejected(r) \/ LoginAccepted(r) \/ LoginRecorded(r)
             \/ \E s \in Sessions : Require(r, s)
             \/ ReadPassword(r) \/ MarkReauthenticated(r) \/ ChangePassword(r) \/ Logout(r)
             \/ RequireAgain(r) \/ CheckReauth(r) \/ CallAgent(r)
      PROVE  IInv'
  BY <1>2, LoginLookupStep, LoginRejectedStep, LoginAcceptedStep, LoginRecordedStep, RequireStep,
     ReadPasswordStep, MarkReauthenticatedStep, ChangePasswordStep, LogoutStep, RequireAgainStep,
     CheckReauthStep, CallAgentStep
<1>3. ASSUME NEW r \in Requests, AgentAnswers(r) \/ Abort(r)
      PROVE  IInv'
  BY <1>3, DoneStep DEF AgentAnswers, Abort
<1> QED BY <1>1, <1>2, <1>3, StutterStep DEF Next

LEMMA Inductive == Spec => []IInv
BY InitInv, NextStep, PTL DEF Spec

\* The rows of the web database and what the handlers read of them have their types.
THEOREM TypeCorrect == Spec => []TypeOK
<1>1. IInv => TypeOK
  BY DEF IInv
<1> QED BY Inductive, <1>1, PTL

\* Changing or resetting the password shuts out every session that was opened with
\* another one, except one whose login was already past its look at the user.
THEOREM SessionsKnowPassword == Spec => []KnowsPassword
<1>1. IInv => KnowsPassword
  BY DEF IInv, SessionsOK, SessionOK, KnowsPassword, Live
<1> QED BY Inductive, <1>1, PTL

\* A locked account is entered, and its lock taken back, only by a login that read the
\* user before that lock was set or prolonged, whatever runs at the same time.
THEOREM LockHolds == Spec => LockOnlyOutrun
<1>1. ASSUME IInv, NEW r \in Requests, LoginAccepted(r) \/ (LoginRecorded(r) /\ admin' # admin),
             admin.locked # 0
      PROVE  req[r].overtaken
  <2>1. admin \in Users /\ admin.locked \in Nat /\ HandlerOK(req[r]) /\ req[r].pc \in InLogin
    BY <1>1, Lifetimes
       DEF IInv, Registered, TypeOK, Users, HandlersOK, LoginAccepted, LoginRecorded, InLogin
  <2>2. req[r].locked = 0
    BY <1>1 DEF IInv, HandlersOK, HandlerOK, LoginAccepted, LoginRecorded, Accepted
  <2> QED BY <2>1, <2>2, <1>1 DEF HandlerOK
<1>2. IInv /\ [Next]_vars =>
        [\A r \in Requests :
           LoginAccepted(r) \/ (LoginRecorded(r) /\ admin' # admin)
             => admin.locked = 0 \/ req[r].overtaken]_vars
  BY <1>1
<1> QED BY Inductive, <1>2, PTL DEF Spec, LockOnlyOutrun

\* However many sign-ins run at once, they make at most one guess each beyond the
\* failures that lock the account, and one for each failure that was not recorded.
THEOREM GuessesAreBounded == Spec => []GuessesBounded
<1>1. IInv => GuessesBounded
  <2> SUFFICES ASSUME IInv PROVE GuessesBounded
    OBVIOUS
  <2>1. CASE admin = None
    BY <2>1, OpensBounded, Lifetimes DEF IInv, GuessesBounded
  <2>2. CASE admin # None
    BY <2>2, OpensBounded, Lifetimes DEF IInv, TypeOK, Counted, GuessesBounded
  <2> QED BY <2>1, <2>2
<1> QED BY Inductive, <1>1, PTL

\* What the agent is asked to do on a confirmation was confirmed a short time ago,
\* give or take the time a body takes to be read, with the password now in force
\* unless the session has been revoked meanwhile.
THEOREM SensitiveCallsAreConfirmed == Spec => SensitiveIsConfirmed
<1> DEFINE session(r) == sess[req[r].s]
<1>1. ASSUME IInv, NEW r \in Requests, CheckReauth(r), req'[r] # None
      PROVE  session(r).reauth > 0
  <2>1. req[r] # None /\ req[r].pc = "check" /\ req[r].pc \in InSession
    BY <1>1 DEF CheckReauth, At, InSession
  <2>2. req[r].reauth > 0
    BY <1>1 DEF CheckReauth, RecentlyConfirmed, Done, IInv, TypeOK
  <2>3. req[r].reauth <= session(r).reauth
    BY <1>1, <2>1 DEF IInv, HandlersOK, HandlerOK
  <2>4. req[r].reauth \in Int /\ session(r).reauth \in Int
    BY <1>1, <2>1, InSessionFacts DEF Handlers, SessionRows
  <2> QED BY <2>2, <2>3, <2>4
<1>2. ASSUME IInv, NEW r \in Requests, CallAgent(r)
      PROVE  /\ session(r).reauth > -ReadFor
             /\ session(r).revoked \/ admin.pw \in session(r).knows
  <2>1. req[r] # None /\ req[r].pc = "body" /\ req[r].pc \in InSession /\ req[r].read <= ReadFor
    BY <1>2 DEF CallAgent, At, InSession
  <2>2. HandlerOK(req[r]) /\ SessionOK(session(r))
    BY <1>2, <2>1, InSessionFacts DEF IInv, HandlersOK, SessionsOK
  <2>3. req[r].read \in Nat /\ session(r).reauth \in Int
    BY <1>2, <2>1, InSessionFacts, Lifetimes DEF Handlers, SessionRows
  <2>4. session(r).reauth > -ReadFor
    BY <2>1, <2>2, <2>3, Lifetimes DEF HandlerOK
  <2> QED BY <2>2, <2>4 DEF SessionOK
<1>3. IInv /\ [Next]_vars =>
        [\A r \in Requests :
           /\ CheckReauth(r) /\ req'[r] # None => session(r).reauth > 0
           /\ CallAgent(r) => /\ session(r).reauth > -ReadFor
                              /\ session(r).revoked \/ admin.pw \in session(r).knows]_vars
  BY <1>1, <1>2
<1> QED BY Inductive, <1>3, PTL DEF Spec, SensitiveIsConfirmed
=============================================================================
