----------------------------- MODULE AddressPool -----------------------------
(***************************************************************************)
(* The addresses of one interface's peers: the pools, the allocation rows, *)
(* the AllowedIPs of the peers, and the operations that change them.       *)
(*                                                                         *)
(* A request is checked at its preview, journalled in a second             *)
(* transaction, checked again at its commit, and its rows are written when *)
(* the host has been changed.  Requests of other actors run in between.    *)
(* An address is a number in its family, a prefix a range of numbers.  A   *)
(* revision is known by whether it is still the current one.               *)
(***************************************************************************)
EXTENDS Naturals, Sequences, FiniteSets

CONSTANTS
  Actors,          \* web users
  Peers,           \* peer identities, each created at most once
  Pools,           \* sequence of [fam, base, size, gateway], ordered by family and CIDR
  CreateRequests,  \* ServerAllowedIPs of create requests: sequences of prefixes
  UpdateRequests,  \* ServerAllowedIPs of update requests: sets of prefixes, {} for none
  Adopted,         \* peers an adoption may have imported: Peers -> set of prefixes
  MaxScan,         \* maxAllocationScan
  None

Prefixes == [fam : {4, 6}, base : Nat, size : Nat \ {0}]

ASSUME MaxScanAssumption == MaxScan \in Nat
ASSUME PoolsAssumption ==
  /\ Pools \in Seq([fam : {4, 6}, base : Nat, size : Nat \ {0}, gateway : Nat])
  /\ \A k \in DOMAIN Pools :
       Pools[k].gateway \in Pools[k].base .. Pools[k].base + Pools[k].size - 1
ASSUME RequestsAssumption ==
  CreateRequests \subseteq Seq(Prefixes) /\ UpdateRequests \subseteq SUBSET Prefixes

VARIABLES
  rows,      \* address_allocations, by pool and address; None where there is no row
  life,      \* lifecycle_state of the peers, "none" before they are created
  allowed,   \* peer_allowed_ips
  plan,      \* per actor, the request that passed its preview's checks
  op,        \* the operation in progress, or None
  synced     \* history: peers whose rows were made from all their AllowedIPs

vars == <<rows, life, allowed, plan, op, synced>>

Kinds == {"create", "update", "disable", "enable", "revoke"}
-----------------------------------------------------------------------------
(* Prefixes, pools and allocation rows. *)

Prefix(fam, base, size) == [fam |-> fam, base |-> base, size |-> size]
Span(x) == x.base .. x.base + x.size - 1
IsHost(x) == x.size = 1
Overlaps(x, y) == x.fam = y.fam /\ Span(x) \cap Span(y) # {}
Contains(k, x) == Pools[k].fam = x.fam /\ x.base \in Span(Pools[k])

Slots == UNION {{<<k, n>> : n \in Span(Pools[k])} : k \in DOMAIN Pools}
HostPrefix(s) == Prefix(Pools[s[1]].fam, s[2], 1)
Row(state, p) == [state |-> state, peer |-> p]

(* The network address and the gateway are never handed out, the last address
   of an IPv4 pool neither. *)
Usable(k, n) ==
  /\ n \notin {Pools[k].base, Pools[k].gateway}
  /\ Pools[k].fam = 4 => n # Pools[k].base + Pools[k].size - 1

(* Mistake: an address in quarantine counts as free. *)
FreeOfAllocated(s) == rows[s] \notin {Row("allocated", p) : p \in Peers}

(* poolUsage: a row keeps its address, allocated or quarantined. *)
Free(s) == rows[s] = None

(* Allocate: from the pool's first address on, at most MaxScan candidates. *)
Scan(k) ==
  LET scan[i \in 0 .. MaxScan] ==
        LET n == Pools[k].base + i
        IN  IF i = MaxScan \/ i >= Pools[k].size THEN None
            ELSE IF Usable(k, n) /\ Free(<<k, n>>) THEN <<k, n>>
            ELSE scan[i + 1]
  IN  scan
Allocate(k) == Scan(k)[0]

(* The first pool that still has an address; None if all are exhausted. *)
ScanPools ==
  LET next[k \in 1 .. Len(Pools) + 1] ==
        IF k > Len(Pools) THEN None
        ELSE IF Allocate(k) # None THEN Allocate(k) ELSE next[k + 1]
  IN  next
NextAvailableAddress == ScanPools[1]

(* A chosen address must be a host prefix in a pool, and free in the first pool
   that has it; gateway, network and broadcast addresses are not excluded. *)
ValidateAddressCandidate(x) ==
  LET pools == {k \in DOMAIN Pools : Contains(k, x)}
      first == CHOOSE k \in pools : \A j \in pools : k <= j
  IN  IF IsHost(x) /\ pools # {} /\ Free(<<first, x.base>>) THEN <<first, x.base>> ELSE None

CanonicalPrefixes(list) == {list[i] : i \in DOMAIN list}
EnsureTunnelAllowedIP(list, x) ==
  IF x \in CanonicalPrefixes(list) THEN list ELSE <<x>> \o list

(* Mistake: only an identical prefix is a conflict. *)
SameAsOther(set, p) ==
  \E q \in Peers \ {p} : life[q] = "active" /\ set \cap allowed[q] # {}

(* RejectOverlaps against ActiveOwnedPrefixes: only active peers count. *)
OverlapsOther(set, p) ==
  \E q \in Peers \ {p} : /\ life[q] = "active"
                         /\ \E x \in set, y \in allowed[q] : Overlaps(x, y)

(* loadUpdatePools and classifyUpdatedAllowedIPs: the rows a set of AllowedIPs asks for. *)
PoolsOf(x) == {k \in DOMAIN Pools : IsHost(x) /\ Contains(k, x)}
Classifiable(set) == \A x \in set : Cardinality(PoolsOf(x)) <= 1
Desired(set) == UNION {{<<k, x.base>> : k \in PoolsOf(x)} : x \in set}

(* An adoption refuses an address of two peers that lies in a pool. *)
ASSUME AdoptedAssumption ==
  /\ Adopted \subseteq [Peers -> SUBSET Prefixes]
  /\ \A peers \in Adopted : \A p, q \in Peers :
       p # q => Desired(peers[p]) \cap Desired(peers[q]) = {}
-----------------------------------------------------------------------------
(* An adopted interface brings its peers along, each with its rows; a created
   one starts without peers. *)
Init ==
  \E peers \in Adopted :
     /\ allowed = peers
     /\ life = [p \in Peers |-> IF peers[p] = {} THEN "none" ELSE "active"]
     /\ rows = [s \in Slots |->
                  LET owners == {p \in Peers : s \in Desired(peers[p])}
                  IN  IF owners = {} THEN None ELSE Row("allocated", CHOOSE p \in owners : TRUE)]
     /\ plan = [a \in Actors |-> None]
     /\ op = None
     /\ synced = {p \in Peers : peers[p] # {}}

(* What an operation intends: the list of a create, the set of an update. *)
Request(kind, p) ==
  [kind |-> kind, peer |-> p, list |-> <<>>, set |-> {}, slot |-> None,
   auto |-> FALSE, current |-> TRUE, stage |-> "pending", actor |-> None]

(* preflightPeer, the part about addresses: the slot, or None if it is refused. *)
PreflightPeer(p, list) ==
  LET slot == IF list = <<>> THEN NextAvailableAddress ELSE ValidateAddressCandidate(list[1])
  IN  IF slot = None THEN None
      ELSE IF OverlapsOther(CanonicalPrefixes(EnsureTunnelAllowedIP(list, HostPrefix(slot))), p)
           THEN None ELSE slot

IdentityTaken(p) ==
  \/ life[p] # "none"
  \/ op # None /\ op.peer = p
  \/ \E a \in Actors : plan[a] # None /\ plan[a].peer = p

PlanCreate(a, p) ==
  /\ plan[a] = None /\ ~IdentityTaken(p)
  /\ \E list \in CreateRequests, slot \in Slots :
        /\ PreflightPeer(p, list) = slot
        /\ plan' = [plan EXCEPT ![a] =
             [Request("create", p) EXCEPT
                !.list = EnsureTunnelAllowedIP(list, HostPrefix(slot)),
                !.slot = slot, !.auto = (list = <<>>)]]
  /\ UNCHANGED <<rows, life, allowed, op, synced>>

(* preflightPeerUpdate; without AllowedIPs of its own the request keeps those of
   the file, and may change the name or the keepalive. *)
PlanUpdate(a, p) ==
  /\ plan[a] = None /\ life[p] = "active"
  /\ \E set \in UpdateRequests :
        LET wanted == IF set = {} THEN allowed[p] ELSE set
        IN  /\ ~OverlapsOther(wanted, p)
            /\ plan' = [plan EXCEPT ![a] = [Request("update", p) EXCEPT !.set = wanted]]
  /\ UNCHANGED <<rows, life, allowed, op, synced>>

LifecycleAllows(kind, p) == life[p] = IF kind = "enable" THEN "disabled" ELSE "active"

(* preflightPeerLifecycle: AllowedIPs are not looked at, for an enable either. *)
PlanLifecycle(a, p) ==
  /\ plan[a] = None
  /\ \E kind \in {"disable", "enable", "revoke"} :
        /\ LifecycleAllows(kind, p)
        /\ plan' = [plan EXCEPT ![a] = Request(kind, p)]
  /\ UNCHANGED <<rows, life, allowed, op, synced>>

(* CreateOperation: the actor's pending preview of the same kind is superseded;
   any other operation in progress refuses the new one. *)
Journal(a) ==
  /\ plan[a] # None
  /\ LET superseded == op # None /\ op.stage = "pending" /\ op.actor = a /\ op.kind = plan[a].kind
     IN  op' = IF op = None \/ superseded THEN [plan[a] EXCEPT !.actor = a] ELSE op
  /\ plan' = [plan EXCEPT ![a] = None]
  /\ UNCHANGED <<rows, life, allowed, synced>>

(* The commit: the same checks again, on the revision of the preview; the slot
   stays the one of the preview. *)
Commit ==
  /\ op # None /\ op.stage = "pending" /\ op.current
  /\ CASE op.kind = "create" -> PreflightPeer(op.peer, op.list) # None
       [] op.kind = "update" -> life[op.peer] = "active" /\ ~OverlapsOther(op.set, op.peer)
       [] OTHER -> LifecycleAllows(op.kind, op.peer)
  /\ op' = [op EXCEPT !.stage = "executing"]
  /\ UNCHANGED <<rows, life, allowed, plan, synced>>

(* The preview expires, or the host's change fails and is undone, or the final
   transaction refuses. *)
Abandon ==
  /\ op # None
  /\ op' = None
  /\ UNCHANGED <<rows, life, allowed, plan, synced>>
-----------------------------------------------------------------------------
(* The final transactions: the revision moves on, and every request that was
   checked against the old one is stale. *)
Completes(kind) ==
  /\ op # None /\ op.stage = "executing" /\ op.current /\ op.kind = kind
  /\ op' = None
  /\ plan' = [a \in Actors |-> IF plan[a] = None THEN None
                               ELSE [plan[a] EXCEPT !.current = FALSE]]

(* peer_allowed_ips takes a prefix once per peer, address_allocations an address
   once per pool.  Only the tunnel address gets a row. *)
Insertable(list, slot) ==
  /\ Cardinality(CanonicalPrefixes(list)) = Len(list)
  /\ rows[slot] = None

CompletePeerCreate ==
  /\ Completes("create") /\ Insertable(op.list, op.slot)
  /\ rows' = [rows EXCEPT ![op.slot] = Row("allocated", op.peer)]
  /\ life' = [life EXCEPT ![op.peer] = "active"]
  /\ allowed' = [allowed EXCEPT ![op.peer] = CanonicalPrefixes(op.list)]
  /\ UNCHANGED synced

Held(p) == {s \in Slots : rows[s] = Row("allocated", p)}

(* Mistake: an address that is no longer wanted keeps its row. *)
SyncWithoutQuarantine(p, desired) ==
  [s \in Slots |-> IF s \in desired \ Held(p) THEN Row("allocated", p) ELSE rows[s]]

(* syncPeerAllocations: rows no longer wanted are quarantined, new ones inserted. *)
SyncPeerAllocations(p, desired) ==
  [s \in Slots |-> IF s \in desired \ Held(p) THEN Row("allocated", p)
                   ELSE IF s \in Held(p) \ desired THEN Row("quarantined", p)
                   ELSE rows[s]]

(* A wanted address that another peer holds, or that is in quarantine, even after
   this peer, is refused here and not at the preview. *)
CompletePeerUpdate ==
  /\ Completes("update")
  /\ life[op.peer] = "active" /\ Classifiable(op.set)
  /\ \A s \in Desired(op.set) \ Held(op.peer) : Free(s)
  /\ rows' = SyncPeerAllocations(op.peer, Desired(op.set))
  /\ allowed' = [allowed EXCEPT ![op.peer] = op.set]
  /\ synced' = synced \cup {op.peer}
  /\ UNCHANGED life

CompletePeerLifecycle(kind) ==
  /\ Completes(kind)
  /\ life' = [life EXCEPT ![op.peer] =
                CASE kind = "enable" -> "active" [] kind = "disable" -> "disabled"
                  [] OTHER -> "revoked"]
  /\ rows' = IF kind = "revoke"
             THEN [s \in Slots |-> IF s \in Held(op.peer) THEN Row("quarantined", op.peer)
                                   ELSE rows[s]]
             ELSE rows
  /\ UNCHANGED <<allowed, synced>>

Next ==
  \/ \E a \in Actors, p \in Peers : PlanCreate(a, p) \/ PlanUpdate(a, p) \/ PlanLifecycle(a, p)
  \/ \E a \in Actors : Journal(a)
  \/ Commit \/ Abandon
  \/ CompletePeerCreate \/ CompletePeerUpdate
  \/ \E kind \in {"disable", "enable", "revoke"} : CompletePeerLifecycle(kind)

Spec == Init /\ [][Next]_vars
-----------------------------------------------------------------------------
Rows == [state : {"allocated", "quarantined"}, peer : Peers]
Requests ==
  [kind : Kinds, peer : Peers, list : Seq(Prefixes), set : SUBSET Prefixes, slot : Slots \cup {None},
   auto : BOOLEAN, current : BOOLEAN, stage : {"pending", "executing"}, actor : Actors \cup {None}]

ASSUME NoneAssumption == None \notin Slots /\ None \notin Rows /\ None \notin Requests

(* The types of the rows and of the requests. *)
TypeOK ==
  /\ rows \in [Slots -> Rows \cup {None}]
  /\ life \in [Peers -> {"none", "active", "disabled", "revoked"}]
  /\ allowed \in [Peers -> SUBSET Prefixes]
  /\ plan \in [Actors -> Requests \cup {None}] /\ op \in Requests \cup {None}
  /\ synced \subseteq Peers

(* The rows and the AllowedIPs agree whatever sequence of operations ran: an
   allocated address is an AllowedIP of its living peer, a peer whose rows were
   made from all its AllowedIPs holds every one that lies in a pool, and a peer
   that was only created holds exactly one (CompletePeerCreate,
   syncPeerAllocations, CompletePeerLifecycle). *)
RowsMatchPeers ==
  /\ \A p \in Peers : \A s \in Held(p) :
        life[p] \in {"active", "disabled"} /\ HostPrefix(s) \in allowed[p]
  /\ \A p \in Peers : life[p] \in {"active", "disabled"} =>
        IF p \in synced THEN Held(p) = Desired(allowed[p]) ELSE Cardinality(Held(p)) = 1

(* Two active peers never come to share an address by a create or an update, though
   the check and the write are transactions apart and other actors' operations
   commit between them.  An enable is the one step that may do it: its preflight
   does not look at the AllowedIPs others took in the meantime. *)
Shares(p, q) == /\ life[p] = "active" /\ life[q] = "active"
                /\ \E x \in allowed[p], y \in allowed[q] : Overlaps(x, y)
OverlapOnlyByEnable ==
  [][\A p, q \in Peers :
       p # q /\ ~Shares(p, q) /\ Shares(p, q)'
         => op.kind = "enable" /\ op.peer \in {p, q}]_vars

(* The address shown in the preview can still be inserted when the host has been
   changed, so that a create is not refused at its last step; and an automatic one
   is still the first usable address without a row, pool by pool, among the first
   MaxScan of each (NextAvailableAddress, CompletePeerCreate). *)
Before(s, t) == s[1] < t[1] \/ (s[1] = t[1] /\ s[2] < t[2])
InReach(s) == s[2] < Pools[s[1]].base + MaxScan
PreviewedAddressHolds ==
  op # None /\ op.kind = "create" /\ op.stage = "executing" =>
    /\ rows[op.slot] = None
    /\ op.auto =>
         /\ Usable(op.slot[1], op.slot[2])
         /\ \A s \in Slots : Before(s, op.slot) /\ InReach(s) /\ Usable(s[1], s[2])
                               => rows[s] # None
=============================================================================
