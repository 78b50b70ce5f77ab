---------------------------- MODULE MCAddressPool ----------------------------
(* An IPv4 pool of four addresses, one of them for automatic allocation, and an
   IPv6 pool that is larger than a scan. *)
EXTENDS AddressPool, TLC

CONSTANTS a1, a2, p1, p2

TwoPools == <<[fam |-> 4, base |-> 0, size |-> 4, gateway |-> 1],
              [fam |-> 6, base |-> 0, size |-> 8, gateway |-> 1]>>

Host4 == Prefix(4, 2, 1)
Host6 == Prefix(6, 2, 1)
Subnet6 == Prefix(6, 2, 2)
Remote == Prefix(4, 8, 8)

Creates == {<<>>, <<Host4>>, <<Host6, Host4>>, <<Host4, Host4>>, <<Host6, Remote>>}
Updates == {{}, {Host4}, {Host6, Remote}, {Subnet6}}

NoPeers == [p \in Peers |-> {}]
Imports ==
  {NoPeers} \cup {[NoPeers EXCEPT ![p] = {Host4, Remote}] : p \in Peers}
  \cup {[NoPeers EXCEPT ![pq[1]] = {Host6, Remote}, ![pq[2]] = {Remote}] :
          pq \in {r \in Peers \X Peers : r[1] # r[2]}}

Symmetric == Permutations(Actors) \cup Permutations(Peers)
=============================================================================
