----------------------------- MODULE MCAdoption -----------------------------
(* Instances of Adoption for TLC: two peers, an address each and a subnet, and  *)
(* two networks that share an address.                                          *)
EXTENDS Adoption, TLC

CONSTANTS p1, p2, h1, h2, sub, n1, n2

NetContains == (n1 :> {h1, h2}) @@ (n2 :> {h2})
IPs(one, two) == (p1 :> one) @@ (p2 :> two)

\* One peer; two, of which the second has an address both networks hold.
SomeFiles ==
  {[nets |-> {n1}, ips |-> IPs({h1, sub}, {}), psk |-> {p1}, ok |-> TRUE],
   [nets |-> {n1}, ips |-> IPs({h1}, {h2}), psk |-> {p1, p2}, ok |-> TRUE]}

\* Down; up, in a second network.
SomeDevices ==
  {[nets |-> {}, ips |-> IPs({}, {})],
   [nets |-> {n2}, ips |-> IPs({h1, sub}, {})]}
=============================================================================
