--------------------------- MODULE MCDNSResolver ---------------------------
(* Model-checking instance of DNSResolver: the constants are model values *)
(* given in the .cfg files; the sets below are symmetric.                 *)
EXTENDS DNSResolver, TLC

CONSTANTS a1, a2, c1, c2, n1, n2, m1

MCAddrs     == {a1, a2}
MCConsumers == {c1, c2}
MCNames     == {n1, n2}

\* Addresses, Resolvers and names are only compared for equality.
Symmetry == Permutations(MCAddrs) \cup Permutations(MCConsumers)
              \cup Permutations(MCNames)
=============================================================================
