----------------------------- MODULE MCDnsCache -----------------------------
(* Instances of DnsCache for TLC.                                          *)
EXTENDS DnsCache, TLC

CONSTANTS A, AAAA

\* One name with its two address types.
PairKeys == {A, AAAA}
PairSibling == [k \in PairKeys |-> IF k = A THEN AAAA ELSE A]

\* One name with a record type that has no partner.
Alone == [k \in {A} |-> k]

Symmetric == Permutations(Clients) \cup Permutations(Refreshers)
=============================================================================
