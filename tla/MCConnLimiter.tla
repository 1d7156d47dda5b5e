--------------------------- MODULE MCConnLimiter ---------------------------
(* Instances of ConnLimiter for TLC.                                       *)
EXTENDS ConnLimiter

CONSTANTS dot, doq, doh

V4(h) == [kind |-> "v4", net |-> 0, host |-> h]
Mapped(h) == [kind |-> "mapped", net |-> 0, host |-> h]
V6(n, h) == [kind |-> "v6", net |-> n, host |-> h]

\* An IPv4 client seen directly and through a dual-stack socket, two IPv6
\* clients of one network, and the machine itself through a dual-stack socket.
Clients == {V4(1), Mapped(1), V6(3, 1), V6(3, 2), Mapped(0)}
Home == {V4(0)}

\* DoT and DoQ listen on one address, DoH on another.
AddrOf == [l \in Listeners |-> IF l = doh THEN "443" ELSE "853"]

Total == [m \in Limiters |-> IF m = Global THEN 2 ELSE 1]
PerSource == [m \in Limiters |-> IF m = Global THEN 2 ELSE 1]
=============================================================================
