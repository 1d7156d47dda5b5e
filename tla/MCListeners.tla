---------------------------- MODULE MCListeners ----------------------------
(* Instances of Listeners for TLC.                                         *)
EXTENDS Listeners, TLC

CONSTANTS tcp, tcpOpt, udp

\* tcp and tcpOpt are one address with different options; udp is another port.
PortOf == [b \in {tcp, tcpOpt, udp} |-> IF b = udp THEN "udp" ELSE "tcp"]

\* No action tells one socket from another; for runs without liveness.
SockSymmetry == Permutations(Socks)
=============================================================================
