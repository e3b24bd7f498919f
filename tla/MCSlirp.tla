------------------------------- MODULE MCSlirp -------------------------------
(* slirp, one half at a time: a TCP connection, or datagrams.  The server of *)
(* addresses and the queue of fragments (which share only the mbufs with the *)
(* sockets) are checked while nothing is under way outside.                  *)
EXTENDS SlirpTcp

VARIABLES socks, last, net, sent, frags, used, leaked, clients, offered, out

udpVars == <<socks, last, net, sent, frags, used, leaked, clients, offered, out>>

Udp == INSTANCE SlirpUdp WITH
    Ports <- {"9", "7000"}, MaxSent <- 3, MaxLen <- 3, Mtu <- 5, Unit <- 2,
    Macs <- {"m1", "m2"}, NB_ADDR <- 2

ASSUME Udp!SlirpUdpAssumption

MCInit == Init /\ Udp!Init
MCNext ==
    \/ Udp!Init /\ socks = {} /\ Next /\ UNCHANGED udpVars
    \/ Init /\ guest.st = "listen" /\ Udp!Next /\ UNCHANGED vars
       /\ (clients' # <<>> \/ frags' # <<>> => net' = {})
       /\ (clients' = <<>> \/ frags' = <<>>)
MCSpec == MCInit /\ [][MCNext]_<<vars, udpVars>> /\ Fairness

\* The bytes of a connection arrive once and in order, and its end after them (tcp_input.c,
\* tcp_output.c, sbuf.c, socket.c).
StreamExact == BytesExact /\ EndsLast
\* What reaches the guest, and what leaves for the host, is what was asked for, and every
\* mbuf in use is held by something (udp.c, ip_input.c, bootp.c, mbuf.c).
DatagramsExact == Udp!UdpExact /\ Udp!MbufsExact
=============================================================================
