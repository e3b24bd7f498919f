------------------------------ MODULE SlirpUdp ------------------------------
(***************************************************************************)
(* Datagrams through the user-mode network (user/slirp): the UDP sockets   *)
(* slirp makes for the guest's ports, its answers to pings, the reassembly *)
(* of fragments, the cutting of large answers, the mbufs all of them use   *)
(* and the addresses its BOOTP server gives.                               *)
(*                                                                         *)
(* A socket is known by its descriptor fd.  `net` holds what is under way  *)
(* outside: each datagram of the guest that the host has still to answer,  *)
(* with the address and port the guest gave, or a datagram of a program of *)
(* the host to a redirected port.  `out` is what the last step sent to the *)
(* guest.  Time is not measured: a socket that may expire may do so.       *)
(***************************************************************************)
EXTENDS Integers, Sequences, FiniteSets, SequencesExt

CONSTANTS Ports,       \* the guest's UDP ports; "9" is among them
          MaxSent,     \* bound on what the guest and the host's programs send
          MaxLen,      \* the length of the fragmented datagram, in units of 8 bytes
          Mtu, Unit,   \* if_mtu without the header, and the 8 bytes of a unit
          Macs,        \* the Ethernet addresses the guest has had
          NB_ADDR      \* the addresses of the BOOTP server

SlirpUdpAssumption ==
    /\ "9" \in Ports
    /\ {MaxSent, MaxLen, NB_ADDR} \subseteq Nat \ {0}
    /\ {Mtu, Unit} \subseteq Nat \ {0} /\ Unit <= Mtu

VARIABLES
    socks,          \* the list udb
    last,           \* udp_last_so, -1 for the head of the list
    net,            \* what is under way outside
    sent,           \* datagrams and pings numbered so far
    frags,          \* the queue of the datagram being reassembled
    used, leaked,   \* mbufs in use; those nothing refers to any more
    clients,        \* bootp_clients: the Ethernet address each address was given to
    offered,        \* the address last offered to each
    out

vars == <<socks, last, net, sent, frags, used, leaked, clients, offered, out>>

Nothing == [kind |-> "none"]
NoMbuf == [id |-> 0, what |-> "none"]

Dests == {"host", "dns", "alias"}

-----------------------------------------------------------------------------
(* Addresses and sockets.                                                  *)

\* sosendto: where a datagram for a special address of slirp really goes.
Real(dest) == CASE dest = "dns" -> "dnshost" [] dest = "alias" -> "local" [] OTHER -> dest

\* udp_output: the address an answer is made to come from.
Named(faddr, sender) ==
    IF faddr = "dns" \/ (faddr = "alias" /\ sender = "local") THEN faddr ELSE sender

\* socreate and udp_attach.
Attached(kind, port, dest, m) ==
    [fd |-> sent + 1, kind |-> kind, lport |-> port, faddr |-> dest, m |-> m, expire |-> TRUE, sel |-> FALSE]

\* The socket of a port: the last one found, else the newest in the list.  The remote address is
\* not compared, and the sockets of pings (port 9) are in the same list.
Found(port) ==
    LET cached == {s \in socks : s.fd = last /\ s.lport = port}
        listed == {s \in socks : s.lport = port /\ \A t \in socks : t.lport = port => t.fd <= s.fd}
    IN  IF cached # {} THEN cached ELSE listed

Held(s) == IF s.m = NoMbuf THEN 0 ELSE 1

\* udp_detach and sofree
Detached(s) ==
    /\ socks' = socks \ {s}
    /\ last' = IF last = s.fd THEN -1 ELSE last

Asks(fd, port, dest, id, whole) ==
    [fd |-> fd, port |-> port, to |-> Real(dest), dest |-> dest, id |-> id, whole |-> whole]

\* icmp_error about the datagram m, which the step knows to be caused by the datagram `cause`.
Unreach(m, cause) == IF m = NoMbuf THEN Nothing ELSE [kind |-> "unreach", about |-> m.id, cause |-> cause]

-----------------------------------------------------------------------------
(* udp_input, with the datagram in an mbuf; `mbufs` were freed before.     *)

\* The mbuf kept for the last datagram is freed.
Freed_Keep(s) == 0
Freed(s) == Held(s)

UdpInput(port, dest, whole, mbufs) ==
    LET id == sent + 1
        m  == [id |-> id, what |-> "udp"]
    IN
    /\ sent' = id
    /\ \/ \* no memory or no descriptor for a socket
          /\ Found(port) = {}
          /\ used' = used - mbufs
          /\ out' = Nothing
          /\ UNCHANGED <<socks, last, net>>
       \/ \E s \in IF Found(port) = {} THEN {Attached("udp", port, dest, NoMbuf)} ELSE Found(port) :
          \E ok \in BOOLEAN :
             /\ socks' = (socks \ {s}) \cup
                             {[s EXCEPT !.faddr = dest, !.m = m, !.sel = @ \/ ok]}
             /\ last' = IF s \in socks THEN s.fd ELSE last
             /\ net' = IF ok THEN net \cup {Asks(s.fd, port, dest, id, whole)} ELSE net
             /\ out' = IF ok THEN Nothing ELSE Unreach(m, id)
             /\ used' = used + 1 - mbufs - Freed(s)

GuestSends(port, dest) ==
    /\ sent < MaxSent
    /\ UdpInput(port, dest, TRUE, 0)
    /\ UNCHANGED <<frags, leaked, clients, offered>>

\* ip_input: the datagram's time to live is over.
TtlExceeded ==
    /\ sent < MaxSent
    /\ sent' = sent + 1
    /\ out' = Unreach([id |-> sent + 1, what |-> "udp"], sent + 1)
    /\ UNCHANGED <<socks, last, net, frags, used, leaked, clients, offered>>

\* ip_input returns without m_freem.
TooShort ==
    /\ sent < MaxSent
    /\ sent' = sent + 1
    /\ used' = used + 1
    /\ leaked' = leaked + 1
    /\ out' = Nothing
    /\ UNCHANGED <<socks, last, net, frags, clients, offered>>

\* icmp_input: slirp answers for itself; for others it asks the echo port.
GuestPings(dest) ==
    LET m == [id |-> sent + 1, what |-> "echo"]
        s == [Attached("ping", "9", dest, m) EXCEPT !.sel = TRUE]
    IN
    /\ sent < MaxSent
    /\ sent' = sent + 1
    /\ \/ /\ dest = "alias"
          /\ out' = [kind |-> "echo", of |-> m, cause |-> m.id]
          /\ UNCHANGED <<socks, net, used>>
       \/ /\ dest # "alias"
          /\ socks' = socks \cup {s}
          /\ net' = net \cup {Asks(s.fd, "9", dest, m.id, TRUE)}
          /\ used' = used + 1
          /\ out' = Nothing
       \/ /\ dest # "alias"
          /\ out' \in {Nothing, Unreach(m, m.id)}
          /\ UNCHANGED <<socks, net, used>>
    /\ UNCHANGED <<last, frags, leaked, clients, offered>>

-----------------------------------------------------------------------------
(* ip_reass.  A fragment is its data, each unit named by its place.        *)

Units(a, n) == [i \in 1..n |-> a + i]
Slices == {[off |-> a, data |-> Units(a, n), mf |-> a + n < MaxLen] :
              a \in 0..(MaxLen - 1), n \in 1..MaxLen}
Fragments == {f \in Slices : f.off + Len(f.data) <= MaxLen /\ (f.mf \/ f.off > 0)}

Cut(f, i) == [f EXCEPT !.off = @ + i, !.data = SubSeq(@, i + 1, Len(@))]

End(f) == f.off + Len(f.data)

\* The queue with f in it, or as it was if it holds all of f.
Inserted(q, f) ==
    LET k    == Cardinality({j \in DOMAIN q : q[j].off <= f.off})
        i    == IF k = 0 THEN 0 ELSE End(q[k]) - f.off
        g    == IF i > 0 THEN Cut(f, i) ELSE f
        kept == SelectSeq(SubSeq(q, k + 1, Len(q)), LAMBDA r : End(g) < End(r))
        rest == IF kept # <<>> /\ End(g) > kept[1].off
                THEN <<Cut(kept[1], End(g) - kept[1].off)>> \o Tail(kept) ELSE kept
    IN  IF i > 0 /\ i >= Len(f.data) THEN q ELSE SubSeq(q, 1, k) \o <<g>> \o rest

Complete(q) ==
    /\ \A j \in DOMAIN q : q[j].off = IF j = 1 THEN 0 ELSE End(q[j - 1])
    /\ ~q[Len(q)].mf

Data(q) == FlattenSeq([j \in DOMAIN q |-> q[j].data])
Mbufs(q) == IF q = <<>> THEN 0 ELSE Len(q) + 1

FragmentArrives(f) ==
    LET q == Inserted(frags, f)
    IN
    /\ sent < MaxSent
    /\ IF Complete(q)
       THEN /\ frags' = <<>>
            /\ UdpInput(CHOOSE p \in Ports : p # "9", "host", Data(q) = Units(0, MaxLen), Mbufs(frags))
       ELSE /\ frags' = q
            /\ used' = used + Mbufs(q) - Mbufs(frags)
            /\ out' = Nothing
            /\ UNCHANGED <<socks, last, net, sent>>
    /\ UNCHANGED <<leaked, clients, offered>>

\* ip_slowtimo: the time to live of the queue is over.
FragmentsExpire ==
    /\ frags # <<>>
    /\ frags' = <<>>
    /\ used' = used - Mbufs(frags)
    /\ out' = Nothing
    /\ UNCHANGED <<socks, last, net, sent, leaked, clients, offered>>

\* ip_output: an answer of n bytes in frames the guest's interface takes.
Frames(n) ==
    LET len == IF n <= Mtu THEN n ELSE Mtu - (Mtu % Unit)
        c   == IF n <= Mtu THEN 1 ELSE (n + len - 1) \div len
    IN  [i \in 1..c |-> [off |-> ((i - 1) * len) \div Unit,
                         len |-> IF i < c THEN len ELSE n - (c - 1) * len, mf |-> i < c]]

-----------------------------------------------------------------------------
(* sorecvfrom                                                              *)

Readable(s, r) == s.sel /\ r.fd = s.fd

\* Datagrams nobody asked for come to a redirected port.
Expected(r) == IF r.dest # "none" THEN r.dest ELSE IF r.to = "local" THEN "alias" ELSE r.to

Answered(s, r) ==
    /\ s.kind = "udp" /\ Readable(s, r)
    /\ net' = net \ {r}
    /\ out' = [kind |-> "reply", src |-> Named(s.faddr, r.to), port |-> s.lport, expected |-> Expected(r), asker |-> r.port,
               since |-> s.faddr # (IF r.dest = "none" THEN "alias" ELSE r.dest)]
    /\ UNCHANGED <<socks, last, sent, frags, used, leaked, clients, offered>>

\* An error of an earlier datagram: the newest one is reported.
Refused(s, r) ==
    /\ s.kind = "udp" /\ Readable(s, r) /\ r.dest # "none"
    /\ net' = net \ {r}
    /\ out' = Unreach(s.m, r.id)
    /\ UNCHANGED <<socks, last, sent, frags, used, leaked, clients, offered>>

\* The answer to a ping, or its refusal by the echo port of a host that is there.
PingAnswered(s, r) ==
    /\ s.kind = "ping" /\ Readable(s, r)
    /\ net' = net \ {r}
    /\ out' = [kind |-> "echo", of |-> s.m, cause |-> r.id]
    /\ used' = used - Held(s)
    /\ Detached(s)
    /\ UNCHANGED <<sent, frags, leaked, clients, offered>>

PingRefused(s, r) ==
    /\ s.kind = "ping" /\ Readable(s, r)
    /\ net' = net \ {r}
    /\ out' = Unreach(s.m, r.id)
    /\ used' = used - Held(s)
    /\ Detached(s)
    /\ UNCHANGED <<sent, frags, leaked, clients, offered>>

\* slirp_select_fill: so_expire has passed; what comes to the descriptor later is lost.
Expire(s) ==
    /\ s.expire
    /\ Detached(s)
    /\ net' = {r \in net : r.fd # s.fd}
    /\ used' = used - Held(s)
    /\ out' = Nothing
    /\ UNCHANGED <<sent, frags, leaked, clients, offered>>

\* A program of the host sends to a redirected port.
ProgramSends(s, from) ==
    /\ sent < MaxSent
    /\ ~s.expire
    /\ sent' = sent + 1
    /\ net' = net \cup {[fd |-> s.fd, port |-> s.lport, to |-> from, dest |-> "none", id |-> sent + 1, whole |-> TRUE]}
    /\ out' = Nothing
    /\ UNCHANGED <<socks, last, frags, used, leaked, clients, offered>>

-----------------------------------------------------------------------------
(* bootp_reply                                                             *)

Given(mac) == {i \in DOMAIN clients : clients[i] = mac}

Offer(mac, kind) ==
    /\ clients' = Append(clients, mac)
    /\ offered' = IF kind = "offer" THEN [offered EXCEPT ![mac] = Len(clients) + 1] ELSE offered
    /\ out' = [kind |-> kind, mac |-> mac, addr |-> Len(clients) + 1]
    /\ UNCHANGED <<used, leaked>>

\* No address left: the mbuf of the answer is not freed.
NoAddress ==
    /\ Len(clients) = NB_ADDR
    /\ used' = used + 1
    /\ leaked' = leaked + 1
    /\ out' = Nothing
    /\ UNCHANGED <<clients, offered>>

Discover(mac) ==
    /\ sent < MaxSent
    /\ sent' = sent + 1
    /\ \/ Len(clients) < NB_ADDR /\ Offer(mac, "offer")
       \/ NoAddress
    /\ UNCHANGED <<socks, last, net, frags>>

Request(mac) ==
    /\ sent < MaxSent
    /\ sent' = sent + 1
    /\ \/ /\ Given(mac) # {}
          /\ out' = [kind |-> "ack", mac |-> mac, addr |-> CHOOSE i \in Given(mac) : \A j \in Given(mac) : i <= j]
          /\ UNCHANGED <<used, leaked, clients, offered>>
       \/ Given(mac) = {} /\ Len(clients) < NB_ADDR /\ Offer(mac, "ack")
       \/ Given(mac) = {} /\ NoAddress
    /\ UNCHANGED <<socks, last, net, frags>>

-----------------------------------------------------------------------------

\* With or without a redirected port (udp_listen); its remote address is the alias.
Init ==
    /\ socks \in {{}} \cup {{[fd |-> 0, kind |-> "udp", lport |-> p, faddr |-> "alias", m |-> NoMbuf,
                             expire |-> FALSE, sel |-> TRUE]} : p \in Ports}
    /\ last = -1
    /\ net = {}
    /\ sent = 0
    /\ frags = <<>>
    /\ used = 0 /\ leaked = 0
    /\ clients = <<>>
    /\ offered = [m \in Macs |-> 0]
    /\ out = Nothing

Next ==
    \/ \E p \in Ports, d \in Dests : GuestSends(p, d)
    \/ \E d \in Dests : GuestPings(d)
    \/ TtlExceeded \/ TooShort
    \/ \E f \in Fragments : FragmentArrives(f)
    \/ FragmentsExpire
    \/ \E s \in socks, r \in net :
          \/ Answered(s, r)
          \/ Refused(s, r) \/ PingAnswered(s, r) \/ PingRefused(s, r)
    \/ \E s \in socks : Expire(s)
    \/ \E s \in socks, from \in {"host", "local"} : ProgramSends(s, from)
    \/ \E mac \in Macs : Discover(mac) \/ Request(mac)

Spec == Init /\ [][Next]_vars

-----------------------------------------------------------------------------
(* Properties.                                                             *)

\* A cut datagram is whole in the frames sent: none too large, none missing, the last one marked.
Tiles(frames, n) ==
    LET start(i) == IF i = 1 THEN 0 ELSE frames[i - 1].off * Unit + frames[i - 1].len
    IN  /\ \A i \in DOMAIN frames :
              frames[i].off * Unit = start(i) /\ frames[i].len <= Mtu /\ (frames[i].mf <=> i < Len(frames))
        /\ start(Len(frames) + 1) = n

\* An answer comes to the port that asked, from the address the guest had sent to (or the alias,
\* for a program of the host), and an error is about the datagram that failed, unless the same
\* port has sent somewhere else since, which overwrites so_faddr and so_m.  An echo is the
\* guest's own echo request, unless a datagram from port 9 took its socket.
AnswersExact ==
    /\ out.kind = "reply" => out.port = out.asker /\ (out.src = out.expected \/ out.since)
    /\ out.kind = "unreach" => out.about >= out.cause
    /\ out.kind = "echo" => out.of.id = out.cause \/ out.of.what = "udp"
    /\ last >= 0 => \E s \in socks : s.fd = last

\* A datagram put together from fragments is the guest's whole datagram, whatever the order, loss
\* and overlap of the fragments, and one cut into frames is whole in them.
FragmentsExact ==
    /\ \A r \in net : r.whole
    /\ \A i, j \in DOMAIN frags : i < j => End(frags[i]) <= frags[j].off
    /\ \A n \in 0..(2 * Mtu) : Tiles(Frames(n), n)

\* An address belongs to one client, and the one acknowledged is the first the client was ever
\* offered: it is the one just offered only as long as the client has asked once.
LeaseExact ==
    out.kind = "ack" =>
        /\ clients[out.addr] = out.mac
        /\ out.addr = offered[out.mac] \/ offered[out.mac] = 0 \/ Cardinality(Given(out.mac)) > 1

\* What reaches the guest, and what leaves for the host, is what was asked for.
UdpExact == AnswersExact /\ FragmentsExact /\ LeaseExact

\* Every mbuf in use is held by a socket or by the reassembly queue; the two ways out that forget
\* theirs (a packet shorter than a header, a client without an address) are the only exceptions.
MbufsExact ==
    used = Cardinality({s \in socks : s.m # NoMbuf}) + Mbufs(frags) + leaked
=============================================================================
