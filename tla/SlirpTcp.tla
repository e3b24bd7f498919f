------------------------------ MODULE SlirpTcp ------------------------------
(***************************************************************************)
(* One TCP connection of the user-mode network (user/slirp).  slirp ends   *)
(* the guest's TCP connection itself and carries its bytes over a socket   *)
(* of the host: `so` is its socket with the protocol block (struct socket  *)
(* and struct tcpcb), `host` the host socket and the program behind it,    *)
(* `guest` the TCP of the guest.                                           *)
(*                                                                         *)
(* Sequence numbers count from the SYN: 0 is the SYN, 1..n are the bytes   *)
(* (each is its own number, so order and loss are seen), n+1 is the FIN.   *)
(* Frames to and from the guest are discardable messages, so each may be   *)
(* lost; the guest may send again any part of what it has sent, with any   *)
(* acknowledgement it has given before, which stands for duplicates, late  *)
(* and reordered segments.                                                 *)
(*                                                                         *)
(* The guest's own window is taken as open (no persist timer) and the      *)
(* urgent pointer, the congestion window and tcp_emu are left out.         *)
(***************************************************************************)
EXTENDS Integers, Sequences, FiniteSets, SequencesExt

CONSTANTS MaxBytes,     \* bound on the bytes the guest and the host's program write, together
          RcvSpace,     \* tcp_rcvspace
          SndSpace,     \* tcp_sndspace
          Retries,      \* retransmissions until t_maxseg falls below 32
          MaxOpens      \* bound on the sockets ever made

ASSUME SlirpTcpAssumption ==
    /\ {MaxBytes, MaxOpens} \subseteq Nat
    /\ {RcvSpace, SndSpace, Retries} \subseteq Nat \ {0}

VARIABLES so, host, guest, opens

vars == <<so, host, guest, opens>>

-----------------------------------------------------------------------------
(* The socket.                                                             *)

\* The order of TCPS_*, which the code compares.
Ranked == <<"CLOSED", "LISTEN", "SYN_SENT", "SYN_RECEIVED", "ESTABLISHED", "CLOSE_WAIT",
            "FIN_WAIT_1", "CLOSING", "LAST_ACK", "FIN_WAIT_2", "TIME_WAIT">>
Rank(s) == CHOOSE i \in DOMAIN Ranked : Ranked[i] = s
HaveEstablished(s) == Rank(s) >= Rank("ESTABLISHED")
SendsFin(s) == s \in {"FIN_WAIT_1", "CLOSING", "LAST_ACK"}
SendsSyn(s) == s \in {"SYN_SENT", "SYN_RECEIVED"}

NoSocket == [state |-> "none"]
Nothing == [ctl |-> {}]

Larger(a, b) == IF a > b THEN a ELSE b
Smaller(a, b) == IF a < b THEN a ELSE b
Span(a, n) == [i \in 1..n |-> a + i - 1]

\* socreate and tcp_attach: flags, then the protocol block, then the buffers.
NewSocket(state) ==
    [state |-> state, fd |-> {"NOFDREF"}, template |-> FALSE,
     una |-> 0, nxt |-> 0, max |-> 0, rtt |-> -1, rnxt |-> 0, radv |-> 0,
     flags |-> {}, timers |-> {"KEEP"}, tries |-> 0,
     queue |-> {}, qfin |-> 0, qalone |-> FALSE, snd |-> <<>>, rcv |-> <<>>]

Space(s) == RcvSpace - Len(s.rcv)

\* sofcantrcvmore and sofcantsendmore: shutdown, and both together mean NOFDREF.
CantRcvMore(s) ==
    [s EXCEPT !.fd = IF "CANTSEND" \in @ THEN {"NOFDREF"} ELSE (@ \ {"CONNECTING"}) \cup {"CANTRCV"}]
CantSendMore(s) ==
    [s EXCEPT !.fd = IF "CANTRCV" \in @ THEN {"NOFDREF"} ELSE (@ \ {"CONNECTING"}) \cup {"CANTSEND"}]
ShutsWrite(s, h) == IF "NOFDREF" \in s.fd THEN h ELSE [h EXCEPT !.eof = TRUE]

Connected(s) == [s EXCEPT !.fd = (@ \ {"CONNECTING", "DRAIN", "NOFDREF"}) \cup {"CONNECTED"}]

-----------------------------------------------------------------------------
(* tcp_output: the socket afterwards and the one segment sent, or Nothing. *)

OutputLen(s) == Larger(Len(s.snd) - (s.nxt - s.una), 0)
OutputFin(s) == SendsFin(s.state) /\ s.nxt + OutputLen(s) >= s.una + Len(s.snd)

OwesSegment(s) ==
    \/ OutputLen(s) > 0
    \/ Space(s) > 0 /\ 2 * (Space(s) - (s.radv - s.rnxt)) >= RcvSpace
    \/ "ACKNOW" \in s.flags
    \/ s.state = "CLOSED" \/ SendsSyn(s.state)
    \/ OutputFin(s) /\ ("SENTFIN" \notin s.flags \/ s.nxt = s.una)

Sent(s) ==
    LET len   == OutputLen(s)
        fin   == OutputFin(s)
        syn   == SendsSyn(s.state)
        first == IF syn THEN 0
                 ELSE IF fin /\ "SENTFIN" \in s.flags /\ s.nxt = s.max THEN s.nxt - 1 ELSE s.nxt
        next  == first + len + (IF syn THEN 1 ELSE 0) + (IF fin THEN 1 ELSE 0)
        new   == next > s.max
    IN  [s EXCEPT !.nxt = next, !.max = Larger(next, s.max),
                  !.rtt = IF new /\ s.rtt < 0 THEN first ELSE @,
                  !.radv = Larger(@, s.rnxt + Space(s)),
                  !.timers = IF next # s.una THEN @ \cup {"REXMT"} ELSE @,
                  !.flags = (@ \ {"ACKNOW", "DELACK"}) \cup (IF fin THEN {"SENTFIN"} ELSE {})]

Segment(s) ==
    LET len == OutputLen(s)
        t   == Sent(s)
        ctl == (IF SendsSyn(s.state) THEN {"SYN"} ELSE {}) \cup (IF OutputFin(s) THEN {"FIN"} ELSE {})
                 \cup (IF s.state = "CLOSED" THEN {"RST"} ELSE {})
                 \cup (IF s.state = "SYN_SENT" THEN {} ELSE {"ACK"})
        off == s.nxt - s.una
    IN  [ctl |-> ctl, data |-> SubSeq(s.snd, off + 1, off + len),
         seq |-> IF len > 0 \/ ctl \cap {"SYN", "FIN"} # {}
                 THEN t.nxt - len - Cardinality(ctl \cap {"SYN", "FIN"}) ELSE s.max,
         ack |-> s.rnxt, edge |-> t.radv]

Output(s) == IF OwesSegment(s) THEN Sent(s) ELSE s
Emitted(s) == IF OwesSegment(s) /\ s.template THEN Segment(s) ELSE Nothing

\* tcp_respond with RST
Reset(ack) == [ctl |-> {"RST", "ACK"}, data |-> <<>>, seq |-> ack, ack |-> 0, edge |-> 0]

-----------------------------------------------------------------------------
(* The guest's TCP (external) and the program of the host.                 *)

Acks(g) == Len(g.got) + 1 + (IF g.fin THEN 1 ELSE 0)

Takes(g, p) ==
    LET old == Acks(g) - p.seq
    IN  IF g.fin \/ old < 0 \/ old > Len(p.data) THEN g
        ELSE [g EXCEPT !.got = @ \o SubSeq(p.data, old + 1, Len(p.data)), !.fin = "FIN" \in p.ctl]

GuestAnswers(g, p) ==
    CASE g.st \in {"closed", "reset"} -> [g EXCEPT !.replies = TRUE]
      [] g.st = "syn_sent" /\ {"SYN", "ACK"} \subseteq p.ctl ->
            [g EXCEPT !.st = "open", !.una = 1, !.edge = p.edge]
      [] g.st = "listen" /\ "SYN" \in p.ctl -> [g EXCEPT !.st = "syn_rcvd"]
      [] g.st = "syn_rcvd" /\ p.ctl = {"ACK"} ->
            Takes([g EXCEPT !.st = "open", !.una = Larger(@, p.ack), !.edge = Larger(@, p.edge)], p)
      [] g.st = "open" /\ "SYN" \notin p.ctl ->
            Takes([g EXCEPT !.una = Larger(@, p.ack), !.edge = Larger(@, p.edge)], p)
      [] OTHER -> g

GuestReceives(g, p) ==
    IF p = Nothing THEN g
    ELSE IF "RST" \in p.ctl THEN [g EXCEPT !.st = "reset"]
    ELSE GuestAnswers(g, p)

\* A frame to the guest arrives or is lost.
ToGuest(p) == guest' \in {guest, GuestReceives(guest, p)}

NewHost(c) == [conn |-> c, sent |-> 0, read |-> 0, ended |-> FALSE, broken |-> FALSE, inn |-> <<>>, eof |-> FALSE]

\* closesocket: nothing more passes between slirp and the program.
Closed(h) == [h EXCEPT !.conn = "closed"]

Readable(h) == h.sent - h.read

-----------------------------------------------------------------------------
(* Closing.                                                                *)

\* tcp_close and sofree
CloseTo(p) ==
    /\ so' = NoSocket
    /\ host' = Closed(host)
    /\ ToGuest(p)
    /\ UNCHANGED opens

\* tcp_drop: a RST when a SYN has been received, which needs the template of the connection
DropSegment(s) ==
    IF Rank(s.state) >= Rank("SYN_RECEIVED") THEN Emitted([s EXCEPT !.state = "CLOSED"]) ELSE Nothing

\* tcp_sockclosed, without its call of tcp_output
SockClosed(s) ==
    [s EXCEPT !.state = CASE @ \in {"SYN_RECEIVED", "ESTABLISHED"} -> "FIN_WAIT_1"
                          [] @ = "CLOSE_WAIT" -> "LAST_ACK"
                          [] OTHER -> @]

\* The handler leaves the socket s, the host side h, and calls tcp_output.  (A value bound by \E
\* rather than LET is one TLC computes once.)
Leaves(s, h) ==
    \E t \in {s} :
        /\ so' = Output(t)
        /\ host' = h
        /\ ToGuest(Emitted(t))
        /\ UNCHANGED opens

Quietly(s, h) ==
    /\ so' = s
    /\ host' = h
    /\ UNCHANGED <<guest, opens>>

-----------------------------------------------------------------------------
(* tcp_input, in its stages.                                               *)

\* The part of a segment before rcv_nxt is cut off; so is what is beyond the window.
ReceiveWindow(s) == Larger(Space(s), s.radv - s.rnxt)

CutFront(s, p) ==
    LET syn  == "SYN" \in p.ctl /\ s.rnxt > p.seq
        q    == IF syn THEN [p EXCEPT !.ctl = @ \ {"SYN"}, !.seq = @ + 1] ELSE p
        cut  == s.rnxt - q.seq
        all  == cut > Len(q.data) \/ (cut = Len(q.data) /\ "FIN" \notin q.ctl)
    IN  IF s.rnxt <= p.seq THEN [p |-> p, old |-> FALSE]
        ELSE [p |-> [q EXCEPT !.data = SubSeq(@, cut + 1, Len(@)),
                              !.seq = @ + Smaller(cut, Len(q.data)),
                              !.ctl = IF all THEN @ \ {"FIN"} ELSE @],
              old |-> all]

Beyond(s, p) == (p.seq + Len(p.data)) - (s.rnxt + ReceiveWindow(s))

CutBack(s, p) ==
    IF Beyond(s, p) <= 0 THEN p
    ELSE [p EXCEPT !.data = SubSeq(@, 1, Len(@) - Smaller(Beyond(s, p), Len(@))), !.ctl = @ \ {"FIN"}]

\* A segment with nothing inside the window, unless it probes a closed one: dropafterack.
Outside(s, p) ==
    /\ Beyond(s, p) > 0
    /\ Beyond(s, p) >= Len(p.data)
    /\ ~(ReceiveWindow(s) = 0 /\ p.seq = s.rnxt)

\* sbappend and sbappendsb: what the host takes at once (only when nothing waits before it)
\* and what is kept.
SbAppend(s, h, data, n) ==
    LET taken == IF s.rcv = <<>> /\ ~h.broken THEN Smaller(n, Len(data)) ELSE 0
    IN  [s |-> [s EXCEPT !.rcv = @ \o SubSeq(data, taken + 1, Len(data))],
         h |-> [h EXCEPT !.inn = @ \o SubSeq(data, 1, taken)]]

\* The bytes of the reassembly queue that follow rcv_nxt.
InOrder(s) ==
    LET n == CHOOSE n \in 0..Cardinality(s.queue) :
                 /\ Span(s.rnxt, n) \in [1..n -> s.queue]
                 /\ s.rnxt + n \notin s.queue
    IN  Span(s.rnxt, n)

\* tcp_reass after the new segment is in the queue ("present:").
Present(s, h, n) ==
    LET data == InOrder(s)
        fin  == s.qfin = s.rnxt + Len(data)
        t    == [s EXCEPT !.rnxt = @ + Len(data), !.queue = @ \ Range(data),
                          !.qfin = IF fin THEN 0 ELSE @, !.qalone = IF fin THEN FALSE ELSE @]
        a    == IF "CANTSEND" \in s.fd THEN [s |-> t, h |-> h] ELSE SbAppend(t, h, data, n)
    IN  IF HaveEstablished(s.state) THEN [s |-> a.s, h |-> a.h, fin |-> fin]
        ELSE [s |-> s, h |-> h, fin |-> FALSE]

\* A segment put in the queue; one that covers a queued segment takes its place, FIN and all.
Enqueued(s, p) ==
    LET end   == p.seq + Len(p.data)
        fin   == "FIN" \in p.ctl
        loses == p.data # <<>> /\ s.qfin = end /\ ~s.qalone
    IN  [s EXCEPT !.queue = @ \cup Range(p.data),
                  !.qfin = IF fin THEN end ELSE IF loses THEN 0 ELSE @,
                  !.qalone = IF fin THEN @ \/ p.data = <<>> ELSE @,
                  !.flags = @ \cup {"ACKNOW"}]

\* TCP_REASS; after a FIN was received the text is ignored.
Text(s, h, p, n) ==
    IF (p.data = <<>> /\ "FIN" \notin p.ctl) \/ s.state = "TIME_WAIT"
    THEN [s |-> s, h |-> h, fin |-> FALSE]
    ELSE IF p.seq = s.rnxt /\ s.queue = {} /\ s.qfin = 0 /\ s.state = "ESTABLISHED"
    THEN LET a == SbAppend([s EXCEPT !.rnxt = @ + Len(p.data), !.flags = @ \cup {"DELACK"}], h, p.data, n)
         IN  [s |-> a.s, h |-> a.h, fin |-> "FIN" \in p.ctl]
    ELSE Present(Enqueued(s, p), h, n)

\* sofwdrain waits for so_rcv to empty.
Drains_Never(s) == FALSE
Drains(s) == s.rcv # <<>>

\* A FIN from the guest: the host's write side is shut once so_rcv is drained (sofwdrain).
AfterFin(x) ==
    LET t == [(IF Drains(x.s) THEN [x.s EXCEPT !.fd = @ \cup {"DRAIN"}] ELSE CantSendMore(x.s))
              EXCEPT !.flags = @ \cup {"ACKNOW"}, !.rnxt = @ + 1,
                     !.state = CASE @ = "ESTABLISHED" -> "CLOSE_WAIT"
                                 [] @ = "FIN_WAIT_1" -> "CLOSING"
                                 [] @ = "FIN_WAIT_2" -> "TIME_WAIT"
                                 [] OTHER -> @,
                     !.timers = IF x.s.state = "FIN_WAIT_2" THEN {"MSL"} ELSE @]
    IN  IF ~x.fin THEN x
        ELSE [s |-> t, h |-> IF Drains(x.s) THEN x.h ELSE ShutsWrite(x.s, x.h), fin |-> TRUE]

\* An acknowledgement of new data, or of our FIN.
OurFinAcked(s, p) == p.ack - s.una > Len(s.snd)

\* In FIN_WAIT_2 a timer is started only when nothing more can come from the host.
IdleTimer_Never(s) == FALSE
IdleTimer(s) == "CANTRCV" \in s.fd

Acked(s, p) ==
    LET n    == Smaller(p.ack - s.una, Len(s.snd))
        fin  == OurFinAcked(s, p)
        timed == s.rtt >= 0 /\ p.ack > s.rtt
        t == [s EXCEPT !.snd = SubSeq(@, n + 1, Len(@)), !.una = p.ack,
                       !.nxt = Larger(@, p.ack),
                       !.rtt = IF timed THEN -1 ELSE @, !.tries = IF timed THEN 0 ELSE @,
                       !.timers = IF p.ack = s.max THEN @ \ {"REXMT"} ELSE @ \cup {"REXMT"}]
    IN  IF ~fin THEN t
        ELSE CASE t.state = "FIN_WAIT_1" ->
                    [t EXCEPT !.state = "FIN_WAIT_2",
                              !.timers = IF IdleTimer(s) THEN @ \cup {"MSL"} ELSE @]
               [] t.state = "CLOSING" -> [t EXCEPT !.state = "TIME_WAIT", !.timers = {"MSL"}]
               [] OTHER -> t

\* Every segment taken resets the keep-alive timer.
Touched(s) == [s EXCEPT !.timers = @ \cup {"KEEP"}]

-----------------------------------------------------------------------------
(* The segments of the guest, one action per way out of tcp_input.         *)

\* No socket and a SYN: a socket is made and connect() begun.
SynArrives ==
    /\ so = NoSocket
    /\ guest.st = "syn_sent"
    /\ opens < MaxOpens
    /\ so' = [NewSocket("SYN_RECEIVED") EXCEPT !.fd = {"CONNECTING"}]
    /\ host' = NewHost("pending")
    /\ opens' = opens + 1
    /\ UNCHANGED guest

\* The connect fails at once: RST, or an ICMP error that the guest takes the same way.
SynRefused ==
    /\ so = NoSocket
    /\ guest.st = "syn_sent"
    /\ ToGuest(Reset(0))
    /\ UNCHANGED <<so, host, opens>>

\* What a guest may have sent: any stretch of its bytes that the window allowed, the FIN last.
GuestSegments ==
    {[ctl |-> {"ACK"} \cup (IF f THEN {"FIN"} ELSE {}), data |-> Span(a, n), seq |-> a, ack |-> k, edge |-> 0] :
        a \in 1..(guest.len + 1), n \in 0..guest.len, k \in 1..Acks(guest), f \in BOOLEAN}

MaySend(p) ==
    /\ guest.st = "open"
    /\ p.seq + Len(p.data) - 1 <= guest.len
    /\ p.data = <<>> \/ p.seq + Len(p.data) <= guest.edge \/ (Len(p.data) = 1 /\ p.seq = guest.una)
    /\ "FIN" \in p.ctl => guest.ended /\ p.seq + Len(p.data) = guest.len + 1
    /\ p.data = <<>> /\ "FIN" \notin p.ctl => p.seq \in {guest.una, guest.len + 1}

NoSocketForSegment ==
    /\ so = NoSocket
    /\ guest.st = "open"
    /\ ToGuest(Reset(0))
    /\ UNCHANGED <<so, host, opens>>

Synchronized(s) == s # NoSocket /\ "CONNECTING" \notin s.fd /\ Rank(s.state) >= Rank("SYN_RECEIVED")

\* Data after both ends of the host socket are gone: reset.
AfterClose(s, q) == "NOFDREF" \in s.fd /\ Rank(s.state) > Rank("CLOSE_WAIT") /\ q.data # <<>>

SegmentAfterClose(p) ==
    /\ Synchronized(so) /\ MaySend(p)
    /\ AfterClose(so, CutFront(so, p).p)
    /\ CloseTo(Reset(p.ack))

SegmentOutside(p) ==
    /\ Synchronized(so) /\ MaySend(p)
    /\ LET q == CutFront(so, p).p
       IN  ~AfterClose(so, q) /\ Outside(so, q)
    /\ Leaves([Touched(so) EXCEPT !.flags = @ \cup {"ACKNOW"}], host)

\* The segment after both cuts, and the socket with ACKNOW where a cut asks for it.
Cut(s, p) ==
    LET c == CutFront(s, p)
        probe == Beyond(s, c.p) > 0 /\ Beyond(s, c.p) >= Len(c.p.data)
    IN  [p |-> CutBack(s, c.p),
         s |-> [Touched(s) EXCEPT !.flags = IF c.old \/ probe THEN @ \cup {"ACKNOW"} ELSE @]]

Accepted(p) ==
    /\ Synchronized(so) /\ MaySend(p)
    /\ ~AfterClose(so, CutFront(so, p).p)
    /\ ~Outside(so, CutFront(so, p).p)

\* The text, the FIN and the reply that end the handler.
Finish(s, h, p, n, replies) ==
    \E x \in {AfterFin(Text(s, h, p, n))} :
        IF replies \/ "ACKNOW" \in x.s.flags THEN Leaves(x.s, x.h) ELSE Quietly(x.s, x.h)

\* The ACK of our SYN establishes the connection and presents what is queued.
SynAcknowledged(p, n) ==
    /\ so # NoSocket /\ so.state = "SYN_RECEIVED" /\ so.template
    /\ Accepted(p)
    /\ p.ack \in so.una..so.max
    /\ \E c \in {Cut(so, p)} :
       \E x \in {Present(Connected([c.s EXCEPT !.state = "ESTABLISHED", !.una = p.ack]), host, n)} :
           Finish(Acked(x.s, p), x.h, c.p, n, TRUE)

SynNotAcknowledged(p) ==
    /\ so # NoSocket /\ so.state = "SYN_RECEIVED"
    /\ Accepted(p)
    /\ p.ack \notin so.una..so.max
    /\ so' = Cut(so, p).s
    /\ ToGuest(Reset(p.ack))
    /\ UNCHANGED <<host, opens>>

SegmentTaken(p, n) ==
    /\ so # NoSocket /\ HaveEstablished(so.state)
    /\ Accepted(p)
    /\ \E c \in {Cut(so, p)} :
           \/ /\ p.ack <= so.una
              /\ Finish(c.s, host, c.p, n, FALSE)
           \/ /\ p.ack \in (so.una + 1)..so.max
              /\ so.state # "TIME_WAIT"
              /\ ~(so.state = "LAST_ACK" /\ OurFinAcked(so, p))
              /\ Finish(Acked(c.s, p), host, c.p, n, TRUE)
           \/ /\ p.ack > so.max
              /\ Leaves([c.s EXCEPT !.flags = @ \cup {"ACKNOW"}], host)

LastAcknowledged(p) ==
    /\ so # NoSocket /\ so.state = "LAST_ACK"
    /\ Accepted(p)
    /\ p.ack \in (so.una + 1)..so.max
    /\ OurFinAcked(so, p)
    /\ CloseTo(Nothing)

\* The third of the same acknowledgement: the first segment is sent again.
DuplicateAck(p) ==
    /\ so # NoSocket /\ HaveEstablished(so.state)
    /\ Accepted(p)
    /\ p.data = <<>> /\ p.ack = so.una
    /\ "REXMT" \in so.timers
    /\ LET s == [Cut(so, p).s EXCEPT !.nxt = so.una, !.rtt = -1, !.timers = @ \ {"REXMT"}]
       IN  /\ so' = [Output(s) EXCEPT !.nxt = Larger(@, so.nxt)]
           /\ ToGuest(Emitted(s))
    /\ UNCHANGED <<host, opens>>

\* The guest's SYN comes again.  It meets a socket still connecting (dropped), one whose
\* connect() was never completed (its window starts at 0: a RST, and the connection is dropped),
\* or one that has answered it before (ACKNOW is noted and nothing sent).
SynAgain ==
    /\ so # NoSocket
    /\ guest.st = "syn_sent"
    /\ \/ "CONNECTING" \in so.fd /\ UNCHANGED <<so, host, guest, opens>>
       \/ "CONNECTING" \notin so.fd /\ ~so.template /\ CloseTo(Reset(0))
       \/ /\ "CONNECTING" \notin so.fd /\ so.template
          /\ Quietly([Touched(so) EXCEPT !.flags = @ \cup {"ACKNOW"}], host)

\* The guest answers the SYN of a redirected connection.
SynAckArrives ==
    /\ so # NoSocket /\ so.state = "SYN_SENT"
    /\ guest.st = "syn_rcvd"
    /\ LET s == [Touched(so) EXCEPT !.una = 1, !.nxt = Larger(@, 1), !.timers = @ \ {"REXMT"},
                                    !.rnxt = 1, !.radv = 1, !.flags = @ \cup {"ACKNOW"},
                                    !.rtt = -1, !.tries = IF so.rtt >= 0 THEN 0 ELSE @,
                                    !.state = "ESTABLISHED"]
       IN  Leaves(Connected(s), host)

\* A reset of the guest, its answer to a segment for a connection it does not have.
ResetArrives ==
    /\ so # NoSocket
    /\ guest.replies
    /\ "CONNECTING" \notin so.fd
    /\ so' = NoSocket
    /\ host' = Closed(host)
    /\ guest' = [guest EXCEPT !.replies = FALSE]
    /\ UNCHANGED opens

-----------------------------------------------------------------------------
(* slirp_select_poll: what the sockets of the host report.                 *)

\* tcp_connect: a program of the host connects to a redirected port.
Redirected ==
    /\ so = NoSocket
    /\ host.conn = "none"
    /\ guest.st = "listen"
    /\ opens < MaxOpens
    /\ LET s == [NewSocket("SYN_SENT") EXCEPT !.template = TRUE]
       IN  /\ so' = Output(s)
           /\ ToGuest(Emitted(s))
    /\ host' = NewHost("up")
    /\ opens' = opens + 1

Connecting == so # NoSocket /\ "CONNECTING" \in so.fd

\* tcp_input continues from cont_conn: the SYN is answered.
PollConnected ==
    /\ Connecting
    /\ host.conn = "up"
    /\ Leaves([so EXCEPT !.fd = {}, !.template = TRUE, !.rnxt = 1, !.radv = 1,
                         !.flags = @ \cup {"ACKNOW"}], host)

PollRefused ==
    /\ Connecting
    /\ host.conn = "refused"
    /\ CloseTo(Reset(0))

\* send() cannot tell yet: the socket is left neither connecting nor connected.
PollUnsure ==
    /\ Connecting
    /\ Quietly([so EXCEPT !.fd = {}], host)

CanFRcv(s) == "CONNECTED" \in s.fd /\ "CANTRCV" \notin s.fd
CanFSend(s) == "CONNECTED" \in s.fd /\ "CANTSEND" \notin s.fd

Selected(s) == s # NoSocket /\ "NOFDREF" \notin s.fd

\* soread takes some bytes and tcp_output sends them on.
PollRead ==
    /\ Selected(so) /\ CanFRcv(so)
    /\ 2 * Len(so.snd) < SndSpace
    /\ ~host.broken
    /\ \E n \in 1..Smaller(SndSpace - Len(so.snd), Readable(host)) :
         Leaves([so EXCEPT !.snd = @ \o Span(host.read + 1, n)], [host EXCEPT !.read = @ + n])

\* soread finds the end or an error: no more is received and our FIN follows.
PollEnd ==
    /\ Selected(so) /\ CanFRcv(so)
    /\ 2 * Len(so.snd) < SndSpace
    /\ host.broken \/ (host.ended /\ Readable(host) = 0)
    /\ Leaves(SockClosed(CantRcvMore(so)), host)

\* sowrite; with the last byte a draining socket is shut for writing.
PollWrite ==
    /\ Selected(so) /\ CanFSend(so)
    /\ so.rcv # <<>>
    /\ ~host.broken
    /\ \E n \in 1..Len(so.rcv) :
         LET s == [so EXCEPT !.rcv = SubSeq(@, n + 1, Len(@))]
             h == [host EXCEPT !.inn = @ \o SubSeq(so.rcv, 1, n)]
         IN  IF "DRAIN" \in s.fd /\ s.rcv = <<>>
             THEN Quietly(CantSendMore(s), ShutsWrite(s, h))
             ELSE Quietly(s, h)

\* sowrite fails: no more is sent to the host, and the connection is closed towards the guest.
PollWriteFails ==
    /\ Selected(so) /\ CanFSend(so)
    /\ so.rcv # <<>>
    /\ host.broken
    /\ Leaves(SockClosed(CantSendMore(so)), ShutsWrite(so, host))

-----------------------------------------------------------------------------
(* The timers, with no measure of time: one that is set may run out.       *)

FastTimo ==
    /\ so # NoSocket
    /\ "DELACK" \in so.flags
    /\ Leaves([so EXCEPT !.flags = (@ \ {"DELACK"}) \cup {"ACKNOW"}], host)

RexmtTimer ==
    /\ so # NoSocket
    /\ "REXMT" \in so.timers
    /\ so.tries < Retries
    /\ Leaves([so EXCEPT !.tries = @ + 1, !.nxt = so.una, !.rtt = -1], host)

RexmtGivesUp ==
    /\ so # NoSocket
    /\ "REXMT" \in so.timers
    /\ so.tries = Retries
    /\ CloseTo(DropSegment(so))

\* An unfinished connection is dropped; without keep-alives any other only rearms the timer.
KeepTimer ==
    /\ so # NoSocket
    /\ "KEEP" \in so.timers
    /\ ~HaveEstablished(so.state)
    /\ CloseTo(DropSegment(so))

\* 2 MSL after the last segment, or a FIN_WAIT_2 idle for too long.
TwoMslTimer ==
    /\ so # NoSocket
    /\ "MSL" \in so.timers
    /\ CloseTo(Nothing)

-----------------------------------------------------------------------------
(* The guest (external) and the program of the host.                       *)

GuestWrites ==
    /\ guest.st \in {"syn_sent", "open"} /\ ~guest.ended
    /\ guest.len + host.sent < MaxBytes
    /\ guest' = [guest EXCEPT !.len = @ + 1]
    /\ UNCHANGED <<so, host, opens>>

GuestEnds ==
    /\ guest.st = "open" /\ ~guest.ended
    /\ guest' = [guest EXCEPT !.ended = TRUE]
    /\ UNCHANGED <<so, host, opens>>

\* Both directions are finished.
GuestCloses ==
    /\ guest.st = "open"
    /\ guest.fin /\ guest.ended /\ guest.una = guest.len + 2
    /\ guest' = [guest EXCEPT !.st = "closed"]
    /\ UNCHANGED <<so, host, opens>>

\* The guest's program aborts; its reset may be lost.
GuestAborts ==
    /\ guest.st \in {"open", "syn_rcvd", "listen"}
    /\ guest' = [guest EXCEPT !.st = "reset", !.replies = TRUE]
    /\ UNCHANGED <<so, host, opens>>

ResetLost ==
    /\ guest.replies
    /\ guest' = [guest EXCEPT !.replies = FALSE]
    /\ UNCHANGED <<so, host, opens>>

HostAnswers ==
    /\ host.conn = "pending"
    /\ \E c \in {"up", "refused"} : host' = [host EXCEPT !.conn = c]
    /\ UNCHANGED <<so, guest, opens>>

HostWrites ==
    /\ host.conn = "up" /\ ~host.ended /\ ~host.broken
    /\ guest.len + host.sent < MaxBytes
    /\ host' = [host EXCEPT !.sent = @ + 1]
    /\ UNCHANGED <<so, guest, opens>>

HostEnds ==
    /\ host.conn = "up" /\ ~host.ended
    /\ host' = [host EXCEPT !.ended = TRUE]
    /\ UNCHANGED <<so, guest, opens>>

HostBreaks ==
    /\ host.conn = "up" /\ ~host.broken
    /\ host' = [host EXCEPT !.broken = TRUE]
    /\ UNCHANGED <<so, guest, opens>>

-----------------------------------------------------------------------------

Init ==
    /\ so = NoSocket
    /\ host = NewHost("none")
    /\ guest \in [st : {"syn_sent", "listen"}, len : {0}, ended : {FALSE}, una : {0}, edge : {0},
                  got : {<<>>}, fin : {FALSE}, replies : {FALSE}]
    /\ opens = 0

Input(p) ==
    \/ SegmentAfterClose(p) \/ SegmentOutside(p) \/ SynNotAcknowledged(p)
    \/ LastAcknowledged(p) \/ DuplicateAck(p)
    \/ \E n \in 0..Len(p.data) : SynAcknowledged(p, n) \/ SegmentTaken(p, n)

GuestSegment == \E p \in GuestSegments : Input(p)

Timers == FastTimo \/ RexmtTimer \/ RexmtGivesUp \/ KeepTimer \/ TwoMslTimer

Poll == PollConnected \/ PollRefused \/ PollRead \/ PollEnd \/ PollWrite \/ PollWriteFails

Next ==
    \/ SynArrives \/ SynRefused \/ SynAgain \/ SynAckArrives \/ NoSocketForSegment
    \/ GuestSegment \/ ResetArrives
    \/ Redirected \/ PollUnsure \/ Poll \/ Timers
    \/ GuestWrites \/ GuestEnds \/ GuestCloses \/ GuestAborts \/ ResetLost
    \/ HostAnswers \/ HostWrites \/ HostEnds \/ HostBreaks

\* slirp's loop always comes round and its clock advances; nothing is asked of the guest.
Fairness ==
    /\ WF_vars(PollRead \/ PollEnd)
    /\ WF_vars(RexmtTimer \/ RexmtGivesUp) /\ WF_vars(KeepTimer) /\ WF_vars(TwoMslTimer)

Spec == Init /\ [][Next]_vars /\ Fairness

-----------------------------------------------------------------------------
(* Properties.                                                             *)

\* Nothing is lost, repeated or put out of order on either way, whatever the frames between do:
\* what the host got and what waits for it are the guest's bytes before rcv_nxt (unless the
\* host's side was shut and the rest thrown away), and what the guest got is what the host wrote.
\* No window promises the guest more than so_rcv can hold.
BytesExact ==
    /\ IsPrefix(host.inn, Span(1, guest.len))
    /\ IsPrefix(guest.got, Span(1, host.read)) \/ so = NoSocket
    /\ so # NoSocket =>
          /\ "CANTSEND" \notin so.fd /\ "NOFDREF" \notin so.fd /\ so.rnxt > 0 =>
                host.inn \o so.rcv = Span(1, Smaller(so.rnxt - 1, guest.len))
          /\ Len(so.rcv) <= RcvSpace /\ so.radv - so.rnxt <= Space(so)
          /\ so.una > 0 => so.snd = Span(so.una, Len(so.snd)) /\ so.una - 1 <= Acks(guest)

\* An end is passed on only after every byte before it: the host sees the guest's end when it
\* has all the guest wrote, and the guest sees the host's end when it has all the host wrote.
EndsLast ==
    /\ host.eof /\ ~host.broken => guest.ended /\ host.inn = Span(1, guest.len)
    /\ guest.fin /\ ~host.broken => host.ended /\ guest.got = Span(1, host.sent)

\* Once the program of the host has ended or failed, the socket is given back, whatever the guest
\* does or fails to do.  The one exception is the code's: when sowrite met the failure first, soread
\* clears the flag that starts the last timer, and a silent guest keeps the socket in FIN_WAIT_2.
SocketsFreed ==
    (so # NoSocket /\ (host.ended \/ host.broken))
        ~> (so = NoSocket \/ (so.state = "FIN_WAIT_2" /\ "NOFDREF" \in so.fd))
=============================================================================
