-------------------------------- MODULE Net --------------------------------
(***************************************************************************)
(* The network stack: src/tcp.c, src/net.c, src/arp.c and the socket calls *)
(* of src/linux_syscall.c, above the receive queue of src/e1000.c (module  *)
(* E1000 shows that the descriptor ring is such a queue).                  *)
(*                                                                         *)
(* Nothing is driven by interrupts.  A call polls the card until it sees   *)
(* the frame it wants, and throws away every other frame it meets; while   *)
(* it polls no other call runs, so op is the one call in progress and each *)
(* poll is one step.  Between the polls the network (external) delivers,   *)
(* reorders and loses frames, and a correct TCP peer (external) sends its  *)
(* stream in segments of any size inside the window, again and again until *)
(* they are acknowledged.                                                  *)
(*                                                                         *)
(* The direction towards the peer carries no retransmission and nothing    *)
(* reads snd_nxt back, so our segments are modelled by the acknowledgement *)
(* they carry.                                                             *)
(***************************************************************************)
EXTENDS Integers, Sequences, FiniteSets

CONSTANTS
    Socks,      \* slots of sock_table
    Hosts,      \* host names, and the machines they name
    Servers,    \* the hosts programs connect to
    Bad,        \* the names dns_encode_name refuses
    Unknown,    \* the names the resolver has no address for
    alpine,     \* the name whose address sendto has built in
    SEQ,        \* 2^32, the sequence numbers
    ISS,        \* the peer's initial sequence number
    MSS,        \* 1460, the largest payload of a segment
    STREAM,     \* bytes the peer sends on a connection before its FIN
    PORTS,      \* 4096, the source ports tcp_connect chooses from
    RXCAP,      \* frames the receive ring holds
    PROBES,     \* echo requests of one ping
    Lengths,    \* buffer lengths passed to recvfrom
    Limits,     \* the programs considered: the types of socket they create, and
                \* bounds on their connections, their calls and the faults they meet
    MAXWIRE     \* bound on the frames in flight when the peer sends

VARIABLES
    c,      \* g_conn: used, port, rcv_nxt, peer_fin, rx = rx_buf[rx_pos..rx_len)
    sock,   \* sock_table
    op,     \* the call that is polling
    rxq,    \* frames received and not polled
    net,    \* external: the peer, the frames in flight to us, the faults so far
    hist,   \* history: connection number, bytes the program has of it, what
            \* the program was told about its end, sockets created
    calls,  \* calls so far
    limit   \* the member of Limits that binds this behaviour

vars == <<c, sock, op, rxq, net, hist, calls, limit>>

Frame(k, port, flags, seq, data) ==
    [k |-> k, port |-> port, flags |-> flags, seq |-> seq, data |-> data]

NoFrame  == Frame("none", 0, {}, 0, <<>>)
NoAddr   == "no address"
loopback == "127.0.0.1"
Window   == 2 * MSS

Lesser(x, y)  == IF x < y THEN x ELSE y
Greater(x, y) == IF x > y THEN x ELSE y

\* The peer's byte number i of connection n, and the sequence number that
\* follows its first i bytes; its FIN is number STREAM.
Byte(n, i)   == <<n, i>>
SeqAt(i)     == (ISS + 1 + i) % SEQ
Sent(n, i, j) == [x \in 1..(j - i) |-> Byte(n, i + x - 1)]

\* The programs and sizes Net_proofs speaks of: sequence numbers tell the bytes
\* of one stream apart, and no source port is used twice.
Sizes ==
    /\ {SEQ, ISS, MSS, STREAM, RXCAP, PROBES, PORTS} \subseteq Nat
    /\ ISS < SEQ /\ STREAM + 2 <= SEQ
    /\ Socks # {} /\ Lengths \subseteq Nat
    /\ \A l \in Limits : l.conns \in Nat /\ l.conns < PORTS /\ l.types \subseteq {"stream", "dgram"}

-----------------------------------------------------------------------------
\* What the network does with a frame of ours that reaches it.
Hear(nt, f) ==
    CASE f.k = "who-has" -> [nt EXCEPT !.wire = @ \cup {Frame("arp", 0, {}, 0, <<>>)}]
      [] f.k = "query" ->
            [nt EXCEPT !.wire = @ \cup {Frame("udp", 0, {}, 0,
                IF f.data[1] \in Unknown THEN <<>> ELSE f.data)}]
      [] f.k = "echo"  -> [nt EXCEPT !.wire = @ \cup {Frame("reply", 0, {}, f.seq, <<>>)}]
      [] f.k = "tcp" /\ "SYN" \in f.flags ->
            [nt EXCEPT !.peer = [port |-> f.port, st |-> "syn", una |-> 0, nxt |-> 0]]
      [] OTHER ->
            LET p == nt.peer
                acked == {i \in p.una..(STREAM + 1) : SeqAt(i) = f.seq}
            IN  IF f.port = p.port /\ p.st \in {"syn", "est"} /\ acked # {}
                THEN LET i == CHOOSE i \in acked : TRUE
                     IN  [nt EXCEPT !.peer = [p EXCEPT !.st = "est", !.una = i,
                                                       !.nxt = Greater(@, i)]]
                ELSE nt

\* The frame is queued and heard, queued and lost, or the ring is full.
e1000_send(f) ==
    {[ok |-> TRUE, net |-> Hear(net, f)]} \cup
    (IF net.faults < limit.faults
     THEN {[ok |-> b, net |-> [net EXCEPT !.faults = @ + 1]] : b \in BOOLEAN}
     ELSE {})

\* A segment of ours carries rcv_nxt as its acknowledgement.
tcp_send_segment(conn, flags) ==
    e1000_send(Frame("tcp", conn.port, flags, conn.rcv_nxt, <<>>))

Polled == IF rxq = <<>> THEN NoFrame ELSE Head(rxq)
Poll   == rxq' = IF rxq = <<>> THEN rxq ELSE Tail(rxq)

\* tcp_poll_segment: the polled frame is a segment of connection c.
Segment == Polled.k = "tcp" /\ Polled.port = c.port

-----------------------------------------------------------------------------
Op(t, s, h, k, n) == [t |-> t, s |-> s, h |-> h, k |-> k, n |-> n]
Idle   == Op("idle", CHOOSE s \in Socks : TRUE, alpine, "none", 0)
Free   == op = Idle
Called == Free /\ calls < limit.calls /\ calls' = calls + 1

NoAnswer == [left |-> 0, id |-> 0, q |-> alpine, a |-> NoAddr]
Unused   == [used |-> FALSE, domain |-> "inet", type |-> "stream", tcp |-> FALSE,
             dst |-> NoAddr, dns |-> FALSE, rx |-> NoAnswer, id |-> 0]

\* sendto of a query: dns_make_response puts the answer to question h into
\* rxbuf, two units long here; a failed lookup answers all the same.
Answered(o, a) ==
    [sock EXCEPT ![o.s].rx =
        [left |-> 2, id |-> sock[o.s].id, q |-> o.h,
         a |-> IF a # NoAddr THEN a ELSE IF o.h = alpine THEN alpine ELSE loopback]]

\* The call o fails: connect and sendto return an error, ping gives up, and a
\* query falls back on the addresses sendto has built in.
GiveUp(o) ==
    /\ op' = Idle
    /\ sock' = IF o.k = "dgram" THEN Answered(o, NoAddr) ELSE sock

\* Send f; the call goes on as o, or fails when the card refuses the frame.
SendThen(results, o) ==
    \E r \in results :
        /\ net' = r.net
        /\ IF r.ok THEN op' = o /\ sock' = sock ELSE GiveUp(o)

\* The poll did not bring what the call waits for: it polls again, or its
\* time is up.
WaitOrGiveUp == ((op' = op /\ sock' = sock) \/ GiveUp(op)) /\ net' = net

\* resolve_gateway_mac sends its request first; then its caller polls.
arp_request(o) == SendThen(e1000_send(Frame("who-has", 0, {}, 0, <<>>)), o)

\* arp_poll_reply takes any ARP reply; then the call sends what it is for.
resolve_gateway_mac ==
    /\ op.t = "arp" /\ Poll
    /\ \/ /\ Polled.k # "arp" /\ WaitOrGiveUp
       \/ /\ Polled.k = "arp"
          /\ \/ /\ op.k \in {"connect", "sendto"}
                /\ SendThen(tcp_send_segment(c, {"SYN"}), [op EXCEPT !.t = "syn"])
             \/ /\ op.k = "dgram" /\ op.h \notin Bad
                /\ SendThen(e1000_send(Frame("query", 0, {}, 0, <<op.h>>)),
                            [op EXCEPT !.t = "dns"])
             \/ op.k = "dgram" /\ op.h \in Bad /\ GiveUp(op) /\ net' = net
             \/ op.k = "ping" /\ op' = [op EXCEPT !.t = "probe"] /\ UNCHANGED <<net, sock>>
    /\ UNCHANGED <<c, hist, calls>>

-----------------------------------------------------------------------------
(* tcp.c *)

\* tcp_connect clears g_conn, whichever socket was using it.
tcp_connect(s, h, k) ==
    /\ hist.n < limit.conns
    /\ c' = [used |-> TRUE, port |-> (hist.n + 1) % PORTS, rcv_nxt |-> 0,
             peer_fin |-> FALSE, rx |-> <<>>]
    /\ hist' = [hist EXCEPT !.n = @ + 1, !.got = <<>>, !.heard = "nothing"]
    /\ arp_request(Op("arp", s, h, k, 0))
    /\ rxq' = rxq

\* tcp_connect, waiting for the SYN-ACK; the acknowledgement number in it is
\* not looked at.
await_synack ==
    /\ op.t = "syn" /\ Poll
    /\ \/ /\ ~Segment /\ WaitOrGiveUp /\ UNCHANGED <<c, hist>>
       \/ /\ Segment /\ "RST" \in Polled.flags
          /\ GiveUp(op) /\ UNCHANGED <<c, hist, net>>
       \/ /\ Segment /\ "RST" \notin Polled.flags /\ ~({"SYN", "ACK"} \subseteq Polled.flags)
          /\ WaitOrGiveUp /\ UNCHANGED <<c, hist>>
       \/ /\ Segment /\ "RST" \notin Polled.flags /\ {"SYN", "ACK"} \subseteq Polled.flags
          /\ c' = [c EXCEPT !.rcv_nxt = (Polled.seq + 1) % SEQ]
          /\ \E r \in tcp_send_segment(c', {"ACK"}) :
                /\ net' = r.net
                /\ op' = IF r.ok /\ op.k = "sendto" THEN [op EXCEPT !.t = "send"] ELSE Idle
                /\ sock' = IF r.ok THEN [sock EXCEPT ![op.s].tcp = TRUE, ![op.s].dst = op.h]
                           ELSE sock
                /\ hist' = IF r.ok THEN [hist EXCEPT !.heard = "open"] ELSE hist
    /\ UNCHANGED calls

\* tcp_send: the chunks go out one after another; nothing waits for their
\* acknowledgement.  Each carries the same rcv_nxt, so one stands for them all.
tcp_send ==
    /\ op.t = "send"
    /\ op' = Idle
    /\ IF c.used THEN \E r \in tcp_send_segment(c, {"PSH", "ACK"}) : net' = r.net
       ELSE net' = net
    /\ UNCHANGED <<c, sock, rxq, hist, calls>>

\* Mutant: the rest of a segment is dropped.
Spill_None(data, n) == <<>>

\* The bytes of data beyond the first n go to rx_buf.
Spill(data, n) == SubSeq(data, n + 1, Len(data))

\* Mutant: rcv_nxt does not wrap.
Accept_Wide(f, n) ==
    [c EXCEPT !.rx = Spill(f.data, n),
              !.rcv_nxt = @ + Len(f.data) + (IF "FIN" \in f.flags THEN 1 ELSE 0),
              !.peer_fin = "FIN" \in f.flags]

\* An in-order segment: deliver up to n bytes, keep the rest, count a FIN that
\* rides along.
Accept(f, n) ==
    [c EXCEPT !.rx = Spill(f.data, n),
              !.rcv_nxt = (@ + Len(f.data) + (IF "FIN" \in f.flags THEN 1 ELSE 0)) % SEQ,
              !.peer_fin = "FIN" \in f.flags]

\* tcp_recv returns the bytes d to the program.
Deliver(d) == hist' = [hist EXCEPT !.got = @ \o d]
\* tcp_recv returns -1, and recvfrom 0.
EndOfFile(how) == hist' = [hist EXCEPT !.heard = IF @ = "open" THEN how ELSE @]

\* tcp_recv, called with a buffer of n bytes: the spilled bytes first.
tcp_recv(s, n) ==
    \/ /\ ~c.used
       /\ EndOfFile("closed") /\ UNCHANGED <<c, op>>
    \/ /\ c.used /\ c.rx # <<>>
       /\ Deliver(SubSeq(c.rx, 1, Lesser(n, Len(c.rx))))
       /\ c' = [c EXCEPT !.rx = Spill(@, Lesser(n, Len(c.rx)))]
       /\ op' = op
    \/ /\ c.used /\ c.rx = <<>> /\ c.peer_fin
       /\ EndOfFile("fin") /\ UNCHANGED <<c, op>>
    \/ /\ c.used /\ c.rx = <<>> /\ ~c.peer_fin
       /\ op' = Op("recv", s, alpine, "recv", n)
       /\ UNCHANGED <<c, hist>>

InOrder(f) == f.seq = c.rcv_nxt

\* Mutant: an old or early segment is not answered.
DuplicateAck_None == net' = net
DuplicateAck == \E r \in tcp_send_segment(c, {"ACK"}) : net' = r.net

\* One turn of its loop.
recv_poll ==
    LET f       == Polled
        rst     == Segment /\ "RST" \in f.flags
        inorder == Segment /\ ~rst /\ InOrder(f)
        data    == Len(f.data) > 0
        Ack(conn) == \E r \in tcp_send_segment(conn, {"ACK"}) : net' = r.net
    IN  /\ op.t = "recv" /\ Poll
        /\ \/ /\ rst
              /\ c' = [c EXCEPT !.peer_fin = TRUE]
              /\ EndOfFile("rst")
              /\ op' = Idle /\ net' = net
           \/ /\ inorder /\ data
              /\ Deliver(SubSeq(f.data, 1, Lesser(op.n, Len(f.data))))
              /\ c' = Accept(f, Lesser(op.n, Len(f.data)))
              /\ Ack(c')
              /\ op' = Idle
           \/ /\ inorder /\ ~data /\ "FIN" \in f.flags
              /\ c' = [c EXCEPT !.rcv_nxt = (@ + 1) % SEQ, !.peer_fin = TRUE]
              /\ Ack(c')
              /\ EndOfFile("fin") /\ op' = Idle
           \/ /\ Segment /\ ~rst /\ ~inorder /\ data
              /\ DuplicateAck
              /\ op' \in {op, Idle} /\ UNCHANGED <<c, hist>>
           \/ /\ ~rst /\ ~(Segment /\ data) /\ ~(inorder /\ "FIN" \in f.flags)
              /\ op' \in {op, Idle} /\ UNCHANGED <<c, hist, net>>
        /\ UNCHANGED <<sock, calls>>

\* tcp_close, after its FIN: wait a while for the peer's.
close_poll ==
    /\ op.t = "close" /\ Poll
    /\ \/ /\ Segment /\ "FIN" \in Polled.flags
          /\ \E r \in tcp_send_segment(
                 [c EXCEPT !.rcv_nxt = (Polled.seq + Len(Polled.data) + 1) % SEQ], {"ACK"}) :
                net' = r.net
          /\ c' = [c EXCEPT !.used = FALSE,
                            !.rcv_nxt = (Polled.seq + Len(Polled.data) + 1) % SEQ]
          /\ op' = Idle
       \/ /\ ~(Segment /\ "FIN" \in Polled.flags)
          /\ \/ UNCHANGED <<op, c>>
             \/ op' = Idle /\ c' = [c EXCEPT !.used = FALSE]
          /\ net' = net
    /\ UNCHANGED <<sock, hist, calls>>

-----------------------------------------------------------------------------
(* net.c *)

\* dns_resolve takes the first datagram for its port, whatever its id, and
\* the first address in it.
dns_poll ==
    /\ op.t = "dns" /\ Poll
    /\ \/ Polled.k # "udp" /\ WaitOrGiveUp
       \/ /\ Polled.k = "udp"
          /\ op' = Idle /\ net' = net
          /\ sock' = Answered(op, IF Polled.data = <<>> THEN NoAddr ELSE Polled.data[1])
    /\ UNCHANGED <<c, hist, calls>>

\* ping: send probe number op.n; a probe the card refuses is skipped.
send_echo ==
    /\ op.t = "probe"
    /\ IF op.n = PROBES THEN op' = Idle /\ net' = net
       ELSE \E r \in e1000_send(Frame("echo", 0, {}, op.n, <<>>)) :
                /\ net' = r.net
                /\ op' = IF r.ok THEN [op EXCEPT !.t = "echo"] ELSE [op EXCEPT !.n = @ + 1]
    /\ UNCHANGED <<c, sock, rxq, hist, calls>>

poll_echo_reply ==
    /\ op.t = "echo" /\ Poll
    /\ \/ /\ Polled.k = "reply" /\ Polled.seq = op.n
          /\ op' = [op EXCEPT !.t = "probe", !.n = @ + 1]
       \/ /\ ~(Polled.k = "reply" /\ Polled.seq = op.n)
          /\ op' \in {op, [op EXCEPT !.t = "probe", !.n = @ + 1]}
    /\ UNCHANGED <<c, sock, net, hist, calls>>

ping ==
    /\ Called /\ limit.pings
    /\ arp_request(Op("arp", Idle.s, alpine, "ping", 0))
    /\ UNCHANGED <<c, rxq, hist>>

-----------------------------------------------------------------------------
(* The socket calls.  A socket has one descriptor here. *)

\* Assumption on the programs: one stream socket is connected at a time, for
\* every connection lives in g_conn.
OneStream(s) == \A t \in Socks \ {s} : ~sock[t].tcp

sock_alloc == {s \in Socks : ~sock[s].used /\ \A t \in Socks : sock[t].used \/ s <= t}

\* The answer a slot's new socket begins with: a netlink socket keeps the one
\* its slot last held.
Begins(domain, rx) == IF domain = "inet" THEN NoAnswer ELSE rx

sys_linux_socket(domain, type) ==
    /\ Called
    /\ \E s \in sock_alloc :
          sock' = [sock EXCEPT ![s] =
                     [@ EXCEPT !.used = TRUE, !.domain = domain, !.type = type,
                               !.tcp = FALSE, !.id = hist.socks + 1,
                               !.rx = Begins(domain, sock[s].rx)]]
    /\ hist' = [hist EXCEPT !.socks = @ + 1]
    /\ UNCHANGED <<c, op, rxq, net>>

\* connect to host h, on the DNS port or another; NoAddr is AF_UNSPEC.
sys_linux_connect(s, h, dns) ==
    /\ Called
    /\ sock[s].used
    /\ \/ /\ h = NoAddr \/ sock[s].type = "dgram"
          /\ sock' = [sock EXCEPT ![s].dst = h, ![s].dns = (h # NoAddr /\ dns)]
          /\ UNCHANGED <<c, op, rxq, net, hist>>
       \/ /\ h # NoAddr /\ sock[s].type = "stream" /\ sock[s].domain # "inet"
          /\ UNCHANGED <<c, sock, op, rxq, net, hist>>
       \/ /\ h # NoAddr /\ sock[s].type = "stream" /\ sock[s].domain = "inet"
          /\ OneStream(s)
          /\ tcp_connect(s, h, "connect")

\* tcp_alive
Alive == c.used /\ ~c.peer_fin

\* sendto of a question about h on a datagram socket, to the socket's own
\* address or (addr) to the DNS server.
send_datagram(s, h, addr) ==
    /\ Called
    /\ sock[s].used /\ sock[s].type = "dgram"
    /\ IF addr \/ sock[s].dns THEN arp_request(Op("arp", s, h, "dgram", 0))
       ELSE UNCHANGED <<sock, op, net>>
    /\ UNCHANGED <<c, rxq, hist>>

\* sendto on a stream socket: connect when an address is given, reconnect when
\* the peer has closed, then send.
send_stream(s, h) ==
    /\ Called
    /\ sock[s].used /\ sock[s].type = "stream"
    /\ \/ /\ ~sock[s].tcp /\ h # NoAddr /\ sock[s].domain = "inet" /\ OneStream(s)
          /\ tcp_connect(s, h, "sendto")
       \/ /\ ~sock[s].tcp /\ (h = NoAddr \/ sock[s].domain # "inet")   \* ENOTCONN
          /\ UNCHANGED <<c, sock, op, rxq, net, hist>>
       \/ /\ sock[s].tcp /\ ~Alive /\ sock[s].dst # NoAddr
          /\ tcp_connect(s, sock[s].dst, "sendto")
       \/ /\ sock[s].tcp /\ (Alive \/ sock[s].dst = NoAddr)
          /\ op' = Op("send", s, alpine, "sendto", 0)
          /\ UNCHANGED <<c, sock, rxq, net, hist>>

\* recvfrom; a call that returns EBADF, EAGAIN or ENOTCONN changes nothing.
sys_linux_recvfrom(s, n) ==
    /\ Free
    /\ IF ~sock[s].used THEN UNCHANGED <<c, sock, op, hist>>
       ELSE IF sock[s].type = "dgram"
       THEN /\ sock' = [sock EXCEPT ![s].rx.left = @ - Lesser(n, @)]
            /\ UNCHANGED <<c, op, hist>>
       ELSE IF sock[s].tcp THEN tcp_recv(s, n) /\ sock' = sock
       ELSE UNCHANGED <<c, sock, op, hist>>
    /\ UNCHANGED <<rxq, net, calls>>

\* shutdown closes the connection; close only forgets it.
sys_linux_shutdown(s) ==
    /\ Called
    /\ sock[s].used /\ sock[s].tcp
    /\ sock' = [sock EXCEPT ![s].tcp = FALSE]
    /\ IF c.used
       THEN /\ \E r \in tcp_send_segment(c, {"FIN", "ACK"}) : net' = r.net
            /\ op' = Op("close", s, alpine, "close", 0)
       ELSE UNCHANGED <<net, op>>
    /\ hist' = [hist EXCEPT !.heard = "closed"]
    /\ UNCHANGED <<c, rxq>>

fd_close_entry(s) ==
    /\ Called
    /\ sock[s].used
    /\ sock' = [sock EXCEPT ![s].used = FALSE, ![s].tcp = FALSE]
    /\ hist' = IF sock[s].tcp THEN [hist EXCEPT !.heard = "closed"] ELSE hist
    /\ UNCHANGED <<c, op, rxq, net>>

-----------------------------------------------------------------------------
(* The network and the peer (external). *)

\* A frame in flight reaches the card, which drops it when its ring is full.
Arrive(f) ==
    /\ net' = [net EXCEPT !.wire = @ \ {f}]
    /\ rxq' = IF Len(rxq) < RXCAP THEN Append(rxq, f) ELSE rxq
    /\ UNCHANGED <<c, sock, op, hist, calls>>

Lose(f) ==
    /\ net.faults < limit.faults
    /\ net' = [net EXCEPT !.wire = @ \ {f}, !.faults = @ + 1]
    /\ UNCHANGED <<c, sock, op, rxq, hist, calls>>

Puts(f, peer) ==
    /\ Cardinality(net.wire) < MAXWIRE
    /\ net' = [net EXCEPT !.wire = @ \cup {f}, !.peer = peer]
    /\ UNCHANGED <<c, sock, op, rxq, hist, calls>>

PeerSynAck ==
    /\ net.peer.st = "syn"
    /\ Puts(Frame("tcp", net.peer.port, {"SYN", "ACK"}, ISS, <<>>), net.peer)

\* A segment of the stream that begins after i bytes and ends after j, with
\* the FIN when it reaches the end.  What the peer sends once the program has
\* closed or seen the end is left out: no property speaks of it.
PeerSegment(i, j, fin) ==
    /\ net.peer.st = "est" /\ hist.heard = "open"
    /\ i <= STREAM /\ j \in i..Lesser(STREAM, i + MSS) /\ j <= net.peer.una + Window
    /\ IF fin THEN j = STREAM ELSE i < j
    /\ Puts(Frame("tcp", net.peer.port, {"ACK"} \cup (IF fin THEN {"FIN"} ELSE {}),
                  SeqAt(i), Sent(hist.n, i, j)),
            [net.peer EXCEPT !.nxt = Greater(@, IF fin THEN STREAM + 1 ELSE j)])

\* The peer sends what is new; its timer sends the oldest unacknowledged byte
\* again, in a segment that need not end where the first one did.
PeerSend   == \E j \in 0..STREAM, fin \in BOOLEAN : PeerSegment(net.peer.nxt, j, fin)
Retransmit == \E j \in 0..STREAM, fin \in BOOLEAN : PeerSegment(net.peer.una, j, fin)

PeerReset ==
    /\ net.peer.st = "est" /\ hist.heard = "open" /\ net.faults < limit.faults
    /\ net' = [net EXCEPT !.peer.st = "reset", !.faults = @ + 1,
                          !.wire = @ \cup {Frame("tcp", net.peer.port, {"RST"}, 0, <<>>)}]
    /\ UNCHANGED <<c, sock, op, rxq, hist, calls>>

-----------------------------------------------------------------------------
Init ==
    /\ limit \in Limits
    /\ c = [used |-> FALSE, port |-> 0, rcv_nxt |-> 0, peer_fin |-> FALSE, rx |-> <<>>]
    /\ sock = [s \in Socks |-> Unused]
    /\ op = Idle
    /\ rxq = <<>>
    /\ net = [peer |-> [port |-> 0, st |-> "none", una |-> 0, nxt |-> 0], wire |-> {}, faults |-> 0]
    /\ hist = [n |-> 0, got |-> <<>>, heard |-> "nothing", socks |-> 0]
    /\ calls = 0

Step == resolve_gateway_mac \/ await_synack \/ tcp_send \/ recv_poll \/ close_poll
        \/ dns_poll \/ send_echo \/ poll_echo_reply

Connect  == \E s \in Socks, h \in Servers \cup {NoAddr}, dns \in BOOLEAN : sys_linux_connect(s, h, dns)
Datagram == \E s \in Socks, h \in Hosts, addr \in BOOLEAN : send_datagram(s, h, addr)
Stream   == \E s \in Socks, h \in Servers \cup {NoAddr} : send_stream(s, h)
Receive  == \E s \in Socks, n \in Lengths : sys_linux_recvfrom(s, n)
Shutdown == \E s \in Socks : sys_linux_shutdown(s)
Close    == \E s \in Socks : fd_close_entry(s)

Socket == \E domain \in {"inet", "netlink"}, type \in limit.types : sys_linux_socket(domain, type)
Network == PeerSynAck \/ PeerSend \/ Retransmit \/ PeerReset \/ (\E f \in net.wire : Arrive(f) \/ Lose(f))

Next ==
    /\ \/ Step \/ Socket \/ Connect \/ Datagram \/ Stream \/ Receive \/ Shutdown \/ Close
       \/ ping \/ Network
    /\ limit' = limit

\* Every loop that polls is bounded, so a call ends; the program reads its connection again and
\* again; no frame stays in flight for ever; the peer's timer resends what is
\* not acknowledged, and as it waits far longer than the 5 ms between two polls
\* it does not always meet a full ring, nor does what it sends.
Reads  == \E s \in Socks, n \in Lengths : sock[s].tcp /\ sys_linux_recvfrom(s, n)
Needed(f) == f.k = "tcp" /\ f.port = c.port /\ f.seq = c.rcv_nxt

Fairness ==
    /\ WF_vars(Step /\ op' # op /\ UNCHANGED limit)
    /\ SF_vars(Reads /\ UNCHANGED limit)
    /\ SF_vars(Len(rxq) < RXCAP /\ Retransmit /\ UNCHANGED limit)
    /\ WF_vars((\E f \in net.wire : Arrive(f) \/ Lose(f)) /\ UNCHANGED limit)
    /\ SF_vars(\E f \in net.wire :
                  Needed(f) /\ Len(rxq) < RXCAP /\ Arrive(f) /\ UNCHANGED limit)

Spec == Init /\ [][Next]_vars /\ Fairness

-----------------------------------------------------------------------------
TypeOK ==
    /\ c.port \in 0..(PORTS - 1) /\ c.rcv_nxt \in 0..(SEQ - 1)
    /\ {c.used, c.peer_fin} \subseteq BOOLEAN
    /\ Len(c.rx) < MSS /\ Len(hist.got) <= STREAM
    /\ Len(rxq) <= RXCAP
    /\ op.t \in {"idle", "arp", "syn", "send", "recv", "close", "dns", "probe", "echo"}
    /\ \A s \in Socks : sock[s].rx.left \in 0..2

Reading == hist.heard \in {"open", "fin", "rst"}

\* tcp.c:46-48, 257-259, 277-280: whatever the network loses, reorders and
\* repeats, and however short the reads, the bytes the program has received,
\* followed by those spilled, are a prefix of the peer's stream; and rcv_nxt
\* acknowledges exactly these bytes (and the FIN), so nothing acknowledged can
\* get lost and no gap is skipped.
StreamKept ==
    Reading =>
        LET held == hist.got \o c.rx
        IN  /\ held = Sent(hist.n, 0, Len(held))
            /\ \/ c.rcv_nxt = SeqAt(Len(held))
               \/ Len(held) = STREAM /\ c.peer_fin /\ c.rcv_nxt = SeqAt(STREAM + 1)

\* recvfrom returns 0 for a connection that was not reset only when the
\* program has received the whole stream (linux_syscall.c:2743 "real EOF").
EofAfterAll == hist.heard = "fin" => hist.got = Sent(hist.n, 0, STREAM)

\* What a datagram socket holds for its program is an answer to a question
\* asked through this socket, not through the one that had the slot before
\* (rxhead and rxtail are reset by socket()).
AnswerOwn ==
    \A s \in Socks :
        sock[s].used /\ sock[s].domain = "inet" /\ sock[s].rx.left > 0
            => sock[s].rx.id = sock[s].id

\* What a program receives is what was sent to it, in order and up to its end,
\* through a stream as through datagrams.
ReceivedOwn == StreamKept /\ EofAfterAll /\ AnswerOwn

\* A program that keeps reading an established connection comes to its end,
\* although frames are lost, the ring overflows and acknowledgements get lost:
\* an old or early segment is answered by a duplicate ACK, which makes the peer
\* send what is missing.  (A reset that gets lost is not repeated, and leaves
\* the program waiting.)
Completes ==
    (hist.heard = "open" /\ net.peer.st = "est" /\ net.peer.port = c.port)
        ~> (hist.heard # "open" \/ net.peer.st = "reset")
=============================================================================
