----------------------------- MODULE Net_proofs ------------------------------
(* That a program receives what was sent to it (ReceivedOwn of Net), for any number
   of sockets, hosts and connections, any stream shorter than the sequence numbers,
   any read lengths, and any losses, reorderings and repetitions in the network.

   What is inductive is a statement about the frames on their way (NetInv, QueueInv):
   a TCP frame carries the source port of one of our connections, and is a SYN-ACK,
   a reset, or a piece of that connection's stream under the piece's own sequence
   number.  As no port is used twice, a segment of the current port is of the
   current connection (ConnInv), and as the sequence numbers of one stream differ, a
   segment with sequence number rcv_nxt continues what has been received. *)
EXTENDS Net, SequenceTheorems, TLAPS

(* A step is proved by Zenon within 20 seconds, or names another prover. *)
USE ZenonT(20)

Names == Hosts \cup Servers \cup {alpine, NoAddr}
Items == Names \cup (Nat \X Nat)

FrameSet ==
    [k : {"none", "arp", "udp", "reply", "tcp"}, port : Nat, flags : SUBSET {"SYN", "ACK", "RST", "FIN"},
     seq : Nat, data : Seq(Items)]
NetSet ==
    [peer : [port : Nat, st : {"none", "syn", "est", "reset"}, una : Nat, nxt : Nat],
     wire : SUBSET FrameSet, faults : Nat]
ConnSet == [used : BOOLEAN, port : Nat, rcv_nxt : Nat, peer_fin : BOOLEAN, rx : Seq(Items)]
HistSet ==
    [n : Nat, got : Seq(Items), heard : {"nothing", "open", "fin", "rst", "closed"}, socks : Nat]
OpSet ==
    [t : {"idle", "arp", "syn", "send", "recv", "close", "dns", "probe", "echo"}, s : Socks, h : Names,
     k : {"none", "connect", "sendto", "dgram", "ping", "recv", "close"}, n : Nat]
SockSet ==
    [used : BOOLEAN, domain : {"inet", "netlink"}, type : {"stream", "dgram"}, tcp : BOOLEAN, dst : Names,
     dns : BOOLEAN, rx : [left : Nat, id : Nat, q : Names, a : Items \cup {loopback}], id : Nat]

(* What a TCP frame on its way to us may be. *)
IsSynAck(f) == f.flags = {"SYN", "ACK"} /\ f.seq = ISS /\ f.data = <<>>
IsReset(f)  == f.flags = {"RST"} /\ f.data = <<>>
IsPiece(f, i, j) ==
    /\ i <= j /\ j <= STREAM
    /\ f.seq = SeqAt(i) /\ f.data = Sent(f.port, i, j)
    /\ \/ f.flags = {"ACK"} /\ i < j
       \/ f.flags = {"ACK", "FIN"} /\ j = STREAM
Legit(f, p) ==
    f.k = "tcp" =>
        /\ f.port <= p
        /\ IsSynAck(f) \/ IsReset(f) \/ \E i, j \in Nat : IsPiece(f, i, j)

(* The network nt after n connections, and the receive queue q when the peer has
   heard of port p. *)
NetInv(nt, n) ==
    /\ nt \in NetSet
    /\ nt.peer.port <= n
    /\ \A f \in nt.wire : Legit(f, nt.peer.port)
QueueInv(q, p) == q \in Seq(FrameSet) /\ \A x \in 1..Len(q) : Legit(q[x], p)

(* The first l bytes of the connection have been received and acknowledged. *)
Holds(cc, h, l) ==
    /\ l \in 0..STREAM
    /\ h.got \o cc.rx = Sent(h.n, 0, l)
    /\ \/ cc.rcv_nxt = SeqAt(l)
       \/ l = STREAM /\ cc.peer_fin /\ cc.rcv_nxt = SeqAt(STREAM + 1)

Connecting(o) == o.t \in {"arp", "syn"} /\ o.k \in {"connect", "sendto"}

(* The connection cc, its history h, the call o in progress, and the peer's port p. *)
ConnInv(cc, h, o, p) ==
    /\ cc.port = h.n
    /\ h.heard = "open" => p = h.n
    /\ o.t = "syn" => Connecting(o)
    /\ Connecting(o) => h.heard = "nothing" /\ h.got = <<>> /\ cc.rx = <<>> /\ ~cc.peer_fin
    /\ o.t = "recv" => ~cc.peer_fin /\ cc.rx = <<>>
    /\ o.t = "close" => h.heard = "closed"
    /\ h.heard \in {"open", "fin", "rst"} => \E l \in Nat : Holds(cc, h, l)
    /\ h.heard = "open" /\ cc.peer_fin => Holds(cc, h, STREAM)
    /\ h.heard = "fin" => cc.peer_fin /\ cc.rx = <<>> /\ h.got = Sent(h.n, 0, STREAM)
    /\ h.heard = "rst" => cc.peer_fin

SockInv == sock \in [Socks -> SockSet] /\ AnswerOwn

TypeInv ==
    /\ c \in ConnSet /\ hist \in HistSet /\ op \in OpSet
    /\ limit \in Limits /\ hist.n <= limit.conns

IInv ==
    /\ TypeInv /\ SockInv
    /\ NetInv(net, hist.n)
    /\ QueueInv(rxq, net.peer.port)
    /\ ConnInv(c, hist, op, net.peer.port)

-----------------------------------------------------------------------------
(* Sequence numbers. *)

Wrapped(a) == IF a < SEQ THEN a ELSE a - SEQ

LEMMA WrapMod ==
    ASSUME SEQ \in Nat, NEW a \in 0..(2 * SEQ - 1)
    PROVE  a % SEQ = Wrapped(a)
<1>0. SEQ > 0
  BY SMT
<1>1. CASE a < SEQ
  BY <1>0, <1>1, SMT DEF Wrapped
<1>2. CASE a >= SEQ
  <2>1. a = SEQ * 1 + (a - SEQ) /\ a - SEQ \in 0..(SEQ - 1)
    BY <1>2, SMT
  <2> QED BY <1>2, <2>1, SMT DEF Wrapped
<1> QED BY <1>1, <1>2, SMT

LEMMA SeqAtIs ==
    ASSUME Sizes, NEW i \in 0..(STREAM + 1)
    PROVE  SeqAt(i) = Wrapped(ISS + 1 + i) /\ SeqAt(i) \in 0..(SEQ - 1)
<1>1. ISS + 1 + i \in 0..(2 * SEQ - 1) /\ SEQ \in Nat /\ ISS \in Nat
  BY SMT DEF Sizes
<1>2. SeqAt(i) = Wrapped(ISS + 1 + i)
  BY <1>1, WrapMod DEF SeqAt
<1> QED BY <1>1, <1>2, SMT DEF Wrapped

(* No two positions of a stream have the same sequence number. *)
LEMMA SeqAtOnce ==
    ASSUME Sizes, NEW i \in 0..STREAM, NEW l \in 0..STREAM, SeqAt(i) = SeqAt(l)
    PROVE  i = l
<1>1. SeqAt(i) = Wrapped(ISS + 1 + i) /\ SeqAt(l) = Wrapped(ISS + 1 + l)
  BY SeqAtIs, SMT DEF Sizes
<1>2. ISS \in Nat /\ SEQ \in Nat /\ STREAM \in Nat /\ STREAM + 2 <= SEQ /\ ISS < SEQ
  BY DEF Sizes
<1>3. i \in Nat /\ l \in Nat /\ i <= STREAM /\ l <= STREAM
  BY <1>2, SMT
<1> DEFINE a == ISS + 1 + i
           b == ISS + 1 + l
<1>4. a \in Nat /\ b \in Nat /\ a - b < SEQ /\ b - a < SEQ
  BY <1>2, <1>3, SMT
<1>5. Wrapped(a) = Wrapped(b)
  BY <1>1
<1> HIDE DEF a, b
<1>6. a = b
  BY <1>2, <1>4, <1>5, SMT DEF Wrapped
<1> QED BY <1>2, <1>3, <1>6, SMT DEF a, b

LEMMA SeqAtNext ==
    ASSUME Sizes, NEW i \in 0..(STREAM + 1), NEW d \in Nat, i + d <= STREAM + 1
    PROVE  (SeqAt(i) + d) % SEQ = SeqAt(i + d)
<1>1. SeqAt(i) = Wrapped(ISS + 1 + i) /\ SeqAt(i) \in 0..(SEQ - 1)
  BY SeqAtIs
<1>2. SeqAt(i) + d \in 0..(2 * SEQ - 1) /\ SEQ \in Nat /\ STREAM \in Nat /\ ISS \in Nat
  BY <1>1, SMT DEF Sizes
<1>3. (SeqAt(i) + d) % SEQ = Wrapped(SeqAt(i) + d)
  BY <1>2, WrapMod
<1>4. SeqAt(i + d) = Wrapped(ISS + 1 + (i + d))
  BY <1>2, SeqAtIs, SMT
<1> QED BY <1>1, <1>2, <1>3, <1>4, SMT DEF Wrapped, Sizes

LEMMA ModType ==
    ASSUME Sizes, NEW a \in Nat
    PROVE  a % SEQ \in Nat
BY SMT DEF Sizes

(* Pieces of a stream. *)
LEMMA SentType ==
    ASSUME NEW n \in Nat, NEW i \in Nat, NEW j \in Nat, i <= j
    PROVE  Sent(n, i, j) \in Seq(Nat \X Nat) /\ Len(Sent(n, i, j)) = j - i
BY SMT DEF Sent, Byte

LEMMA SentItems ==
    ASSUME NEW n \in Nat, NEW i \in Nat, NEW j \in Nat, i <= j
    PROVE  Sent(n, i, j) \in Seq(Items)
<1>1. \A x \in 1..(j - i) : Byte(n, i + x - 1) \in Items
  BY SMT DEF Byte, Items
<1> QED BY <1>1, SMT DEF Sent

LEMMA SentNone ==
    ASSUME NEW n \in Nat, NEW i \in Nat
    PROVE  Sent(n, i, i) = <<>>
<1>1. Sent(n, i, i) \in Seq(Nat \X Nat) /\ Len(Sent(n, i, i)) = 0
  BY SentType, SMT
<1> QED BY <1>1, EmptySeq

LEMMA SentFirst ==
    ASSUME NEW n \in Nat, NEW i \in Nat
    PROVE  Sent(n, 0, i) \in Seq(Nat \X Nat) /\ Len(Sent(n, 0, i)) = i
BY SMT DEF Sent, Byte

LEMMA SentJoin ==
    ASSUME NEW n \in Nat, NEW i \in Nat, NEW j \in Nat, i <= j
    PROVE  Sent(n, 0, i) \o Sent(n, i, j) = Sent(n, 0, j)
<1> DEFINE a == Sent(n, 0, i)
           b == Sent(n, i, j)
           r == Sent(n, 0, j)
<1>1. /\ a \in Seq(Nat \X Nat) /\ Len(a) = i
      /\ b \in Seq(Nat \X Nat) /\ Len(b) = j - i
      /\ r \in Seq(Nat \X Nat) /\ Len(r) = j
  BY SentType, SentFirst
<1>2. /\ \A x \in 1..i : a[x] = Byte(n, 0 + x - 1)
      /\ \A x \in 1..(j - i) : b[x] = Byte(n, i + x - 1)
      /\ \A x \in 1..j : r[x] = Byte(n, 0 + x - 1)
  BY SMT DEF Sent
<1> HIDE DEF a, b, r
<1>3. /\ a \o b \in Seq(Nat \X Nat) /\ Len(a \o b) = Len(a) + Len(b)
      /\ \A x \in 1..(Len(a) + Len(b)) : (a \o b)[x] = IF x <= Len(a) THEN a[x] ELSE b[x - Len(a)]
  BY <1>1, ConcatProperties
<1>4. Len(a) + Len(b) = j
  BY <1>1, SMT
<1>5. \A x \in 1..j : (a \o b)[x] = r[x]
  <2> TAKE x \in 1..j
  <2>0. (a \o b)[x] = IF x <= i THEN a[x] ELSE b[x - i]
    BY <1>1, <1>3, <1>4
  <2>1. CASE x <= i
    BY <1>2, <2>0, <2>1, SMTT(60)
  <2>2. CASE x > i
    <3>1. x - i \in 1..(j - i) /\ i + (x - i) - 1 = 0 + x - 1
      BY <2>2, SMT
    <3> QED BY <1>2, <2>0, <2>2, <3>1, SMT
  <2>3. x <= i \/ x > i
    BY SMT
  <2> QED BY <2>1, <2>2, <2>3
<1>6. a \o b = r
  BY <1>1, <1>3, <1>4, <1>5, SeqEqual
<1> QED BY <1>6 DEF a, b, r

(* A sequence delivered in two parts. *)
LEMMA SplitJoin ==
    ASSUME NEW g \in Seq(Items), NEW d \in Seq(Items), NEW m \in 0..Len(d)
    PROVE  /\ SubSeq(d, 1, m) \in Seq(Items) /\ Spill(d, m) \in Seq(Items)
           /\ g \o SubSeq(d, 1, m) \in Seq(Items)
           /\ (g \o SubSeq(d, 1, m)) \o Spill(d, m) = g \o d
<1> DEFINE a == SubSeq(d, 1, m)
           b == Spill(d, m)
<1>0. Len(d) \in Nat
  BY LenProperties
<1>1. a \in Seq(Items)
  BY <1>0, SubSeqProperties, SMT
<1>2. b \in Seq(Items)
  <2>1. m + 1 \in 1..(Len(d) + 1)
    BY <1>0, SMT
  <2> QED BY <1>0, <2>1, SubSeqProperties, SMT DEF Spill
<1>3. a \o b = SubSeq(d, 1, Len(d))
  <2>1. 1 \in 1..Len(d) + 1 /\ m \in (1 - 1)..Len(d) /\ Len(d) \in m..Len(d)
    BY <1>0, SMT
  <2> QED BY <1>0, <2>1, ConcatAdjacentSubSeq DEF Spill
<1>5. a \o b = d
  BY <1>3, SubSeqFull
<1> HIDE DEF a, b
<1>6. (g \o a) \o b = g \o (a \o b)
  BY <1>1, <1>2, ConcatAssociative, SMTT(60)
<1>7. g \o a \in Seq(Items)
  BY <1>1, ConcatProperties
<1> QED BY <1>1, <1>2, <1>5, <1>6, <1>7 DEF a, b

-----------------------------------------------------------------------------
(* A frame of ours; only tcp_connect's first one has SYN. *)
OutSet ==
    [k : {"who-has", "query", "echo", "tcp"}, port : Nat, flags : SUBSET {"SYN", "ACK", "PSH", "FIN"},
     seq : Nat, data : Seq(Names)]
Outgoing(f, n) ==
    /\ f \in OutSet
    /\ f.k = "tcp" /\ "SYN" \in f.flags => f.port = n
    /\ f.k # "tcp" => f.flags = {}

(* Only a TCP frame must be legitimate. *)
LEMMA WireMore ==
    ASSUME NEW n \in Nat, NEW nt, NetInv(nt, n), NEW f \in FrameSet, Legit(f, nt.peer.port)
    PROVE  NetInv([nt EXCEPT !.wire = @ \cup {f}], n)
BY DEF NetInv, NetSet

LEMMA HearKeeps ==
    ASSUME Sizes, NEW n \in Nat, NetInv(net, n), NEW f, Outgoing(f, n)
    PROVE  /\ NetInv(Hear(net, f), n)
           /\ net.peer.port <= Hear(net, f).peer.port
           /\ "SYN" \notin f.flags => Hear(net, f).peer.port = net.peer.port
<1>0. /\ net \in NetSet /\ net.peer.port <= n /\ \A g \in net.wire : Legit(g, net.peer.port)
      /\ f \in OutSet
  BY DEF NetInv, Outgoing
<1> DEFINE With(g) == [net EXCEPT !.wire = @ \cup {g}]
<1>1. ASSUME NEW g \in FrameSet, g.k # "tcp", Hear(net, f) = With(g)
      PROVE  NetInv(Hear(net, f), n) /\ Hear(net, f).peer.port = net.peer.port
  <2>1. Legit(g, net.peer.port)
    BY <1>1 DEF Legit
  <2>2. NetInv(With(g), n)
    BY <1>1, <2>1, WireMore
  <2>3. With(g).peer.port = net.peer.port
    BY <1>0 DEF NetSet
  <2> QED BY <1>1, <2>2, <2>3
<1>2. CASE f.k = "who-has"
  <2> DEFINE g == Frame("arp", 0, {}, 0, <<>>)
  <2>1. g \in FrameSet /\ g.k # "tcp"
    BY SMT DEF Frame, FrameSet
  <2>2. Hear(net, f) = With(g)
    BY <1>2 DEF Hear
  <2> HIDE DEF g
  <2> QED BY <1>0, <1>1, <2>1, <2>2, SMTT(60) DEF NetSet
<1>3. CASE f.k = "query"
  <2> DEFINE d == IF f.data[1] \in Unknown THEN <<>> ELSE f.data
             g == Frame("udp", 0, {}, 0, d)
  <2>0. f.data \in Seq(Items) /\ <<>> \in Seq(Items)
    <3>1. f.data \in Seq(Names)
      BY <1>0 DEF OutSet
    <3>2. Names \subseteq Items
      BY DEF Items
    <3> QED BY <3>1, <3>2, SeqMonotonic, SMT
  <2>1. g \in FrameSet /\ g.k # "tcp"
    BY <2>0 DEF Frame, FrameSet
  <2>2. Hear(net, f) = With(g)
    BY <1>3 DEF Hear
  <2> HIDE DEF g
  <2> QED BY <1>0, <1>1, <2>1, <2>2, SMTT(60) DEF NetSet
<1>4. CASE f.k = "echo"
  <2> DEFINE g == Frame("reply", 0, {}, f.seq, <<>>)
  <2>1. g \in FrameSet /\ g.k # "tcp"
    BY <1>0, SMT DEF Frame, FrameSet, OutSet
  <2>2. Hear(net, f) = With(g)
    BY <1>4 DEF Hear
  <2> HIDE DEF g
  <2> QED BY <1>0, <1>1, <2>1, <2>2, SMTT(60) DEF NetSet
<1>5. CASE f.k = "tcp" /\ "SYN" \in f.flags
  <2> DEFINE q == [port |-> f.port, st |-> "syn", una |-> 0, nxt |-> 0]
  <2>1. Hear(net, f) = [net EXCEPT !.peer = q]
    BY <1>5 DEF Hear
  <2>2. f.port = n
    BY <1>5 DEF Outgoing
  <2>3. Hear(net, f) \in NetSet /\ Hear(net, f).peer.port = n /\ Hear(net, f).wire = net.wire
    BY <1>0, <2>1, <2>2, SMT DEF NetSet
  <2>4. ASSUME NEW g \in net.wire
        PROVE  Legit(g, n)
    <3>1. g.port \in Nat /\ Legit(g, net.peer.port) /\ net.peer.port \in Nat
      BY <1>0 DEF NetSet, FrameSet
    <3> QED BY <1>0, <3>1, SMT DEF Legit
  <2> QED BY <1>0, <1>5, <2>3, <2>4, SMT DEF NetInv
<1>6. CASE f.k = "tcp" /\ "SYN" \notin f.flags
  <2> DEFINE p == net.peer
             acked == {i \in p.una..(STREAM + 1) : SeqAt(i) = f.seq}
  <2>1. Hear(net, f) = IF f.port = p.port /\ p.st \in {"syn", "est"} /\ acked # {}
                       THEN LET i == CHOOSE i \in acked : TRUE
                            IN  [net EXCEPT !.peer = [p EXCEPT !.st = "est", !.una = i, !.nxt = Greater(@, i)]]
                       ELSE net
    BY <1>6 DEF Hear
  <2>2. CASE f.port = p.port /\ p.st \in {"syn", "est"} /\ acked # {}
    <3> DEFINE i == CHOOSE i \in acked : TRUE
               q == [p EXCEPT !.st = "est", !.una = i, !.nxt = Greater(@, i)]
    <3>1. i \in Nat
      <4>1. i \in acked
        BY <2>2
      <4>2. p.una \in Nat
        BY <1>0 DEF NetSet
      <4> QED BY <4>1, <4>2, SMT DEF Sizes
    <3>2. Hear(net, f) = [net EXCEPT !.peer = q]
      BY <2>1, <2>2
    <3> HIDE DEF i, acked
    <3>3. q \in [port : Nat, st : {"none", "syn", "est", "reset"}, una : Nat, nxt : Nat] /\ q.port = p.port
      BY <1>0, <3>1 DEF NetSet, Greater
    <3> HIDE DEF q
    <3>4. /\ Hear(net, f) \in NetSet /\ Hear(net, f).peer.port = net.peer.port
          /\ Hear(net, f).wire = net.wire
      BY <1>0, <3>2, <3>3 DEF NetSet
    <3> QED BY <1>0, <3>4, SMT DEF NetInv, NetSet
  <2>3. CASE ~(f.port = p.port /\ p.st \in {"syn", "est"} /\ acked # {})
    <3>1. Hear(net, f) = net
      BY <2>1, <2>3
    <3> QED BY <1>0, <3>1, SMT DEF NetSet
  <2> QED BY <2>2, <2>3
<1>7. f.k \in {"who-has", "query", "echo", "tcp"}
  BY <1>0 DEF OutSet
<1> QED BY <1>2, <1>3, <1>4, <1>5, <1>6, <1>7

(* Whether the frame is heard, lost or refused, frames on their way stay legitimate,
   and only a SYN changes the port the peer has heard of. *)
LEMMA SendKeeps ==
    ASSUME Sizes, NEW n \in Nat, NetInv(net, n), NEW f, Outgoing(f, n), NEW r \in e1000_send(f)
    PROVE  /\ NetInv(r.net, n)
           /\ net.peer.port <= r.net.peer.port
           /\ "SYN" \notin f.flags => r.net.peer.port = net.peer.port
<1>0. net \in NetSet
  BY DEF NetInv
<1>1. CASE r = [ok |-> TRUE, net |-> Hear(net, f)]
  BY <1>1, HearKeeps
<1>2. CASE \E b \in BOOLEAN : r = [ok |-> b, net |-> [net EXCEPT !.faults = @ + 1]]
  <2>1. r.net = [net EXCEPT !.faults = @ + 1]
    BY <1>2, SMT
  <2>2. r.net \in NetSet /\ r.net.peer = net.peer /\ r.net.wire = net.wire
    BY <1>0, <2>1, SMT DEF NetSet
  <2> QED BY <1>0, <2>2, SMT DEF NetInv, NetSet
<1> QED BY <1>1, <1>2 DEF e1000_send

(* The receive queue. *)
LEMMA PolledIs ==
    ASSUME NEW p \in Nat, QueueInv(rxq, p)
    PROVE  /\ Polled \in FrameSet /\ Legit(Polled, p)
           /\ Poll => QueueInv(rxq', p)
<1>0. rxq \in Seq(FrameSet) /\ \A x \in 1..Len(rxq) : Legit(rxq[x], p)
  BY DEF QueueInv
<1>1. CASE rxq = <<>>
  <2>1. NoFrame \in FrameSet /\ Legit(NoFrame, p)
    BY SMT DEF NoFrame, Frame, FrameSet, Legit
  <2> QED BY <1>1, <2>1 DEF Polled, Poll
<1>2. CASE rxq # <<>>
  <2>1. Polled = rxq[1] /\ 1 \in 1..Len(rxq) /\ rxq[1] \in FrameSet
    BY <1>0, <1>2, SMT DEF Polled
  <2>2. ASSUME Poll
        PROVE  QueueInv(rxq', p)
    <3>1. rxq' = Tail(rxq)
      BY <1>2, <2>2 DEF Poll
    <3>2. /\ Tail(rxq) \in Seq(FrameSet) /\ Len(Tail(rxq)) = Len(rxq) - 1
          /\ \A x \in 1..Len(Tail(rxq)) : Tail(rxq)[x] = rxq[x + 1]
      BY <1>0, <1>2, HeadTailProperties
    <3>3. \A x \in 1..Len(Tail(rxq)) : x + 1 \in 1..Len(rxq)
      BY <1>0, <3>2, SMT
    <3>4. \A x \in 1..Len(Tail(rxq)) : Legit(Tail(rxq)[x], p)
      BY <1>0, <3>2, <3>3
    <3> QED BY <3>1, <3>2, <3>4 DEF QueueInv
  <2> QED BY <1>0, <2>1, <2>2
<1> QED BY <1>1, <1>2

LEMMA QueueLater ==
    ASSUME NEW q, NEW p1 \in Nat, NEW p2 \in Nat, p1 <= p2, QueueInv(q, p1)
    PROVE  QueueInv(q, p2)
<1>1. ASSUME NEW x \in 1..Len(q)
      PROVE  Legit(q[x], p2)
  <2>1. q[x].port \in Nat /\ Legit(q[x], p1)
    <3>1. q[x] \in FrameSet /\ Legit(q[x], p1)
      BY SMT DEF QueueInv
    <3> QED BY <3>1 DEF FrameSet
  <2>2. q[x].port <= p1 => q[x].port <= p2
    BY <2>1, SMT
  <2> QED BY <2>1, <2>2 DEF Legit
<1> QED BY <1>1 DEF QueueInv

LEMMA IdleType ==
    ASSUME Sizes
    PROVE  Idle \in OpSet /\ Idle.t = "idle" /\ Idle.s \in Socks
BY DEF Sizes, Idle, Op, OpSet, Names

(* The call goes on as o2, or ends. *)
Follows(o2, o) ==
    /\ o2 \in OpSet
    /\ o2.t = "syn" => Connecting(o2)
    /\ Connecting(o2) => Connecting(o)
    /\ o2.t \in {"recv", "close"} => o2.t = o.t

LEMMA ConnSame ==
    ASSUME NEW cc, NEW h, NEW o, NEW o2, NEW p, NEW p2, ConnInv(cc, h, o, p), Follows(o2, o),
           h.heard = "open" => p2 = p
    PROVE  ConnInv(cc, h, o2, p2)
BY DEF ConnInv, Follows

LEMMA Same ==
    ASSUME Sizes, NEW o
    PROVE  /\ o = Idle => Follows(o, op)
           /\ op \in OpSet /\ ConnInv(c, hist, op, net.peer.port) => Follows(op, op)
<1>1. ASSUME o = Idle PROVE Follows(o, op)
  BY <1>1, IdleType DEF Follows, Connecting
<1>2. ASSUME op \in OpSet, ConnInv(c, hist, op, net.peer.port) PROVE Follows(op, op)
  BY <1>2 DEF Follows, ConnInv
<1> QED BY <1>1, <1>2

(* What is left to show for a step that changes neither the connection nor what the
   program has been told. *)
LEMMA QuietStep ==
    ASSUME Sizes, IInv, limit' = limit, c' = c, hist' = hist, Follows(op', op), SockInv',
           NetInv(net', hist.n), net.peer.port <= net'.peer.port,
           hist.heard = "open" => net'.peer.port = net.peer.port,
           QueueInv(rxq', net.peer.port)
    PROVE  IInv'
<1>1. TypeInv'
  BY DEF IInv, TypeInv, Follows
<1>2. NetInv(net', hist'.n)
  OBVIOUS
<1>3. QueueInv(rxq', net'.peer.port)
  <2>1. net.peer.port \in Nat /\ net'.peer.port \in Nat
    BY DEF IInv, NetInv, NetSet
  <2> QED BY <2>1, QueueLater
<1>4. ConnInv(c', hist', op', net'.peer.port)
  <2>1. ConnInv(c, hist, op, net.peer.port)
    BY DEF IInv
  <2>2. ConnInv(c, hist, op', net'.peer.port)
    BY <2>1, ConnSame
  <2> QED BY <2>2
<1> QED BY <1>1, <1>2, <1>3, <1>4 DEF IInv

-----------------------------------------------------------------------------
(* Answers. *)
LEMMA AnswerKeeps ==
    ASSUME SockInv, NEW o \in OpSet, NEW a \in Items, sock' = Answered(o, a)
    PROVE  SockInv'
<1> DEFINE b == IF a # NoAddr THEN a ELSE IF o.h = alpine THEN alpine ELSE loopback
           x == [left |-> 2, id |-> sock[o.s].id, q |-> o.h, a |-> b]
<1>0. sock \in [Socks -> SockSet] /\ o.s \in Socks /\ o.h \in Names /\ sock[o.s] \in SockSet
  BY DEF SockInv, OpSet
<1>1. b \in Items \cup {loopback}
  BY DEF Items, Names
<1>2. sock' = [sock EXCEPT ![o.s].rx = x]
  BY DEF Answered
<1> HIDE DEF b
<1>3. x \in [left : Nat, id : Nat, q : Names, a : Items \cup {loopback}] /\ x.id = sock[o.s].id
  BY <1>0, <1>1 DEF SockSet
<1> HIDE DEF x
<1>4. [sock[o.s] EXCEPT !.rx = x] \in SockSet
  BY <1>0, <1>3 DEF SockSet
<1>5. sock' \in [Socks -> SockSet]
  BY <1>0, <1>2, <1>4
<1>6. ASSUME NEW s \in Socks, sock'[s].used, sock'[s].domain = "inet", sock'[s].rx.left > 0
      PROVE  sock'[s].rx.id = sock'[s].id
  <2>1. CASE s = o.s
    <3>1. sock'[s] = [sock[s] EXCEPT !.rx = x]
      BY <1>0, <1>2, <2>1
    <3>2. sock'[s].rx = x /\ sock'[s].id = sock[s].id
      BY <1>0, <2>1, <3>1 DEF SockSet
    <3> QED BY <1>3, <2>1, <3>2
  <2>2. CASE s # o.s
    <3>1. sock'[s] = sock[s]
      BY <1>0, <1>2, <2>2
    <3> QED BY <1>6, <3>1 DEF SockInv, AnswerOwn
  <2> QED BY <2>1, <2>2
<1> QED BY <1>5, <1>6 DEF SockInv, AnswerOwn

LEMMA GiveUpKeeps ==
    ASSUME Sizes, SockInv, NEW o \in OpSet, GiveUp(o)
    PROVE  SockInv' /\ op' = Idle /\ Follows(op', op)
<1>1. op' = Idle /\ Follows(op', op)
  BY Same DEF GiveUp
<1>2. NoAddr \in Items
  BY DEF Items, Names
<1>3. CASE sock' = Answered(o, NoAddr)
  BY <1>1, <1>2, <1>3, AnswerKeeps
<1>4. CASE sock' = sock
  BY <1>1, <1>4 DEF SockInv, AnswerOwn
<1> QED BY <1>3, <1>4 DEF GiveUp

LEMMA SendThenKeeps ==
    ASSUME Sizes, IInv, NEW f, Outgoing(f, hist.n), NEW o \in OpSet, SendThen(e1000_send(f), o)
    PROVE  /\ NetInv(net', hist.n) /\ net.peer.port <= net'.peer.port
           /\ "SYN" \notin f.flags => net'.peer.port = net.peer.port
           /\ SockInv' /\ op' \in {o, Idle}
<1>0. SockInv /\ NetInv(net, hist.n) /\ hist.n \in Nat
  BY DEF IInv, TypeInv, HistSet
<1>1. PICK r \in e1000_send(f) :
          net' = r.net /\ IF r.ok THEN op' = o /\ sock' = sock ELSE GiveUp(o)
  BY DEF SendThen
<1>2. /\ NetInv(net', hist.n) /\ net.peer.port <= net'.peer.port
      /\ "SYN" \notin f.flags => net'.peer.port = net.peer.port
  BY <1>0, <1>1, SendKeeps
<1>3. CASE GiveUp(o)
  BY <1>0, <1>2, <1>3, GiveUpKeeps
<1>4. CASE op' = o /\ sock' = sock
  BY <1>0, <1>2, <1>4 DEF SockInv, AnswerOwn
<1> QED BY <1>1, <1>3, <1>4

LEMMA WaitKeeps ==
    ASSUME Sizes, IInv, WaitOrGiveUp
    PROVE  SockInv' /\ Follows(op', op) /\ net' = net
<1>0. SockInv /\ op \in OpSet /\ ConnInv(c, hist, op, net.peer.port)
  BY DEF IInv, TypeInv
<1>1. CASE op' = op /\ sock' = sock
  <2>1. Follows(op, op)
    BY <1>0, Same
  <2> QED BY <1>0, <1>1, <2>1 DEF SockInv, AnswerOwn, WaitOrGiveUp
<1>2. CASE GiveUp(op)
  BY <1>0, <1>2, GiveUpKeeps DEF WaitOrGiveUp
<1> QED BY <1>1, <1>2 DEF WaitOrGiveUp

(* What IInv gives an action. *)
LEMMA Facts ==
    ASSUME Sizes, IInv
    PROVE  /\ c \in ConnSet /\ hist \in HistSet /\ op \in OpSet /\ net \in NetSet
           /\ hist.n \in Nat /\ net.peer.port \in Nat /\ net.peer.port <= hist.n
           /\ SockInv /\ sock \in [Socks -> SockSet]
           /\ NetInv(net, hist.n) /\ QueueInv(rxq, net.peer.port) /\ ConnInv(c, hist, op, net.peer.port)
           /\ Polled \in FrameSet /\ Legit(Polled, net.peer.port)
           /\ Poll => QueueInv(rxq', net.peer.port)
           /\ Follows(op, op) /\ Follows(Idle, op)
<1>1. /\ c \in ConnSet /\ hist \in HistSet /\ op \in OpSet /\ net \in NetSet /\ net.peer.port <= hist.n
      /\ SockInv /\ NetInv(net, hist.n) /\ QueueInv(rxq, net.peer.port)
      /\ ConnInv(c, hist, op, net.peer.port) /\ sock \in [Socks -> SockSet]
  BY DEF IInv, TypeInv, NetInv, SockInv
<1>2. hist.n \in Nat /\ net.peer.port \in Nat
  BY <1>1 DEF HistSet, NetSet
<1> QED BY <1>1, <1>2, PolledIs, Same

-----------------------------------------------------------------------------
(* A frame of ours that is not a SYN. *)
LEMMA QuietFrame ==
    ASSUME NEW n \in Nat, NEW k \in {"who-has", "query", "echo"}, NEW x \in Nat, NEW d \in Seq(Names)
    PROVE  Outgoing(Frame(k, 0, {}, x, d), n) /\ "SYN" \notin Frame(k, 0, {}, x, d).flags
BY DEF Outgoing, OutSet, Frame

LEMMA SegmentFrame ==
    ASSUME NEW n \in Nat, NEW cc \in ConnSet, cc.port = n, NEW fl \in SUBSET {"SYN", "ACK", "PSH", "FIN"}
    PROVE  /\ Outgoing(Frame("tcp", cc.port, fl, cc.rcv_nxt, <<>>), n)
           /\ Frame("tcp", cc.port, fl, cc.rcv_nxt, <<>>).flags = fl
BY SMT DEF Outgoing, OutSet, Frame, ConnSet

(* A segment of ours without SYN. *)
LEMMA AckKeeps ==
    ASSUME Sizes, IInv, NEW cc \in ConnSet, cc.port = hist.n, NEW fl \in SUBSET {"ACK", "PSH", "FIN"},
           NEW r \in tcp_send_segment(cc, fl)
    PROVE  NetInv(r.net, hist.n) /\ r.net.peer.port = net.peer.port
<1>1. hist.n \in Nat /\ NetInv(net, hist.n)
  BY Facts
<1> DEFINE f == Frame("tcp", cc.port, fl, cc.rcv_nxt, <<>>)
<1>2. fl \in SUBSET {"SYN", "ACK", "PSH", "FIN"}
  OBVIOUS
<1>3. Outgoing(f, hist.n) /\ f.flags = fl
  BY <1>1, <1>2, SegmentFrame, Zenon
<1>4. r \in e1000_send(f) /\ "SYN" \notin fl
  BY DEF tcp_send_segment
<1> HIDE DEF f
<1> QED BY <1>1, <1>3, <1>4, SendKeeps

LEMMA SockSame == SockInv /\ sock' = sock => SockInv'
BY DEF SockInv, AnswerOwn

LEMMA GatewayKeeps ==
    ASSUME Sizes, IInv, limit' = limit, resolve_gateway_mac
    PROVE  IInv'
<1>0. /\ op.t = "arp" /\ QueueInv(rxq', net.peer.port) /\ c' = c /\ hist' = hist
      /\ op \in OpSet /\ c \in ConnSet /\ hist.n \in Nat /\ SockInv /\ NetInv(net, hist.n)
      /\ ConnInv(c, hist, op, net.peer.port) /\ Follows(Idle, op) /\ net.peer.port \in Nat
  BY Facts DEF resolve_gateway_mac
<1>1. CASE WaitOrGiveUp
  <2>1. SockInv' /\ Follows(op', op) /\ net' = net
    BY <1>1, WaitKeeps
  <2> QED BY <1>0, <2>1, QuietStep, SMT
<1>2. CASE op.k \in {"connect", "sendto"} /\ SendThen(tcp_send_segment(c, {"SYN"}), [op EXCEPT !.t = "syn"])
  <2> DEFINE f == Frame("tcp", c.port, {"SYN"}, c.rcv_nxt, <<>>)
             o == [op EXCEPT !.t = "syn"]
  <2>1. c.port = hist.n /\ hist.heard = "nothing"
    BY <1>0, <1>2 DEF ConnInv, Connecting
  <2>2. Outgoing(f, hist.n)
    BY <1>0, <2>1, SegmentFrame
  <2>3. SendThen(e1000_send(f), o)
    BY <1>2 DEF tcp_send_segment
  <2>4. o \in OpSet /\ Follows(o, op)
    BY <1>0, <1>2 DEF OpSet, Follows, Connecting
  <2> HIDE DEF f, o
  <2>5. NetInv(net', hist.n) /\ net.peer.port <= net'.peer.port /\ SockInv' /\ op' \in {o, Idle}
    BY <2>2, <2>3, <2>4, SendThenKeeps
  <2>6. Follows(op', op)
    BY <1>0, <2>4, <2>5
  <2> QED BY <1>0, <2>1, <2>5, <2>6, QuietStep
<1>3. CASE op.k = "dgram" /\ SendThen(e1000_send(Frame("query", 0, {}, 0, <<op.h>>)), [op EXCEPT !.t = "dns"])
  <2> DEFINE f == Frame("query", 0, {}, 0, <<op.h>>)
             o == [op EXCEPT !.t = "dns"]
  <2>1. <<op.h>> \in Seq(Names)
    BY <1>0, SMT DEF OpSet
  <2>2. Outgoing(f, hist.n) /\ "SYN" \notin f.flags
    BY <1>0, <2>1, QuietFrame
  <2>4. o \in OpSet /\ Follows(o, op)
    BY <1>0, <1>3 DEF OpSet, Follows, Connecting
  <2> HIDE DEF f, o
  <2>5. NetInv(net', hist.n) /\ net'.peer.port = net.peer.port /\ SockInv' /\ op' \in {o, Idle}
    BY <1>3, <2>2, <2>4, SendThenKeeps DEF f, o
  <2>6. Follows(op', op)
    BY <1>0, <2>4, <2>5
  <2> QED BY <1>0, <2>5, <2>6, QuietStep, SMT
<1>4. CASE GiveUp(op) /\ net' = net
  <2>1. SockInv' /\ Follows(op', op)
    BY <1>0, <1>4, GiveUpKeeps
  <2> QED BY <1>0, <1>4, <2>1, QuietStep, SMT
<1>5. CASE op.k = "ping" /\ op' = [op EXCEPT !.t = "probe"] /\ UNCHANGED <<net, sock>>
  <2>1. Follows(op', op)
    BY <1>0, <1>5 DEF OpSet, Follows, Connecting
  <2> QED BY <1>0, <1>5, <2>1, SockSame, QuietStep, SMT
<1> QED BY <1>1, <1>2, <1>3, <1>4, <1>5 DEF resolve_gateway_mac

LEMMA SendKeepsInv ==
    ASSUME Sizes, IInv, limit' = limit, tcp_send
    PROVE  IInv'
<1>0. /\ QueueInv(rxq', net.peer.port) /\ c' = c /\ hist' = hist /\ SockInv' /\ Follows(op', op)
      /\ c \in ConnSet /\ c.port = hist.n /\ NetInv(net, hist.n) /\ net.peer.port \in Nat
  BY Facts, SockSame DEF tcp_send, ConnInv
<1>1. NetInv(net', hist.n) /\ net'.peer.port = net.peer.port
  <2>1. CASE net' = net
    BY <1>0, <2>1
  <2>2. CASE \E r \in tcp_send_segment(c, {"PSH", "ACK"}) : net' = r.net
    BY <1>0, <2>2, AckKeeps
  <2> QED BY <2>1, <2>2 DEF tcp_send
<1> QED BY <1>0, <1>1, QuietStep, SMT

LEMMA DnsKeeps ==
    ASSUME Sizes, IInv, limit' = limit, dns_poll
    PROVE  IInv'
<1>0. /\ QueueInv(rxq', net.peer.port) /\ c' = c /\ hist' = hist /\ op \in OpSet /\ SockInv
      /\ NetInv(net, hist.n) /\ net.peer.port \in Nat /\ Follows(Idle, op) /\ Polled \in FrameSet
  BY Facts DEF dns_poll
<1>1. CASE WaitOrGiveUp
  <2>1. SockInv' /\ Follows(op', op) /\ net' = net
    BY <1>1, WaitKeeps
  <2> QED BY <1>0, <2>1, QuietStep, SMT
<1>2. CASE /\ op' = Idle /\ net' = net
           /\ sock' = Answered(op, IF Polled.data = <<>> THEN NoAddr ELSE Polled.data[1])
  <2> DEFINE a == IF Polled.data = <<>> THEN NoAddr ELSE Polled.data[1]
  <2>1. a \in Items
    <3>1. Polled.data \in Seq(Items)
      BY <1>0 DEF FrameSet
    <3>2. Polled.data # <<>> => Polled.data[1] \in Items
      BY <3>1, SMT
    <3> QED BY <3>2 DEF Items, Names
  <2> HIDE DEF a
  <2>2. SockInv'
    BY <1>0, <1>2, <2>1, AnswerKeeps DEF a
  <2> QED BY <1>0, <1>2, <2>2, QuietStep, SMT
<1> QED BY <1>1, <1>2 DEF dns_poll

LEMMA EchoKeeps ==
    ASSUME Sizes, IInv, limit' = limit, send_echo \/ poll_echo_reply
    PROVE  IInv'
<1>0. /\ QueueInv(rxq', net.peer.port) /\ c' = c /\ hist' = hist /\ op \in OpSet /\ SockInv'
      /\ NetInv(net, hist.n) /\ hist.n \in Nat /\ net.peer.port \in Nat /\ Follows(Idle, op) /\ Follows(op, op)
  BY Facts, SockSame DEF send_echo, poll_echo_reply
<1>1. ASSUME op.t \in {"probe", "echo"}
      PROVE  /\ Follows([op EXCEPT !.t = "echo"], op)
             /\ Follows([op EXCEPT !.t = "probe", !.n = @ + 1], op)
             /\ op.t = "probe" => Follows([op EXCEPT !.n = @ + 1], op)
  <2>1. op \in OpSet /\ op.n + 1 \in Nat
    BY <1>0, SMT DEF OpSet
  <2>2. Follows([op EXCEPT !.t = "echo"], op)
    BY <2>1 DEF OpSet, Follows, Connecting
  <2>3. Follows([op EXCEPT !.t = "probe", !.n = @ + 1], op)
    BY <2>1 DEF OpSet, Follows, Connecting
  <2>4. ASSUME op.t = "probe" PROVE Follows([op EXCEPT !.n = @ + 1], op)
    BY <2>1, <2>4 DEF OpSet, Follows, Connecting
  <2> QED BY <2>2, <2>3, <2>4
<1>2. CASE poll_echo_reply
  <2>1. Follows(op', op) /\ net' = net
    BY <1>0, <1>1, <1>2 DEF poll_echo_reply
  <2> QED BY <1>0, <2>1, QuietStep, SMT
<1>3. CASE send_echo
  <2>1. CASE op' = Idle /\ net' = net
    BY <1>0, <2>1, QuietStep, SMT
  <2>2. CASE \E r \in e1000_send(Frame("echo", 0, {}, op.n, <<>>)) :
                /\ net' = r.net
                /\ op' = IF r.ok THEN [op EXCEPT !.t = "echo"] ELSE [op EXCEPT !.n = @ + 1]
    <3> DEFINE f == Frame("echo", 0, {}, op.n, <<>>)
    <3>1. op.n \in Nat /\ <<>> \in Seq(Names)
      BY <1>0, SMT DEF OpSet
    <3>2. Outgoing(f, hist.n) /\ "SYN" \notin f.flags
      BY <1>0, <3>1, QuietFrame
    <3>3. PICK r \in e1000_send(f) :
                /\ net' = r.net
                /\ op' = IF r.ok THEN [op EXCEPT !.t = "echo"] ELSE [op EXCEPT !.n = @ + 1]
      BY <2>2
    <3> HIDE DEF f
    <3>4. NetInv(net', hist.n) /\ net'.peer.port = net.peer.port
      BY <1>0, <3>2, <3>3, SendKeeps
    <3>5. Follows(op', op)
      BY <1>1, <1>3, <3>3 DEF send_echo
    <3> QED BY <1>0, <3>4, <3>5, QuietStep, SMT
  <2> QED BY <1>3, <2>1, <2>2 DEF send_echo
<1> QED BY <1>2, <1>3

-----------------------------------------------------------------------------
(* What is left to show for a step within a connection. *)
LEMMA ConnStep ==
    ASSUME Sizes, IInv, limit' = limit, c' \in ConnSet, hist' \in HistSet, hist'.n = hist.n, op' \in OpSet,
           SockInv', NetInv(net', hist.n), net'.peer.port = net.peer.port, QueueInv(rxq', net.peer.port),
           ConnInv(c', hist', op', net.peer.port)
    PROVE  IInv'
<1>1. TypeInv'
  BY DEF IInv, TypeInv
<1>2. NetInv(net', hist'.n) /\ QueueInv(rxq', net'.peer.port) /\ ConnInv(c', hist', op', net'.peer.port)
  OBVIOUS
<1> QED BY <1>1, <1>2 DEF IInv

(* A connection the program does not read from. *)
LEMMA ConnOver ==
    ASSUME NEW cc, NEW h, NEW o, NEW p, cc.port = h.n, h.heard \in {"nothing", "closed"},
           ~Connecting(o), o.t \notin {"syn", "recv"}, o.t = "close" => h.heard = "closed"
    PROVE  ConnInv(cc, h, o, p)
BY DEF ConnInv

(* Changing a socket's connection leaves its answer alone. *)
LEMMA ConnectedKeeps ==
    ASSUME SockInv, op \in OpSet, sock' = [sock EXCEPT ![op.s].tcp = TRUE, ![op.s].dst = op.h]
    PROVE  SockInv'
<1>1. sock \in [Socks -> SockSet] /\ op.s \in Socks /\ op.h \in Names /\ AnswerOwn
  BY DEF SockInv, OpSet
<1> DEFINE y == [[sock[op.s] EXCEPT !.tcp = TRUE] EXCEPT !.dst = op.h]
<1>2. /\ y \in SockSet
      /\ y.rx = sock[op.s].rx /\ y.id = sock[op.s].id /\ y.domain = sock[op.s].domain /\ y.used = sock[op.s].used
  <2>1. sock[op.s] \in SockSet
    BY <1>1
  <2> QED BY <1>1, <2>1 DEF SockSet
<1>3. sock' = [sock EXCEPT ![op.s] = y]
  BY <1>1
<1> HIDE DEF y
<1>4. sock' \in [Socks -> SockSet]
  BY <1>1, <1>2, <1>3
<1>5. AnswerOwn'
  BY <1>1, <1>2, <1>3, SMT DEF AnswerOwn
<1> QED BY <1>4, <1>5 DEF SockInv

LEMMA ConnectKeeps ==
    ASSUME Sizes, IInv, limit' = limit, NEW s \in Socks, NEW h \in Names, NEW k \in {"connect", "sendto"},
           tcp_connect(s, h, k)
    PROVE  IInv'
<1> DEFINE n == hist.n + 1
           o == Op("arp", s, h, k, 0)
           f == Frame("who-has", 0, {}, 0, <<>>)
<1>0. /\ hist \in HistSet /\ hist.n \in Nat /\ net.peer.port \in Nat /\ NetInv(net, hist.n)
      /\ QueueInv(rxq, net.peer.port)
  BY Facts
<1>1. n \in Nat /\ n <= limit.conns /\ limit.conns < PORTS /\ PORTS \in Nat /\ limit.conns \in Nat
  <2>1. limit \in Limits /\ hist.n < limit.conns
    BY DEF IInv, TypeInv, tcp_connect
  <2>2. limit.conns \in Nat /\ limit.conns < PORTS /\ PORTS \in Nat
    BY <2>1 DEF Sizes
  <2> QED BY <1>0, <2>1, <2>2, SMT
<1>2. n % PORTS = n
  BY <1>1, SMT
<1>3. c' = [used |-> TRUE, port |-> n, rcv_nxt |-> 0, peer_fin |-> FALSE, rx |-> <<>>]
  BY <1>2 DEF tcp_connect
<1>4. /\ hist' = [hist EXCEPT !.n = @ + 1, !.got = <<>>, !.heard = "nothing"]
      /\ SendThen(e1000_send(f), o) /\ rxq' = rxq
  BY DEF tcp_connect, arp_request
<1>5. hist' \in HistSet /\ hist'.n = n /\ hist'.got = <<>> /\ hist'.heard = "nothing"
  <2>1. <<>> \in Seq(Items) /\ hist.n + 1 \in Nat
    BY <1>0, SMT
  <2> HIDE DEF Items
  <2>2. hist' = [n |-> hist.n + 1, got |-> <<>>, heard |-> "nothing", socks |-> hist.socks]
    BY <1>0, <1>4 DEF HistSet
  <2> QED BY <1>0, <2>1, <2>2 DEF HistSet
<1>6. c' \in ConnSet /\ c'.port = n /\ c'.rx = <<>> /\ ~c'.peer_fin
  BY <1>1, <1>3, SMT DEF ConnSet
<1>7. o \in OpSet /\ o.t = "arp" /\ o.k = k
  BY DEF Op, OpSet
<1>8. Outgoing(f, hist.n) /\ "SYN" \notin f.flags
  <2>1. <<>> \in Seq(Names)
    BY SMT
  <2> QED BY <1>0, <2>1, QuietFrame
<1> HIDE DEF f, o
<1>9. NetInv(net', hist.n) /\ net'.peer.port = net.peer.port /\ SockInv' /\ op' \in {o, Idle}
  BY <1>4, <1>7, <1>8, SendThenKeeps
<1>10. op' \in OpSet /\ op'.t \in {"arp", "idle"}
  BY <1>7, <1>9, IdleType
<1>11. NetInv(net', hist'.n)
  <2>1. net' \in NetSet /\ net'.peer.port <= hist.n /\ net'.peer.port \in Nat
    BY <1>9 DEF NetInv, NetSet
  <2>2. net'.peer.port <= n
    BY <1>0, <2>1, SMT
  <2> QED BY <1>5, <1>9, <2>2 DEF NetInv
<1>12. ConnInv(c', hist', op', net'.peer.port)
  BY <1>5, <1>6, <1>10 DEF ConnInv, Connecting
<1>13. TypeInv'
  BY <1>1, <1>5, <1>6, <1>10 DEF TypeInv, IInv
<1> QED BY <1>0, <1>4, <1>9, <1>11, <1>12, <1>13 DEF IInv

LEMMA SynAckKeeps ==
    ASSUME Sizes, IInv, limit' = limit, await_synack
    PROVE  IInv'
<1>0. /\ op.t = "syn" /\ QueueInv(rxq', net.peer.port)
      /\ op \in OpSet /\ c \in ConnSet /\ hist \in HistSet /\ hist.n \in Nat /\ SockInv /\ NetInv(net, hist.n)
      /\ ConnInv(c, hist, op, net.peer.port) /\ Follows(Idle, op) /\ net.peer.port \in Nat
      /\ net.peer.port <= hist.n /\ Polled \in FrameSet /\ Legit(Polled, net.peer.port)
  BY Facts DEF await_synack
<1>1. CASE WaitOrGiveUp /\ UNCHANGED <<c, hist>>
  <2>1. SockInv' /\ Follows(op', op) /\ net' = net
    BY <1>1, WaitKeeps
  <2> QED BY <1>0, <1>1, <2>1, QuietStep, SMT
<1>2. CASE GiveUp(op) /\ UNCHANGED <<c, hist, net>>
  <2>1. SockInv' /\ Follows(op', op)
    BY <1>0, <1>2, GiveUpKeeps
  <2> QED BY <1>0, <1>2, <2>1, QuietStep, SMT
<1>3. CASE /\ Segment /\ "RST" \notin Polled.flags /\ {"SYN", "ACK"} \subseteq Polled.flags
           /\ c' = [c EXCEPT !.rcv_nxt = (Polled.seq + 1) % SEQ]
           /\ \E r \in tcp_send_segment(c', {"ACK"}) :
                /\ net' = r.net
                /\ op' = IF r.ok /\ op.k = "sendto" THEN [op EXCEPT !.t = "send"] ELSE Idle
                /\ sock' = IF r.ok THEN [sock EXCEPT ![op.s].tcp = TRUE, ![op.s].dst = op.h] ELSE sock
                /\ hist' = IF r.ok THEN [hist EXCEPT !.heard = "open"] ELSE hist
  <2> DEFINE f == Polled
  <2>1. f.k = "tcp" /\ f.port = c.port /\ c.port = hist.n
    BY <1>0, <1>3 DEF Segment, ConnInv
  <2>2. f.seq = ISS /\ net.peer.port = hist.n
    <3>1. f.port <= net.peer.port
      BY <1>0, <2>1 DEF Legit
    <3>2. ~IsReset(f) /\ \A i, j \in Nat : ~IsPiece(f, i, j)
      BY <1>3 DEF IsReset, IsPiece
    <3>3. IsSynAck(f)
      BY <1>0, <2>1, <3>2 DEF Legit
    <3> QED BY <1>0, <2>1, <3>1, <3>3, SMT DEF IsSynAck
  <2>3. (f.seq + 1) % SEQ = SeqAt(0) /\ SeqAt(0) \in Nat
    <3>1. ISS + 1 = ISS + 1 + 0 /\ 0 \in 0..(STREAM + 1) /\ ISS \in Nat /\ SEQ \in Nat
      BY SMT DEF Sizes
    <3>2. SeqAt(0) \in 0..(SEQ - 1)
      BY <3>1, SeqAtIs
    <3> QED BY <2>2, <3>1, <3>2, SMT DEF SeqAt
  <2>4. c' = [c EXCEPT !.rcv_nxt = SeqAt(0)]
    BY <1>3, <2>3
  <2>5. /\ c' \in ConnSet /\ c'.port = hist.n /\ c'.rcv_nxt = SeqAt(0) /\ c'.rx = c.rx
        /\ c'.peer_fin = c.peer_fin
    BY <1>0, <2>1, <2>3, <2>4 DEF ConnSet
  <2>6. hist.heard = "nothing" /\ hist.got = <<>> /\ c.rx = <<>> /\ ~c.peer_fin
    BY <1>0 DEF ConnInv
  <2>7. PICK r \in tcp_send_segment(c', {"ACK"}) :
                /\ net' = r.net
                /\ op' = IF r.ok /\ op.k = "sendto" THEN [op EXCEPT !.t = "send"] ELSE Idle
                /\ sock' = IF r.ok THEN [sock EXCEPT ![op.s].tcp = TRUE, ![op.s].dst = op.h] ELSE sock
                /\ hist' = IF r.ok THEN [hist EXCEPT !.heard = "open"] ELSE hist
    BY <1>3
  <2>8. NetInv(net', hist.n) /\ net'.peer.port = net.peer.port
    BY <2>5, <2>7, AckKeeps
  <2>9. op' \in OpSet /\ op'.t \in {"send", "idle"}
    <3>1. [op EXCEPT !.t = "send"] \in OpSet /\ [op EXCEPT !.t = "send"].t = "send"
      BY <1>0 DEF OpSet
    <3> QED BY <2>7, <3>1, IdleType
  <2>10. SockInv'
    <3>1. CASE sock' = sock
      BY <1>0, <3>1, SockSame
    <3>2. CASE sock' = [sock EXCEPT ![op.s].tcp = TRUE, ![op.s].dst = op.h]
      BY <1>0, <3>2, ConnectedKeeps
    <3> QED BY <2>7, <3>1, <3>2
  <2>11. CASE hist' = hist
    <3>1. ConnInv(c', hist', op', net.peer.port)
      BY <2>5, <2>6, <2>9, <2>11, ConnOver DEF Connecting
    <3> QED BY <1>0, <2>5, <2>8, <2>9, <2>10, <2>11, <3>1, ConnStep
  <2>12. CASE hist' = [hist EXCEPT !.heard = "open"]
    <3>1. hist' \in HistSet /\ hist'.n = hist.n /\ hist'.got = <<>> /\ hist'.heard = "open"
      BY <1>0, <2>6, <2>12 DEF HistSet
    <3>2. Holds(c', hist', 0)
      <4>1. hist'.got \o c'.rx = <<>>
        BY <2>5, <2>6, <3>1, SMT
      <4>2. Sent(hist'.n, 0, 0) = <<>>
        BY <1>0, <3>1, SentNone
      <4>3. 0 \in 0..STREAM
        BY SMT DEF Sizes
      <4> QED BY <2>5, <4>1, <4>2, <4>3 DEF Holds
    <3>3. ~c'.peer_fin
      BY <2>5, <2>6
    <3>4. ConnInv(c', hist', op', net.peer.port)
      BY <2>2, <2>5, <2>9, <3>1, <3>2, <3>3 DEF ConnInv, Connecting
    <3> QED BY <1>0, <2>5, <2>8, <2>9, <2>10, <3>1, <3>4, ConnStep
  <2> QED BY <2>7, <2>11, <2>12
<1> QED BY <1>1, <1>2, <1>3 DEF await_synack

LEMMA EndIs ==
    ASSUME hist \in HistSet, NEW how \in {"closed", "fin", "rst"}, EndOfFile(how)
    PROVE  /\ hist' \in HistSet /\ hist'.n = hist.n /\ hist'.got = hist.got
           /\ hist'.heard = IF hist.heard = "open" THEN how ELSE hist.heard
<1> DEFINE e == IF hist.heard = "open" THEN how ELSE hist.heard
<1>1. e \in {"nothing", "open", "fin", "rst", "closed"}
  BY DEF HistSet
<1>2. hist' = [hist EXCEPT !.heard = e]
  BY DEF EndOfFile
<1> HIDE DEF e
<1>3. /\ hist' \in HistSet /\ hist'.n = hist.n /\ hist'.got = hist.got /\ hist'.heard = e
  BY <1>1, <1>2 DEF HistSet
<1> QED BY <1>3 DEF e

LEMMA DeliverIs ==
    ASSUME hist \in HistSet, NEW d \in Seq(Items), Deliver(d)
    PROVE  /\ hist' \in HistSet /\ hist'.n = hist.n /\ hist'.got = hist.got \o d
           /\ hist'.heard = hist.heard
<1>1. hist' = [hist EXCEPT !.got = hist.got \o d]
  BY DEF Deliver
<1>2. hist.got \in Seq(Items)
  BY DEF HistSet
<1>3. hist.got \o d \in Seq(Items)
  BY <1>2, SMT
<1> QED BY <1>1, <1>3 DEF HistSet

(* Up to n elements from the front of a sequence. *)
LEMMA LesserIn ==
    ASSUME NEW n \in Nat, NEW d \in Seq(Items)
    PROVE  Lesser(n, Len(d)) \in 0..Len(d)
<1>1. Len(d) \in Nat
  BY SMT
<1> HIDE DEF Items
<1> QED BY <1>1, SMT DEF Lesser

(* In tcp_recv's loop, the program has been given all the bytes received. *)
LEMMA ReadingFacts ==
    ASSUME Sizes, IInv, op.t = "recv", hist.heard \in {"open", "fin", "rst"}
    PROVE  /\ hist.heard = "open" /\ net.peer.port = hist.n
           /\ \E l \in 0..STREAM : hist.got = Sent(hist.n, 0, l) /\ c.rcv_nxt = SeqAt(l)
<1>1. /\ ConnInv(c, hist, op, net.peer.port) /\ hist \in HistSet
  BY Facts
<1>2. ~c.peer_fin /\ c.rx = <<>>
  BY <1>1 DEF ConnInv
<1>3. hist.heard = "open" /\ net.peer.port = hist.n
  BY <1>1, <1>2 DEF ConnInv
<1>4. PICK l \in Nat : Holds(c, hist, l)
  BY <1>1, <1>3 DEF ConnInv
<1>5. hist.got \o c.rx = hist.got
  <2>1. hist.got \in Seq(Items)
    BY <1>1 DEF HistSet
  <2> QED BY <1>2, <2>1, ConcatEmptySeq
<1> QED BY <1>2, <1>3, <1>4, <1>5 DEF Holds

(* A frame of the current connection with data or a FIN is a piece of its stream. *)
LEMMA PieceOf ==
    ASSUME Sizes, NEW f \in FrameSet, NEW p, Legit(f, p), f.k = "tcp", "RST" \notin f.flags,
           NEW l \in 0..STREAM, f.seq = SeqAt(l), f.data # <<>> \/ "FIN" \in f.flags
    PROVE  \E j \in l..STREAM :
              /\ f.data = Sent(f.port, l, j) /\ Len(f.data) = j - l
              /\ "FIN" \in f.flags => j = STREAM
<1>1. ~IsSynAck(f) /\ ~IsReset(f)
  BY SMT DEF IsSynAck, IsReset
<1>2. PICK i \in Nat, j \in Nat : IsPiece(f, i, j)
  BY <1>1 DEF Legit
<1>3. i <= j /\ j <= STREAM /\ STREAM \in Nat /\ SeqAt(i) = SeqAt(l)
  BY <1>2 DEF IsPiece, Sizes
<1>4. i = l
  <2>1. i \in 0..STREAM
    BY <1>3, SMT
  <2> QED BY <1>3, <2>1, SeqAtOnce
<1>5. f.port \in Nat /\ l \in Nat
  BY <1>3, SMT DEF FrameSet
<1>6. f.data = Sent(f.port, l, j) /\ ("FIN" \in f.flags => j = STREAM)
  BY <1>2, <1>4 DEF IsPiece
<1>7. Len(f.data) = j - l
  <2>1. l <= j
    BY <1>3, <1>4
  <2>2. Len(Sent(f.port, l, j)) = j - l
    BY <1>5, <2>1, SentType, Zenon
  <2> QED BY <1>6, <2>2
<1> QED BY <1>3, <1>4, <1>6, <1>7, SMT

(* An in-order segment with data: what its FIN and its bytes do to the connection. *)
LEMMA AcceptHolds ==
    ASSUME Sizes, c \in ConnSet, hist \in HistSet, NEW f \in FrameSet, NEW m \in 0..Len(f.data),
           NEW l \in 0..STREAM, NEW j \in l..STREAM, hist.got = Sent(hist.n, 0, l), c.rcv_nxt = SeqAt(l),
           f.data = Sent(hist.n, l, j), Len(f.data) = j - l, "FIN" \in f.flags => j = STREAM,
           c' = Accept(f, m), Deliver(SubSeq(f.data, 1, m))
    PROVE  /\ hist' \in HistSet /\ hist'.n = hist.n /\ hist'.heard = hist.heard
           /\ c' \in ConnSet /\ c'.port = c.port
           /\ Holds(c', hist', j) /\ (c'.peer_fin => j = STREAM)
<1>0. STREAM \in Nat /\ SEQ \in Nat
  BY DEF Sizes
<1>1. l \in Nat /\ j \in Nat /\ l <= j /\ j <= STREAM /\ hist.n \in Nat /\ hist.got \in Seq(Items)
  BY <1>0, SMT DEF HistSet
<1>2. f.data \in Seq(Items)
  BY DEF FrameSet
<1>3. /\ SubSeq(f.data, 1, m) \in Seq(Items) /\ Spill(f.data, m) \in Seq(Items)
      /\ (hist.got \o SubSeq(f.data, 1, m)) \o Spill(f.data, m) = hist.got \o f.data
  <2> DEFINE g == hist.got
             d == f.data
  <2>1. g \in Seq(Items) /\ d \in Seq(Items) /\ m \in 0..Len(d)
    BY <1>1, <1>2
  <2> HIDE DEF g, d
  <2>2. /\ SubSeq(d, 1, m) \in Seq(Items) /\ Spill(d, m) \in Seq(Items)
        /\ (g \o SubSeq(d, 1, m)) \o Spill(d, m) = g \o d
    BY <2>1, SplitJoin
  <2> QED BY <2>2 DEF g, d
<1>4. /\ hist' \in HistSet /\ hist'.n = hist.n /\ hist'.got = hist.got \o SubSeq(f.data, 1, m)
      /\ hist'.heard = hist.heard
  BY <1>3, DeliverIs, ZenonT(60)
<1>5. hist.got \o f.data = Sent(hist.n, 0, j)
  BY <1>1, SentJoin
<1> DEFINE fin == "FIN" \in f.flags
           x == IF fin THEN j + 1 ELSE j
<1>6. (c.rcv_nxt + Len(f.data) + (IF fin THEN 1 ELSE 0)) % SEQ = SeqAt(x) /\ SeqAt(x) \in Nat
  <2> DEFINE d == IF fin THEN (j - l) + 1 ELSE j - l
  <2>1. d \in Nat /\ l + d = x /\ l + d <= STREAM + 1 /\ l \in 0..(STREAM + 1) /\ x \in 0..(STREAM + 1)
    BY <1>0, <1>1, SMT
  <2>2. SeqAt(l) \in Nat /\ SeqAt(x) \in Nat
    <3>1. SeqAt(l) \in 0..(SEQ - 1) /\ SeqAt(x) \in 0..(SEQ - 1)
      BY <2>1, SeqAtIs
    <3> QED BY <1>0, <3>1, SMT
  <2>3. c.rcv_nxt + Len(f.data) + (IF fin THEN 1 ELSE 0) = SeqAt(l) + d
    BY <1>1, <2>2, SMT
  <2>4. (SeqAt(l) + d) % SEQ = SeqAt(l + d)
    <3> HIDE DEF d
    <3> QED BY <2>1, SeqAtNext
  <2> QED BY <2>1, <2>2, <2>3, <2>4
<1>7. c' = [c EXCEPT !.rx = Spill(f.data, m), !.rcv_nxt = SeqAt(x), !.peer_fin = fin]
  BY <1>6 DEF Accept
<1>8. fin \in BOOLEAN
  BY SMT
<1>9. fin => j = STREAM /\ x = STREAM + 1
  BY <1>1
<1>10. ~fin => x = j
  OBVIOUS
<1> HIDE DEF fin, x
<1>11. /\ c' \in ConnSet /\ c'.port = c.port /\ c'.rx = Spill(f.data, m) /\ c'.rcv_nxt = SeqAt(x)
       /\ c'.peer_fin = fin
  BY <1>3, <1>6, <1>7, <1>8 DEF ConnSet
<1>12. hist'.got \o c'.rx = Sent(hist'.n, 0, j)
  BY <1>3, <1>4, <1>5, <1>11
<1>13. c'.rcv_nxt = SeqAt(j) \/ (j = STREAM /\ c'.peer_fin /\ c'.rcv_nxt = SeqAt(STREAM + 1))
  BY <1>9, <1>10, <1>11
<1>14. j \in 0..STREAM
  BY <1>1, SMT
<1> QED BY <1>4, <1>9, <1>11, <1>12, <1>13, <1>14 DEF Holds

LEMMA AcceptType ==
    ASSUME Sizes, c \in ConnSet, NEW f \in FrameSet, NEW m \in 0..Len(f.data), c' = Accept(f, m)
    PROVE  c' \in ConnSet /\ c'.port = c.port
<1> DEFINE fin == "FIN" \in f.flags
           x == (c.rcv_nxt + Len(f.data) + (IF fin THEN 1 ELSE 0)) % SEQ
<1>1. f.data \in Seq(Items) /\ <<>> \in Seq(Items)
  BY SMT DEF FrameSet
<1>2. Spill(f.data, m) \in Seq(Items)
  BY <1>1, SplitJoin
<1>3. x \in Nat
  <2>1. c.rcv_nxt \in Nat /\ Len(f.data) \in Nat
    BY <1>1, SMT DEF ConnSet
  <2>2. c.rcv_nxt + Len(f.data) + (IF fin THEN 1 ELSE 0) \in Nat
    BY <2>1, SMT
  <2> QED BY <2>2, ModType
<1>4. c' = [c EXCEPT !.rx = Spill(f.data, m), !.rcv_nxt = x, !.peer_fin = fin] /\ fin \in BOOLEAN
  BY SMT DEF Accept
<1> HIDE DEF x, fin
<1> QED BY <1>2, <1>3, <1>4 DEF ConnSet

LEMMA RecvKeeps ==
    ASSUME Sizes, IInv, limit' = limit, recv_poll
    PROVE  IInv'
<1> DEFINE f == Polled
           rst == Segment /\ "RST" \in f.flags
           inorder == Segment /\ ~rst /\ InOrder(f)
           data == Len(f.data) > 0
           Ack(conn) == \E r \in tcp_send_segment(conn, {"ACK"}) : net' = r.net
<1>0. /\ op.t = "recv" /\ QueueInv(rxq', net.peer.port) /\ sock' = sock /\ SockInv'
      /\ op \in OpSet /\ c \in ConnSet /\ hist \in HistSet /\ hist.n \in Nat /\ NetInv(net, hist.n)
      /\ ConnInv(c, hist, op, net.peer.port) /\ Follows(Idle, op) /\ Follows(op, op) /\ net.peer.port \in Nat
      /\ f \in FrameSet /\ Legit(f, net.peer.port) /\ op.n \in Nat
  BY Facts, SockSame DEF recv_poll, OpSet
<1>1. c.port = hist.n /\ c.rx = <<>> /\ ~c.peer_fin /\ hist.got \in Seq(Items) /\ f.data \in Seq(Items)
  BY <1>0 DEF ConnInv, HistSet, FrameSet
<1>2. Idle \in OpSet /\ ~Connecting(Idle) /\ Idle.t \notin {"syn", "recv", "close"}
  BY IdleType DEF Connecting
<1>3. hist.heard \in {"nothing", "closed"} \/ hist.heard \in {"open", "fin", "rst"}
  BY <1>0 DEF HistSet
<1>4. ASSUME NEW cc \in ConnSet, cc.port = hist.n, Ack(cc)
      PROVE  NetInv(net', hist.n) /\ net'.peer.port = net.peer.port
  BY <1>4, AckKeeps
<1>5. CASE rst /\ c' = [c EXCEPT !.peer_fin = TRUE] /\ EndOfFile("rst") /\ op' = Idle /\ net' = net
  <2>1. c' \in ConnSet /\ c'.port = c.port /\ c'.peer_fin /\ c'.rx = <<>> /\ c'.rcv_nxt = c.rcv_nxt
    BY <1>0, <1>1, <1>5 DEF ConnSet
  <2>2. /\ hist' \in HistSet /\ hist'.n = hist.n /\ hist'.got = hist.got
        /\ hist'.heard = IF hist.heard = "open" THEN "rst" ELSE hist.heard
    BY <1>0, <1>5, EndIs
  <2>3. ConnInv(c', hist', op', net.peer.port)
    <3>1. CASE hist.heard \in {"nothing", "closed"}
      BY <1>1, <1>2, <1>5, <2>1, <2>2, <3>1, ConnOver
    <3>2. CASE hist.heard \in {"open", "fin", "rst"}
      <4>1. hist.heard = "open"
        BY <1>0, <3>2, ReadingFacts
      <4>2. PICK l \in 0..STREAM : hist.got = Sent(hist.n, 0, l) /\ c.rcv_nxt = SeqAt(l)
        BY <1>0, <3>2, ReadingFacts
      <4>3. hist'.got \o c'.rx = hist.got
        BY <1>1, <2>1, <2>2, ConcatEmptySeq
      <4>4. Holds(c', hist', l)
        BY <2>1, <2>2, <4>2, <4>3 DEF Holds
      <4>5. l \in Nat
        BY SMT DEF Sizes
      <4> QED BY <1>1, <1>2, <1>5, <2>1, <2>2, <4>1, <4>4, <4>5 DEF ConnInv
    <3> QED BY <1>3, <3>1, <3>2
  <2> QED BY <1>0, <1>2, <1>5, <2>1, <2>2, <2>3, ConnStep
<1>6. CASE /\ inorder /\ data
           /\ Deliver(SubSeq(f.data, 1, Lesser(op.n, Len(f.data))))
           /\ c' = Accept(f, Lesser(op.n, Len(f.data)))
           /\ Ack(c')
           /\ op' = Idle
  <2> DEFINE m == Lesser(op.n, Len(f.data))
  <2>1. m \in 0..Len(f.data)
    BY <1>0, <1>1, LesserIn
  <2>2. Deliver(SubSeq(f.data, 1, m)) /\ c' = Accept(f, m)
    BY <1>6
  <2>3. f.k = "tcp" /\ f.port = hist.n /\ f.seq = c.rcv_nxt /\ "RST" \notin f.flags /\ f.data # <<>>
    BY <1>1, <1>6, SMT DEF Segment, InOrder
  <2> HIDE DEF m, f
  <2>4. CASE hist.heard \in {"nothing", "closed"}
    <3>1. /\ hist' \in HistSet /\ hist'.n = hist.n /\ hist'.heard = hist.heard
      <4>1. SubSeq(f.data, 1, m) \in Seq(Items)
        BY <1>1, <2>1, SplitJoin
      <4> QED BY <1>0, <2>2, <4>1, DeliverIs
    <3>2. c' \in ConnSet /\ c'.port = hist.n
      BY <1>0, <1>1, <2>1, <2>2, AcceptType
    <3>3. NetInv(net', hist.n) /\ net'.peer.port = net.peer.port
      BY <1>4, <1>6, <3>2
    <3>4. ConnInv(c', hist', op', net.peer.port)
      BY <1>2, <1>6, <2>4, <3>1, <3>2, ConnOver
    <3> QED BY <1>0, <1>2, <1>6, <3>1, <3>2, <3>3, <3>4, ConnStep
  <2>5. CASE hist.heard \in {"open", "fin", "rst"}
    <3>1. hist.heard = "open" /\ net.peer.port = hist.n
      BY <1>0, <2>5, ReadingFacts
    <3>2. PICK l \in 0..STREAM : hist.got = Sent(hist.n, 0, l) /\ c.rcv_nxt = SeqAt(l)
      BY <1>0, <2>5, ReadingFacts
    <3>3. PICK j \in l..STREAM :
              /\ f.data = Sent(f.port, l, j) /\ Len(f.data) = j - l
              /\ "FIN" \in f.flags => j = STREAM
      BY <1>0, <2>3, <3>2, PieceOf
    <3>4. f.data = Sent(hist.n, l, j)
      BY <2>3, <3>3
    <3>5. /\ hist' \in HistSet /\ hist'.n = hist.n /\ hist'.heard = hist.heard
          /\ c' \in ConnSet /\ c'.port = c.port
          /\ Holds(c', hist', j) /\ (c'.peer_fin => j = STREAM)
      BY <1>0, <2>1, <2>2, <3>2, <3>3, <3>4, AcceptHolds
    <3>6. NetInv(net', hist.n) /\ net'.peer.port = net.peer.port
      BY <1>1, <1>4, <1>6, <3>5
    <3>7. j \in Nat
      BY SMTT(60) DEF Sizes
    <3>8. ConnInv(c', hist', op', net.peer.port)
      BY <1>1, <1>2, <1>6, <3>1, <3>5, <3>7 DEF ConnInv
    <3> QED BY <1>0, <1>2, <1>6, <3>5, <3>6, <3>8, ConnStep
  <2> QED BY <1>3, <2>4, <2>5
<1>7. CASE /\ inorder /\ ~data /\ "FIN" \in f.flags
           /\ c' = [c EXCEPT !.rcv_nxt = (@ + 1) % SEQ, !.peer_fin = TRUE]
           /\ Ack(c')
           /\ EndOfFile("fin") /\ op' = Idle
  <2>0. (c.rcv_nxt + 1) % SEQ \in Nat
    <3>1. c.rcv_nxt + 1 \in Nat
      BY <1>0, SMT DEF ConnSet
    <3> QED BY <3>1, ModType
  <2>1. /\ c' \in ConnSet /\ c'.port = c.port /\ c'.peer_fin /\ c'.rx = <<>>
        /\ c'.rcv_nxt = (c.rcv_nxt + 1) % SEQ
    BY <1>0, <1>1, <1>7, <2>0 DEF ConnSet
  <2>2. /\ hist' \in HistSet /\ hist'.n = hist.n /\ hist'.got = hist.got
        /\ hist'.heard = IF hist.heard = "open" THEN "fin" ELSE hist.heard
    BY <1>0, <1>7, EndIs
  <2>3. NetInv(net', hist.n) /\ net'.peer.port = net.peer.port
    BY <1>1, <1>4, <1>7, <2>1
  <2>4. f.k = "tcp" /\ f.port = hist.n /\ f.seq = c.rcv_nxt /\ "RST" \notin f.flags /\ "FIN" \in f.flags
        /\ Len(f.data) = 0
    BY <1>1, <1>7, SMT DEF Segment, InOrder
  <2> HIDE DEF f
  <2>5. ConnInv(c', hist', op', net.peer.port)
    <3>1. CASE hist.heard \in {"nothing", "closed"}
      BY <1>1, <1>2, <1>7, <2>1, <2>2, <3>1, ConnOver
    <3>2. CASE hist.heard \in {"open", "fin", "rst"}
      <4>1. hist.heard = "open"
        BY <1>0, <3>2, ReadingFacts
      <4>2. PICK l \in 0..STREAM : hist.got = Sent(hist.n, 0, l) /\ c.rcv_nxt = SeqAt(l)
        BY <1>0, <3>2, ReadingFacts
      <4>3. PICK j \in l..STREAM : Len(f.data) = j - l /\ j = STREAM
        BY <1>0, <2>4, <4>2, PieceOf
      <4>4. l = STREAM /\ STREAM \in Nat
        BY <2>4, <4>3, SMT DEF Sizes
      <4>5. hist'.got \o c'.rx = hist.got
        BY <1>1, <2>1, <2>2, ConcatEmptySeq
      <4>6. c'.rcv_nxt = SeqAt(STREAM + 1)
        <5>1. STREAM \in 0..(STREAM + 1) /\ 1 \in Nat /\ STREAM + 1 <= STREAM + 1
          BY <4>4, SMT
        <5>2. (SeqAt(STREAM) + 1) % SEQ = SeqAt(STREAM + 1)
          BY <5>1, SeqAtNext
        <5> QED BY <2>1, <4>2, <4>4, <5>2
      <4>7. Holds(c', hist', STREAM) /\ hist'.got = Sent(hist'.n, 0, STREAM)
        BY <2>1, <2>2, <4>2, <4>4, <4>5, <4>6 DEF Holds
      <4> QED BY <1>1, <1>2, <1>7, <2>1, <2>2, <4>1, <4>4, <4>7 DEF ConnInv
    <3> QED BY <1>3, <3>1, <3>2
  <2> QED BY <1>0, <1>2, <1>7, <2>1, <2>2, <2>3, <2>5, ConnStep
<1>8. CASE DuplicateAck /\ op' \in {op, Idle} /\ UNCHANGED <<c, hist>>
  <2>1. NetInv(net', hist.n) /\ net'.peer.port = net.peer.port
    BY <1>0, <1>1, <1>4, <1>8 DEF DuplicateAck
  <2> QED BY <1>0, <1>8, <2>1, QuietStep, SMTT(60)
<1>9. CASE op' \in {op, Idle} /\ UNCHANGED <<c, hist, net>>
  BY <1>0, <1>9, QuietStep, SMT
<1> QED BY <1>5, <1>6, <1>7, <1>8, <1>9 DEF recv_poll

LEMMA ClosePollKeeps ==
    ASSUME Sizes, IInv, limit' = limit, close_poll
    PROVE  IInv'
<1>0. /\ op.t = "close" /\ QueueInv(rxq', net.peer.port) /\ SockInv' /\ hist' = hist
      /\ op \in OpSet /\ c \in ConnSet /\ hist \in HistSet /\ NetInv(net, hist.n)
      /\ ConnInv(c, hist, op, net.peer.port) /\ Polled \in FrameSet
  BY Facts, SockSame DEF close_poll
<1>1. c.port = hist.n /\ hist.heard = "closed" /\ ~Connecting(op)
  BY <1>0 DEF ConnInv, Connecting
<1>2. op' \in {op, Idle}
  BY DEF close_poll
<1>3. op' \in OpSet /\ ~Connecting(op') /\ op'.t \notin {"syn", "recv"}
  BY <1>0, <1>1, <1>2, IdleType DEF Connecting
<1>4. /\ c' \in ConnSet /\ c'.port = hist.n
      /\ NetInv(net', hist.n) /\ net'.peer.port = net.peer.port
  <2> DEFINE x == (Polled.seq + Len(Polled.data) + 1) % SEQ
             d == [c EXCEPT !.rcv_nxt = x]
             e == [c EXCEPT !.used = FALSE, !.rcv_nxt = x]
  <2>1. x \in Nat
    <3>1. Polled.data \in Seq(Items) /\ Polled.seq \in Nat
      BY <1>0 DEF FrameSet
    <3>2. Polled.seq + Len(Polled.data) + 1 \in Nat
      BY <3>1, SMT
    <3> QED BY <3>2, ModType
  <2>2. CASE (\E r \in tcp_send_segment(d, {"ACK"}) : net' = r.net) /\ c' = e
    <3> HIDE DEF x
    <3>1. d \in ConnSet /\ d.port = hist.n /\ e \in ConnSet /\ e.port = hist.n
      BY <1>0, <1>1, <2>1 DEF ConnSet
    <3> HIDE DEF d, e
    <3> QED BY <2>2, <3>1, AckKeeps
  <2>3. CASE c' \in {c, [c EXCEPT !.used = FALSE]} /\ net' = net
    BY <1>0, <1>1, <2>3 DEF ConnSet
  <2> QED BY <2>2, <2>3 DEF close_poll
<1>5. ConnInv(c', hist', op', net.peer.port)
  BY <1>0, <1>1, <1>3, <1>4, ConnOver
<1> QED BY <1>0, <1>3, <1>4, <1>5, ConnStep

LEMMA TcpRecvKeeps ==
    ASSUME Sizes, IInv, limit' = limit, op = Idle, NEW s \in Socks, NEW n \in Nat, tcp_recv(s, n),
           UNCHANGED <<sock, rxq, net>>
    PROVE  IInv'
<1>0. /\ QueueInv(rxq', net.peer.port) /\ SockInv' /\ NetInv(net', hist.n) /\ net' = net
      /\ op \in OpSet /\ c \in ConnSet /\ hist \in HistSet /\ net.peer.port \in Nat
      /\ ConnInv(c, hist, op, net.peer.port) /\ Follows(op, op)
  BY Facts, SockSame
<1>1. c.port = hist.n /\ op.t = "idle" /\ ~Connecting(op) /\ c.rx \in Seq(Items) /\ hist.got \in Seq(Items)
  BY <1>0, IdleType DEF ConnInv, Connecting, ConnSet, HistSet
<1>2. CASE EndOfFile("closed") /\ UNCHANGED <<c, op>>
  <2>1. /\ hist' \in HistSet /\ hist'.n = hist.n /\ hist'.got = hist.got
        /\ hist'.heard = IF hist.heard = "open" THEN "closed" ELSE hist.heard
    BY <1>0, <1>2, EndIs
  <2>2. ConnInv(c', hist', op', net.peer.port)
    <3>1. CASE hist.heard = "open"
      BY <1>1, <1>2, <2>1, <3>1, ConnOver
    <3>2. CASE hist.heard # "open"
      <4>1. hist' = hist
        BY <1>0, <1>2, <3>2 DEF EndOfFile, HistSet
      <4> QED BY <1>0, <1>2, <4>1
    <3> QED BY <3>1, <3>2
  <2> QED BY <1>0, <1>2, <2>1, <2>2, ConnStep
<1>3. CASE /\ c.rx # <<>> /\ op' = op
           /\ Deliver(SubSeq(c.rx, 1, Lesser(n, Len(c.rx))))
           /\ c' = [c EXCEPT !.rx = Spill(@, Lesser(n, Len(c.rx)))]
  <2> DEFINE m == Lesser(n, Len(c.rx))
  <2>1. m \in 0..Len(c.rx)
    BY <1>1, LesserIn
  <2>2. Deliver(SubSeq(c.rx, 1, m)) /\ c' = [c EXCEPT !.rx = Spill(c.rx, m)]
    BY <1>3
  <2> HIDE DEF m
  <2>3. /\ SubSeq(c.rx, 1, m) \in Seq(Items) /\ Spill(c.rx, m) \in Seq(Items)
        /\ (hist.got \o SubSeq(c.rx, 1, m)) \o Spill(c.rx, m) = hist.got \o c.rx
    BY <1>1, <2>1, SplitJoin
  <2>4. /\ hist' \in HistSet /\ hist'.n = hist.n /\ hist'.got = hist.got \o SubSeq(c.rx, 1, m)
        /\ hist'.heard = hist.heard
    BY <1>0, <2>2, <2>3, DeliverIs
  <2>5. /\ c' \in ConnSet /\ c'.port = c.port /\ c'.rx = Spill(c.rx, m) /\ c'.rcv_nxt = c.rcv_nxt
        /\ c'.peer_fin = c.peer_fin
    BY <1>0, <2>2, <2>3 DEF ConnSet
  <2>6. hist'.got \o c'.rx = hist.got \o c.rx
    BY <2>3, <2>4, <2>5
  <2>7. \A l : Holds(c, hist, l) => Holds(c', hist', l)
    BY <2>4, <2>5, <2>6 DEF Holds
  <2>8. hist.heard # "fin"
    BY <1>0, <1>3 DEF ConnInv
  <2>9. ConnInv(c', hist', op', net.peer.port)
    BY <1>0, <1>1, <1>3, <2>4, <2>5, <2>7, <2>8 DEF ConnInv
  <2> QED BY <1>0, <1>3, <2>4, <2>5, <2>9, ConnStep
<1>4. CASE c.rx = <<>> /\ c.peer_fin /\ EndOfFile("fin") /\ UNCHANGED <<c, op>>
  <2>1. /\ hist' \in HistSet /\ hist'.n = hist.n /\ hist'.got = hist.got
        /\ hist'.heard = IF hist.heard = "open" THEN "fin" ELSE hist.heard
    BY <1>0, <1>4, EndIs
  <2>2. ConnInv(c', hist', op', net.peer.port)
    <3>1. CASE hist.heard = "open"
      <4>1. Holds(c, hist, STREAM) /\ STREAM \in Nat
        BY <1>0, <1>4, <3>1 DEF ConnInv, Sizes
      <4>2. hist.got \o c.rx = hist.got
        BY <1>1, <1>4, ConcatEmptySeq
      <4>3. hist'.got = Sent(hist'.n, 0, STREAM) /\ Holds(c', hist', STREAM)
        BY <1>4, <2>1, <4>1, <4>2 DEF Holds
      <4> QED BY <1>1, <1>4, <2>1, <3>1, <4>1, <4>3 DEF ConnInv
    <3>2. CASE hist.heard # "open"
      <4>1. hist' = hist
        BY <1>0, <1>4, <3>2 DEF EndOfFile, HistSet
      <4> QED BY <1>0, <1>4, <4>1
    <3> QED BY <3>1, <3>2
  <2> QED BY <1>0, <1>4, <2>1, <2>2, ConnStep
<1>5. CASE /\ c.rx = <<>> /\ ~c.peer_fin
           /\ op' = Op("recv", s, alpine, "recv", n) /\ UNCHANGED <<c, hist>>
  <2>1. op' \in OpSet /\ op'.t = "recv"
    BY <1>5 DEF Op, OpSet, Names
  <2>2. ConnInv(c', hist', op', net.peer.port)
    BY <1>0, <1>5, <2>1 DEF ConnInv, Connecting
  <2> QED BY <1>0, <1>5, <2>1, <2>2, ConnStep
<1> QED BY <1>2, <1>3, <1>4, <1>5 DEF tcp_recv

-----------------------------------------------------------------------------
(* A socket call that changes one socket. *)
LEMMA SockPut ==
    ASSUME SockInv, NEW s \in Socks, NEW y \in SockSet, sock' = [sock EXCEPT ![s] = y],
           y.used /\ y.domain = "inet" /\ y.rx.left > 0 => y.rx.id = y.id
    PROVE  SockInv'
BY DEF SockInv, AnswerOwn

(* A call that starts a query or a ping. *)
LEMMA RequestKeeps ==
    ASSUME Sizes, IInv, limit' = limit, NEW o \in OpSet, ~Connecting(o), o.t = "arp", arp_request(o),
           UNCHANGED <<c, rxq, hist>>
    PROVE  IInv'
<1> DEFINE f == Frame("who-has", 0, {}, 0, <<>>)
<1>0. hist.n \in Nat /\ QueueInv(rxq', net.peer.port) /\ net.peer.port \in Nat /\ Follows(Idle, op)
  BY Facts
<1>1. <<>> \in Seq(Names)
  BY SMT
<1>2. Outgoing(f, hist.n) /\ "SYN" \notin f.flags
  BY <1>0, <1>1, QuietFrame
<1>3. SendThen(e1000_send(f), o)
  BY DEF arp_request
<1> HIDE DEF f
<1>4. NetInv(net', hist.n) /\ net'.peer.port = net.peer.port /\ SockInv' /\ op' \in {o, Idle}
  BY <1>2, <1>3, SendThenKeeps
<1>5. Follows(o, op)
  BY DEF Follows
<1> QED BY <1>0, <1>4, <1>5, QuietStep, SMTT(60)

LEMMA SocketKeeps ==
    ASSUME Sizes, IInv, limit' = limit, NEW domain \in {"inet", "netlink"}, NEW type \in {"stream", "dgram"},
           sys_linux_socket(domain, type)
    PROVE  IInv'
<1>0. /\ QueueInv(rxq', net.peer.port) /\ SockInv /\ NetInv(net', hist.n) /\ net' = net
      /\ op' \in OpSet /\ op' = op /\ c' = c /\ c \in ConnSet /\ hist \in HistSet
      /\ ConnInv(c, hist, op, net.peer.port) /\ hist' = [hist EXCEPT !.socks = @ + 1]
  BY Facts DEF sys_linux_socket
<1>1. /\ hist' \in HistSet /\ hist'.n = hist.n /\ hist'.got = hist.got /\ hist'.heard = hist.heard
      /\ hist.socks + 1 \in Nat
  BY <1>0, SMT DEF HistSet
<1>2. ConnInv(c', hist', op', net.peer.port)
  <2>1. \A l : Holds(c, hist, l) => Holds(c, hist', l)
    BY <1>1 DEF Holds
  <2> QED BY <1>0, <1>1, <2>1 DEF ConnInv
<1>3. SockInv'
  <2>1. PICK s \in sock_alloc :
          sock' = [sock EXCEPT ![s] =
                     [@ EXCEPT !.used = TRUE, !.domain = domain, !.type = type,
                               !.tcp = FALSE, !.id = hist.socks + 1,
                               !.rx = Begins(domain, sock[s].rx)]]
    BY DEF sys_linux_socket
  <2>2. s \in Socks /\ sock[s] \in SockSet
    BY <1>0, <2>1 DEF sock_alloc, SockInv
  <2> DEFINE b == Begins(domain, sock[s].rx)
             y == [sock[s] EXCEPT !.used = TRUE, !.domain = domain, !.type = type,
                                  !.tcp = FALSE, !.id = hist.socks + 1, !.rx = b]
  <2>3. b \in [left : Nat, id : Nat, q : Names, a : Items \cup {loopback}] /\ (domain = "inet" => b.left = 0)
    BY <2>2 DEF Begins, NoAnswer, Names, Items, SockSet
  <2>4. sock' = [sock EXCEPT ![s] = y]
    BY <2>1
  <2> HIDE DEF b
  <2>5. y \in SockSet /\ y.domain = domain /\ y.rx = b
    BY <1>1, <2>2, <2>3 DEF SockSet
  <2> HIDE DEF y
  <2>6. y.used /\ y.domain = "inet" /\ y.rx.left > 0 => y.rx.id = y.id
    BY <2>3, <2>5, SMT
  <2> QED BY <1>0, <2>2, <2>4, <2>5, <2>6, SockPut
<1> QED BY <1>0, <1>1, <1>2, <1>3, ConnStep

LEMMA ConnectCallKeeps ==
    ASSUME Sizes, IInv, limit' = limit, NEW s \in Socks, NEW h \in Servers \cup {NoAddr}, NEW dns \in BOOLEAN,
           sys_linux_connect(s, h, dns)
    PROVE  IInv'
<1>0. SockInv /\ NetInv(net, hist.n) /\ QueueInv(rxq, net.peer.port) /\ net.peer.port \in Nat /\ Follows(op, op)
  BY Facts
<1>1. h \in Names
  BY DEF Names
<1>2. CASE /\ sock' = [sock EXCEPT ![s].dst = h, ![s].dns = (h # NoAddr /\ dns)]
           /\ UNCHANGED <<c, op, rxq, net, hist>>
  <2>1. sock \in [Socks -> SockSet] /\ AnswerOwn
    BY <1>0 DEF SockInv
  <2> DEFINE b == h # NoAddr /\ dns
             y == [[sock[s] EXCEPT !.dst = h] EXCEPT !.dns = b]
  <2>2. sock' = [sock EXCEPT ![s] = y]
    BY <1>2, <2>1
  <2>3. sock[s] \in SockSet /\ b \in BOOLEAN
    BY <2>1
  <2> HIDE DEF b
  <2>4. /\ y \in SockSet /\ y.rx = sock[s].rx /\ y.id = sock[s].id
        /\ y.domain = sock[s].domain /\ y.used = sock[s].used
    BY <1>1, <2>3 DEF SockSet
  <2> HIDE DEF y
  <2>5. y.used /\ y.domain = "inet" /\ y.rx.left > 0 => y.rx.id = y.id
    BY <2>1, <2>4 DEF AnswerOwn
  <2>6. SockInv'
    BY <1>0, <2>2, <2>4, <2>5, SockPut
  <2> QED BY <1>0, <1>2, <2>6, QuietStep, SMT
<1>3. CASE UNCHANGED <<c, sock, op, rxq, net, hist>>
  BY <1>0, <1>3, SockSame, QuietStep, SMT
<1>4. CASE tcp_connect(s, h, "connect")
  BY <1>1, <1>4, ConnectKeeps
<1> QED BY <1>2, <1>3, <1>4 DEF sys_linux_connect

LEMMA DatagramKeeps ==
    ASSUME Sizes, IInv, limit' = limit, NEW s \in Socks, NEW h \in Hosts, NEW addr \in BOOLEAN,
           send_datagram(s, h, addr)
    PROVE  IInv'
<1> DEFINE o == Op("arp", s, h, "dgram", 0)
<1>0. SockInv /\ NetInv(net, hist.n) /\ QueueInv(rxq, net.peer.port) /\ net.peer.port \in Nat /\ Follows(op, op)
  BY Facts
<1>1. o \in OpSet /\ ~Connecting(o) /\ o.t = "arp"
  BY DEF Op, OpSet, Connecting, Names
<1>2. UNCHANGED <<c, rxq, hist>>
  BY DEF send_datagram
<1>3. CASE arp_request(o)
  <2> HIDE DEF o
  <2> QED BY <1>1, <1>2, <1>3, RequestKeeps
<1>4. CASE UNCHANGED <<sock, op, net>>
  BY <1>0, <1>2, <1>4, SockSame, QuietStep, SMTT(60)
<1> QED BY <1>3, <1>4 DEF send_datagram

LEMMA PingKeeps ==
    ASSUME Sizes, IInv, limit' = limit, ping
    PROVE  IInv'
<1> DEFINE o == Op("arp", Idle.s, alpine, "ping", 0)
<1>1. o \in OpSet /\ ~Connecting(o) /\ o.t = "arp"
  BY IdleType DEF Op, OpSet, Connecting, Names
<1>2. UNCHANGED <<c, rxq, hist>> /\ arp_request(o)
  BY DEF ping
<1> HIDE DEF o
<1> QED BY <1>1, <1>2, RequestKeeps

LEMMA StreamKeeps ==
    ASSUME Sizes, IInv, limit' = limit, NEW s \in Socks, NEW h \in Servers \cup {NoAddr}, send_stream(s, h)
    PROVE  IInv'
<1>0. /\ SockInv /\ NetInv(net, hist.n) /\ QueueInv(rxq, net.peer.port) /\ net.peer.port \in Nat
      /\ Follows(op, op) /\ sock \in [Socks -> SockSet]
  BY Facts
<1>1. h \in Names /\ sock[s].dst \in Names /\ alpine \in Names
  BY <1>0 DEF Names, SockSet
<1>2. CASE tcp_connect(s, h, "sendto")
  BY <1>1, <1>2, ConnectKeeps
<1>3. CASE tcp_connect(s, sock[s].dst, "sendto")
  BY <1>1, <1>3, ConnectKeeps
<1>4. CASE UNCHANGED <<c, sock, op, rxq, net, hist>>
  BY <1>0, <1>4, SockSame, QuietStep, SMTT(60)
<1>5. CASE op' = Op("send", s, alpine, "sendto", 0) /\ UNCHANGED <<c, sock, rxq, net, hist>>
  <2>1. Follows(op', op)
    BY <1>1, <1>5 DEF Follows, Op, OpSet, Connecting
  <2> QED BY <1>0, <1>5, <2>1, SockSame, QuietStep, SMTT(60)
<1> QED BY <1>2, <1>3, <1>4, <1>5 DEF send_stream

LEMMA ReceiveKeeps ==
    ASSUME Sizes, IInv, limit' = limit, NEW s \in Socks, NEW n \in Lengths, sys_linux_recvfrom(s, n)
    PROVE  IInv'
<1>0. /\ SockInv /\ NetInv(net, hist.n) /\ QueueInv(rxq, net.peer.port) /\ net.peer.port \in Nat
      /\ Follows(op, op) /\ sock \in [Socks -> SockSet] /\ AnswerOwn
  BY Facts DEF SockInv
<1>1. n \in Nat /\ op = Idle /\ UNCHANGED <<rxq, net>>
  BY DEF Sizes, sys_linux_recvfrom, Free
<1>2. CASE UNCHANGED <<c, sock, op, hist>>
  BY <1>0, <1>1, <1>2, SockSame, QuietStep, SMT
<1>3. CASE sock' = [sock EXCEPT ![s].rx.left = @ - Lesser(n, @)] /\ UNCHANGED <<c, op, hist>>
  <2> DEFINE x == sock[s].rx.left - Lesser(n, sock[s].rx.left)
             r == [sock[s].rx EXCEPT !.left = x]
             y == [sock[s] EXCEPT !.rx = r]
  <2>1. sock' = [sock EXCEPT ![s] = y]
    BY <1>0, <1>3
  <2>2. sock[s] \in SockSet
    BY <1>0
  <2>3. sock[s].rx \in [left : Nat, id : Nat, q : Names, a : Items \cup {loopback}]
    BY <2>2 DEF SockSet
  <2>4. x \in Nat /\ (x > 0 => sock[s].rx.left > 0)
    BY <1>1, <2>3, SMT DEF Lesser
  <2> HIDE DEF x
  <2>5. /\ r \in [left : Nat, id : Nat, q : Names, a : Items \cup {loopback}]
        /\ r.left = x /\ r.id = sock[s].rx.id
    BY <2>3, <2>4
  <2> HIDE DEF r
  <2>6. /\ y \in SockSet /\ y.rx = r /\ y.id = sock[s].id
        /\ y.domain = sock[s].domain /\ y.used = sock[s].used
    BY <2>2, <2>5 DEF SockSet
  <2> HIDE DEF y
  <2>7. y.used /\ y.domain = "inet" /\ y.rx.left > 0 => y.rx.id = y.id
    BY <1>0, <2>4, <2>5, <2>6 DEF AnswerOwn
  <2>8. SockInv'
    BY <1>0, <2>1, <2>6, <2>7, SockPut
  <2> QED BY <1>0, <1>1, <1>3, <2>8, QuietStep, SMT
<1>4. CASE tcp_recv(s, n) /\ sock' = sock
  BY <1>1, <1>4, TcpRecvKeeps
<1> QED BY <1>2, <1>3, <1>4 DEF sys_linux_recvfrom

LEMMA EndKeeps ==
    ASSUME Sizes, IInv, limit' = limit, NEW s \in Socks, sys_linux_shutdown(s) \/ fd_close_entry(s)
    PROVE  IInv'
<1>0. /\ SockInv /\ NetInv(net, hist.n) /\ QueueInv(rxq, net.peer.port) /\ net.peer.port \in Nat
      /\ Follows(op, op) /\ sock \in [Socks -> SockSet] /\ AnswerOwn /\ c \in ConnSet /\ hist \in HistSet
      /\ ConnInv(c, hist, op, net.peer.port) /\ op \in OpSet
  BY Facts DEF SockInv
<1>1. c.port = hist.n /\ op = Idle /\ UNCHANGED <<c, rxq>>
  BY <1>0 DEF ConnInv, Called, Free, sys_linux_shutdown, fd_close_entry
<1>2. op.t = "idle"
  BY <1>1, IdleType
<1>3. SockInv'
  <2> DEFINE z == IF sys_linux_shutdown(s) THEN sock[s] ELSE [sock[s] EXCEPT !.used = FALSE]
             y == [z EXCEPT !.tcp = FALSE]
  <2>1. sock' = [sock EXCEPT ![s] = y]
    BY <1>0 DEF sys_linux_shutdown, fd_close_entry
  <2>2. /\ z \in SockSet /\ z.rx = sock[s].rx /\ z.id = sock[s].id /\ z.domain = sock[s].domain
        /\ z.used => sock[s].used
    BY <1>0 DEF SockSet
  <2> HIDE DEF z
  <2>3. y \in SockSet /\ y.rx = z.rx /\ y.id = z.id /\ y.domain = z.domain /\ y.used = z.used
    BY <2>2 DEF SockSet
  <2> HIDE DEF y
  <2>4. y.used /\ y.domain = "inet" /\ y.rx.left > 0 => y.rx.id = y.id
    BY <1>0, <2>2, <2>3 DEF AnswerOwn
  <2> QED BY <1>0, <2>1, <2>3, <2>4, SockPut
<1>4. /\ NetInv(net', hist.n) /\ net'.peer.port = net.peer.port
  <2>1. CASE net' = net
    BY <1>0, <2>1
  <2>2. CASE \E r \in tcp_send_segment(c, {"FIN", "ACK"}) : net' = r.net
    BY <1>0, <1>1, <2>2, AckKeeps
  <2> QED BY <2>1, <2>2 DEF sys_linux_shutdown, fd_close_entry
<1>5. CASE hist' = hist /\ op' = op
  BY <1>0, <1>1, <1>3, <1>4, <1>5, QuietStep, SMTT(60)
<1>6. CASE hist' = [hist EXCEPT !.heard = "closed"]
  <2>1. hist' \in HistSet /\ hist'.n = hist.n /\ hist'.heard = "closed"
    BY <1>0, <1>6 DEF HistSet
  <2>2. op' \in OpSet /\ ~Connecting(op') /\ op'.t \notin {"syn", "recv"}
    <3>1. CASE op' = op
      BY <1>0, <1>2, <3>1 DEF Connecting
    <3>2. CASE op' = Op("close", s, alpine, "close", 0)
      BY <3>2 DEF Op, OpSet, Connecting, Names
    <3> QED BY <3>1, <3>2 DEF sys_linux_shutdown, fd_close_entry
  <2>3. ConnInv(c', hist', op', net.peer.port)
    BY <1>1, <2>1, <2>2, ConnOver
  <2> QED BY <1>0, <1>1, <1>3, <1>4, <2>1, <2>2, <2>3, ConnStep
<1> QED BY <1>5, <1>6 DEF sys_linux_shutdown, fd_close_entry

-----------------------------------------------------------------------------
(* The network and the peer. *)
LEMMA ArriveKeeps ==
    ASSUME Sizes, IInv, limit' = limit, NEW f \in net.wire, Arrive(f) \/ Lose(f)
    PROVE  IInv'
<1>0. /\ SockInv' /\ c' = c /\ hist' = hist /\ op' = op /\ Follows(op, op) /\ net \in NetSet
      /\ NetInv(net, hist.n) /\ QueueInv(rxq, net.peer.port) /\ net.peer.port \in Nat
  BY Facts, SockSame DEF Arrive, Lose
<1>1. f \in FrameSet /\ Legit(f, net.peer.port)
  BY <1>0 DEF NetInv, NetSet
<1>2. net' \in NetSet /\ net'.peer = net.peer /\ net'.wire \subseteq net.wire
  <2>1. CASE net' = [net EXCEPT !.wire = @ \ {f}]
    BY <1>0, <2>1 DEF NetSet
  <2>2. CASE net' = [net EXCEPT !.wire = @ \ {f}, !.faults = @ + 1]
    <3> DEFINE w == net.wire \ {f}
               k == net.faults + 1
    <3>1. w \in SUBSET FrameSet /\ w \subseteq net.wire /\ k \in Nat
      BY <1>0, SMT DEF NetSet
    <3>2. net' = [net EXCEPT !.wire = w, !.faults = k]
      BY <2>2
    <3> HIDE DEF w, k
    <3> QED BY <1>0, <3>1, <3>2 DEF NetSet
  <2> QED BY <2>1, <2>2 DEF Arrive, Lose
<1>3. NetInv(net', hist.n)
  BY <1>0, <1>2 DEF NetInv
<1>4. QueueInv(rxq', net.peer.port)
  <2>1. CASE rxq' = rxq
    BY <1>0, <2>1
  <2>2. CASE rxq' = Append(rxq, f)
    <3>1. rxq \in Seq(FrameSet) /\ \A x \in 1..Len(rxq) : Legit(rxq[x], net.peer.port)
      BY <1>0 DEF QueueInv
    <3>2. /\ Append(rxq, f) \in Seq(FrameSet) /\ Len(Append(rxq, f)) = Len(rxq) + 1 /\ Len(rxq) \in Nat
          /\ \A x \in 1..Len(rxq) : Append(rxq, f)[x] = rxq[x]
          /\ Append(rxq, f)[Len(rxq) + 1] = f
      BY <1>1, <3>1, AppendProperties, SMT
    <3>3. ASSUME NEW x \in 1..(Len(rxq) + 1)
          PROVE  Legit(Append(rxq, f)[x], net.peer.port)
      <4>1. x \in 1..Len(rxq) \/ x = Len(rxq) + 1
        BY <3>2, SMT
      <4> QED BY <1>1, <3>1, <3>2, <4>1
    <3> QED BY <2>2, <3>2, <3>3 DEF QueueInv
  <2> QED BY <2>1, <2>2 DEF Arrive, Lose
<1> QED BY <1>0, <1>2, <1>3, <1>4, QuietStep, SMT

(* The peer puts one more legitimate frame on the wire. *)
LEMMA PutsKeeps ==
    ASSUME Sizes, IInv, limit' = limit, NEW f \in FrameSet, Legit(f, net.peer.port),
           NEW p \in [port : Nat, st : {"none", "syn", "est", "reset"}, una : Nat, nxt : Nat],
           p.port = net.peer.port, NEW k \in Nat,
           net' = [peer |-> p, wire |-> net.wire \cup {f}, faults |-> k],
           UNCHANGED <<c, sock, op, rxq, hist>>
    PROVE  IInv'
<1>0. /\ SockInv' /\ Follows(op, op) /\ net \in NetSet
      /\ NetInv(net, hist.n) /\ QueueInv(rxq, net.peer.port) /\ net.peer.port \in Nat
  BY Facts, SockSame
<1>1. net' \in NetSet /\ net'.peer.port = net.peer.port /\ net'.wire = net.wire \cup {f}
  BY <1>0 DEF NetSet
<1>2. NetInv(net', hist.n)
  BY <1>0, <1>1 DEF NetInv
<1> QED BY <1>0, <1>1, <1>2, QuietStep, SMTT(60)

LEMMA PeerKeeps ==
    ASSUME Sizes, IInv, limit' = limit, PeerSynAck \/ PeerSend \/ Retransmit \/ PeerReset
    PROVE  IInv'
<1> DEFINE PeerSet == [port : Nat, st : {"none", "syn", "est", "reset"}, una : Nat, nxt : Nat]
<1>0. net \in NetSet /\ hist.n \in Nat /\ ConnInv(c, hist, op, net.peer.port)
  BY Facts
<1>1. net.peer \in PeerSet /\ net.faults \in Nat /\ net.peer.port \in Nat
  BY <1>0 DEF NetSet
<1>2. ASSUME NEW f, NEW p, Puts(f, p)
      PROVE  /\ net' = [peer |-> p, wire |-> net.wire \cup {f}, faults |-> net.faults]
             /\ UNCHANGED <<c, sock, op, rxq, hist>>
  BY <1>0, <1>2 DEF Puts, NetSet
<1>3. CASE PeerSynAck
  <2> DEFINE f == Frame("tcp", net.peer.port, {"SYN", "ACK"}, ISS, <<>>)
  <2>1. f \in FrameSet
    <3>1. ISS \in Nat /\ <<>> \in Seq(Items)
      BY SMT DEF Sizes
    <3> QED BY <1>1, <3>1 DEF Frame, FrameSet
  <2>2. Legit(f, net.peer.port)
    BY <1>1, SMTT(60) DEF Legit, IsSynAck, Frame
  <2>3. Puts(f, net.peer)
    BY <1>3 DEF PeerSynAck
  <2> HIDE DEF f
  <2> QED BY <1>1, <1>2, <2>1, <2>2, <2>3, PutsKeeps
<1>4. CASE PeerReset
  <2> DEFINE f == Frame("tcp", net.peer.port, {"RST"}, 0, <<>>)
             p == [net.peer EXCEPT !.st = "reset"]
  <2>1. f \in FrameSet
    <3>1. <<>> \in Seq(Items)
      BY SMT
    <3> QED BY <1>1, <3>1 DEF Frame, FrameSet
  <2>2. Legit(f, net.peer.port)
    BY <1>1, SMT DEF Legit, IsReset, Frame
  <2>3. p \in PeerSet /\ p.port = net.peer.port /\ net.faults + 1 \in Nat
    BY <1>1, SMT
  <2>4. net' = [peer |-> p, wire |-> net.wire \cup {f}, faults |-> net.faults + 1]
    BY <1>0, <1>4 DEF PeerReset, NetSet
  <2>5. UNCHANGED <<c, sock, op, rxq, hist>>
    BY <1>4 DEF PeerReset
  <2> HIDE DEF f, p
  <2> QED BY <2>1, <2>2, <2>3, <2>4, <2>5, PutsKeeps
<1>5. ASSUME NEW i \in Nat, NEW j \in 0..STREAM, NEW fin \in BOOLEAN, PeerSegment(i, j, fin)
      PROVE  IInv'
  <2> DEFINE fl == {"ACK"} \cup (IF fin THEN {"FIN"} ELSE {})
             d == Sent(hist.n, i, j)
             f == Frame("tcp", net.peer.port, fl, SeqAt(i), d)
             x == Greater(net.peer.nxt, IF fin THEN STREAM + 1 ELSE j)
             p == [net.peer EXCEPT !.nxt = x]
  <2>0. STREAM \in Nat /\ j \in Nat /\ j <= STREAM
    BY SMT DEF Sizes
  <2>1. /\ hist.heard = "open" /\ i <= STREAM /\ j \in i..Lesser(STREAM, i + MSS)
        /\ IF fin THEN j = STREAM ELSE i < j
        /\ Puts(f, p)
    BY <1>5 DEF PeerSegment
  <2>2. net.peer.port = hist.n
    BY <1>0, <2>1 DEF ConnInv
  <2>3. i <= j
    BY <2>0, <2>1, SMT
  <2>4. x \in Nat
    BY <1>1, <2>0, SMT DEF Greater
  <2>5. d \in Seq(Items)
    BY <1>0, <2>0, <2>3, SentItems
  <2>6. SeqAt(i) \in Nat
    <3>1. i \in 0..(STREAM + 1)
      BY <2>0, <2>1, SMT
    <3>2. SeqAt(i) \in 0..(SEQ - 1) /\ SEQ \in Nat
      BY <3>1, SeqAtIs DEF Sizes
    <3> QED BY <3>2, SMT
  <2> HIDE DEF x
  <2>7. p \in PeerSet /\ p.port = net.peer.port
    BY <1>1, <2>4
  <2>8. f \in FrameSet
    <3> HIDE DEF d
    <3>1. fl \in SUBSET {"SYN", "ACK", "RST", "FIN"}
      OBVIOUS
    <3> HIDE DEF fl
    <3> QED BY <1>1, <2>5, <2>6, <3>1 DEF Frame, FrameSet
  <2>9. Legit(f, net.peer.port)
    <3>1. f.port = hist.n /\ f.seq = SeqAt(i) /\ f.data = Sent(f.port, i, j) /\ f.flags = fl
      BY <2>2 DEF Frame
    <3>2. \/ f.flags = {"ACK"} /\ i < j
          \/ f.flags = {"ACK", "FIN"} /\ j = STREAM
      <4>1. CASE fin
        <5>1. fl = {"ACK", "FIN"} /\ j = STREAM
          BY <2>1, <4>1
        <5> QED BY <3>1, <5>1
      <4>2. CASE ~fin
        <5>1. fl = {"ACK"} /\ i < j
          BY <2>1, <4>2
        <5> QED BY <3>1, <5>1
      <4> QED BY <4>1, <4>2
    <3>3. IsPiece(f, i, j)
      BY <2>0, <2>3, <3>1, <3>2 DEF IsPiece
    <3>4. f.port <= net.peer.port
      BY <1>1, <2>2, <3>1, SMTT(60)
    <3> QED BY <2>0, <3>3, <3>4 DEF Legit
  <2> HIDE DEF f, p
  <2> QED BY <1>1, <1>2, <2>1, <2>7, <2>8, <2>9, PutsKeeps, SMTT(60)
<1>6. CASE PeerSend \/ Retransmit
  <2>1. net.peer.nxt \in Nat /\ net.peer.una \in Nat
    BY <1>1
  <2> QED BY <1>5, <1>6, <2>1 DEF PeerSend, Retransmit
<1> QED BY <1>3, <1>4, <1>6

-----------------------------------------------------------------------------
LEMMA InitKeeps == Sizes /\ Init => IInv
<1> SUFFICES ASSUME Sizes, Init PROVE IInv
  OBVIOUS
<1>1. /\ c = [used |-> FALSE, port |-> 0, rcv_nxt |-> 0, peer_fin |-> FALSE, rx |-> <<>>]
      /\ sock = [s \in Socks |-> Unused] /\ op = Idle /\ rxq = <<>>
      /\ net = [peer |-> [port |-> 0, st |-> "none", una |-> 0, nxt |-> 0], wire |-> {}, faults |-> 0]
      /\ hist = [n |-> 0, got |-> <<>>, heard |-> "nothing", socks |-> 0]
      /\ limit \in Limits
  BY DEF Init
<1>2. <<>> \in Seq(Items) /\ <<>> \in Seq(FrameSet)
  BY SMT
<1>3. TypeInv
  <2>1. c \in ConnSet /\ hist \in HistSet /\ hist.n = 0
    BY <1>1, <1>2 DEF ConnSet, HistSet
  <2>2. op \in OpSet
    BY <1>1, IdleType
  <2>3. limit.conns \in Nat
    BY <1>1 DEF Sizes
  <2> QED BY <1>1, <2>1, <2>2, <2>3, SMT DEF TypeInv
<1>4. SockInv
  <2>1. Unused \in SockSet /\ Unused.rx.left = 0
    BY DEF Unused, NoAnswer, SockSet, Names, Items
  <2> QED BY <1>1, <2>1, SMT DEF SockInv, AnswerOwn
<1>5. NetInv(net, hist.n)
  BY <1>1, SMTT(60) DEF NetInv, NetSet
<1>6. QueueInv(rxq, net.peer.port)
  BY <1>1, <1>2, SMTT(60) DEF QueueInv
<1>7. ConnInv(c, hist, op, net.peer.port)
  BY <1>1, IdleType, ConnOver DEF Connecting
<1> QED BY <1>3, <1>4, <1>5, <1>6, <1>7 DEF IInv

LEMMA NextKeeps == Sizes /\ IInv /\ [Next]_vars => IInv'
<1> SUFFICES ASSUME Sizes, IInv, [Next]_vars PROVE IInv'
  OBVIOUS
<1>1. CASE UNCHANGED vars
  <2>1. /\ SockInv /\ Follows(op, op) /\ NetInv(net, hist.n) /\ QueueInv(rxq, net.peer.port)
        /\ net.peer.port \in Nat
    BY Facts
  <2> QED BY <1>1, <2>1, SockSame, QuietStep, SMTT(60) DEF vars
<1>2. CASE Next
  <2>0. limit' = limit
    BY <1>2 DEF Next
  <2>1. CASE Step
    BY <2>0, <2>1, GatewayKeeps, SynAckKeeps, SendKeepsInv, RecvKeeps, ClosePollKeeps, DnsKeeps, EchoKeeps DEF Step
  <2>2. CASE Socket
    <3>1. limit.types \subseteq {"stream", "dgram"}
      BY DEF IInv, TypeInv, Sizes
    <3> QED BY <2>0, <2>2, <3>1, SocketKeeps DEF Socket
  <2>3. CASE Connect
    BY <2>0, <2>3, ConnectCallKeeps DEF Connect
  <2>4. CASE Datagram
    BY <2>0, <2>4, DatagramKeeps DEF Datagram
  <2>5. CASE Stream
    BY <2>0, <2>5, StreamKeeps DEF Stream
  <2>6. CASE Receive
    BY <2>0, <2>6, ReceiveKeeps DEF Receive
  <2>7. CASE Shutdown \/ Close
    BY <2>0, <2>7, EndKeeps DEF Shutdown, Close
  <2>8. CASE ping
    BY <2>0, <2>8, PingKeeps
  <2>9. CASE Network
    BY <2>0, <2>9, PeerKeeps, ArriveKeeps DEF Network
  <2> QED BY <1>2, <2>1, <2>2, <2>3, <2>4, <2>5, <2>6, <2>7, <2>8, <2>9 DEF Next
<1> QED BY <1>1, <1>2

LEMMA InvImplies == Sizes /\ IInv => ReceivedOwn
<1> SUFFICES ASSUME Sizes, IInv PROVE ReceivedOwn
  OBVIOUS
<1>0. ConnInv(c, hist, op, net.peer.port) /\ hist \in HistSet /\ hist.n \in Nat /\ SockInv
  BY Facts
<1>1. StreamKept
  <2> SUFFICES ASSUME Reading
               PROVE  LET held == hist.got \o c.rx
                      IN  /\ held = Sent(hist.n, 0, Len(held))
                          /\ \/ c.rcv_nxt = SeqAt(Len(held))
                             \/ Len(held) = STREAM /\ c.peer_fin /\ c.rcv_nxt = SeqAt(STREAM + 1)
    BY DEF StreamKept
  <2>1. PICK l \in Nat : Holds(c, hist, l)
    BY <1>0 DEF ConnInv, Reading
  <2> DEFINE held == hist.got \o c.rx
  <2>2. held = Sent(hist.n, 0, l)
    BY <2>1 DEF Holds
  <2>3. Len(held) = l
    BY <1>0, <2>2, SentFirst
  <2> QED BY <2>1, <2>2, <2>3 DEF Holds
<1>2. EofAfterAll
  BY <1>0 DEF ConnInv, EofAfterAll
<1>3. AnswerOwn
  BY <1>0 DEF SockInv
<1> QED BY <1>1, <1>2, <1>3 DEF ReceivedOwn

(* tcp.c:46-48, 257-259, 277-280, linux_syscall.c:2743: for all sizes, whatever the
   network loses, reorders and repeats and however short the reads, a program
   receives a prefix of its own connection's stream, rcv_nxt acknowledges exactly
   what was received, the end is reported after the last byte, and the answer a
   datagram socket holds was asked for through that socket. *)
THEOREM Reception == ASSUME Sizes PROVE Spec => []ReceivedOwn
<1>1. Init => IInv
  BY InitKeeps
<1>2. IInv /\ [Next]_vars => IInv'
  BY NextKeeps
<1>3. IInv => ReceivedOwn
  BY InvImplies
<1> QED BY <1>1, <1>2, <1>3, PTL DEF Spec
=============================================================================
