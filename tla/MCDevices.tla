----------------------------- MODULE MCDevices -------------------------------
(* What is behind a device that fails, as three parts that do not interact: the
   network stack ("stack"), the rings of the network card ("card"), and a FAT32
   volume whose disk may refuse a write ("fat32").

   On the stack one program connects a stream socket twice and pings, and one uses
   datagram sockets; the peer's sequence numbers wrap inside its stream.  The volume
   has four clusters (2 to 5), two short names, two long ones with the same
   truncation, and a directory. *)
EXTENDS E1000

VARIABLES
    part,
    c, sock, op, rxq, net, hist, calls, limit,      \* of "stack"
    vol, saved, leaky, outside, used                \* of "fat32"

stack == <<c, sock, op, rxq, net, hist, calls, limit>>
fat == <<vol, saved, leaky, outside, used>>

MCLimits ==
    {[types |-> {"stream"}, pings |-> TRUE, conns |-> 2, calls |-> 3, faults |-> 1],
     [types |-> {"dgram"}, pings |-> FALSE, conns |-> 0, calls |-> 4, faults |-> 1]}

S == INSTANCE Net WITH
        Socks <- {0}, Hosts <- {"alpine", "other", "bad"}, Servers <- {"alpine"}, Bad <- {"bad"}, Unknown <- {"other"},
        alpine <- "alpine", SEQ <- 8, ISS <- 6, MSS <- 2, STREAM <- 2, PORTS <- 4, RXCAP <- 2, PROBES <- 1,
        Lengths <- {1}, Limits <- MCLimits, MAXWIRE <- 1

ASSUME NetSizes == S!Sizes

MCLong == {"long1", "long2"}
MCSegs == [n \in MCLong |-> 1]
MCFilePaths == {<<"a">>, <<"long1">>, <<"long2">>, <<"d", "a">>}
MCData == {<<>>, <<1>>, <<1, 2, 3>>}

F == INSTANCE Fat32 WITH
        LAST <- 5, BPC <- 2, EPC <- 3, NUM_FATS <- 2, TAILS <- 2, Short <- {"a", "d"}, Long <- MCLong, Segs <- MCSegs,
        Dotted <- {}, FilePaths <- MCFilePaths, DirPaths <- {<<"d">>}, Data <- MCData, Faults <- 0..4, MAXCALLS <- 4,
        store <- saved, calls <- used

MCInit ==
    /\ part \in {"stack", "card", "fat32"}
    /\ S!Init /\ (part # "stack" => limit.conns = 0)
    /\ Init /\ F!Init

MCNext ==
    /\ \/ part = "stack" /\ S!Next /\ UNCHANGED <<vars, fat>>
       \/ part = "card" /\ Next /\ UNCHANGED <<stack, fat>>
       \/ part = "fat32" /\ F!Next /\ UNCHANGED <<vars, stack>>
    /\ part' = part

(* What Net!Fairness asks for is never enabled outside "stack". *)
MCSpec ==
    /\ MCInit
    /\ [][MCNext]_<<vars, stack, fat, part>>
    /\ S!Fairness

(* The state is well-formed (TypeOK of Net and of Fat32). *)
TypesOK == IF part = "fat32" THEN F!TypeOK ELSE S!TypeOK

(* Net!ReceivedOwn: what a program receives is what was sent to it, in order and up
   to its end, through a stream as through datagrams. *)
ReceivedOwn == S!ReceivedOwn

(* Net!Completes: a program that keeps reading an established connection comes to its
   end, although frames and acknowledgements are lost. *)
Completes == S!Completes

(* Fat32!DirsSound: directories stay readable, also after a failed disk write; no
   entry lies past the 0x00 at which dir_each stops, and long names are whole.
   Fat32!ClustersOwned: no cluster belongs to two files, none in use is marked free,
   and none is lost unless a write ran out of space. *)
FatSound == part = "fat32" => F!DirsSound /\ F!ClustersOwned

(* Fat32!ReadBack: programs find what the calls reported, before and after a reboot;
   a call that fails spoils no path but its own. *)
ReadBack == part = "fat32" => F!ReadBack
=============================================================================
