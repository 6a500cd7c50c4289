------------------------------ MODULE TcpStream ------------------------------
(***************************************************************************)
(* One connection after its handshake: two TcpSockets, the entries the two *)
(* TcpManagers keep for them in establishedByKey_, the applications that   *)
(* use them, and the packets between them.                                 *)
(*                                                                         *)
(* The server's child socket is ESTABLISHED from the SYN on, but the       *)
(* application only uses it once TransferServer's tick has accepted it:    *)
(* data and the FIN may come first.                                        *)
(*                                                                         *)
(* UDP may bring the client's SYN to the server a second time, and onSyn   *)
(* treats it like the first: it makes another child and puts that into the *)
(* table in place of the one the server had.  The client goes on with the  *)
(* new child; the replaced one hears nothing any more, and its application,*)
(* a TransferWorker, only reads.                                           *)
(*                                                                         *)
(* Every byte an application writes carries its position in the stream, so *)
(* that byte n is the byte with sequence number n.                         *)
(*                                                                         *)
(* Reorder says which network carries the packets: FALSE for the           *)
(* simulator, whose edges deliver in the order of sending and may lose,    *)
(* TRUE for the emulator, whose UDP datagrams may also be duplicated and   *)
(* overtake each other.                                                    *)
(***************************************************************************)
EXTENDS TcpSocket, SequencesExt

CONSTANTS
    Client, Server,   \* the two ends of the connection
    Amount,           \* Amount[e]: how many bytes the application of e sends
    Closers,          \* the ends whose application closes when it has sent all
    Readers,          \* the ends whose application reads
    MaxRead,          \* the largest buffer an application reads into
    Reorder,          \* the network reorders and duplicates
    LinkBuf,          \* packets on the way to one end; a link drops the rest
    MaxLoss,          \* how many packets the network may lose besides
    MaxSyn            \* how many repeated SYNs the server takes

Ends == {Client, Server}
Peer(e) == IF e = Client THEN Server ELSE Client

ASSUME StreamConstants ==
    /\ Client # Server
    /\ Amount \in [Ends -> Nat]
    /\ Closers \subseteq Ends
    /\ Readers \subseteq Ends
    /\ MaxRead \in Nat \ {0}
    /\ Reorder \in BOOLEAN
    /\ LinkBuf \in Nat \ {0}
    /\ MaxLoss \in Nat
    /\ MaxSyn \in Nat

VARIABLES
    sock,          \* sock[e]: the TcpSocket of end e, the server's last child
    replaced,      \* the server's earlier children, each [sock, accepted, taken]
    established,   \* established[e]: establishedByKey_ of e has the connection
    accepted,      \* accepted[e]: the application of e holds the socket
    net,           \* net[e]: the packets on their way to e, oldest first
    pos,           \* pos[e]: bytes write() accepted, TransferClient::pos_
    got,           \* got[e]: bytes read() returned, TransferWorker's data
    losses         \* packets lost so far

vars == <<sock, replaced, established, accepted, net, pos, got, losses>>

-----------------------------------------------------------------------------
(* The state right after the handshake. *)

\* The SYN and its answer, which UDP may deliver a second time.
syn == [type |-> "SYN", seq |-> 0, window |-> 0, data |-> <<>>]
synAck == [type |-> "ACK", seq |-> 1, window |-> RECV_BUF_CAP, data |-> <<>>]
handshake(e) == IF e = Client THEN synAck ELSE syn

Init ==
    /\ sock = [e \in Ends |-> initAccepted(NewSocket)]
    /\ established = [e \in Ends |-> TRUE]
    /\ accepted = [e \in Ends |-> e = Client]
    /\ replaced = <<>>
    /\ \E late \in SUBSET Ends :
        /\ late # {} => Reorder
        /\ net = [e \in Ends |-> IF e \in late THEN <<handshake(e)>> ELSE <<>>]
    /\ pos = [e \in Ends |-> 0]
    /\ got = [e \in Ends |-> <<>>]
    /\ losses = 0

-----------------------------------------------------------------------------
(* The network. *)

\* A full link drops what does not fit.
enqueue(queue, pkts) ==
    LET all == queue \o pkts IN SubSeq(all, 1, min(Len(all), LinkBuf))

\* e sends pkts to its peer.
Send(e, pkts) == net' = [net EXCEPT ![Peer(e)] = enqueue(@, pkts)]

\* The packet at index i of net[e] may be the next to arrive.
Arriving(e, i, type) ==
    /\ i \in 1 .. Len(net[e])
    /\ i = 1 \/ Reorder
    /\ net[e][i].type = type

\* e consumes packet i and sends pkts.
Reply(e, i, pkts) ==
    net' = [net EXCEPT ![e] = RemoveAt(@, i), ![Peer(e)] = enqueue(@, pkts)]

Lose(e, i) ==
    /\ losses < MaxLoss
    /\ i \in 1 .. Len(net[e])
    /\ losses' = losses + 1
    /\ net' = [net EXCEPT ![e] = RemoveAt(@, i)]
    /\ UNCHANGED <<sock, replaced, established, accepted, pos, got>>

Duplicate(e, i) ==
    /\ Reorder
    /\ i \in 1 .. Len(net[e])
    /\ Len(net[e]) < LinkBuf
    /\ net' = [net EXCEPT ![e] = Append(@, net[e][i])]
    /\ UNCHANGED <<sock, replaced, established, accepted, pos, got, losses>>

-----------------------------------------------------------------------------
(* The applications' calls. *)

\* accept() puts a child that is still open back to ESTABLISHED.
AppAccept(e) ==
    /\ ~accepted[e]
    /\ accepted' = [accepted EXCEPT ![e] = TRUE]
    /\ sock' = [sock EXCEPT ![e].state =
                    IF @ = "CLOSED" THEN "CLOSED" ELSE "ESTABLISHED"]
    /\ UNCHANGED <<replaced, established, net, pos, got, losses>>

\* The bytes the application of e writes next.
nextBytes(e, len) == [k \in 1 .. len |-> pos[e] + k]

AppWrite(e, len) ==
    /\ accepted[e]
    /\ sock[e].state = "ESTABLISHED"
    /\ len \in 1 .. Amount[e] - pos[e]
    /\ writable(sock[e], len) > 0
    /\ sock' = [sock EXCEPT ![e] = write(@, nextBytes(e, len))]
    /\ pos' = [pos EXCEPT ![e] = @ + writable(sock[e], len)]
    /\ Send(e, dataPkts(written(sock[e], nextBytes(e, len))))
    /\ UNCHANGED <<replaced, established, accepted, got, losses>>

AppClose(e) ==
    /\ accepted[e]
    /\ e \in Closers
    /\ sock[e].state = "ESTABLISHED"
    /\ pos[e] = Amount[e]
    /\ LET s == [sock[e] EXCEPT !.state = "SHUTDOWN"]
       IN  /\ sock' = [sock EXCEPT ![e] = maybeSendFinOnDrain(s)]
           /\ Send(e, finPkts(s))
    /\ UNCHANGED <<replaced, established, accepted, pos, got, losses>>

\* A read that finds nothing and no end of stream changes nothing.
AppRead(e, len) ==
    /\ accepted[e]
    /\ e \in Readers
    /\ isOpen(sock[e])
    /\ len \in 1 .. MaxRead
    /\ sock[e].recvBuf # <<>> \/ sock[e].peerFinReceived
    /\ sock' = [sock EXCEPT ![e] = read(@, len)]
    /\ got' = [got EXCEPT ![e] = @ \o
                SubSeq(sock[e].recvBuf, 1, min(len, Len(sock[e].recvBuf)))]
    /\ UNCHANGED <<replaced, established, accepted, net, pos, losses>>

\* A child that has been replaced is still in the listener's queue.
AcceptReplaced(k) ==
    /\ ~replaced[k].accepted
    /\ replaced' = [replaced EXCEPT ![k].accepted = TRUE,
            ![k].sock.state = IF @ = "CLOSED" THEN "CLOSED" ELSE "ESTABLISHED"]
    /\ UNCHANGED <<sock, established, accepted, net, pos, got, losses>>

ReadReplaced(k, len) ==
    LET s == replaced[k].sock
    IN  /\ replaced[k].accepted
        /\ Server \in Readers
        /\ isOpen(s)
        /\ s.recvBuf # <<>> \/ s.peerFinReceived
        /\ replaced' = [replaced EXCEPT ![k].sock = read(s, len),
                ![k].taken = @ \o SubSeq(s.recvBuf, 1, min(len, Len(s.recvBuf)))]
        /\ UNCHANGED <<sock, established, accepted, net, pos, got, losses>>

-----------------------------------------------------------------------------
\* TcpManager::onSyn.  Nothing tells a repeated SYN from a new one: a new child
\* takes the place of the one in the table, and a new worker will accept it.
onSyn(e, i) ==
    /\ Arriving(e, i, "SYN")
    /\ Len(replaced) < MaxSyn
    /\ replaced' = Append(replaced, [sock |-> sock[e], accepted |-> accepted[e],
                                     taken |-> got[e]])
    /\ sock' = [sock EXCEPT ![e] = initAccepted(NewSocket)]
    /\ established' = [established EXCEPT ![e] = TRUE]
    /\ accepted' = [accepted EXCEPT ![e] = FALSE]
    /\ pos' = [pos EXCEPT ![e] = 0]
    /\ got' = [got EXCEPT ![e] = <<>>]
    /\ Reply(e, i, <<synAck>>)
    /\ UNCHANGED losses

-----------------------------------------------------------------------------
(* TcpManager::onAck, one action per way through it. *)

\* Our FIN is acknowledged: the socket closes and leaves the table.
onAckOfFin(e, i) ==
    /\ Arriving(e, i, "ACK")
    /\ established[e]
    /\ acksFin(sock[e], net[e][i].seq)
    /\ sock' = [sock EXCEPT ![e] = markClosed(@)]
    /\ established' = [established EXCEPT ![e] = FALSE]
    /\ Reply(e, i, <<>>)
    /\ UNCHANGED <<replaced, accepted, pos, got, losses>>

onAckOfNew(e, i) ==
    /\ Arriving(e, i, "ACK")
    /\ established[e]
    /\ ~acksFin(sock[e], net[e][i].seq)
    /\ acksNew(sock[e], net[e][i].seq)
    /\ LET s == acked(sock[e], net[e][i].seq, net[e][i].window)
       IN  /\ sock' = [sock EXCEPT ![e] = maybeSendFinOnDrain(s)]
           /\ Reply(e, i, finPkts(s))
    /\ UNCHANGED <<replaced, established, accepted, pos, got, losses>>

\* An acknowledgement of nothing new still sets the peer's window.
onAckOfOld(e, i) ==
    /\ Arriving(e, i, "ACK")
    /\ established[e]
    /\ isOpen(sock[e])
    /\ ~acksFin(sock[e], net[e][i].seq)
    /\ net[e][i].seq <= sock[e].sndUna
    /\ sock' = [sock EXCEPT ![e] = setRwnd(@, net[e][i].window)]
    /\ Reply(e, i, <<>>)
    /\ UNCHANGED <<replaced, established, accepted, pos, got, losses>>

onAckIgnored(e, i) ==
    /\ Arriving(e, i, "ACK")
    /\ \/ ~established[e]
       \/ ~isOpen(sock[e])
       \/ ~acksFin(sock[e], net[e][i].seq) /\ net[e][i].seq > sock[e].sndNxt
    /\ Reply(e, i, <<>>)
    /\ UNCHANGED <<sock, replaced, established, accepted, pos, got, losses>>

onAck(e, i) ==
    \/ onAckOfFin(e, i)
    \/ onAckOfNew(e, i)
    \/ onAckOfOld(e, i)
    \/ onAckIgnored(e, i)

-----------------------------------------------------------------------------
(* TcpManager::onData and onFin. *)

onDataAccepted(e, i) ==
    /\ Arriving(e, i, "DATA")
    /\ established[e]
    /\ isOpen(sock[e])
    /\ acceptable(sock[e], net[e][i])
    /\ LET s == appendToRecvBuf(sock[e], net[e][i].data)
       IN  /\ sock' = [sock EXCEPT ![e] = s]
           /\ Reply(e, i, <<ackPkt(s, s.rcvNxt)>>)
    /\ UNCHANGED <<replaced, established, accepted, pos, got, losses>>

\* A faulty variant: what is refused is acknowledged.
onDataRejected_Acknowledged(e, i) ==
    /\ Arriving(e, i, "DATA")
    /\ established[e]
    /\ isOpen(sock[e])
    /\ ~acceptable(sock[e], net[e][i])
    /\ Reply(e, i, <<ackPkt(sock[e], net[e][i].seq + Len(net[e][i].data))>>)
    /\ UNCHANGED <<sock, replaced, established, accepted, pos, got, losses>>

onDataRejected(e, i) ==
    /\ Arriving(e, i, "DATA")
    /\ established[e]
    /\ isOpen(sock[e])
    /\ ~acceptable(sock[e], net[e][i])
    /\ Reply(e, i, <<ackPkt(sock[e], sock[e].rcvNxt)>>)
    /\ UNCHANGED <<sock, replaced, established, accepted, pos, got, losses>>

onDataDropped(e, i) ==
    /\ Arriving(e, i, "DATA")
    /\ ~(established[e] /\ isOpen(sock[e]))
    /\ Reply(e, i, <<>>)
    /\ UNCHANGED <<sock, replaced, established, accepted, pos, got, losses>>

onData(e, i) ==
    onDataAccepted(e, i) \/ onDataRejected(e, i) \/ onDataDropped(e, i)

onFinTaken(e, i) ==
    /\ Arriving(e, i, "FIN")
    /\ established[e]
    /\ sock' = [sock EXCEPT ![e] = markPeerFinReceived(@)]
    /\ Reply(e, i, <<ackPkt(sock[e], net[e][i].seq + 1)>>)
    /\ UNCHANGED <<replaced, established, accepted, pos, got, losses>>

onFinDropped(e, i) ==
    /\ Arriving(e, i, "FIN")
    /\ ~established[e]
    /\ Reply(e, i, <<>>)
    /\ UNCHANGED <<sock, replaced, established, accepted, pos, got, losses>>

onFin(e, i) == onFinTaken(e, i) \/ onFinDropped(e, i)

receiveTransport(e) ==
    \E i \in 1 .. Len(net[e]) :
        onSyn(e, i) \/ onAck(e, i) \/ onData(e, i) \/ onFin(e, i)

-----------------------------------------------------------------------------
\* TcpManager::retransmissionTick, once the deadline of e has passed.  The
\* socket's state is not consulted.
retransmissionTick(e) ==
    /\ established[e]
    /\ hasOutstanding(sock[e])
    /\ sock[e].armed
    /\ sock' = [sock EXCEPT ![e] = multiplicativeDecreaseCwnd(doubleRto(@))]
    /\ Send(e, dataPkts(sock[e].outstanding))
    /\ UNCHANGED <<replaced, established, accepted, pos, got, losses>>

-----------------------------------------------------------------------------
Write(e) == \E len \in 1 .. Amount[e] : AppWrite(e, len)
Read(e) == \E len \in 1 .. MaxRead : AppRead(e, len)
Faults(e) == \E i \in 1 .. Len(net[e]) : Lose(e, i) \/ Duplicate(e, i)

UseReplaced(k) ==
    AcceptReplaced(k) \/ \E len \in 1 .. MaxRead : ReadReplaced(k, len)

Next ==
    \/ \E e \in Ends :
        \/ AppAccept(e)
        \/ Write(e)
        \/ AppClose(e)
        \/ Read(e)
        \/ receiveTransport(e)
        \/ retransmissionTick(e)
        \/ Faults(e)
    \/ \E k \in DOMAIN replaced : UseReplaced(k)

Spec == Init /\ [][Next]_vars

\* The event queue delivers every packet and fires every timer it holds: the
\* retransmission tick and the applications' TimerTasks reschedule themselves.
\* Nothing makes the network fail.
Fairness ==
    \A e \in Ends :
        /\ WF_vars(receiveTransport(e))
        /\ WF_vars(retransmissionTick(e))
        /\ WF_vars(AppAccept(e))
        /\ WF_vars(Write(e))
        /\ WF_vars(AppClose(e))
        /\ WF_vars(Read(e))

FairSpec == Spec /\ Fairness

-----------------------------------------------------------------------------
(* Properties. *)

\* What is kept of a child that another one has replaced.
Replaced == [sock : Socket, accepted : BOOLEAN, taken : Seq(Byte)]

\* Every variable keeps its type; a receive buffer never outgrows its capacity.
TypeOK ==
    /\ sock \in [Ends -> Socket]
    /\ replaced \in Seq(Replaced)
    /\ established \in [Ends -> BOOLEAN]
    /\ accepted \in [Ends -> BOOLEAN]
    /\ net \in [Ends -> Seq(Packet)]
    /\ pos \in [Ends -> Nat]
    /\ got \in [Ends -> Seq(Byte)]
    /\ losses \in 0 .. MaxLoss
    /\ \A e \in Ends : Len(sock[e].recvBuf) <= RECV_BUF_CAP
    /\ \A k \in 1 .. Len(replaced) : Len(replaced[k].sock.recvBuf) <= RECV_BUF_CAP
    /\ \A e \in Ends : Len(net[e]) <= LinkBuf

\* The server has had one child so far: no repeated SYN has come.
OneChild == replaced = <<>>

\* The sockets that take, or took, what e sends.
receivers(e) ==
    {sock[Peer(e)]} \cup
        IF e = Client THEN {replaced[k].sock : k \in 1 .. Len(replaced)} ELSE {}

\* The direction from e is one stream: a second child reads the client's stream
\* from its beginning, but starts a stream of its own to the client.
OneStream(e) == e = Client \/ OneChild

\* What was read and what is buffered is a prefix of the peer's first n bytes.
Intact(s, taken, n) ==
    LET stream == taken \o s.recvBuf
    IN  /\ Len(stream) <= n
        /\ \A j \in 1 .. Len(stream) : stream[j] = j
        /\ s.rcvNxt = Len(stream) + 1

\* What read() has returned, followed by what is still buffered, is a prefix
\* of what the peer's application wrote, byte for byte: go-back-N neither
\* skips, repeats nor reorders a byte (TransferWorker's "data corruption").
\* That goes for every child of the server.
StreamIntegrity ==
    /\ \A e \in Ends : OneStream(Peer(e)) => Intact(sock[e], got[e], pos[Peer(e)])
    /\ \A k \in 1 .. Len(replaced) :
            Intact(replaced[k].sock, replaced[k].taken, pos[Client])

\* A byte is acknowledged only after a socket of the peer has taken it, and no
\* socket expects bytes that were not sent: sndUna_ <= a peer's rcvNxt_ <= sndNxt_.
\* (With one child that is the peer's one socket; after a repeated SYN it may be
\* a child that has been replaced since.)
AckedIsReceived ==
    \A e \in Ends : OneStream(e) =>
        /\ \E t \in receivers(e) : sock[e].sndUna <= t.rcvNxt
        /\ \A t \in receivers(e) : t.rcvNxt <= sock[e].sndNxt

\* While the peer's socket misses a byte, outstanding_ holds a segment that
\* starts exactly at the byte it waits for (the only one onData takes) and the
\* retransmission timer runs.
Repairable(e) ==
    sock[Peer(e)].rcvNxt < sock[e].sndNxt =>
        /\ sock[e].armed
        /\ \E j \in DOMAIN sock[e].outstanding :
                sock[e].outstanding[j].seqStart = sock[Peer(e)].rcvNxt

\* Whatever the network has lost can still be repaired, with one child always,
\* and after a repeated SYN as long as the new child misses nothing that an
\* earlier one has acknowledged.
Recoverable ==
    \A e \in Ends :
        OneChild \/ (e = Client /\ sock[e].sndUna <= sock[Peer(e)].rcvNxt)
            => Repairable(e)

\* The retransmission buffer is exactly the unacknowledged window: its
\* segments follow each other from sndUna_ up to sndNxt_, none longer than a
\* packet's payload.  (The first segments of a second child's stream may be
\* acknowledged by numbers of the first one's.)
WindowIsOutstanding ==
    \A e \in Ends :
        LET out == sock[e].outstanding
            starts == [j \in 1 .. Len(out) + 1 |->
                        IF j <= Len(out) THEN out[j].seqStart ELSE sock[e].sndNxt]
        IN  OneStream(e) =>
                /\ starts[1] = sock[e].sndUna
                /\ \A j \in 1 .. Len(out) : /\ segEnd(out[j]) = starts[j + 1]
                                            /\ Len(out[j].data) \in 1 .. MSS

\* The sender never has more in flight than the receiver has room for, so that
\* no segment is ever turned away for lack of space.  True on a link that keeps
\* the order; an old ACK that arrives late sets rwnd_ too high.
NoOverrun ==
    ~Reorder => \A e \in Ends :
        sock[e].sndNxt <= sock[Peer(e)].rcvNxt + getRecvBufAvailable(sock[Peer(e)])

\* A FIN is the end of the stream: where a FIN has arrived, all the bytes that
\* will ever have been sent have arrived before it, with one child at the socket
\* that took the FIN, and after a repeated SYN at one of the children.  With one
\* child, reading to the end of the stream (CLOSED while still in the table) has
\* delivered them all.
EofComplete ==
    \A e \in Ends :
        /\ OneStream(e) /\ (\E t \in receivers(e) : t.peerFinReceived) =>
                /\ sock[e].finSeq = sock[e].sndNxt
                /\ \E t \in receivers(e) : t.rcvNxt = sock[e].sndNxt
        /\ OneChild /\ sock[e].state = "CLOSED" /\ established[e] =>
                Len(got[e]) = pos[Peer(e)]

\* "connection closed" at the side that closed: its FIN was acknowledged, so
\* the peer's socket holds every byte and knows that the stream is over.  (After
\* a repeated SYN those may be two of the server's children.)
CloseMeansReceived ==
    \A e \in Ends : ~established[e] =>
        /\ sock[e].state = "CLOSED"
        /\ OneStream(e) =>
            /\ \E t \in receivers(e) : t.rcvNxt = pos[e] + 1
            /\ \E t \in receivers(e) : t.peerFinReceived

\* e has the same socket after the step.
SameSocket(e) == e = Client \/ Len(replaced') = Len(replaced)

\* Acknowledgements only move forward, and once the FIN has its sequence number
\* nothing more is sent.
ForwardOnly ==
    [][\A e \in Ends : SameSocket(e) =>
        /\ sock[e].sndUna <= sock'[e].sndUna
        /\ sock[e].rcvNxt <= sock'[e].rcvNxt
        /\ sock[e].finSeq >= 0 => /\ sock'[e].finSeq = sock[e].finSeq
                                  /\ sock'[e].sndNxt = sock[e].sndNxt]_vars

\* The receiver's right window edge, rcvNxt_ + room, never moves left: what an
\* ACK has promised stays promised.
WindowNeverShrinks ==
    [][\A e \in Ends : SameSocket(e) =>
        sock[e].rcvNxt + getRecvBufAvailable(sock[e])
            <= sock'[e].rcvNxt + getRecvBufAvailable(sock'[e])]_vars

-----------------------------------------------------------------------------
(* Why it works: the inductive invariant, in terms of a socket s and the    *)
(* socket t it talks to.                                                    *)

\* A sequence number at which go-back-N cuts the stream of s.
Boundary(s, n) ==
    n = s.sndNxt \/ \E j \in DOMAIN s.outstanding : s.outstanding[j].seqStart = n

\* seq is the number of the first of these bytes.
Numbered(seq, bytes) ==
    /\ Len(bytes) \in 1 .. MSS
    /\ \A k \in 1 .. Len(bytes) : bytes[k] = seq + k - 1

\* outstanding_ is the window [sndUna_, sndNxt_) cut into numbered segments.
WindowOK(s) ==
    LET out == s.outstanding
    IN  /\ s.sndUna >= 1
        /\ s.armed = (out # <<>>)
        /\ s.sndUna = IF out = <<>> THEN s.sndNxt ELSE out[1].seqStart
        /\ \A j \in 1 .. Len(out) :
            /\ Numbered(out[j].seqStart, out[j].data)
            /\ segEnd(out[j]) <= s.sndNxt
            /\ segEnd(out[j]) = IF j = Len(out) THEN s.sndNxt
                                                ELSE out[j + 1].seqStart
            /\ \A i \in 1 .. j - 1 : segEnd(out[i]) <= out[j].seqStart

\* A FIN has its sequence number only when everything is acknowledged.
FinOK(s) ==
    s.finSeq >= 0 => /\ s.finSeq = s.sndNxt
                     /\ s.outstanding = <<>>
                     /\ s.state \in {"SHUTDOWN", "CLOSED"}

\* What t has taken of the stream of s ends at a boundary of s.
PairOK(s, t) ==
    /\ s.sndUna <= t.rcvNxt
    /\ t.rcvNxt <= s.sndNxt
    /\ Boundary(s, t.rcvNxt)
    /\ t.peerFinReceived => s.finSeq >= 0

\* Packets on the way from t to s, however old.
AckOK(s, t, pkt) ==
    \/ pkt.seq <= t.rcvNxt /\ (pkt.seq > s.sndUna => Boundary(s, pkt.seq))
    \/ s.finSeq >= 0 /\ t.peerFinReceived /\ pkt.seq = s.finSeq + 1

DataOK(t, pkt) ==
    /\ Numbered(pkt.seq, pkt.data)
    /\ segEnd([seqStart |-> pkt.seq, data |-> pkt.data]) <= t.sndNxt
    /\ pkt.seq >= t.sndUna =>
            \E j \in DOMAIN t.outstanding :
                t.outstanding[j] = [seqStart |-> pkt.seq, data |-> pkt.data]

PktOK(s, t, pkt) ==
    /\ pkt.type = "ACK" => AckOK(s, t, pkt)
    /\ pkt.type = "DATA" => DataOK(t, pkt)
    /\ pkt.type = "FIN" => t.finSeq >= 0 /\ pkt.seq = t.finSeq

\* What the application has read, and the buffer that follows it.
ReadOK(s, taken) ==
    /\ s.rcvNxt = 1 + Len(taken) + Len(s.recvBuf)
    /\ \A n \in 1 .. Len(taken) : taken[n] = n
    /\ \A n \in 1 .. Len(s.recvBuf) : s.recvBuf[n] = Len(taken) + n

\* The end of a connection: by the FIN's acknowledgement, which takes it out of
\* the table, or by reading to the end.
EndOK(e) ==
    /\ ~accepted[e] => sock[e].finSeq < 0 /\ sock[e].sndUna = sock[e].sndNxt
    /\ ~established[e] => /\ sock[e].state = "CLOSED"
                          /\ sock[e].finSeq >= 0
                          /\ sock[Peer(e)].peerFinReceived
    /\ established[e] /\ sock[e].state = "CLOSED" =>
            sock[e].peerFinReceived /\ sock[e].recvBuf = <<>>

\* While the server has had one child: how the two sockets, the table entries,
\* the applications and every packet still on its way fit together, under loss,
\* duplication and reordering.
PairInv ==
    \A e \in Ends :
        /\ WindowOK(sock[e])
        /\ FinOK(sock[e])
        /\ PairOK(sock[e], sock[Peer(e)])
        /\ \A i \in 1 .. Len(net[e]) : PktOK(sock[e], sock[Peer(e)], net[e][i])
        /\ ReadOK(sock[e], got[e])
        /\ pos[e] = sock[e].sndNxt - 1
        /\ EndOK(e)

\* What is left of that when the child has been replaced.

\* An end by itself.
SideOK(e) ==
    /\ FinOK(sock[e])
    /\ pos[e] = sock[e].sndNxt - 1
    /\ ~accepted[e] => sock[e].finSeq < 0 /\ sock[e].sndUna = sock[e].sndNxt
    /\ ~established[e] => sock[e].state = "CLOSED"

\* A child t of the server, present or past, has read a prefix of the stream of s.
ChildOK(s, t, taken) ==
    /\ t.rcvNxt <= s.sndNxt
    /\ t.peerFinReceived => s.finSeq >= 0
    /\ ReadOK(t, taken)

\* An acknowledgement on its way to s was sent by one of the sockets ts.
AckedBy(s, ts, pkt) ==
    \/ pkt.seq <= s.sndUna
    \/ Boundary(s, pkt.seq) /\ \E t \in ts : pkt.seq <= t.rcvNxt
    \/ /\ s.finSeq >= 0
       /\ pkt.seq = s.finSeq + 1
       /\ \E t \in ts : t.peerFinReceived

\* A packet on its way to the client s, whose stream the sockets ts take.
ToClientOK(s, ts, pkt) ==
    /\ pkt.type # "SYN"
    /\ pkt.type = "ACK" => AckedBy(s, ts, pkt)

\* A packet on its way from the client s.  No acknowledgement cuts a segment.
ToServerOK(s, pkt) ==
    /\ pkt.type = "SYN" => Reorder
    /\ pkt.type = "DATA" =>
        /\ DataOK(s, pkt)
        /\ pkt.seq < s.sndUna =>
                segEnd([seqStart |-> pkt.seq, data |-> pkt.data]) <= s.sndUna
    /\ pkt.type = "FIN" => s.finSeq >= 0 /\ pkt.seq = s.finSeq

\* The client's stream and all the children that have taken it.
UploadInv ==
    LET s == sock[Client]
        t == sock[Server]
        ts == receivers(Client)
    IN  /\ WindowOK(s)
        /\ \E u \in ts : s.sndUna <= u.rcvNxt
        /\ ~established[Client] => s.finSeq >= 0 /\ \E u \in ts : u.peerFinReceived
        /\ ChildOK(s, t, got[Server])
        /\ t.rcvNxt >= s.sndUna => Boundary(s, t.rcvNxt)
        /\ \A k \in 1 .. Len(replaced) :
                ChildOK(s, replaced[k].sock, replaced[k].taken)
        /\ \A i \in 1 .. Len(net[Client]) : ToClientOK(s, ts, net[Client][i])
        /\ \A i \in 1 .. Len(net[Server]) : ToServerOK(s, net[Server][i])
        /\ ~OneChild => Reorder

\* The inductive invariant of the connection: with one child both directions fit,
\* and with more the client's stream still fits all its children together.
ConnInv ==
    /\ TypeOK
    /\ \A e \in Ends : SideOK(e)
    /\ UploadInv
    /\ OneChild => PairInv

-----------------------------------------------------------------------------
(* The connection implements ReliableStream. *)

\* What the two sockets say of the streams between them.
delivered == [e \in Ends |-> sock[e].rcvNxt - 1]
ended == [e \in Ends |-> sock[e].finSeq >= 0]
notified == [e \in Ends |-> sock[e].peerFinReceived]
eof == [e \in Ends |-> sock[e].state = "CLOSED" /\ established[e]]
finished == [e \in Ends |-> ~established[e]]

Stream == INSTANCE ReliableStream WITH sent <- pos, taken <- got

\* Seen from the applications, the two sockets and the lossy network between
\* them are a pair of byte streams that keep the contract of ReliableStream.
ReliableStreamContract == Stream!Spec

\* On a network that may repeat the SYN they keep it step by step until it does.
ContractUntilSyn == Stream!Init /\ [][OneChild' => Stream!Next]_(Stream!vars)

\* "accept TCP connections on `localPort` and verify the data they send"
\* (README): when the client is told that the connection is closed, one socket of
\* the server has all its bytes and the FIN.  After a repeated SYN they may be
\* spread over two, and neither worker ever sees a whole transfer.
OneChildHasAll ==
    ~established[Client] =>
        \E t \in receivers(Client) : t.rcvNxt = pos[Client] + 1 /\ t.peerFinReceived

-----------------------------------------------------------------------------
(* Liveness. *)

\* Whatever is outstanding is acknowledged in the end, or the socket closes.
EventuallyAcked ==
    \A e \in Ends :
        hasOutstanding(sock[e]) ~>
            (~hasOutstanding(sock[e]) \/ sock[e].state = "CLOSED")

\* An end that has seen the peer's FIN and whose application reads gets to the
\* end of the stream.
EofReached ==
    \A e \in Readers :
        sock[e].peerFinReceived ~>
            (sock[e].state = "CLOSED" /\ Len(got[e]) = pos[Peer(e)])

\* "send `amount` bytes" (README): a transfer on a network that fails only
\* finitely often gets all its bytes into the stream.  It need not: read() tells
\* the peer nothing, so a sender that was last told of a window of 0 and has
\* nothing outstanding waits for ever.
TransferCompletes == <>(pos[Client] = Amount[Client])

\* "Go-Back-N loss prevention" (README): a FIN that was sent reaches a peer that
\* still has the connection.  It need not: the FIN is not in outstanding_, so
\* no tick sends it again.
FinArrives ==
    \A e \in Ends :
        sock[e].finSeq >= 0 ~> (sock[Peer(e)].peerFinReceived \/ ~established[Peer(e)])

=============================================================================
