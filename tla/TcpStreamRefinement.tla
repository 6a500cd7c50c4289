------------------------- MODULE TcpStreamRefinement -------------------------
(***************************************************************************)
(* TcpStream implements ReliableStream, for every value of its constants:  *)
(* on a network that keeps the order always, and on one that duplicates    *)
(* and reorders until a SYN comes to the server a second time.             *)
(*                                                                         *)
(* All but the theorems is about a server that has had one child.  The     *)
(* first part says, action by action, what a step does to the fields of    *)
(* the one socket it changes.  The results are then read off from these    *)
(* effects and from the invariant of the pair.  Flow control comes last.   *)
(***************************************************************************)
EXTENDS TcpStreamProofs

\* The receiving half, and whether the socket is closed, are as before.
Kept(s, s2) ==
    /\ s2.rcvNxt = s.rcvNxt
    /\ s2.recvBuf = s.recvBuf
    /\ s2.peerFinReceived = s.peerFinReceived
    /\ s2.state = "CLOSED" <=> s.state = "CLOSED"

\* The numbers and the window of the sending half are as before.
SenderKept(s, s2) ==
    /\ s2.sndUna = s.sndUna
    /\ s2.sndNxt = s.sndNxt
    /\ s2.finSeq = s.finSeq
    /\ s2.rwnd = s.rwnd

\* The FIN gets its number, or does not; it does only when nothing is outstanding.
FinMayGo(s, s2) ==
    \/ s2.finSeq = s.finSeq
    \/ /\ s.finSeq < 0
       /\ s2.finSeq = s.sndNxt
       /\ s2.sndUna = s2.sndNxt

\* e's step makes s2 of its socket and leaves the other one alone.
Becomes(e, s2) == sock'[e] = s2 /\ sock'[Peer(e)] = sock[Peer(e)]

LEMMA BecomesExcept ==
    ASSUME Paired, NEW e \in Ends, NEW s2, sock' = [sock EXCEPT ![e] = s2]
    PROVE  Becomes(e, s2)
PROOF
    <1>1. sock \in [Ends -> Socket] /\ Peer(e) \in Ends /\ Peer(e) # e
        BY Parts DEF Paired, PairTypes
    <1> QED  BY <1>1 DEF Becomes

-----------------------------------------------------------------------------
(* What each action does. *)

\* accept() changes nothing but the state of a child that is open.
LEMMA AppAcceptEffect ==
    ASSUME Paired, NEW e \in Ends, AppAccept(e)
    PROVE  \E s2 : Becomes(e, s2) /\ Kept(sock[e], s2) /\ SenderKept(sock[e], s2)
PROOF
    <1> DEFINE s == sock[e]
               st == IF s.state = "CLOSED" THEN "CLOSED" ELSE "ESTABLISHED"
               s2 == [s EXCEPT !.state = st]
    <1>1. s \in Socket /\ sock \in [Ends -> Socket]
        BY Parts DEF Paired, PairTypes
    <1>2. sock' = [sock EXCEPT ![e] = s2]
        BY <1>1 DEF AppAccept
    <1>3. Kept(s, s2) /\ SenderKept(s, s2)
        BY <1>1 DEF Kept, SenderKept, Socket
    <1> HIDE DEF s2
    <1> QED  BY <1>2, <1>3, BecomesExcept

\* write() moves sndNxt_ within the window.
LEMMA AppWriteEffect ==
    ASSUME Paired, NEW e \in Ends, NEW len, AppWrite(e, len)
    PROVE  LET s == sock[e]
               n == writable(s, len)
           IN  /\ n \in Nat /\ n > 0 /\ n <= len
               /\ s.sndNxt + n <= s.sndUna + s.rwnd
               /\ \E s2 : /\ Becomes(e, s2)
                          /\ Kept(s, s2)
                          /\ s2.sndUna = s.sndUna
                          /\ s2.sndNxt = s.sndNxt + n
                          /\ s2.finSeq = s.finSeq
                          /\ s2.rwnd = s.rwnd
PROOF
    <1> DEFINE s == sock[e]
               n == writable(s, len)
               b == nextBytes(e, len)
               s2 == write(s, b)
    <1>1. s \in Socket /\ sock \in [Ends -> Socket] /\ pos[e] \in Nat
        BY Parts DEF Paired, PairTypes
    <1>2. Amount[e] \in Nat
        BY StreamConstants DEF StreamConstants
    <1>3. len \in Nat /\ n > 0 /\ sock' = [sock EXCEPT ![e] = s2]
        BY <1>1, <1>2 DEF AppWrite
    <1>4. /\ s.sndUna \in Nat /\ s.sndNxt \in Nat /\ s.rwnd \in Nat /\ s.cwnd \in Nat
        BY <1>1, SocketFields
    <1>5. n \in Nat /\ n <= len /\ s.sndNxt + n <= s.sndUna + s.rwnd
        BY <1>3, <1>4 DEF writable, max, min, effectiveWindow, bytesInFlight
    <1>6. Len(b) = len
        BY <1>3 DEF nextBytes
    <1> HIDE DEF b
    <1>7. s2 = [s EXCEPT !.outstanding = s2.outstanding, !.sndNxt = s.sndNxt + n,
                         !.armed = s2.armed]
        BY <1>1, <1>6 DEF write, Socket
    <1> HIDE DEF s2, n
    <1>8. /\ Kept(s, s2) /\ s2.sndUna = s.sndUna /\ s2.sndNxt = s.sndNxt + n
          /\ s2.finSeq = s.finSeq /\ s2.rwnd = s.rwnd
        BY <1>1, <1>7 DEF Kept, Socket
    <1> QED  BY <1>3, <1>5, <1>8, BecomesExcept DEF n

\* maybeSendFinOnDrain() numbers the FIN of a socket with nothing outstanding.
LEMMA FinOnDrainEffect ==
    ASSUME NEW s \in Socket, WindowOK(s)
    PROVE  LET s2 == maybeSendFinOnDrain(s)
           IN  /\ Kept(s, s2) /\ FinMayGo(s, s2)
               /\ s2.sndUna = s.sndUna /\ s2.sndNxt = s.sndNxt /\ s2.rwnd = s.rwnd
PROOF
    <1> DEFINE s2 == maybeSendFinOnDrain(s)
    <1>1. CASE finDue(s)
        <2>1. s2 = [s EXCEPT !.finSeq = s.sndNxt]
            BY <1>1 DEF maybeSendFinOnDrain
        <2>2. s.finSeq < 0 /\ s.sndUna = s.sndNxt
            BY <1>1 DEF finDue, hasOutstanding, WindowOK
        <2> QED  BY <2>1, <2>2 DEF Kept, FinMayGo, Socket
    <1>2. CASE ~finDue(s)
        BY <1>2 DEF maybeSendFinOnDrain, Kept, FinMayGo
    <1> QED  BY <1>1, <1>2

\* close() may number the FIN.
LEMMA AppCloseEffect ==
    ASSUME Paired, NEW e \in Ends, AppClose(e)
    PROVE  LET s == sock[e]
           IN  \E s2 : /\ Becomes(e, s2) /\ Kept(s, s2) /\ FinMayGo(s, s2)
                       /\ s2.sndUna = s.sndUna /\ s2.sndNxt = s.sndNxt
                       /\ s2.rwnd = s.rwnd
PROOF
    <1> DEFINE s == sock[e]
               s1 == [s EXCEPT !.state = "SHUTDOWN"]
               s2 == maybeSendFinOnDrain(s1)
    <1>1. s \in Socket /\ sock \in [Ends -> Socket] /\ WindowOK(s)
        BY Parts DEF Paired, PairTypes
    <1>2. sock' = [sock EXCEPT ![e] = s2] /\ s.state = "ESTABLISHED"
        BY <1>1 DEF AppClose
    <1>3. s1 \in Socket /\ WindowOK(s1)
        <2>1. "SHUTDOWN" \in States
            BY DEF States
        <2> QED  BY <1>1, <2>1, StateOK
    <1>4. Kept(s, s1) /\ SenderKept(s, s1)
        BY <1>1, <1>2 DEF Kept, SenderKept, Socket
    <1> HIDE DEF s1
    <1>5. /\ Kept(s1, s2) /\ FinMayGo(s1, s2)
          /\ s2.sndUna = s1.sndUna /\ s2.sndNxt = s1.sndNxt /\ s2.rwnd = s1.rwnd
        BY <1>3, FinOnDrainEffect
    <1> HIDE DEF s2
    <1>6. /\ Kept(s, s2) /\ FinMayGo(s, s2)
          /\ s2.sndUna = s.sndUna /\ s2.sndNxt = s.sndNxt /\ s2.rwnd = s.rwnd
        BY <1>4, <1>5 DEF Kept, SenderKept, FinMayGo
    <1> QED  BY <1>2, <1>6, BecomesExcept

\* read() shortens the buffer, and closes the socket exactly when the peer's FIN
\* is known and nothing is left.
LEMMA AppReadEffect ==
    ASSUME Paired, NEW e \in Ends, NEW len, AppRead(e, len)
    PROVE  LET s == sock[e]
           IN  /\ isOpen(s) /\ established[e]
               /\ \E s2 : /\ Becomes(e, s2) /\ SenderKept(s, s2)
                          /\ s2.rcvNxt = s.rcvNxt
                          /\ s2.peerFinReceived = s.peerFinReceived
                          /\ Len(s2.recvBuf) \in Nat
                          /\ Len(s2.recvBuf) <= Len(s.recvBuf)
                          /\ s2.state = "CLOSED" <=>
                                s.peerFinReceived /\ Len(s2.recvBuf) = 0
PROOF
    <1> DEFINE s == sock[e]
               n == min(len, Len(s.recvBuf))
               rest == SubSeq(s.recvBuf, n + 1, Len(s.recvBuf))
               st == IF s.peerFinReceived /\ rest = <<>> THEN "CLOSED" ELSE s.state
               s2 == [s EXCEPT !.recvBuf = rest, !.state = st]
    <1>1. /\ s \in Socket /\ sock \in [Ends -> Socket]
          /\ ReadOK(s, got[e]) /\ got[e] \in Seq(Byte) /\ EndOK(e)
        BY Parts DEF Paired, PairTypes
    <1>2. sock' = [sock EXCEPT ![e] = s2] /\ len \in Nat /\ isOpen(s)
        BY <1>1, StreamConstants DEF AppRead, read, StreamConstants
    <1>3. established[e]
        BY <1>1, <1>2 DEF EndOK, isOpen
    <1>4. s.recvBuf \in Seq(Byte) /\ Len(s.recvBuf) \in Nat
        BY <1>1, SocketFields, LenProperties
    <1>5. n \in Nat /\ n <= Len(s.recvBuf)
        BY <1>2, <1>4 DEF min
    <1> HIDE DEF n
    <1>6. rest \in Seq(Byte) /\ Len(rest) \in Nat /\ Len(rest) <= Len(s.recvBuf)
        <2> DEFINE b == s.recvBuf
        <2>1. b \in Seq(Byte) /\ Len(b) \in Nat /\ n <= Len(b)
            BY <1>4, <1>5
        <2> HIDE DEF b
        <2>2. /\ SubSeq(b, n + 1, Len(b)) \in Seq(Byte)
              /\ Len(SubSeq(b, n + 1, Len(b))) = Len(b) - n
            BY <1>5, <2>1
        <2> QED  BY <1>5, <2>1, <2>2 DEF b
    <1>7. rest = <<>> <=> Len(rest) = 0
        BY <1>6, EmptySeq
    <1> HIDE DEF rest
    <1>8. st = "CLOSED" <=> s.peerFinReceived /\ Len(rest) = 0
        BY <1>2, <1>7 DEF isOpen
    <1> HIDE DEF st
    <1>9. /\ SenderKept(s, s2) /\ s2.rcvNxt = s.rcvNxt
          /\ s2.peerFinReceived = s.peerFinReceived
          /\ s2.recvBuf = rest /\ s2.state = st
        BY <1>1 DEF SenderKept, Socket
    <1> HIDE DEF s2
    <1> QED  BY <1>2, <1>3, <1>6, <1>8, <1>9, BecomesExcept

\* The acknowledgement of the FIN closes the socket and nothing else; the peer
\* has seen the FIN.
LEMMA OnAckOfFinEffect ==
    ASSUME Paired, NEW e \in Ends, NEW i, onAckOfFin(e, i)
    PROVE  LET s == sock[e]
           IN  /\ isOpen(s) /\ sock[Peer(e)].peerFinReceived
               /\ \E s2 : /\ Becomes(e, s2) /\ SenderKept(s, s2)
                          /\ s2.rcvNxt = s.rcvNxt /\ s2.recvBuf = s.recvBuf
                          /\ s2.peerFinReceived = s.peerFinReceived
PROOF
    <1> DEFINE s == sock[e]
               t == sock[Peer(e)]
               s2 == [s EXCEPT !.state = "CLOSED"]
    <1>1. /\ s \in Socket /\ t \in Socket /\ sock \in [Ends -> Socket]
          /\ FinOK(s) /\ PairOK(s, t)
        BY Parts DEF Paired, PairTypes
    <1>2. /\ sock' = [sock EXCEPT ![e] = s2] /\ s.state = "SHUTDOWN"
          /\ i \in 1 .. Len(net[e]) /\ net[e][i].type = "ACK"
          /\ s.finSeq >= 0 /\ net[e][i].seq = s.finSeq + 1
        BY <1>1 DEF onAckOfFin, markClosed, Arriving, acksFin
    <1>3. t.peerFinReceived
        <2>1. AckOK(s, t, net[e][i])
            BY <1>2, Parts DEF PktOK
        <2>2. s.finSeq = s.sndNxt /\ t.rcvNxt <= s.sndNxt
            BY <1>1, <1>2 DEF FinOK, PairOK
        <2>3. s.sndNxt \in Nat /\ t.rcvNxt \in Nat
            BY <1>1, SocketFields
        <2> QED  BY <1>2, <2>1, <2>2, <2>3 DEF AckOK
    <1>4. /\ SenderKept(s, s2) /\ s2.rcvNxt = s.rcvNxt /\ s2.recvBuf = s.recvBuf
          /\ s2.peerFinReceived = s.peerFinReceived
        BY <1>1 DEF SenderKept, Socket
    <1> HIDE DEF s2
    <1> QED  BY <1>2, <1>3, <1>4, BecomesExcept DEF isOpen

\* An acknowledgement of new data moves sndUna_, sets rwnd_ and may number the FIN.
LEMMA OnAckOfNewEffect ==
    ASSUME Paired, NEW e \in Ends, NEW i, onAckOfNew(e, i)
    PROVE  LET s == sock[e]
               pkt == net[e][i]
           IN  /\ i \in 1 .. Len(net[e]) /\ (i = 1 \/ Reorder)
               /\ pkt.type = "ACK" /\ pkt.seq <= s.sndNxt
               /\ \E s2 : /\ Becomes(e, s2) /\ Kept(s, s2) /\ FinMayGo(s, s2)
                          /\ s2.sndUna = pkt.seq /\ s2.sndNxt = s.sndNxt
                          /\ s2.rwnd = pkt.window
PROOF
    <1> DEFINE s == sock[e]
               t == sock[Peer(e)]
               ackNum == net[e][i].seq
               w == net[e][i].window
               s1 == acked(s, ackNum, w)
               s2 == maybeSendFinOnDrain(s1)
    <1>1. /\ s \in Socket /\ t \in Socket /\ sock \in [Ends -> Socket]
          /\ WindowOK(s) /\ FinOK(s) /\ PairOK(s, t)
        BY Parts DEF Paired, PairTypes
    <1>2. /\ sock' = [sock EXCEPT ![e] = s2]
          /\ i \in 1 .. Len(net[e]) /\ (i = 1 \/ Reorder) /\ net[e][i].type = "ACK"
          /\ s.sndUna < ackNum /\ ackNum <= s.sndNxt
        BY <1>1 DEF onAckOfNew, Arriving, acksNew
    <1>3. net[e][i] \in Packet /\ AckOK(s, t, net[e][i])
        BY <1>2, Parts DEF PktOK
    <1>4. ackNum \in Nat /\ w \in Nat
        BY <1>3 DEF Packet
    <1>5. Boundary(s, ackNum)
        <2>1. s.finSeq >= 0 => s.finSeq = s.sndNxt
            BY <1>1 DEF FinOK
        <2>2. s.sndNxt \in Nat
            BY <1>1, SocketFields
        <2> QED  BY <1>2, <1>3, <1>4, <2>1, <2>2 DEF AckOK
    <1> HIDE DEF ackNum, w
    <1>6. /\ s1 \in Socket /\ WindowOK(s1)
          /\ s1.sndUna = ackNum /\ s1.sndNxt = s.sndNxt
          /\ s1.rcvNxt = s.rcvNxt /\ s1.recvBuf = s.recvBuf
          /\ s1.peerFinReceived = s.peerFinReceived /\ s1.state = s.state
        BY <1>1, <1>2, <1>4, <1>5, AckedOK
    <1>7. s1.rwnd = w /\ s1.finSeq = s.finSeq
        <2>1. max(0, w) = w
            BY <1>4 DEF max
        <2> QED  BY <1>1, <2>1 DEF acked, setRwnd, popAckedThrough,
                                   additiveIncreaseCwnd, Socket
    <1> HIDE DEF s1
    <1>8. /\ Kept(s1, s2) /\ FinMayGo(s1, s2)
          /\ s2.sndUna = s1.sndUna /\ s2.sndNxt = s1.sndNxt /\ s2.rwnd = s1.rwnd
        BY <1>6, FinOnDrainEffect
    <1> HIDE DEF s2
    <1>9. /\ Kept(s, s2) /\ FinMayGo(s, s2)
          /\ s2.sndUna = ackNum /\ s2.sndNxt = s.sndNxt /\ s2.rwnd = w
        BY <1>6, <1>7, <1>8 DEF Kept, FinMayGo
    <1> QED  BY <1>2, <1>9, BecomesExcept DEF ackNum, w

\* An acknowledgement of old data only sets rwnd_.
LEMMA OnAckOfOldEffect ==
    ASSUME Paired, NEW e \in Ends, NEW i, onAckOfOld(e, i)
    PROVE  LET s == sock[e]
               pkt == net[e][i]
           IN  /\ i \in 1 .. Len(net[e]) /\ (i = 1 \/ Reorder)
               /\ pkt.type = "ACK" /\ pkt.seq <= s.sndUna
               /\ \E s2 : /\ Becomes(e, s2) /\ Kept(s, s2)
                          /\ s2.sndUna = s.sndUna /\ s2.sndNxt = s.sndNxt
                          /\ s2.finSeq = s.finSeq /\ s2.rwnd = pkt.window
PROOF
    <1> DEFINE s == sock[e]
               w == net[e][i].window
               s2 == setRwnd(s, w)
    <1>1. s \in Socket /\ sock \in [Ends -> Socket]
        BY Parts DEF Paired, PairTypes
    <1>2. /\ sock' = [sock EXCEPT ![e] = s2]
          /\ i \in 1 .. Len(net[e]) /\ (i = 1 \/ Reorder)
          /\ net[e][i].type = "ACK" /\ net[e][i].seq <= s.sndUna
        BY <1>1 DEF onAckOfOld, Arriving
    <1>3. w \in Nat
        BY <1>2, Parts DEF Packet
    <1>4. max(0, w) = w
        BY <1>3 DEF max
    <1>5. s2 = [s EXCEPT !.rwnd = w]
        BY <1>4 DEF setRwnd
    <1> HIDE DEF w, s2
    <1>6. /\ Kept(s, s2) /\ s2.sndUna = s.sndUna /\ s2.sndNxt = s.sndNxt
          /\ s2.finSeq = s.finSeq /\ s2.rwnd = w
        BY <1>1, <1>5 DEF Kept, Socket
    <1> QED  BY <1>2, <1>6, BecomesExcept DEF w

\* A tick changes cwnd_ and rtoMs_, which no result here is about.
LEMMA RetransmissionTickEffect ==
    ASSUME Paired, NEW e \in Ends, retransmissionTick(e)
    PROVE  \E s2 : Becomes(e, s2) /\ Kept(sock[e], s2) /\ SenderKept(sock[e], s2)
PROOF
    <1> DEFINE s == sock[e]
               s2 == multiplicativeDecreaseCwnd(doubleRto(s))
    <1>1. s \in Socket /\ sock \in [Ends -> Socket]
        BY Parts DEF Paired, PairTypes
    <1>2. sock' = [sock EXCEPT ![e] = s2]
        BY <1>1 DEF retransmissionTick
    <1>3. Kept(s, s2) /\ SenderKept(s, s2)
        BY <1>1 DEF Kept, SenderKept, multiplicativeDecreaseCwnd, doubleRto, Socket
    <1> HIDE DEF s2
    <1> QED  BY <1>2, <1>3, BecomesExcept

\* A segment that is taken goes to the end of the buffer.
LEMMA OnDataAcceptedEffect ==
    ASSUME Paired, NEW e \in Ends, NEW i, onDataAccepted(e, i)
    PROVE  LET s == sock[e]
               n == Len(net[e][i].data)
               s2 == appendToRecvBuf(s, net[e][i].data)
           IN  /\ n \in Nat /\ n > 0
               /\ Becomes(e, s2) /\ SenderKept(s, s2)
               /\ s2.rcvNxt = s.rcvNxt + n
               /\ Len(s2.recvBuf) = Len(s.recvBuf) + n
               /\ s2.peerFinReceived = s.peerFinReceived
               /\ s2.state = s.state
PROOF
    <1> DEFINE s == sock[e]
               d == net[e][i].data
               s2 == appendToRecvBuf(s, d)
    <1>1. s \in Socket /\ sock \in [Ends -> Socket]
        BY Parts DEF Paired, PairTypes
    <1>2. /\ sock' = [sock EXCEPT ![e] = s2]
          /\ i \in 1 .. Len(net[e]) /\ d # <<>> /\ Len(d) <= getRecvBufAvailable(s)
        BY <1>1 DEF onDataAccepted, Arriving, acceptable
    <1>3. d \in Seq(Byte) /\ s.recvBuf \in Seq(Byte)
        BY <1>1, <1>2, Parts DEF Packet, Socket
    <1>4. Len(d) \in Nat /\ Len(d) > 0
        <2> HIDE DEF d
        <2> QED  BY <1>2, <1>3, EmptySeq, LenProperties
    <1> HIDE DEF d
    <1>5. /\ s2.state = s.state /\ s2.rcvNxt = s.rcvNxt + Len(d)
          /\ s2.recvBuf = s.recvBuf \o d
          /\ s2.peerFinReceived = s.peerFinReceived
        BY <1>1, <1>2, <1>3, AppendOK
    <1>6. SenderKept(s, s2)
        BY <1>1 DEF SenderKept, appendToRecvBuf, Socket
    <1>7. Len(s2.recvBuf) = Len(s.recvBuf) + Len(d)
        BY <1>3, <1>5, ConcatProperties
    <1>8. Becomes(e, s2)
        BY <1>2, BecomesExcept
    <1> QED  BY <1>4, <1>5, <1>6, <1>7, <1>8 DEF d

\* A FIN that is taken makes the end of the peer's stream known.
LEMMA OnFinTakenEffect ==
    ASSUME Paired, NEW e \in Ends, NEW i, onFinTaken(e, i)
    PROVE  LET s == sock[e]
           IN  /\ sock[Peer(e)].finSeq >= 0 /\ net[e][i].seq = sock[Peer(e)].finSeq
               /\ \E s2 : /\ Becomes(e, s2) /\ SenderKept(s, s2)
                          /\ s2.rcvNxt = s.rcvNxt /\ s2.recvBuf = s.recvBuf
                          /\ s2.peerFinReceived = TRUE
                          /\ s2.state = "CLOSED" <=> s.state = "CLOSED"
PROOF
    <1> DEFINE s == sock[e]
               s2 == markPeerFinReceived(s)
    <1>1. s \in Socket /\ sock \in [Ends -> Socket]
        BY Parts DEF Paired, PairTypes
    <1>2. /\ sock' = [sock EXCEPT ![e] = s2]
          /\ i \in 1 .. Len(net[e]) /\ net[e][i].type = "FIN"
        BY <1>1 DEF onFinTaken, Arriving
    <1>3. sock[Peer(e)].finSeq >= 0 /\ net[e][i].seq = sock[Peer(e)].finSeq
        BY <1>2, Parts DEF PktOK
    <1>4. /\ s2.rcvNxt = s.rcvNxt /\ s2.recvBuf = s.recvBuf
          /\ s2.peerFinReceived = TRUE
          /\ s2.state = IF s.state = "ESTABLISHED" THEN "SHUTDOWN" ELSE s.state
        BY <1>1, PeerFinOK
    <1>5. SenderKept(s, s2)
        BY <1>1 DEF SenderKept, markPeerFinReceived, Socket
    <1> HIDE DEF s2
    <1> QED  BY <1>2, <1>3, <1>4, <1>5, BecomesExcept

\* What is left: a packet that is ignored, dropped, rejected, lost or duplicated
\* leaves the sockets, the tables and the applications alone.
SocketsKept ==
    /\ sock' = sock /\ established' = established
    /\ pos' = pos /\ got' = got

Idle(e, i) ==
    \/ onAckIgnored(e, i) \/ onDataRejected(e, i) \/ onDataDropped(e, i)
    \/ onFinDropped(e, i) \/ Lose(e, i) \/ Duplicate(e, i)

LEMMA IdleEffect ==
    ASSUME NEW e, NEW i, Idle(e, i)
    PROVE  SocketsKept
    BY DEF Idle, SocketsKept, onAckIgnored, onDataRejected, onDataDropped,
           onFinDropped, Lose, Duplicate

\* A step of a connection whose server has had one child and keeps it.
PairNext == Next /\ OneChild /\ OneChild'

\* Every such step is one of these.
LEMMA NextCases ==
    ASSUME PairNext
    PROVE  \E e \in Ends :
            \/ AppAccept(e) \/ AppClose(e) \/ retransmissionTick(e)
            \/ \E len : AppWrite(e, len) \/ AppRead(e, len)
            \/ \E i : \/ onAckOfFin(e, i) \/ onAckOfNew(e, i) \/ onAckOfOld(e, i)
                      \/ onDataAccepted(e, i) \/ onFinTaken(e, i) \/ Idle(e, i)
PROOF
    <1>1. \A e, i : ~onSyn(e, i)
        BY DEF PairNext, onSyn, OneChild
    <1>2. \E e \in Ends :
            \/ AppAccept(e) \/ Write(e) \/ AppClose(e) \/ Read(e)
            \/ receiveTransport(e) \/ retransmissionTick(e) \/ Faults(e)
        BY DEF PairNext, Next, OneChild
    <1> QED  BY <1>1, <1>2 DEF Write, Read, receiveTransport, onAck, onData, onFin,
                              Faults, Idle

-----------------------------------------------------------------------------
(* What a receiver has promised. *)

\* The first number that a receiver in state s has no room for.
RightEdge(s) == s.rcvNxt + getRecvBufAvailable(s)

\* A receiving half that does not change keeps its right edge.
LEMMA SameEdge ==
    ASSUME NEW s \in Socket, NEW s2, s2.rcvNxt = s.rcvNxt, s2.recvBuf = s.recvBuf
    PROVE  RightEdge(s) <= RightEdge(s2)
PROOF
    <1>1. s.rcvNxt \in Nat /\ Len(s.recvBuf) \in Nat /\ RECV_BUF_CAP \in Nat
        BY SocketFields, LenProperties, SocketConstants DEF SocketConstants
    <1> QED  BY <1>1 DEF RightEdge, getRecvBufAvailable

\* Reading makes room, and a byte taken into the buffer moves rcvNxt_ by what
\* it costs in room: no step moves a right edge to the left.
LEMMA EdgeForward ==
    ASSUME Paired, PairNext, NEW x \in Ends
    PROVE  RightEdge(sock[x]) <= RightEdge(sock'[x])
PROOF
    <1>1. PICK e \in Ends :
            \/ AppAccept(e) \/ AppClose(e) \/ retransmissionTick(e)
            \/ \E len : AppWrite(e, len) \/ AppRead(e, len)
            \/ \E i : \/ onAckOfFin(e, i) \/ onAckOfNew(e, i) \/ onAckOfOld(e, i)
                      \/ onDataAccepted(e, i) \/ onFinTaken(e, i) \/ Idle(e, i)
        BY NextCases
    <1> DEFINE s == sock[e]
               Forward == \E s2 : Becomes(e, s2) /\ RightEdge(s) <= RightEdge(s2)
    <1>2. s \in Socket /\ sock[x] \in Socket /\ Ends = {e, Peer(e)}
        BY Parts, EndsPeer
    <1>3. s.rcvNxt \in Nat /\ Len(s.recvBuf) \in Nat /\ RECV_BUF_CAP \in Nat
        BY <1>2, SocketFields, LenProperties, SocketConstants DEF SocketConstants
    <1>4. ASSUME Forward  PROVE  RightEdge(sock[x]) <= RightEdge(sock'[x])
        <2>1. RightEdge(sock[x]) <= RightEdge(sock[x])
            BY <1>2, SameEdge
        <2> QED  BY <1>2, <1>4, <2>1 DEF Becomes
    <1>5. ASSUME NEW s2, Becomes(e, s2), Kept(s, s2)  PROVE  Forward
        BY <1>2, <1>5, SameEdge DEF Kept
    <1>6. CASE AppAccept(e)
        BY <1>4, <1>5, <1>6, AppAcceptEffect
    <1>7. CASE AppClose(e)
        BY <1>4, <1>5, <1>7, AppCloseEffect
    <1>8. CASE retransmissionTick(e)
        BY <1>4, <1>5, <1>8, RetransmissionTickEffect
    <1>9. ASSUME NEW len, AppWrite(e, len)  PROVE  Forward
        BY <1>5, <1>9, AppWriteEffect
    <1>10. ASSUME NEW len, AppRead(e, len)  PROVE  Forward
        <2>1. PICK s2 : /\ Becomes(e, s2) /\ s2.rcvNxt = s.rcvNxt
                        /\ Len(s2.recvBuf) \in Nat /\ Len(s2.recvBuf) <= Len(s.recvBuf)
            BY <1>10, AppReadEffect
        <2>2. RightEdge(s) <= RightEdge(s2)
            BY <1>3, <2>1 DEF RightEdge, getRecvBufAvailable
        <2> QED  BY <2>1, <2>2
    <1>11. ASSUME NEW i, onAckOfFin(e, i)  PROVE  Forward
        BY <1>2, <1>11, OnAckOfFinEffect, SameEdge
    <1>12. ASSUME NEW i, onAckOfNew(e, i)  PROVE  Forward
        BY <1>5, <1>12, OnAckOfNewEffect
    <1>13. ASSUME NEW i, onAckOfOld(e, i)  PROVE  Forward
        BY <1>5, <1>13, OnAckOfOldEffect
    <1>14. ASSUME NEW i, onDataAccepted(e, i)  PROVE  Forward
        <2> DEFINE n == Len(net[e][i].data)
                   s2 == appendToRecvBuf(s, net[e][i].data)
        <2>1. n \in Nat
            BY <1>14, OnDataAcceptedEffect
        <2>2. /\ Becomes(e, s2) /\ s2.rcvNxt = s.rcvNxt + n
              /\ Len(s2.recvBuf) = Len(s.recvBuf) + n
            BY <1>14, OnDataAcceptedEffect
        <2> HIDE DEF n, s2
        <2>3. RightEdge(s2) = (s.rcvNxt + n) + (RECV_BUF_CAP - (Len(s.recvBuf) + n))
            BY <2>2 DEF RightEdge, getRecvBufAvailable
        <2>4. RightEdge(s) = s.rcvNxt + (RECV_BUF_CAP - Len(s.recvBuf))
            BY DEF RightEdge, getRecvBufAvailable
        <2>5. RightEdge(s) <= RightEdge(s2)
            BY <1>3, <2>1, <2>3, <2>4
        <2> QED  BY <2>2, <2>5
    <1>15. ASSUME NEW i, onFinTaken(e, i)  PROVE  Forward
        BY <1>2, <1>15, OnFinTakenEffect, SameEdge
    <1>16. ASSUME NEW i, Idle(e, i)  PROVE  RightEdge(sock[x]) <= RightEdge(sock'[x])
        BY <1>2, <1>16, IdleEffect, SameEdge DEF SocketsKept
    <1> QED  BY <1>1, <1>4, <1>6, <1>7, <1>8, <1>9, <1>10, <1>11, <1>12, <1>13,
                <1>14, <1>15, <1>16

-----------------------------------------------------------------------------
(* The refinement. *)

\* Right after the handshake both streams are empty and open.
LEMMA InitImplements ==
    ASSUME Init
    PROVE  Stream!Init
PROOF
    <1> DEFINE s0 == initAccepted(NewSocket)
    <1>1. /\ s0.rcvNxt = 1 /\ s0.finSeq = -1 /\ s0.peerFinReceived = FALSE
          /\ s0.state = "ESTABLISHED"
        BY DEF initAccepted, NewSocket
    <1> HIDE DEF s0
    <1>2. \A e \in Ends : sock[e] = s0 /\ established[e] = TRUE
        BY DEF Init, s0
    <1>3. pos = [e \in Ends |-> 0] /\ got = [e \in Ends |-> <<>>]
        BY DEF Init
    <1>4. /\ s0.rcvNxt - 1 = 0 /\ (s0.finSeq >= 0) = FALSE
          /\ (s0.state = "CLOSED") = FALSE
        BY <1>1
    <1>5. delivered = [e \in Ends |-> 0] /\ ended = [e \in Ends |-> FALSE]
        BY <1>2, <1>4 DEF delivered, ended
    <1>6. /\ notified = [e \in Ends |-> FALSE] /\ eof = [e \in Ends |-> FALSE]
          /\ finished = [e \in Ends |-> FALSE]
        BY <1>1, <1>2, <1>4 DEF notified, eof, finished
    <1> QED  BY <1>3, <1>5, <1>6 DEF Stream!Init

\* A step of e changes the abstract state at e only.
LEMMA ViewStep ==
    ASSUME Paired, NEW e \in Ends, NEW s2, Becomes(e, s2),
           NEW b \in BOOLEAN, established' = [established EXCEPT ![e] = b]
    PROVE  /\ delivered' = [delivered EXCEPT ![e] = s2.rcvNxt - 1]
           /\ ended' = [ended EXCEPT ![e] = s2.finSeq >= 0]
           /\ notified' = [notified EXCEPT ![e] = s2.peerFinReceived]
           /\ eof' = [eof EXCEPT ![e] = s2.state = "CLOSED" /\ b]
           /\ finished' = [finished EXCEPT ![e] = ~b]
PROOF
    <1>1. /\ \A x \in Ends : x = e \/ x = Peer(e)
          /\ Peer(e) \in Ends /\ Peer(e) # e
        BY EndsPeer
    <1>2. established \in [Ends -> BOOLEAN]
        BY DEF Paired, PairTypes
    <1>3. /\ sock'[e] = s2 /\ sock'[Peer(e)] = sock[Peer(e)]
          /\ established'[e] = b /\ established'[Peer(e)] = established[Peer(e)]
        BY <1>1, <1>2 DEF Becomes
    <1>4. delivered' = [delivered EXCEPT ![e] = s2.rcvNxt - 1]
        BY <1>1, <1>3 DEF delivered
    <1>5. ended' = [ended EXCEPT ![e] = s2.finSeq >= 0]
        BY <1>1, <1>3 DEF ended
    <1>6. notified' = [notified EXCEPT ![e] = s2.peerFinReceived]
        BY <1>1, <1>3 DEF notified
    <1>7. eof' = [eof EXCEPT ![e] = s2.state = "CLOSED" /\ b]
        BY <1>1, <1>3 DEF eof
    <1>8. finished' = [finished EXCEPT ![e] = ~b]
        BY <1>1, <1>3 DEF finished
    <1> QED  BY <1>4, <1>5, <1>6, <1>7, <1>8

\* The same, for a step that leaves the table alone and may end e's stream.
LEMMA QuietView ==
    ASSUME Paired, NEW e \in Ends, NEW s2, Becomes(e, s2),
           established' = established,
           s2.rcvNxt = sock[e].rcvNxt,
           s2.peerFinReceived = sock[e].peerFinReceived,
           s2.state = "CLOSED" <=> sock[e].state = "CLOSED"
    PROVE  /\ UNCHANGED <<delivered, notified, eof, finished>>
           /\ s2.finSeq = sock[e].finSeq => ended' = ended
           /\ s2.finSeq >= 0 => ended' = [ended EXCEPT ![e] = TRUE]
PROOF
    <1>1. established[e] \in BOOLEAN /\ established = [established EXCEPT ![e] = established[e]]
        BY DEF Paired, PairTypes
    <1>2. /\ delivered' = [delivered EXCEPT ![e] = s2.rcvNxt - 1]
          /\ ended' = [ended EXCEPT ![e] = s2.finSeq >= 0]
          /\ notified' = [notified EXCEPT ![e] = s2.peerFinReceived]
          /\ eof' = [eof EXCEPT ![e] = s2.state = "CLOSED" /\ established[e]]
          /\ finished' = [finished EXCEPT ![e] = ~established[e]]
        BY <1>1, ViewStep
    <1>3. delivered' = delivered
        BY <1>2 DEF delivered
    <1>4. notified' = notified
        BY <1>2 DEF notified
    <1>5. eof' = eof
        BY <1>2 DEF eof
    <1>6. finished' = finished
        BY <1>2 DEF finished
    <1>7. s2.finSeq = sock[e].finSeq => ended' = ended
        BY <1>2 DEF ended
    <1>8. s2.finSeq >= 0 => (s2.finSeq >= 0) = TRUE
        OBVIOUS
    <1> QED  BY <1>2, <1>3, <1>4, <1>5, <1>6, <1>7, <1>8

\* A step of the connection is a step of the streams, or none.
Implements == Stream!Next \/ UNCHANGED Stream!vars

\* Most steps are none.
LEMMA Stutters ==
    ASSUME Paired, NEW e \in Ends, NEW s2, Becomes(e, s2), Kept(sock[e], s2),
           s2.finSeq = sock[e].finSeq,
           established' = established, pos' = pos, got' = got
    PROVE  Implements
PROOF
    <1>1. UNCHANGED <<delivered, notified, eof, finished, ended>>
        BY QuietView DEF Kept
    <1> QED  BY <1>1 DEF Implements, Stream!vars

\* A stream ends when its last byte has been acknowledged, and so has arrived.
LEMMA FinEnds ==
    ASSUME Paired, Paired', NEW e \in Ends, NEW s2, Becomes(e, s2),
           Kept(sock[e], s2), FinMayGo(sock[e], s2), s2.sndNxt = sock[e].sndNxt,
           established' = established, pos' = pos, got' = got
    PROVE  Implements
PROOF
    <1> DEFINE s == sock[e]
               t == sock[Peer(e)]
    <1>1. CASE s2.finSeq = s.finSeq
        BY <1>1, Stutters
    <1>2. CASE s.finSeq < 0 /\ s2.finSeq = s.sndNxt /\ s2.sndUna = s2.sndNxt
        <2>1. /\ s \in Socket /\ t \in Socket /\ Peer(e) \in Ends
              /\ pos[e] = s.sndNxt - 1
            BY Parts
        <2>2. s.sndNxt \in Nat /\ t.rcvNxt \in Nat /\ s.finSeq \in Nat \cup {-1}
            BY <2>1, SocketFields
        <2>3. PairOK(s2, t)
            <3>1. PairOK(sock[e], sock[Peer(e)])'
                BY DEF Paired, PairInv
            <3> QED  BY <3>1 DEF Becomes
        <2>4. t.rcvNxt - 1 = pos[e]
            BY <1>2, <2>1, <2>2, <2>3 DEF PairOK
        <2>5. delivered[Peer(e)] = pos[e] /\ ~ended[e]
            <3>1. delivered[Peer(e)] = pos[e]
                BY <2>1, <2>4 DEF delivered
            <3>2. ~(s.finSeq >= 0)
                BY <1>2, <2>2
            <3> QED  BY <3>1, <3>2 DEF ended
        <2>6. /\ UNCHANGED <<delivered, notified, eof, finished>>
              /\ ended' = [ended EXCEPT ![e] = TRUE]
            BY <1>2, <2>2, QuietView DEF Kept
        <2>7. Stream!End(e)
            BY <2>5, <2>6 DEF Stream!End
        <2> QED  BY <2>7 DEF Implements, Stream!Next
    <1> QED  BY <1>1, <1>2 DEF FinMayGo

\* write() puts bytes into a stream that has not ended.
LEMMA WritePuts ==
    ASSUME Paired, NEW e \in Ends, NEW len, AppWrite(e, len)
    PROVE  Implements
PROOF
    <1> DEFINE s == sock[e]
               n == writable(s, len)
    <1>1. s \in Socket /\ FinOK(s) /\ pos[e] \in Nat /\ pos \in [Ends -> Nat]
        BY Parts DEF Paired, PairTypes
    <1>2. Amount[e] \in Nat
        BY StreamConstants DEF StreamConstants
    <1>3. /\ s.state = "ESTABLISHED" /\ len \in 1 .. Amount[e] - pos[e]
          /\ pos' = [pos EXCEPT ![e] = @ + n]
          /\ established' = established /\ got' = got
        BY DEF AppWrite
    <1>4. /\ n \in Nat /\ n > 0 /\ n <= len
          /\ \E s2 : Becomes(e, s2) /\ Kept(s, s2) /\ s2.finSeq = s.finSeq
        BY AppWriteEffect
    <1> HIDE DEF n
    <1>5. UNCHANGED <<delivered, ended, notified, eof, finished>>
        BY <1>3, <1>4, QuietView DEF Kept
    <1>6. ~ended[e]
        BY <1>1, <1>3, NotFinished DEF ended
    <1>7. pos[e] + n \in pos[e] + 1 .. Amount[e]
        BY <1>1, <1>2, <1>3, <1>4
    <1>8. Stream!Put(e)
        BY <1>3, <1>5, <1>6, <1>7 DEF Stream!Put
    <1> QED  BY <1>8 DEF Implements, Stream!Next

\* A segment that is taken delivers bytes that were sent.
LEMMA DataDelivers ==
    ASSUME Paired, Paired', NEW e \in Ends, NEW i, onDataAccepted(e, i)
    PROVE  Implements
PROOF
    <1> DEFINE s == sock[e]
               t == sock[Peer(e)]
               n == Len(net[e][i].data)
               s2 == appendToRecvBuf(s, net[e][i].data)
    <1>1. /\ s \in Socket /\ t \in Socket /\ Peer(e) \in Ends /\ Peer(Peer(e)) = e
          /\ established[e] \in BOOLEAN
          /\ established = [established EXCEPT ![e] = established[e]]
          /\ pos[Peer(e)] = t.sndNxt - 1
        BY Parts DEF Paired, PairTypes
    <1>2. n \in Nat /\ n > 0
        BY OnDataAcceptedEffect
    <1>3. /\ Becomes(e, s2) /\ SenderKept(s, s2) /\ s2.rcvNxt = s.rcvNxt + n
          /\ s2.peerFinReceived = s.peerFinReceived /\ s2.state = s.state
        BY OnDataAcceptedEffect
    <1>4. established' = established /\ pos' = pos /\ got' = got
        BY DEF onDataAccepted
    <1> HIDE DEF n, s2
    <1>5. /\ delivered' = [delivered EXCEPT ![e] = s2.rcvNxt - 1]
          /\ ended' = [ended EXCEPT ![e] = s2.finSeq >= 0]
          /\ notified' = [notified EXCEPT ![e] = s2.peerFinReceived]
          /\ eof' = [eof EXCEPT ![e] = s2.state = "CLOSED" /\ established[e]]
          /\ finished' = [finished EXCEPT ![e] = ~established[e]]
        BY <1>1, <1>3, <1>4, ViewStep
    <1>6. /\ ended' = ended /\ notified' = notified
        BY <1>3, <1>5 DEF ended, notified, SenderKept
    <1>7. eof' = eof /\ finished' = finished
        <2>1. eof' = eof
            BY <1>3, <1>5 DEF eof
        <2>2. finished' = finished
            BY <1>5 DEF finished
        <2> QED  BY <2>1, <2>2
    <1>8. PairOK(t, s2)
        <2>1. PairOK(sock[Peer(e)], sock[Peer(Peer(e))])'
            BY <1>1 DEF Paired, PairInv
        <2> QED  BY <1>1, <1>3, <2>1 DEF Becomes
    <1>9. s.rcvNxt \in Nat /\ t.sndNxt \in Nat
        BY <1>1, SocketFields
    <1>10. s2.rcvNxt - 1 \in delivered[e] + 1 .. pos[Peer(e)]
        BY <1>1, <1>2, <1>3, <1>8, <1>9 DEF PairOK, delivered
    <1>11. Stream!Deliver(e)
        BY <1>4, <1>5, <1>6, <1>7, <1>10 DEF Stream!Deliver
    <1> QED  BY <1>11 DEF Implements, Stream!Next

\* A FIN tells the end of a stream that has ended, once.
LEMMA FinNotifies ==
    ASSUME Paired, NEW e \in Ends, NEW i, onFinTaken(e, i)
    PROVE  Implements
PROOF
    <1> DEFINE s == sock[e]
    <1>1. /\ s \in Socket /\ Peer(e) \in Ends /\ established[e] \in BOOLEAN
          /\ established = [established EXCEPT ![e] = established[e]]
        BY Parts DEF Paired, PairTypes
    <1>2. sock[Peer(e)].finSeq >= 0
        BY OnFinTakenEffect
    <1>3. PICK s2 : /\ Becomes(e, s2) /\ SenderKept(s, s2)
                    /\ s2.rcvNxt = s.rcvNxt /\ s2.recvBuf = s.recvBuf
                    /\ s2.peerFinReceived = TRUE
                    /\ s2.state = "CLOSED" <=> s.state = "CLOSED"
        BY OnFinTakenEffect
    <1>4. established' = established /\ pos' = pos /\ got' = got
        BY DEF onFinTaken
    <1>5. CASE s.peerFinReceived
        <2>1. Kept(s, s2) /\ s2.finSeq = s.finSeq
            BY <1>1, <1>3, <1>5 DEF Kept, SenderKept, Socket
        <2> QED  BY <1>3, <1>4, <2>1, Stutters
    <1>6. CASE ~s.peerFinReceived
        <2>1. /\ delivered' = [delivered EXCEPT ![e] = s2.rcvNxt - 1]
              /\ ended' = [ended EXCEPT ![e] = s2.finSeq >= 0]
              /\ notified' = [notified EXCEPT ![e] = s2.peerFinReceived]
              /\ eof' = [eof EXCEPT ![e] = s2.state = "CLOSED" /\ established[e]]
              /\ finished' = [finished EXCEPT ![e] = ~established[e]]
            BY <1>1, <1>3, <1>4, ViewStep
        <2>2. delivered' = delivered /\ ended' = ended
            <3>1. delivered' = delivered
                BY <1>3, <2>1 DEF delivered
            <3>2. ended' = ended
                BY <1>3, <2>1 DEF ended, SenderKept
            <3> QED  BY <3>1, <3>2
        <2>3. eof' = eof /\ finished' = finished
            <3>1. eof' = eof
                BY <1>3, <2>1 DEF eof
            <3>2. finished' = finished
                BY <2>1 DEF finished
            <3> QED  BY <3>1, <3>2
        <2>4. notified' = [notified EXCEPT ![e] = TRUE]
            BY <1>3, <2>1
        <2>5. ended[Peer(e)] /\ ~notified[e]
            BY <1>1, <1>2, <1>6 DEF ended, notified
        <2>6. Stream!Notify(e)
            BY <1>4, <2>2, <2>3, <2>4, <2>5 DEF Stream!Notify
        <2> QED  BY <2>6 DEF Implements, Stream!Next
    <1> QED  BY <1>5, <1>6

\* The acknowledgement of the FIN tells that the peer has the whole stream.
LEMMA AckFinishes ==
    ASSUME Paired, NEW e \in Ends, NEW i, onAckOfFin(e, i)
    PROVE  Implements
PROOF
    <1> DEFINE s == sock[e]
    <1>1. s \in Socket /\ Peer(e) \in Ends
        BY Parts
    <1>2. isOpen(s) /\ sock[Peer(e)].peerFinReceived
        BY OnAckOfFinEffect
    <1>3. PICK s2 : /\ Becomes(e, s2) /\ SenderKept(s, s2)
                    /\ s2.rcvNxt = s.rcvNxt /\ s2.recvBuf = s.recvBuf
                    /\ s2.peerFinReceived = s.peerFinReceived
        BY OnAckOfFinEffect
    <1>4. /\ established[e] /\ established' = [established EXCEPT ![e] = FALSE]
          /\ pos' = pos /\ got' = got
        BY DEF onAckOfFin
    <1>5. /\ delivered' = [delivered EXCEPT ![e] = s2.rcvNxt - 1]
          /\ ended' = [ended EXCEPT ![e] = s2.finSeq >= 0]
          /\ notified' = [notified EXCEPT ![e] = s2.peerFinReceived]
          /\ eof' = [eof EXCEPT ![e] = s2.state = "CLOSED" /\ FALSE]
          /\ finished' = [finished EXCEPT ![e] = ~FALSE]
        BY <1>3, <1>4, ViewStep
    <1>6. delivered' = delivered /\ ended' = ended /\ notified' = notified
        <2>1. delivered' = delivered
            BY <1>3, <1>5 DEF delivered
        <2>2. ended' = ended
            BY <1>3, <1>5 DEF ended, SenderKept
        <2>3. notified' = notified
            BY <1>3, <1>5 DEF notified
        <2> QED  BY <2>1, <2>2, <2>3
    <1>7. eof' = eof
        BY <1>2, <1>5 DEF eof, isOpen
    <1>8. finished' = [finished EXCEPT ![e] = TRUE]
        BY <1>5
    <1>9. notified[Peer(e)] /\ ~finished[e]
        BY <1>1, <1>2, <1>4 DEF notified, finished
    <1>10. Stream!Finish(e)
        BY <1>4, <1>6, <1>7, <1>8, <1>9 DEF Stream!Finish
    <1> QED  BY <1>10 DEF Implements, Stream!Next

\* read() takes bytes in order, and finds the end of the stream exactly when the
\* FIN is known and every byte the peer sent has been read.
LEMMA ReadTakes ==
    ASSUME Paired, Paired', NEW e \in Ends, NEW len, AppRead(e, len)
    PROVE  Implements
PROOF
    <1> DEFINE s == sock[e]
               t == sock[Peer(e)]
               n == Len(got'[e])
    <1>1. /\ s \in Socket /\ t \in Socket /\ Peer(e) \in Ends
          /\ got \in [Ends -> Seq(Byte)] /\ got[e] \in Seq(Byte)
          /\ ReadOK(s, got[e]) /\ PairOK(t, s) /\ pos[Peer(e)] = t.sndNxt - 1
          /\ WindowOK(t) /\ FinOK(t)
          /\ established = [established EXCEPT ![e] = established[e]]
        BY Parts DEF Paired, PairTypes
    <1>2. isOpen(s) /\ established[e] = TRUE
        BY AppReadEffect, Parts
    <1>3. PICK s2 : /\ Becomes(e, s2) /\ SenderKept(s, s2)
                    /\ s2.rcvNxt = s.rcvNxt
                    /\ s2.peerFinReceived = s.peerFinReceived
                    /\ Len(s2.recvBuf) \in Nat /\ Len(s2.recvBuf) <= Len(s.recvBuf)
                    /\ s2.state = "CLOSED" <=> s.peerFinReceived /\ Len(s2.recvBuf) = 0
        BY AppReadEffect
    <1>4. /\ established' = established /\ pos' = pos
          /\ got' = [got EXCEPT ![e] = got'[e]]
        BY <1>1 DEF AppRead
    <1>5. got'[e] \in Seq(Byte) /\ ReadOK(s2, got'[e])
        <2>1. /\ (sock[e] \in Socket)' /\ (got[e] \in Seq(Byte))'
              /\ ReadOK(sock[e], got[e])'
            BY DEF Paired, PairTypes, PairInv
        <2> QED  BY <1>3, <2>1 DEF Becomes
    <1>6. /\ n \in Nat /\ s.rcvNxt = 1 + n + Len(s2.recvBuf)
          /\ \A k \in 1 .. n : got'[e][k] = k
        BY <1>3, <1>5, LenProperties DEF ReadOK
    <1>7. /\ Len(got[e]) \in Nat /\ Len(s.recvBuf) \in Nat
          /\ s.rcvNxt = 1 + Len(got[e]) + Len(s.recvBuf)
          /\ s.rcvNxt \in Nat /\ t.sndNxt \in Nat
        BY <1>1, LenProperties, SocketFields DEF ReadOK
    <1>8. got'[e] = [k \in 1 .. n |-> k]
        <2> DEFINE g == got'[e]
        <2>1. g \in Seq(Byte) /\ \A k \in 1 .. Len(g) : g[k] = k
            BY <1>5, <1>6
        <2> HIDE DEF g
        <2>2. g = [k \in 1 .. Len(g) |-> g[k]]
            BY <2>1
        <2>3. g = [k \in 1 .. Len(g) |-> k]
            BY <2>1, <2>2
        <2> QED  BY <2>3 DEF g
    <1> HIDE DEF n
    <1>9. n \in Len(got[e]) .. delivered[e]
        <2> DEFINE a == Len(got[e])
                   b == Len(s.recvBuf)
                   c == Len(s2.recvBuf)
        <2>1. delivered[e] = s.rcvNxt - 1
            BY DEF delivered
        <2>2. s.rcvNxt = 1 + n + c /\ s.rcvNxt = 1 + a + b /\ c <= b
            BY <1>3, <1>6, <1>7
        <2>3. n \in Nat /\ a \in Nat /\ b \in Nat /\ c \in Nat
            BY <1>3, <1>6, <1>7
        <2> HIDE DEF a, b, c
        <2>4. delivered[e] = n + c
            BY <2>1, <2>2, <2>3
        <2> QED  BY <2>2, <2>3, <2>4 DEF a
    <1>10. s.peerFinReceived => s.rcvNxt = t.sndNxt
        <2>1. s.peerFinReceived => t.sndUna = t.sndNxt
            BY <1>1 DEF PairOK, FinOK, WindowOK
        <2>2. t.sndUna <= s.rcvNxt /\ s.rcvNxt <= t.sndNxt
            BY <1>1 DEF PairOK
        <2>3. t.sndUna \in Nat /\ t.sndNxt \in Nat /\ s.rcvNxt \in Nat
            BY <1>1, SocketFields
        <2>4. t.sndUna = t.sndNxt => s.rcvNxt = t.sndNxt
            BY <2>2, <2>3
        <2> QED  BY <2>1, <2>4
    <1>11. s2.state = "CLOSED" <=> s.peerFinReceived /\ n = pos[Peer(e)]
        BY <1>1, <1>3, <1>6, <1>7, <1>10
    <1>12. /\ delivered' = [delivered EXCEPT ![e] = s2.rcvNxt - 1]
           /\ ended' = [ended EXCEPT ![e] = s2.finSeq >= 0]
           /\ notified' = [notified EXCEPT ![e] = s2.peerFinReceived]
           /\ eof' = [eof EXCEPT ![e] = s2.state = "CLOSED" /\ TRUE]
           /\ finished' = [finished EXCEPT ![e] = ~TRUE]
        BY <1>1, <1>2, <1>3, <1>4, ViewStep
    <1>13. delivered' = delivered
        BY <1>3, <1>12 DEF delivered
    <1>14. ended' = ended
        BY <1>3, <1>12 DEF ended, SenderKept
    <1>15. notified' = notified
        BY <1>3, <1>12 DEF notified
    <1>16. finished' = finished
        <2>1. finished[e] = (~TRUE)
            BY <1>2 DEF finished
        <2> QED  BY <1>12, <2>1 DEF finished
    <1>17. eof' = [eof EXCEPT ![e] = notified[e] /\ n = pos[Peer(e)]]
        <2>1. notified[e] = s.peerFinReceived
            BY DEF notified
        <2>2. (s2.state = "CLOSED" /\ TRUE) = (notified[e] /\ n = pos[Peer(e)])
            BY <1>11, <2>1
        <2> QED  BY <1>12, <2>2
    <1>18. ~eof[e]
        BY <1>2 DEF eof, isOpen
    <1>19. got' = [got EXCEPT ![e] = [k \in 1 .. n |-> k]]
        BY <1>4, <1>8
    <1>20. Stream!Take(e)
        BY <1>4, <1>9, <1>13, <1>14, <1>15, <1>16, <1>17, <1>18, <1>19 DEF Stream!Take
    <1> QED  BY <1>20 DEF Implements, Stream!Next

\* Step by step: every step of the two sockets, their tables, their applications
\* and the network between them is a step of the two streams, or none.
LEMMA NextImplements ==
    ASSUME Paired, Paired', PairNext
    PROVE  Implements
PROOF
    <1>1. PICK e \in Ends :
            \/ AppAccept(e) \/ AppClose(e) \/ retransmissionTick(e)
            \/ \E len : AppWrite(e, len) \/ AppRead(e, len)
            \/ \E i : \/ onAckOfFin(e, i) \/ onAckOfNew(e, i) \/ onAckOfOld(e, i)
                      \/ onDataAccepted(e, i) \/ onFinTaken(e, i) \/ Idle(e, i)
        BY NextCases
    <1>2. CASE AppAccept(e)
        <2>1. established' = established /\ pos' = pos /\ got' = got
            BY <1>2 DEF AppAccept
        <2> QED  BY <1>2, <2>1, AppAcceptEffect, Stutters DEF SenderKept
    <1>3. CASE AppClose(e)
        <2>1. established' = established /\ pos' = pos /\ got' = got
            BY <1>3 DEF AppClose
        <2> QED  BY <1>3, <2>1, AppCloseEffect, FinEnds
    <1>4. CASE retransmissionTick(e)
        <2>1. established' = established /\ pos' = pos /\ got' = got
            BY <1>4 DEF retransmissionTick
        <2> QED  BY <1>4, <2>1, RetransmissionTickEffect, Stutters DEF SenderKept
    <1>5. ASSUME NEW i, onAckOfNew(e, i)  PROVE  Implements
        <2>1. established' = established /\ pos' = pos /\ got' = got
            BY <1>5 DEF onAckOfNew
        <2> QED  BY <1>5, <2>1, OnAckOfNewEffect, FinEnds
    <1>6. ASSUME NEW i, onAckOfOld(e, i)  PROVE  Implements
        <2>1. established' = established /\ pos' = pos /\ got' = got
            BY <1>6 DEF onAckOfOld
        <2> QED  BY <1>6, <2>1, OnAckOfOldEffect, Stutters
    <1>7. ASSUME NEW i, Idle(e, i)  PROVE  Implements
        <2>1. sock' = sock /\ established' = established /\ pos' = pos /\ got' = got
            BY <1>7, IdleEffect DEF SocketsKept
        <2>2. UNCHANGED <<delivered, ended, notified, eof, finished>>
            BY <2>1 DEF delivered, ended, notified, eof, finished
        <2> QED  BY <2>1, <2>2 DEF Implements, Stream!vars
    <1> QED  BY <1>1, <1>2, <1>3, <1>4, <1>5, <1>6, <1>7, WritePuts, ReadTakes,
                AckFinishes, DataDelivers, FinNotifies

\* The two initial states agree, and so does every step with one child.
LEMMA ChildImplements ==
    ASSUME ConnInv, [Next]_vars, OneChild'
    PROVE  [Stream!Next]_(Stream!vars)
PROOF
    <1>1. CASE Next
        <2>1. PairNext /\ Paired /\ Paired'
            BY <1>1, NextConnInv DEF PairNext, Preserved
        <2> QED  BY <2>1, NextImplements DEF Implements
    <1>2. CASE UNCHANGED vars
        BY <1>2 DEF vars, Stream!vars, delivered, ended, notified, eof, finished
    <1> QED  BY <1>1, <1>2

\* Seen from the applications, the connection is a pair of reliable byte streams:
\* over a network that loses packets but keeps their order (the simulator's), the
\* two sockets implement ReliableStream, whatever the sizes and whoever closes
\* first.
THEOREM StreamRefined == ~Reorder /\ Spec => ReliableStreamContract
PROOF
    <1> SUFFICES ASSUME ~Reorder  PROVE  Spec => ReliableStreamContract
        OBVIOUS
    <1>1. Init => Stream!Init
        BY InitImplements
    <1>2. ConnInv /\ ConnInv' /\ [Next]_vars => [Stream!Next]_(Stream!vars)
        <2>1. ConnInv' => OneChild'
            BY DEF ConnInv, UploadInv
        <2> QED  BY <2>1, ChildImplements
    <1>3. Spec => Stream!Spec
        BY <1>1, <1>2, ConnInvariant, PTL DEF Spec, Stream!Spec
    <1> QED  BY <1>3 DEF ReliableStreamContract

\* Over UDP, which also duplicates and reorders, every step that leaves the server
\* with its first child is a step of the two streams; the first one that does not
\* is onSyn on a repeated SYN.
THEOREM RefinedUntilSyn == Spec => ContractUntilSyn
PROOF
    <1>1. Init => Stream!Init
        BY InitImplements
    <1>2. ConnInv /\ [Next]_vars => [OneChild' => Stream!Next]_(Stream!vars)
        BY ChildImplements
    <1>3. Spec => Stream!Init /\ [][OneChild' => Stream!Next]_(Stream!vars)
        BY <1>1, <1>2, ConnInvariant, PTL DEF Spec
    <1> QED  BY <1>3 DEF ContractUntilSyn

-----------------------------------------------------------------------------
(***************************************************************************)
(* Flow control: on a link that keeps the order, a sender never has more   *)
(* in flight than its receiver has room for.                               *)
(*                                                                         *)
(* The sender trusts the last window it was told of.  That is sound as     *)
(* long as every acknowledgement still on its way names a number at or     *)
(* above sndUna_ and promises no more than the receiver has room for now,  *)
(* which in turn needs the acknowledgements to arrive in the order of      *)
(* their numbers.                                                          *)
(***************************************************************************)

\* The acknowledgement of the FIN of s; its window is never looked at.
FinAck(s, pkt) == s.finSeq >= 0 /\ pkt.seq = s.finSeq + 1

\* What s has sent, and what it may send, fits the buffer of its peer t.
RoomOK(s, t) ==
    /\ s.sndNxt <= RightEdge(t)
    /\ s.sndUna + s.rwnd <= RightEdge(t)

\* The acknowledgements in q, on their way from t to s.
AcksOK(s, t, q) ==
    /\ \A j \in 1 .. Len(q) : q[j].type = "ACK" =>
            \/ FinAck(s, q[j])
            \/ s.sndUna <= q[j].seq /\ q[j].seq + q[j].window <= RightEdge(t)
    /\ \A i, j \in 1 .. Len(q) :
            i < j /\ q[i].type = "ACK" /\ q[j].type = "ACK" =>
                FinAck(s, q[i]) \/ q[i].seq <= q[j].seq

\* The inductive invariant of flow control, besides that of the pair.
FlowInv ==
    \A e \in Ends : /\ RoomOK(sock[e], sock[Peer(e)])
                    /\ AcksOK(sock[e], sock[Peer(e)], net[e])

-----------------------------------------------------------------------------
(* Queues, index by index. *)

\* Sending appends, up to the limit of the link.
LEMMA EnqueueOrder ==
    ASSUME NEW q \in Seq(Packet), NEW pkts \in Seq(Packet)
    PROVE  LET r == enqueue(q, pkts)
           IN  /\ Len(r) \in Nat /\ Len(r) <= Len(q) + Len(pkts)
               /\ \A j \in 1 .. Len(r) :
                    r[j] = IF j <= Len(q) THEN q[j] ELSE pkts[j - Len(q)]
PROOF
    <1> DEFINE all == q \o pkts
               n == min(Len(all), LinkBuf)
               r == SubSeq(all, 1, n)
    <1>1. /\ all \in Seq(Packet)
          /\ Len(all) = Len(q) + Len(pkts)
          /\ \A j \in 1 .. Len(all) :
                all[j] = IF j <= Len(q) THEN q[j] ELSE pkts[j - Len(q)]
        BY ConcatProperties
    <1>2. n \in Nat /\ n <= Len(all)
        BY <1>1, StreamConstants, LenProperties DEF StreamConstants, min
    <1> HIDE DEF all, n
    <1>3. Len(r) = n /\ \A j \in 1 .. n : r[j] = all[j]
        BY <1>1, <1>2
    <1>4. enqueue(q, pkts) = r
        BY DEF enqueue, all, n
    <1> HIDE DEF r
    <1> QED  BY <1>1, <1>2, <1>3, <1>4

\* Taking packet i out moves the later ones up by one.
LEMMA RemoveOrder ==
    ASSUME NEW q \in Seq(Packet), NEW i \in 1 .. Len(q)
    PROVE  LET r == RemoveAt(q, i)
           IN  /\ Len(r) = Len(q) - 1
               /\ \A j \in 1 .. Len(r) : r[j] = IF j < i THEN q[j] ELSE q[j + 1]
PROOF
    <1> DEFINE a == SubSeq(q, 1, i - 1)
               b == SubSeq(q, i + 1, Len(q))
               r == a \o b
    <1>1. /\ a \in Seq(Packet) /\ Len(a) = i - 1
          /\ \A j \in 1 .. i - 1 : a[j] = q[j]
        OBVIOUS
    <1>2. /\ b \in Seq(Packet) /\ Len(b) = Len(q) - i
          /\ \A j \in 1 .. Len(q) - i : b[j] = q[i + j]
        <2>1. b \in Seq(Packet) /\ Len(b) = Len(q) - i
            BY SubSeqProperties, LenProperties
        <2>2. ASSUME NEW j \in 1 .. Len(q) - i  PROVE  b[j] = q[i + j]
            <3>1. \A k \in i + 1 .. Len(q) : q[k] \in Packet
                OBVIOUS
            <3>2. b[j] = q[(i + 1) + j - 1]
                BY <3>1, SubSeqProperties, LenProperties
            <3> QED  BY <3>2
        <2> QED  BY <2>1, <2>2
    <1> HIDE DEF a, b
    <1>3. /\ Len(r) = Len(a) + Len(b)
          /\ \A j \in 1 .. Len(a) + Len(b) :
                r[j] = IF j <= Len(a) THEN a[j] ELSE b[j - Len(a)]
        BY <1>1, <1>2, ConcatProperties
    <1>4. RemoveAt(q, i) = r
        BY DEF RemoveAt, r, a, b
    <1> HIDE DEF r
    <1>5. Len(r) = Len(q) - 1
        BY <1>1, <1>2, <1>3, LenProperties
    <1>6. ASSUME NEW j \in 1 .. Len(r)
          PROVE  r[j] = IF j < i THEN q[j] ELSE q[j + 1]
        <2>1. CASE j < i
            BY <1>1, <1>3, <1>5, <2>1
        <2>2. CASE ~(j < i)
            <3>1. j - (i - 1) \in 1 .. Len(q) - i /\ i + (j - (i - 1)) = j + 1
                BY <1>5, <2>2
            <3> QED  BY <1>1, <1>2, <1>3, <1>5, <2>2, <3>1
        <2> QED  BY <2>1, <2>2
    <1> QED  BY <1>4, <1>5, <1>6

-----------------------------------------------------------------------------
(* Acknowledgements on their way. *)

\* An edge is a number.
LEMMA EdgeType ==
    ASSUME NEW t \in Socket
    PROVE  RightEdge(t) \in Int
PROOF
    <1>1. t.rcvNxt \in Nat /\ Len(t.recvBuf) \in Nat /\ RECV_BUF_CAP \in Nat
        BY SocketFields, LenProperties, SocketConstants DEF SocketConstants
    <1> QED  BY <1>1 DEF RightEdge, getRecvBufAvailable

\* They stay good when the receiver's edge moves right and sndUna_ stays.
LEMMA AcksForward ==
    ASSUME NEW s \in Socket, NEW s2 \in Socket, NEW t \in Socket, NEW t2 \in Socket,
           NEW q \in Seq(Packet), AcksOK(s, t, q),
           s2.sndUna = s.sndUna, s.finSeq >= 0 => s2.finSeq = s.finSeq,
           RightEdge(t) <= RightEdge(t2)
    PROVE  AcksOK(s2, t2, q)
PROOF
    <1>1. RightEdge(t) \in Int /\ RightEdge(t2) \in Int
        BY EdgeType
    <1>2. \A j \in 1 .. Len(q) : q[j].seq \in Nat /\ q[j].window \in Nat
        <2>1. \A j \in 1 .. Len(q) : q[j] \in Packet
            OBVIOUS
        <2> QED  BY <2>1 DEF Packet
    <1>3. ASSUME NEW pkt, FinAck(s, pkt)  PROVE  FinAck(s2, pkt)
        BY <1>3 DEF FinAck
    <1>4. ASSUME NEW j \in 1 .. Len(q), q[j].type = "ACK", ~FinAck(s2, q[j])
          PROVE  s2.sndUna <= q[j].seq /\ q[j].seq + q[j].window <= RightEdge(t2)
        <2>1. s.sndUna <= q[j].seq /\ q[j].seq + q[j].window <= RightEdge(t)
            BY <1>3, <1>4 DEF AcksOK
        <2>2. q[j].seq + q[j].window \in Int
            BY <1>2
        <2> QED  BY <1>1, <2>1, <2>2
    <1>5. ASSUME NEW i \in 1 .. Len(q), NEW j \in 1 .. Len(q), i < j,
                 q[i].type = "ACK", q[j].type = "ACK"
          PROVE  FinAck(s2, q[i]) \/ q[i].seq <= q[j].seq
        BY <1>3, <1>5 DEF AcksOK
    <1> QED  BY <1>4, <1>5 DEF AcksOK

\* They stay good when one of them is taken or lost.
LEMMA AcksRemove ==
    ASSUME NEW s, NEW t, NEW q \in Seq(Packet), NEW i \in 1 .. Len(q), AcksOK(s, t, q)
    PROVE  AcksOK(s, t, RemoveAt(q, i))
PROOF
    <1> DEFINE r == RemoveAt(q, i)
               old(j) == IF j < i THEN j ELSE j + 1
    <1>1. Len(r) = Len(q) - 1 /\ \A j \in 1 .. Len(r) : r[j] = q[old(j)]
        BY RemoveOrder
    <1>2. \A j \in 1 .. Len(r) : old(j) \in 1 .. Len(q)
        BY <1>1
    <1>3. \A j, k \in 1 .. Len(r) : j < k => old(j) < old(k)
        BY <1>1
    <1> HIDE DEF r, old
    <1> QED  BY <1>1, <1>2, <1>3 DEF AcksOK, r

\* They stay good when good ones are sent after them.
LEMMA AcksEnqueue ==
    ASSUME NEW s, NEW t, NEW q \in Seq(Packet), NEW pkts \in Seq(Packet),
           AcksOK(s, t, q), AcksOK(s, t, pkts),
           \A i \in 1 .. Len(q), k \in 1 .. Len(pkts) :
                q[i].type = "ACK" /\ pkts[k].type = "ACK" =>
                    FinAck(s, q[i]) \/ q[i].seq <= pkts[k].seq
    PROVE  AcksOK(s, t, enqueue(q, pkts))
PROOF
    <1> DEFINE r == enqueue(q, pkts)
    <1>1. /\ Len(r) \in Nat /\ Len(r) <= Len(q) + Len(pkts)
          /\ \A j \in 1 .. Len(r) : r[j] = IF j <= Len(q) THEN q[j] ELSE pkts[j - Len(q)]
        BY EnqueueOrder
    <1> HIDE DEF r
    <1>2. Len(q) \in Nat /\ Len(pkts) \in Nat
        BY LenProperties
    <1>3. \A j \in 1 .. Len(r) :
            \/ j \in 1 .. Len(q) /\ r[j] = q[j]
            \/ ~(j <= Len(q)) /\ j - Len(q) \in 1 .. Len(pkts) /\ r[j] = pkts[j - Len(q)]
        BY <1>1, <1>2
    <1>4. ASSUME NEW j \in 1 .. Len(r), r[j].type = "ACK"
          PROVE  \/ FinAck(s, r[j])
                 \/ s.sndUna <= r[j].seq /\ r[j].seq + r[j].window <= RightEdge(t)
        BY <1>3, <1>4 DEF AcksOK
    <1>5. ASSUME NEW i \in 1 .. Len(r), NEW j \in 1 .. Len(r), i < j,
                 r[i].type = "ACK", r[j].type = "ACK"
          PROVE  FinAck(s, r[i]) \/ r[i].seq <= r[j].seq
        <2>1. CASE j <= Len(q)
            <3>1. i \in 1 .. Len(q) /\ r[i] = q[i] /\ j \in 1 .. Len(q) /\ r[j] = q[j]
                BY <1>1, <1>2, <1>5, <2>1
            <3> QED  BY <1>5, <3>1 DEF AcksOK
        <2>2. CASE i <= Len(q) /\ ~(j <= Len(q))
            <3> DEFINE k == j - Len(q)
            <3>1. i \in 1 .. Len(q) /\ r[i] = q[i] /\ k \in 1 .. Len(pkts) /\ r[j] = pkts[k]
                BY <1>1, <1>2, <2>2
            <3> HIDE DEF k
            <3> QED  BY <1>5, <3>1
        <2>3. CASE ~(i <= Len(q)) /\ ~(j <= Len(q))
            <3> DEFINE h == i - Len(q)
                       k == j - Len(q)
            <3>1. /\ h \in 1 .. Len(pkts) /\ r[i] = pkts[h]
                  /\ k \in 1 .. Len(pkts) /\ r[j] = pkts[k] /\ h < k
                BY <1>1, <1>2, <1>5, <2>3
            <3> HIDE DEF h, k
            <3> QED  BY <1>5, <3>1 DEF AcksOK
        <2> QED  BY <1>2, <1>5, <2>1, <2>2, <2>3
    <1> QED  BY <1>4, <1>5 DEF AcksOK, r

\* Data and FINs are no acknowledgements.
LEMMA NoAcks ==
    ASSUME NEW s, NEW t, NEW q \in Seq(Packet), NEW pkts \in Seq(Packet),
           AcksOK(s, t, q), \A k \in 1 .. Len(pkts) : pkts[k].type # "ACK"
    PROVE  AcksOK(s, t, enqueue(q, pkts))
PROOF
    <1>1. AcksOK(s, t, pkts)
        BY DEF AcksOK
    <1> QED  BY <1>1, AcksEnqueue

\* The first packet's number becomes sndUna_: the later ones name no lower one.
LEMMA AcksTaken ==
    ASSUME NEW s \in Socket, NEW s2 \in Socket, NEW t \in Socket,
           NEW q \in Seq(Packet), 1 \in 1 .. Len(q), AcksOK(s, t, q),
           q[1].type = "ACK", ~FinAck(s, q[1]),
           s2.sndUna = q[1].seq, s.finSeq >= 0 => s2.finSeq = s.finSeq
    PROVE  AcksOK(s2, t, RemoveAt(q, 1))
PROOF
    <1> DEFINE r == RemoveAt(q, 1)
    <1>1. Len(r) = Len(q) - 1 /\ \A j \in 1 .. Len(r) : r[j] = IF j < 1 THEN q[j] ELSE q[j + 1]
        BY RemoveOrder
    <1> HIDE DEF r
    <1>2. Len(q) \in Nat
        BY LenProperties
    <1>3. \A j \in 1 .. Len(r) : /\ j + 1 \in 1 .. Len(q) /\ 1 < j + 1
                                 /\ r[j] = q[j + 1] /\ r[j] \in Packet
        BY <1>1, <1>2
    <1>4. \A j \in 1 .. Len(q) : FinAck(s, q[j]) => FinAck(s2, q[j])
        BY DEF FinAck
    <1>5. ASSUME NEW j \in 1 .. Len(r), r[j].type = "ACK"
          PROVE  \/ FinAck(s2, r[j])
                 \/ s2.sndUna <= r[j].seq /\ r[j].seq + r[j].window <= RightEdge(t)
        <2> DEFINE k == j + 1
        <2>1. k \in 1 .. Len(q) /\ 1 < k /\ r[j] = q[k]
            BY <1>3
        <2> HIDE DEF k
        <2>2. q[1].seq <= q[k].seq
            BY <1>5, <2>1 DEF AcksOK
        <2>3. FinAck(s, q[k]) \/ q[k].seq + q[k].window <= RightEdge(t)
            BY <1>5, <2>1 DEF AcksOK
        <2> QED  BY <1>4, <2>1, <2>2, <2>3
    <1>6. ASSUME NEW i \in 1 .. Len(r), NEW j \in 1 .. Len(r), i < j,
                 r[i].type = "ACK", r[j].type = "ACK"
          PROVE  FinAck(s2, r[i]) \/ r[i].seq <= r[j].seq
        <2> DEFINE h == i + 1
                   k == j + 1
        <2>1. /\ h \in 1 .. Len(q) /\ k \in 1 .. Len(q) /\ h < k
              /\ r[i] = q[h] /\ r[j] = q[k]
            BY <1>3, <1>6
        <2> HIDE DEF h, k
        <2> QED  BY <1>4, <1>6, <2>1 DEF AcksOK
    <1> QED  BY <1>5, <1>6 DEF AcksOK, r

-----------------------------------------------------------------------------
(* Steps. *)

\* What every step keeps: types, pairs, the number of a FIN, and the edges.
LEMMA StepFacts ==
    ASSUME Paired, PairNext, NEW e \in Ends
    PROVE  /\ Paired'
           /\ sock'[e] \in Socket
           /\ sock[e].finSeq >= 0 => sock'[e].finSeq = sock[e].finSeq
           /\ sock[e].rcvNxt <= sock'[e].rcvNxt
           /\ PairOK(sock'[e], sock'[Peer(e)])
           /\ RightEdge(sock[e]) <= RightEdge(sock'[e])
           /\ net'[e] \in Seq(Packet)
PROOF
    <1>1. Paired' /\ Advance(sock[e], sock'[e])
        BY PairNextOK DEF PairNext, Preserved
    <1>2. (sock \in [Ends -> Socket])' /\ (net \in [Ends -> Seq(Packet)])'
        BY <1>1 DEF Paired, PairTypes
    <1>3. PairOK(sock[e], sock[Peer(e)])'
        BY <1>1 DEF Paired, PairInv
    <1> QED  BY <1>1, <1>2, <1>3, EdgeForward DEF Advance

\* A step of e keeps FlowInv if the sending half of e still fits its peer and
\* the acknowledgements on both ways are good.
LEMMA FlowStep ==
    ASSUME Paired, FlowInv, PairNext, NEW e \in Ends, NEW s2, Becomes(e, s2),
           RoomOK(s2, sock[Peer(e)]), AcksOK(s2, sock[Peer(e)], net'[e]),
           AcksOK(sock[Peer(e)], s2, net'[Peer(e)])
    PROVE  FlowInv'
PROOF
    <1> DEFINE s == sock[e]
               p == Peer(e)
               t == sock[p]
    <1>1. /\ s \in Socket /\ t \in Socket /\ p \in Ends /\ Peer(p) = e
          /\ \A x \in Ends : x = e \/ x = p
        BY Parts, EndsPeer
    <1>2. sock'[e] = s2 /\ sock'[p] = t
        BY DEF Becomes
    <1>3. s2 \in Socket /\ RightEdge(s) <= RightEdge(s2)
        BY <1>2, StepFacts
    <1>4. RoomOK(t, s2)
        <2>1. RoomOK(t, s)
            BY <1>1 DEF FlowInv
        <2>2. /\ RightEdge(s) \in Int /\ RightEdge(s2) \in Int
              /\ t.sndNxt \in Nat /\ t.sndUna \in Nat /\ t.rwnd \in Nat
            BY <1>1, <1>3, EdgeType, SocketFields
        <2> QED  BY <1>3, <2>1, <2>2 DEF RoomOK
    <1> HIDE DEF p
    <1>5. RoomOK(sock[e], sock[p])' /\ AcksOK(sock[e], sock[p], net[e])'
        BY <1>2 DEF p
    <1>6. RoomOK(sock[p], sock[e])' /\ AcksOK(sock[p], sock[e], net[p])'
        BY <1>2, <1>4 DEF p
    <1> QED  BY <1>1, <1>5, <1>6 DEF FlowInv, p

\* Toward the peer: e sends no acknowledgement.
LEMMA SendsNoAck ==
    ASSUME Paired, FlowInv, PairNext, NEW e \in Ends,
           NEW pkts \in Seq(Packet), \A k \in 1 .. Len(pkts) : pkts[k].type # "ACK",
           net'[Peer(e)] = enqueue(net[Peer(e)], pkts) \/ net'[Peer(e)] = net[Peer(e)]
    PROVE  AcksOK(sock[Peer(e)], sock'[e], net'[Peer(e)])
PROOF
    <1> DEFINE p == Peer(e)
               t == sock[p]
    <1>1. p \in Ends /\ Peer(p) = e /\ sock[e] \in Socket /\ t \in Socket
        BY Parts
    <1>2. net[p] \in Seq(Packet)
        BY <1>1, Parts
    <1>3. sock'[e] \in Socket /\ RightEdge(sock[e]) <= RightEdge(sock'[e])
        BY StepFacts
    <1>4. AcksOK(t, sock[e], net[p])
        BY <1>1 DEF FlowInv
    <1>5. AcksOK(t, sock'[e], net[p])
        BY <1>1, <1>2, <1>3, <1>4, AcksForward
    <1>6. AcksOK(t, sock'[e], enqueue(net[p], pkts))
        BY <1>2, <1>5, NoAcks
    <1> QED  BY <1>5, <1>6

\* Toward the peer: e acknowledges all it has, with the room it has now, or the
\* peer's FIN.
LEMMA SendsAck ==
    ASSUME Paired, FlowInv, PairNext, NEW e \in Ends, NEW a \in Packet,
           sock'[Peer(e)] = sock[Peer(e)],
           a.type = "ACK",
           \/ FinAck(sock[Peer(e)], a)
           \/ /\ a.seq = sock'[e].rcvNxt
              /\ a.window = getRecvBufAvailable(sock'[e]),
           net'[Peer(e)] = enqueue(net[Peer(e)], <<a>>)
    PROVE  AcksOK(sock[Peer(e)], sock'[e], net'[Peer(e)])
PROOF
    <1> DEFINE p == Peer(e)
               s == sock[e]
               s2 == sock'[e]
               t == sock[p]
               q == net[p]
               pkts == <<a>>
    <1>1. /\ p \in Ends /\ Peer(p) = e /\ s \in Socket /\ t \in Socket
          /\ PairOK(t, s) /\ FinOK(t)
        BY Parts
    <1>2. q \in Seq(Packet) /\ \A i \in 1 .. Len(q) : q[i] \in Packet /\ PktOK(t, s, q[i])
        BY <1>1, Parts
    <1>3. s2 \in Socket /\ RightEdge(s) <= RightEdge(s2) /\ s.rcvNxt <= s2.rcvNxt
        BY StepFacts
    <1>4. PairOK(t, s2)
        BY <1>1, StepFacts
    <1>5. AcksOK(t, s, q)
        BY <1>1 DEF FlowInv
    <1>6. /\ t.sndUna \in Nat /\ t.sndNxt \in Nat /\ s.rcvNxt \in Nat /\ s2.rcvNxt \in Nat
          /\ a.seq \in Nat /\ t.finSeq \in Nat \cup {-1}
        BY <1>1, <1>3, SocketFields DEF Packet
    <1> HIDE DEF s, s2, t, q, p
    <1>7. AcksOK(t, s2, q)
        BY <1>1, <1>2, <1>3, <1>5, AcksForward
    <1>8. pkts \in Seq(Packet) /\ Len(pkts) = 1 /\ pkts[1] = a
        OBVIOUS
    <1>9. \/ FinAck(t, a)
          \/ a.seq = s2.rcvNxt /\ a.window = getRecvBufAvailable(s2)
        BY DEF s2, t, p
    <1> HIDE DEF pkts
    <1>10. AcksOK(t, s2, pkts)
        <2>1. \/ FinAck(t, a)
              \/ t.sndUna <= a.seq /\ a.seq + a.window <= RightEdge(s2)
            <3>1. t.sndUna <= s2.rcvNxt
                BY <1>4 DEF PairOK
            <3>2. RightEdge(s2) = s2.rcvNxt + getRecvBufAvailable(s2) /\ RightEdge(s2) \in Int
                BY <1>3, EdgeType DEF RightEdge
            <3>3. a.seq = s2.rcvNxt /\ a.window = getRecvBufAvailable(s2) =>
                    a.seq + a.window = RightEdge(s2)
                BY <3>2
            <3>4. RightEdge(s2) <= RightEdge(s2)
                BY <3>2
            <3>5. CASE FinAck(t, a)
                BY <3>5
            <3>6. CASE a.seq = s2.rcvNxt /\ a.window = getRecvBufAvailable(s2)
                <4>1. a.seq + a.window <= RightEdge(s2)
                    BY <3>3, <3>4, <3>6
                <4>2. t.sndUna <= a.seq
                    BY <3>1, <3>6
                <4> QED  BY <4>1, <4>2
            <3> QED  BY <1>9, <3>5, <3>6
        <2> QED  BY <1>8, <2>1 DEF AcksOK
    <1>11. ASSUME NEW i \in 1 .. Len(q), q[i].type = "ACK", ~FinAck(t, q[i])
           PROVE  q[i].seq <= a.seq
        <2>1. AckOK(t, s, q[i]) /\ q[i].seq \in Nat
            BY <1>2, <1>11 DEF PktOK, Packet
        <2>2. q[i].seq <= s.rcvNxt
            BY <1>11, <2>1 DEF AckOK, FinAck
        <2>3. CASE FinAck(t, a)
            <3>1. s.rcvNxt <= t.sndNxt /\ t.finSeq = t.sndNxt /\ a.seq = t.finSeq + 1
                BY <1>1, <2>3 DEF PairOK, FinOK, FinAck
            <3> QED  BY <1>6, <2>1, <2>2, <3>1
        <2>4. CASE a.seq = s2.rcvNxt
            BY <1>3, <1>6, <2>1, <2>2, <2>4
        <2> QED  BY <1>9, <2>3, <2>4
    <1>12. AcksOK(t, s2, enqueue(q, pkts))
        BY <1>2, <1>7, <1>8, <1>10, <1>11, AcksEnqueue
    <1> QED  BY <1>12 DEF pkts, q, t, s2, p

\* Toward e: the queue is as before or one packet shorter, and sndUna_ stays.
LEMMA AcksStay ==
    ASSUME Paired, FlowInv, PairNext, NEW e \in Ends,
           sock'[e].sndUna = sock[e].sndUna,
           \/ net'[e] = net[e]
           \/ \E i \in 1 .. Len(net[e]) : net'[e] = RemoveAt(net[e], i)
    PROVE  AcksOK(sock'[e], sock[Peer(e)], net'[e])
PROOF
    <1> DEFINE s == sock[e]
               s2 == sock'[e]
               t == sock[Peer(e)]
    <1>1. s \in Socket /\ t \in Socket /\ net[e] \in Seq(Packet)
        BY Parts
    <1>2. s2 \in Socket /\ (s.finSeq >= 0 => s2.finSeq = s.finSeq) /\ net'[e] \in Seq(Packet)
        BY StepFacts
    <1>3. AcksOK(s, t, net[e])
        BY DEF FlowInv
    <1>4. AcksOK(s, t, net'[e])
        BY <1>1, <1>3, AcksRemove
    <1>5. RightEdge(t) <= RightEdge(t)
        BY <1>1, SameEdge
    <1> QED  BY <1>1, <1>2, <1>4, <1>5, AcksForward

\* A step of e that leaves the numbers and the window of its sending half alone.
LEMMA FlowKept ==
    ASSUME Paired, FlowInv, PairNext, NEW e \in Ends, NEW s2, Becomes(e, s2),
           SenderKept(sock[e], s2),
           \/ net'[e] = net[e]
           \/ \E i \in 1 .. Len(net[e]) : net'[e] = RemoveAt(net[e], i),
           AcksOK(sock[Peer(e)], s2, net'[Peer(e)])
    PROVE  FlowInv'
PROOF
    <1>1. sock'[e] = s2 /\ s2.sndUna = sock[e].sndUna
        BY DEF Becomes, SenderKept
    <1>2. AcksOK(s2, sock[Peer(e)], net'[e])
        BY <1>1, AcksStay
    <1>3. RoomOK(s2, sock[Peer(e)])
        BY DEF FlowInv, RoomOK, SenderKept
    <1> QED  BY <1>2, <1>3, FlowStep

\* The two queues after e has sent, and after it has answered.
LEMMA SentQueues ==
    ASSUME Paired, NEW e \in Ends, NEW pkts, Send(e, pkts)
    PROVE  net'[e] = net[e] /\ net'[Peer(e)] = enqueue(net[Peer(e)], pkts)
PROOF
    <1>1. net \in [Ends -> Seq(Packet)] /\ Peer(e) \in Ends /\ Peer(e) # e
        BY Parts DEF Paired, PairTypes
    <1> QED  BY <1>1 DEF Send

LEMMA RepliedQueues ==
    ASSUME Paired, NEW e \in Ends, NEW i, NEW pkts, Reply(e, i, pkts)
    PROVE  /\ net'[e] = RemoveAt(net[e], i)
           /\ net'[Peer(e)] = enqueue(net[Peer(e)], pkts)
PROOF
    <1>1. net \in [Ends -> Seq(Packet)] /\ Peer(e) \in Ends /\ Peer(e) # e
        BY Parts DEF Paired, PairTypes
    <1> QED  BY <1>1 DEF Reply

\* What a call of write() or a tick sends is data.
LEMMA DataSent ==
    ASSUME NEW segs \in Seq(Segment)
    PROVE  /\ dataPkts(segs) \in Seq(Packet)
           /\ \A k \in 1 .. Len(dataPkts(segs)) : dataPkts(segs)[k].type # "ACK"
PROOF
    <1> DEFINE pkt(j) == [type |-> "DATA", seq |-> segs[j].seqStart,
                          window |-> 0, data |-> segs[j].data]
    <1>1. dataPkts(segs) = [j \in 1 .. Len(segs) |-> pkt(j)]
        BY DEF dataPkts
    <1>2. ASSUME NEW j \in 1 .. Len(segs)  PROVE  pkt(j) \in Packet /\ pkt(j).type # "ACK"
        <2>1. segs[j] \in Segment
            BY ElementOfSeq
        <2>2. segs[j].seqStart \in Nat /\ segs[j].data \in Seq(Byte)
            BY <2>1 DEF Segment
        <2> QED  BY <2>2 DEF Packet
    <1>3. Len(segs) \in Nat
        BY LenProperties
    <1> HIDE DEF pkt
    <1>4. dataPkts(segs) \in Seq(Packet) /\ Len(dataPkts(segs)) = Len(segs)
        BY <1>1, <1>2, <1>3
    <1> QED  BY <1>1, <1>2, <1>4

\* finPkts() is a FIN, or nothing.
LEMMA FinSent ==
    ASSUME NEW s \in Socket
    PROVE  /\ finPkts(s) \in Seq(Packet)
           /\ \A k \in 1 .. Len(finPkts(s)) : finPkts(s)[k].type # "ACK"
PROOF
    <1>1. finPkt(s.sndNxt) \in Packet /\ finPkt(s.sndNxt).type = "FIN"
        BY SocketFields DEF finPkt, Packet
    <1> HIDE DEF finPkt
    <1>2. finPkts(s) = <<finPkt(s.sndNxt)>> \/ finPkts(s) = <<>>
        BY DEF finPkts
    <1>3. CASE finPkts(s) = <<finPkt(s.sndNxt)>>
        BY <1>1, <1>3
    <1>4. CASE finPkts(s) = <<>>
        BY <1>4
    <1> QED  BY <1>2, <1>3, <1>4

-----------------------------------------------------------------------------
(* Actions. *)

\* write() stays within the window it was told of.
LEMMA WriteFlow ==
    ASSUME Paired, FlowInv, PairNext, NEW e \in Ends, NEW len, AppWrite(e, len)
    PROVE  FlowInv'
PROOF
    <1> DEFINE s == sock[e]
               t == sock[Peer(e)]
               n == writable(s, len)
               bytes == nextBytes(e, len)
               segs == written(s, bytes)
    <1>1. /\ s \in Socket /\ t \in Socket /\ WindowOK(s) /\ FinOK(s) /\ pos[e] \in Nat
        BY Parts
    <1>2. /\ s.state = "ESTABLISHED" /\ Send(e, dataPkts(segs)) /\ n > 0
          /\ len \in 1 .. Amount[e] - pos[e]
        BY DEF AppWrite
    <1>3. len \in Nat
        BY <1>1, <1>2, StreamConstants DEF StreamConstants
    <1>4. /\ bytes \in Seq(Byte) /\ Len(bytes) = len
          /\ \A k \in 1 .. Len(bytes) : bytes[k] = s.sndNxt + k - 1
        BY <1>3, NextBytesOK
    <1> HIDE DEF bytes
    <1>5. segs \in Seq(Segment)
        <2>1. s.finSeq < 0
            BY <1>1, <1>2, NotFinished
        <2> QED  BY <1>1, <1>2, <1>4, <2>1, WriteOK
    <1>6. n \in Nat /\ s.sndNxt + n <= s.sndUna + s.rwnd
        BY AppWriteEffect
    <1>7. PICK s2 : /\ Becomes(e, s2) /\ s2.sndUna = s.sndUna /\ s2.sndNxt = s.sndNxt + n
                    /\ s2.rwnd = s.rwnd
        BY AppWriteEffect
    <1> HIDE DEF n, segs
    <1>8. RoomOK(s2, t)
        <2>1. s.sndUna + s.rwnd <= RightEdge(t)
            BY DEF FlowInv, RoomOK
        <2>2. /\ RightEdge(t) \in Int /\ s.sndUna \in Nat /\ s.rwnd \in Nat /\ s.sndNxt \in Nat
            BY <1>1, EdgeType, SocketFields
        <2>3. s.sndNxt + n <= RightEdge(t)
            BY <1>6, <2>1, <2>2
        <2> QED  BY <1>7, <2>1, <2>3 DEF RoomOK
    <1>9. net'[e] = net[e] /\ net'[Peer(e)] = enqueue(net[Peer(e)], dataPkts(segs))
        BY <1>2, SentQueues
    <1>10. sock'[e] = s2
        BY <1>7 DEF Becomes
    <1>11. AcksOK(t, s2, net'[Peer(e)])
        BY <1>5, <1>9, <1>10, DataSent, SendsNoAck
    <1>12. AcksOK(s2, t, net'[e])
        BY <1>7, <1>9, <1>10, AcksStay
    <1> QED  BY <1>7, <1>8, <1>11, <1>12, FlowStep

\* A tick only repeats what is outstanding.
LEMMA TickFlow ==
    ASSUME Paired, FlowInv, PairNext, NEW e \in Ends, retransmissionTick(e)
    PROVE  FlowInv'
PROOF
    <1> DEFINE segs == sock[e].outstanding
    <1>1. segs \in Seq(Segment)
        BY Parts, SocketFields
    <1>2. net'[e] = net[e] /\ net'[Peer(e)] = enqueue(net[Peer(e)], dataPkts(segs))
        BY SentQueues DEF retransmissionTick
    <1>3. PICK s2 : Becomes(e, s2) /\ SenderKept(sock[e], s2)
        BY RetransmissionTickEffect
    <1> HIDE DEF segs
    <1>4. AcksOK(sock[Peer(e)], s2, net'[Peer(e)])
        BY <1>1, <1>2, <1>3, DataSent, SendsNoAck DEF Becomes
    <1> QED  BY <1>2, <1>3, <1>4, FlowKept

\* accept() and read() send nothing.
LEMMA QuietFlow ==
    ASSUME Paired, FlowInv, PairNext, NEW e \in Ends,
           AppAccept(e) \/ \E len : AppRead(e, len)
    PROVE  FlowInv'
PROOF
    <1>1. net' = net
        BY DEF AppAccept, AppRead
    <1>2. PICK s2 : Becomes(e, s2) /\ SenderKept(sock[e], s2)
        BY AppAcceptEffect, AppReadEffect
    <1>3. /\ <<>> \in Seq(Packet)
          /\ \A k \in 1 .. Len(<<>>) : <<>>[k].type # "ACK"
        OBVIOUS
    <1>4. AcksOK(sock[Peer(e)], s2, net'[Peer(e)])
        BY <1>1, <1>2, <1>3, SendsNoAck DEF Becomes
    <1> QED  BY <1>1, <1>2, <1>4, FlowKept

\* close() sends at most a FIN.
LEMMA CloseFlow ==
    ASSUME Paired, FlowInv, PairNext, NEW e \in Ends, AppClose(e)
    PROVE  FlowInv'
PROOF
    <1> DEFINE s == sock[e]
               t == sock[Peer(e)]
               s1 == [s EXCEPT !.state = "SHUTDOWN"]
    <1>1. s \in Socket
        BY Parts
    <1>2. s1 \in Socket
        <2>1. "SHUTDOWN" \in States
            BY DEF States
        <2> QED  BY <1>1, <2>1, StateOK
    <1>3. Send(e, finPkts(s1))
        BY DEF AppClose
    <1> HIDE DEF s1
    <1>4. net'[e] = net[e] /\ net'[Peer(e)] = enqueue(net[Peer(e)], finPkts(s1))
        BY <1>3, SentQueues
    <1>5. PICK s2 : /\ Becomes(e, s2) /\ s2.sndUna = s.sndUna /\ s2.sndNxt = s.sndNxt
                    /\ s2.rwnd = s.rwnd
        BY AppCloseEffect
    <1>6. sock'[e] = s2
        BY <1>5 DEF Becomes
    <1>7. AcksOK(t, s2, net'[Peer(e)])
        BY <1>2, <1>4, <1>6, FinSent, SendsNoAck
    <1>8. AcksOK(s2, t, net'[e])
        BY <1>4, <1>5, <1>6, AcksStay
    <1>9. RoomOK(s2, t)
        BY <1>5 DEF FlowInv, RoomOK
    <1> QED  BY <1>5, <1>7, <1>8, <1>9, FlowStep

\* Nothing sent: what a reply of no packets does to the peer's queue.
LEMMA SilentReply ==
    ASSUME Paired, FlowInv, PairNext, NEW e \in Ends, NEW i, Reply(e, i, <<>>)
    PROVE  AcksOK(sock[Peer(e)], sock'[e], net'[Peer(e)])
PROOF
    <1>1. /\ <<>> \in Seq(Packet)
          /\ \A k \in 1 .. Len(<<>>) : <<>>[k].type # "ACK"
        OBVIOUS
    <1>2. net'[Peer(e)] = enqueue(net[Peer(e)], <<>>)
        BY RepliedQueues
    <1> QED  BY <1>1, <1>2, SendsNoAck

\* The acknowledgement of the FIN changes no number.
LEMMA AckOfFinFlow ==
    ASSUME Paired, FlowInv, PairNext, NEW e \in Ends, NEW i, onAckOfFin(e, i)
    PROVE  FlowInv'
PROOF
    <1>1. Reply(e, i, <<>>) /\ i \in 1 .. Len(net[e])
        BY DEF onAckOfFin, Arriving
    <1>2. net'[e] = RemoveAt(net[e], i)
        BY <1>1, RepliedQueues
    <1>3. PICK s2 : Becomes(e, s2) /\ SenderKept(sock[e], s2)
        BY OnAckOfFinEffect
    <1>4. AcksOK(sock[Peer(e)], s2, net'[Peer(e)])
        BY <1>1, <1>3, SilentReply DEF Becomes
    <1> QED  BY <1>1, <1>2, <1>3, <1>4, FlowKept

\* An acknowledgement of new data: its number and its window fit together.
LEMMA AckOfNewFlow ==
    ASSUME Paired, FlowInv, PairNext, ~Reorder, NEW e \in Ends, NEW i, onAckOfNew(e, i)
    PROVE  FlowInv'
PROOF
    <1> DEFINE s == sock[e]
               t == sock[Peer(e)]
               pkt == net[e][1]
               s1 == acked(s, pkt.seq, pkt.window)
    <1>1. /\ s \in Socket /\ t \in Socket /\ WindowOK(s) /\ FinOK(s)
          /\ PairOK(s, t) /\ net[e] \in Seq(Packet)
        BY Parts
    <1>2. /\ i = 1 /\ i \in 1 .. Len(net[e]) /\ pkt.type = "ACK" /\ pkt.seq <= s.sndNxt
          /\ s.sndUna < pkt.seq
          /\ Reply(e, 1, finPkts(s1))
        BY OnAckOfNewEffect DEF onAckOfNew, acksNew
    <1>3. PICK s2 : /\ Becomes(e, s2) /\ s2.sndUna = pkt.seq /\ s2.sndNxt = s.sndNxt
                    /\ s2.rwnd = pkt.window
        BY <1>2, OnAckOfNewEffect
    <1>4. pkt \in Packet /\ AckOK(s, t, pkt)
        BY <1>2, Parts DEF PktOK
    <1>5. /\ pkt.seq \in Nat /\ pkt.window \in Nat /\ s.sndNxt \in Nat
          /\ s.finSeq \in Nat \cup {-1}
        BY <1>1, <1>4, SocketFields DEF Packet
    <1>6. ~FinAck(s, pkt)
        BY <1>1, <1>2, <1>5 DEF FinAck, FinOK
    <1>7. AcksOK(s, t, net[e]) /\ RoomOK(s, t)
        BY DEF FlowInv
    <1>8. RoomOK(s2, t)
        <2>1. pkt.seq + pkt.window <= RightEdge(t)
            BY <1>2, <1>6, <1>7 DEF AcksOK
        <2>2. s.sndNxt <= RightEdge(t)
            BY <1>7 DEF RoomOK
        <2> QED  BY <1>3, <2>1, <2>2 DEF RoomOK
    <1>9. sock'[e] = s2 /\ s2 \in Socket /\ (s.finSeq >= 0 => s2.finSeq = s.finSeq)
        BY <1>3, StepFacts DEF Becomes
    <1>10. s1 \in Socket
        <2>1. Boundary(s, pkt.seq)
            BY <1>2, <1>4, <1>6 DEF AckOK, FinAck
        <2> QED  BY <1>1, <1>2, <1>5, <2>1, AckedOK
    <1> HIDE DEF s1
    <1>11. /\ net'[e] = RemoveAt(net[e], 1)
           /\ net'[Peer(e)] = enqueue(net[Peer(e)], finPkts(s1))
        BY <1>2, RepliedQueues
    <1>12. AcksOK(s2, t, net'[e])
        BY <1>1, <1>2, <1>3, <1>6, <1>7, <1>9, <1>11, AcksTaken
    <1>13. AcksOK(t, s2, net'[Peer(e)])
        BY <1>9, <1>10, <1>11, FinSent, SendsNoAck
    <1> QED  BY <1>3, <1>8, <1>12, <1>13, FlowStep

\* An acknowledgement of nothing new names sndUna_ itself, so that its window
\* counts from there.
LEMMA AckOfOldFlow ==
    ASSUME Paired, FlowInv, PairNext, ~Reorder, NEW e \in Ends, NEW i, onAckOfOld(e, i)
    PROVE  FlowInv'
PROOF
    <1> DEFINE s == sock[e]
               t == sock[Peer(e)]
               pkt == net[e][i]
    <1>1. /\ s \in Socket /\ t \in Socket /\ WindowOK(s) /\ FinOK(s)
        BY Parts
    <1>2. /\ i \in 1 .. Len(net[e]) /\ pkt.type = "ACK" /\ pkt.seq <= s.sndUna
          /\ Reply(e, i, <<>>)
        BY OnAckOfOldEffect DEF onAckOfOld
    <1>3. PICK s2 : /\ Becomes(e, s2) /\ s2.sndUna = s.sndUna /\ s2.sndNxt = s.sndNxt
                    /\ s2.rwnd = pkt.window
        BY OnAckOfOldEffect
    <1>4. pkt \in Packet
        BY <1>2, Parts
    <1>5. /\ pkt.seq \in Nat /\ pkt.window \in Nat /\ s.sndNxt \in Nat /\ s.sndUna \in Nat
          /\ s.finSeq \in Nat \cup {-1}
        BY <1>1, <1>4, SocketFields DEF Packet
    <1>6. ~FinAck(s, pkt)
        <2>1. s.finSeq >= 0 => s.finSeq = s.sndUna
            BY <1>1 DEF FinOK, WindowOK
        <2> QED  BY <1>2, <1>5, <2>1 DEF FinAck
    <1>7. AcksOK(s, t, net[e]) /\ RoomOK(s, t)
        BY DEF FlowInv
    <1>8. RoomOK(s2, t)
        <2>1. s.sndUna <= pkt.seq /\ pkt.seq + pkt.window <= RightEdge(t)
            BY <1>2, <1>6, <1>7 DEF AcksOK
        <2>2. pkt.seq = s.sndUna
            BY <1>2, <1>5, <2>1
        <2>3. s.sndNxt <= RightEdge(t)
            BY <1>7 DEF RoomOK
        <2> QED  BY <1>3, <2>1, <2>2, <2>3 DEF RoomOK
    <1>9. sock'[e] = s2
        BY <1>3 DEF Becomes
    <1>10. net'[e] = RemoveAt(net[e], i)
        BY <1>2, RepliedQueues
    <1>11. AcksOK(s2, t, net'[e])
        BY <1>2, <1>3, <1>9, <1>10, AcksStay
    <1>12. AcksOK(t, s2, net'[Peer(e)])
        BY <1>2, <1>9, SilentReply
    <1> QED  BY <1>3, <1>8, <1>11, <1>12, FlowStep

\* A segment that is taken is acknowledged with the room that is left.
LEMMA DataFlow ==
    ASSUME Paired, FlowInv, PairNext, NEW e \in Ends, NEW i, onDataAccepted(e, i)
    PROVE  FlowInv'
PROOF
    <1> DEFINE s == sock[e]
               s2 == appendToRecvBuf(s, net[e][i].data)
               a == ackPkt(s2, s2.rcvNxt)
    <1>1. Becomes(e, s2) /\ SenderKept(s, s2)
        BY OnDataAcceptedEffect
    <1>2. Reply(e, i, <<a>>) /\ i \in 1 .. Len(net[e])
        BY DEF onDataAccepted, Arriving
    <1>3. sock'[e] = s2 /\ sock'[Peer(e)] = sock[Peer(e)]
        BY <1>1 DEF Becomes
    <1> HIDE DEF s2
    <1>4. s2 \in Socket /\ Len(s2.recvBuf) <= RECV_BUF_CAP
        <2>1. (sock[e] \in Socket)' /\ (Len(sock[e].recvBuf) <= RECV_BUF_CAP)'
            BY StepFacts DEF Paired, PairTypes
        <2> QED  BY <1>3, <2>1
    <1>5. s2.rcvNxt \in Nat /\ getRecvBufAvailable(s2) \in Nat
        BY <1>4, SocketFields, LenProperties, SocketConstants
        DEF getRecvBufAvailable, SocketConstants
    <1>6. /\ a \in Packet /\ a.type = "ACK" /\ a.seq = s2.rcvNxt
          /\ a.window = getRecvBufAvailable(s2)
        BY <1>5 DEF ackPkt, Packet
    <1> HIDE DEF a
    <1>7. net'[e] = RemoveAt(net[e], i) /\ net'[Peer(e)] = enqueue(net[Peer(e)], <<a>>)
        BY <1>2, RepliedQueues
    <1>8. AcksOK(sock[Peer(e)], s2, net'[Peer(e)])
        BY <1>3, <1>6, <1>7, SendsAck
    <1> QED  BY <1>1, <1>2, <1>7, <1>8, FlowKept

\* So is a segment that is not.
LEMMA RejectedFlow ==
    ASSUME Paired, FlowInv, PairNext, NEW e \in Ends, NEW i, onDataRejected(e, i)
    PROVE  FlowInv'
PROOF
    <1> DEFINE s == sock[e]
               a == ackPkt(s, s.rcvNxt)
    <1>1. Reply(e, i, <<a>>) /\ i \in 1 .. Len(net[e]) /\ sock' = sock
        BY DEF onDataRejected, Arriving
    <1>2. s \in Socket /\ Len(s.recvBuf) <= RECV_BUF_CAP
        BY Parts
    <1>3. s.rcvNxt \in Nat /\ getRecvBufAvailable(s) \in Nat
        BY <1>2, SocketFields, LenProperties, SocketConstants
        DEF getRecvBufAvailable, SocketConstants
    <1>4. /\ a \in Packet /\ a.type = "ACK" /\ a.seq = s.rcvNxt
          /\ a.window = getRecvBufAvailable(s)
        BY <1>3 DEF ackPkt, Packet
    <1> HIDE DEF a
    <1>5. net'[e] = RemoveAt(net[e], i) /\ net'[Peer(e)] = enqueue(net[Peer(e)], <<a>>)
        BY <1>1, RepliedQueues
    <1>6. AcksOK(sock[Peer(e)], s, net'[Peer(e)])
        BY <1>1, <1>4, <1>5, SendsAck
    <1>7. Becomes(e, s) /\ SenderKept(s, s)
        BY <1>1 DEF Becomes, SenderKept
    <1> QED  BY <1>1, <1>5, <1>6, <1>7, FlowKept

\* The acknowledgement of a FIN closes its sender's side whatever its window.
LEMMA FinFlow ==
    ASSUME Paired, FlowInv, PairNext, NEW e \in Ends, NEW i, onFinTaken(e, i)
    PROVE  FlowInv'
PROOF
    <1> DEFINE s == sock[e]
               n == net[e][i].seq + 1
               a == ackPkt(s, n)
    <1>1. Reply(e, i, <<a>>) /\ i \in 1 .. Len(net[e])
        BY DEF onFinTaken, Arriving
    <1>2. s \in Socket /\ Len(s.recvBuf) <= RECV_BUF_CAP /\ net[e][i] \in Packet
        BY <1>1, Parts
    <1>3. n \in Nat /\ getRecvBufAvailable(s) \in Nat
        <2>1. n \in Nat
            BY <1>2 DEF Packet
        <2>2. getRecvBufAvailable(s) \in Nat
            BY <1>2, SocketFields, LenProperties, SocketConstants
            DEF getRecvBufAvailable, SocketConstants
        <2> QED  BY <2>1, <2>2
    <1>4. a \in Packet /\ a.type = "ACK" /\ a.seq = n
        BY <1>3 DEF ackPkt, Packet
    <1>5. FinAck(sock[Peer(e)], a)
        <2>1. sock[Peer(e)].finSeq >= 0 /\ net[e][i].seq = sock[Peer(e)].finSeq
            BY OnFinTakenEffect
        <2> QED  BY <1>4, <2>1 DEF FinAck
    <1> HIDE DEF a
    <1>6. PICK s2 : Becomes(e, s2) /\ SenderKept(s, s2)
        BY OnFinTakenEffect
    <1>7. net'[e] = RemoveAt(net[e], i) /\ net'[Peer(e)] = enqueue(net[Peer(e)], <<a>>)
        BY <1>1, RepliedQueues
    <1>8. AcksOK(sock[Peer(e)], s2, net'[Peer(e)])
        BY <1>4, <1>5, <1>6, <1>7, SendsAck DEF Becomes
    <1> QED  BY <1>1, <1>6, <1>7, <1>8, FlowKept

\* A packet that is ignored, dropped or lost; none is duplicated on such a link.
LEMMA IdleFlow ==
    ASSUME Paired, FlowInv, PairNext, ~Reorder, NEW e \in Ends, NEW i, Idle(e, i)
    PROVE  FlowInv'
PROOF
    <1>1. sock' = sock /\ Becomes(e, sock[e]) /\ SenderKept(sock[e], sock[e])
        BY IdleEffect DEF SocketsKept, Becomes, SenderKept
    <1>2. CASE onAckIgnored(e, i) \/ onDataDropped(e, i) \/ onFinDropped(e, i)
        <2>1. Reply(e, i, <<>>) /\ i \in 1 .. Len(net[e])
            BY <1>2 DEF onAckIgnored, onDataDropped, onFinDropped, Arriving
        <2>2. net'[e] = RemoveAt(net[e], i)
            BY <2>1, RepliedQueues
        <2>3. AcksOK(sock[Peer(e)], sock[e], net'[Peer(e)])
            BY <1>1, <2>1, SilentReply
        <2> QED  BY <1>1, <2>1, <2>2, <2>3, FlowKept
    <1>3. CASE Lose(e, i)
        <2>1. net \in [Ends -> Seq(Packet)] /\ Peer(e) \in Ends /\ Peer(e) # e /\ Peer(Peer(e)) = e
            BY Parts DEF Paired, PairTypes
        <2>2. i \in 1 .. Len(net[e]) /\ net' = [net EXCEPT ![e] = RemoveAt(@, i)]
            BY <1>3 DEF Lose
        <2>3. net'[e] = RemoveAt(net[e], i) /\ net'[Peer(e)] = net[Peer(e)]
            BY <2>1, <2>2
        <2>4. AcksOK(sock[Peer(e)], sock[e], net'[Peer(e)])
            BY <2>1, <2>3 DEF FlowInv
        <2> QED  BY <1>1, <2>2, <2>3, <2>4, FlowKept
    <1>4. ~Duplicate(e, i)
        BY DEF Duplicate
    <1> QED  BY <1>2, <1>3, <1>4, RejectedFlow DEF Idle

\* Both windows start at the capacity of an empty buffer.
LEMMA InitFlow ==
    ASSUME Init, ~Reorder
    PROVE  FlowInv
PROOF
    <1> DEFINE s0 == initAccepted(NewSocket)
    <1>1. /\ s0.sndUna = 1 /\ s0.sndNxt = 1 /\ s0.rcvNxt = 1
          /\ s0.recvBuf = <<>> /\ s0.rwnd = RECV_BUF_CAP
        BY DEF initAccepted, NewSocket
    <1> HIDE DEF s0
    <1>2. \A e \in Ends : sock[e] = s0 /\ net[e] = <<>> /\ Peer(e) \in Ends
        BY EndsPeer DEF Init, s0
    <1>3. RightEdge(s0) = 1 + RECV_BUF_CAP /\ RECV_BUF_CAP \in Nat
        <2>1. RECV_BUF_CAP \in Nat /\ Len(<<>>) = 0
            BY SocketConstants DEF SocketConstants
        <2>2. RightEdge(s0) = 1 + (RECV_BUF_CAP - Len(<<>>))
            BY <1>1 DEF RightEdge, getRecvBufAvailable
        <2> QED  BY <2>1, <2>2
    <1>4. RoomOK(s0, s0)
        BY <1>1, <1>3 DEF RoomOK
    <1>5. AcksOK(s0, s0, <<>>)
        BY DEF AcksOK
    <1> QED  BY <1>2, <1>4, <1>5 DEF FlowInv

\* Every step keeps it, on links that keep the order.
LEMMA NextFlow ==
    ASSUME Paired, FlowInv, PairNext, ~Reorder
    PROVE  FlowInv'
PROOF
    <1>1. PICK e \in Ends :
            \/ AppAccept(e) \/ AppClose(e) \/ retransmissionTick(e)
            \/ \E len : AppWrite(e, len) \/ AppRead(e, len)
            \/ \E i : \/ onAckOfFin(e, i) \/ onAckOfNew(e, i) \/ onAckOfOld(e, i)
                      \/ onDataAccepted(e, i) \/ onFinTaken(e, i) \/ Idle(e, i)
        BY NextCases
    <1>2. CASE AppAccept(e) \/ \E len : AppRead(e, len)
        BY <1>2, QuietFlow
    <1>3. CASE AppClose(e)
        BY <1>3, CloseFlow
    <1>4. CASE retransmissionTick(e)
        BY <1>4, TickFlow
    <1>5. ASSUME NEW len, AppWrite(e, len)  PROVE  FlowInv'
        BY <1>5, WriteFlow
    <1>6. ASSUME NEW i, onAckOfFin(e, i) \/ onAckOfNew(e, i) \/ onAckOfOld(e, i)
          PROVE  FlowInv'
        BY <1>6, AckOfFinFlow, AckOfNewFlow, AckOfOldFlow
    <1>7. ASSUME NEW i, onDataAccepted(e, i) \/ onFinTaken(e, i) \/ Idle(e, i)
          PROVE  FlowInv'
        BY <1>7, DataFlow, FinFlow, IdleFlow
    <1> QED  BY <1>1, <1>2, <1>3, <1>4, <1>5, <1>6, <1>7

\* No segment is ever turned away for lack of space: on links that keep the
\* order, whatever they lose, effectiveWindow() keeps what write() sends within
\* the room that getRecvBufAvailable() has at the receiver now.
THEOREM SenderNeverOverruns == Spec => []NoOverrun
PROOF
    <1> DEFINE Inv == ~Reorder => FlowInv
    <1>1. Init => Inv
        BY InitFlow
    <1>2. ConnInv /\ ConnInv' /\ Inv /\ [Next]_vars => Inv'
        <2>1. ASSUME ConnInv, ConnInv', ~Reorder, FlowInv, Next  PROVE  FlowInv'
            <3>1. OneChild /\ OneChild'
                BY <2>1 DEF ConnInv, UploadInv
            <3>2. Paired /\ PairNext
                BY <2>1, <3>1, ConnInvParts DEF PairNext
            <3> QED  BY <2>1, <3>2, NextFlow
        <2>2. ASSUME Inv, UNCHANGED vars  PROVE  Inv'
            BY <2>2 DEF vars, FlowInv
        <2> QED  BY <2>1, <2>2
    <1>3. Inv => NoOverrun
        BY DEF NoOverrun, FlowInv, RoomOK, RightEdge
    <1> HIDE DEF Inv
    <1> QED  BY <1>1, <1>2, <1>3, ConnInvariant, PTL DEF Spec

=============================================================================
