--------------------------- MODULE TcpStreamProofs ---------------------------
(***************************************************************************)
(* ConnInv is an invariant of TcpStream for every value of its constants,  *)
(* and with it the safety properties that TLC checks on small instances.   *)
(*                                                                         *)
(* The argument: every step of a socket only moves it forward, in the      *)
(* sense of Advance below, and whatever is true of a packet on its way     *)
(* stays true when the two sockets move forward.  So a step has to be      *)
(* looked at only for the socket it changes and the packets it sends.      *)
(*                                                                         *)
(* That is done twice.  Paired is the invariant of two sockets that have   *)
(* only each other; it holds until a repeated SYN replaces the server's    *)
(* child.  UploadInv is what holds in any case: the client's stream against*)
(* all the children that have taken a part of it.                          *)
(***************************************************************************)
EXTENDS TcpStream, TLAPS, SequenceTheorems, WellFoundedInduction, NaturalsInduction

\* What no step of a socket undoes: s may become s2.
Advance(s, s2) ==
    /\ s.sndUna <= s2.sndUna
    /\ s.sndNxt <= s2.sndNxt
    /\ s.rcvNxt <= s2.rcvNxt
    /\ s.peerFinReceived => s2.peerFinReceived
    /\ s.finSeq >= 0 => s2.finSeq = s.finSeq /\ s2.sndNxt = s.sndNxt
    /\ \A n \in Nat : n >= s2.sndUna /\ Boundary(s, n) => Boundary(s2, n)
    /\ \A j \in DOMAIN s.outstanding :
            s.outstanding[j].seqStart >= s2.sndUna =>
                \E k \in DOMAIN s2.outstanding :
                    s2.outstanding[k] = s.outstanding[j]

\* s and s2 have the same sending half.
SameSender(s, s2) ==
    /\ s2.sndUna = s.sndUna
    /\ s2.sndNxt = s.sndNxt
    /\ s2.finSeq = s.finSeq
    /\ s2.outstanding = s.outstanding
    /\ s2.armed = s.armed

\* The types without the children that have been replaced.
PairTypes ==
    /\ sock \in [Ends -> Socket]
    /\ established \in [Ends -> BOOLEAN]
    /\ accepted \in [Ends -> BOOLEAN]
    /\ net \in [Ends -> Seq(Packet)]
    /\ pos \in [Ends -> Nat]
    /\ got \in [Ends -> Seq(Byte)]
    /\ losses \in 0 .. MaxLoss
    /\ \A e \in Ends : Len(sock[e].recvBuf) <= RECV_BUF_CAP
    /\ \A e \in Ends : Len(net[e]) <= LinkBuf

\* The invariant of a connection whose server has had one child.
Paired == PairTypes /\ PairInv

-----------------------------------------------------------------------------
(* Packets and pairs of sockets under Advance. *)

\* A socket whose sending half does not change moves forward.
LEMMA SameSenderAdvance ==
    ASSUME NEW s \in Socket, NEW s2 \in Socket,
           SameSender(s, s2),
           s.rcvNxt <= s2.rcvNxt,
           s.peerFinReceived => s2.peerFinReceived
    PROVE  /\ Advance(s, s2)
           /\ WindowOK(s) => WindowOK(s2)
PROOF
    <1>1. /\ s.sndUna \in Nat /\ s.sndNxt \in Nat
          /\ \A n \in Nat : Boundary(s, n) => Boundary(s2, n)
        BY DEF Boundary, SameSender, Socket
    <1>2. Advance(s, s2)
        BY <1>1 DEF Advance, SameSender
    <1>3. WindowOK(s) => WindowOK(s2)
        BY DEF WindowOK, SameSender
    <1> QED  BY <1>2, <1>3

\* A socket that does not change moves forward.
LEMMA AdvanceRefl ==
    ASSUME NEW s \in Socket
    PROVE  Advance(s, s)
PROOF
    <1>1. s.rcvNxt \in Nat
        BY DEF Socket
    <1>2. SameSender(s, s) /\ s.rcvNxt <= s.rcvNxt
        BY <1>1 DEF SameSender
    <1> QED  BY <1>2, SameSenderAdvance

\* Any packet that fits two sockets still fits them after they move forward.
LEMMA PktAdvance ==
    ASSUME NEW s \in Socket, NEW s2 \in Socket,
           NEW t \in Socket, NEW t2 \in Socket,
           NEW pkt \in Packet,
           Advance(s, s2), Advance(t, t2), PktOK(s, t, pkt)
    PROVE  PktOK(s2, t2, pkt)
PROOF
    <1>1. /\ pkt.seq \in Nat
          /\ s.sndUna \in Nat /\ s2.sndUna \in Nat
          /\ t.sndUna \in Nat /\ t2.sndUna \in Nat
          /\ t.sndNxt \in Nat /\ t2.sndNxt \in Nat
          /\ t.rcvNxt \in Nat /\ t2.rcvNxt \in Nat
          /\ pkt.data \in Seq(Byte)
        BY DEF Packet, Socket
    <1>2. ASSUME AckOK(s, t, pkt)  PROVE  AckOK(s2, t2, pkt)
        BY <1>1, <1>2 DEF AckOK, Advance
    <1>3. ASSUME DataOK(t, pkt)  PROVE  DataOK(t2, pkt)
        <2>1. segEnd([seqStart |-> pkt.seq, data |-> pkt.data]) \in Int
            BY <1>1 DEF segEnd
        <2>2. segEnd([seqStart |-> pkt.seq, data |-> pkt.data]) <= t2.sndNxt
            BY <1>1, <1>3, <2>1 DEF DataOK, Advance
        <2>3. ASSUME pkt.seq >= t2.sndUna
              PROVE  \E k \in DOMAIN t2.outstanding :
                        t2.outstanding[k] = [seqStart |-> pkt.seq, data |-> pkt.data]
            <3>1. pkt.seq >= t.sndUna
                BY <1>1, <2>3 DEF Advance
            <3>2. PICK j \in DOMAIN t.outstanding :
                        t.outstanding[j] = [seqStart |-> pkt.seq, data |-> pkt.data]
                BY <1>3, <3>1 DEF DataOK
            <3>3. t.outstanding[j].seqStart >= t2.sndUna
                BY <2>3, <3>2
            <3> QED  BY <3>2, <3>3 DEF Advance
        <2> QED  BY <1>3, <2>2, <2>3 DEF DataOK
    <1>4. ASSUME t.finSeq >= 0  PROVE  t2.finSeq = t.finSeq
        BY <1>4 DEF Advance
    <1> QED  BY <1>2, <1>3, <1>4 DEF PktOK

\* A sender that moves forward, but not past what t has taken, keeps its pair.
LEMMA PairAdvance ==
    ASSUME NEW s \in Socket, NEW s2 \in Socket, NEW t \in Socket,
           Advance(s, s2), PairOK(s, t), s2.sndUna <= t.rcvNxt
    PROVE  PairOK(s2, t)
PROOF
    <1>1. s.sndNxt \in Nat /\ s2.sndNxt \in Nat /\ t.rcvNxt \in Nat /\ s2.sndUna \in Nat
        BY DEF Socket
    <1> QED  BY <1>1 DEF PairOK, Advance

-----------------------------------------------------------------------------
(* The network: every packet on its way after a step was on its way before  *)
(* or has just been sent.                                                   *)

\* There are two ends, and each is the other's peer.
LEMMA EndsPeer ==
    ASSUME NEW e \in Ends
    PROVE  /\ Peer(e) \in Ends
           /\ Peer(e) # e
           /\ Peer(Peer(e)) = e
           /\ Ends = {e, Peer(e)}
    BY StreamConstants DEF StreamConstants, Ends, Peer

\* A link's queue after sending: within its limit, and every packet in it was
\* queued before or has just been sent.
LEMMA EnqueueElems ==
    ASSUME NEW q \in Seq(Packet), NEW pkts \in Seq(Packet)
    PROVE  /\ enqueue(q, pkts) \in Seq(Packet)
           /\ Len(enqueue(q, pkts)) <= LinkBuf
           /\ \A j \in 1 .. Len(enqueue(q, pkts)) :
                \/ \E k \in 1 .. Len(q) : q[k] = enqueue(q, pkts)[j]
                \/ \E k \in 1 .. Len(pkts) : pkts[k] = enqueue(q, pkts)[j]
PROOF
    <1> DEFINE all == q \o pkts
               n == min(Len(all), LinkBuf)
               r == SubSeq(all, 1, n)
    <1>1. /\ all \in Seq(Packet)
          /\ Len(all) = Len(q) + Len(pkts)
          /\ \A j \in 1 .. Len(all) :
                all[j] = IF j <= Len(q) THEN q[j] ELSE pkts[j - Len(q)]
        BY ConcatProperties
    <1>2. /\ n \in Nat /\ n <= Len(all) /\ n <= LinkBuf
        BY <1>1, StreamConstants, LenProperties DEF StreamConstants, min
    <1>3. /\ r \in Seq(Packet)
          /\ Len(r) = n
          /\ \A j \in 1 .. n : r[j] = all[j]
        <2> HIDE DEF all, n
        <2> QED  BY <1>1, <1>2
    <1>4. \A j \in 1 .. Len(r) :
                \/ \E k \in 1 .. Len(q) : q[k] = r[j]
                \/ \E k \in 1 .. Len(pkts) : pkts[k] = r[j]
        <2> HIDE DEF all, n, r
        <2> TAKE j \in 1 .. Len(r)
        <2>1. CASE j <= Len(q)
            BY <1>1, <1>2, <1>3, <2>1
        <2>2. CASE ~(j <= Len(q))
            <3>1. /\ j - Len(q) \in 1 .. Len(pkts)
                  /\ pkts[j - Len(q)] = r[j]
                BY <1>1, <1>2, <1>3, <2>2
            <3> QED  BY <3>1
        <2> QED  BY <2>1, <2>2
    <1>5. enqueue(q, pkts) = r
        BY DEF enqueue
    <1> HIDE DEF all, n, r
    <1> QED  BY <1>2, <1>3, <1>4, <1>5

\* Taking a packet out of the network leaves only packets that were in it.
LEMMA RemoveElems ==
    ASSUME NEW q \in Seq(Packet), NEW i \in 1 .. Len(q)
    PROVE  /\ RemoveAt(q, i) \in Seq(Packet)
           /\ Len(RemoveAt(q, i)) <= Len(q)
           /\ \A j \in 1 .. Len(RemoveAt(q, i)) :
                \E k \in 1 .. Len(q) : q[k] = RemoveAt(q, i)[j]
PROOF
    <1> DEFINE a == SubSeq(q, 1, i - 1)
               b == SubSeq(q, i + 1, Len(q))
               r == a \o b
    <1>1. /\ a \in Seq(Packet)
          /\ Len(a) = i - 1
          /\ \A j \in 1 .. i - 1 : a[j] = q[j]
        OBVIOUS
    <1>2. /\ b \in Seq(Packet)
          /\ Len(b) = Len(q) - i
          /\ \A j \in 1 .. Len(q) - i : b[j] = q[i + j]
        <2>1. b \in Seq(Packet)
            BY SubSeqProperties, LenProperties
        <2>2. Len(b) = Len(q) - i
            BY SubSeqProperties, LenProperties
        <2>3. ASSUME NEW j \in 1 .. Len(q) - i  PROVE  b[j] = q[i + j]
            <3>1. \A k \in i + 1 .. Len(q) : q[k] \in Packet
                OBVIOUS
            <3>2. b[j] = q[(i + 1) + j - 1]
                BY <3>1, SubSeqProperties, LenProperties
            <3> QED  BY <3>2
        <2> QED  BY <2>1, <2>2, <2>3
    <1> HIDE DEF a, b
    <1>3. /\ r \in Seq(Packet)
          /\ Len(r) = Len(q) - 1
          /\ \A j \in 1 .. Len(r) : r[j] = IF j <= Len(a) THEN a[j] ELSE b[j - Len(a)]
        <2>1. /\ r \in Seq(Packet)
              /\ Len(r) = Len(a) + Len(b)
              /\ \A j \in 1 .. Len(a) + Len(b) :
                    r[j] = IF j <= Len(a) THEN a[j] ELSE b[j - Len(a)]
            BY <1>1, <1>2, ConcatProperties
        <2> HIDE DEF r
        <2>2. Len(a) + Len(b) = Len(q) - 1
            BY <1>1, <1>2, LenProperties
        <2> QED  BY <2>1, <2>2
    <1> HIDE DEF r
    <1>4. ASSUME NEW j \in 1 .. Len(r)
          PROVE  \E k \in 1 .. Len(q) : q[k] = r[j]
        <2>1. CASE j <= i - 1
            <3>1. j \in 1 .. Len(q) /\ q[j] = r[j]
                BY <1>1, <1>3, <2>1
            <3> QED  BY <3>1
        <2>2. CASE ~(j <= i - 1)
            <3>1. j + 1 \in 1 .. Len(q) /\ q[j + 1] = r[j]
                BY <1>1, <1>2, <1>3, <2>2
            <3> QED  BY <3>1
        <2> QED  BY <2>1, <2>2
    <1>5. RemoveAt(q, i) = r
        BY DEF RemoveAt, r, a, b
    <1> QED  BY <1>3, <1>4, <1>5

-----------------------------------------------------------------------------
(* write(): the segments it appends continue the window. *)

\* The j-th cut of L bytes into pieces of M bytes.
LEMMA CutFacts ==
    ASSUME NEW L \in Nat \ {0}, NEW M \in Nat \ {0}
    PROVE  LET K == (L + M - 1) \div M
           IN  /\ K \in Nat
               /\ K >= 1
               /\ \A j \in 1 .. K :
                    /\ (j - 1) * M \in Nat
                    /\ j * M = (j - 1) * M + M
                    /\ (j - 1) * M < L
                    /\ j = K => L <= j * M
                    /\ j < K => j * M < L
                    /\ \A i \in 1 .. j - 1 : i * M <= (j - 1) * M
PROOF
    <1> DEFINE K == (L + M - 1) \div M
    <1>1. K \in Nat /\ L <= K * M /\ (K - 1) * M < L
        OBVIOUS
    <1> HIDE DEF K
    <1>2. K >= 1
        BY <1>1
    <1>3. ASSUME NEW i \in Int, NEW j \in Int, i <= j  PROVE  i * M <= j * M
        <2>1. (j - i) * M >= 0
            BY <1>3
        <2> QED  BY <2>1
    <1>4. ASSUME NEW j \in 1 .. K
          PROVE  /\ (j - 1) * M \in Nat
                 /\ j * M = (j - 1) * M + M
                 /\ (j - 1) * M < L
                 /\ j = K => L <= j * M
                 /\ j < K => j * M < L
                 /\ \A i \in 1 .. j - 1 : i * M <= (j - 1) * M
        <2>1. (j - 1) * M \in Int /\ j * M \in Int /\ (K - 1) * M \in Int
            BY <1>1
        <2>2. 0 * M <= (j - 1) * M
            BY <1>3
        <2>3. j * M = (j - 1) * M + M
            OBVIOUS
        <2>4. (j - 1) * M <= (K - 1) * M
            BY <1>1, <1>3
        <2>5. j < K => j * M <= (K - 1) * M
            BY <1>1, <1>3
        <2>6. \A i \in 1 .. j - 1 : i * M <= (j - 1) * M
            BY <1>3
        <2> QED  BY <1>1, <2>1, <2>2, <2>3, <2>4, <2>5, <2>6
    <1> QED  BY <1>1, <1>2, <1>4 DEF K

\* The segments c are the bytes lo .. hi - 1, in order.
Cut(c, lo, hi) ==
    /\ c \in Seq(Segment)
    /\ Len(c) >= 1
    /\ c[1].seqStart = lo
    /\ \A j \in 1 .. Len(c) :
        /\ Numbered(c[j].seqStart, c[j].data)
        /\ c[j].seqStart >= lo
        /\ segEnd(c[j]) <= hi
        /\ segEnd(c[j]) = IF j = Len(c) THEN hi ELSE c[j + 1].seqStart
        /\ \A i \in 1 .. j - 1 : segEnd(c[i]) <= c[j].seqStart

\* chunks() cuts numbered bytes into numbered segments that follow each other.
LEMMA ChunksOK ==
    ASSUME NEW seq \in Nat, NEW b \in Seq(Byte), b # <<>>,
           \A k \in 1 .. Len(b) : b[k] = seq + k - 1
    PROVE  Cut(chunks(seq, b), seq, seq + Len(b))
PROOF
    <1> DEFINE L == Len(b)
               K == (L + MSS - 1) \div MSS
               c == chunks(seq, b)
               d(j) == SubSeq(b, (j - 1) * MSS + 1, min(j * MSS, L))
    <1>1. L \in Nat \ {0} /\ MSS \in Nat \ {0}
        BY SocketConstants, LenProperties, EmptySeq DEF SocketConstants
    <1>2. /\ K \in Nat
          /\ K >= 1
          /\ \A j \in 1 .. K :
                /\ (j - 1) * MSS \in Nat
                /\ j * MSS = (j - 1) * MSS + MSS
                /\ (j - 1) * MSS < L
                /\ j = K => L <= j * MSS
                /\ j < K => j * MSS < L
                /\ \A i \in 1 .. j - 1 : i * MSS <= (j - 1) * MSS
        <2> HIDE DEF L
        <2> QED  BY <1>1, CutFacts
    <1>3. c = [j \in 1 .. K |-> [seqStart |-> seq + (j - 1) * MSS, data |-> d(j)]]
        BY DEF chunks
    <1> HIDE DEF c, K
    <1>4. ASSUME NEW j \in 1 .. K
          PROVE  /\ min(j * MSS, L) = IF j = K THEN L ELSE j * MSS
                 /\ min(j * MSS, L) \in (j - 1) * MSS + 1 .. L
                 /\ d(j) \in Seq(Byte)
                 /\ Len(d(j)) = min(j * MSS, L) - (j - 1) * MSS
                 /\ \A k \in 1 .. Len(d(j)) : d(j)[k] = b[(j - 1) * MSS + k]
        <2> DEFINE lo == (j - 1) * MSS
                   top == j * MSS
                   hi == min(top, L)
        <2>1. lo \in Nat /\ top = lo + MSS /\ lo < L
              /\ (j = K => L <= top) /\ (j < K => top < L)
            BY <1>2
        <2> HIDE DEF lo, top, L
        <2>2. hi = (IF j = K THEN L ELSE top) /\ hi \in lo + 1 .. L
            <3>1. j <= K /\ j \in Int /\ K \in Int
                BY <1>2
            <3>2. CASE j = K
                BY <1>1, <2>1, <3>2 DEF min
            <3>3. CASE j < K
                BY <1>1, <2>1, <3>3 DEF min
            <3> QED  BY <3>1, <3>2, <3>3
        <2> HIDE DEF hi
        <2>3. \A k \in lo + 1 .. hi : b[k] \in Byte
            BY <1>1, <2>1, <2>2 DEF L
        <2>4. /\ SubSeq(b, lo + 1, hi) \in Seq(Byte)
              /\ Len(SubSeq(b, lo + 1, hi)) = hi - (lo + 1) + 1
              /\ \A k \in 1 .. hi - (lo + 1) + 1 : SubSeq(b, lo + 1, hi)[k] = b[(lo + 1) + k - 1]
            <3>1. lo + 1 \in Int /\ hi \in Int /\ lo + 1 <= hi
                BY <1>1, <2>1, <2>2
            <3> QED  BY <2>3, <3>1, SubSeqProperties
        <2>5. hi - (lo + 1) + 1 = hi - lo /\ \A k \in Int : (lo + 1) + k - 1 = lo + k
            BY <1>1, <2>1, <2>2
        <2>6. /\ Len(SubSeq(b, lo + 1, hi)) = hi - lo
              /\ \A k \in 1 .. hi - lo : SubSeq(b, lo + 1, hi)[k] = b[lo + k]
            <3> DEFINE x == SubSeq(b, lo + 1, hi)
            <3>1. Len(x) = hi - (lo + 1) + 1
                  /\ \A k \in 1 .. hi - (lo + 1) + 1 : x[k] = b[(lo + 1) + k - 1]
                BY <2>4
            <3> HIDE DEF x
            <3>2. Len(x) = hi - lo
                BY <2>5, <3>1
            <3>3. ASSUME NEW k \in 1 .. hi - lo  PROVE  x[k] = b[lo + k]
                <4>1. x[k] = b[(lo + 1) + k - 1]
                    BY <2>5, <3>1
                <4>2. (lo + 1) + k - 1 = lo + k
                    BY <2>5
                <4> QED  BY <4>1, <4>2
            <3> QED  BY <3>2, <3>3 DEF x
        <2>7. d(j) = SubSeq(b, lo + 1, hi)
            BY DEF lo, hi, top
        <2> HIDE DEF d
        <2>8. /\ hi = IF j = K THEN L ELSE top
              /\ hi \in lo + 1 .. L
              /\ d(j) \in Seq(Byte)
              /\ Len(d(j)) = hi - lo
              /\ \A k \in 1 .. Len(d(j)) : d(j)[k] = b[lo + k]
            BY <2>2, <2>4, <2>6, <2>7
        <2> QED  BY <2>8 DEF lo, hi, top
    <1> HIDE DEF d, L
    <1>5. c \in Seq(Segment) /\ Len(c) = K
        <2>1. ASSUME NEW j \in 1 .. K
              PROVE  [seqStart |-> seq + (j - 1) * MSS, data |-> d(j)] \in Segment
            <3>1. (j - 1) * MSS \in Nat
                BY <1>2
            <3>2. seq + (j - 1) * MSS \in Nat
                BY <3>1
            <3>3. d(j) \in Seq(Byte)
                BY <1>4
            <3> QED  BY <3>2, <3>3 DEF Segment
        <2>2. c \in [1 .. K -> Segment]
            BY <1>3, <2>1
        <2> QED  BY <1>2, <2>2, LenProperties
    <1>6. ASSUME NEW j \in 1 .. K
          PROVE  /\ c[j].seqStart = seq + (j - 1) * MSS
                 /\ c[j].data = d(j)
                 /\ segEnd(c[j]) = seq + min(j * MSS, L)
        <2>1. c[j].seqStart = seq + (j - 1) * MSS /\ c[j].data = d(j)
            BY <1>3
        <2>2. (j - 1) * MSS \in Nat /\ min(j * MSS, L) \in Int
              /\ Len(d(j)) = min(j * MSS, L) - (j - 1) * MSS
            BY <1>1, <1>2, <1>4
        <2> QED  BY <2>1, <2>2 DEF segEnd
    <1>7. ASSUME NEW j \in 1 .. K
          PROVE  Numbered(c[j].seqStart, c[j].data)
        <2>1. /\ (j - 1) * MSS \in Nat
              /\ j * MSS = (j - 1) * MSS + MSS
              /\ min(j * MSS, L) \in (j - 1) * MSS + 1 .. L
              /\ min(j * MSS, L) <= j * MSS
            BY <1>1, <1>2, <1>4 DEF min
        <2>2. Len(d(j)) \in 1 .. MSS
            BY <1>1, <1>4, <2>1
        <2>3. ASSUME NEW k \in 1 .. Len(d(j))
              PROVE  d(j)[k] = (seq + (j - 1) * MSS) + k - 1
            <3>1. (j - 1) * MSS + k \in 1 .. L
                BY <1>1, <1>4, <2>1, <2>2
            <3>2. d(j)[k] = b[(j - 1) * MSS + k]
                BY <1>4
            <3>3. b[(j - 1) * MSS + k] = seq + ((j - 1) * MSS + k) - 1
                BY <3>1 DEF L
            <3> QED  BY <2>1, <3>2, <3>3
        <2> QED  BY <1>6, <2>2, <2>3 DEF Numbered
    <1>8. c[1].seqStart = seq
        <2>1. 1 \in 1 .. K /\ (1 - 1) * MSS = 0
            BY <1>1, <1>2
        <2> QED  BY <1>6, <2>1
    <1>9. ASSUME NEW j \in 1 .. K
          PROVE  /\ c[j].seqStart >= seq
                 /\ segEnd(c[j]) <= seq + L
                 /\ segEnd(c[j]) = IF j = K THEN seq + L ELSE c[j + 1].seqStart
                 /\ \A i \in 1 .. j - 1 : segEnd(c[i]) <= c[j].seqStart
        <2>1. /\ (j - 1) * MSS \in Nat
              /\ min(j * MSS, L) \in (j - 1) * MSS + 1 .. L
              /\ min(j * MSS, L) = IF j = K THEN L ELSE j * MSS
              /\ \A i \in 1 .. j - 1 : i * MSS <= (j - 1) * MSS
            BY <1>2, <1>4
        <2>2. c[j].seqStart >= seq /\ segEnd(c[j]) <= seq + L
            BY <1>1, <1>6, <2>1
        <2>3. ASSUME j = K  PROVE  segEnd(c[j]) = seq + L
            BY <1>6, <2>1, <2>3
        <2>4. ASSUME j # K
              PROVE  segEnd(c[j]) = c[j + 1].seqStart
            <3>1. j + 1 \in 1 .. K /\ (j + 1) - 1 = j
                BY <1>2, <2>4
            <3> QED  BY <1>6, <2>1, <2>4, <3>1
        <2>5. ASSUME NEW i \in 1 .. j - 1
              PROVE  segEnd(c[i]) <= c[j].seqStart
            <3>1. i \in 1 .. K /\ i # K
                BY <1>2
            <3>2. segEnd(c[i]) = seq + i * MSS /\ c[j].seqStart = seq + (j - 1) * MSS
                BY <1>4, <1>6, <3>1
            <3>3. i * MSS \in Int
                BY <1>1, <3>1
            <3> QED  BY <2>1, <3>2, <3>3
        <2> QED  BY <1>6, <2>1, <2>2, <2>3, <2>4, <2>5
    <1>10. Cut(c, seq, seq + L)
        BY <1>2, <1>5, <1>7, <1>8, <1>9 DEF Cut
    <1> QED  BY <1>10 DEF c, L

\* A write() that takes n > 0 of the next bytes of the stream moves the socket
\* forward, and what it sends is what it keeps in outstanding_.
LEMMA WriteOK ==
    ASSUME NEW s \in Socket, s.finSeq < 0,
           NEW bytes \in Seq(Byte),
           \A k \in 1 .. Len(bytes) : bytes[k] = s.sndNxt + k - 1,
           writable(s, Len(bytes)) > 0
    PROVE  LET s2 == write(s, bytes)
               ch == written(s, bytes)
           IN  /\ writable(s, Len(bytes)) \in Nat
               /\ s2 \in Socket
               /\ Advance(s, s2)
               /\ WindowOK(s) => WindowOK(s2)
               /\ s2.sndUna = s.sndUna
               /\ s2.sndNxt = s.sndNxt + writable(s, Len(bytes))
               /\ s2.rcvNxt = s.rcvNxt
               /\ s2.recvBuf = s.recvBuf
               /\ s2.peerFinReceived = s.peerFinReceived
               /\ s2.finSeq = s.finSeq
               /\ s2.state = s.state
               /\ ch \in Seq(Segment)
               /\ \A j \in 1 .. Len(ch) :
                    /\ Numbered(ch[j].seqStart, ch[j].data)
                    /\ segEnd(ch[j]) <= s2.sndNxt
                    /\ \E k \in DOMAIN s2.outstanding : s2.outstanding[k] = ch[j]
PROOF
    <1> DEFINE n == writable(s, Len(bytes))
               b == SubSeq(bytes, 1, n)
               ch == written(s, bytes)
               out == s.outstanding
               out2 == out \o ch
               s2 == write(s, bytes)
    <1>1. /\ s.sndNxt \in Nat /\ s.sndUna \in Nat /\ s.rcvNxt \in Nat
          /\ out \in Seq(Segment) /\ s.armed \in BOOLEAN
        BY DEF Socket
    <1>2. n \in Nat /\ n >= 1 /\ n <= Len(bytes)
        BY <1>1, SocketConstants, LenProperties
        DEF writable, effectiveWindow, bytesInFlight, min, max, Socket, SocketConstants
    <1>3. /\ b \in Seq(Byte) /\ Len(b) = n /\ b # <<>>
          /\ \A k \in 1 .. Len(b) : b[k] = s.sndNxt + k - 1
        <2> HIDE DEF n
        <2>1. \A k \in 1 .. n : bytes[k] \in Byte
            BY <1>2
        <2>2. b \in Seq(Byte) /\ Len(b) = n /\ \A k \in 1 .. n : b[k] = bytes[k]
            BY <1>2, <2>1, SubSeqProperties
        <2> HIDE DEF b
        <2>3. b # <<>>
            BY <1>2, <2>2
        <2> QED  BY <1>2, <2>2, <2>3
    <1>4. ch = chunks(s.sndNxt, b)
        BY DEF written
    <1> HIDE DEF n, b, ch
    <1>5. /\ ch \in Seq(Segment)
          /\ Len(ch) >= 1
          /\ ch[1].seqStart = s.sndNxt
          /\ \A j \in 1 .. Len(ch) :
                /\ Numbered(ch[j].seqStart, ch[j].data)
                /\ ch[j].seqStart >= s.sndNxt
                /\ segEnd(ch[j]) <= s.sndNxt + n
                /\ segEnd(ch[j]) = IF j = Len(ch) THEN s.sndNxt + n
                                                  ELSE ch[j + 1].seqStart
                /\ \A i \in 1 .. j - 1 : segEnd(ch[i]) <= ch[j].seqStart
        <2>1. Cut(chunks(s.sndNxt, b), s.sndNxt, s.sndNxt + Len(b))
            BY <1>1, <1>3, ChunksOK
        <2>2. Cut(ch, s.sndNxt, s.sndNxt + n)
            BY <1>3, <1>4, <2>1
        <2> QED  BY <2>2 DEF Cut
    <1>6. /\ out2 \in Seq(Segment)
          /\ Len(out2) = Len(out) + Len(ch)
          /\ \A j \in 1 .. Len(out2) :
                out2[j] = IF j <= Len(out) THEN out[j] ELSE ch[j - Len(out)]
        BY <1>1, <1>5, ConcatProperties
    <1>7. /\ s2.sndUna = s.sndUna
          /\ s2.sndNxt = s.sndNxt + n
          /\ s2.rcvNxt = s.rcvNxt
          /\ s2.recvBuf = s.recvBuf
          /\ s2.peerFinReceived = s.peerFinReceived
          /\ s2.finSeq = s.finSeq
          /\ s2.state = s.state
          /\ s2.outstanding = out2
          /\ s2.armed = IF out = <<>> THEN TRUE ELSE s.armed
        BY <1>2 DEF write, Socket, n, ch, hasOutstanding
    <1>8. s2 \in Socket
        <2> DEFINE x == s.sndNxt + n
                   a == IF ~hasOutstanding(s) /\ n > 0 THEN TRUE ELSE s.armed
        <2>1. x \in Nat
            BY <1>1, <1>2
        <2>3. a \in BOOLEAN
            BY <1>1, Zenon
        <2>2. s2 = [s EXCEPT !.outstanding = out2, !.sndNxt = x, !.armed = a]
            BY DEF write, n, ch
        <2> HIDE DEF x, a, out2, s2
        <2> QED  BY <1>6, <2>1, <2>2, <2>3, Zenon DEF Socket
    <1> HIDE DEF s2, out2, out
    <1>9. /\ out # <<>> <=> Len(out) >= 1
          /\ out2 # <<>>
          /\ Len(out) \in Nat /\ Len(ch) \in Nat
        BY <1>1, <1>5, <1>6, LenProperties, EmptySeq
    <1>10. ASSUME WindowOK(s)  PROVE  WindowOK(s2)
        <2>1. ASSUME NEW j \in 1 .. Len(out)
               PROVE  /\ Numbered(out[j].seqStart, out[j].data)
                      /\ out[j].seqStart \in Nat
                      /\ segEnd(out[j]) \in Nat
                      /\ segEnd(out[j]) <= s.sndNxt
                      /\ segEnd(out[j]) = IF j = Len(out) THEN s.sndNxt
                                                          ELSE out[j + 1].seqStart
                      /\ \A i \in 1 .. j - 1 : segEnd(out[i]) <= out[j].seqStart
            <3>1. out[j] \in Segment
                BY <1>1, ElementOfSeq
            <3>2. out[j].seqStart \in Nat /\ segEnd(out[j]) \in Nat
                BY <3>1, LenProperties DEF Segment, segEnd
            <3> QED  BY <1>10, <3>2 DEF WindowOK, out
        <2>2. ASSUME NEW j \in 1 .. Len(out2)
               PROVE  /\ Numbered(out2[j].seqStart, out2[j].data)
                      /\ segEnd(out2[j]) <= s.sndNxt + n
                      /\ segEnd(out2[j]) = IF j = Len(out2) THEN s.sndNxt + n
                                                            ELSE out2[j + 1].seqStart
                      /\ \A i \in 1 .. j - 1 : segEnd(out2[i]) <= out2[j].seqStart
            <3>1. CASE j <= Len(out)
                <4>1. j \in 1 .. Len(out) /\ out2[j] = out[j] /\ j # Len(out2)
                    BY <1>5, <1>6, <1>9, <3>1
                <4>2. out2[j + 1].seqStart = IF j = Len(out) THEN s.sndNxt
                                                             ELSE out[j + 1].seqStart
                    <5>1. j + 1 \in 1 .. Len(out2)
                        BY <1>6, <1>9, <4>1
                    <5>2. CASE j = Len(out)
                        <6>1. out2[j + 1] = ch[1]
                            BY <1>6, <1>9, <5>1, <5>2
                        <6> QED  BY <1>5, <5>2, <6>1
                    <5>3. CASE j # Len(out)
                        <6>1. out2[j + 1] = out[j + 1]
                            BY <1>6, <1>9, <3>1, <5>1, <5>3
                        <6> QED  BY <5>3, <6>1
                    <5> QED  BY <5>2, <5>3
                <4>3. ASSUME NEW i \in 1 .. j - 1  PROVE  segEnd(out2[i]) <= out2[j].seqStart
                    <5>1. out2[i] = out[i]
                        BY <1>6, <1>9, <4>1
                    <5> QED  BY <2>1, <4>1, <5>1
                <4>4. segEnd(out2[j]) <= s.sndNxt + n
                    BY <1>1, <1>2, <2>1, <4>1
                <4> QED  BY <2>1, <4>1, <4>2, <4>3, <4>4
            <3>2. CASE ~(j <= Len(out))
                <4> DEFINE m == j - Len(out)
                <4>1. m \in 1 .. Len(ch) /\ out2[j] = ch[m] /\ (m = Len(ch) <=> j = Len(out2))
                    BY <1>6, <1>9, <3>2
                <4>2. ASSUME m # Len(ch)  PROVE  out2[j + 1] = ch[m + 1]
                    <5>1. j # Len(out2)
                        BY <4>1, <4>2
                    <5>2. j + 1 \in 1 .. Len(out2)
                        BY <1>6, <1>9, <5>1
                    <5>3. ~(j + 1 <= Len(out)) /\ (j + 1) - Len(out) = m + 1
                        BY <1>9, <3>2
                    <5> QED  BY <1>6, <5>2, <5>3
                <4>3. ASSUME NEW i \in 1 .. j - 1  PROVE  segEnd(out2[i]) <= out2[j].seqStart
                    <5>1. CASE i <= Len(out)
                        <6>1. i \in 1 .. Len(out) /\ out2[i] = out[i]
                            BY <1>6, <1>9, <5>1
                        <6>2. segEnd(out[i]) \in Nat /\ segEnd(out[i]) <= s.sndNxt
                            BY <2>1, <6>1
                        <6>3. ch[m].seqStart >= s.sndNxt /\ ch[m].seqStart \in Nat
                            <7>1. ch[m] \in Segment
                                BY <1>5, <4>1, ElementOfSeq
                            <7> QED  BY <1>5, <4>1, <7>1 DEF Segment
                        <6> QED  BY <1>1, <4>1, <6>1, <6>2, <6>3
                    <5>2. CASE ~(i <= Len(out))
                        <6>1. i - Len(out) \in 1 .. m - 1 /\ out2[i] = ch[i - Len(out)]
                            BY <1>6, <1>9, <3>2, <5>2
                        <6> QED  BY <1>5, <4>1, <6>1
                    <5> QED  BY <5>1, <5>2
                <4> HIDE DEF m
                <4>4. segEnd(out2[j]) = IF j = Len(out2) THEN s.sndNxt + n
                                                         ELSE out2[j + 1].seqStart
                    BY <1>5, <4>1, <4>2
                <4> QED  BY <1>5, <4>1, <4>3, <4>4
            <3> QED  BY <3>1, <3>2
        <2>3. WindowOK(s2)
            <3>1. out2[1].seqStart = s.sndUna
                <4>1. CASE out = <<>>
                    <5>1. s.sndUna = s.sndNxt
                        BY <1>10, <4>1 DEF WindowOK, out
                    <5>2. 1 \in 1 .. Len(out2) /\ out2[1] = ch[1]
                        <6>1. Len(out) = 0
                            BY <1>9, <4>1
                        <6> QED  BY <1>5, <1>6, <1>9, <6>1
                    <5> QED  BY <1>5, <5>1, <5>2
                <4>2. CASE out # <<>>
                    <5>1. out2[1] = out[1]
                        BY <1>6, <1>9, <4>2
                    <5> QED  BY <1>10, <4>2, <5>1 DEF WindowOK, out
                <4> QED  BY <4>1, <4>2
            <3>2. s2.armed = TRUE
                BY <1>7, <1>10 DEF WindowOK, out
            <3>3. s2.sndUna >= 1
                BY <1>7, <1>10 DEF WindowOK
            <3> QED  BY <1>7, <1>9, <2>2, <3>1, <3>2, <3>3 DEF WindowOK
        <2> QED  BY <2>3
    <1>11. \A j \in 1 .. Len(out) : \E k \in DOMAIN out2 : out2[k] = out[j]
        <2> TAKE j \in 1 .. Len(out)
        <2>1. j \in DOMAIN out2 /\ out2[j] = out[j]
            BY <1>6, <1>9
        <2> QED  BY <2>1
    <1>12. \A j \in 1 .. Len(ch) : \E k \in DOMAIN out2 : out2[k] = ch[j]
        <2> TAKE j \in 1 .. Len(ch)
        <2> DEFINE i == Len(out) + j
        <2>2. i \in 1 .. Len(out2) /\ ~(i <= Len(out)) /\ i - Len(out) = j
            BY <1>6, <1>9
        <2> HIDE DEF i
        <2>1. i \in DOMAIN out2 /\ out2[i] = ch[j]
            BY <1>6, <2>2
        <2> QED  BY <2>1
    <1>13. Advance(s, s2)
        <2>1. ASSUME NEW k \in Nat, Boundary(s, k)  PROVE  Boundary(s2, k)
            <3>1. CASE k = s.sndNxt
                <4>1. 1 \in 1 .. Len(ch)
                    BY <1>5, <1>9
                <4> QED  BY <1>5, <1>7, <1>12, <3>1, <4>1 DEF Boundary
            <3>2. CASE \E j \in DOMAIN out : out[j].seqStart = k
                <4>1. DOMAIN out = 1 .. Len(out)
                    BY <1>1, LenProperties
                <4> QED  BY <1>7, <1>11, <3>2, <4>1 DEF Boundary
            <3> QED  BY <2>1, <3>1, <3>2 DEF Boundary, out
        <2>2. DOMAIN out = 1 .. Len(out)
            BY <1>1, LenProperties
        <2>3. s.sndNxt <= s2.sndNxt /\ s.sndUna <= s2.sndUna /\ s.rcvNxt <= s2.rcvNxt
            BY <1>1, <1>2, <1>7
        <2>4. ~(s.finSeq >= 0)
            BY DEF Socket
        <2>5. \A j \in DOMAIN out : \E k \in DOMAIN s2.outstanding : s2.outstanding[k] = out[j]
            BY <1>7, <1>11, <2>2
        <2> QED  BY <1>7, <2>1, <2>3, <2>4, <2>5 DEF Advance, out
    <1> QED  BY <1>2, <1>5, <1>7, <1>8, <1>10, <1>12, <1>13 DEF n, ch, s2

-----------------------------------------------------------------------------
(* onAck(): an acknowledgement at a boundary leaves a well-formed window. *)

\* Moving forward twice is moving forward.
LEMMA AdvanceTrans ==
    ASSUME NEW s \in Socket, NEW s2 \in Socket, NEW s3 \in Socket,
           Advance(s, s2), Advance(s2, s3)
    PROVE  Advance(s, s3)
PROOF
    <1>1. /\ s.sndUna \in Nat /\ s2.sndUna \in Nat /\ s3.sndUna \in Nat
          /\ s.sndNxt \in Nat /\ s2.sndNxt \in Nat /\ s3.sndNxt \in Nat
          /\ s.rcvNxt \in Nat /\ s2.rcvNxt \in Nat /\ s3.rcvNxt \in Nat
          /\ s.outstanding \in Seq(Segment)
        BY DEF Socket
    <1>2. ASSUME NEW n \in Nat, n >= s3.sndUna, Boundary(s, n)  PROVE  Boundary(s3, n)
        BY <1>1, <1>2 DEF Advance
    <1>3. ASSUME NEW j \in DOMAIN s.outstanding, s.outstanding[j].seqStart >= s3.sndUna
          PROVE  \E k \in DOMAIN s3.outstanding : s3.outstanding[k] = s.outstanding[j]
        <2>1. s.outstanding[j].seqStart \in Nat
            <3>1. s.outstanding[j] \in Segment
                BY <1>1
            <3> QED  BY <3>1 DEF Segment
        <2>2. s.outstanding[j].seqStart >= s2.sndUna
            BY <1>1, <1>3, <2>1 DEF Advance
        <2>3. PICK i \in DOMAIN s2.outstanding : s2.outstanding[i] = s.outstanding[j]
            BY <2>2 DEF Advance
        <2> QED  BY <1>3, <2>3 DEF Advance
    <1>4. /\ s.sndUna <= s3.sndUna
          /\ s.sndNxt <= s3.sndNxt
          /\ s.rcvNxt <= s3.rcvNxt
          /\ s.peerFinReceived => s3.peerFinReceived
          /\ s.finSeq >= 0 => s3.finSeq = s.finSeq /\ s3.sndNxt = s.sndNxt
        BY <1>1 DEF Advance
    <1> QED  BY <1>2, <1>3, <1>4 DEF Advance

\* popAckedThrough() at a boundary drops exactly the segments below it.
LEMMA FirstUnackedOK ==
    ASSUME NEW s \in Socket, WindowOK(s),
           NEW ackNum \in Nat, Boundary(s, ackNum)
    PROVE  LET out == s.outstanding
               f == firstUnacked(out, ackNum)
           IN  /\ f \in 1 .. Len(out) + 1
               /\ f <= Len(out) => out[f].seqStart = ackNum
               /\ f = Len(out) + 1 => ackNum = s.sndNxt
PROOF
    <1> DEFINE out == s.outstanding
               Cutoff(f) == /\ \A i \in 1 .. f - 1 : segEnd(out[i]) <= ackNum
                            /\ f <= Len(out) => segEnd(out[f]) > ackNum
               f0 == firstUnacked(out, ackNum)
    <1>1. out \in Seq(Segment) /\ s.sndNxt \in Nat /\ Len(out) \in Nat
          /\ DOMAIN out = 1 .. Len(out)
        BY LenProperties DEF Socket
    <1>2. ASSUME NEW j \in 1 .. Len(out)
          PROVE  /\ out[j].seqStart \in Nat
                 /\ segEnd(out[j]) \in Nat
                 /\ segEnd(out[j]) > out[j].seqStart
                 /\ segEnd(out[j]) <= s.sndNxt
                 /\ \A i \in 1 .. j - 1 : segEnd(out[i]) <= out[j].seqStart
        <2>1. out[j] \in Segment
            BY <1>1, ElementOfSeq
        <2>2. out[j].seqStart \in Nat /\ Len(out[j].data) \in Nat
            BY <2>1, LenProperties DEF Segment
        <2>3. /\ Len(out[j].data) >= 1
              /\ segEnd(out[j]) <= s.sndNxt
              /\ \A i \in 1 .. j - 1 : segEnd(out[i]) <= out[j].seqStart
            BY <2>2, SocketConstants DEF WindowOK, Numbered, SocketConstants
        <2> QED  BY <2>2, <2>3 DEF segEnd
    <1> HIDE DEF out
    <1>3. \E f \in 1 .. Len(out) + 1 : Cutoff(f)
        <2>1. CASE ackNum = s.sndNxt
            <3>1. Cutoff(Len(out) + 1)
                BY <1>1, <1>2, <2>1
            <3> QED  BY <1>1, <3>1
        <2>2. ASSUME NEW j \in 1 .. Len(out), out[j].seqStart = ackNum
              PROVE  \E f \in 1 .. Len(out) + 1 : Cutoff(f)
            <3>1. Cutoff(j)
                BY <1>1, <1>2, <2>2
            <3> QED  BY <1>1, <3>1
        <2> QED  BY <1>1, <2>1, <2>2 DEF Boundary, out
    <1>4. f0 \in 1 .. Len(out) + 1 /\ Cutoff(f0)
        <2>1. f0 = CHOOSE f \in 1 .. Len(out) + 1 : Cutoff(f)
            BY DEF firstUnacked
        <2> HIDE DEF f0, Cutoff
        <2> QED  BY <1>3, <2>1
    <1> HIDE DEF f0
    <1>5. CASE ackNum = s.sndNxt
        <2>1. ~(f0 <= Len(out))
            BY <1>1, <1>2, <1>4, <1>5
        <2> QED  BY <1>1, <1>4, <1>5, <2>1 DEF f0, out
    <1>6. ASSUME NEW j \in 1 .. Len(out), out[j].seqStart = ackNum
          PROVE  f0 = j
        <2>1. ~(f0 < j)
            BY <1>1, <1>2, <1>4, <1>6
        <2>2. ~(f0 > j)
            BY <1>1, <1>2, <1>4, <1>6
        <2> QED  BY <1>1, <1>4, <2>1, <2>2
    <1>7. CASE \E j \in 1 .. Len(out) : out[j].seqStart = ackNum
        <2>1. f0 \in 1 .. Len(out) /\ out[f0].seqStart = ackNum
            BY <1>6, <1>7
        <2> QED  BY <1>1, <2>1 DEF f0, out
    <1> QED  BY <1>1, <1>5, <1>7 DEF Boundary, out

\* popAckedThrough() at a boundary of the window drops exactly the segments
\* before it; what is left is the window that starts there.
LEMMA PopOK ==
    ASSUME NEW s \in Socket, WindowOK(s),
           NEW ackNum \in Nat, Boundary(s, ackNum),
           s.sndUna < ackNum, ackNum <= s.sndNxt
    PROVE  LET s2 == popAckedThrough(s, ackNum)
           IN  /\ s2 \in Socket
               /\ Advance(s, s2)
               /\ WindowOK(s2)
               /\ s2.sndUna = ackNum
               /\ s2.sndNxt = s.sndNxt
               /\ s2.rcvNxt = s.rcvNxt
               /\ s2.recvBuf = s.recvBuf
               /\ s2.peerFinReceived = s.peerFinReceived
               /\ s2.finSeq = s.finSeq
               /\ s2.state = s.state
PROOF
    <1> DEFINE out == s.outstanding
               f == firstUnacked(out, ackNum)
               rest == SubSeq(out, f, Len(out))
               s2 == popAckedThrough(s, ackNum)
    <1>1. /\ out \in Seq(Segment) /\ s.sndNxt \in Nat /\ Len(out) \in Nat
          /\ s.sndUna \in Nat /\ s.rcvNxt \in Nat
          /\ DOMAIN out = 1 .. Len(out)
        BY LenProperties DEF Socket
    <1>2. /\ f \in 1 .. Len(out) + 1
          /\ f <= Len(out) => out[f].seqStart = ackNum
          /\ f = Len(out) + 1 => ackNum = s.sndNxt
        BY FirstUnackedOK
    <1>3. /\ s2.sndUna = ackNum
          /\ s2.sndNxt = s.sndNxt
          /\ s2.rcvNxt = s.rcvNxt
          /\ s2.recvBuf = s.recvBuf
          /\ s2.peerFinReceived = s.peerFinReceived
          /\ s2.finSeq = s.finSeq
          /\ s2.state = s.state
          /\ s2.outstanding = rest
          /\ s2.armed = (rest # <<>>)
        BY DEF popAckedThrough, Socket
    <1> HIDE DEF f
    <1>4. /\ rest \in Seq(Segment)
          /\ Len(rest) = Len(out) - f + 1
          /\ \A j \in 1 .. Len(rest) : rest[j] = out[f + j - 1]
        <2>1. \A k \in f .. Len(out) : out[k] \in Segment
            BY <1>1, <1>2
        <2>2. /\ rest \in Seq(Segment)
              /\ Len(rest) = IF f <= Len(out) THEN Len(out) - f + 1 ELSE 0
              /\ \A j \in 1 .. Len(out) - f + 1 : rest[j] = out[f + j - 1]
            <3> DEFINE z == Len(out)
            <3>1. f \in Int /\ z \in Int /\ \A k \in f .. z : out[k] \in Segment
                BY <1>1, <1>2, <2>1
            <3> HIDE DEF out, z
            <3>2. /\ SubSeq(out, f, z) \in Seq(Segment)
                  /\ Len(SubSeq(out, f, z)) = IF f <= z THEN z - f + 1 ELSE 0
                  /\ \A j \in 1 .. z - f + 1 : SubSeq(out, f, z)[j] = out[f + j - 1]
                BY <3>1, SubSeqProperties
            <3> QED  BY <3>2 DEF z
        <2> HIDE DEF rest, out
        <2>3. Len(rest) = Len(out) - f + 1
            <3>1. Len(rest) = IF f <= Len(out) THEN Len(out) - f + 1 ELSE 0
                BY <2>2
            <3> QED  BY <1>1, <1>2, <3>1
        <2> QED  BY <2>2, <2>3
    <1>5. s2 \in Socket
        <2> DEFINE a == rest # <<>>
        <2>1. a \in BOOLEAN
            OBVIOUS
        <2>2. s2 = [s EXCEPT !.outstanding = rest, !.sndUna = ackNum, !.armed = a]
            BY DEF popAckedThrough, f
        <2> HIDE DEF a, rest, s2
        <2> QED  BY <1>4, <2>1, <2>2, Zenon DEF Socket
    <1> HIDE DEF s2, rest, out
    <1>6. ASSUME NEW j \in 1 .. Len(rest)
          PROVE  /\ f + j - 1 \in 1 .. Len(out)
                 /\ rest[j] = out[f + j - 1]
        BY <1>1, <1>2, <1>4
    <1>7. WindowOK(s2)
        <2>1. ackNum = IF rest = <<>> THEN s.sndNxt ELSE rest[1].seqStart
            <3>1. CASE f <= Len(out)
                <4>1. Len(rest) >= 1 /\ rest # <<>>
                    BY <1>1, <1>2, <1>4, <3>1
                <4>2. rest[1] = out[f]
                    BY <1>1, <1>2, <1>4, <4>1
                <4> QED  BY <1>2, <3>1, <4>1, <4>2
            <3>2. CASE f = Len(out) + 1
                <4>1. rest = <<>>
                    BY <1>1, <1>4, <3>2
                <4> QED  BY <1>2, <3>2, <4>1
            <3> QED  BY <1>1, <1>2, <3>1, <3>2
        <2>2. ASSUME NEW j \in 1 .. Len(rest)
              PROVE  /\ Numbered(rest[j].seqStart, rest[j].data)
                     /\ segEnd(rest[j]) <= s.sndNxt
                     /\ segEnd(rest[j]) = IF j = Len(rest) THEN s.sndNxt
                                                           ELSE rest[j + 1].seqStart
                     /\ \A i \in 1 .. j - 1 : segEnd(rest[i]) <= rest[j].seqStart
            <3> DEFINE m == f + j - 1
            <3>1. m \in 1 .. Len(out) /\ rest[j] = out[m] /\ (j = Len(rest) <=> m = Len(out))
                BY <1>1, <1>2, <1>4, <1>6
            <3>2. /\ Numbered(out[m].seqStart, out[m].data)
                  /\ segEnd(out[m]) <= s.sndNxt
                  /\ segEnd(out[m]) = IF m = Len(out) THEN s.sndNxt
                                                      ELSE out[m + 1].seqStart
                  /\ \A i \in 1 .. m - 1 : segEnd(out[i]) <= out[m].seqStart
                <4> HIDE DEF m
                <4>1. WindowOK(s)
                    OBVIOUS
                <4> QED  BY <3>1, <4>1, Zenon DEF WindowOK, out
            <3>3. ASSUME j # Len(rest)  PROVE  rest[j + 1] = out[m + 1]
                <4>1. j + 1 \in 1 .. Len(rest)
                    <5>1. Len(rest) \in Nat
                        BY <1>4, LenProperties
                    <5> QED  BY <3>3, <5>1
                <4>2. f + (j + 1) - 1 = m + 1
                    BY <1>1, <1>2
                <4> QED  BY <1>6, <4>1, <4>2
            <3>4. ASSUME NEW i \in 1 .. j - 1  PROVE  segEnd(rest[i]) <= rest[j].seqStart
                <4>1. i \in 1 .. Len(rest) /\ f + i - 1 \in 1 .. m - 1
                    BY <1>1, <1>2, <1>4
                <4> QED  BY <1>6, <3>1, <3>2, <4>1
            <3> HIDE DEF m
            <3> QED  BY <3>1, <3>2, <3>3, <3>4
        <2>3. ackNum >= 1
            BY <1>1
        <2> QED  BY <1>3, <2>1, <2>2, <2>3 DEF WindowOK
    <1>8. ASSUME NEW j \in 1 .. Len(out), out[j].seqStart >= ackNum
          PROVE  \E k \in DOMAIN rest : rest[k] = out[j]
        <2>1. /\ out[j].seqStart \in Nat
              /\ segEnd(out[j]) > out[j].seqStart
              /\ segEnd(out[j]) \in Nat
              /\ segEnd(out[j]) <= s.sndNxt
              /\ \A i \in 1 .. Len(out) : j < i => segEnd(out[j]) <= out[i].seqStart
            <3>1. out[j] \in Segment
                BY <1>1, ElementOfSeq
            <3>2. out[j].seqStart \in Nat /\ Len(out[j].data) \in Nat
                BY <3>1, LenProperties DEF Segment
            <3>3. Len(out[j].data) >= 1 /\ segEnd(out[j]) <= s.sndNxt
                BY <3>2, SocketConstants DEF WindowOK, Numbered, SocketConstants, out
            <3>4. \A i \in 1 .. Len(out) : j < i => segEnd(out[j]) <= out[i].seqStart
                BY <1>1 DEF WindowOK, out
            <3> QED  BY <3>2, <3>3, <3>4 DEF segEnd
        <2>2. f <= j
            <3>1. CASE f = Len(out) + 1
                BY <1>1, <1>2, <1>8, <2>1, <3>1
            <3>2. CASE f <= Len(out)
                BY <1>1, <1>2, <1>8, <2>1, <3>2
            <3> QED  BY <1>1, <1>2, <3>1, <3>2
        <2> DEFINE k == j - f + 1
        <2>3. k \in 1 .. Len(rest) /\ f + k - 1 = j
            BY <1>1, <1>2, <1>4, <2>2
        <2> HIDE DEF k
        <2>4. k \in DOMAIN rest /\ rest[k] = out[j]
            BY <1>4, <1>6, <2>3
        <2> QED  BY <2>4
    <1>9. Advance(s, s2)
        <2>1. ASSUME NEW n \in Nat, n >= ackNum, Boundary(s, n)  PROVE  Boundary(s2, n)
            <3>1. CASE n = s.sndNxt
                BY <1>3, <3>1 DEF Boundary
            <3>2. ASSUME NEW j \in DOMAIN out, out[j].seqStart = n  PROVE  Boundary(s2, n)
                BY <1>1, <1>3, <1>8, <2>1, <3>2 DEF Boundary
            <3> QED  BY <2>1, <3>1, <3>2 DEF Boundary, out
        <2>2. \A j \in DOMAIN out : out[j].seqStart >= s2.sndUna =>
                    \E k \in DOMAIN s2.outstanding : s2.outstanding[k] = out[j]
            BY <1>1, <1>3, <1>8
        <2>3. s.sndUna <= s2.sndUna /\ s.sndNxt <= s2.sndNxt /\ s.rcvNxt <= s2.rcvNxt
            BY <1>1, <1>3
        <2> QED  BY <1>3, <2>1, <2>2, <2>3 DEF Advance, out
    <1> QED  BY <1>3, <1>5, <1>7, <1>9 DEF s2

-----------------------------------------------------------------------------
(* One step of the connection. *)

\* Every packet in the network after the step was there before it, or is one
\* that fits the sockets as the step leaves them.
NetStep ==
    /\ net' \in [Ends -> Seq(Packet)]
    /\ \A x \in Ends : Len(net'[x]) <= LinkBuf
    /\ \A x \in Ends : \A i \in 1 .. Len(net'[x]) :
            \/ \E k \in 1 .. Len(net[x]) : net[x][k] = net'[x][i]
            \/ PktOK(sock'[x], sock'[Peer(x)], net'[x][i])

\* Sending packets that fit the sockets is a step of the network.
LEMMA SendStep ==
    ASSUME PairTypes, NEW e \in Ends, NEW pkts \in Seq(Packet),
           Send(e, pkts),
           \A k \in 1 .. Len(pkts) : PktOK(sock'[Peer(e)], sock'[e], pkts[k])
    PROVE  NetStep
PROOF
    <1> DEFINE p == Peer(e)
               q == enqueue(net[p], pkts)
    <1>1. p \in Ends /\ Peer(p) = e
        BY EndsPeer
    <1>2. net \in [Ends -> Seq(Packet)] /\ \A x \in Ends : Len(net[x]) <= LinkBuf
        BY DEF PairTypes
    <1>3. /\ q \in Seq(Packet) /\ Len(q) <= LinkBuf
          /\ \A j \in 1 .. Len(q) : \/ \E k \in 1 .. Len(net[p]) : net[p][k] = q[j]
                                    \/ \E k \in 1 .. Len(pkts) : pkts[k] = q[j]
        <2>1. net[p] \in Seq(Packet)
            BY <1>1, <1>2
        <2> QED  BY <2>1, EnqueueElems
    <1>4. net' = [net EXCEPT ![p] = q]
        BY DEF Send
    <1> HIDE DEF p, q
    <1>5. net' \in [Ends -> Seq(Packet)] /\ \A x \in Ends : Len(net'[x]) <= LinkBuf
        <2>1. net' \in [Ends -> Seq(Packet)]
            BY <1>1, <1>2, <1>3, <1>4
        <2>2. \A x \in Ends : net'[x] = IF x = p THEN q ELSE net[x]
            BY <1>1, <1>2, <1>4
        <2> QED  BY <1>2, <1>3, <2>1, <2>2
    <1>6. ASSUME NEW x \in Ends, NEW i \in 1 .. Len(net'[x])
          PROVE  \/ \E k \in 1 .. Len(net[x]) : net[x][k] = net'[x][i]
                 \/ PktOK(sock'[x], sock'[Peer(x)], net'[x][i])
        <2>1. CASE x = p
            <3>1. net'[x] = q
                BY <1>1, <1>2, <1>4, <2>1
            <3> QED  BY <1>1, <1>3, <2>1, <3>1 DEF p
        <2>2. CASE x # p
            <3>1. net'[x] = net[x]
                BY <1>2, <1>4, <2>2
            <3> QED  BY <3>1
        <2> QED  BY <2>1, <2>2
    <1> QED  BY <1>5, <1>6 DEF NetStep

\* So is taking packet i and sending packets that fit.
LEMMA ReplyStep ==
    ASSUME PairTypes, NEW e \in Ends, NEW i \in 1 .. Len(net[e]),
           NEW pkts \in Seq(Packet),
           Reply(e, i, pkts),
           \A k \in 1 .. Len(pkts) : PktOK(sock'[Peer(e)], sock'[e], pkts[k])
    PROVE  NetStep
PROOF
    <1> DEFINE p == Peer(e)
               q == enqueue(net[p], pkts)
               r == RemoveAt(net[e], i)
    <1>1. p \in Ends /\ Peer(p) = e /\ p # e /\ Ends = {e, p}
        BY EndsPeer
    <1>2. net \in [Ends -> Seq(Packet)] /\ \A x \in Ends : Len(net[x]) <= LinkBuf
        BY DEF PairTypes
    <1>3. /\ q \in Seq(Packet) /\ Len(q) <= LinkBuf
          /\ \A j \in 1 .. Len(q) : \/ \E k \in 1 .. Len(net[p]) : net[p][k] = q[j]
                                    \/ \E k \in 1 .. Len(pkts) : pkts[k] = q[j]
        <2>1. net[p] \in Seq(Packet)
            BY <1>1, <1>2
        <2> QED  BY <2>1, EnqueueElems
    <1>4. /\ r \in Seq(Packet) /\ Len(r) <= Len(net[e])
          /\ \A j \in 1 .. Len(r) : \E k \in 1 .. Len(net[e]) : net[e][k] = r[j]
        BY <1>2, RemoveElems
    <1>5. net' = [net EXCEPT ![e] = r, ![p] = q]
        <2>1. [net EXCEPT ![e] = r][p] = net[p]
            BY <1>1, <1>2
        <2> QED  BY <2>1 DEF Reply
    <1> HIDE DEF p, q, r
    <1>6. net'[e] = r /\ net'[p] = q
        BY <1>1, <1>2, <1>5
    <1>7. net' \in [Ends -> Seq(Packet)]
        BY <1>1, <1>2, <1>3, <1>4, <1>5
    <1>8. Len(r) <= LinkBuf
        BY <1>2, <1>4, LenProperties, StreamConstants DEF StreamConstants
    <1>9. ASSUME NEW x \in Ends, NEW j \in 1 .. Len(net'[x])
          PROVE  \/ \E k \in 1 .. Len(net[x]) : net[x][k] = net'[x][j]
                 \/ PktOK(sock'[x], sock'[Peer(x)], net'[x][j])
        <2>1. CASE x = p
            BY <1>1, <1>3, <1>6, <2>1 DEF p
        <2>2. CASE x = e
            BY <1>4, <1>6, <2>2
        <2> QED  BY <1>1, <2>1, <2>2
    <1>10. \A x \in Ends : Len(net'[x]) <= LinkBuf
        BY <1>1, <1>3, <1>6, <1>8
    <1> QED  BY <1>7, <1>9, <1>10 DEF NetStep

\* What every step does: it keeps Paired and moves both sockets forward.
Preserved ==
    /\ Paired'
    /\ \A x \in Ends : Advance(sock[x], sock'[x])

\* A step that changes the socket of e to s2 keeps Paired if s2 is forward of
\* it and well-formed, fits the peer, and the packets it sends fit.
LEMMA SocketStep ==
    ASSUME Paired, NEW e \in Ends, NEW s2 \in Socket,
           sock' = [sock EXCEPT ![e] = s2],
           Advance(sock[e], s2), WindowOK(s2), FinOK(s2),
           s2.sndUna <= sock[Peer(e)].rcvNxt,
           PairOK(sock[Peer(e)], s2),
           Len(s2.recvBuf) <= RECV_BUF_CAP,
           NetStep,
           got' \in [Ends -> Seq(Byte)], got'[Peer(e)] = got[Peer(e)],
           ReadOK(s2, got'[e]),
           pos' \in [Ends -> Nat], pos'[Peer(e)] = pos[Peer(e)],
           pos'[e] = s2.sndNxt - 1,
           established' \in [Ends -> BOOLEAN],
           established'[Peer(e)] = established[Peer(e)],
           accepted' \in [Ends -> BOOLEAN],
           accepted'[Peer(e)] = accepted[Peer(e)],
           losses' \in 0 .. MaxLoss,
           EndOK(e)'
    PROVE  Preserved
PROOF
    <1> DEFINE p == Peer(e)
               s == sock[e]
               t == sock[p]
    <1>1. p \in Ends /\ Peer(p) = e /\ p # e /\ Ends = {e, p}
        BY EndsPeer
    <1>2. sock \in [Ends -> Socket] /\ net \in [Ends -> Seq(Packet)]
        BY DEF Paired, PairInv, PairTypes
    <1>3. sock'[e] = s2 /\ sock'[p] = t /\ t \in Socket /\ s \in Socket
        BY <1>1, <1>2
    <1>4. PairTypes'
        <2>1. sock' \in [Ends -> Socket]
            BY <1>2
        <2>2. \A x \in Ends : Len(sock'[x].recvBuf) <= RECV_BUF_CAP
            <3>1. Len(t.recvBuf) <= RECV_BUF_CAP
                BY <1>1 DEF Paired, PairInv, PairTypes
            <3> QED  BY <1>1, <1>3, <3>1
        <2> QED  BY <2>1, <2>2 DEF PairTypes, NetStep
    <1>5. Advance(t, t)
        BY <1>3, AdvanceRefl
    <1>6. /\ WindowOK(t) /\ FinOK(t) /\ PairOK(s, t) /\ ReadOK(t, got[p])
          /\ pos[p] = t.sndNxt - 1 /\ EndOK(p)
          /\ \A i \in 1 .. Len(net[e]) : PktOK(s, t, net[e][i])
          /\ \A i \in 1 .. Len(net[p]) : PktOK(t, s, net[p][i])
        <2>1. /\ PairOK(sock[e], sock[Peer(e)])
              /\ \A i \in 1 .. Len(net[e]) : PktOK(sock[e], sock[Peer(e)], net[e][i])
            BY DEF Paired, PairInv
        <2>2. /\ WindowOK(sock[p]) /\ FinOK(sock[p]) /\ ReadOK(sock[p], got[p])
              /\ pos[p] = sock[p].sndNxt - 1 /\ EndOK(p)
              /\ \A i \in 1 .. Len(net[p]) : PktOK(sock[p], sock[Peer(p)], net[p][i])
            <3> HIDE DEF p
            <3> QED  BY <1>1 DEF Paired, PairInv
        <2> QED  BY <1>1, <2>1, <2>2
    <1>7. PairOK(s2, t)
        BY <1>3, <1>6, PairAdvance
    <1>8. ASSUME NEW x \in Ends, NEW i \in 1 .. Len(net'[x])
          PROVE  PktOK(sock'[x], sock'[Peer(x)], net'[x][i])
        <2>1. ASSUME NEW k \in 1 .. Len(net[x]), net[x][k] = net'[x][i]
              PROVE  PktOK(sock'[x], sock'[Peer(x)], net'[x][i])
            <3>1. net[x][k] \in Packet
                BY <1>2, ElementOfSeq
            <3>2. CASE x = e
                <4>1. PktOK(s2, t, net[x][k])
                    BY <1>3, <1>5, <1>6, <3>1, <3>2, PktAdvance
                <4> QED  BY <1>3, <2>1, <3>2, <4>1
            <3>3. CASE x = p
                <4>1. PktOK(t, s2, net[x][k])
                    BY <1>3, <1>5, <1>6, <3>1, <3>3, PktAdvance
                <4> QED  BY <1>1, <1>3, <2>1, <3>3, <4>1
            <3> QED  BY <1>1, <3>2, <3>3
        <2> QED  BY <2>1 DEF NetStep
    <1>9. EndOK(p)'
        <2>1. t.peerFinReceived \in BOOLEAN /\ (s.peerFinReceived => s2.peerFinReceived)
            BY <1>3 DEF Socket, Advance
        <2>2. EndOK(p)
            BY <1>6
        <2> QED  BY <1>1, <1>3, <2>1, <2>2 DEF EndOK
    <1>10. /\ WindowOK(sock'[e]) /\ FinOK(sock'[e]) /\ PairOK(sock'[e], sock'[Peer(e)])
           /\ ReadOK(sock'[e], got'[e]) /\ pos'[e] = sock'[e].sndNxt - 1
        BY <1>3, <1>7
    <1>11. /\ WindowOK(sock'[p]) /\ FinOK(sock'[p]) /\ PairOK(sock'[p], sock'[Peer(p)])
           /\ ReadOK(sock'[p], got'[p]) /\ pos'[p] = sock'[p].sndNxt - 1
        BY <1>1, <1>3, <1>6
    <1>12. ASSUME NEW x \in Ends
           PROVE  /\ WindowOK(sock'[x]) /\ FinOK(sock'[x])
                  /\ PairOK(sock'[x], sock'[Peer(x)])
                  /\ \A i \in 1 .. Len(net'[x]) : PktOK(sock'[x], sock'[Peer(x)], net'[x][i])
                  /\ ReadOK(sock'[x], got'[x]) /\ pos'[x] = sock'[x].sndNxt - 1
                  /\ EndOK(x)'
        <2>1. CASE x = e
            BY <1>8, <1>10, <2>1
        <2>2. CASE x = p
            BY <1>8, <1>9, <1>11, <2>2
        <2> QED  BY <1>1, <2>1, <2>2
    <1>13. Paired'
        BY <1>4, <1>12 DEF Paired, PairInv
    <1>14. \A x \in Ends : Advance(sock[x], sock'[x])
        BY <1>1, <1>3, <1>5
    <1> QED  BY <1>13, <1>14 DEF Preserved

-----------------------------------------------------------------------------
(* The remaining methods of a socket. *)

\* s2 differs from s at most in its windows and its timeout.
Still(s, s2) ==
    /\ SameSender(s, s2)
    /\ s2.rcvNxt = s.rcvNxt
    /\ s2.recvBuf = s.recvBuf
    /\ s2.peerFinReceived = s.peerFinReceived
    /\ s2.state = s.state

\* setRwnd() only changes a window.
LEMMA SetRwndOK ==
    ASSUME NEW s \in Socket, NEW w \in Nat
    PROVE  setRwnd(s, w) \in Socket /\ Still(s, setRwnd(s, w))
PROOF
    <1>1. max(0, w) \in Nat
        BY DEF max
    <1>2. setRwnd(s, w) \in Socket
        BY <1>1, Zenon DEF setRwnd, Socket
    <1> QED  BY <1>2 DEF Still, SameSender, setRwnd, Socket

\* additiveIncreaseCwnd() only changes a window.
LEMMA AdditiveIncreaseOK ==
    ASSUME NEW s \in Socket
    PROVE  additiveIncreaseCwnd(s) \in Socket /\ Still(s, additiveIncreaseCwnd(s))
PROOF
    <1> DEFINE inc == max(1, (MSS * MSS) \div max(s.cwnd, MSS))
    <1>1. s.cwnd \in Nat /\ MSS \in Nat \ {0}
        BY SocketConstants DEF Socket, SocketConstants
    <1>2. max(s.cwnd, MSS) \in Nat \ {0} /\ MSS * MSS \in Nat
        BY <1>1 DEF max
    <1>3. (MSS * MSS) \div max(s.cwnd, MSS) \in Int
        BY <1>2
    <1>4. inc \in Nat
        BY <1>3 DEF max
    <1> HIDE DEF inc
    <1>5. s.cwnd + inc \in Nat
        BY <1>1, <1>4
    <1>6. additiveIncreaseCwnd(s) = [s EXCEPT !.cwnd = s.cwnd + inc]
        BY DEF additiveIncreaseCwnd, inc
    <1>7. additiveIncreaseCwnd(s) \in Socket
        BY <1>5, <1>6, Zenon DEF Socket
    <1> QED  BY <1>6, <1>7 DEF Still, SameSender, Socket

\* The back-off of a retransmission only changes a window and the timeout.
LEMMA BackOffOK ==
    ASSUME NEW s \in Socket
    PROVE  LET s2 == multiplicativeDecreaseCwnd(doubleRto(s))
           IN  s2 \in Socket /\ Still(s, s2)
PROOF
    <1> DEFINE r == min(2 * s.rtoMs, RTO_MAX_MS)
               c == max(MSS, s.cwnd \div 2)
               s1 == doubleRto(s)
    <1>1. s.rtoMs \in Nat /\ s.cwnd \in Nat
        BY DEF Socket
    <1>2. r \in Nat
        BY <1>1, SocketConstants DEF min, SocketConstants
    <1>3. c \in Nat
        BY <1>1, SocketConstants DEF max, SocketConstants
    <1> HIDE DEF r, c
    <1>4. s1 = [s EXCEPT !.rtoMs = r]
        BY DEF doubleRto, r
    <1> HIDE DEF s1
    <1>5. s1 \in Socket
        BY <1>2, <1>4, Zenon DEF Socket
    <1>6. Still(s, s1) /\ s1.cwnd = s.cwnd
        BY <1>4 DEF Still, SameSender, Socket
    <1> DEFINE s2 == multiplicativeDecreaseCwnd(s1)
    <1>7. s2 = [s1 EXCEPT !.cwnd = c]
        BY <1>6 DEF multiplicativeDecreaseCwnd, c
    <1> HIDE DEF s2
    <1>8. s2 \in Socket
        BY <1>3, <1>5, <1>7, Zenon DEF Socket
    <1>9. Still(s1, s2)
        BY <1>5, <1>7 DEF Still, SameSender, Socket
    <1> QED  BY <1>6, <1>8, <1>9 DEF s1, s2, Still, SameSender

\* A socket whose buffers and flags stay as they are.
LEMMA StillOK ==
    ASSUME NEW s \in Socket, NEW s2 \in Socket, Still(s, s2)
    PROVE  /\ Advance(s, s2)
           /\ WindowOK(s) => WindowOK(s2)
           /\ FinOK(s) => FinOK(s2)
PROOF
    <1>1. s.rcvNxt <= s2.rcvNxt
        BY DEF Still, Socket
    <1>2. Advance(s, s2) /\ (WindowOK(s) => WindowOK(s2))
        BY <1>1, SameSenderAdvance DEF Still
    <1>3. FinOK(s) => FinOK(s2)
        BY DEF FinOK, Still, SameSender
    <1> QED  BY <1>2, <1>3

\* maybeSendFinOnDrain() numbers the FIN it sends, once.
LEMMA FinOnDrainOK ==
    ASSUME NEW s \in Socket, FinOK(s)
    PROVE  LET s2 == maybeSendFinOnDrain(s)
           IN  /\ s2 \in Socket
               /\ Advance(s, s2) /\ FinOK(s2)
               /\ WindowOK(s) => WindowOK(s2)
               /\ s2.sndUna = s.sndUna
               /\ s2.sndNxt = s.sndNxt
               /\ s2.rcvNxt = s.rcvNxt
               /\ s2.recvBuf = s.recvBuf
               /\ s2.peerFinReceived = s.peerFinReceived
               /\ s2.state = s.state
               /\ finPkts(s) \in Seq(Packet)
               /\ \A k \in 1 .. Len(finPkts(s)) :
                    /\ finPkts(s)[k].type = "FIN"
                    /\ finPkts(s)[k].seq = s2.finSeq
                    /\ s2.finSeq >= 0
PROOF
    <1> DEFINE s2 == maybeSendFinOnDrain(s)
    <1>1. s.sndNxt \in Nat /\ s.sndUna \in Nat /\ s.rcvNxt \in Nat
        BY DEF Socket
    <1>2. CASE finDue(s)
        <2>1. s2 = [s EXCEPT !.finSeq = s.sndNxt]
            BY <1>2 DEF maybeSendFinOnDrain
        <2>2. s.state = "SHUTDOWN" /\ s.outstanding = <<>> /\ s.finSeq < 0
            BY <1>2 DEF finDue, hasOutstanding
        <2> HIDE DEF s2
        <2>3. s2 \in Socket
            <3>1. s.sndNxt \in Nat \cup {-1}
                BY <1>1
            <3> QED  BY <2>1, <3>1, Zenon DEF Socket
        <2>4. /\ s2.sndUna = s.sndUna /\ s2.sndNxt = s.sndNxt /\ s2.rcvNxt = s.rcvNxt
              /\ s2.recvBuf = s.recvBuf /\ s2.peerFinReceived = s.peerFinReceived
              /\ s2.state = s.state /\ s2.outstanding = s.outstanding
              /\ s2.armed = s.armed /\ s2.finSeq = s.sndNxt
            BY <2>1 DEF Socket
        <2>5. WindowOK(s) => WindowOK(s2)
            BY <2>4 DEF WindowOK
        <2>6. FinOK(s2)
            BY <2>2, <2>4 DEF FinOK
        <2>7. Advance(s, s2)
            <3>1. \A n \in Nat : Boundary(s, n) => Boundary(s2, n)
                BY <2>4 DEF Boundary
            <3>2. ~(s.finSeq >= 0)
                BY <2>2 DEF Socket
            <3> QED  BY <1>1, <2>4, <3>1, <3>2 DEF Advance
        <2>8. finPkts(s) = <<finPkt(s.sndNxt)>>
            BY <1>2 DEF finPkts
        <2>9. finPkt(s.sndNxt) \in Packet /\ finPkt(s.sndNxt).type = "FIN"
              /\ finPkt(s.sndNxt).seq = s.sndNxt
            BY <1>1 DEF finPkt, Packet
        <2> HIDE DEF finPkt
        <2>10. /\ finPkts(s) \in Seq(Packet)
               /\ \A k \in 1 .. Len(finPkts(s)) : finPkts(s)[k] = finPkt(s.sndNxt)
            BY <2>8, <2>9
        <2> QED  BY <1>1, <2>3, <2>4, <2>5, <2>6, <2>7, <2>9, <2>10 DEF s2
    <1>3. CASE ~finDue(s)
        <2>1. s2 = s /\ finPkts(s) = <<>>
            BY <1>3 DEF maybeSendFinOnDrain, finPkts
        <2>2. <<>> \in Seq(Packet) /\ Len(<<>>) = 0
            OBVIOUS
        <2> QED  BY <2>1, <2>2, AdvanceRefl
    <1> QED  BY <1>2, <1>3

\* What onAck() makes of the socket when new bytes are acknowledged.
LEMMA AckedOK ==
    ASSUME NEW s \in Socket, WindowOK(s), FinOK(s),
           NEW ackNum \in Nat, NEW w \in Nat,
           Boundary(s, ackNum), s.sndUna < ackNum, ackNum <= s.sndNxt
    PROVE  LET s2 == acked(s, ackNum, w)
           IN  /\ s2 \in Socket
               /\ Advance(s, s2) /\ WindowOK(s2) /\ FinOK(s2)
               /\ s2.sndUna = ackNum
               /\ s2.sndNxt = s.sndNxt
               /\ s2.rcvNxt = s.rcvNxt
               /\ s2.recvBuf = s.recvBuf
               /\ s2.peerFinReceived = s.peerFinReceived
               /\ s2.state = s.state
PROOF
    <1> DEFINE s1 == setRwnd(s, w)
               s3 == popAckedThrough(s1, ackNum)
               s2 == additiveIncreaseCwnd(s3)
    <1>1. s1 \in Socket /\ Still(s, s1)
        BY SetRwndOK
    <1> HIDE DEF s1
    <1>2. Advance(s, s1) /\ WindowOK(s1)
        BY <1>1, StillOK
    <1>3. Boundary(s1, ackNum) /\ s1.sndUna < ackNum /\ ackNum <= s1.sndNxt
        BY <1>1 DEF Still, SameSender, Boundary
    <1>4. /\ s3 \in Socket
          /\ Advance(s1, s3)
          /\ WindowOK(s3)
          /\ s3.sndUna = ackNum
          /\ s3.sndNxt = s1.sndNxt
          /\ s3.rcvNxt = s1.rcvNxt
          /\ s3.recvBuf = s1.recvBuf
          /\ s3.peerFinReceived = s1.peerFinReceived
          /\ s3.finSeq = s1.finSeq
          /\ s3.state = s1.state
        BY <1>1, <1>2, <1>3, PopOK
    <1> HIDE DEF s3
    <1>5. s2 \in Socket /\ Still(s3, s2)
        BY <1>4, AdditiveIncreaseOK
    <1>6. s2 = acked(s, ackNum, w)
        BY DEF acked, s1, s3
    <1> HIDE DEF s2
    <1>7. Advance(s3, s2) /\ WindowOK(s2)
        BY <1>4, <1>5, StillOK
    <1>8. Advance(s, s2)
        BY <1>1, <1>2, <1>4, <1>5, <1>7, AdvanceTrans
    <1>9. /\ s2.sndUna = ackNum /\ s2.sndNxt = s.sndNxt /\ s2.rcvNxt = s.rcvNxt
          /\ s2.recvBuf = s.recvBuf /\ s2.peerFinReceived = s.peerFinReceived
          /\ s2.finSeq = s.finSeq /\ s2.state = s.state
        BY <1>1, <1>4, <1>5 DEF Still, SameSender
    <1>10. ~(s.finSeq >= 0)
        <2>1. s.sndUna \in Nat /\ s.sndNxt \in Nat
            BY DEF Socket
        <2>2. s.finSeq >= 0 => s.sndUna = s.sndNxt
            BY DEF FinOK, WindowOK
        <2> QED  BY <2>1, <2>2
    <1>11. FinOK(s2)
        BY <1>9, <1>10 DEF FinOK
    <1> QED  BY <1>5, <1>6, <1>7, <1>8, <1>9, <1>11

\* A record field's type, for a socket.
LEMMA SocketFields ==
    ASSUME NEW s \in Socket
    PROVE  /\ s.state \in States
           /\ s.sndUna \in Nat /\ s.sndNxt \in Nat /\ s.rcvNxt \in Nat
           /\ s.recvBuf \in Seq(Byte)
           /\ s.finSeq \in Nat \cup {-1}
           /\ s.peerFinReceived \in BOOLEAN
           /\ s.outstanding \in Seq(Segment)
           /\ s.armed \in BOOLEAN
           /\ s.rwnd \in Nat /\ s.cwnd \in Nat
    BY DEF Socket

\* A change of state alone, as in accept(), close() and markClosed().
LEMMA StateOK ==
    ASSUME NEW s \in Socket, NEW st \in States
    PROVE  LET s2 == [s EXCEPT !.state = st]
           IN  /\ s2 \in Socket
               /\ s2.state = st
               /\ SameSender(s, s2)
               /\ s2.rcvNxt = s.rcvNxt
               /\ s2.recvBuf = s.recvBuf
               /\ s2.peerFinReceived = s.peerFinReceived
               /\ Advance(s, s2)
               /\ WindowOK(s) => WindowOK(s2)
PROOF
    <1> DEFINE s2 == [s EXCEPT !.state = st]
    <1>1. s2 \in Socket
        BY Zenon DEF Socket
    <1>2. /\ s2.state = st
          /\ SameSender(s, s2)
          /\ s2.rcvNxt = s.rcvNxt
          /\ s2.recvBuf = s.recvBuf
          /\ s2.peerFinReceived = s.peerFinReceived
        BY DEF Socket, SameSender
    <1> HIDE DEF s2
    <1>3. s.rcvNxt <= s2.rcvNxt /\ (s.peerFinReceived => s2.peerFinReceived)
        BY <1>2, SocketFields
    <1>4. Advance(s, s2) /\ (WindowOK(s) => WindowOK(s2))
        BY <1>1, <1>2, <1>3, SameSenderAdvance
    <1> QED  BY <1>1, <1>2, <1>4 DEF s2

\* markPeerFinReceived() touches the sending half of the socket not at all.
LEMMA PeerFinOK ==
    ASSUME NEW s \in Socket
    PROVE  LET s2 == markPeerFinReceived(s)
           IN  /\ s2 \in Socket
               /\ s2.state = IF s.state = "ESTABLISHED" THEN "SHUTDOWN" ELSE s.state
               /\ SameSender(s, s2)
               /\ s2.rcvNxt = s.rcvNxt
               /\ s2.recvBuf = s.recvBuf
               /\ s2.peerFinReceived = TRUE
               /\ Advance(s, s2)
               /\ WindowOK(s) => WindowOK(s2)
PROOF
    <1> DEFINE st == IF s.state = "ESTABLISHED" THEN "SHUTDOWN" ELSE s.state
               s2 == markPeerFinReceived(s)
    <1>1. st \in States /\ TRUE \in BOOLEAN
        BY SocketFields DEF States
    <1>2. s2 = [s EXCEPT !.peerFinReceived = TRUE, !.state = st]
        BY DEF markPeerFinReceived, Socket
    <1> HIDE DEF st, s2
    <1>3. s2 \in Socket
        BY <1>1, <1>2, Zenon DEF Socket
    <1>4. /\ s2.state = st
          /\ SameSender(s, s2)
          /\ s2.rcvNxt = s.rcvNxt
          /\ s2.recvBuf = s.recvBuf
          /\ s2.peerFinReceived = TRUE
        BY <1>2 DEF Socket, SameSender
    <1>5. s.rcvNxt <= s2.rcvNxt
        BY <1>4, SocketFields
    <1>6. Advance(s, s2) /\ (WindowOK(s) => WindowOK(s2))
        BY <1>3, <1>4, <1>5, SameSenderAdvance
    <1> QED  BY <1>3, <1>4, <1>6 DEF s2, st

\* appendToRecvBuf() of a segment that fits.
LEMMA AppendOK ==
    ASSUME NEW s \in Socket, NEW d \in Seq(Byte),
           Len(d) <= getRecvBufAvailable(s)
    PROVE  LET s2 == appendToRecvBuf(s, d)
           IN  /\ s2 \in Socket
               /\ s2.state = s.state
               /\ SameSender(s, s2)
               /\ s2.rcvNxt = s.rcvNxt + Len(d)
               /\ s2.recvBuf = s.recvBuf \o d
               /\ s2.peerFinReceived = s.peerFinReceived
               /\ Advance(s, s2)
               /\ WindowOK(s) => WindowOK(s2)
PROOF
    <1> DEFINE n == min(Len(d), getRecvBufAvailable(s))
               s2 == appendToRecvBuf(s, d)
               r == s.rcvNxt + n
               b == s.recvBuf \o SubSeq(d, 1, n)
    <1>1. n = Len(d) /\ n \in Nat
        BY LenProperties DEF min
    <1>2. SubSeq(d, 1, n) = d
        BY <1>1, SubSeqFull
    <1>3. b = s.recvBuf \o d /\ b \in Seq(Byte)
        BY <1>2, SocketFields, ConcatProperties
    <1>4. r \in Nat
        BY <1>1, SocketFields
    <1>5. s2 = [s EXCEPT !.recvBuf = b, !.rcvNxt = r]
        BY DEF appendToRecvBuf
    <1>6. r = s.rcvNxt + Len(d)
        BY <1>1
    <1> HIDE DEF n, b, r, s2
    <1>7. s2 \in Socket
        BY <1>3, <1>4, <1>5, Zenon DEF Socket
    <1>8. /\ s2.state = s.state
          /\ SameSender(s, s2)
          /\ s2.rcvNxt = r
          /\ s2.recvBuf = b
          /\ s2.peerFinReceived = s.peerFinReceived
        BY <1>5 DEF Socket, SameSender
    <1>9. s.rcvNxt <= s2.rcvNxt
        BY <1>6, <1>8, SocketFields, LenProperties
    <1>10. Advance(s, s2) /\ (WindowOK(s) => WindowOK(s2))
        BY <1>7, <1>8, <1>9, SameSenderAdvance
    <1> QED  BY <1>3, <1>6, <1>7, <1>8, <1>10 DEF s2

\* read() moves the front of the buffer to the application.
LEMMA ReadMethodOK ==
    ASSUME NEW s \in Socket, NEW len \in Nat, NEW taken \in Seq(Byte)
    PROVE  LET s2 == read(s, len)
               taken2 == taken \o SubSeq(s.recvBuf, 1, min(len, Len(s.recvBuf)))
           IN  /\ s2 \in Socket
               /\ SameSender(s, s2)
               /\ s2.rcvNxt = s.rcvNxt
               /\ s2.peerFinReceived = s.peerFinReceived
               /\ Len(s2.recvBuf) <= Len(s.recvBuf)
               /\ s2.state \in {s.state, "CLOSED"}
               /\ s2.state # s.state => s.peerFinReceived /\ s2.recvBuf = <<>>
               /\ Advance(s, s2)
               /\ WindowOK(s) => WindowOK(s2)
               /\ taken2 \in Seq(Byte)
               /\ ReadOK(s, taken) => ReadOK(s2, taken2)
PROOF
    <1> DEFINE buf == s.recvBuf
               n == min(len, Len(buf))
               front == SubSeq(buf, 1, n)
               rest == SubSeq(buf, n + 1, Len(buf))
               st == IF s.peerFinReceived /\ rest = <<>> THEN "CLOSED" ELSE s.state
               s2 == read(s, len)
               taken2 == taken \o front
    <1>1. buf \in Seq(Byte) /\ Len(buf) \in Nat /\ s.state \in States /\ s.rcvNxt \in Nat
        BY SocketFields, LenProperties
    <1>2. ReadOK(s, taken) =>
          /\ s.rcvNxt = 1 + Len(taken) + Len(buf)
          /\ (\A k \in 1 .. Len(taken) : taken[k] = k)
          /\ (\A k \in 1 .. Len(buf) : buf[k] = Len(taken) + k)
        BY DEF ReadOK
    <1>3. Len(taken) \in Nat
        BY LenProperties
    <1> HIDE DEF buf
    <1>4. n \in Nat /\ n <= Len(buf)
        BY <1>1 DEF min
    <1> HIDE DEF n
    <1>5. front \in Seq(Byte) /\ Len(front) = n /\ \A k \in 1 .. n : front[k] = buf[k]
        BY <1>1, <1>4
    <1>6. rest \in Seq(Byte) /\ Len(rest) = Len(buf) - n
          /\ \A k \in 1 .. Len(buf) - n : rest[k] = buf[n + k]
        <2>1. \A k \in n + 1 .. Len(buf) : buf[k] \in Byte
            BY <1>1, <1>4, ElementOfSeq
        <2>2. CASE n + 1 <= Len(buf)
            <3>1. /\ rest \in Seq(Byte)
                  /\ Len(rest) = Len(buf) - (n + 1) + 1
                  /\ \A k \in 1 .. Len(buf) - (n + 1) + 1 : rest[k] = buf[(n + 1) + k - 1]
                <4>1. n + 1 \in Int /\ Len(buf) \in Int
                    BY <1>1, <1>4
                <4> QED  BY <2>1, <2>2, <4>1, SubSeqProperties
            <3> HIDE DEF rest
            <3>2. Len(buf) - (n + 1) + 1 = Len(buf) - n
                BY <1>1, <1>4
            <3>3. ASSUME NEW k \in 1 .. Len(buf) - n  PROVE  rest[k] = buf[n + k]
                <4>1. rest[k] = buf[(n + 1) + k - 1]
                    BY <3>1, <3>2
                <4>2. (n + 1) + k - 1 = n + k
                    BY <1>4
                <4> QED  BY <4>1, <4>2
            <3> QED  BY <3>1, <3>2, <3>3
        <2>3. CASE ~(n + 1 <= Len(buf))
            <3>1. n = Len(buf)
                BY <1>1, <1>4, <2>3
            <3>2. rest = <<>>
                BY <1>1, <3>1
            <3> HIDE DEF rest
            <3> QED  BY <1>1, <3>1, <3>2
        <2> QED  BY <2>2, <2>3
    <1>7. st \in States
        BY <1>1 DEF States
    <1>8. s2 = [s EXCEPT !.recvBuf = rest, !.state = st]
        BY DEF read, n, buf
    <1>9. taken2 = taken \o SubSeq(s.recvBuf, 1, min(len, Len(s.recvBuf)))
        BY DEF n, buf
    <1>10. /\ taken2 \in Seq(Byte)
           /\ Len(taken2) = Len(taken) + n
           /\ \A k \in 1 .. Len(taken) + n :
                taken2[k] = IF k <= Len(taken) THEN taken[k] ELSE front[k - Len(taken)]
        <2> HIDE DEF front
        <2> QED  BY <1>5, ConcatProperties
    <1>11. st \in {s.state, "CLOSED"} /\ (st # s.state => s.peerFinReceived /\ rest = <<>>)
        OBVIOUS
    <1> HIDE DEF front, rest, st, s2, taken2
    <1>12. s2 \in Socket
        BY <1>6, <1>7, <1>8, Zenon DEF Socket
    <1>13. /\ SameSender(s, s2)
           /\ s2.rcvNxt = s.rcvNxt
           /\ s2.peerFinReceived = s.peerFinReceived
           /\ s2.recvBuf = rest
           /\ s2.state = st
        BY <1>8 DEF Socket, SameSender
    <1>14. Advance(s, s2) /\ (WindowOK(s) => WindowOK(s2))
        BY <1>1, <1>12, <1>13, SameSenderAdvance
    <1>15. ASSUME ReadOK(s, taken)  PROVE  ReadOK(s2, taken2)
        <2>1. s2.rcvNxt = 1 + Len(taken2) + Len(s2.recvBuf)
            <3>1. s2.rcvNxt = 1 + Len(taken) + Len(buf)
                BY <1>2, <1>15, <1>13
            <3>2. Len(taken2) = Len(taken) + n
                BY <1>10
            <3>3. Len(s2.recvBuf) = Len(buf) - n
                BY <1>6, <1>13
            <3> QED  BY <1>1, <1>3, <1>4, <3>1, <3>2, <3>3
        <2>2. ASSUME NEW k \in 1 .. Len(taken2)  PROVE  taken2[k] = k
            <3>1. CASE k <= Len(taken)
                BY <1>2, <1>15, <1>3, <1>4, <1>10, <3>1
            <3>2. CASE ~(k <= Len(taken))
                <4>1. k - Len(taken) \in 1 .. n /\ k - Len(taken) \in 1 .. Len(buf)
                    BY <1>1, <1>3, <1>4, <1>10, <3>2
                <4>2. taken2[k] = front[k - Len(taken)]
                    BY <1>3, <1>4, <1>10, <3>2
                <4>3. front[k - Len(taken)] = buf[k - Len(taken)]
                    BY <1>5, <4>1
                <4>4. buf[k - Len(taken)] = Len(taken) + (k - Len(taken))
                    BY <1>2, <1>15, <4>1
                <4> QED  BY <1>3, <4>2, <4>3, <4>4
            <3> QED  BY <3>1, <3>2
        <2>3. ASSUME NEW k \in 1 .. Len(rest)  PROVE  rest[k] = Len(taken2) + k
            <3>1. n + k \in 1 .. Len(buf) /\ rest[k] = buf[n + k]
                BY <1>1, <1>4, <1>6
            <3>2. buf[n + k] = Len(taken) + (n + k)
                BY <1>2, <1>15, <3>1
            <3> QED  BY <1>3, <1>4, <1>10, <3>1, <3>2
        <2> QED  BY <1>13, <2>1, <2>2, <2>3 DEF ReadOK
    <1>16. Len(rest) <= Len(buf)
        BY <1>1, <1>4, <1>6
    <1>17. Len(s2.recvBuf) <= Len(s.recvBuf)
        BY <1>13, <1>16 DEF buf
    <1>18. s2.state \in {s.state, "CLOSED"}
        BY <1>11, <1>13
    <1>19. s2.state # s.state => s.peerFinReceived /\ s2.recvBuf = <<>>
        BY <1>11, <1>13
    <1>20. /\ taken \o SubSeq(s.recvBuf, 1, min(len, Len(s.recvBuf))) \in Seq(Byte)
           /\ ReadOK(s, taken) => ReadOK(s2, taken \o SubSeq(s.recvBuf, 1, min(len, Len(s.recvBuf))))
        BY <1>9, <1>10, <1>15
    <1> QED  BY <1>12, <1>13, <1>14, <1>17, <1>18, <1>19, <1>20, Zenon DEF s2

-----------------------------------------------------------------------------
(* The packets a step sends. *)

\* The data packets of outstanding segments fit.
LEMMA DataPktsOK ==
    ASSUME NEW t \in Socket, NEW s \in Socket, NEW segs \in Seq(Segment),
           \A j \in 1 .. Len(segs) :
                /\ Numbered(segs[j].seqStart, segs[j].data)
                /\ segEnd(segs[j]) <= s.sndNxt
                /\ \E k \in DOMAIN s.outstanding : s.outstanding[k] = segs[j]
    PROVE  /\ dataPkts(segs) \in Seq(Packet)
           /\ \A j \in 1 .. Len(dataPkts(segs)) : PktOK(t, s, dataPkts(segs)[j])
PROOF
    <1> DEFINE pkt(j) == [type |-> "DATA", seq |-> segs[j].seqStart,
                          window |-> 0, data |-> segs[j].data]
    <1>1. dataPkts(segs) = [j \in 1 .. Len(segs) |-> pkt(j)]
        BY DEF dataPkts
    <1>2. ASSUME NEW j \in 1 .. Len(segs)
          PROVE  /\ segs[j] \in Segment
                 /\ segs[j].seqStart \in Nat /\ segs[j].data \in Seq(Byte)
                 /\ segs[j] = [seqStart |-> segs[j].seqStart, data |-> segs[j].data]
        <2>1. segs[j] \in Segment
            BY ElementOfSeq
        <2> DEFINE g == segs[j]
        <2> HIDE DEF g
        <2>2. g \in [seqStart : Nat, data : Seq(Byte)]
            BY <2>1 DEF Segment, g
        <2>3. g.seqStart \in Nat /\ g.data \in Seq(Byte)
            BY <2>2
        <2>4. g = [seqStart |-> g.seqStart, data |-> g.data]
            BY <2>2
        <2> QED  BY <2>1, <2>3, <2>4 DEF g
    <1>3. ASSUME NEW j \in 1 .. Len(segs)  PROVE  pkt(j) \in Packet
        BY <1>2 DEF Packet
    <1>4. ASSUME NEW j \in 1 .. Len(segs)  PROVE  PktOK(t, s, pkt(j))
        <2>1. /\ pkt(j).type = "DATA" /\ pkt(j).seq = segs[j].seqStart
              /\ pkt(j).data = segs[j].data
            OBVIOUS
        <2> HIDE DEF pkt
        <2>2. [seqStart |-> pkt(j).seq, data |-> pkt(j).data] = segs[j]
            BY <1>2, <2>1
        <2>3. DataOK(s, pkt(j))
            BY <2>1, <2>2 DEF DataOK
        <2> QED  BY <2>1, <2>3 DEF PktOK
    <1> HIDE DEF pkt
    <1>5. Len(segs) \in Nat
        BY LenProperties
    <1>6. dataPkts(segs) \in Seq(Packet)
        BY <1>1, <1>3, <1>5
    <1>7. Len(dataPkts(segs)) = Len(segs)
        BY <1>1, <1>5
    <1> QED  BY <1>1, <1>4, <1>6, <1>7

\* A single acknowledgement.
LEMMA AckPktOK ==
    ASSUME NEW s \in Socket, Len(s.recvBuf) <= RECV_BUF_CAP, NEW n \in Nat
    PROVE  /\ <<ackPkt(s, n)>> \in Seq(Packet)
           /\ \A k \in 1 .. Len(<<ackPkt(s, n)>>) :
                /\ <<ackPkt(s, n)>>[k].type = "ACK"
                /\ <<ackPkt(s, n)>>[k].seq = n
PROOF
    <1>1. getRecvBufAvailable(s) \in Nat
        BY SocketFields, LenProperties, SocketConstants
        DEF getRecvBufAvailable, SocketConstants
    <1>2. /\ ackPkt(s, n) \in Packet
          /\ ackPkt(s, n).type = "ACK" /\ ackPkt(s, n).seq = n
        BY <1>1 DEF ackPkt, Packet
    <1> HIDE DEF ackPkt
    <1> QED  BY <1>2

\* An acknowledgement of what s expects next fits its peer t.
LEMMA CumulativeAckOK ==
    ASSUME NEW s \in Socket, NEW t \in Socket, PairOK(t, s),
           NEW pkt, pkt.type = "ACK", pkt.seq = s.rcvNxt
    PROVE  PktOK(t, s, pkt)
PROOF
    <1>1. s.rcvNxt \in Nat
        BY SocketFields
    <1>2. AckOK(t, s, pkt)
        BY <1>1 DEF AckOK, PairOK
    <1> QED  BY <1>2 DEF PktOK

-----------------------------------------------------------------------------
(* Steps. *)

\* Paired as seen from end e.
LEMMA Parts ==
    ASSUME Paired, NEW e \in Ends
    PROVE  /\ Peer(e) \in Ends /\ Peer(e) # e /\ Peer(Peer(e)) = e
           /\ sock[e] \in Socket /\ sock[Peer(e)] \in Socket
           /\ net[e] \in Seq(Packet)
           /\ got[e] \in Seq(Byte) /\ pos[e] \in Nat
           /\ accepted[e] \in BOOLEAN /\ established[e] \in BOOLEAN
           /\ Len(sock[e].recvBuf) <= RECV_BUF_CAP
           /\ WindowOK(sock[e]) /\ FinOK(sock[e])
           /\ PairOK(sock[e], sock[Peer(e)])
           /\ PairOK(sock[Peer(e)], sock[e])
           /\ ReadOK(sock[e], got[e])
           /\ pos[e] = sock[e].sndNxt - 1
           /\ EndOK(e)
           /\ \A i \in 1 .. Len(net[e]) :
                net[e][i] \in Packet /\ PktOK(sock[e], sock[Peer(e)], net[e][i])
PROOF
    <1>1. Peer(e) \in Ends /\ Peer(e) # e /\ Peer(Peer(e)) = e
        BY EndsPeer
    <1>2. /\ sock \in [Ends -> Socket] /\ net \in [Ends -> Seq(Packet)]
          /\ got \in [Ends -> Seq(Byte)] /\ pos \in [Ends -> Nat]
          /\ accepted \in [Ends -> BOOLEAN] /\ established \in [Ends -> BOOLEAN]
          /\ Len(sock[e].recvBuf) <= RECV_BUF_CAP
        BY DEF Paired, PairInv, PairTypes
    <1>3. PairOK(sock[Peer(e)], sock[Peer(Peer(e))])
        BY <1>1 DEF Paired, PairInv
    <1>4. /\ sock[e] \in Socket /\ sock[Peer(e)] \in Socket
          /\ net[e] \in Seq(Packet)
          /\ got[e] \in Seq(Byte) /\ pos[e] \in Nat
          /\ accepted[e] \in BOOLEAN /\ established[e] \in BOOLEAN
        BY <1>1, <1>2
    <1>5. \A i \in 1 .. Len(net[e]) : net[e][i] \in Packet
        BY <1>4, ElementOfSeq
    <1> QED  BY <1>1, <1>2, <1>3, <1>4, <1>5 DEF Paired, PairInv

\* A step of e that leaves buffers, flags and table entries as they are.
LEMMA StillStep ==
    ASSUME Paired, NEW e \in Ends, NEW s2 \in Socket,
           sock' = [sock EXCEPT ![e] = s2], Still(sock[e], s2), NetStep,
           got' = got, pos' = pos, established' = established,
           accepted' = accepted, losses' \in 0 .. MaxLoss
    PROVE  Preserved
PROOF
    <1> DEFINE s == sock[e]
    <1>1. /\ Peer(e) \in Ends /\ s \in Socket /\ sock \in [Ends -> Socket]
          /\ WindowOK(s) /\ FinOK(s) /\ PairOK(s, sock[Peer(e)])
          /\ PairOK(sock[Peer(e)], s) /\ ReadOK(s, got[e]) /\ EndOK(e)
          /\ Len(s.recvBuf) <= RECV_BUF_CAP /\ pos[e] = s.sndNxt - 1
          /\ Peer(e) # e
        BY Parts DEF Paired, PairInv, PairTypes
    <1>2. /\ got \in [Ends -> Seq(Byte)] /\ pos \in [Ends -> Nat]
          /\ accepted \in [Ends -> BOOLEAN] /\ established \in [Ends -> BOOLEAN]
        BY DEF Paired, PairInv, PairTypes
    <1>3. Advance(s, s2) /\ WindowOK(s2) /\ FinOK(s2)
        BY <1>1, StillOK
    <1>4. /\ s2.sndUna = s.sndUna /\ s2.sndNxt = s.sndNxt /\ s2.finSeq = s.finSeq
          /\ s2.rcvNxt = s.rcvNxt /\ s2.recvBuf = s.recvBuf
          /\ s2.peerFinReceived = s.peerFinReceived /\ s2.state = s.state
        BY DEF Still, SameSender
    <1>5. s2.sndUna <= sock[Peer(e)].rcvNxt /\ PairOK(sock[Peer(e)], s2)
        BY <1>1, <1>4 DEF PairOK
    <1>6. ReadOK(s2, got'[e])
        BY <1>1, <1>4 DEF ReadOK
    <1>7. sock'[e] = s2 /\ sock'[Peer(e)] = sock[Peer(e)]
        BY <1>1
    <1>8. EndOK(e)'
        BY <1>1, <1>4, <1>7 DEF EndOK
    <1>9. pos'[e] = s2.sndNxt - 1 /\ Len(s2.recvBuf) <= RECV_BUF_CAP
        BY <1>1, <1>4
    <1> QED  BY <1>2, <1>3, <1>5, <1>6, <1>8, <1>9, SocketStep

\* A step that changes no socket and no table entry.
LEMMA NetOnlyStep ==
    ASSUME Paired, NEW e \in Ends, NetStep,
           sock' = sock, got' = got, pos' = pos, established' = established,
           accepted' = accepted, losses' \in 0 .. MaxLoss
    PROVE  Preserved
PROOF
    <1>1. sock \in [Ends -> Socket] /\ sock[e] \in Socket
        BY Parts DEF Paired, PairInv, PairTypes
    <1>2. sock' = [sock EXCEPT ![e] = sock[e]]
        BY <1>1
    <1>3. Still(sock[e], sock[e])
        BY DEF Still, SameSender
    <1> QED  BY <1>1, <1>2, <1>3, StillStep

\* A step that leaves the network alone.
LEMMA QuietStep ==
    ASSUME PairTypes, net' = net
    PROVE  NetStep
    BY DEF PairTypes, NetStep

\* An empty reply only takes packet i away.
LEMMA ConsumeStep ==
    ASSUME PairTypes, NEW e \in Ends, NEW i \in 1 .. Len(net[e]), Reply(e, i, <<>>)
    PROVE  NetStep
PROOF
    <1> DEFINE none == <<>>
    <1>1. none \in Seq(Packet) /\ \A k \in 1 .. Len(none) : FALSE
        OBVIOUS
    <1>2. Reply(e, i, none)
        OBVIOUS
    <1> HIDE DEF none
    <1> QED  BY <1>1, <1>2, ReplyStep

\* A FIN has no number before its socket is in SHUTDOWN.
LEMMA NotFinished ==
    ASSUME NEW s \in Socket, FinOK(s), s.state \notin {"SHUTDOWN", "CLOSED"}
    PROVE  s.finSeq < 0 /\ ~(s.finSeq >= 0)
PROOF
    <1>1. s.finSeq \in Nat \cup {-1}
        BY SocketFields
    <1>2. ~(s.finSeq >= 0)
        BY DEF FinOK
    <1> QED  BY <1>1, <1>2

\* accept() may put a socket that has seen the peer's FIN back to ESTABLISHED;
\* its own FIN has no number yet, since only the application closes.
LEMMA AppAcceptOK ==
    ASSUME Paired, NEW e \in Ends, AppAccept(e)
    PROVE  Preserved
PROOF
    <1> DEFINE s == sock[e]
               st == IF s.state = "CLOSED" THEN "CLOSED" ELSE "ESTABLISHED"
               s2 == [s EXCEPT !.state = st]
    <1>1. sock \in [Ends -> Socket] /\ PairTypes
        BY DEF Paired, PairInv, PairTypes
    <1>2. sock' = [sock EXCEPT ![e] = s2]
        BY <1>1 DEF AppAccept
    <1>3. st \in States
        BY DEF States
    <1>4. s \in Socket
        BY <1>1
    <1> HIDE DEF st
    <1>5. /\ s2 \in Socket /\ s2.state = st /\ SameSender(s, s2)
          /\ s2.rcvNxt = s.rcvNxt /\ s2.recvBuf = s.recvBuf
          /\ s2.peerFinReceived = s.peerFinReceived
          /\ Advance(s, s2) /\ (WindowOK(s) => WindowOK(s2))
        BY <1>3, <1>4, StateOK
    <1> HIDE DEF s2
    <1>6. /\ WindowOK(s) /\ FinOK(s) /\ PairOK(s, sock[Peer(e)])
          /\ PairOK(sock[Peer(e)], s) /\ ReadOK(s, got[e]) /\ EndOK(e)
          /\ Len(s.recvBuf) <= RECV_BUF_CAP /\ pos[e] = s.sndNxt - 1
          /\ Peer(e) # e /\ Peer(e) \in Ends
        BY Parts
    <1>7. s2.finSeq = s.finSeq /\ s2.sndUna = s.sndUna /\ s2.sndNxt = s.sndNxt
        BY <1>5 DEF SameSender
    <1>8. FinOK(s2)
        <2>1. s.finSeq < 0 /\ s.finSeq \in Nat \cup {-1}
            BY <1>4, <1>6, SocketFields DEF EndOK, AppAccept
        <2> QED  BY <1>7, <2>1 DEF FinOK
    <1>9. s2.sndUna <= sock[Peer(e)].rcvNxt /\ PairOK(sock[Peer(e)], s2)
        BY <1>5, <1>6, <1>7 DEF PairOK
    <1>10. ReadOK(s2, got[e])
        BY <1>5, <1>6 DEF ReadOK
    <1>11. sock'[e] = s2 /\ sock'[Peer(e)] = sock[Peer(e)]
        BY <1>1, <1>2, <1>6
    <1>12. /\ accepted' \in [Ends -> BOOLEAN] /\ accepted'[e] = TRUE
           /\ accepted'[Peer(e)] = accepted[Peer(e)]
        BY <1>1, <1>6 DEF AppAccept, PairTypes
    <1>13. st = "CLOSED" <=> s.state = "CLOSED"
        BY DEF st
    <1>14. EndOK(e)'
        BY <1>5, <1>6, <1>7, <1>11, <1>12, <1>13 DEF EndOK, AppAccept
    <1>15. NetStep
        BY <1>1, QuietStep DEF AppAccept
    <1>16. /\ got' = got /\ pos' = pos /\ established' = established /\ losses' = losses
        BY DEF AppAccept
    <1>17. /\ got \in [Ends -> Seq(Byte)] /\ pos \in [Ends -> Nat]
           /\ established \in [Ends -> BOOLEAN] /\ losses \in 0 .. MaxLoss
        BY <1>1 DEF PairTypes
    <1>18. pos[e] = s2.sndNxt - 1 /\ Len(s2.recvBuf) <= RECV_BUF_CAP
        BY <1>5, <1>6, <1>7
    <1> QED  BY <1>2, <1>5, <1>6, <1>8, <1>9, <1>10, <1>12, <1>14, <1>15, <1>16, <1>17, <1>18, SocketStep

\* The bytes an application writes next carry the next sequence numbers.
LEMMA NextBytesOK ==
    ASSUME Paired, NEW e \in Ends, NEW len \in Nat
    PROVE  LET bytes == nextBytes(e, len)
           IN  /\ bytes \in Seq(Byte) /\ Len(bytes) = len
               /\ \A k \in 1 .. Len(bytes) : bytes[k] = sock[e].sndNxt + k - 1
PROOF
    <1> DEFINE s == sock[e]
               bytes == nextBytes(e, len)
    <1>1. s \in Socket /\ pos[e] = s.sndNxt - 1 /\ pos[e] \in Nat
        BY Parts
    <1>2. \A k \in 1 .. len : pos[e] + k \in Byte
        BY <1>1 DEF Byte
    <1>3. bytes = [k \in 1 .. len |-> pos[e] + k]
        BY DEF nextBytes
    <1> HIDE DEF bytes
    <1>4. bytes \in Seq(Byte) /\ Len(bytes) = len
        BY <1>2, <1>3
    <1>5. \A k \in 1 .. len : bytes[k] = s.sndNxt + k - 1
        <2>1. s.sndNxt \in Nat
            BY <1>1, SocketFields
        <2> QED  BY <1>1, <1>3, <2>1
    <1> QED  BY <1>4, <1>5 DEF bytes

\* write() extends the window by numbered segments and sends exactly those.
LEMMA AppWriteOK ==
    ASSUME Paired, NEW e \in Ends, NEW len, AppWrite(e, len)
    PROVE  Preserved
PROOF
    <1> DEFINE s == sock[e]
               t == sock[Peer(e)]
               bytes == nextBytes(e, len)
               n == writable(s, len)
               s2 == write(s, bytes)
               segs == written(s, bytes)
    <1>1. sock \in [Ends -> Socket] /\ PairTypes
        BY DEF Paired, PairInv, PairTypes
    <1>2. /\ s \in Socket /\ t \in Socket
          /\ WindowOK(s) /\ FinOK(s) /\ PairOK(s, t)
          /\ PairOK(t, s) /\ ReadOK(s, got[e]) /\ EndOK(e)
          /\ Len(s.recvBuf) <= RECV_BUF_CAP /\ pos[e] = s.sndNxt - 1
          /\ Peer(e) # e /\ Peer(e) \in Ends /\ pos[e] \in Nat
        BY Parts
    <1>3. sock' = [sock EXCEPT ![e] = s2]
        BY <1>1 DEF AppWrite
    <1>4. len \in Nat /\ s.state = "ESTABLISHED" /\ accepted[e]
        <2>1. Amount[e] \in Nat
            BY StreamConstants DEF StreamConstants
        <2> QED  BY <1>2, <2>1 DEF AppWrite
    <1>5. s.finSeq < 0 /\ ~(s.finSeq >= 0)
        BY <1>2, <1>4, NotFinished
    <1>6. /\ bytes \in Seq(Byte) /\ Len(bytes) = len
          /\ \A k \in 1 .. Len(bytes) : bytes[k] = s.sndNxt + k - 1
        BY <1>4, NextBytesOK
    <1>7. writable(s, Len(bytes)) > 0
        BY <1>6 DEF AppWrite
    <1> HIDE DEF bytes
    <1>8. /\ writable(s, Len(bytes)) \in Nat
          /\ s2 \in Socket /\ Advance(s, s2) /\ WindowOK(s2)
          /\ s2.sndUna = s.sndUna
          /\ s2.sndNxt = s.sndNxt + writable(s, Len(bytes))
          /\ s2.rcvNxt = s.rcvNxt /\ s2.recvBuf = s.recvBuf
          /\ s2.peerFinReceived = s.peerFinReceived
          /\ s2.finSeq = s.finSeq /\ s2.state = s.state
          /\ segs \in Seq(Segment)
          /\ \A j \in 1 .. Len(segs) :
                /\ Numbered(segs[j].seqStart, segs[j].data)
                /\ segEnd(segs[j]) <= s2.sndNxt
                /\ \E k \in DOMAIN s2.outstanding : s2.outstanding[k] = segs[j]
        BY <1>2, <1>5, <1>6, <1>7, WriteOK
    <1>9. n \in Nat /\ s2.sndNxt = s.sndNxt + n
        BY <1>6, <1>8
    <1>10. Send(e, dataPkts(segs))
        BY DEF AppWrite, bytes
    <1> HIDE DEF s2, segs, n
    <1>11. sock'[e] = s2 /\ sock'[Peer(e)] = t
        BY <1>1, <1>2, <1>3
    <1>12. /\ dataPkts(segs) \in Seq(Packet)
           /\ \A j \in 1 .. Len(dataPkts(segs)) : PktOK(t, s2, dataPkts(segs)[j])
        BY <1>2, <1>8, DataPktsOK
    <1>13. NetStep
        BY <1>1, <1>10, <1>11, <1>12, SendStep
    <1>14. FinOK(s2)
        BY <1>5, <1>8 DEF FinOK
    <1>15. s2.sndUna <= t.rcvNxt /\ PairOK(t, s2) /\ ReadOK(s2, got[e])
        BY <1>2, <1>8 DEF PairOK, ReadOK
    <1>16. pos' = [pos EXCEPT ![e] = pos[e] + n]
        BY DEF AppWrite, n
    <1>17. /\ got' = got /\ established' = established /\ losses' = losses
           /\ accepted' = accepted
        BY DEF AppWrite
    <1>18. /\ got \in [Ends -> Seq(Byte)] /\ pos \in [Ends -> Nat]
           /\ established \in [Ends -> BOOLEAN] /\ losses \in 0 .. MaxLoss
           /\ accepted \in [Ends -> BOOLEAN]
        BY <1>1 DEF PairTypes
    <1>19. /\ pos' \in [Ends -> Nat] /\ pos'[Peer(e)] = pos[Peer(e)]
           /\ pos'[e] = s2.sndNxt - 1
        <2>1. pos[e] + n \in Nat /\ pos[e] + n = s2.sndNxt - 1
            <3>1. s.sndNxt \in Nat
                BY <1>2, SocketFields
            <3> QED  BY <1>2, <1>9, <3>1
        <2> QED  BY <1>2, <1>16, <1>18, <2>1
    <1>20. EndOK(e)'
        BY <1>2, <1>4, <1>8, <1>11, <1>17 DEF EndOK
    <1>21. Len(s2.recvBuf) <= RECV_BUF_CAP
        BY <1>2, <1>8
    <1> QED  BY <1>2, <1>3, <1>8, <1>13, <1>14, <1>15, <1>17, <1>18, <1>19, <1>20, <1>21, SocketStep

\* close() sends the FIN at once only when nothing is outstanding.
LEMMA AppCloseOK ==
    ASSUME Paired, NEW e \in Ends, AppClose(e)
    PROVE  Preserved
PROOF
    <1> DEFINE s == sock[e]
               t == sock[Peer(e)]
               s1 == [s EXCEPT !.state = "SHUTDOWN"]
               s2 == maybeSendFinOnDrain(s1)
    <1>1. sock \in [Ends -> Socket] /\ PairTypes
        BY DEF Paired, PairInv, PairTypes
    <1>2. /\ s \in Socket /\ t \in Socket
          /\ WindowOK(s) /\ FinOK(s) /\ PairOK(s, t)
          /\ PairOK(t, s) /\ ReadOK(s, got[e]) /\ EndOK(e)
          /\ Len(s.recvBuf) <= RECV_BUF_CAP /\ pos[e] = s.sndNxt - 1
          /\ Peer(e) # e /\ Peer(e) \in Ends
        BY Parts
    <1>3. sock' = [sock EXCEPT ![e] = s2] /\ Send(e, finPkts(s1))
        BY <1>1 DEF AppClose
    <1>4. accepted[e] /\ s.state = "ESTABLISHED"
        BY DEF AppClose
    <1>5. /\ s1 \in Socket /\ s1.state = "SHUTDOWN" /\ SameSender(s, s1)
          /\ s1.rcvNxt = s.rcvNxt /\ s1.recvBuf = s.recvBuf
          /\ s1.peerFinReceived = s.peerFinReceived
          /\ Advance(s, s1) /\ WindowOK(s1)
        <2>1. "SHUTDOWN" \in States
            BY DEF States
        <2> QED  BY <1>2, <2>1, StateOK
    <1> HIDE DEF s1
    <1>6. FinOK(s1)
        BY <1>2, <1>4, <1>5, NotFinished DEF FinOK, SameSender
    <1>7. /\ s2 \in Socket
          /\ Advance(s1, s2) /\ WindowOK(s2) /\ FinOK(s2)
          /\ s2.sndUna = s1.sndUna /\ s2.sndNxt = s1.sndNxt
          /\ s2.rcvNxt = s1.rcvNxt /\ s2.recvBuf = s1.recvBuf
          /\ s2.peerFinReceived = s1.peerFinReceived
          /\ s2.state = s1.state
          /\ finPkts(s1) \in Seq(Packet)
          /\ \A k \in 1 .. Len(finPkts(s1)) :
                /\ finPkts(s1)[k].type = "FIN"
                /\ finPkts(s1)[k].seq = s2.finSeq
                /\ s2.finSeq >= 0
        BY <1>5, <1>6, FinOnDrainOK
    <1> HIDE DEF s2
    <1>8. Advance(s, s2)
        BY <1>2, <1>5, <1>7, AdvanceTrans
    <1>9. sock'[e] = s2 /\ sock'[Peer(e)] = t
        BY <1>1, <1>2, <1>3
    <1>10. NetStep
        <2>1. \A k \in 1 .. Len(finPkts(s1)) : PktOK(t, s2, finPkts(s1)[k])
            BY <1>7 DEF PktOK
        <2> QED  BY <1>1, <1>3, <1>7, <1>9, <2>1, SendStep
    <1>11. /\ s2.sndUna = s.sndUna /\ s2.sndNxt = s.sndNxt /\ s2.rcvNxt = s.rcvNxt
           /\ s2.recvBuf = s.recvBuf /\ s2.peerFinReceived = s.peerFinReceived
           /\ s2.state = "SHUTDOWN"
        BY <1>5, <1>7 DEF SameSender
    <1>12. s2.sndUna <= t.rcvNxt /\ PairOK(t, s2) /\ ReadOK(s2, got[e])
        BY <1>2, <1>11 DEF PairOK, ReadOK
    <1>13. /\ got' = got /\ established' = established /\ losses' = losses
           /\ accepted' = accepted /\ pos' = pos
        BY DEF AppClose
    <1>14. /\ got \in [Ends -> Seq(Byte)] /\ pos \in [Ends -> Nat]
           /\ established \in [Ends -> BOOLEAN] /\ losses \in 0 .. MaxLoss
           /\ accepted \in [Ends -> BOOLEAN]
        BY <1>1 DEF PairTypes
    <1>15. EndOK(e)'
        BY <1>2, <1>4, <1>9, <1>11, <1>13 DEF EndOK
    <1>16. Len(s2.recvBuf) <= RECV_BUF_CAP /\ pos[e] = s2.sndNxt - 1
        BY <1>2, <1>11
    <1> QED  BY <1>3, <1>7, <1>8, <1>10, <1>12, <1>13, <1>14, <1>15, <1>16, SocketStep

\* read() hands over the front of the buffer and closes only at its end.
LEMMA AppReadOK ==
    ASSUME Paired, NEW e \in Ends, NEW len, AppRead(e, len)
    PROVE  Preserved
PROOF
    <1> DEFINE s == sock[e]
               t == sock[Peer(e)]
               s2 == read(s, len)
               g2 == got[e] \o SubSeq(s.recvBuf, 1, min(len, Len(s.recvBuf)))
    <1>1. sock \in [Ends -> Socket] /\ PairTypes
        BY DEF Paired, PairInv, PairTypes
    <1>2. /\ s \in Socket /\ t \in Socket
          /\ WindowOK(s) /\ FinOK(s) /\ PairOK(s, t)
          /\ PairOK(t, s) /\ ReadOK(s, got[e]) /\ EndOK(e)
          /\ Len(s.recvBuf) <= RECV_BUF_CAP /\ pos[e] = s.sndNxt - 1
          /\ Peer(e) # e /\ Peer(e) \in Ends /\ got[e] \in Seq(Byte)
        BY Parts
    <1>3. sock' = [sock EXCEPT ![e] = s2] /\ got' = [got EXCEPT ![e] = g2]
        BY <1>1 DEF AppRead, PairTypes
    <1>4. len \in Nat /\ accepted[e] /\ s.state \in {"ESTABLISHED", "SHUTDOWN"}
        BY StreamConstants DEF AppRead, StreamConstants, isOpen
    <1>5. /\ s2 \in Socket /\ SameSender(s, s2)
          /\ s2.rcvNxt = s.rcvNxt
          /\ s2.peerFinReceived = s.peerFinReceived
          /\ Len(s2.recvBuf) <= Len(s.recvBuf)
          /\ s2.state \in {s.state, "CLOSED"}
          /\ s2.state # s.state => s.peerFinReceived /\ s2.recvBuf = <<>>
          /\ Advance(s, s2) /\ WindowOK(s2)
          /\ g2 \in Seq(Byte) /\ ReadOK(s2, g2)
        BY <1>2, <1>4, ReadMethodOK
    <1> HIDE DEF s2, g2
    <1>6. /\ s2.finSeq = s.finSeq /\ s2.sndUna = s.sndUna /\ s2.sndNxt = s.sndNxt
          /\ s2.outstanding = s.outstanding
        BY <1>5 DEF SameSender
    <1>7. FinOK(s2)
        BY <1>2, <1>5, <1>6 DEF FinOK
    <1>8. s2.sndUna <= t.rcvNxt /\ PairOK(t, s2)
        BY <1>2, <1>5, <1>6 DEF PairOK
    <1>9. /\ established' = established /\ losses' = losses
          /\ accepted' = accepted /\ pos' = pos /\ net' = net
        BY DEF AppRead
    <1>10. /\ got \in [Ends -> Seq(Byte)] /\ pos \in [Ends -> Nat]
           /\ established \in [Ends -> BOOLEAN] /\ losses \in 0 .. MaxLoss
           /\ accepted \in [Ends -> BOOLEAN]
        BY <1>1 DEF PairTypes
    <1>11. got' \in [Ends -> Seq(Byte)] /\ got'[Peer(e)] = got[Peer(e)] /\ got'[e] = g2
        BY <1>2, <1>3, <1>5, <1>10
    <1>12. sock'[e] = s2 /\ sock'[Peer(e)] = t
        BY <1>1, <1>2, <1>3
    <1>13. EndOK(e)'
        <2>1. established[e]
            BY <1>2, <1>4 DEF EndOK
        <2>2. s2.state = "CLOSED" => s2.peerFinReceived /\ s2.recvBuf = <<>>
            BY <1>4, <1>5
        <2> QED  BY <1>4, <1>9, <1>12, <2>1, <2>2 DEF EndOK
    <1>14. NetStep
        BY <1>1, <1>9, QuietStep
    <1>15. Len(s2.recvBuf) <= RECV_BUF_CAP /\ pos[e] = s2.sndNxt - 1
        <2>1. Len(s2.recvBuf) \in Nat /\ Len(s.recvBuf) \in Nat /\ RECV_BUF_CAP \in Nat
            BY <1>2, <1>5, SocketFields, LenProperties, SocketConstants DEF SocketConstants
        <2> QED  BY <1>2, <1>5, <1>6, <2>1
    <1> QED  BY <1>3, <1>5, <1>7, <1>8, <1>9, <1>10, <1>11, <1>13, <1>14, <1>15, SocketStep

\* The number behind the FIN is acknowledged only by a peer that has seen the
\* FIN, for no peer acknowledges data it has not been sent.
LEMMA OnAckOfFinOK ==
    ASSUME Paired, NEW e \in Ends, NEW i, onAckOfFin(e, i)
    PROVE  Preserved
PROOF
    <1> DEFINE s == sock[e]
               t == sock[Peer(e)]
               s2 == markClosed(s)
    <1>1. sock \in [Ends -> Socket] /\ PairTypes
        BY DEF Paired, PairInv, PairTypes
    <1>2. /\ s \in Socket /\ t \in Socket
          /\ WindowOK(s) /\ FinOK(s) /\ PairOK(s, t)
          /\ PairOK(t, s) /\ ReadOK(s, got[e]) /\ EndOK(e)
          /\ Len(s.recvBuf) <= RECV_BUF_CAP /\ pos[e] = s.sndNxt - 1
          /\ Peer(e) # e /\ Peer(e) \in Ends
        BY Parts
    <1>3. /\ sock' = [sock EXCEPT ![e] = s2]
          /\ established' = [established EXCEPT ![e] = FALSE]
        BY <1>1 DEF onAckOfFin
    <1>4. /\ i \in 1 .. Len(net[e]) /\ net[e][i].type = "ACK" /\ Reply(e, i, <<>>)
          /\ s.finSeq >= 0 /\ net[e][i].seq = s.finSeq + 1
        BY DEF onAckOfFin, Arriving, acksFin
    <1>5. /\ s2 \in Socket /\ s2.state = "CLOSED" /\ SameSender(s, s2)
          /\ s2.rcvNxt = s.rcvNxt /\ s2.recvBuf = s.recvBuf
          /\ s2.peerFinReceived = s.peerFinReceived
          /\ Advance(s, s2) /\ WindowOK(s2)
        <2>1. "CLOSED" \in States
            BY DEF States
        <2> QED  BY <1>2, <2>1, StateOK DEF markClosed
    <1> HIDE DEF s2
    <1>6. /\ s2.finSeq = s.finSeq /\ s2.sndUna = s.sndUna /\ s2.sndNxt = s.sndNxt
          /\ s2.outstanding = s.outstanding
        BY <1>5 DEF SameSender
    <1>7. t.peerFinReceived
        <2>1. AckOK(s, t, net[e][i])
            BY <1>4, Parts DEF PktOK
        <2>2. s.finSeq = s.sndNxt /\ t.rcvNxt <= s.sndNxt
            BY <1>2, <1>4 DEF FinOK, PairOK
        <2>3. s.sndNxt \in Nat /\ t.rcvNxt \in Nat
            BY <1>2, SocketFields
        <2> QED  BY <1>4, <2>1, <2>2, <2>3 DEF AckOK
    <1>8. FinOK(s2)
        BY <1>2, <1>5, <1>6 DEF FinOK
    <1>9. s2.sndUna <= t.rcvNxt /\ PairOK(t, s2) /\ ReadOK(s2, got[e])
        BY <1>2, <1>5, <1>6 DEF PairOK, ReadOK
    <1>10. /\ got' = got /\ losses' = losses /\ accepted' = accepted /\ pos' = pos
        BY DEF onAckOfFin
    <1>11. /\ got \in [Ends -> Seq(Byte)] /\ pos \in [Ends -> Nat]
           /\ established \in [Ends -> BOOLEAN] /\ losses \in 0 .. MaxLoss
           /\ accepted \in [Ends -> BOOLEAN]
        BY <1>1 DEF PairTypes
    <1>12. /\ established' \in [Ends -> BOOLEAN] /\ established'[e] = FALSE
           /\ established'[Peer(e)] = established[Peer(e)]
        BY <1>2, <1>3, <1>11
    <1>13. sock'[e] = s2 /\ sock'[Peer(e)] = t
        BY <1>1, <1>2, <1>3
    <1>14. EndOK(e)'
        BY <1>2, <1>4, <1>5, <1>6, <1>7, <1>10, <1>12, <1>13 DEF EndOK
    <1>15. NetStep
        BY <1>1, <1>4, ConsumeStep
    <1>16. Len(s2.recvBuf) <= RECV_BUF_CAP /\ pos[e] = s2.sndNxt - 1
        BY <1>2, <1>5, <1>6
    <1> QED  BY <1>3, <1>5, <1>8, <1>9, <1>10, <1>11, <1>12, <1>14, <1>15, <1>16, SocketStep

\* An acknowledgement of new data, however late, names a boundary of the window
\* up to which the peer has everything.
LEMMA OnAckOfNewOK ==
    ASSUME Paired, NEW e \in Ends, NEW i, onAckOfNew(e, i)
    PROVE  Preserved
PROOF
    <1> DEFINE s == sock[e]
               t == sock[Peer(e)]
               ackNum == net[e][i].seq
               w == net[e][i].window
               s1 == acked(s, ackNum, w)
               s2 == maybeSendFinOnDrain(s1)
    <1>1. sock \in [Ends -> Socket] /\ PairTypes
        BY DEF Paired, PairInv, PairTypes
    <1>2. /\ s \in Socket /\ t \in Socket
          /\ WindowOK(s) /\ FinOK(s) /\ PairOK(s, t)
          /\ PairOK(t, s) /\ ReadOK(s, got[e]) /\ EndOK(e)
          /\ Len(s.recvBuf) <= RECV_BUF_CAP /\ pos[e] = s.sndNxt - 1
          /\ Peer(e) # e /\ Peer(e) \in Ends
        BY Parts
    <1>3. sock' = [sock EXCEPT ![e] = s2] /\ Reply(e, i, finPkts(s1))
        BY <1>1 DEF onAckOfNew
    <1>4. /\ i \in 1 .. Len(net[e]) /\ net[e][i].type = "ACK"
          /\ s.sndUna < ackNum /\ ackNum <= s.sndNxt
          /\ s.state \in {"ESTABLISHED", "SHUTDOWN"} /\ established[e]
        BY DEF onAckOfNew, Arriving, acksNew, isOpen
    <1>5. net[e][i] \in Packet /\ PktOK(s, t, net[e][i])
        BY <1>4, Parts
    <1>6. ackNum \in Nat /\ w \in Nat
        BY <1>5 DEF Packet
    <1>7. Boundary(s, ackNum) /\ ackNum <= t.rcvNxt
        <2>1. AckOK(s, t, net[e][i])
            BY <1>4, <1>5 DEF PktOK
        <2>2. s.finSeq >= 0 => s.finSeq = s.sndNxt
            BY <1>2 DEF FinOK
        <2>3. s.sndNxt \in Nat
            BY <1>2, SocketFields
        <2> QED  BY <1>4, <1>6, <2>1, <2>2, <2>3 DEF AckOK
    <1> HIDE DEF ackNum, w
    <1>8. /\ s1 \in Socket
          /\ Advance(s, s1) /\ WindowOK(s1) /\ FinOK(s1)
          /\ s1.sndUna = ackNum /\ s1.sndNxt = s.sndNxt
          /\ s1.rcvNxt = s.rcvNxt /\ s1.recvBuf = s.recvBuf
          /\ s1.peerFinReceived = s.peerFinReceived
          /\ s1.state = s.state
        BY <1>2, <1>4, <1>6, <1>7, AckedOK
    <1> HIDE DEF s1
    <1>9. /\ s2 \in Socket
          /\ Advance(s1, s2) /\ WindowOK(s2) /\ FinOK(s2)
          /\ s2.sndUna = s1.sndUna /\ s2.sndNxt = s1.sndNxt
          /\ s2.rcvNxt = s1.rcvNxt /\ s2.recvBuf = s1.recvBuf
          /\ s2.peerFinReceived = s1.peerFinReceived
          /\ s2.state = s1.state
          /\ finPkts(s1) \in Seq(Packet)
          /\ \A k \in 1 .. Len(finPkts(s1)) :
                /\ finPkts(s1)[k].type = "FIN"
                /\ finPkts(s1)[k].seq = s2.finSeq
                /\ s2.finSeq >= 0
        BY <1>8, FinOnDrainOK
    <1> HIDE DEF s2
    <1>10. Advance(s, s2)
        BY <1>2, <1>8, <1>9, AdvanceTrans
    <1>11. sock'[e] = s2 /\ sock'[Peer(e)] = t
        BY <1>1, <1>2, <1>3
    <1>12. NetStep
        <2>1. \A k \in 1 .. Len(finPkts(s1)) : PktOK(t, s2, finPkts(s1)[k])
            BY <1>9 DEF PktOK
        <2> QED  BY <1>1, <1>3, <1>4, <1>9, <1>11, <2>1, ReplyStep
    <1>13. /\ s2.sndUna = ackNum /\ s2.sndNxt = s.sndNxt /\ s2.rcvNxt = s.rcvNxt
           /\ s2.recvBuf = s.recvBuf /\ s2.peerFinReceived = s.peerFinReceived
           /\ s2.state = s.state
        BY <1>8, <1>9
    <1>14. s2.sndUna <= t.rcvNxt /\ PairOK(t, s2) /\ ReadOK(s2, got[e])
        BY <1>2, <1>7, <1>13 DEF PairOK, ReadOK
    <1>15. /\ got' = got /\ established' = established /\ losses' = losses
           /\ accepted' = accepted /\ pos' = pos
        BY DEF onAckOfNew
    <1>16. /\ got \in [Ends -> Seq(Byte)] /\ pos \in [Ends -> Nat]
           /\ established \in [Ends -> BOOLEAN] /\ losses \in 0 .. MaxLoss
           /\ accepted \in [Ends -> BOOLEAN]
        BY <1>1 DEF PairTypes
    <1>17. EndOK(e)'
        <2>1. accepted[e]
            <3>1. ~accepted[e] => s.sndUna = s.sndNxt
                BY <1>2 DEF EndOK
            <3>2. s.sndUna \in Nat /\ s.sndNxt \in Nat
                BY <1>2, SocketFields
            <3> QED  BY <1>4, <1>6, <3>1, <3>2
        <2> QED  BY <1>4, <1>11, <1>13, <1>15, <2>1 DEF EndOK
    <1>18. Len(s2.recvBuf) <= RECV_BUF_CAP /\ pos[e] = s2.sndNxt - 1
        BY <1>2, <1>13
    <1> QED  BY <1>3, <1>9, <1>10, <1>12, <1>14, <1>15, <1>16, <1>17, <1>18, SocketStep

\* An acknowledgement of old data only changes a window.
LEMMA OnAckOfOldOK ==
    ASSUME Paired, NEW e \in Ends, NEW i, onAckOfOld(e, i)
    PROVE  Preserved
PROOF
    <1> DEFINE w == net[e][i].window
               s2 == setRwnd(sock[e], w)
    <1>1. /\ i \in 1 .. Len(net[e]) /\ Reply(e, i, <<>>)
          /\ sock' = [sock EXCEPT ![e] = s2]
          /\ got' = got /\ pos' = pos /\ established' = established
          /\ accepted' = accepted /\ losses' = losses
        BY DEF onAckOfOld, Arriving
    <1>2. w \in Nat /\ sock[e] \in Socket
        BY <1>1, Parts DEF Packet
    <1> HIDE DEF w
    <1>3. s2 \in Socket /\ Still(sock[e], s2)
        BY <1>2, SetRwndOK
    <1> HIDE DEF s2
    <1>4. PairTypes /\ losses' \in 0 .. MaxLoss
        BY <1>1 DEF Paired, PairInv, PairTypes
    <1>5. NetStep
        BY <1>1, <1>4, ConsumeStep
    <1> QED  BY <1>1, <1>3, <1>4, <1>5, StillStep

\* A packet that the table or the socket's state makes the code ignore.
LEMMA IgnoredOK ==
    ASSUME Paired, NEW e \in Ends, NEW i,
           onAckIgnored(e, i) \/ onDataDropped(e, i) \/ onFinDropped(e, i)
    PROVE  Preserved
PROOF
    <1>1. /\ i \in 1 .. Len(net[e]) /\ Reply(e, i, <<>>)
          /\ sock' = sock /\ got' = got /\ pos' = pos /\ established' = established
          /\ accepted' = accepted /\ losses' = losses
        BY DEF onAckIgnored, onDataDropped, onFinDropped, Arriving
    <1>2. PairTypes /\ losses' \in 0 .. MaxLoss
        BY <1>1 DEF Paired, PairInv, PairTypes
    <1>3. NetStep
        BY <1>1, <1>2, ConsumeStep
    <1> QED  BY <1>1, <1>2, <1>3, NetOnlyStep

\* Numbered bytes appended to numbered bytes.
LEMMA ConcatNumbered ==
    ASSUME NEW b \in Seq(Byte), NEW d \in Seq(Byte), NEW m \in Nat,
           \A k \in 1 .. Len(b) : b[k] = m + k,
           \A k \in 1 .. Len(d) : d[k] = m + Len(b) + k
    PROVE  /\ Len(b \o d) = Len(b) + Len(d)
           /\ \A k \in 1 .. Len(b \o d) : (b \o d)[k] = m + k
PROOF
    <1> DEFINE c == b \o d
    <1>1. Len(b) \in Nat /\ Len(d) \in Nat
        BY LenProperties
    <1>2. /\ Len(c) = Len(b) + Len(d)
          /\ \A k \in 1 .. Len(b) + Len(d) :
                c[k] = IF k <= Len(b) THEN b[k] ELSE d[k - Len(b)]
        BY ConcatProperties
    <1> HIDE DEF c
    <1>3. ASSUME NEW k \in 1 .. Len(c)  PROVE  c[k] = m + k
        <2>1. CASE k <= Len(b)
            BY <1>1, <1>2, <2>1
        <2>2. CASE ~(k <= Len(b))
            <3>1. k - Len(b) \in 1 .. Len(d) /\ c[k] = d[k - Len(b)]
                BY <1>1, <1>2, <2>2
            <3>2. d[k - Len(b)] = m + Len(b) + (k - Len(b))
                BY <3>1
            <3> QED  BY <1>1, <3>1, <3>2
        <2> QED  BY <2>1, <2>2
    <1> QED  BY <1>2, <1>3 DEF c

\* A segment taken in order is still outstanding at the peer, so that the next
\* byte expected is a boundary of the peer's window again.
LEMMA OnDataAcceptedOK ==
    ASSUME Paired, NEW e \in Ends, NEW i, onDataAccepted(e, i)
    PROVE  Preserved
PROOF
    <1> DEFINE s == sock[e]
               t == sock[Peer(e)]
               pkt == net[e][i]
               s2 == appendToRecvBuf(s, pkt.data)
    <1>1. sock \in [Ends -> Socket] /\ PairTypes
        BY DEF Paired, PairInv, PairTypes
    <1>2. /\ s \in Socket /\ t \in Socket
          /\ WindowOK(s) /\ FinOK(s) /\ PairOK(s, t)
          /\ PairOK(t, s) /\ ReadOK(s, got[e]) /\ EndOK(e)
          /\ Len(s.recvBuf) <= RECV_BUF_CAP /\ pos[e] = s.sndNxt - 1
          /\ Peer(e) # e /\ Peer(e) \in Ends /\ got[e] \in Seq(Byte)
        BY Parts
    <1>3. sock' = [sock EXCEPT ![e] = s2] /\ Reply(e, i, <<ackPkt(s2, s2.rcvNxt)>>)
        BY <1>1 DEF onDataAccepted
    <1>4. /\ i \in 1 .. Len(net[e]) /\ pkt.type = "DATA"
          /\ pkt.seq = s.rcvNxt /\ Len(pkt.data) <= getRecvBufAvailable(s)
          /\ s.state \in {"ESTABLISHED", "SHUTDOWN"} /\ established[e]
        BY DEF onDataAccepted, Arriving, acceptable, isOpen
    <1>5. pkt \in Packet /\ PktOK(s, t, pkt)
        BY <1>4, Parts
    <1> HIDE DEF pkt
    <1>6. pkt.seq \in Nat /\ pkt.data \in Seq(Byte) /\ Len(pkt.data) \in Nat
        BY <1>5, LenProperties DEF Packet
    <1>7. DataOK(t, pkt)
        BY <1>4, <1>5 DEF PktOK
    <1>8. /\ s2 \in Socket /\ s2.state = s.state /\ SameSender(s, s2)
          /\ s2.rcvNxt = s.rcvNxt + Len(pkt.data)
          /\ s2.recvBuf = s.recvBuf \o pkt.data
          /\ s2.peerFinReceived = s.peerFinReceived
          /\ Advance(s, s2) /\ WindowOK(s2)
        BY <1>2, <1>4, <1>6, AppendOK
    <1> HIDE DEF s2
    <1>9. /\ s2.finSeq = s.finSeq /\ s2.sndUna = s.sndUna /\ s2.sndNxt = s.sndNxt
          /\ s2.outstanding = s.outstanding
        BY <1>8 DEF SameSender
    <1>10. /\ Len(s.recvBuf) \in Nat /\ Len(got[e]) \in Nat /\ s.rcvNxt \in Nat
           /\ s.recvBuf \in Seq(Byte)
           /\ s.rcvNxt = 1 + Len(got[e]) + Len(s.recvBuf)
           /\ Len(s2.recvBuf) = Len(s.recvBuf) + Len(pkt.data)
           /\ \A k \in 1 .. Len(s2.recvBuf) : s2.recvBuf[k] = Len(got[e]) + k
        <2> DEFINE buf == s.recvBuf
                   d == pkt.data
                   m == Len(got[e])
        <2>1. buf \in Seq(Byte) /\ s.rcvNxt \in Nat
            BY <1>2, SocketFields
        <2>2. Len(buf) \in Nat /\ m \in Nat
            BY <1>2, <2>1, LenProperties
        <2>3. /\ s.rcvNxt = 1 + m + Len(buf)
              /\ \A k \in 1 .. Len(buf) : buf[k] = m + k
            BY <1>2 DEF ReadOK
        <2>4. \A k \in 1 .. Len(d) : d[k] = pkt.seq + k - 1
            BY <1>7 DEF DataOK, Numbered
        <2>5. d \in Seq(Byte) /\ Len(d) \in Nat
            BY <1>6
        <2> HIDE DEF buf, d, m
        <2>6. \A k \in 1 .. Len(d) : d[k] = m + Len(buf) + k
            BY <1>4, <2>2, <2>3, <2>4, <2>5
        <2>7. /\ Len(buf \o d) = Len(buf) + Len(d)
              /\ \A k \in 1 .. Len(buf \o d) : (buf \o d)[k] = m + k
            BY <2>1, <2>2, <2>3, <2>5, <2>6, ConcatNumbered
        <2>8. s2.recvBuf = buf \o d
            BY <1>8 DEF buf, d
        <2> QED  BY <2>1, <2>2, <2>3, <2>7, <2>8 DEF buf, d, m
    <1>11. PairOK(t, s2)
        <2>1. t.sndUna <= pkt.seq /\ t.sndNxt \in Nat /\ t.sndUna \in Nat /\ s.rcvNxt \in Nat
            BY <1>2, <1>4, SocketFields DEF PairOK
        <2>2. PICK j \in DOMAIN t.outstanding :
                    t.outstanding[j] = [seqStart |-> pkt.seq, data |-> pkt.data]
            BY <1>6, <1>7, <2>1 DEF DataOK
        <2>3. /\ t.outstanding \in Seq(Segment) /\ Len(t.outstanding) \in Nat
              /\ j \in 1 .. Len(t.outstanding)
            BY <1>2, SocketFields, LenProperties
        <2>4. segEnd(t.outstanding[j]) = s2.rcvNxt
            BY <1>4, <1>6, <1>8, <2>2 DEF segEnd
        <2>5. /\ segEnd(t.outstanding[j]) <= t.sndNxt
              /\ segEnd(t.outstanding[j]) =
                    IF j = Len(t.outstanding) THEN t.sndNxt
                    ELSE t.outstanding[j + 1].seqStart
            BY <2>3, Parts, <1>2 DEF WindowOK
        <2>6. Boundary(t, s2.rcvNxt)
            <3>1. CASE j = Len(t.outstanding)
                BY <2>4, <2>5, <3>1 DEF Boundary
            <3>2. CASE j # Len(t.outstanding)
                <4>1. j + 1 \in DOMAIN t.outstanding
                    BY <2>3, <3>2
                <4> QED  BY <2>4, <2>5, <3>2, <4>1 DEF Boundary
            <3> QED  BY <3>1, <3>2
        <2>7. t.sndUna <= s2.rcvNxt
            BY <1>4, <1>6, <1>8, <2>1
        <2>8. s2.peerFinReceived => t.finSeq >= 0
            BY <1>2, <1>8 DEF PairOK
        <2> QED  BY <2>4, <2>5, <2>6, <2>7, <2>8 DEF PairOK
    <1>12. ReadOK(s2, got[e])
        <2>1. \A k \in 1 .. Len(got[e]) : got[e][k] = k
            BY <1>2 DEF ReadOK
        <2>2. s2.rcvNxt = 1 + Len(got[e]) + Len(s2.recvBuf)
            <3> DEFINE a == Len(got[e])
                       b == Len(s.recvBuf)
                       c == Len(pkt.data)
            <3>1. a \in Nat /\ b \in Nat /\ c \in Nat
                BY <1>6, <1>10
            <3>2. s2.rcvNxt = s.rcvNxt + c /\ s.rcvNxt = 1 + a + b /\ Len(s2.recvBuf) = b + c
                BY <1>8, <1>10
            <3> HIDE DEF a, b, c
            <3>3. s2.rcvNxt = 1 + a + Len(s2.recvBuf)
                BY <3>1, <3>2
            <3> QED  BY <3>3 DEF a
        <2> QED  BY <1>10, <2>1, <2>2 DEF ReadOK
    <1>13. Len(s2.recvBuf) <= RECV_BUF_CAP
        <2> DEFINE b == Len(s.recvBuf)
                   c == Len(pkt.data)
        <2>1. b \in Nat /\ c \in Nat /\ RECV_BUF_CAP \in Nat
            BY <1>6, <1>10, SocketConstants DEF SocketConstants
        <2>2. c <= RECV_BUF_CAP - b /\ Len(s2.recvBuf) = b + c
            BY <1>4, <1>10 DEF getRecvBufAvailable
        <2> HIDE DEF b, c
        <2> QED  BY <2>1, <2>2
    <1>14. FinOK(s2) /\ s2.sndUna <= t.rcvNxt /\ pos[e] = s2.sndNxt - 1
        BY <1>2, <1>8, <1>9 DEF FinOK, PairOK
    <1>15. sock'[e] = s2 /\ sock'[Peer(e)] = t
        BY <1>1, <1>2, <1>3
    <1>16. NetStep
        <2> DEFINE pkts == <<ackPkt(s2, s2.rcvNxt)>>
        <2>1. s2.rcvNxt \in Nat
            BY <1>8, SocketFields
        <2>2. /\ pkts \in Seq(Packet)
              /\ \A k \in 1 .. Len(pkts) : pkts[k].type = "ACK" /\ pkts[k].seq = s2.rcvNxt
            BY <1>8, <1>13, <2>1, AckPktOK
        <2>3. Reply(e, i, pkts)
            BY <1>3
        <2> HIDE DEF pkts
        <2>4. \A k \in 1 .. Len(pkts) : PktOK(t, s2, pkts[k])
            BY <1>2, <1>8, <1>11, <2>2, CumulativeAckOK
        <2> QED  BY <1>1, <1>4, <1>15, <2>2, <2>3, <2>4, ReplyStep
    <1>17. /\ got' = got /\ established' = established /\ losses' = losses
           /\ accepted' = accepted /\ pos' = pos
        BY DEF onDataAccepted
    <1>18. /\ got \in [Ends -> Seq(Byte)] /\ pos \in [Ends -> Nat]
           /\ established \in [Ends -> BOOLEAN] /\ losses \in 0 .. MaxLoss
           /\ accepted \in [Ends -> BOOLEAN]
        BY <1>1 DEF PairTypes
    <1>19. EndOK(e)'
        BY <1>2, <1>4, <1>8, <1>9, <1>15, <1>17 DEF EndOK
    <1> QED  BY <1>3, <1>8, <1>11, <1>12, <1>13, <1>14, <1>16, <1>17, <1>18, <1>19, SocketStep

\* A segment that is not taken is answered with the acknowledgement so far.
LEMMA OnDataRejectedOK ==
    ASSUME Paired, NEW e \in Ends, NEW i, onDataRejected(e, i)
    PROVE  Preserved
PROOF
    <1> DEFINE s == sock[e]
               t == sock[Peer(e)]
               pkts == <<ackPkt(s, s.rcvNxt)>>
    <1>1. /\ i \in 1 .. Len(net[e]) /\ Reply(e, i, pkts)
          /\ sock' = sock /\ got' = got /\ pos' = pos /\ established' = established
          /\ accepted' = accepted /\ losses' = losses
        BY DEF onDataRejected, Arriving
    <1>2. PairTypes /\ losses' \in 0 .. MaxLoss
        BY <1>1 DEF Paired, PairInv, PairTypes
    <1>3. s \in Socket /\ t \in Socket /\ PairOK(t, s) /\ Len(s.recvBuf) <= RECV_BUF_CAP
        BY Parts
    <1>4. s.rcvNxt \in Nat
        BY <1>3, SocketFields
    <1>5. /\ pkts \in Seq(Packet)
          /\ \A k \in 1 .. Len(pkts) : pkts[k].type = "ACK" /\ pkts[k].seq = s.rcvNxt
        BY <1>3, <1>4, AckPktOK
    <1> HIDE DEF pkts
    <1>6. \A k \in 1 .. Len(pkts) : PktOK(t, s, pkts[k])
        BY <1>3, <1>5, CumulativeAckOK
    <1>7. sock'[e] = s /\ sock'[Peer(e)] = t
        BY <1>1
    <1>8. NetStep
        BY <1>1, <1>2, <1>5, <1>6, <1>7, ReplyStep
    <1> QED  BY <1>1, <1>2, <1>8, NetOnlyStep

\* A FIN on its way has the number its sender gave it, and is acknowledged.
LEMMA OnFinTakenOK ==
    ASSUME Paired, NEW e \in Ends, NEW i, onFinTaken(e, i)
    PROVE  Preserved
PROOF
    <1> DEFINE s == sock[e]
               t == sock[Peer(e)]
               n == net[e][i].seq + 1
               s2 == markPeerFinReceived(s)
               pkts == <<ackPkt(s, n)>>
    <1>1. sock \in [Ends -> Socket] /\ PairTypes
        BY DEF Paired, PairInv, PairTypes
    <1>2. /\ s \in Socket /\ t \in Socket
          /\ WindowOK(s) /\ FinOK(s) /\ PairOK(s, t)
          /\ PairOK(t, s) /\ ReadOK(s, got[e]) /\ EndOK(e)
          /\ Len(s.recvBuf) <= RECV_BUF_CAP /\ pos[e] = s.sndNxt - 1
          /\ Peer(e) # e /\ Peer(e) \in Ends
        BY Parts
    <1>3. sock' = [sock EXCEPT ![e] = s2] /\ Reply(e, i, pkts)
        BY <1>1 DEF onFinTaken
    <1>4. i \in 1 .. Len(net[e]) /\ net[e][i].type = "FIN" /\ established[e]
        BY DEF onFinTaken, Arriving
    <1>5. net[e][i] \in Packet /\ PktOK(s, t, net[e][i])
        BY <1>4, Parts
    <1>6. t.finSeq >= 0 /\ n = t.finSeq + 1
        BY <1>4, <1>5 DEF PktOK
    <1>7. n \in Nat
        BY <1>5 DEF Packet
    <1> HIDE DEF n
    <1>8. /\ s2 \in Socket
          /\ s2.state = IF s.state = "ESTABLISHED" THEN "SHUTDOWN" ELSE s.state
          /\ SameSender(s, s2)
          /\ s2.rcvNxt = s.rcvNxt /\ s2.recvBuf = s.recvBuf
          /\ s2.peerFinReceived = TRUE
          /\ Advance(s, s2) /\ WindowOK(s2)
        BY <1>2, PeerFinOK
    <1> HIDE DEF s2
    <1>9. /\ s2.finSeq = s.finSeq /\ s2.sndUna = s.sndUna /\ s2.sndNxt = s.sndNxt
          /\ s2.outstanding = s.outstanding
        BY <1>8 DEF SameSender
    <1>10. FinOK(s2)
        BY <1>2, <1>8, <1>9 DEF FinOK
    <1>11. s2.sndUna <= t.rcvNxt /\ PairOK(t, s2) /\ ReadOK(s2, got[e])
        BY <1>2, <1>6, <1>8, <1>9 DEF PairOK, ReadOK
    <1>12. sock'[e] = s2 /\ sock'[Peer(e)] = t
        BY <1>1, <1>2, <1>3
    <1>13. NetStep
        <2>1. /\ pkts \in Seq(Packet)
              /\ \A k \in 1 .. Len(pkts) : pkts[k].type = "ACK" /\ pkts[k].seq = n
            BY <1>2, <1>7, AckPktOK
        <2>2. Reply(e, i, pkts)
            BY <1>3
        <2> HIDE DEF pkts
        <2>3. \A k \in 1 .. Len(pkts) : PktOK(t, s2, pkts[k])
            BY <1>6, <1>8, <2>1 DEF PktOK, AckOK
        <2> QED  BY <1>1, <1>4, <1>12, <2>1, <2>2, <2>3, ReplyStep
    <1>14. /\ got' = got /\ established' = established /\ losses' = losses
           /\ accepted' = accepted /\ pos' = pos
        BY DEF onFinTaken
    <1>15. /\ got \in [Ends -> Seq(Byte)] /\ pos \in [Ends -> Nat]
           /\ established \in [Ends -> BOOLEAN] /\ losses \in 0 .. MaxLoss
           /\ accepted \in [Ends -> BOOLEAN]
        BY <1>1 DEF PairTypes
    <1>16. EndOK(e)'
        BY <1>2, <1>4, <1>8, <1>9, <1>12, <1>14 DEF EndOK
    <1>17. Len(s2.recvBuf) <= RECV_BUF_CAP /\ pos[e] = s2.sndNxt - 1
        BY <1>2, <1>8, <1>9
    <1> QED  BY <1>3, <1>8, <1>10, <1>11, <1>13, <1>14, <1>15, <1>16, <1>17, SocketStep

\* A retransmission sends what is outstanding and nothing else.
LEMMA RetransmissionTickOK ==
    ASSUME Paired, NEW e \in Ends, retransmissionTick(e)
    PROVE  Preserved
PROOF
    <1> DEFINE s == sock[e]
               t == sock[Peer(e)]
               s2 == multiplicativeDecreaseCwnd(doubleRto(s))
               segs == s.outstanding
    <1>1. sock \in [Ends -> Socket] /\ PairTypes
        BY DEF Paired, PairInv, PairTypes
    <1>2. /\ sock' = [sock EXCEPT ![e] = s2] /\ Send(e, dataPkts(segs))
          /\ got' = got /\ pos' = pos /\ established' = established
          /\ accepted' = accepted /\ losses' = losses
        BY <1>1 DEF retransmissionTick
    <1>3. /\ s \in Socket /\ t \in Socket /\ WindowOK(s)
          /\ Peer(e) # e /\ Peer(e) \in Ends
        BY Parts
    <1>4. s2 \in Socket /\ Still(s, s2)
        BY <1>3, BackOffOK
    <1> HIDE DEF s2
    <1>5. sock'[e] = s2 /\ sock'[Peer(e)] = t
        BY <1>1, <1>2, <1>3
    <1>6. /\ segs \in Seq(Segment) /\ s2.outstanding = segs /\ s2.sndNxt = s.sndNxt
        BY <1>3, <1>4, SocketFields DEF Still, SameSender
    <1>7. \A j \in 1 .. Len(segs) :
            /\ Numbered(segs[j].seqStart, segs[j].data)
            /\ segEnd(segs[j]) <= s2.sndNxt
        BY <1>3, <1>6 DEF WindowOK
    <1> HIDE DEF segs
    <1>8. /\ dataPkts(segs) \in Seq(Packet)
          /\ \A j \in 1 .. Len(dataPkts(segs)) : PktOK(t, s2, dataPkts(segs)[j])
        <2>1. \A j \in 1 .. Len(segs) :
                \E k \in DOMAIN s2.outstanding : s2.outstanding[k] = segs[j]
            BY <1>6
        <2> QED  BY <1>3, <1>4, <1>6, <1>7, <2>1, DataPktsOK
    <1>9. NetStep
        BY <1>1, <1>2, <1>5, <1>8, SendStep
    <1>10. losses' \in 0 .. MaxLoss
        BY <1>1, <1>2 DEF PairTypes
    <1> QED  BY <1>2, <1>4, <1>9, <1>10, StillStep

\* Losing or duplicating packets puts no new packet into the network.
LEMMA FaultsOK ==
    ASSUME Paired, NEW e \in Ends, NEW i \in 1 .. Len(net[e]),
           Lose(e, i) \/ Duplicate(e, i)
    PROVE  Preserved
PROOF
    <1>1. /\ sock' = sock /\ got' = got /\ pos' = pos /\ established' = established
          /\ accepted' = accepted
        BY DEF Lose, Duplicate
    <1>2. PairTypes
        BY DEF Paired, PairInv
    <1>3. /\ net \in [Ends -> Seq(Packet)] /\ net[e] \in Seq(Packet)
          /\ \A x \in Ends : Len(net[x]) <= LinkBuf
          /\ losses \in 0 .. MaxLoss /\ MaxLoss \in Nat /\ LinkBuf \in Nat
          /\ net[e][i] \in Packet
        BY <1>2, Parts, StreamConstants DEF PairTypes, StreamConstants
    <1>4. losses' \in 0 .. MaxLoss
        BY <1>3 DEF Lose, Duplicate
    <1>5. ASSUME NEW q \in Seq(Packet), net' = [net EXCEPT ![e] = q], Len(q) <= LinkBuf,
                 \A j \in 1 .. Len(q) : \E k \in 1 .. Len(net[e]) : net[e][k] = q[j]
          PROVE  NetStep
        <2>1. net' \in [Ends -> Seq(Packet)]
            BY <1>3, <1>5
        <2>2. \A x \in Ends : net'[x] = IF x = e THEN q ELSE net[x]
            BY <1>3, <1>5
        <2> QED  BY <1>3, <1>5, <2>1, <2>2 DEF NetStep
    <1>6. CASE Lose(e, i)
        <2> DEFINE q == RemoveAt(net[e], i)
        <2>1. /\ q \in Seq(Packet) /\ Len(q) <= Len(net[e])
              /\ \A j \in 1 .. Len(q) : \E k \in 1 .. Len(net[e]) : net[e][k] = q[j]
            BY <1>3, RemoveElems
        <2>2. net' = [net EXCEPT ![e] = q]
            BY <1>6 DEF Lose
        <2> HIDE DEF q
        <2>3. Len(q) <= LinkBuf
            BY <1>3, <2>1, LenProperties
        <2>4. NetStep
            BY <1>5, <2>1, <2>2, <2>3
        <2> QED  BY <1>1, <1>4, <2>4, NetOnlyStep
    <1>7. CASE Duplicate(e, i)
        <2> DEFINE q == Append(net[e], net[e][i])
        <2>1. /\ q \in Seq(Packet) /\ Len(q) = Len(net[e]) + 1
              /\ \A j \in 1 .. Len(q) : q[j] = IF j <= Len(net[e]) THEN net[e][j] ELSE net[e][i]
            BY <1>3, AppendProperties, LenProperties
        <2>2. net' = [net EXCEPT ![e] = q] /\ Len(net[e]) < LinkBuf
            BY <1>7 DEF Duplicate
        <2> HIDE DEF q
        <2>3. Len(q) <= LinkBuf
            BY <1>3, <2>1, <2>2, LenProperties
        <2>4. \A j \in 1 .. Len(q) : \E k \in 1 .. Len(net[e]) : net[e][k] = q[j]
            BY <1>3, <2>1, LenProperties
        <2>5. NetStep
            BY <1>5, <2>1, <2>2, <2>3, <2>4
        <2> QED  BY <1>1, <1>4, <2>5, NetOnlyStep
    <1> QED  BY <1>6, <1>7

-----------------------------------------------------------------------------
(* The state after the handshake, and a step of the pair. *)

\* A socket right after its handshake: nothing sent, nothing taken.
LEMMA FreshSocket ==
    LET s0 == initAccepted(NewSocket)
    IN  /\ s0 \in Socket
        /\ s0.state = "ESTABLISHED" /\ s0.sndUna = 1 /\ s0.sndNxt = 1 /\ s0.rcvNxt = 1
        /\ s0.recvBuf = <<>> /\ s0.finSeq = -1 /\ s0.peerFinReceived = FALSE
        /\ s0.outstanding = <<>>
        /\ WindowOK(s0) /\ FinOK(s0) /\ PairOK(s0, s0) /\ ReadOK(s0, <<>>)
        /\ Len(s0.recvBuf) <= RECV_BUF_CAP
PROOF
    <1> DEFINE s0 == initAccepted(NewSocket)
    <1>1. /\ s0.state = "ESTABLISHED" /\ s0.sndUna = 1 /\ s0.sndNxt = 1 /\ s0.rcvNxt = 1
          /\ s0.recvBuf = <<>> /\ s0.finSeq = -1 /\ s0.peerFinReceived = FALSE
          /\ s0.outstanding = <<>> /\ s0.armed = FALSE
        BY DEF initAccepted, NewSocket
    <1>2. s0 \in Socket
        <2>1. /\ "CLOSED" \in States /\ "ESTABLISHED" \in States
              /\ 0 \in Nat /\ 1 \in Nat /\ -1 \in Nat \cup {-1}
              /\ <<>> \in Seq(Byte) /\ <<>> \in Seq(Segment) /\ FALSE \in BOOLEAN
              /\ MSS \in Nat /\ RTO_INITIAL_MS \in Nat /\ RECV_BUF_CAP \in Nat
            BY SocketConstants DEF States, SocketConstants
        <2>2. NewSocket \in Socket
            BY <2>1 DEF NewSocket, Socket
        <2> HIDE DEF NewSocket
        <2> QED  BY <2>1, <2>2, Zenon DEF initAccepted, Socket
    <1> HIDE DEF s0
    <1>3. Len(s0.outstanding) = 0
        BY <1>1
    <1>4. WindowOK(s0)
        <2>1. s0.armed = (s0.outstanding # <<>>)
            BY <1>1, Zenon
        <2>2. s0.sndUna >= 1 /\ \A j \in 1 .. Len(s0.outstanding) : FALSE
            BY <1>1, <1>3
        <2>3. s0.sndUna = IF s0.outstanding = <<>> THEN s0.sndNxt
                          ELSE s0.outstanding[1].seqStart
            BY <1>1
        <2> QED  BY <2>1, <2>2, <2>3, Zenon DEF WindowOK
    <1>5. FinOK(s0) /\ PairOK(s0, s0) /\ ReadOK(s0, <<>>)
        BY <1>1 DEF FinOK, PairOK, Boundary, ReadOK
    <1>6. Len(s0.recvBuf) <= RECV_BUF_CAP
        BY <1>1, SocketConstants DEF SocketConstants
    <1> QED  BY <1>1, <1>2, <1>4, <1>5, <1>6 DEF s0

\* The two packets of the handshake.
LEMMA HandshakePackets ==
    /\ syn \in Packet /\ syn.type = "SYN"
    /\ synAck \in Packet /\ synAck.type = "ACK" /\ synAck.seq = 1
    BY SocketConstants DEF syn, synAck, Packet, SocketConstants

\* The state right after the handshake, a packet of which may still come again.
LEMMA InitOK ==
    ASSUME Init
    PROVE  /\ Paired
           /\ \A e \in Ends : \A i \in 1 .. Len(net[e]) : net[e][i] = handshake(e)
           /\ ~Reorder => net = [e \in Ends |-> <<>>]
PROOF
    <1> DEFINE s0 == initAccepted(NewSocket)
    <1>1. /\ s0 \in Socket
          /\ s0.state = "ESTABLISHED" /\ s0.sndUna = 1 /\ s0.sndNxt = 1 /\ s0.rcvNxt = 1
          /\ s0.recvBuf = <<>> /\ s0.finSeq = -1 /\ s0.peerFinReceived = FALSE
          /\ s0.outstanding = <<>>
          /\ WindowOK(s0) /\ FinOK(s0) /\ PairOK(s0, s0) /\ ReadOK(s0, <<>>)
          /\ Len(s0.recvBuf) <= RECV_BUF_CAP
        BY FreshSocket
    <1>2. /\ sock = [e \in Ends |-> s0]
          /\ established = [e \in Ends |-> TRUE]
          /\ accepted = [e \in Ends |-> e = Client]
          /\ pos = [e \in Ends |-> 0]
          /\ got = [e \in Ends |-> <<>>]
          /\ losses = 0
        BY DEF Init
    <1>3. PICK late \in SUBSET Ends :
            /\ late # {} => Reorder
            /\ net = [e \in Ends |-> IF e \in late THEN <<handshake(e)>> ELSE <<>>]
        BY DEF Init
    <1> HIDE DEF s0
    <1>4. LinkBuf \in Nat \ {0} /\ MaxLoss \in Nat
        BY StreamConstants DEF StreamConstants
    <1>5. \A e \in Ends : handshake(e) \in Packet
        BY HandshakePackets DEF handshake
    <1>6. \A e \in Ends : net[e] = <<handshake(e)>> \/ net[e] = <<>>
        BY <1>3
    <1>7. \A e \in Ends : \A i \in 1 .. Len(net[e]) : net[e][i] = handshake(e)
        <2> HIDE DEF handshake
        <2> QED  BY <1>6
    <1>8. ~Reorder => net = [e \in Ends |-> <<>>]
        BY <1>3
    <1>9. PairTypes
        <2>1. net \in [Ends -> Seq(Packet)] /\ \A e \in Ends : Len(net[e]) <= LinkBuf
            <3> HIDE DEF handshake
            <3> QED  BY <1>3, <1>4, <1>5, <1>6
        <2>2. sock \in [Ends -> Socket] /\ \A e \in Ends : Len(sock[e].recvBuf) <= RECV_BUF_CAP
            BY <1>1, <1>2
        <2>3. established \in [Ends -> BOOLEAN] /\ accepted \in [Ends -> BOOLEAN]
            BY <1>2, Zenon
        <2>4. pos \in [Ends -> Nat] /\ got \in [Ends -> Seq(Byte)] /\ losses \in 0 .. MaxLoss
            BY <1>2, <1>4
        <2> QED  BY <2>1, <2>2, <2>3, <2>4 DEF PairTypes
    <1>10. \A e \in Ends : PktOK(s0, s0, handshake(e))
        BY <1>1, HandshakePackets DEF PktOK, AckOK, handshake
    <1>11. ASSUME NEW e \in Ends
           PROVE  /\ WindowOK(sock[e]) /\ FinOK(sock[e])
                  /\ PairOK(sock[e], sock[Peer(e)])
                  /\ \A i \in 1 .. Len(net[e]) : PktOK(sock[e], sock[Peer(e)], net[e][i])
                  /\ ReadOK(sock[e], got[e])
                  /\ pos[e] = sock[e].sndNxt - 1
                  /\ EndOK(e)
        <2>1. /\ sock[e] = s0 /\ sock[Peer(e)] = s0 /\ got[e] = <<>> /\ pos[e] = 0
              /\ established[e]
            BY <1>2, EndsPeer
        <2>2. EndOK(e)
            BY <1>1, <2>1 DEF EndOK
        <2> QED  BY <1>1, <1>7, <1>10, <2>1, <2>2
    <1> QED  BY <1>7, <1>8, <1>9, <1>11 DEF Paired, PairInv

\* With one child before and after it, every step keeps the invariant of the
\* pair and moves both sockets forward.
LEMMA PairNextOK ==
    ASSUME Paired, Next, OneChild, OneChild'
    PROVE  Preserved
PROOF
    <1>1. PICK e \in Ends :
            \/ AppAccept(e) \/ Write(e) \/ AppClose(e) \/ Read(e)
            \/ receiveTransport(e) \/ retransmissionTick(e) \/ Faults(e)
        BY DEF Next, OneChild
    <1>2. CASE AppAccept(e)
        BY <1>2, AppAcceptOK
    <1>3. CASE Write(e)
        BY <1>3, AppWriteOK DEF Write
    <1>4. CASE AppClose(e)
        BY <1>4, AppCloseOK
    <1>5. CASE Read(e)
        BY <1>5, AppReadOK DEF Read
    <1>6. CASE receiveTransport(e)
        <2>1. PICK i \in 1 .. Len(net[e]) : onAck(e, i) \/ onData(e, i) \/ onFin(e, i)
            <3>1. PICK i \in 1 .. Len(net[e]) :
                    onSyn(e, i) \/ onAck(e, i) \/ onData(e, i) \/ onFin(e, i)
                BY <1>6 DEF receiveTransport
            <3>2. ~onSyn(e, i)
                BY DEF onSyn, OneChild
            <3> QED  BY <3>1, <3>2
        <2>2. CASE onAck(e, i)
            BY <2>2, OnAckOfFinOK, OnAckOfNewOK, OnAckOfOldOK, IgnoredOK DEF onAck
        <2>3. CASE onData(e, i)
            BY <2>3, OnDataAcceptedOK, OnDataRejectedOK, IgnoredOK DEF onData
        <2>4. CASE onFin(e, i)
            BY <2>4, OnFinTakenOK, IgnoredOK DEF onFin
        <2> QED  BY <2>1, <2>2, <2>3, <2>4
    <1>7. CASE retransmissionTick(e)
        BY <1>7, RetransmissionTickOK
    <1>8. CASE Faults(e)
        BY <1>8, FaultsOK DEF Faults
    <1> QED  BY <1>1, <1>2, <1>3, <1>4, <1>5, <1>6, <1>7, <1>8

-----------------------------------------------------------------------------
(* More children: what is left of the invariant when the server has several. *)

\* v has taken at least what u has.
Carries(u, v) ==
    /\ u.rcvNxt <= v.rcvNxt
    /\ u.peerFinReceived => v.peerFinReceived

\* What ForwardOnly and WindowNeverShrinks say of one socket.
Moves(s, s2) ==
    /\ s.rcvNxt + getRecvBufAvailable(s) <= s2.rcvNxt + getRecvBufAvailable(s2)
    /\ s.sndUna <= s2.sndUna
    /\ s.rcvNxt <= s2.rcvNxt
    /\ s.finSeq >= 0 => s2.finSeq = s.finSeq /\ s2.sndNxt = s.sndNxt

\* ConnInv without the pair.
Upload ==
    /\ TypeOK
    /\ \A e \in Ends : SideOK(e)
    /\ UploadInv

\* An acknowledgement at a boundary covers a segment as a whole or not at all.
LEMMA NoCut ==
    ASSUME NEW s \in Socket, WindowOK(s), NEW n \in Nat, Boundary(s, n),
           NEW j \in DOMAIN s.outstanding, s.outstanding[j].seqStart < n
    PROVE  segEnd(s.outstanding[j]) <= n
PROOF
    <1> DEFINE out == s.outstanding
    <1>1. out \in Seq(Segment) /\ DOMAIN out = 1 .. Len(out) /\ Len(out) \in Nat
        BY SocketFields, LenProperties
    <1>2. ASSUME NEW k \in 1 .. Len(out)
          PROVE  /\ out[k].seqStart \in Nat /\ segEnd(out[k]) \in Nat
                 /\ out[k].seqStart <= segEnd(out[k])
        <2>1. out[k] \in Segment
            BY <1>1, ElementOfSeq
        <2>2. out[k].seqStart \in Nat /\ Len(out[k].data) \in Nat
            BY <2>1, LenProperties DEF Segment
        <2> QED  BY <2>2 DEF segEnd
    <1>3. CASE n = s.sndNxt
        BY <1>1, <1>3 DEF WindowOK
    <1>4. ASSUME NEW k \in DOMAIN out, out[k].seqStart = n
          PROVE  segEnd(out[j]) <= n
        <2>1. /\ \A i \in 1 .. k - 1 : segEnd(out[i]) <= out[k].seqStart
              /\ \A i \in 1 .. j - 1 : segEnd(out[i]) <= out[j].seqStart
            BY <1>1 DEF WindowOK
        <2>2. CASE j < k
            BY <1>1, <1>4, <2>1, <2>2
        <2>3. CASE j = k
            BY <1>1, <1>2, <1>4, <2>3
        <2>4. CASE j > k
            <3>1. segEnd(out[k]) <= out[j].seqStart
                BY <1>1, <2>1, <2>4
            <3> QED  BY <1>1, <1>2, <1>4, <3>1
        <2> QED  BY <1>1, <2>2, <2>3, <2>4
    <1> QED  BY <1>3, <1>4 DEF Boundary

\* The window begins, and every segment of it ends, at a boundary.
LEMMA WindowBoundaries ==
    ASSUME NEW s \in Socket, WindowOK(s)
    PROVE  /\ Boundary(s, s.sndUna)
           /\ s.sndUna <= s.sndNxt
           /\ \A j \in DOMAIN s.outstanding : Boundary(s, segEnd(s.outstanding[j]))
PROOF
    <1> DEFINE out == s.outstanding
    <1>1. /\ out \in Seq(Segment) /\ DOMAIN out = 1 .. Len(out) /\ Len(out) \in Nat
          /\ s.sndUna \in Nat /\ s.sndNxt \in Nat
          /\ (out = <<>> <=> Len(out) = 0)
        BY SocketFields, LenProperties, EmptySeq
    <1>2. s.sndUna = IF out = <<>> THEN s.sndNxt ELSE out[1].seqStart
        BY DEF WindowOK
    <1>3. Boundary(s, s.sndUna)
        BY <1>1, <1>2 DEF Boundary
    <1>4. s.sndUna <= s.sndNxt
        <2>1. CASE out = <<>>
            BY <1>1, <1>2, <2>1
        <2>2. CASE out # <<>>
            <3>1. 1 \in 1 .. Len(out)
                BY <1>1, <2>2
            <3>2. out[1] \in Segment
                BY <1>1, <3>1, ElementOfSeq
            <3>3. out[1].seqStart \in Nat /\ Len(out[1].data) \in Nat
                BY <3>2, LenProperties DEF Segment
            <3>4. segEnd(out[1]) <= s.sndNxt
                BY <3>1 DEF WindowOK
            <3> QED  BY <1>1, <1>2, <2>2, <3>3, <3>4 DEF segEnd
        <2> QED  BY <2>1, <2>2
    <1>5. ASSUME NEW j \in DOMAIN out  PROVE  Boundary(s, segEnd(out[j]))
        <2>1. segEnd(out[j]) = IF j = Len(out) THEN s.sndNxt ELSE out[j + 1].seqStart
            BY <1>1 DEF WindowOK
        <2>2. CASE j = Len(out)
            BY <2>1, <2>2 DEF Boundary
        <2>3. CASE j # Len(out)
            <3>1. j + 1 \in DOMAIN out
                BY <1>1, <2>3
            <3> QED  BY <2>1, <2>3, <3>1 DEF Boundary
        <2> QED  BY <2>2, <2>3
    <1> QED  BY <1>3, <1>4, <1>5

\* What is on its way from the client still fits when the client moves forward.
LEMMA ToServerForward ==
    ASSUME NEW s \in Socket, NEW s2 \in Socket, WindowOK(s), Advance(s, s2),
           Boundary(s, s2.sndUna), NEW pkt \in Packet, ToServerOK(s, pkt)
    PROVE  ToServerOK(s2, pkt)
PROOF
    <1> DEFINE seg == [seqStart |-> pkt.seq, data |-> pkt.data]
    <1>1. /\ pkt.seq \in Nat /\ s.sndUna \in Nat /\ s2.sndUna \in Nat
          /\ s.sndUna <= s2.sndUna /\ segEnd(seg) \in Nat
        <2>1. pkt.seq \in Nat /\ pkt.data \in Seq(Byte)
            BY DEF Packet
        <2>2. Len(pkt.data) \in Nat
            BY <2>1, LenProperties
        <2> QED  BY <2>1, <2>2, SocketFields DEF Advance, segEnd
    <1>2. ASSUME pkt.type = "DATA"
          PROVE  DataOK(s2, pkt) /\ (pkt.seq < s2.sndUna => segEnd(seg) <= s2.sndUna)
        <2>1. DataOK(s, pkt) /\ (pkt.seq < s.sndUna => segEnd(seg) <= s.sndUna)
            BY <1>2 DEF ToServerOK
        <2>2. PktOK(s, s, pkt)
            BY <1>2, <2>1 DEF PktOK
        <2>3. PktOK(s2, s2, pkt)
            BY <2>2, PktAdvance
        <2>4. DataOK(s2, pkt)
            BY <1>2, <2>3 DEF PktOK
        <2>5. ASSUME pkt.seq < s2.sndUna  PROVE  segEnd(seg) <= s2.sndUna
            <3>1. CASE pkt.seq < s.sndUna
                BY <1>1, <2>1, <3>1
            <3>2. CASE pkt.seq >= s.sndUna
                <4>1. PICK j \in DOMAIN s.outstanding : s.outstanding[j] = seg
                    BY <2>1, <3>2 DEF DataOK
                <4>2. s.outstanding[j].seqStart < s2.sndUna
                    BY <2>5, <4>1
                <4> HIDE DEF seg
                <4> QED  BY <1>1, <4>1, <4>2, NoCut
            <3> QED  BY <1>1, <3>1, <3>2
        <2> QED  BY <2>4, <2>5
    <1>3. ASSUME pkt.type = "FIN"  PROVE  s2.finSeq >= 0 /\ pkt.seq = s2.finSeq
        BY <1>3 DEF ToServerOK, Advance
    <1> QED  BY <1>2, <1>3 DEF ToServerOK

\* So does what is on its way to the client, when its receivers move forward too.
LEMMA ToClientForward ==
    ASSUME NEW s \in Socket, NEW s2 \in Socket, Advance(s, s2),
           NEW ts, NEW ts2, ts \subseteq Socket, ts2 \subseteq Socket,
           \A u \in ts : \E v \in ts2 : Carries(u, v),
           NEW pkt \in Packet, ToClientOK(s, ts, pkt)
    PROVE  ToClientOK(s2, ts2, pkt)
PROOF
    <1>1. ASSUME AckedBy(s, ts, pkt)  PROVE  AckedBy(s2, ts2, pkt)
        <2>1. pkt.seq \in Nat /\ s.sndUna \in Nat /\ s2.sndUna \in Nat /\ s.sndUna <= s2.sndUna
            BY SocketFields DEF Packet, Advance
        <2>2. CASE pkt.seq <= s.sndUna
            BY <2>1, <2>2 DEF AckedBy
        <2>3. ASSUME Boundary(s, pkt.seq), NEW u \in ts, pkt.seq <= u.rcvNxt
              PROVE  AckedBy(s2, ts2, pkt)
            <3>1. PICK v \in ts2 : Carries(u, v)
                BY <2>3
            <3>2. u \in Socket /\ v \in Socket
                BY <2>3, <3>1
            <3>3. pkt.seq <= v.rcvNxt
                BY <2>1, <2>3, <3>1, <3>2, SocketFields DEF Carries
            <3>4. pkt.seq > s2.sndUna => Boundary(s2, pkt.seq)
                BY <2>1, <2>3 DEF Advance
            <3> QED  BY <2>1, <3>1, <3>3, <3>4 DEF AckedBy
        <2>4. ASSUME s.finSeq >= 0, pkt.seq = s.finSeq + 1, NEW u \in ts, u.peerFinReceived
              PROVE  AckedBy(s2, ts2, pkt)
            <3>1. s2.finSeq = s.finSeq
                BY <2>4 DEF Advance
            <3>2. \E v \in ts2 : v.peerFinReceived
                BY <2>4 DEF Carries
            <3> QED  BY <2>4, <3>1, <3>2 DEF AckedBy
        <2> QED  BY <1>1, <2>2, <2>3, <2>4 DEF AckedBy
    <1> QED  BY <1>1 DEF ToClientOK

\* The children of the server: the one in the table and those it has replaced.
Children(t, reps) == {t} \cup {reps[k].sock : k \in 1 .. Len(reps)}

\* Who the children are.
LEMMA ChildrenMembers ==
    ASSUME NEW t \in Socket, NEW reps \in Seq(Replaced)
    PROVE  /\ Children(t, reps) \subseteq Socket
           /\ t \in Children(t, reps)
           /\ \A k \in 1 .. Len(reps) : reps[k].sock \in Children(t, reps)
           /\ \A u \in Children(t, reps) :
                u = t \/ \E k \in 1 .. Len(reps) : u = reps[k].sock
PROOF
    <1>1. ASSUME NEW k \in 1 .. Len(reps)  PROVE  reps[k].sock \in Socket
        <2>1. reps[k] \in Replaced
            BY ElementOfSeq
        <2> QED  BY <2>1 DEF Replaced
    <1> QED  BY <1>1 DEF Children

\* The two ends, and the sockets that take what the client sends.
LEMMA ReceiversAreChildren ==
    /\ Client \in Ends /\ Server \in Ends
    /\ Peer(Client) = Server /\ Peer(Server) = Client /\ Client # Server
    /\ Ends = {Client, Server}
    /\ receivers(Client) = Children(sock[Server], replaced)
    /\ receivers(Client)' = Children(sock'[Server], replaced')
PROOF
    <1>1. /\ Client \in Ends /\ Server \in Ends
          /\ Peer(Client) = Server /\ Peer(Server) = Client /\ Client # Server
          /\ Ends = {Client, Server}
        BY StreamConstants DEF StreamConstants, Ends, Peer
    <1> QED  BY <1>1 DEF receivers, Children

\* Every packet in the network after the step was there before it, or fits the
\* client and its receivers as the step leaves them.
UploadNet ==
    /\ net' \in [Ends -> Seq(Packet)]
    /\ \A x \in Ends : Len(net'[x]) <= LinkBuf
    /\ \A i \in 1 .. Len(net'[Client]) :
            \/ \E k \in 1 .. Len(net[Client]) : net[Client][k] = net'[Client][i]
            \/ ToClientOK(sock'[Client], receivers(Client)', net'[Client][i])
    /\ \A i \in 1 .. Len(net'[Server]) :
            \/ \E k \in 1 .. Len(net[Server]) : net[Server][k] = net'[Server][i]
            \/ ToServerOK(sock'[Client], net'[Server][i])

\* The client may go from s to s2.
SenderForward(s, s2) ==
    /\ Advance(s, s2)
    /\ WindowOK(s2)
    /\ Boundary(s, s2.sndUna)

\* The child t in the table has taken a prefix of the stream of s, up to a boundary
\* unless all it has is acknowledged.
InTable(s, t, taken) ==
    /\ ChildOK(s, t, taken)
    /\ t.rcvNxt >= s.sndUna => Boundary(s, t.rcvNxt)

\* A step after which the client has moved forward, and so have its receivers
\* taken together.
LEMMA UploadStep ==
    ASSUME Upload, TypeOK', \A e \in Ends : SideOK(e)',
           SenderForward(sock[Client], sock'[Client]),
           \A u \in receivers(Client) : \E v \in receivers(Client)' : Carries(u, v),
           \E v \in receivers(Client)' : sock'[Client].sndUna <= v.rcvNxt,
           ~established'[Client] => /\ sock'[Client].finSeq >= 0
                                    /\ \E v \in receivers(Client)' : v.peerFinReceived,
           InTable(sock'[Client], sock'[Server], got'[Server]),
           \A k \in 1 .. Len(replaced') :
                ChildOK(sock'[Client], replaced'[k].sock, replaced'[k].taken),
           UploadNet,
           replaced' # <<>> => Reorder
    PROVE  Upload'
PROOF
    <1> DEFINE s == sock[Client]
               s2 == sock'[Client]
               ts == receivers(Client)
               ts2 == receivers(Client)'
    <1>1. /\ Client \in Ends /\ Server \in Ends
          /\ ts = Children(sock[Server], replaced)
          /\ ts2 = Children(sock'[Server], replaced')
        BY ReceiversAreChildren
    <1>2. /\ s \in Socket /\ s2 \in Socket /\ sock[Server] \in Socket /\ sock'[Server] \in Socket
          /\ replaced \in Seq(Replaced) /\ replaced' \in Seq(Replaced)
          /\ net[Client] \in Seq(Packet) /\ net[Server] \in Seq(Packet)
        BY <1>1 DEF Upload, TypeOK
    <1>3. ts \subseteq Socket /\ ts2 \subseteq Socket
        BY <1>1, <1>2, ChildrenMembers
    <1>4. /\ WindowOK(s)
          /\ \A i \in 1 .. Len(net[Client]) : ToClientOK(s, ts, net[Client][i])
          /\ \A i \in 1 .. Len(net[Server]) : ToServerOK(s, net[Server][i])
        BY DEF Upload, UploadInv
    <1>5. Advance(s, s2) /\ WindowOK(s2) /\ Boundary(s, s2.sndUna)
        BY DEF SenderForward
    <1>6. /\ \A u \in ts : \E v \in ts2 : Carries(u, v)
          /\ \E v \in ts2 : s2.sndUna <= v.rcvNxt
          /\ ~established'[Client] => s2.finSeq >= 0 /\ \E v \in ts2 : v.peerFinReceived
        OBVIOUS
    <1> HIDE DEF ts, ts2
    <1>7. ASSUME NEW i \in 1 .. Len(net'[Client])  PROVE  ToClientOK(s2, ts2, net'[Client][i])
        <2>1. ASSUME NEW k \in 1 .. Len(net[Client]), net[Client][k] = net'[Client][i]
              PROVE  ToClientOK(s2, ts2, net'[Client][i])
            <3>1. net[Client][k] \in Packet /\ ToClientOK(s, ts, net[Client][k])
                BY <1>2, <1>4, ElementOfSeq
            <3>2. ToClientOK(s2, ts2, net[Client][k])
                BY <1>2, <1>3, <1>5, <1>6, <3>1, ToClientForward
            <3> QED  BY <2>1, <3>2
        <2> QED  BY <2>1 DEF UploadNet, ts2
    <1>8. ASSUME NEW i \in 1 .. Len(net'[Server])  PROVE  ToServerOK(s2, net'[Server][i])
        <2>1. ASSUME NEW k \in 1 .. Len(net[Server]), net[Server][k] = net'[Server][i]
              PROVE  ToServerOK(s2, net'[Server][i])
            <3>1. net[Server][k] \in Packet /\ ToServerOK(s, net[Server][k])
                BY <1>2, <1>4, ElementOfSeq
            <3>2. ToServerOK(s2, net[Server][k])
                BY <1>2, <1>4, <1>5, <3>1, ToServerForward
            <3> QED  BY <2>1, <3>2
        <2> QED  BY <2>1 DEF UploadNet
    <1>9. UploadInv'
        BY <1>5, <1>6, <1>7, <1>8 DEF UploadInv, InTable, ts2, OneChild
    <1> QED  BY <1>9 DEF Upload

-----------------------------------------------------------------------------
(* Sockets whose window need not be whole: the server's later children. *)

\* The least element of a set of numbers.
LEMMA LeastExists ==
    ASSUME NEW S, S \subseteq Nat, S # {}
    PROVE  \E x \in S : \A y \in S : x <= y
PROOF
    <1> DEFINE R == OpToRel(<, Nat)
    <1>1. \A x, y \in Nat : x < y => <<x, y>> \in R
        BY Zenon DEF OpToRel
    <1>2. \E x \in S : \A y \in S : ~(<<y, x>> \in R)
        BY NatLessThanWellFounded, WFMin, Zenon
    <1> HIDE DEF R
    <1>3. PICK x \in S : \A y \in S : ~(<<y, x>> \in R)
        BY <1>2
    <1>4. ASSUME NEW y \in S  PROVE  x <= y
        <2>1. x \in Nat /\ y \in Nat
            OBVIOUS
        <2>2. ~(y < x)
            BY <2>1, <1>1, <1>3, Zenon
        <2> QED  BY <2>1, <2>2
    <1> QED  BY <1>4

\* popAckedThrough() always finds where to cut.
LEMMA FirstUnackedExists ==
    ASSUME NEW segs \in Seq(Segment), NEW n \in Nat
    PROVE  firstUnacked(segs, n) \in 1 .. Len(segs) + 1
PROOF
    <1> DEFINE over == {j \in 1 .. Len(segs) : segEnd(segs[j]) > n}
               ok(f) == /\ \A i \in 1 .. f - 1 : segEnd(segs[i]) <= n
                        /\ f <= Len(segs) => segEnd(segs[f]) > n
    <1>1. Len(segs) \in Nat
        BY LenProperties
    <1>2. ASSUME NEW j \in 1 .. Len(segs)  PROVE  segEnd(segs[j]) \in Nat
        <2>1. segs[j] \in Segment
            BY ElementOfSeq
        <2> QED  BY <2>1, LenProperties DEF Segment, segEnd
    <1>3. \E f \in 1 .. Len(segs) + 1 : ok(f)
        <2>1. CASE over = {}
            <3>1. Len(segs) + 1 \in 1 .. Len(segs) + 1
                BY <1>1
            <3>2. ASSUME NEW i \in 1 .. Len(segs) + 1 - 1  PROVE  segEnd(segs[i]) <= n
                <4>1. i \in 1 .. Len(segs)
                    BY <1>1
                <4> QED  BY <1>2, <2>1, <4>1
            <3>3. ok(Len(segs) + 1)
                BY <1>1, <3>2
            <3> QED  BY <3>1, <3>3
        <2>2. CASE over # {}
            <3>1. over \subseteq Nat
                BY <1>1
            <3>2. PICK f \in over : \A y \in over : f <= y
                <4> HIDE DEF over
                <4> QED  BY <2>2, <3>1, LeastExists
            <3>3. f \in 1 .. Len(segs) + 1 /\ segEnd(segs[f]) > n /\ f \in 1 .. Len(segs)
                BY <1>1
            <3>4. ASSUME NEW i \in 1 .. f - 1  PROVE  segEnd(segs[i]) <= n
                <4>1. i \in 1 .. Len(segs) /\ ~(f <= i)
                    BY <1>1, <3>3
                <4>2. i \notin over
                    BY <3>2, <4>1
                <4> QED  BY <1>2, <4>1, <4>2
            <3> QED  BY <3>3, <3>4
        <2> QED  BY <2>1, <2>2
    <1>4. firstUnacked(segs, n) = CHOOSE f \in 1 .. Len(segs) + 1 : ok(f)
        BY DEF firstUnacked
    <1> HIDE DEF ok
    <1> QED  BY <1>3, <1>4

\* An acknowledgement of new data, wherever it cuts the window.
LEMMA AckedTypes ==
    ASSUME NEW s \in Socket, FinOK(s), NEW n \in Nat, NEW w \in Nat
    PROVE  LET s2 == acked(s, n, w)
           IN  /\ s2 \in Socket /\ FinOK(s2)
               /\ s2.sndUna = n
               /\ s2.sndNxt = s.sndNxt /\ s2.finSeq = s.finSeq
               /\ s2.rcvNxt = s.rcvNxt
               /\ s2.recvBuf = s.recvBuf
               /\ s2.peerFinReceived = s.peerFinReceived
               /\ s2.state = s.state
PROOF
    <1> DEFINE s1 == setRwnd(s, w)
               out == s1.outstanding
               f == firstUnacked(out, n)
               rest == SubSeq(out, f, Len(out))
               a == rest # <<>>
               s3 == popAckedThrough(s1, n)
               s2 == additiveIncreaseCwnd(s3)
    <1>1. s1 \in Socket /\ Still(s, s1)
        BY SetRwndOK
    <1> HIDE DEF s1
    <1>2. out \in Seq(Segment) /\ Len(out) \in Nat /\ out = s.outstanding
        BY <1>1, SocketFields, LenProperties DEF Still, SameSender
    <1>3. f \in 1 .. Len(out) + 1
        BY <1>2, FirstUnackedExists
    <1>4. s3 = [s1 EXCEPT !.outstanding = rest, !.sndUna = n, !.armed = a]
        BY DEF popAckedThrough
    <1> HIDE DEF f, out
    <1>5. rest \in Seq(Segment) /\ (out = <<>> => rest = <<>>)
        <2>1. \A k \in f .. Len(out) : out[k] \in Segment
            BY <1>2, <1>3, ElementOfSeq
        <2>2. f \in Int /\ Len(out) \in Int
            BY <1>2, <1>3
        <2>3. /\ rest \in Seq(Segment)
              /\ Len(rest) = IF f <= Len(out) THEN Len(out) - f + 1 ELSE 0
            BY <2>1, <2>2, SubSeqProperties
        <2>4. ASSUME out = <<>>  PROVE  rest = <<>>
            <3>1. Len(out) = 0
                BY <2>4
            <3> HIDE DEF rest
            <3>2. Len(rest) = 0
                BY <1>3, <2>3, <3>1
            <3> QED  BY <2>3, <3>2, EmptySeq
        <2> QED  BY <2>3, <2>4
    <1>6. a \in BOOLEAN
        OBVIOUS
    <1> HIDE DEF a, rest, s3
    <1>7. s3 \in Socket
        BY <1>1, <1>4, <1>5, <1>6, Zenon DEF Socket
    <1>8. /\ s3.sndUna = n /\ s3.sndNxt = s1.sndNxt /\ s3.finSeq = s1.finSeq
          /\ s3.rcvNxt = s1.rcvNxt /\ s3.recvBuf = s1.recvBuf
          /\ s3.peerFinReceived = s1.peerFinReceived /\ s3.state = s1.state
          /\ s3.outstanding = rest
        BY <1>1, <1>4 DEF Socket
    <1>9. s2 \in Socket /\ Still(s3, s2)
        BY <1>7, AdditiveIncreaseOK
    <1>10. s2 = acked(s, n, w)
        BY DEF acked, s1, s3
    <1> HIDE DEF s2
    <1>11. /\ s2.sndUna = n /\ s2.sndNxt = s.sndNxt /\ s2.finSeq = s.finSeq
           /\ s2.rcvNxt = s.rcvNxt /\ s2.recvBuf = s.recvBuf
           /\ s2.peerFinReceived = s.peerFinReceived /\ s2.state = s.state
           /\ s2.outstanding = rest
        BY <1>1, <1>8, <1>9 DEF Still, SameSender
    <1>12. FinOK(s2)
        BY <1>2, <1>5, <1>11 DEF FinOK
    <1> QED  BY <1>9, <1>10, <1>11, <1>12

\* The packets of a retransmission are data packets.
LEMMA DataPktsTypes ==
    ASSUME NEW segs \in Seq(Segment)
    PROVE  /\ dataPkts(segs) \in Seq(Packet)
           /\ \A j \in 1 .. Len(dataPkts(segs)) : dataPkts(segs)[j].type = "DATA"
PROOF
    <1> DEFINE pkt(j) == [type |-> "DATA", seq |-> segs[j].seqStart,
                          window |-> 0, data |-> segs[j].data]
    <1>1. dataPkts(segs) = [j \in 1 .. Len(segs) |-> pkt(j)]
        BY DEF dataPkts
    <1>2. ASSUME NEW j \in 1 .. Len(segs)  PROVE  pkt(j) \in Packet /\ pkt(j).type = "DATA"
        <2>1. segs[j] \in Segment
            BY ElementOfSeq
        <2>2. segs[j].seqStart \in Nat /\ segs[j].data \in Seq(Byte)
            BY <2>1 DEF Segment
        <2> QED  BY <2>2 DEF Packet
    <1> HIDE DEF pkt
    <1>3. Len(segs) \in Nat
        BY LenProperties
    <1>4. dataPkts(segs) \in Seq(Packet) /\ Len(dataPkts(segs)) = Len(segs)
        BY <1>1, <1>2, <1>3
    <1> QED  BY <1>1, <1>2, <1>4

\* A segment that is taken in order continues what has been read and buffered.
LEMMA AppendReadOK ==
    ASSUME NEW s \in Socket, NEW taken \in Seq(Byte), ReadOK(s, taken),
           NEW d \in Seq(Byte), Numbered(s.rcvNxt, d),
           Len(d) <= getRecvBufAvailable(s)
    PROVE  /\ ReadOK(appendToRecvBuf(s, d), taken)
           /\ Len(appendToRecvBuf(s, d).recvBuf) <= RECV_BUF_CAP
PROOF
    <1> DEFINE s2 == appendToRecvBuf(s, d)
               buf == s.recvBuf
               m == Len(taken)
    <1>1. s2.rcvNxt = s.rcvNxt + Len(d) /\ s2.recvBuf = buf \o d
        BY AppendOK
    <1>2. buf \in Seq(Byte) /\ s.rcvNxt \in Nat /\ RECV_BUF_CAP \in Nat
        BY SocketFields, SocketConstants DEF SocketConstants
    <1>3. Len(buf) \in Nat /\ m \in Nat /\ Len(d) \in Nat
        BY <1>2, LenProperties
    <1>4. /\ s.rcvNxt = 1 + m + Len(buf)
          /\ \A k \in 1 .. Len(buf) : buf[k] = m + k
          /\ \A k \in 1 .. Len(taken) : taken[k] = k
        BY DEF ReadOK
    <1>5. \A k \in 1 .. Len(d) : d[k] = s.rcvNxt + k - 1
        BY DEF Numbered
    <1>6. Len(d) <= RECV_BUF_CAP - Len(buf)
        BY DEF getRecvBufAvailable
    <1> HIDE DEF s2, buf
    <1>7. \A k \in 1 .. Len(d) : d[k] = m + Len(buf) + k
        <2> HIDE DEF m
        <2> QED  BY <1>3, <1>4, <1>5
    <1>8. /\ Len(buf \o d) = Len(buf) + Len(d)
          /\ \A k \in 1 .. Len(buf \o d) : (buf \o d)[k] = m + k
        <2> HIDE DEF m
        <2> QED  BY <1>2, <1>3, <1>4, <1>7, ConcatNumbered
    <1>9. s2.rcvNxt = 1 + m + Len(s2.recvBuf)
        <2> HIDE DEF m
        <2>1. Len(s2.recvBuf) = Len(buf) + Len(d)
            BY <1>1, <1>8
        <2> QED  BY <1>1, <1>3, <1>4, <2>1
    <1>10. Len(s2.recvBuf) <= RECV_BUF_CAP
        <2>1. Len(s2.recvBuf) = Len(buf) + Len(d)
            BY <1>1, <1>8
        <2> QED  BY <1>2, <1>3, <1>6, <2>1
    <1>11. ReadOK(s2, taken)
        BY <1>1, <1>4, <1>8, <1>9 DEF ReadOK
    <1> QED  BY <1>10, <1>11 DEF s2

\* What is outstanding is not acknowledged.
LEMMA OutstandingAhead ==
    ASSUME NEW s \in Socket, WindowOK(s), NEW j \in DOMAIN s.outstanding
    PROVE  s.outstanding[j].seqStart >= s.sndUna
PROOF
    <1> DEFINE out == s.outstanding
    <1>1. /\ out \in Seq(Segment) /\ DOMAIN out = 1 .. Len(out) /\ Len(out) \in Nat
          /\ s.sndUna \in Nat
        BY SocketFields, LenProperties
    <1>2. out # <<>> /\ 1 \in 1 .. Len(out)
        BY <1>1
    <1>3. s.sndUna = out[1].seqStart
        BY <1>2 DEF WindowOK
    <1>4. out[1] \in Segment /\ out[j] \in Segment
        BY <1>1, <1>2, ElementOfSeq
    <1>5. /\ out[1].seqStart \in Nat /\ Len(out[1].data) \in Nat
          /\ out[j].seqStart \in Nat
        BY <1>4, LenProperties DEF Segment
    <1>6. CASE j = 1
        BY <1>1, <1>3, <1>6
    <1>7. CASE j # 1
        <2>1. 1 \in 1 .. j - 1
            BY <1>1, <1>7
        <2>2. segEnd(out[1]) <= out[j].seqStart
            BY <1>1, <2>1 DEF WindowOK
        <2> QED  BY <1>1, <1>3, <1>5, <2>2 DEF segEnd
    <1> QED  BY <1>6, <1>7

-----------------------------------------------------------------------------
(* The steps of the network, without asking whom the packets fit. *)

\* Every packet in the network after the step was there before it, or is one of
\* those that e sends to its peer.
Delivers(e, pkts) ==
    /\ net' \in [Ends -> Seq(Packet)]
    /\ \A x \in Ends : Len(net'[x]) <= LinkBuf
    /\ \A x \in Ends : \A i \in 1 .. Len(net'[x]) :
            \/ \E k \in 1 .. Len(net[x]) : net[x][k] = net'[x][i]
            \/ x = Peer(e) /\ \E k \in 1 .. Len(pkts) : pkts[k] = net'[x][i]

\* Sending, on a link that drops what does not fit.
LEMMA SendDelivers ==
    ASSUME net \in [Ends -> Seq(Packet)], \A x \in Ends : Len(net[x]) <= LinkBuf,
           NEW e \in Ends, NEW pkts \in Seq(Packet), Send(e, pkts)
    PROVE  Delivers(e, pkts)
PROOF
    <1> DEFINE p == Peer(e)
               q == enqueue(net[p], pkts)
    <1>1. p \in Ends /\ Peer(p) = e
        BY EndsPeer
    <1>2. /\ q \in Seq(Packet) /\ Len(q) <= LinkBuf
          /\ \A j \in 1 .. Len(q) : \/ \E k \in 1 .. Len(net[p]) : net[p][k] = q[j]
                                    \/ \E k \in 1 .. Len(pkts) : pkts[k] = q[j]
        <2>1. net[p] \in Seq(Packet)
            BY <1>1
        <2> QED  BY <2>1, EnqueueElems
    <1>3. net' = [net EXCEPT ![p] = q]
        BY DEF Send
    <1> HIDE DEF p, q
    <1>4. net' \in [Ends -> Seq(Packet)]
        BY <1>1, <1>2, <1>3
    <1>5. \A x \in Ends : net'[x] = IF x = p THEN q ELSE net[x]
        BY <1>1, <1>3
    <1>6. \A x \in Ends : Len(net'[x]) <= LinkBuf
        BY <1>2, <1>5
    <1>7. ASSUME NEW x \in Ends, NEW i \in 1 .. Len(net'[x])
          PROVE  \/ \E k \in 1 .. Len(net[x]) : net[x][k] = net'[x][i]
                 \/ x = p /\ \E k \in 1 .. Len(pkts) : pkts[k] = net'[x][i]
        <2>1. CASE x = p
            BY <1>2, <1>5, <2>1
        <2>2. CASE x # p
            BY <1>5, <2>2
        <2> QED  BY <2>1, <2>2
    <1> QED  BY <1>4, <1>6, <1>7 DEF Delivers, p

\* Taking a packet and answering it.
LEMMA ReplyDelivers ==
    ASSUME net \in [Ends -> Seq(Packet)], \A x \in Ends : Len(net[x]) <= LinkBuf,
           NEW e \in Ends, NEW i \in 1 .. Len(net[e]), NEW pkts \in Seq(Packet),
           Reply(e, i, pkts)
    PROVE  Delivers(e, pkts)
PROOF
    <1> DEFINE p == Peer(e)
               q == enqueue(net[p], pkts)
               r == RemoveAt(net[e], i)
    <1>1. p \in Ends /\ Peer(p) = e /\ p # e /\ Ends = {e, p}
        BY EndsPeer
    <1>2. /\ q \in Seq(Packet) /\ Len(q) <= LinkBuf
          /\ \A j \in 1 .. Len(q) : \/ \E k \in 1 .. Len(net[p]) : net[p][k] = q[j]
                                    \/ \E k \in 1 .. Len(pkts) : pkts[k] = q[j]
        <2>1. net[p] \in Seq(Packet)
            BY <1>1
        <2> QED  BY <2>1, EnqueueElems
    <1>3. /\ r \in Seq(Packet) /\ Len(r) <= Len(net[e])
          /\ \A j \in 1 .. Len(r) : \E k \in 1 .. Len(net[e]) : net[e][k] = r[j]
        BY RemoveElems
    <1>4. net' = [net EXCEPT ![e] = r, ![p] = q]
        <2>1. [net EXCEPT ![e] = r][p] = net[p]
            BY <1>1
        <2> QED  BY <2>1 DEF Reply
    <1> HIDE DEF p, q, r
    <1>5. net'[e] = r /\ net'[p] = q /\ net' \in [Ends -> Seq(Packet)]
        BY <1>1, <1>2, <1>3, <1>4
    <1>6. Len(r) <= LinkBuf
        <2>1. Len(net[e]) \in Nat /\ Len(r) \in Nat /\ LinkBuf \in Nat
            BY <1>3, LenProperties, StreamConstants DEF StreamConstants
        <2> QED  BY <1>3, <2>1
    <1>7. ASSUME NEW x \in Ends, NEW j \in 1 .. Len(net'[x])
          PROVE  \/ \E k \in 1 .. Len(net[x]) : net[x][k] = net'[x][j]
                 \/ x = p /\ \E k \in 1 .. Len(pkts) : pkts[k] = net'[x][j]
        <2>1. CASE x = p
            BY <1>2, <1>5, <2>1
        <2>2. CASE x = e
            BY <1>3, <1>5, <2>2
        <2> QED  BY <1>1, <2>1, <2>2
    <1>8. \A x \in Ends : Len(net'[x]) <= LinkBuf
        BY <1>1, <1>2, <1>5, <1>6
    <1> QED  BY <1>5, <1>7, <1>8 DEF Delivers, p

\* A step that sends nothing.
LEMMA NothingDelivered ==
    ASSUME net \in [Ends -> Seq(Packet)], \A x \in Ends : Len(net[x]) <= LinkBuf,
           NEW e \in Ends,
           net' = net \/ \E i \in 1 .. Len(net[e]) : Reply(e, i, <<>>)
    PROVE  Delivers(e, <<>>)
PROOF
    <1>1. CASE net' = net
        BY <1>1 DEF Delivers
    <1>2. ASSUME NEW i \in 1 .. Len(net[e]), Reply(e, i, <<>>)  PROVE  Delivers(e, <<>>)
        <2>1. <<>> \in Seq(Packet)
            OBVIOUS
        <2> QED  BY <1>2, <2>1, ReplyDelivers
    <1> QED  BY <1>1, <1>2

\* What may be sent while the client's upload goes on.
UploadPkt(e, pkt) ==
    /\ e = Client => ToServerOK(sock'[Client], pkt)
    /\ e = Server => ToClientOK(sock'[Client], receivers(Client)', pkt)

\* Only the packets that are sent have to be looked at.
LEMMA DeliveredUpload ==
    ASSUME NEW e \in Ends, NEW pkts, Delivers(e, pkts),
           \A k \in 1 .. Len(pkts) : UploadPkt(e, pkts[k])
    PROVE  UploadNet
PROOF
    <1>1. /\ Client \in Ends /\ Server \in Ends /\ Ends = {Client, Server}
          /\ Peer(Client) = Server /\ Peer(Server) = Client /\ Client # Server
        BY ReceiversAreChildren
    <1>2. ASSUME NEW i \in 1 .. Len(net'[Client])
          PROVE  \/ \E k \in 1 .. Len(net[Client]) : net[Client][k] = net'[Client][i]
                 \/ ToClientOK(sock'[Client], receivers(Client)', net'[Client][i])
        <2>1. \/ \E k \in 1 .. Len(net[Client]) : net[Client][k] = net'[Client][i]
              \/ Client = Peer(e) /\ \E k \in 1 .. Len(pkts) : pkts[k] = net'[Client][i]
            BY <1>1 DEF Delivers
        <2> QED  BY <1>1, <2>1 DEF UploadPkt
    <1>3. ASSUME NEW i \in 1 .. Len(net'[Server])
          PROVE  \/ \E k \in 1 .. Len(net[Server]) : net[Server][k] = net'[Server][i]
                 \/ ToServerOK(sock'[Client], net'[Server][i])
        <2>1. \/ \E k \in 1 .. Len(net[Server]) : net[Server][k] = net'[Server][i]
              \/ Server = Peer(e) /\ \E k \in 1 .. Len(pkts) : pkts[k] = net'[Server][i]
            BY <1>1 DEF Delivers
        <2> QED  BY <1>1, <2>1 DEF UploadPkt
    <1> QED  BY <1>2, <1>3 DEF UploadNet, Delivers

\* Packets that fit whatever has happened: the server's data and FIN, and the
\* client's acknowledgements.
LEMMA HarmlessPkts ==
    ASSUME NEW e \in Ends, NEW pkt,
           \/ e = Server /\ pkt.type \in {"DATA", "FIN"}
           \/ e = Client /\ pkt.type = "ACK"
    PROVE  UploadPkt(e, pkt)
PROOF
    <1>1. Client # Server
        BY ReceiversAreChildren
    <1> QED  BY <1>1 DEF UploadPkt, ToServerOK, ToClientOK

\* Segments the client keeps in outstanding_ may be sent.
LEMMA ClientDataOK ==
    ASSUME NEW s \in Socket, WindowOK(s), s = sock'[Client], NEW segs \in Seq(Segment),
           \A j \in 1 .. Len(segs) :
                /\ Numbered(segs[j].seqStart, segs[j].data)
                /\ segEnd(segs[j]) <= s.sndNxt
                /\ \E k \in DOMAIN s.outstanding : s.outstanding[k] = segs[j]
    PROVE  /\ dataPkts(segs) \in Seq(Packet)
           /\ \A j \in 1 .. Len(dataPkts(segs)) : UploadPkt(Client, dataPkts(segs)[j])
PROOF
    <1> DEFINE pkts == dataPkts(segs)
    <1>1. /\ pkts \in Seq(Packet)
          /\ \A j \in 1 .. Len(pkts) : PktOK(s, s, pkts[j]) /\ pkts[j].type = "DATA"
        BY DataPktsOK, DataPktsTypes
    <1>2. ASSUME NEW j \in 1 .. Len(pkts)  PROVE  UploadPkt(Client, pkts[j])
        <2> DEFINE pkt == pkts[j]
        <2>1. DataOK(s, pkt) /\ pkt.type = "DATA"
            BY <1>1 DEF PktOK
        <2>2. Len(segs) \in Nat /\ Len(pkts) = Len(segs) /\ pkt.seq = segs[j].seqStart
            <3>1. DOMAIN segs = 1 .. Len(segs) /\ Len(segs) \in Nat
                BY LenProperties
            <3>2. Len(pkts) = Len(segs)
                BY <3>1 DEF dataPkts
            <3>3. pkts[j].seq = segs[j].seqStart
                BY <3>1, <3>2 DEF dataPkts
            <3> QED  BY <3>1, <3>2, <3>3
        <2>3. PICK k \in DOMAIN s.outstanding : s.outstanding[k] = segs[j]
            BY <2>2
        <2>4. pkt.seq >= s.sndUna
            BY <2>2, <2>3, OutstandingAhead
        <2>5. pkt.seq \in Nat /\ s.sndUna \in Nat
            <3>1. pkts[j] \in Packet
                BY <1>1, ElementOfSeq
            <3> QED  BY <3>1, SocketFields DEF Packet
        <2> HIDE DEF pkt
        <2>6. ToServerOK(s, pkt)
            BY <2>1, <2>4, <2>5 DEF ToServerOK
        <2>7. Client # Server
            BY ReceiversAreChildren
        <2> QED  BY <2>6, <2>7 DEF UploadPkt, pkt
    <1> QED  BY <1>1, <1>2

-----------------------------------------------------------------------------
(* A step of one end. *)

\* What every step does, however many children the server has had.
UploadKept ==
    /\ Upload'
    /\ \A x \in Ends : SameSocket(x) => Moves(sock[x], sock'[x])

\* A socket that does not change has not moved back.
LEMMA MovesRefl ==
    ASSUME NEW s \in Socket
    PROVE  Moves(s, s) /\ Carries(s, s)
PROOF
    <1>1. s.sndUna \in Nat /\ s.rcvNxt \in Nat /\ Len(s.recvBuf) \in Nat /\ RECV_BUF_CAP \in Nat
        BY SocketFields, LenProperties, SocketConstants DEF SocketConstants
    <1> QED  BY <1>1 DEF Moves, Carries, getRecvBufAvailable

\* A child's prefix stays one when the client moves forward.
LEMMA ChildForward ==
    ASSUME NEW s \in Socket, NEW s2 \in Socket, NEW t \in Socket, NEW taken,
           Advance(s, s2)
    PROVE  /\ ChildOK(s, t, taken) => ChildOK(s2, t, taken)
           /\ InTable(s, t, taken) => InTable(s2, t, taken)
PROOF
    <1>1. /\ s.sndNxt \in Nat /\ s2.sndNxt \in Nat /\ s.sndUna \in Nat /\ s2.sndUna \in Nat
          /\ t.rcvNxt \in Nat
        BY SocketFields
    <1>2. /\ s.sndUna <= s2.sndUna /\ s.sndNxt <= s2.sndNxt
          /\ s.finSeq >= 0 => s2.finSeq = s.finSeq
          /\ \A n \in Nat : n >= s2.sndUna /\ Boundary(s, n) => Boundary(s2, n)
        BY DEF Advance
    <1>3. ChildOK(s, t, taken) => ChildOK(s2, t, taken)
        BY <1>1, <1>2 DEF ChildOK
    <1>4. t.rcvNxt >= s2.sndUna => t.rcvNxt >= s.sndUna
        BY <1>1, <1>2
    <1> QED  BY <1>1, <1>2, <1>3, <1>4 DEF InTable

\* Upload by parts.
LEMMA UploadParts ==
    ASSUME Upload
    PROVE  /\ \A e \in Ends :
                /\ sock[e] \in Socket /\ Len(sock[e].recvBuf) <= RECV_BUF_CAP
                /\ net[e] \in Seq(Packet) /\ got[e] \in Seq(Byte) /\ pos[e] \in Nat
                /\ established[e] \in BOOLEAN /\ accepted[e] \in BOOLEAN
                /\ FinOK(sock[e]) /\ SideOK(e)
                /\ \A i \in 1 .. Len(net[e]) : net[e][i] \in Packet
           /\ sock \in [Ends -> Socket] /\ net \in [Ends -> Seq(Packet)]
           /\ got \in [Ends -> Seq(Byte)] /\ pos \in [Ends -> Nat]
           /\ established \in [Ends -> BOOLEAN] /\ accepted \in [Ends -> BOOLEAN]
           /\ losses \in 0 .. MaxLoss /\ replaced \in Seq(Replaced)
           /\ \A e \in Ends : Len(net[e]) <= LinkBuf
           /\ WindowOK(sock[Client])
           /\ InTable(sock[Client], sock[Server], got[Server])
           /\ \E u \in receivers(Client) : sock[Client].sndUna <= u.rcvNxt
           /\ ~established[Client] => /\ sock[Client].finSeq >= 0
                                      /\ \E u \in receivers(Client) : u.peerFinReceived
           /\ \A k \in 1 .. Len(replaced) :
                ChildOK(sock[Client], replaced[k].sock, replaced[k].taken)
           /\ \A i \in 1 .. Len(net[Client]) :
                ToClientOK(sock[Client], receivers(Client), net[Client][i])
           /\ \A i \in 1 .. Len(net[Server]) : ToServerOK(sock[Client], net[Server][i])
           /\ replaced # <<>> => Reorder
PROOF
    <1>1. TypeOK /\ (\A e \in Ends : SideOK(e)) /\ UploadInv
        BY DEF Upload
    <1>2. /\ sock \in [Ends -> Socket] /\ net \in [Ends -> Seq(Packet)]
          /\ got \in [Ends -> Seq(Byte)] /\ pos \in [Ends -> Nat]
          /\ established \in [Ends -> BOOLEAN] /\ accepted \in [Ends -> BOOLEAN]
          /\ losses \in 0 .. MaxLoss /\ replaced \in Seq(Replaced)
          /\ \A e \in Ends : Len(net[e]) <= LinkBuf
          /\ \A e \in Ends : Len(sock[e].recvBuf) <= RECV_BUF_CAP
        BY <1>1 DEF TypeOK
    <1>3. ASSUME NEW e \in Ends
          PROVE  /\ sock[e] \in Socket /\ Len(sock[e].recvBuf) <= RECV_BUF_CAP
                 /\ net[e] \in Seq(Packet) /\ got[e] \in Seq(Byte) /\ pos[e] \in Nat
                 /\ established[e] \in BOOLEAN /\ accepted[e] \in BOOLEAN
                 /\ FinOK(sock[e]) /\ SideOK(e)
                 /\ \A i \in 1 .. Len(net[e]) : net[e][i] \in Packet
        <2>1. net[e] \in Seq(Packet)
            BY <1>2
        <2>2. \A i \in 1 .. Len(net[e]) : net[e][i] \in Packet
            BY <2>1, ElementOfSeq
        <2>3. SideOK(e) /\ FinOK(sock[e])
            BY <1>1 DEF SideOK
        <2> QED  BY <1>2, <2>1, <2>2, <2>3
    <1> QED  BY <1>1, <1>2, <1>3 DEF UploadInv, InTable, OneChild

\* A step of e alone, seen by the upload.
LEMMA EndStep ==
    ASSUME Upload, NEW e \in Ends, NEW s2 \in Socket,
           sock' = [sock EXCEPT ![e] = s2], replaced' = replaced,
           Len(s2.recvBuf) <= RECV_BUF_CAP,
           Moves(sock[e], s2),
           established' \in [Ends -> BOOLEAN], established'[Peer(e)] = established[Peer(e)],
           accepted' \in [Ends -> BOOLEAN], accepted'[Peer(e)] = accepted[Peer(e)],
           got' \in [Ends -> Seq(Byte)], got'[Peer(e)] = got[Peer(e)],
           pos' \in [Ends -> Nat], pos'[Peer(e)] = pos[Peer(e)],
           losses' \in 0 .. MaxLoss,
           SideOK(e)', UploadNet,
           e = Client =>
                /\ SenderForward(sock[Client], s2)
                /\ \E u \in receivers(Client) : s2.sndUna <= u.rcvNxt
                /\ ~established'[Client] => /\ s2.finSeq >= 0
                                            /\ \E u \in receivers(Client) : u.peerFinReceived,
           e = Server =>
                /\ Carries(sock[Server], s2)
                /\ InTable(sock[Client], s2, got'[Server])
    PROVE  UploadKept
PROOF
    <1> DEFINE p == Peer(e)
               c == sock[Client]
               t == sock[Server]
               ts == receivers(Client)
               ts2 == receivers(Client)'
    <1>1. /\ p \in Ends /\ p # e /\ Ends = {e, p}
          /\ Client \in Ends /\ Server \in Ends /\ Client # Server
          /\ Peer(Client) = Server /\ Peer(Server) = Client /\ Ends = {Client, Server}
          /\ ts = Children(t, replaced) /\ ts2 = Children(sock'[Server], replaced)
        BY EndsPeer, ReceiversAreChildren
    <1>2. /\ sock \in [Ends -> Socket] /\ replaced \in Seq(Replaced)
          /\ \A x \in Ends : Len(sock[x].recvBuf) <= RECV_BUF_CAP
          /\ \A k \in 1 .. Len(replaced) : Len(replaced[k].sock.recvBuf) <= RECV_BUF_CAP
          /\ c \in Socket /\ t \in Socket
        BY <1>1 DEF Upload, TypeOK
    <1>3. sock'[e] = s2 /\ sock'[p] = sock[p] /\ sock' \in [Ends -> Socket]
        BY <1>1, <1>2
    <1>4. TypeOK'
        <2>1. \A x \in Ends : Len(sock'[x].recvBuf) <= RECV_BUF_CAP
            BY <1>1, <1>2, <1>3
        <2> QED  BY <1>2, <1>3, <2>1 DEF TypeOK, UploadNet
    <1>5. \A x \in Ends : SideOK(x)'
        <2>1. SideOK(p)
            BY <1>1 DEF Upload
        <2>2. SideOK(p)'
            BY <1>3, <2>1 DEF SideOK
        <2> QED  BY <1>1, <2>2
    <1>6. \A x \in Ends : Moves(sock[x], sock'[x])
        <2>1. Moves(sock[p], sock[p])
            BY <1>1, <1>2, MovesRefl
        <2> QED  BY <1>1, <1>3, <2>1
    <1>7. /\ WindowOK(c) /\ InTable(c, t, got[Server])
          /\ \E u \in ts : c.sndUna <= u.rcvNxt
          /\ ~established[Client] => c.finSeq >= 0 /\ \E u \in ts : u.peerFinReceived
          /\ \A k \in 1 .. Len(replaced) : ChildOK(c, replaced[k].sock, replaced[k].taken)
          /\ replaced # <<>> => Reorder
        BY UploadParts
    <1>8. ASSUME NEW k \in 1 .. Len(replaced)  PROVE  replaced[k].sock \in Socket
        <2>1. replaced[k] \in Replaced
            BY <1>2, ElementOfSeq
        <2> QED  BY <2>1 DEF Replaced
    <1>9. \A u \in ts : u \in Socket
        BY <1>1, <1>2, ChildrenMembers
    <1>10. CASE e = Client
        <2>1. sock'[Client] = s2 /\ sock'[Server] = t /\ ts2 = ts /\ got'[Server] = got[Server]
            BY <1>1, <1>3, <1>10
        <2>2. SenderForward(c, s2)
            BY <1>10
        <2>3. Advance(c, s2)
            BY <2>2 DEF SenderForward
        <2>4. InTable(s2, t, got[Server])
            BY <1>2, <1>7, <2>3, ChildForward
        <2>5. \A k \in 1 .. Len(replaced) : ChildOK(s2, replaced[k].sock, replaced[k].taken)
            BY <1>2, <1>7, <1>8, <2>3, ChildForward
        <2>6. \A u \in ts : Carries(u, u)
            BY <1>9, MovesRefl
        <2>7. /\ \E u \in ts : s2.sndUna <= u.rcvNxt
              /\ ~established'[Client] => s2.finSeq >= 0 /\ \E u \in ts : u.peerFinReceived
            BY <1>10
        <2> HIDE DEF ts, ts2
        <2>8. \A u \in ts : \E v \in ts2 : Carries(u, v)
            BY <2>1, <2>6
        <2>9. Upload'
            BY <1>4, <1>5, <1>7, <2>1, <2>2, <2>4, <2>5, <2>7, <2>8, UploadStep DEF ts, ts2
        <2> QED  BY <1>6, <2>9 DEF UploadKept
    <1>11. CASE e = Server
        <2>1. sock'[Client] = c /\ sock'[Server] = s2 /\ established'[Client] = established[Client]
            BY <1>1, <1>3, <1>11
        <2>2. SenderForward(c, c)
            BY <1>2, <1>7, AdvanceRefl, WindowBoundaries DEF SenderForward
        <2>3. Carries(t, s2) /\ InTable(c, s2, got'[Server])
            BY <1>11
        <2>4. ASSUME NEW u \in ts  PROVE  \E v \in ts2 : Carries(u, v)
            <3>1. CASE u = t
                <4>1. s2 \in ts2
                    BY <1>1, <1>2, <2>1, ChildrenMembers
                <4> QED  BY <2>3, <3>1, <4>1
            <3>2. ASSUME NEW k \in 1 .. Len(replaced), u = replaced[k].sock
                  PROVE  \E v \in ts2 : Carries(u, v)
                <4>1. u \in ts2
                    BY <1>1, <1>2, <2>1, <3>2, ChildrenMembers
                <4>2. Carries(u, u)
                    BY <1>9, MovesRefl
                <4> QED  BY <4>1, <4>2
            <3> QED  BY <1>1, <1>2, <3>1, <3>2, ChildrenMembers
        <2>5. ts2 \subseteq Socket
            BY <1>1, <1>2, <2>1, ChildrenMembers
        <2> HIDE DEF ts, ts2
        <2>6. \E v \in ts2 : c.sndUna <= v.rcvNxt
            <3>1. PICK u \in ts : c.sndUna <= u.rcvNxt
                BY <1>7
            <3>2. PICK v \in ts2 : Carries(u, v)
                BY <2>4
            <3>3. c.sndUna \in Nat /\ u.rcvNxt \in Nat /\ v.rcvNxt \in Nat
                BY <1>2, <1>9, <2>5, SocketFields
            <3> QED  BY <3>1, <3>2, <3>3 DEF Carries
        <2>7. ~established'[Client] => c.finSeq >= 0 /\ \E v \in ts2 : v.peerFinReceived
            <3>1. ASSUME NEW u \in ts, u.peerFinReceived  PROVE  \E v \in ts2 : v.peerFinReceived
                BY <2>4, <3>1 DEF Carries
            <3> QED  BY <1>7, <2>1, <3>1
        <2>8. Upload'
            BY <1>4, <1>5, <1>7, <2>1, <2>2, <2>3, <2>4, <2>6, <2>7, UploadStep DEF ts, ts2
        <2> QED  BY <1>6, <2>8 DEF UploadKept
    <1> QED  BY <1>1, <1>10, <1>11

\* s and s2 have the same receiving half.
SameReceiver(s, s2) ==
    /\ s2.rcvNxt = s.rcvNxt
    /\ s2.recvBuf = s.recvBuf
    /\ s2.peerFinReceived = s.peerFinReceived

\* A step that takes no new byte.
LEMMA NoByteTaken ==
    ASSUME NEW s \in Socket, NEW s2 \in Socket,
           s.sndUna <= s2.sndUna,
           s.finSeq >= 0 => s2.finSeq = s.finSeq /\ s2.sndNxt = s.sndNxt,
           s2.rcvNxt = s.rcvNxt, Len(s2.recvBuf) <= Len(s.recvBuf)
    PROVE  Moves(s, s2)
PROOF
    <1>1. /\ s.rcvNxt \in Nat /\ s.recvBuf \in Seq(Byte) /\ s2.recvBuf \in Seq(Byte)
          /\ RECV_BUF_CAP \in Nat
        BY SocketFields, SocketConstants DEF SocketConstants
    <1>2. Len(s.recvBuf) \in Nat /\ Len(s2.recvBuf) \in Nat
        BY <1>1, LenProperties
    <1>3. s.rcvNxt + getRecvBufAvailable(s) <= s2.rcvNxt + getRecvBufAvailable(s2)
        BY <1>1, <1>2 DEF getRecvBufAvailable
    <1> QED  BY <1>1, <1>3 DEF Moves

\* The client's part of EndStep, when its sending half does not change.
LEMMA SameSenderEnd ==
    ASSUME Upload, NEW s2 \in Socket, SameSender(sock[Client], s2),
           sock[Client].rcvNxt <= s2.rcvNxt,
           sock[Client].peerFinReceived => s2.peerFinReceived
    PROVE  /\ SenderForward(sock[Client], s2)
           /\ \E u \in receivers(Client) : s2.sndUna <= u.rcvNxt
           /\ ~established[Client] => /\ s2.finSeq >= 0
                                      /\ \E u \in receivers(Client) : u.peerFinReceived
PROOF
    <1>1. Client \in Ends
        BY ReceiversAreChildren
    <1>2. /\ sock[Client] \in Socket /\ WindowOK(sock[Client])
          /\ \E u \in receivers(Client) : sock[Client].sndUna <= u.rcvNxt
          /\ ~established[Client] => /\ sock[Client].finSeq >= 0
                                     /\ \E u \in receivers(Client) : u.peerFinReceived
        BY <1>1, UploadParts
    <1>3. Advance(sock[Client], s2) /\ WindowOK(s2)
        BY <1>2, SameSenderAdvance
    <1>4. s2.sndUna = sock[Client].sndUna /\ s2.finSeq = sock[Client].finSeq
        BY DEF SameSender
    <1>5. Boundary(sock[Client], s2.sndUna)
        BY <1>2, <1>4, WindowBoundaries
    <1> QED  BY <1>2, <1>3, <1>4, <1>5 DEF SenderForward

\* The server's part of EndStep, when its receiving half does not change.
LEMMA SameReceiverEnd ==
    ASSUME Upload, NEW t2 \in Socket, SameReceiver(sock[Server], t2)
    PROVE  /\ Carries(sock[Server], t2)
           /\ InTable(sock[Client], t2, got[Server])
PROOF
    <1>1. sock[Server] \in Socket /\ InTable(sock[Client], sock[Server], got[Server])
        BY UploadParts, ReceiversAreChildren
    <1>2. sock[Server].rcvNxt \in Nat
        BY <1>1, SocketFields
    <1>3. /\ t2.rcvNxt = sock[Server].rcvNxt /\ t2.recvBuf = sock[Server].recvBuf
          /\ t2.peerFinReceived = sock[Server].peerFinReceived
        BY DEF SameReceiver
    <1>4. ReadOK(sock[Server], got[Server])
        BY <1>1 DEF InTable, ChildOK
    <1>5. ReadOK(t2, got[Server])
        BY <1>3, <1>4 DEF ReadOK
    <1>6. Carries(sock[Server], t2)
        BY <1>2, <1>3 DEF Carries
    <1> QED  BY <1>1, <1>3, <1>5, <1>6 DEF InTable, ChildOK

\* A step of e that changes neither half of its socket.
LEMMA StillEnd ==
    ASSUME Upload, NEW e \in Ends, NEW s2 \in Socket,
           sock' = [sock EXCEPT ![e] = s2], replaced' = replaced,
           SameSender(sock[e], s2), SameReceiver(sock[e], s2),
           established' = established, got' = got, pos' = pos,
           accepted' \in [Ends -> BOOLEAN], accepted'[Peer(e)] = accepted[Peer(e)],
           losses' \in 0 .. MaxLoss,
           SideOK(e)', UploadNet
    PROVE  UploadKept
PROOF
    <1> DEFINE s == sock[e]
    <1>1. /\ s \in Socket /\ Len(s.recvBuf) <= RECV_BUF_CAP
          /\ got \in [Ends -> Seq(Byte)] /\ pos \in [Ends -> Nat]
          /\ established \in [Ends -> BOOLEAN]
        BY UploadParts
    <1>2. /\ s2.sndUna = s.sndUna /\ s2.sndNxt = s.sndNxt /\ s2.finSeq = s.finSeq
          /\ s2.rcvNxt = s.rcvNxt /\ s2.recvBuf = s.recvBuf
          /\ s2.peerFinReceived = s.peerFinReceived
        BY DEF SameSender, SameReceiver
    <1>3. Moves(s, s2) /\ s.rcvNxt <= s2.rcvNxt
        <2>1. s.sndUna \in Nat /\ s.rcvNxt \in Nat /\ Len(s.recvBuf) \in Nat
            BY <1>1, SocketFields, LenProperties
        <2>2. s.sndUna <= s2.sndUna /\ Len(s2.recvBuf) <= Len(s.recvBuf) /\ s.rcvNxt <= s2.rcvNxt
            BY <1>2, <2>1
        <2> QED  BY <1>1, <1>2, <2>2, NoByteTaken
    <1>4. e = Client =>
                /\ SenderForward(sock[Client], s2)
                /\ \E u \in receivers(Client) : s2.sndUna <= u.rcvNxt
                /\ ~established[Client] => /\ s2.finSeq >= 0
                                           /\ \E u \in receivers(Client) : u.peerFinReceived
        BY <1>2, <1>3, SameSenderEnd
    <1>5. e = Server =>
                /\ Carries(sock[Server], s2)
                /\ InTable(sock[Client], s2, got[Server])
        BY SameReceiverEnd
    <1>6. Len(s2.recvBuf) <= RECV_BUF_CAP
        BY <1>1, <1>2
    <1> QED  BY <1>1, <1>3, <1>4, <1>5, <1>6, EndStep

\* A step of the network alone.
LEMMA NetOnlyEnd ==
    ASSUME Upload, sock' = sock, replaced' = replaced, established' = established,
           accepted' = accepted, got' = got, pos' = pos, losses' \in 0 .. MaxLoss,
           UploadNet
    PROVE  UploadKept
PROOF
    <1>1. /\ Client \in Ends /\ sock \in [Ends -> Socket] /\ sock[Client] \in Socket
          /\ accepted \in [Ends -> BOOLEAN] /\ SideOK(Client)
        BY UploadParts, ReceiversAreChildren
    <1>2. sock' = [sock EXCEPT ![Client] = sock[Client]]
        BY <1>1
    <1>3. SameSender(sock[Client], sock[Client]) /\ SameReceiver(sock[Client], sock[Client])
        BY DEF SameSender, SameReceiver
    <1>4. SideOK(Client)'
        BY <1>1 DEF SideOK
    <1> QED  BY <1>1, <1>2, <1>3, <1>4, StillEnd

\* The network of Upload.
LEMMA UploadSends ==
    ASSUME Upload, NEW e \in Ends, NEW pkts \in Seq(Packet),
           \A k \in 1 .. Len(pkts) : UploadPkt(e, pkts[k]),
           Send(e, pkts) \/ \E i \in 1 .. Len(net[e]) : Reply(e, i, pkts)
    PROVE  UploadNet
PROOF
    <1>1. net \in [Ends -> Seq(Packet)] /\ \A x \in Ends : Len(net[x]) <= LinkBuf
        BY UploadParts
    <1>2. Delivers(e, pkts)
        BY <1>1, SendDelivers, ReplyDelivers
    <1> QED  BY <1>2, DeliveredUpload

\* A step that at most takes a packet out of the network.
LEMMA UploadQuiet ==
    ASSUME Upload, NEW e \in Ends,
           net' = net \/ \E i \in 1 .. Len(net[e]) : Reply(e, i, <<>>)
    PROVE  UploadNet
PROOF
    <1> DEFINE none == <<>>
    <1>1. net \in [Ends -> Seq(Packet)] /\ \A x \in Ends : Len(net[x]) <= LinkBuf
        BY UploadParts
    <1>2. Delivers(e, none)
        BY <1>1, NothingDelivered
    <1>3. \A k \in 1 .. Len(none) : UploadPkt(e, none[k])
        OBVIOUS
    <1> HIDE DEF none
    <1> QED  BY <1>2, <1>3, DeliveredUpload

-----------------------------------------------------------------------------
(* The actions, one by one. *)

\* accept() reopens a child whose peer has finished; it has sent no FIN itself.
LEMMA AcceptKeepsUpload ==
    ASSUME Upload, NEW e \in Ends, AppAccept(e)
    PROVE  UploadKept
PROOF
    <1> DEFINE s == sock[e]
               st == IF s.state = "CLOSED" THEN "CLOSED" ELSE "ESTABLISHED"
               s2 == [s EXCEPT !.state = st]
    <1>1. /\ s \in Socket /\ SideOK(e) /\ sock \in [Ends -> Socket]
          /\ accepted \in [Ends -> BOOLEAN] /\ losses \in 0 .. MaxLoss
        BY UploadParts
    <1>2. sock' = [sock EXCEPT ![e] = s2] /\ ~accepted[e]
          /\ accepted' = [accepted EXCEPT ![e] = TRUE]
          /\ replaced' = replaced /\ established' = established /\ net' = net
          /\ pos' = pos /\ got' = got /\ losses' = losses
        BY <1>1 DEF AppAccept
    <1>3. st \in States /\ (st = "CLOSED" <=> s.state = "CLOSED")
        BY DEF States
    <1> HIDE DEF st
    <1>4. /\ s2 \in Socket /\ s2.state = st /\ SameSender(s, s2) /\ SameReceiver(s, s2)
        BY <1>1, <1>3, StateOK DEF SameReceiver
    <1> HIDE DEF s2
    <1>5. s2.finSeq = s.finSeq /\ s2.sndNxt = s.sndNxt
        BY <1>4 DEF SameSender
    <1>6. FinOK(s2)
        <2>1. s.finSeq < 0 /\ s.finSeq \in Nat \cup {-1}
            BY <1>1, <1>2, SocketFields DEF SideOK
        <2> QED  BY <1>5, <2>1 DEF FinOK
    <1>7. Peer(e) # e /\ Peer(e) \in Ends
        BY EndsPeer
    <1>8. /\ sock'[e] = s2 /\ accepted'[e] = TRUE /\ accepted' \in [Ends -> BOOLEAN]
          /\ accepted'[Peer(e)] = accepted[Peer(e)]
        BY <1>1, <1>2, <1>7
    <1>9. SideOK(e)'
        BY <1>1, <1>2, <1>3, <1>4, <1>5, <1>6, <1>8 DEF SideOK
    <1>10. UploadNet
        BY <1>2, UploadQuiet
    <1> QED  BY <1>1, <1>2, <1>4, <1>8, <1>9, <1>10, StillEnd

\* The upload's view of write(): the client's goes on, the server's is not its own.
LEMMA WriteKeepsUpload ==
    ASSUME Upload, NEW e \in Ends, NEW len, AppWrite(e, len)
    PROVE  UploadKept
PROOF
    <1> DEFINE s == sock[e]
               bytes == nextBytes(e, len)
               n == writable(s, len)
               s2 == write(s, bytes)
               segs == written(s, bytes)
    <1>1. /\ s \in Socket /\ SideOK(e) /\ FinOK(s) /\ sock \in [Ends -> Socket]
          /\ accepted \in [Ends -> BOOLEAN] /\ losses \in 0 .. MaxLoss
          /\ established \in [Ends -> BOOLEAN] /\ pos \in [Ends -> Nat] /\ pos[e] \in Nat
          /\ got \in [Ends -> Seq(Byte)] /\ Len(s.recvBuf) <= RECV_BUF_CAP
        BY UploadParts
    <1>2. /\ sock' = [sock EXCEPT ![e] = s2] /\ accepted[e] /\ s.state = "ESTABLISHED"
          /\ pos' = [pos EXCEPT ![e] = pos[e] + n]
          /\ Send(e, dataPkts(segs)) /\ n > 0
          /\ replaced' = replaced /\ established' = established /\ accepted' = accepted
          /\ got' = got /\ losses' = losses
        BY <1>1 DEF AppWrite
    <1>3. len \in Nat
        <2>1. Amount[e] \in Nat
            BY StreamConstants DEF StreamConstants
        <2> QED  BY <1>1, <2>1 DEF AppWrite
    <1>4. s.finSeq < 0 /\ ~(s.finSeq >= 0)
        BY <1>1, <1>2, NotFinished
    <1>5. /\ bytes \in Seq(Byte) /\ Len(bytes) = len
          /\ \A k \in 1 .. Len(bytes) : bytes[k] = s.sndNxt + k - 1
        <2>1. pos[e] = s.sndNxt - 1 /\ s.sndNxt \in Nat
            BY <1>1, SocketFields DEF SideOK
        <2>2. bytes = [k \in 1 .. len |-> pos[e] + k]
            BY DEF nextBytes
        <2> HIDE DEF bytes
        <2>3. \A k \in 1 .. len : pos[e] + k \in Byte
            BY <1>1 DEF Byte
        <2>4. bytes \in Seq(Byte) /\ Len(bytes) = len
            BY <1>3, <2>2, <2>3
        <2>5. \A k \in 1 .. len : bytes[k] = s.sndNxt + k - 1
            BY <2>1, <2>2
        <2> QED  BY <2>4, <2>5
    <1> HIDE DEF bytes
    <1>6. /\ writable(s, Len(bytes)) \in Nat
          /\ s2 \in Socket /\ Advance(s, s2) /\ (WindowOK(s) => WindowOK(s2))
          /\ s2.sndUna = s.sndUna
          /\ s2.sndNxt = s.sndNxt + writable(s, Len(bytes))
          /\ s2.rcvNxt = s.rcvNxt /\ s2.recvBuf = s.recvBuf
          /\ s2.peerFinReceived = s.peerFinReceived
          /\ s2.finSeq = s.finSeq /\ s2.state = s.state
          /\ segs \in Seq(Segment)
          /\ \A j \in 1 .. Len(segs) :
                /\ Numbered(segs[j].seqStart, segs[j].data)
                /\ segEnd(segs[j]) <= s2.sndNxt
                /\ \E k \in DOMAIN s2.outstanding : s2.outstanding[k] = segs[j]
        BY <1>1, <1>2, <1>4, <1>5, WriteOK
    <1>7. n \in Nat /\ s2.sndNxt = s.sndNxt + n
        BY <1>5, <1>6
    <1> HIDE DEF s2, segs, n
    <1>8. /\ Peer(e) # e /\ Peer(e) \in Ends /\ Client \in Ends /\ Server \in Ends
          /\ Client # Server /\ Ends = {Client, Server}
        BY EndsPeer, ReceiversAreChildren
    <1>9. sock'[e] = s2
        BY <1>1, <1>2
    <1>10. /\ pos' \in [Ends -> Nat] /\ pos'[Peer(e)] = pos[Peer(e)]
           /\ pos'[e] = s2.sndNxt - 1
        <2>1. pos[e] + n \in Nat /\ pos[e] + n = s2.sndNxt - 1
            <3>1. s.sndNxt \in Nat /\ pos[e] = s.sndNxt - 1
                BY <1>1, SocketFields DEF SideOK
            <3> QED  BY <1>1, <1>7, <3>1
        <2> QED  BY <1>1, <1>2, <1>8, <2>1
    <1>11. SideOK(e)'
        <2>1. FinOK(s2)
            BY <1>4, <1>6 DEF FinOK
        <2> QED  BY <1>1, <1>2, <1>6, <1>9, <1>10, <2>1 DEF SideOK
    <1>12. Moves(s, s2)
        <2>1. s.sndUna \in Nat /\ Len(s.recvBuf) \in Nat
            BY <1>1, SocketFields, LenProperties
        <2>2. s.sndUna <= s2.sndUna /\ Len(s2.recvBuf) <= Len(s.recvBuf)
            BY <1>6, <2>1
        <2> QED  BY <1>1, <1>4, <1>6, <2>2, NoByteTaken
    <1>13. CASE e = Client
        <2>1. WindowOK(s) /\ \E u \in receivers(Client) : s.sndUna <= u.rcvNxt
            BY <1>13, UploadParts
        <2>2. WindowOK(s2) /\ Boundary(s, s2.sndUna)
            BY <1>1, <1>6, <2>1, WindowBoundaries
        <2>3. SenderForward(s, s2) /\ \E u \in receivers(Client) : s2.sndUna <= u.rcvNxt
            BY <1>6, <2>1, <2>2 DEF SenderForward
        <2>4. established[Client]
            <3>1. ~established[Client] => sock[Client].finSeq >= 0
                BY UploadParts
            <3> QED  BY <1>4, <1>13, <3>1
        <2>5. /\ dataPkts(segs) \in Seq(Packet)
              /\ \A j \in 1 .. Len(dataPkts(segs)) : UploadPkt(Client, dataPkts(segs)[j])
            BY <1>6, <1>9, <1>13, <2>2, ClientDataOK
        <2>6. UploadNet
            BY <1>2, <1>13, <2>5, UploadSends
        <2> QED  BY <1>1, <1>2, <1>6, <1>8, <1>10, <1>11, <1>12, <1>13, <2>3, <2>4, <2>6, EndStep
    <1>14. CASE e = Server
        <2>1. Carries(sock[Server], s2) /\ InTable(sock[Client], s2, got[Server])
            BY <1>6, <1>14, SameReceiverEnd DEF SameReceiver
        <2>2. /\ dataPkts(segs) \in Seq(Packet)
              /\ \A j \in 1 .. Len(dataPkts(segs)) : dataPkts(segs)[j].type = "DATA"
            BY <1>6, DataPktsTypes
        <2>3. \A j \in 1 .. Len(dataPkts(segs)) : UploadPkt(e, dataPkts(segs)[j])
            BY <1>14, <2>2, HarmlessPkts
        <2>4. UploadNet
            BY <1>2, <2>2, <2>3, UploadSends
        <2> QED  BY <1>1, <1>2, <1>6, <1>8, <1>10, <1>11, <1>12, <1>14, <2>1, <2>4, EndStep
    <1> QED  BY <1>8, <1>13, <1>14

\* close() may send the FIN, behind everything that was sent.
LEMMA CloseKeepsUpload ==
    ASSUME Upload, NEW e \in Ends, AppClose(e)
    PROVE  UploadKept
PROOF
    <1> DEFINE s == sock[e]
               s1 == [s EXCEPT !.state = "SHUTDOWN"]
               s2 == maybeSendFinOnDrain(s1)
    <1>1. /\ s \in Socket /\ SideOK(e) /\ FinOK(s) /\ sock \in [Ends -> Socket]
          /\ accepted \in [Ends -> BOOLEAN] /\ losses \in 0 .. MaxLoss
          /\ established \in [Ends -> BOOLEAN] /\ pos \in [Ends -> Nat]
          /\ got \in [Ends -> Seq(Byte)] /\ Len(s.recvBuf) <= RECV_BUF_CAP
          /\ established[e] \in BOOLEAN
        BY UploadParts
    <1>2. /\ sock' = [sock EXCEPT ![e] = s2] /\ Send(e, finPkts(s1))
          /\ accepted[e] /\ s.state = "ESTABLISHED"
          /\ replaced' = replaced /\ established' = established /\ accepted' = accepted
          /\ got' = got /\ losses' = losses /\ pos' = pos
        BY <1>1 DEF AppClose
    <1>3. /\ s1 \in Socket /\ s1.state = "SHUTDOWN" /\ SameSender(s, s1)
          /\ s1.rcvNxt = s.rcvNxt /\ s1.recvBuf = s.recvBuf
          /\ s1.peerFinReceived = s.peerFinReceived
          /\ Advance(s, s1) /\ (WindowOK(s) => WindowOK(s1))
        <2>1. "SHUTDOWN" \in States
            BY DEF States
        <2> QED  BY <1>1, <2>1, StateOK
    <1> HIDE DEF s1
    <1>4. FinOK(s1) /\ ~(s.finSeq >= 0)
        BY <1>1, <1>2, <1>3, NotFinished DEF FinOK, SameSender
    <1>5. /\ s2 \in Socket
          /\ Advance(s1, s2) /\ (WindowOK(s1) => WindowOK(s2)) /\ FinOK(s2)
          /\ s2.sndUna = s1.sndUna /\ s2.sndNxt = s1.sndNxt
          /\ s2.rcvNxt = s1.rcvNxt /\ s2.recvBuf = s1.recvBuf
          /\ s2.peerFinReceived = s1.peerFinReceived
          /\ s2.state = s1.state
          /\ finPkts(s1) \in Seq(Packet)
          /\ \A k \in 1 .. Len(finPkts(s1)) :
                /\ finPkts(s1)[k].type = "FIN"
                /\ finPkts(s1)[k].seq = s2.finSeq
                /\ s2.finSeq >= 0
        BY <1>3, <1>4, FinOnDrainOK
    <1> HIDE DEF s2
    <1>6. /\ s2.sndUna = s.sndUna /\ s2.sndNxt = s.sndNxt /\ s2.rcvNxt = s.rcvNxt
          /\ s2.recvBuf = s.recvBuf /\ s2.peerFinReceived = s.peerFinReceived
          /\ s2.state = "SHUTDOWN" /\ Advance(s, s2)
        BY <1>1, <1>3, <1>5, AdvanceTrans DEF SameSender
    <1>7. /\ Peer(e) # e /\ Peer(e) \in Ends /\ Client \in Ends /\ Server \in Ends
          /\ Client # Server /\ Ends = {Client, Server}
        BY EndsPeer, ReceiversAreChildren
    <1>8. sock'[e] = s2 /\ established[e]
        BY <1>1, <1>2 DEF SideOK
    <1>9. SideOK(e)'
        BY <1>1, <1>2, <1>5, <1>6, <1>8 DEF SideOK
    <1>10. Moves(s, s2)
        <2>1. s.sndUna \in Nat /\ Len(s.recvBuf) \in Nat
            BY <1>1, SocketFields, LenProperties
        <2>2. s.sndUna <= s2.sndUna /\ Len(s2.recvBuf) <= Len(s.recvBuf)
            BY <1>6, <2>1
        <2> QED  BY <1>1, <1>4, <1>5, <1>6, <2>2, NoByteTaken
    <1>11. Len(s2.recvBuf) <= RECV_BUF_CAP
        BY <1>1, <1>6
    <1>12. CASE e = Client
        <2>1. WindowOK(s) /\ \E u \in receivers(Client) : s.sndUna <= u.rcvNxt
            BY <1>12, UploadParts
        <2>2. WindowOK(s2) /\ Boundary(s, s2.sndUna)
            BY <1>1, <1>3, <1>5, <1>6, <2>1, WindowBoundaries
        <2>3. SenderForward(s, s2) /\ \E u \in receivers(Client) : s2.sndUna <= u.rcvNxt
            BY <1>6, <2>1, <2>2 DEF SenderForward
        <2>4. \A k \in 1 .. Len(finPkts(s1)) : UploadPkt(e, finPkts(s1)[k])
            BY <1>5, <1>7, <1>8, <1>12 DEF UploadPkt, ToServerOK
        <2>5. UploadNet
            BY <1>2, <1>5, <2>4, UploadSends
        <2> QED  BY <1>1, <1>2, <1>5, <1>7, <1>8, <1>9, <1>10, <1>11, <1>12, <2>3, <2>5, EndStep
    <1>13. CASE e = Server
        <2>1. Carries(sock[Server], s2) /\ InTable(sock[Client], s2, got[Server])
            BY <1>5, <1>6, <1>13, SameReceiverEnd DEF SameReceiver
        <2>2. \A k \in 1 .. Len(finPkts(s1)) : UploadPkt(e, finPkts(s1)[k])
            BY <1>5, <1>13, HarmlessPkts
        <2>3. UploadNet
            BY <1>2, <1>5, <2>2, UploadSends
        <2> QED  BY <1>1, <1>2, <1>5, <1>7, <1>9, <1>10, <1>11, <1>13, <2>1, <2>3, EndStep
    <1> QED  BY <1>7, <1>12, <1>13

\* read() moves bytes from the buffer to the application and sends nothing.
LEMMA ReadKeepsUpload ==
    ASSUME Upload, NEW e \in Ends, NEW len, AppRead(e, len)
    PROVE  UploadKept
PROOF
    <1> DEFINE s == sock[e]
               s2 == read(s, len)
               g2 == got[e] \o SubSeq(s.recvBuf, 1, min(len, Len(s.recvBuf)))
    <1>1. /\ s \in Socket /\ SideOK(e) /\ FinOK(s) /\ sock \in [Ends -> Socket]
          /\ accepted \in [Ends -> BOOLEAN] /\ losses \in 0 .. MaxLoss
          /\ established \in [Ends -> BOOLEAN] /\ pos \in [Ends -> Nat]
          /\ got \in [Ends -> Seq(Byte)] /\ Len(s.recvBuf) <= RECV_BUF_CAP
          /\ established[e] \in BOOLEAN /\ got[e] \in Seq(Byte)
        BY UploadParts
    <1>2. /\ sock' = [sock EXCEPT ![e] = s2] /\ got' = [got EXCEPT ![e] = g2]
          /\ accepted[e] /\ s.state \in {"ESTABLISHED", "SHUTDOWN"} /\ len \in Nat
          /\ replaced' = replaced /\ established' = established /\ accepted' = accepted
          /\ net' = net /\ losses' = losses /\ pos' = pos
        BY <1>1, StreamConstants DEF AppRead, isOpen, StreamConstants
    <1>3. /\ s2 \in Socket /\ SameSender(s, s2)
          /\ s2.rcvNxt = s.rcvNxt
          /\ s2.peerFinReceived = s.peerFinReceived
          /\ Len(s2.recvBuf) <= Len(s.recvBuf)
          /\ s2.state \in {s.state, "CLOSED"}
          /\ g2 \in Seq(Byte) /\ (ReadOK(s, got[e]) => ReadOK(s2, g2))
        BY <1>1, <1>2, ReadMethodOK
    <1> HIDE DEF s2, g2
    <1>4. /\ s2.finSeq = s.finSeq /\ s2.sndUna = s.sndUna /\ s2.sndNxt = s.sndNxt
          /\ s2.outstanding = s.outstanding
        BY <1>3 DEF SameSender
    <1>5. /\ Peer(e) # e /\ Peer(e) \in Ends /\ Client \in Ends /\ Server \in Ends
          /\ Client # Server /\ Ends = {Client, Server}
        BY EndsPeer, ReceiversAreChildren
    <1>6. /\ sock'[e] = s2 /\ got'[e] = g2 /\ got'[Peer(e)] = got[Peer(e)]
          /\ got' \in [Ends -> Seq(Byte)]
        BY <1>1, <1>2, <1>3, <1>5
    <1>7. FinOK(s2)
        BY <1>1, <1>3, <1>4 DEF FinOK
    <1>8. established[e]
        BY <1>1, <1>2 DEF SideOK
    <1>9. SideOK(e)'
        BY <1>1, <1>2, <1>4, <1>6, <1>7, <1>8 DEF SideOK
    <1>10. /\ s.rcvNxt \in Nat /\ s.sndUna \in Nat /\ Len(s.recvBuf) \in Nat
           /\ Len(s2.recvBuf) \in Nat /\ RECV_BUF_CAP \in Nat
        BY <1>1, <1>3, SocketFields, LenProperties, SocketConstants DEF SocketConstants
    <1>11. Moves(s, s2)
        <2>1. s.sndUna <= s2.sndUna
            BY <1>4, <1>10
        <2> QED  BY <1>1, <1>3, <1>4, <2>1, NoByteTaken
    <1>12. Len(s2.recvBuf) <= RECV_BUF_CAP /\ s.rcvNxt <= s2.rcvNxt
        BY <1>1, <1>3, <1>10
    <1>13. UploadNet
        BY <1>2, UploadQuiet
    <1>14. CASE e = Client
        <2>1. /\ SenderForward(sock[Client], s2)
              /\ \E u \in receivers(Client) : s2.sndUna <= u.rcvNxt
            BY <1>3, <1>12, <1>14, SameSenderEnd
        <2> QED  BY <1>1, <1>2, <1>3, <1>5, <1>6, <1>8, <1>9, <1>11, <1>12, <1>13, <1>14, <2>1, EndStep
    <1>15. CASE e = Server
        <2>1. InTable(sock[Client], sock[Server], got[Server])
            BY UploadParts
        <2>2. ReadOK(s2, g2)
            BY <1>3, <1>15, <2>1 DEF InTable, ChildOK
        <2>3. Carries(sock[Server], s2) /\ InTable(sock[Client], s2, g2)
            BY <1>3, <1>12, <1>15, <2>1, <2>2 DEF InTable, ChildOK, Carries
        <2> QED  BY <1>1, <1>2, <1>3, <1>5, <1>6, <1>9, <1>11, <1>12, <1>13, <1>15, <2>3, EndStep
    <1> QED  BY <1>5, <1>14, <1>15

\* The number behind the client's FIN is acknowledged only by a child that has
\* seen the FIN.
LEMMA AckOfFinKeepsUpload ==
    ASSUME Upload, NEW e \in Ends, NEW i, onAckOfFin(e, i)
    PROVE  UploadKept
PROOF
    <1> DEFINE s == sock[e]
               s2 == markClosed(s)
    <1>1. /\ s \in Socket /\ SideOK(e) /\ FinOK(s) /\ sock \in [Ends -> Socket]
          /\ accepted \in [Ends -> BOOLEAN] /\ losses \in 0 .. MaxLoss
          /\ established \in [Ends -> BOOLEAN] /\ pos \in [Ends -> Nat]
          /\ got \in [Ends -> Seq(Byte)] /\ Len(s.recvBuf) <= RECV_BUF_CAP
        BY UploadParts
    <1>2. /\ sock' = [sock EXCEPT ![e] = s2] /\ established' = [established EXCEPT ![e] = FALSE]
          /\ i \in 1 .. Len(net[e]) /\ net[e][i].type = "ACK" /\ Reply(e, i, <<>>)
          /\ s.finSeq >= 0 /\ net[e][i].seq = s.finSeq + 1
          /\ replaced' = replaced /\ accepted' = accepted
          /\ got' = got /\ losses' = losses /\ pos' = pos
        BY <1>1 DEF onAckOfFin, Arriving, acksFin
    <1>3. /\ s2 \in Socket /\ s2.state = "CLOSED" /\ SameSender(s, s2)
          /\ s2.rcvNxt = s.rcvNxt /\ s2.recvBuf = s.recvBuf
          /\ s2.peerFinReceived = s.peerFinReceived
        <2>1. "CLOSED" \in States
            BY DEF States
        <2> QED  BY <1>1, <2>1, StateOK DEF markClosed
    <1> HIDE DEF s2
    <1>4. /\ s2.finSeq = s.finSeq /\ s2.sndUna = s.sndUna /\ s2.sndNxt = s.sndNxt
          /\ s2.outstanding = s.outstanding
        BY <1>3 DEF SameSender
    <1>5. /\ Peer(e) # e /\ Peer(e) \in Ends /\ Client \in Ends /\ Server \in Ends
          /\ Client # Server /\ Ends = {Client, Server}
        BY EndsPeer, ReceiversAreChildren
    <1>6. /\ sock'[e] = s2 /\ established'[e] = FALSE
          /\ established'[Peer(e)] = established[Peer(e)]
          /\ established' \in [Ends -> BOOLEAN]
        BY <1>1, <1>2, <1>5
    <1>7. FinOK(s2)
        BY <1>1, <1>3, <1>4 DEF FinOK
    <1>8. SideOK(e)'
        BY <1>1, <1>2, <1>3, <1>4, <1>6, <1>7 DEF SideOK
    <1>9. s.rcvNxt \in Nat /\ s.sndUna \in Nat /\ Len(s.recvBuf) \in Nat /\ s.sndNxt \in Nat
        BY <1>1, SocketFields, LenProperties
    <1>10. Moves(s, s2)
        <2>1. s.sndUna <= s2.sndUna /\ Len(s2.recvBuf) <= Len(s.recvBuf)
            BY <1>3, <1>4, <1>9
        <2> QED  BY <1>1, <1>3, <1>4, <2>1, NoByteTaken
    <1>11. Len(s2.recvBuf) <= RECV_BUF_CAP /\ s.rcvNxt <= s2.rcvNxt
        BY <1>1, <1>3, <1>9
    <1>12. UploadNet
        BY <1>2, UploadQuiet
    <1>13. CASE e = Client
        <2>1. /\ SenderForward(sock[Client], s2)
              /\ \E u \in receivers(Client) : s2.sndUna <= u.rcvNxt
            BY <1>3, <1>11, <1>13, SameSenderEnd
        <2>2. WindowOK(s) /\ ToClientOK(s, receivers(Client), net[e][i])
            BY <1>2, <1>13, UploadParts
        <2>3. s.finSeq = s.sndNxt /\ s.outstanding = <<>> /\ s.sndUna = s.sndNxt
            BY <1>1, <1>2, <2>2 DEF FinOK, WindowOK
        <2>4. AckedBy(s, receivers(Client), net[e][i])
            BY <1>2, <2>2 DEF ToClientOK
        <2>5. ~Boundary(s, net[e][i].seq)
            BY <1>2, <1>9, <2>3 DEF Boundary
        <2>6. \E u \in receivers(Client) : u.peerFinReceived
            BY <1>2, <1>9, <2>3, <2>4, <2>5 DEF AckedBy
        <2> QED  BY <1>1, <1>2, <1>3, <1>4, <1>5, <1>6, <1>8, <1>10, <1>11, <1>12, <1>13,
                    <2>1, <2>6, EndStep
    <1>14. CASE e = Server
        <2>1. Carries(sock[Server], s2) /\ InTable(sock[Client], s2, got[Server])
            BY <1>3, <1>14, SameReceiverEnd DEF SameReceiver
        <2> QED  BY <1>1, <1>2, <1>3, <1>5, <1>6, <1>8, <1>10, <1>11, <1>12, <1>14, <2>1, EndStep
    <1> QED  BY <1>5, <1>13, <1>14

\* An acknowledgement of new bytes of the client's stream names a boundary that
\* some child has reached.
LEMMA AckOfNewKeepsUpload ==
    ASSUME Upload, NEW e \in Ends, NEW i, onAckOfNew(e, i)
    PROVE  UploadKept
PROOF
    <1> DEFINE s == sock[e]
               n == net[e][i].seq
               w == net[e][i].window
               s1 == acked(s, n, w)
               s2 == maybeSendFinOnDrain(s1)
    <1>1. /\ s \in Socket /\ SideOK(e) /\ FinOK(s) /\ sock \in [Ends -> Socket]
          /\ accepted \in [Ends -> BOOLEAN] /\ losses \in 0 .. MaxLoss
          /\ established \in [Ends -> BOOLEAN] /\ pos \in [Ends -> Nat]
          /\ got \in [Ends -> Seq(Byte)] /\ Len(s.recvBuf) <= RECV_BUF_CAP
        BY UploadParts
    <1>2. /\ sock' = [sock EXCEPT ![e] = s2] /\ Reply(e, i, finPkts(s1))
          /\ i \in 1 .. Len(net[e]) /\ net[e][i].type = "ACK"
          /\ s.sndUna < n /\ n <= s.sndNxt /\ established[e]
          /\ replaced' = replaced /\ established' = established /\ accepted' = accepted
          /\ got' = got /\ losses' = losses /\ pos' = pos
        BY <1>1 DEF onAckOfNew, Arriving, acksNew
    <1>3. n \in Nat /\ w \in Nat
        <2>1. net[e][i] \in Packet
            BY <1>2, UploadParts
        <2> QED  BY <2>1 DEF Packet
    <1>4. e = Client => /\ WindowOK(s)
                        /\ Boundary(s, n)
                        /\ \E u \in receivers(Client) : n <= u.rcvNxt
        <2> HAVE e = Client
        <2>1. WindowOK(s) /\ ToClientOK(s, receivers(Client), net[e][i])
            BY <1>2, UploadParts
        <2>2. AckedBy(s, receivers(Client), net[e][i])
            BY <1>2, <2>1 DEF ToClientOK
        <2>3. s.finSeq >= 0 => s.finSeq = s.sndNxt
            BY <1>1 DEF FinOK
        <2>4. s.sndNxt \in Nat /\ s.sndUna \in Nat
            BY <1>1, SocketFields
        <2> QED  BY <1>2, <1>3, <2>1, <2>2, <2>3, <2>4 DEF AckedBy
    <1> HIDE DEF n, w
    <1>5. /\ s1 \in Socket /\ FinOK(s1) /\ s1.sndUna = n
          /\ s1.sndNxt = s.sndNxt /\ s1.finSeq = s.finSeq
          /\ s1.rcvNxt = s.rcvNxt /\ s1.recvBuf = s.recvBuf
          /\ s1.peerFinReceived = s.peerFinReceived /\ s1.state = s.state
        <2>1. s \in Socket /\ FinOK(s) /\ n \in Nat /\ w \in Nat
            BY <1>1, <1>3
        <2> HIDE DEF s
        <2> QED  BY <2>1, AckedTypes
    <1>6. e = Client => WindowOK(s1) /\ Advance(s, s1)
        BY <1>1, <1>2, <1>3, <1>4, AckedOK
    <1> HIDE DEF s1
    <1>7. /\ s2 \in Socket
          /\ Advance(s1, s2) /\ (WindowOK(s1) => WindowOK(s2)) /\ FinOK(s2)
          /\ s2.sndUna = s1.sndUna /\ s2.sndNxt = s1.sndNxt
          /\ s2.rcvNxt = s1.rcvNxt /\ s2.recvBuf = s1.recvBuf
          /\ s2.peerFinReceived = s1.peerFinReceived
          /\ s2.state = s1.state
          /\ finPkts(s1) \in Seq(Packet)
          /\ \A k \in 1 .. Len(finPkts(s1)) :
                /\ finPkts(s1)[k].type = "FIN"
                /\ finPkts(s1)[k].seq = s2.finSeq
                /\ s2.finSeq >= 0
        BY <1>5, FinOnDrainOK
    <1> HIDE DEF s2
    <1>8. /\ s2.sndUna = n /\ s2.sndNxt = s.sndNxt /\ s2.rcvNxt = s.rcvNxt
          /\ s2.recvBuf = s.recvBuf /\ s2.peerFinReceived = s.peerFinReceived
          /\ s2.state = s.state
          /\ s.finSeq >= 0 => s2.finSeq = s.finSeq
        BY <1>5, <1>7 DEF Advance
    <1>9. /\ Peer(e) # e /\ Peer(e) \in Ends /\ Client \in Ends /\ Server \in Ends
          /\ Client # Server /\ Ends = {Client, Server}
        BY EndsPeer, ReceiversAreChildren
    <1>10. /\ s.rcvNxt \in Nat /\ s.sndUna \in Nat /\ Len(s.recvBuf) \in Nat
           /\ s.sndNxt \in Nat
        BY <1>1, SocketFields, LenProperties
    <1>11. sock'[e] = s2 /\ accepted[e]
        <2>1. ~accepted[e] => s.sndUna = s.sndNxt
            BY <1>1 DEF SideOK
        <2> QED  BY <1>1, <1>2, <1>3, <1>10, <2>1
    <1>12. SideOK(e)'
        BY <1>1, <1>2, <1>7, <1>8, <1>11 DEF SideOK
    <1>13. Moves(s, s2)
        <2>1. s.sndUna <= s2.sndUna /\ Len(s2.recvBuf) <= Len(s.recvBuf)
            BY <1>2, <1>3, <1>8, <1>10
        <2> QED  BY <1>1, <1>7, <1>8, <2>1, NoByteTaken
    <1>14. Len(s2.recvBuf) <= RECV_BUF_CAP
        BY <1>1, <1>8
    <1>15. CASE e = Client
        <2>1. WindowOK(s2) /\ Advance(s, s2)
            BY <1>1, <1>5, <1>6, <1>7, <1>15, AdvanceTrans
        <2>2. SenderForward(s, s2) /\ \E u \in receivers(Client) : s2.sndUna <= u.rcvNxt
            BY <1>4, <1>8, <1>15, <2>1 DEF SenderForward
        <2>3. \A k \in 1 .. Len(finPkts(s1)) : UploadPkt(e, finPkts(s1)[k])
            BY <1>7, <1>9, <1>11, <1>15 DEF UploadPkt, ToServerOK
        <2>4. UploadNet
            BY <1>2, <1>7, <2>3, UploadSends
        <2> QED  BY <1>1, <1>2, <1>7, <1>9, <1>12, <1>13, <1>14, <1>15, <2>2, <2>4, EndStep
    <1>16. CASE e = Server
        <2>1. Carries(sock[Server], s2) /\ InTable(sock[Client], s2, got[Server])
            BY <1>7, <1>8, <1>16, SameReceiverEnd DEF SameReceiver
        <2>2. \A k \in 1 .. Len(finPkts(s1)) : UploadPkt(e, finPkts(s1)[k])
            BY <1>7, <1>16, HarmlessPkts
        <2>3. UploadNet
            BY <1>2, <1>7, <2>2, UploadSends
        <2> QED  BY <1>1, <1>2, <1>7, <1>9, <1>12, <1>13, <1>14, <1>16, <2>1, <2>3, EndStep
    <1> QED  BY <1>9, <1>15, <1>16

\* A step that changes at most the windows and the timeout of e.
LEMMA StillKeepsUpload ==
    ASSUME Upload, NEW e \in Ends, NEW s2 \in Socket,
           sock' = [sock EXCEPT ![e] = s2], Still(sock[e], s2),
           replaced' = replaced, established' = established, accepted' = accepted,
           got' = got, pos' = pos, losses' = losses, UploadNet
    PROVE  UploadKept
PROOF
    <1>1. /\ sock[e] \in Socket /\ SideOK(e) /\ sock \in [Ends -> Socket]
          /\ accepted \in [Ends -> BOOLEAN] /\ losses \in 0 .. MaxLoss
        BY UploadParts
    <1>2. /\ SameSender(sock[e], s2) /\ SameReceiver(sock[e], s2) /\ s2.state = sock[e].state
        BY DEF Still, SameReceiver
    <1>3. sock'[e] = s2 /\ FinOK(s2)
        BY <1>1, StillOK DEF SideOK
    <1>4. s2.finSeq = sock[e].finSeq /\ s2.sndUna = sock[e].sndUna /\ s2.sndNxt = sock[e].sndNxt
        BY <1>2 DEF SameSender
    <1>5. SideOK(e)'
        BY <1>1, <1>2, <1>3, <1>4 DEF SideOK
    <1> QED  BY <1>1, <1>2, <1>5, StillEnd

\* An acknowledgement of nothing new sets the window only.
LEMMA AckOfOldKeepsUpload ==
    ASSUME Upload, NEW e \in Ends, NEW i, onAckOfOld(e, i)
    PROVE  UploadKept
PROOF
    <1> DEFINE w == net[e][i].window
               s2 == setRwnd(sock[e], w)
    <1>1. /\ i \in 1 .. Len(net[e]) /\ Reply(e, i, <<>>)
          /\ sock' = [sock EXCEPT ![e] = s2] /\ replaced' = replaced
          /\ got' = got /\ pos' = pos /\ established' = established
          /\ accepted' = accepted /\ losses' = losses
        BY DEF onAckOfOld, Arriving
    <1>2. w \in Nat /\ sock[e] \in Socket
        <2>1. net[e][i] \in Packet /\ sock[e] \in Socket
            BY <1>1, UploadParts
        <2> QED  BY <2>1 DEF Packet
    <1> HIDE DEF w
    <1>3. s2 \in Socket /\ Still(sock[e], s2)
        BY <1>2, SetRwndOK
    <1> HIDE DEF s2
    <1>4. UploadNet
        BY <1>1, UploadQuiet
    <1> QED  BY <1>1, <1>3, <1>4, StillKeepsUpload

\* Packets that a closed or forgotten connection takes and drops.
LEMMA IgnoredKeepsUpload ==
    ASSUME Upload, NEW e \in Ends, NEW i,
           onAckIgnored(e, i) \/ onDataDropped(e, i) \/ onFinDropped(e, i)
    PROVE  UploadKept
PROOF
    <1>1. /\ i \in 1 .. Len(net[e]) /\ Reply(e, i, <<>>) /\ replaced' = replaced
          /\ sock' = sock /\ got' = got /\ pos' = pos /\ established' = established
          /\ accepted' = accepted /\ losses' = losses
        BY DEF onAckIgnored, onDataDropped, onFinDropped, Arriving
    <1>2. UploadNet /\ losses \in 0 .. MaxLoss
        BY <1>1, UploadQuiet, UploadParts
    <1> QED  BY <1>1, <1>2, NetOnlyEnd

\* A retransmission sends what is outstanding and nothing else.
LEMMA TickKeepsUpload ==
    ASSUME Upload, NEW e \in Ends, retransmissionTick(e)
    PROVE  UploadKept
PROOF
    <1> DEFINE s == sock[e]
               s2 == multiplicativeDecreaseCwnd(doubleRto(s))
               segs == s.outstanding
    <1>1. s \in Socket /\ sock \in [Ends -> Socket]
        BY UploadParts
    <1>2. /\ sock' = [sock EXCEPT ![e] = s2] /\ Send(e, dataPkts(segs)) /\ replaced' = replaced
          /\ got' = got /\ pos' = pos /\ established' = established
          /\ accepted' = accepted /\ losses' = losses
        BY <1>1 DEF retransmissionTick
    <1>3. s2 \in Socket /\ Still(s, s2)
        BY <1>1, BackOffOK
    <1> HIDE DEF s2
    <1>4. /\ segs \in Seq(Segment) /\ s2.outstanding = segs /\ s2.sndNxt = s.sndNxt
          /\ sock'[e] = s2
        BY <1>1, <1>2, <1>3, SocketFields DEF Still, SameSender
    <1>5. /\ dataPkts(segs) \in Seq(Packet)
          /\ \A j \in 1 .. Len(dataPkts(segs)) : UploadPkt(e, dataPkts(segs)[j])
        <2>1. CASE e = Client
            <3>1. WindowOK(s)
                BY <2>1, UploadParts
            <3>2. WindowOK(s2)
                BY <1>1, <1>3, <3>1, StillOK
            <3>3. \A j \in 1 .. Len(segs) :
                    /\ Numbered(segs[j].seqStart, segs[j].data)
                    /\ segEnd(segs[j]) <= s2.sndNxt
                BY <1>4, <3>1 DEF WindowOK
            <3> HIDE DEF segs
            <3>4. \A j \in 1 .. Len(segs) :
                    \E k \in DOMAIN s2.outstanding : s2.outstanding[k] = segs[j]
                BY <1>4
            <3>5. s2 = sock'[Client]
                BY <1>4, <2>1
            <3>6. /\ dataPkts(segs) \in Seq(Packet)
                  /\ \A j \in 1 .. Len(dataPkts(segs)) : UploadPkt(Client, dataPkts(segs)[j])
                <4>1. s2 \in Socket /\ segs \in Seq(Segment)
                    BY <1>3, <1>4
                <4> QED  BY <4>1, <3>2, <3>3, <3>4, <3>5, ClientDataOK
            <3> QED  BY <2>1, <3>6
        <2>2. CASE e = Server
            BY <1>4, <2>2, DataPktsTypes, HarmlessPkts
        <2> QED  BY <2>1, <2>2, ReceiversAreChildren
    <1>6. UploadNet
        BY <1>2, <1>5, UploadSends
    <1> QED  BY <1>2, <1>3, <1>6, StillKeepsUpload

-----------------------------------------------------------------------------
(* Packets of the stream at the end that takes them. *)

\* A step of e that changes its receiving half only.
LEMMA ReceiveEnd ==
    ASSUME Upload, NEW e \in Ends, NEW s2 \in Socket,
           sock' = [sock EXCEPT ![e] = s2], SameSender(sock[e], s2), FinOK(s2),
           Moves(sock[e], s2), Carries(sock[e], s2), Len(s2.recvBuf) <= RECV_BUF_CAP,
           established[e], replaced' = replaced, established' = established,
           accepted' = accepted, got' = got, pos' = pos, losses' = losses, UploadNet,
           e = Server => InTable(sock[Client], s2, got[Server])
    PROVE  UploadKept
PROOF
    <1>1. /\ sock[e] \in Socket /\ SideOK(e) /\ sock \in [Ends -> Socket]
          /\ accepted \in [Ends -> BOOLEAN] /\ losses \in 0 .. MaxLoss
          /\ established \in [Ends -> BOOLEAN] /\ pos \in [Ends -> Nat]
          /\ got \in [Ends -> Seq(Byte)]
        BY UploadParts
    <1>2. sock'[e] = s2 /\ Peer(e) \in Ends /\ Peer(e) # e
        BY <1>1, EndsPeer
    <1>3. s2.finSeq = sock[e].finSeq /\ s2.sndUna = sock[e].sndUna /\ s2.sndNxt = sock[e].sndNxt
        BY DEF SameSender
    <1>4. SideOK(e)'
        BY <1>1, <1>2, <1>3 DEF SideOK
    <1>5. e = Client => /\ SenderForward(sock[Client], s2)
                        /\ \E u \in receivers(Client) : s2.sndUna <= u.rcvNxt
        BY SameSenderEnd DEF Carries
    <1> QED  BY <1>1, <1>4, <1>5, EndStep

\* Appending to the receive buffer takes as much room as it moves rcvNxt_ on.
LEMMA AppendMoves ==
    ASSUME NEW s \in Socket, NEW d \in Seq(Byte), Len(d) <= getRecvBufAvailable(s)
    PROVE  /\ Moves(s, appendToRecvBuf(s, d))
           /\ Carries(s, appendToRecvBuf(s, d))
           /\ Len(appendToRecvBuf(s, d).recvBuf) <= RECV_BUF_CAP
PROOF
    <1> DEFINE s2 == appendToRecvBuf(s, d)
    <1>1. /\ s2 \in Socket /\ SameSender(s, s2) /\ s2.rcvNxt = s.rcvNxt + Len(d)
          /\ s2.recvBuf = s.recvBuf \o d /\ s2.peerFinReceived = s.peerFinReceived
        BY AppendOK
    <1> HIDE DEF s2
    <1>2. /\ s.recvBuf \in Seq(Byte) /\ s.rcvNxt \in Nat /\ s.sndUna \in Nat
          /\ RECV_BUF_CAP \in Nat
        BY SocketFields, SocketConstants DEF SocketConstants
    <1>3. Len(s.recvBuf) \in Nat /\ Len(d) \in Nat
        BY <1>2, LenProperties
    <1>4. Len(s2.recvBuf) = Len(s.recvBuf) + Len(d)
        BY <1>1, <1>2, ConcatProperties
    <1>5. Len(s2.recvBuf) <= RECV_BUF_CAP
        BY <1>2, <1>3, <1>4 DEF getRecvBufAvailable
    <1>6. s2.rcvNxt + getRecvBufAvailable(s2) = s.rcvNxt + getRecvBufAvailable(s)
        BY <1>1, <1>2, <1>3, <1>4 DEF getRecvBufAvailable
    <1>7. s.rcvNxt + getRecvBufAvailable(s) \in Int
        BY <1>2, <1>3 DEF getRecvBufAvailable
    <1>8. Moves(s, s2)
        BY <1>1, <1>2, <1>3, <1>6, <1>7 DEF Moves, SameSender
    <1>9. Carries(s, s2)
        BY <1>1, <1>2, <1>3 DEF Carries
    <1> QED  BY <1>5, <1>8, <1>9 DEF s2

\* The child in the table acknowledges what it has, which is a boundary or old.
LEMMA ServerAckOK ==
    ASSUME NEW c \in Socket, NEW t \in Socket, NEW taken, InTable(c, t, taken),
           NEW ts, t \in ts, NEW pkt, pkt.type = "ACK", pkt.seq = t.rcvNxt
    PROVE  ToClientOK(c, ts, pkt)
PROOF
    <1>1. c.sndUna \in Nat /\ t.rcvNxt \in Nat
        BY SocketFields
    <1>2. AckedBy(c, ts, pkt)
        BY <1>1 DEF AckedBy, InTable
    <1> QED  BY <1>2 DEF ToClientOK

\* A segment of the client that the child in the table takes ends at a boundary.
LEMMA SegmentInTable ==
    ASSUME NEW c \in Socket, NEW t \in Socket, NEW taken \in Seq(Byte), WindowOK(c),
           InTable(c, t, taken), NEW pkt \in Packet, ToServerOK(c, pkt),
           pkt.type = "DATA", pkt.seq = t.rcvNxt,
           Len(pkt.data) <= getRecvBufAvailable(t)
    PROVE  InTable(c, appendToRecvBuf(t, pkt.data), taken)
PROOF
    <1> DEFINE d == pkt.data
               seg == [seqStart |-> pkt.seq, data |-> d]
               t2 == appendToRecvBuf(t, d)
    <1>1. d \in Seq(Byte) /\ pkt.seq \in Nat
        BY DEF Packet
    <1>2. Len(d) \in Nat /\ c.sndUna \in Nat /\ t.rcvNxt \in Nat
        BY <1>1, LenProperties, SocketFields
    <1>3. /\ Numbered(pkt.seq, d) /\ segEnd(seg) <= c.sndNxt
          /\ pkt.seq >= c.sndUna => \E j \in DOMAIN c.outstanding : c.outstanding[j] = seg
          /\ pkt.seq < c.sndUna => segEnd(seg) <= c.sndUna
        BY DEF ToServerOK, DataOK
    <1>4. ChildOK(c, t, taken) /\ ReadOK(t, taken)
        BY DEF InTable, ChildOK
    <1>5. t2.rcvNxt = t.rcvNxt + Len(d) /\ t2.peerFinReceived = t.peerFinReceived
        BY <1>1, AppendOK
    <1>6. ReadOK(t2, taken)
        BY <1>1, <1>3, <1>4, AppendReadOK
    <1> HIDE DEF t2
    <1>7. segEnd(seg) = t2.rcvNxt /\ t2.rcvNxt \in Nat
        BY <1>2, <1>5 DEF segEnd
    <1>8. ChildOK(c, t2, taken)
        BY <1>3, <1>4, <1>5, <1>6, <1>7 DEF ChildOK
    <1>9. ASSUME t2.rcvNxt >= c.sndUna  PROVE  Boundary(c, t2.rcvNxt)
        <2>1. CASE pkt.seq >= c.sndUna
            <3>1. PICK j \in DOMAIN c.outstanding : c.outstanding[j] = seg
                BY <1>3, <2>1
            <3>2. Boundary(c, segEnd(c.outstanding[j]))
                BY WindowBoundaries
            <3> QED  BY <1>7, <3>1, <3>2
        <2>2. CASE pkt.seq < c.sndUna
            <3>1. t2.rcvNxt = c.sndUna
                BY <1>2, <1>3, <1>7, <1>9, <2>2
            <3> QED  BY <3>1, WindowBoundaries
        <2> QED  BY <1>1, <1>2, <2>1, <2>2
    <1> QED  BY <1>8, <1>9 DEF InTable, t2

\* A segment in order is appended and acknowledged.
LEMMA DataAcceptedKeepsUpload ==
    ASSUME Upload, NEW e \in Ends, NEW i, onDataAccepted(e, i)
    PROVE  UploadKept
PROOF
    <1> DEFINE s == sock[e]
               pkt == net[e][i]
               s2 == appendToRecvBuf(s, pkt.data)
               pkts == <<ackPkt(s2, s2.rcvNxt)>>
    <1>1. /\ s \in Socket /\ FinOK(s) /\ sock \in [Ends -> Socket] /\ got[e] \in Seq(Byte)
        BY UploadParts
    <1>2. /\ sock' = [sock EXCEPT ![e] = s2] /\ Reply(e, i, pkts)
          /\ i \in 1 .. Len(net[e]) /\ pkt.type = "DATA" /\ established[e]
          /\ pkt.seq = s.rcvNxt /\ Len(pkt.data) <= getRecvBufAvailable(s)
          /\ replaced' = replaced /\ established' = established /\ accepted' = accepted
          /\ got' = got /\ losses' = losses /\ pos' = pos
        BY <1>1 DEF onDataAccepted, Arriving, acceptable
    <1>3. pkt \in Packet
        BY <1>2, UploadParts
    <1>4. e = Server => /\ ToServerOK(sock[Client], pkt) /\ WindowOK(sock[Client])
                        /\ InTable(sock[Client], s, got[Server]) /\ sock[Client] \in Socket
        BY <1>2, UploadParts, ReceiversAreChildren
    <1> HIDE DEF pkt
    <1>5. pkt.data \in Seq(Byte)
        BY <1>3 DEF Packet
    <1>6. /\ s2 \in Socket /\ s2.state = s.state /\ SameSender(s, s2)
          /\ Moves(s, s2) /\ Carries(s, s2) /\ Len(s2.recvBuf) <= RECV_BUF_CAP
        BY <1>1, <1>2, <1>5, AppendOK, AppendMoves
    <1>7. e = Server => InTable(sock[Client], s2, got[Server])
        <2> HAVE e = Server
        <2>1. s \in Socket /\ got[Server] \in Seq(Byte)
            BY <1>1
        <2> HIDE DEF s
        <2> QED  BY <1>2, <1>3, <1>4, <2>1, SegmentInTable
    <1> HIDE DEF s2
    <1>8. FinOK(s2)
        BY <1>1, <1>6 DEF FinOK, SameSender
    <1>9. sock'[e] = s2 /\ s2.rcvNxt \in Nat
        BY <1>1, <1>2, <1>6, SocketFields
    <1>10. /\ pkts \in Seq(Packet)
           /\ \A k \in 1 .. Len(pkts) : pkts[k].type = "ACK" /\ pkts[k].seq = s2.rcvNxt
        BY <1>6, <1>9, AckPktOK
    <1>11. Reply(e, i, pkts)
        BY <1>2
    <1> HIDE DEF pkts
    <1>12. \A k \in 1 .. Len(pkts) : UploadPkt(e, pkts[k])
        <2>1. CASE e = Client
            BY <1>10, <2>1, HarmlessPkts
        <2>2. CASE e = Server
            <3>1. /\ sock'[Client] = sock[Client] /\ s2 \in receivers(Client)'
                  /\ sock[Client] \in Socket /\ Client # Server
                <4>1. replaced \in Seq(Replaced)
                    BY UploadParts
                <4>2. s2 \in Children(s2, replaced)
                    BY <1>6, <4>1, ChildrenMembers
                <4> QED  BY <1>1, <1>2, <1>9, <2>2, <4>2, ReceiversAreChildren
            <3>2. \A k \in 1 .. Len(pkts) : ToClientOK(sock[Client], receivers(Client)', pkts[k])
                BY <1>6, <1>7, <1>10, <2>2, <3>1, ServerAckOK
            <3> QED  BY <2>2, <3>1, <3>2 DEF UploadPkt
        <2> QED  BY <2>1, <2>2, ReceiversAreChildren
    <1>13. UploadNet
        BY <1>2, <1>10, <1>11, <1>12, UploadSends
    <1> QED  BY <1>2, <1>6, <1>7, <1>8, <1>13, ReceiveEnd

\* A segment that is not next is answered with what the socket has.
LEMMA DataRejectedKeepsUpload ==
    ASSUME Upload, NEW e \in Ends, NEW i, onDataRejected(e, i)
    PROVE  UploadKept
PROOF
    <1> DEFINE s == sock[e]
               pkts == <<ackPkt(s, s.rcvNxt)>>
    <1>1. /\ i \in 1 .. Len(net[e]) /\ Reply(e, i, pkts)
          /\ sock' = sock /\ got' = got /\ pos' = pos /\ established' = established
          /\ accepted' = accepted /\ losses' = losses /\ replaced' = replaced
        BY DEF onDataRejected, Arriving
    <1>2. s \in Socket /\ Len(s.recvBuf) <= RECV_BUF_CAP /\ losses \in 0 .. MaxLoss
        BY UploadParts
    <1>3. s.rcvNxt \in Nat
        BY <1>2, SocketFields
    <1>4. /\ pkts \in Seq(Packet)
          /\ \A k \in 1 .. Len(pkts) : pkts[k].type = "ACK" /\ pkts[k].seq = s.rcvNxt
        BY <1>2, <1>3, AckPktOK
    <1> HIDE DEF pkts
    <1>5. \A k \in 1 .. Len(pkts) : UploadPkt(e, pkts[k])
        <2>1. CASE e = Client
            BY <1>4, <2>1, HarmlessPkts
        <2>2. CASE e = Server
            <3>1. /\ s \in receivers(Client)' /\ sock[Client] \in Socket /\ Client # Server
                  /\ InTable(sock[Client], s, got[Server])
                <4>1. replaced \in Seq(Replaced) /\ sock[Client] \in Socket
                    BY UploadParts, ReceiversAreChildren
                <4>2. s \in Children(s, replaced)
                    BY <1>2, <4>1, ChildrenMembers
                <4> QED  BY <1>1, <2>2, <4>1, <4>2, UploadParts, ReceiversAreChildren
            <3> HIDE DEF s
            <3>2. \A k \in 1 .. Len(pkts) : ToClientOK(sock[Client], receivers(Client)', pkts[k])
                BY <1>2, <1>4, <3>1, ServerAckOK
            <3> QED  BY <1>1, <2>2, <3>1, <3>2 DEF UploadPkt
        <2> QED  BY <2>1, <2>2, ReceiversAreChildren
    <1>6. UploadNet
        BY <1>1, <1>4, <1>5, UploadSends
    <1> QED  BY <1>1, <1>2, <1>6, NetOnlyEnd

\* A FIN is taken by the child in the table, whatever it has received.
LEMMA FinTakenKeepsUpload ==
    ASSUME Upload, NEW e \in Ends, NEW i, onFinTaken(e, i)
    PROVE  UploadKept
PROOF
    <1> DEFINE s == sock[e]
               n == net[e][i].seq + 1
               s2 == markPeerFinReceived(s)
               pkts == <<ackPkt(s, n)>>
    <1>1. /\ s \in Socket /\ FinOK(s) /\ sock \in [Ends -> Socket]
          /\ Len(s.recvBuf) <= RECV_BUF_CAP
        BY UploadParts
    <1>2. /\ sock' = [sock EXCEPT ![e] = s2] /\ Reply(e, i, pkts)
          /\ i \in 1 .. Len(net[e]) /\ net[e][i].type = "FIN" /\ established[e]
          /\ replaced' = replaced /\ established' = established /\ accepted' = accepted
          /\ got' = got /\ losses' = losses /\ pos' = pos
        BY <1>1 DEF onFinTaken, Arriving
    <1>3. n \in Nat
        <2>1. net[e][i] \in Packet
            BY <1>2, UploadParts
        <2> QED  BY <2>1 DEF Packet
    <1>4. e = Server => /\ sock[Client].finSeq >= 0 /\ n = sock[Client].finSeq + 1
                        /\ InTable(sock[Client], s, got[Server]) /\ sock[Client] \in Socket
        <2> HAVE e = Server
        <2>1. ToServerOK(sock[Client], net[e][i])
            BY <1>2, UploadParts
        <2> QED  BY <1>2, <2>1, UploadParts, ReceiversAreChildren DEF ToServerOK
    <1> HIDE DEF n
    <1>5. /\ s2 \in Socket
          /\ s2.state = IF s.state = "ESTABLISHED" THEN "SHUTDOWN" ELSE s.state
          /\ SameSender(s, s2)
          /\ s2.rcvNxt = s.rcvNxt /\ s2.recvBuf = s.recvBuf
          /\ s2.peerFinReceived = TRUE
        BY <1>1, PeerFinOK
    <1> HIDE DEF s2
    <1>6. /\ s2.finSeq = s.finSeq /\ s2.sndUna = s.sndUna /\ s2.sndNxt = s.sndNxt
          /\ s2.outstanding = s.outstanding
        BY <1>5 DEF SameSender
    <1>7. FinOK(s2)
        BY <1>1, <1>5, <1>6 DEF FinOK
    <1>8. s.sndUna \in Nat /\ s.rcvNxt \in Nat /\ Len(s.recvBuf) \in Nat
        BY <1>1, SocketFields, LenProperties
    <1>9. Moves(s, s2) /\ Carries(s, s2) /\ Len(s2.recvBuf) <= RECV_BUF_CAP
        <2>1. s.sndUna <= s2.sndUna /\ Len(s2.recvBuf) <= Len(s.recvBuf)
            BY <1>5, <1>6, <1>8
        <2> QED  BY <1>1, <1>5, <1>6, <1>8, <2>1, NoByteTaken DEF Carries
    <1>10. e = Server => InTable(sock[Client], s2, got[Server])
        <2> HAVE e = Server
        <2>1. ReadOK(s2, got[Server])
            BY <1>4, <1>5 DEF InTable, ChildOK, ReadOK
        <2> QED  BY <1>4, <1>5, <2>1 DEF InTable, ChildOK
    <1>11. sock'[e] = s2
        BY <1>1, <1>2
    <1>12. /\ pkts \in Seq(Packet)
           /\ \A k \in 1 .. Len(pkts) : pkts[k].type = "ACK" /\ pkts[k].seq = n
        BY <1>1, <1>3, AckPktOK
    <1>13. Reply(e, i, pkts)
        BY <1>2
    <1> HIDE DEF pkts
    <1>14. \A k \in 1 .. Len(pkts) : UploadPkt(e, pkts[k])
        <2>1. CASE e = Client
            BY <1>12, <2>1, HarmlessPkts
        <2>2. CASE e = Server
            <3>1. /\ sock'[Client] = sock[Client] /\ s2 \in receivers(Client)' /\ Client # Server
                <4>1. replaced \in Seq(Replaced)
                    BY UploadParts
                <4>2. s2 \in Children(s2, replaced)
                    BY <1>5, <4>1, ChildrenMembers
                <4> QED  BY <1>1, <1>2, <1>11, <2>2, <4>2, ReceiversAreChildren
            <3>2. \A k \in 1 .. Len(pkts) : ToClientOK(sock[Client], receivers(Client)', pkts[k])
                BY <1>4, <1>5, <1>12, <2>2, <3>1 DEF ToClientOK, AckedBy
            <3> QED  BY <2>2, <3>1, <3>2 DEF UploadPkt
        <2> QED  BY <2>1, <2>2, ReceiversAreChildren
    <1>15. UploadNet
        BY <1>2, <1>12, <1>13, <1>14, UploadSends
    <1> QED  BY <1>2, <1>5, <1>7, <1>9, <1>10, <1>15, ReceiveEnd

\* A packet that comes a second time.
LEMMA AppendElems ==
    ASSUME NEW q \in Seq(Packet), NEW i \in 1 .. Len(q)
    PROVE  /\ Append(q, q[i]) \in Seq(Packet)
           /\ Len(q) \in Nat /\ Len(Append(q, q[i])) = Len(q) + 1
           /\ \A j \in 1 .. Len(Append(q, q[i])) :
                \E k \in 1 .. Len(q) : q[k] = Append(q, q[i])[j]
PROOF
    <1>1. Len(q) \in Nat /\ q[i] \in Packet
        BY LenProperties, ElementOfSeq
    <1> DEFINE p == q[i]
    <1>2. p \in Packet
        BY <1>1
    <1> HIDE DEF p
    <1>3. /\ Append(q, p) \in Seq(Packet) /\ Len(Append(q, p)) = Len(q) + 1
          /\ \A j \in 1 .. Len(q) : Append(q, p)[j] = q[j]
          /\ Append(q, p)[Len(q) + 1] = p
        BY <1>2, AppendProperties
    <1>4. ASSUME NEW j \in 1 .. Len(Append(q, p))
          PROVE  \E k \in 1 .. Len(q) : q[k] = Append(q, p)[j]
        <2>1. CASE j \in 1 .. Len(q)
            BY <1>3, <2>1
        <2>2. CASE j = Len(q) + 1
            BY <1>3, <2>2 DEF p
        <2> QED  BY <1>1, <1>3, <2>1, <2>2
    <1> QED  BY <1>1, <1>3, <1>4 DEF p

\* What the network loses or repeats was in it.
LEMMA FaultsKeepUpload ==
    ASSUME Upload, NEW e \in Ends, NEW i \in 1 .. Len(net[e]),
           Lose(e, i) \/ Duplicate(e, i)
    PROVE  UploadKept
PROOF
    <1>1. /\ sock' = sock /\ got' = got /\ pos' = pos /\ established' = established
          /\ accepted' = accepted /\ replaced' = replaced
        BY DEF Lose, Duplicate
    <1>2. /\ net \in [Ends -> Seq(Packet)] /\ net[e] \in Seq(Packet)
          /\ \A x \in Ends : Len(net[x]) <= LinkBuf
          /\ losses \in 0 .. MaxLoss /\ MaxLoss \in Nat /\ LinkBuf \in Nat
          /\ net[e][i] \in Packet /\ Peer(e) \in Ends
        BY UploadParts, EndsPeer, StreamConstants DEF StreamConstants
    <1>3. losses' \in 0 .. MaxLoss
        BY <1>2 DEF Lose, Duplicate
    <1>4. ASSUME NEW q \in Seq(Packet), net' = [net EXCEPT ![e] = q], Len(q) <= LinkBuf,
                 \A j \in 1 .. Len(q) : \E k \in 1 .. Len(net[e]) : net[e][k] = q[j]
          PROVE  UploadNet
        <2>1. net' \in [Ends -> Seq(Packet)]
            BY <1>2, <1>4
        <2>2. \A x \in Ends : net'[x] = IF x = e THEN q ELSE net[x]
            BY <1>2, <1>4
        <2>3. \A x \in Ends : Len(net'[x]) <= LinkBuf
            BY <1>2, <1>4, <2>2
        <2>4. \A x \in Ends : \A j \in 1 .. Len(net'[x]) :
                \E k \in 1 .. Len(net[x]) : net[x][k] = net'[x][j]
            BY <1>2, <1>4, <2>2
        <2> QED  BY <2>1, <2>3, <2>4, ReceiversAreChildren DEF UploadNet
    <1>5. CASE Lose(e, i)
        <2> DEFINE q == RemoveAt(net[e], i)
        <2>1. /\ q \in Seq(Packet) /\ Len(q) <= Len(net[e])
              /\ \A j \in 1 .. Len(q) : \E k \in 1 .. Len(net[e]) : net[e][k] = q[j]
            BY <1>2, RemoveElems
        <2>2. net' = [net EXCEPT ![e] = q]
            BY <1>5 DEF Lose
        <2> HIDE DEF q
        <2>3. Len(q) <= LinkBuf
            BY <1>2, <2>1, LenProperties
        <2>4. UploadNet
            BY <1>4, <2>1, <2>2, <2>3
        <2> QED  BY <1>1, <1>3, <2>4, NetOnlyEnd
    <1>6. CASE Duplicate(e, i)
        <2> DEFINE q == Append(net[e], net[e][i])
        <2>1. /\ q \in Seq(Packet) /\ Len(q) = Len(net[e]) + 1 /\ Len(net[e]) \in Nat
              /\ \A j \in 1 .. Len(q) : \E k \in 1 .. Len(net[e]) : net[e][k] = q[j]
            BY <1>2, AppendElems
        <2>2. net' = [net EXCEPT ![e] = q] /\ Len(net[e]) < LinkBuf
            BY <1>6 DEF Duplicate
        <2> HIDE DEF q
        <2>3. Len(q) <= LinkBuf
            BY <1>2, <2>1, <2>2
        <2>5. UploadNet
            BY <1>4, <2>1, <2>2, <2>3
        <2> QED  BY <1>1, <1>3, <2>5, NetOnlyEnd
    <1> QED  BY <1>5, <1>6

-----------------------------------------------------------------------------
(* A repeated SYN, and the children it leaves behind. *)

\* The children before the step that are still children after it.
LEMMA ReceiversCarried ==
    ASSUME Upload, NEW ts2, ts2 \subseteq Socket,
           \A u \in receivers(Client) : \E v \in ts2 : Carries(u, v)
    PROVE  /\ \E v \in ts2 : sock[Client].sndUna <= v.rcvNxt
           /\ ~established[Client] => /\ sock[Client].finSeq >= 0
                                      /\ \E v \in ts2 : v.peerFinReceived
PROOF
    <1> DEFINE c == sock[Client]
               ts == receivers(Client)
    <1>1. /\ \E u \in ts : c.sndUna <= u.rcvNxt
          /\ ~established[Client] => c.finSeq >= 0 /\ \E u \in ts : u.peerFinReceived
          /\ c \in Socket
        BY UploadParts, ReceiversAreChildren
    <1>2. ts \subseteq Socket
        <2>1. sock[Server] \in Socket /\ replaced \in Seq(Replaced)
            BY UploadParts, ReceiversAreChildren
        <2> QED  BY <2>1, ChildrenMembers, ReceiversAreChildren
    <1> HIDE DEF ts
    <1>3. \E v \in ts2 : c.sndUna <= v.rcvNxt
        <2>1. PICK u \in ts : c.sndUna <= u.rcvNxt
            BY <1>1
        <2>2. PICK v \in ts2 : Carries(u, v)
            BY DEF ts
        <2>3. u.rcvNxt \in Nat /\ v.rcvNxt \in Nat /\ c.sndUna \in Nat
            BY <1>1, <1>2, SocketFields
        <2> QED  BY <2>1, <2>2, <2>3 DEF Carries
    <1>4. ASSUME NEW u \in ts, u.peerFinReceived  PROVE  \E v \in ts2 : v.peerFinReceived
        BY <1>4 DEF Carries, ts
    <1> QED  BY <1>1, <1>3, <1>4

\* onSyn: the client's stream goes on with a child that has taken nothing of it.
LEMMA SynKeepsUpload ==
    ASSUME Upload, NEW e \in Ends, NEW i, onSyn(e, i)
    PROVE  UploadKept
PROOF
    <1> DEFINE c == sock[Client]
               t == sock[Server]
               s0 == initAccepted(NewSocket)
               rec == [sock |-> t, accepted |-> accepted[Server], taken |-> got[Server]]
               ts == receivers(Client)
               ts2 == receivers(Client)'
    <1>1. /\ Client \in Ends /\ Server \in Ends /\ Client # Server /\ Ends = {Client, Server}
          /\ Peer(Client) = Server /\ Peer(Server) = Client
          /\ ts = Children(t, replaced) /\ ts2 = Children(sock'[Server], replaced')
        BY ReceiversAreChildren
    <1>2. /\ sock \in [Ends -> Socket] /\ c \in Socket /\ t \in Socket
          /\ net \in [Ends -> Seq(Packet)] /\ got \in [Ends -> Seq(Byte)]
          /\ pos \in [Ends -> Nat] /\ established \in [Ends -> BOOLEAN]
          /\ accepted \in [Ends -> BOOLEAN] /\ losses \in 0 .. MaxLoss
          /\ replaced \in Seq(Replaced) /\ \A x \in Ends : Len(net[x]) <= LinkBuf
          /\ Len(c.recvBuf) <= RECV_BUF_CAP /\ Len(t.recvBuf) <= RECV_BUF_CAP
          /\ WindowOK(c) /\ InTable(c, t, got[Server]) /\ SideOK(Client)
          /\ \A k \in 1 .. Len(replaced) : ChildOK(c, replaced[k].sock, replaced[k].taken)
        BY <1>1, UploadParts
    <1>3. \A k \in 1 .. Len(replaced) : Len(replaced[k].sock.recvBuf) <= RECV_BUF_CAP
        BY DEF Upload, TypeOK
    <1>4. i \in 1 .. Len(net[e]) /\ net[e][i].type = "SYN" /\ Reply(e, i, <<synAck>>)
        BY DEF onSyn, Arriving
    <1>5. e = Server /\ Reorder
        <2>1. e = Server
            <3>1. e = Client => net[Client][i].type # "SYN"
                BY <1>4, UploadParts DEF ToClientOK
            <3> QED  BY <1>1, <1>4, <3>1
        <2>2. ToServerOK(c, net[Server][i])
            BY <1>4, <2>1, UploadParts
        <2> QED  BY <1>4, <2>1, <2>2 DEF ToServerOK
    <1>6. /\ replaced' = Append(replaced, rec)
          /\ sock' = [sock EXCEPT ![Server] = s0]
          /\ established' = [established EXCEPT ![Server] = TRUE]
          /\ accepted' = [accepted EXCEPT ![Server] = FALSE]
          /\ pos' = [pos EXCEPT ![Server] = 0]
          /\ got' = [got EXCEPT ![Server] = <<>>]
          /\ losses' = losses
        BY <1>5 DEF onSyn
    <1>7. /\ s0 \in Socket /\ s0.sndUna = 1 /\ s0.sndNxt = 1 /\ s0.rcvNxt = 1
          /\ s0.finSeq = -1 /\ s0.peerFinReceived = FALSE
          /\ FinOK(s0) /\ ReadOK(s0, <<>>) /\ Len(s0.recvBuf) <= RECV_BUF_CAP
        BY FreshSocket
    <1> HIDE DEF s0
    <1>8. rec \in Replaced /\ rec.sock = t /\ rec.taken = got[Server]
        BY <1>1, <1>2 DEF Replaced
    <1> HIDE DEF rec
    <1>9. /\ replaced' \in Seq(Replaced) /\ Len(replaced') = Len(replaced) + 1
          /\ Len(replaced) \in Nat
          /\ \A k \in 1 .. Len(replaced) : replaced'[k] = replaced[k]
          /\ replaced'[Len(replaced) + 1] = rec
        <2>1. replaced \in Seq(Replaced)
            BY <1>2
        <2> QED  BY <1>6, <1>8, <2>1, AppendProperties, LenProperties
    <1>10. \A k \in 1 .. Len(replaced') : k \in 1 .. Len(replaced) \/ k = Len(replaced) + 1
        BY <1>9
    <1>11. /\ sock'[Client] = c /\ sock'[Server] = s0 /\ sock' \in [Ends -> Socket]
           /\ established'[Client] = established[Client] /\ established'[Server] = TRUE
           /\ established' \in [Ends -> BOOLEAN]
           /\ accepted'[Client] = accepted[Client] /\ accepted' \in [Ends -> BOOLEAN]
           /\ pos'[Client] = pos[Client] /\ pos'[Server] = 0 /\ pos' \in [Ends -> Nat]
           /\ got'[Server] = <<>> /\ got' \in [Ends -> Seq(Byte)]
        <2>1. <<>> \in Seq(Byte)
            OBVIOUS
        <2> QED  BY <1>1, <1>2, <1>6, <1>7, <2>1
    <1>12. ts2 \subseteq Socket /\ ts \subseteq Socket
        BY <1>1, <1>2, <1>7, <1>9, <1>11, ChildrenMembers
    <1>13. ASSUME NEW u \in ts  PROVE  \E v \in ts2 : Carries(u, v)
        <2>1. Carries(u, u)
            BY <1>12, MovesRefl
        <2>2. \A k \in 1 .. Len(replaced') : replaced'[k].sock \in ts2
            BY <1>1, <1>7, <1>9, <1>11, ChildrenMembers
        <2>3. u = t \/ \E k \in 1 .. Len(replaced) : u = replaced[k].sock
            BY <1>1, <1>2, ChildrenMembers
        <2>4. u \in ts2
            <3>1. CASE u = t
                <4>1. Len(replaced) + 1 \in 1 .. Len(replaced')
                    BY <1>9
                <4> QED  BY <1>8, <1>9, <2>2, <3>1, <4>1
            <3>2. ASSUME NEW k \in 1 .. Len(replaced), u = replaced[k].sock
                  PROVE  u \in ts2
                <4>1. k \in 1 .. Len(replaced')
                    BY <1>9
                <4> QED  BY <1>9, <2>2, <3>2, <4>1
            <3> QED  BY <2>3, <3>1, <3>2
        <2> QED  BY <2>1, <2>4
    <1>14. c.sndUna \in Nat /\ c.sndNxt \in Nat /\ c.sndUna >= 1 /\ c.sndUna <= c.sndNxt
        BY <1>2, SocketFields, WindowBoundaries DEF WindowOK
    <1>15. InTable(c, s0, <<>>)
        <2>1. ChildOK(c, s0, <<>>)
            BY <1>7, <1>14 DEF ChildOK
        <2>2. s0.rcvNxt >= c.sndUna => Boundary(c, s0.rcvNxt)
            <3> HAVE s0.rcvNxt >= c.sndUna
            <3>1. s0.rcvNxt = c.sndUna
                BY <1>7, <1>14
            <3> QED  BY <1>2, <3>1, WindowBoundaries
        <2> QED  BY <2>1, <2>2 DEF InTable
    <1>16. ASSUME NEW k \in 1 .. Len(replaced')
           PROVE  /\ ChildOK(c, replaced'[k].sock, replaced'[k].taken)
                  /\ Len(replaced'[k].sock.recvBuf) <= RECV_BUF_CAP
        <2>1. CASE k \in 1 .. Len(replaced)
            BY <1>2, <1>3, <1>9, <2>1
        <2>2. CASE k = Len(replaced) + 1
            BY <1>2, <1>8, <1>9, <2>2 DEF InTable
        <2> QED  BY <1>10, <2>1, <2>2
    <1>17. UploadNet
        <2> DEFINE pkts == <<synAck>>
        <2>1. pkts \in Seq(Packet) /\ \A k \in 1 .. Len(pkts) : pkts[k] = synAck
            <3>1. synAck \in Packet
                BY HandshakePackets
            <3> HIDE DEF synAck
            <3> QED  BY <3>1
        <2>2. Reply(Server, i, pkts) /\ i \in 1 .. Len(net[Server])
            BY <1>4, <1>5
        <2> HIDE DEF pkts
        <2>3. ToClientOK(c, ts2, synAck)
            BY <1>14, HandshakePackets DEF ToClientOK, AckedBy
        <2>4. \A k \in 1 .. Len(pkts) : UploadPkt(Server, pkts[k])
            BY <1>1, <1>11, <2>1, <2>3 DEF UploadPkt
        <2> QED  BY <1>1, <2>1, <2>2, <2>4, UploadSends
    <1>18. TypeOK'
        <2>1. \A x \in Ends : Len(sock'[x].recvBuf) <= RECV_BUF_CAP
            BY <1>1, <1>2, <1>7, <1>11
        <2> QED  BY <1>2, <1>6, <1>9, <1>11, <1>16, <1>17, <2>1 DEF TypeOK, UploadNet
    <1>19. \A x \in Ends : SideOK(x)'
        <2>1. SideOK(Client)'
            BY <1>2, <1>11 DEF SideOK
        <2>2. SideOK(Server)'
            BY <1>7, <1>11 DEF SideOK
        <2> QED  BY <1>1, <2>1, <2>2
    <1>20. SenderForward(c, c)
        BY <1>2, AdvanceRefl, WindowBoundaries DEF SenderForward
    <1>21. /\ \E v \in ts2 : c.sndUna <= v.rcvNxt
           /\ ~established[Client] => c.finSeq >= 0 /\ \E v \in ts2 : v.peerFinReceived
        <2> HIDE DEF ts2
        <2> QED  BY <1>12, <1>13, ReceiversCarried
    <1>22. Upload'
        <2> HIDE DEF ts2, ts
        <2> QED  BY <1>5, <1>11, <1>13, <1>15, <1>16, <1>17, <1>18, <1>19, <1>20, <1>21, UploadStep
                 DEF ts, ts2
    <1>23. \A x \in Ends : SameSocket(x) => Moves(sock[x], sock'[x])
        <2>1. ~SameSocket(Server)
            BY <1>1, <1>9 DEF SameSocket
        <2>2. Moves(c, c)
            BY <1>2, MovesRefl
        <2> QED  BY <1>1, <1>11, <2>1, <2>2
    <1> QED  BY <1>22, <1>23 DEF UploadKept

\* A step of the application that holds a replaced child.
LEMMA ReplacedStep ==
    ASSUME Upload, NEW k \in DOMAIN replaced, NEW r2 \in Replaced,
           replaced' = [replaced EXCEPT ![k] = r2],
           Carries(replaced[k].sock, r2.sock),
           ReadOK(r2.sock, r2.taken),
           r2.sock.rcvNxt = replaced[k].sock.rcvNxt,
           r2.sock.peerFinReceived = replaced[k].sock.peerFinReceived,
           Len(r2.sock.recvBuf) <= RECV_BUF_CAP,
           UNCHANGED <<sock, established, accepted, net, pos, got, losses>>
    PROVE  UploadKept
PROOF
    <1> DEFINE c == sock[Client]
               t == sock[Server]
               ts == receivers(Client)
               ts2 == receivers(Client)'
    <1>1. /\ Client \in Ends /\ Server \in Ends /\ Ends = {Client, Server}
          /\ ts = Children(t, replaced) /\ ts2 = Children(t, replaced')
        BY ReceiversAreChildren
    <1>2. /\ sock \in [Ends -> Socket] /\ c \in Socket /\ t \in Socket
          /\ replaced \in Seq(Replaced) /\ WindowOK(c) /\ InTable(c, t, got[Server])
          /\ \A j \in 1 .. Len(replaced) : ChildOK(c, replaced[j].sock, replaced[j].taken)
          /\ replaced # <<>> => Reorder
        BY <1>1, UploadParts
    <1>3. /\ DOMAIN replaced = 1 .. Len(replaced) /\ Len(replaced) \in Nat
        BY <1>2, LenProperties
    <1>4. /\ replaced' \in Seq(Replaced) /\ Len(replaced') = Len(replaced)
          /\ \A j \in 1 .. Len(replaced) : replaced'[j] = IF j = k THEN r2 ELSE replaced[j]
        <2>1. replaced \in Seq(Replaced)
            BY <1>2
        <2> QED  BY <1>3, <2>1, ExceptSeq
    <1>5. ASSUME NEW j \in 1 .. Len(replaced')
          PROVE  /\ ChildOK(c, replaced'[j].sock, replaced'[j].taken)
                 /\ Len(replaced'[j].sock.recvBuf) <= RECV_BUF_CAP
        <2>1. CASE j = k
            <3>1. ChildOK(c, replaced[k].sock, replaced[k].taken)
                BY <1>2, <1>3
            <3>2. ChildOK(c, r2.sock, r2.taken)
                BY <3>1 DEF ChildOK
            <3> QED  BY <1>3, <1>4, <2>1, <3>2
        <2>2. CASE j # k
            <3>1. \A n \in 1 .. Len(replaced) : Len(replaced[n].sock.recvBuf) <= RECV_BUF_CAP
                BY DEF Upload, TypeOK
            <3> QED  BY <1>2, <1>4, <2>2, <3>1
        <2> QED  BY <2>1, <2>2
    <1>6. /\ ts \subseteq Socket /\ ts2 \subseteq Socket
          /\ t \in ts2 /\ \A j \in 1 .. Len(replaced') : replaced'[j].sock \in ts2
        <2> DEFINE reps2 == replaced'
        <2>1. reps2 \in Seq(Replaced) /\ ts2 = Children(t, reps2)
            BY <1>1, <1>4
        <2> HIDE DEF reps2, ts2
        <2>2. /\ ts \subseteq Socket /\ ts2 \subseteq Socket
              /\ t \in ts2 /\ \A j \in 1 .. Len(reps2) : reps2[j].sock \in ts2
            BY <1>1, <1>2, <2>1, ChildrenMembers
        <2> QED  BY <2>2 DEF reps2
    <1>7. ASSUME NEW u \in ts  PROVE  \E v \in ts2 : Carries(u, v)
        <2>1. /\ t \in ts2 /\ \A j \in 1 .. Len(replaced') : replaced'[j].sock \in ts2
            BY <1>6
        <2>2. Carries(u, u)
            BY <1>6, MovesRefl
        <2>3. u = t \/ \E j \in 1 .. Len(replaced) : u = replaced[j].sock
            BY <1>1, <1>2, ChildrenMembers
        <2>4. ASSUME NEW j \in 1 .. Len(replaced), u = replaced[j].sock
              PROVE  \E v \in ts2 : Carries(u, v)
            <3>1. replaced'[j].sock \in ts2
                BY <1>4, <2>1
            <3>2. CASE j = k
                BY <1>4, <2>4, <3>1, <3>2
            <3>3. CASE j # k
                BY <1>4, <2>2, <2>4, <3>1, <3>3
            <3> QED  BY <3>2, <3>3
        <2> QED  BY <2>1, <2>2, <2>3, <2>4
    <1>8. /\ TypeOK' /\ UploadNet
        <2>1. TypeOK
            BY DEF Upload
        <2>2. TypeOK'
            BY <1>4, <1>5, <2>1 DEF TypeOK
        <2>3. UploadNet
            BY <1>1, <2>1 DEF TypeOK, UploadNet
        <2> QED  BY <2>2, <2>3
    <1>9. \A x \in Ends : SideOK(x)'
        <2>1. \A x \in Ends : SideOK(x)
            BY DEF Upload
        <2> QED  BY <2>1 DEF SideOK
    <1>10. SenderForward(c, c)
        BY <1>2, AdvanceRefl, WindowBoundaries DEF SenderForward
    <1>11. /\ \E v \in ts2 : c.sndUna <= v.rcvNxt
           /\ ~established[Client] => c.finSeq >= 0 /\ \E v \in ts2 : v.peerFinReceived
        <2> HIDE DEF ts2
        <2>1. ts2 \subseteq Socket /\ \A u \in receivers(Client) : \E v \in ts2 : Carries(u, v)
            BY <1>6, <1>7
        <2> QED  BY <2>1, ReceiversCarried
    <1>12. replaced # <<>>
        BY <1>3
    <1>13. Upload'
        <2> HIDE DEF ts2, ts
        <2> QED  BY <1>2, <1>5, <1>7, <1>8, <1>9, <1>10, <1>11, <1>12, UploadStep DEF ts, ts2
    <1>14. \A x \in Ends : Moves(sock[x], sock'[x])
        BY <1>2, MovesRefl
    <1> QED  BY <1>13, <1>14 DEF UploadKept

\* The workers of replaced children accept and read on.
LEMMA UseReplacedKeepsUpload ==
    ASSUME Upload, NEW k \in DOMAIN replaced, UseReplaced(k)
    PROVE  UploadKept
PROOF
    <1> DEFINE r == replaced[k]
               s == r.sock
    <1>1. /\ replaced \in Seq(Replaced)
          /\ \A j \in 1 .. Len(replaced) : ChildOK(sock[Client], replaced[j].sock, replaced[j].taken)
          /\ \A j \in 1 .. Len(replaced) : Len(replaced[j].sock.recvBuf) <= RECV_BUF_CAP
        BY UploadParts DEF Upload, TypeOK
    <1>2. k \in 1 .. Len(replaced)
        BY <1>1, LenProperties
    <1>3. /\ r \in Replaced /\ ReadOK(s, r.taken) /\ Len(s.recvBuf) <= RECV_BUF_CAP
        BY <1>1, <1>2, ElementOfSeq DEF ChildOK
    <1>4. s \in Socket /\ r.accepted \in BOOLEAN /\ r.taken \in Seq(Byte)
        BY <1>3 DEF Replaced
    <1>5. s.rcvNxt \in Nat /\ Len(s.recvBuf) \in Nat /\ RECV_BUF_CAP \in Nat
        BY <1>4, SocketFields, LenProperties, SocketConstants DEF SocketConstants
    <1>6. ASSUME NEW r2 \in Replaced, replaced' = [replaced EXCEPT ![k] = r2],
                 r2.sock.rcvNxt = s.rcvNxt, r2.sock.peerFinReceived = s.peerFinReceived,
                 ReadOK(r2.sock, r2.taken), Len(r2.sock.recvBuf) <= Len(s.recvBuf),
                 UNCHANGED <<sock, established, accepted, net, pos, got, losses>>
          PROVE  UploadKept
        <2>1. Carries(s, r2.sock)
            BY <1>5, <1>6 DEF Carries
        <2>2. Len(r2.sock.recvBuf) <= RECV_BUF_CAP
            <3>1. r2.sock \in Socket
                BY DEF Replaced
            <3>2. Len(r2.sock.recvBuf) \in Nat
                BY <3>1, SocketFields, LenProperties
            <3> QED  BY <1>3, <1>5, <1>6, <3>2
        <2> QED  BY <1>6, <2>1, <2>2, ReplacedStep
    <1>7. CASE AcceptReplaced(k)
        <2> DEFINE st == IF s.state = "CLOSED" THEN "CLOSED" ELSE "ESTABLISHED"
                   s2 == [s EXCEPT !.state = st]
                   r2 == [r EXCEPT !.accepted = TRUE, !.sock = s2]
        <2>1. st \in States
            BY DEF States
        <2>2. /\ replaced' = [replaced EXCEPT ![k] = r2]
              /\ UNCHANGED <<sock, established, accepted, net, pos, got, losses>>
            BY <1>3, <1>7 DEF AcceptReplaced, Replaced
        <2> HIDE DEF st
        <2>3. /\ s2 \in Socket /\ s2.rcvNxt = s.rcvNxt /\ s2.recvBuf = s.recvBuf
              /\ s2.peerFinReceived = s.peerFinReceived
            BY <1>4, <2>1, StateOK
        <2> HIDE DEF s2
        <2>4. r2 \in Replaced /\ r2.sock = s2 /\ r2.taken = r.taken
            BY <1>3, <2>3 DEF Replaced
        <2> HIDE DEF r2
        <2>5. ReadOK(s2, r.taken)
            BY <1>3, <2>3 DEF ReadOK
        <2>6. Len(s2.recvBuf) <= Len(s.recvBuf)
            BY <1>5, <2>3
        <2> QED  BY <1>6, <2>2, <2>3, <2>4, <2>5, <2>6
    <1>8. ASSUME NEW len \in 1 .. MaxRead, ReadReplaced(k, len)  PROVE  UploadKept
        <2> DEFINE s2 == read(s, len)
                   g2 == r.taken \o SubSeq(s.recvBuf, 1, min(len, Len(s.recvBuf)))
                   r2 == [r EXCEPT !.sock = s2, !.taken = g2]
        <2>1. /\ replaced' = [replaced EXCEPT ![k] = r2]
              /\ UNCHANGED <<sock, established, accepted, net, pos, got, losses>>
            BY <1>3, <1>8 DEF ReadReplaced, Replaced
        <2>2. len \in Nat
            BY StreamConstants DEF StreamConstants
        <2>3. /\ s2 \in Socket /\ s2.rcvNxt = s.rcvNxt
              /\ s2.peerFinReceived = s.peerFinReceived
              /\ Len(s2.recvBuf) <= Len(s.recvBuf)
              /\ g2 \in Seq(Byte) /\ ReadOK(s2, g2)
            <3>1. s \in Socket /\ r.taken \in Seq(Byte) /\ ReadOK(s, r.taken)
                BY <1>3, <1>4
            <3> HIDE DEF s, r
            <3> QED  BY <2>2, <3>1, ReadMethodOK
        <2> HIDE DEF s2, g2
        <2>4. r2 \in Replaced /\ r2.sock = s2 /\ r2.taken = g2
            BY <1>3, <2>3 DEF Replaced
        <2> HIDE DEF r2
        <2> QED  BY <1>6, <2>1, <2>3, <2>4
    <1> QED  BY <1>7, <1>8 DEF UseReplaced

\* Every step keeps what is left of the invariant, whatever the number of children.
LEMMA UploadNextOK ==
    ASSUME Upload, Next
    PROVE  UploadKept
PROOF
    <1>1. ASSUME NEW k \in DOMAIN replaced, UseReplaced(k)  PROVE  UploadKept
        BY <1>1, UseReplacedKeepsUpload
    <1>2. ASSUME NEW e \in Ends,
                 \/ AppAccept(e) \/ Write(e) \/ AppClose(e) \/ Read(e)
                 \/ receiveTransport(e) \/ retransmissionTick(e) \/ Faults(e)
          PROVE  UploadKept
        <2>1. CASE AppAccept(e)
            BY <2>1, AcceptKeepsUpload
        <2>2. CASE Write(e)
            BY <2>2, WriteKeepsUpload DEF Write
        <2>3. CASE AppClose(e)
            BY <2>3, CloseKeepsUpload
        <2>4. CASE Read(e)
            BY <2>4, ReadKeepsUpload DEF Read
        <2>5. CASE receiveTransport(e)
            <3>1. PICK i \in 1 .. Len(net[e]) :
                    onSyn(e, i) \/ onAck(e, i) \/ onData(e, i) \/ onFin(e, i)
                BY <2>5 DEF receiveTransport
            <3>2. CASE onSyn(e, i)
                BY <3>2, SynKeepsUpload
            <3>3. CASE onAck(e, i)
                BY <3>3, AckOfFinKeepsUpload, AckOfNewKeepsUpload, AckOfOldKeepsUpload,
                   IgnoredKeepsUpload DEF onAck
            <3>4. CASE onData(e, i)
                BY <3>4, DataAcceptedKeepsUpload, DataRejectedKeepsUpload,
                   IgnoredKeepsUpload DEF onData
            <3>5. CASE onFin(e, i)
                BY <3>5, FinTakenKeepsUpload, IgnoredKeepsUpload DEF onFin
            <3> QED  BY <3>1, <3>2, <3>3, <3>4, <3>5
        <2>6. CASE retransmissionTick(e)
            BY <2>6, TickKeepsUpload
        <2>7. CASE Faults(e)
            BY <2>7, FaultsKeepUpload DEF Faults
        <2> QED  BY <1>2, <2>1, <2>2, <2>3, <2>4, <2>5, <2>6, <2>7
    <1> QED  BY <1>1, <1>2 DEF Next

-----------------------------------------------------------------------------
(* The theorems. *)

\* ConnInv is Upload, and Paired as long as there is one child.
LEMMA ConnInvParts ==
    /\ ConnInv => Upload
    /\ ConnInv /\ OneChild => Paired
    /\ (Upload /\ (OneChild => Paired)) => ConnInv
PROOF
    <1>1. TypeOK => PairTypes
        BY DEF TypeOK, PairTypes
    <1> QED  BY <1>1 DEF ConnInv, Upload, Paired

\* A child that has been replaced is not forgotten.
LEMMA ReplacedStays ==
    ASSUME Next, replaced' = <<>>, TypeOK
    PROVE  replaced = <<>>
PROOF
    <1>1. ASSUME NEW e \in Ends, NEW i, onSyn(e, i)  PROVE  FALSE
        <2> DEFINE rec == [sock |-> sock[e], accepted |-> accepted[e], taken |-> got[e]]
        <2>1. replaced' = Append(replaced, rec)
            BY <1>1 DEF onSyn
        <2>2. replaced \in Seq(Replaced) /\ rec \in Replaced
            BY DEF TypeOK, Replaced
        <2> HIDE DEF rec
        <2>3. Len(Append(replaced, rec)) = Len(replaced) + 1 /\ Len(replaced) \in Nat
            BY <2>2, AppendProperties, LenProperties
        <2> QED  BY <2>1, <2>3
    <1>2. ASSUME NEW k \in DOMAIN replaced, UseReplaced(k)  PROVE  FALSE
        <2>1. DOMAIN replaced' = DOMAIN replaced
            BY <1>2 DEF UseReplaced, AcceptReplaced, ReadReplaced
        <2>2. DOMAIN replaced' = {}
            OBVIOUS
        <2> QED  BY <2>1, <2>2
    <1>3. ASSUME NEW e \in Ends,
                 \/ AppAccept(e) \/ Write(e) \/ AppClose(e) \/ Read(e)
                 \/ retransmissionTick(e) \/ Faults(e)
          PROVE  replaced' = replaced
        BY <1>3 DEF AppAccept, Write, AppWrite, AppClose, Read, AppRead, retransmissionTick,
                    Faults, Lose, Duplicate
    <1>4. ASSUME NEW e \in Ends, receiveTransport(e)  PROVE  replaced' = replaced
        <2>1. PICK i \in 1 .. Len(net[e]) : onAck(e, i) \/ onData(e, i) \/ onFin(e, i)
            BY <1>1, <1>4 DEF receiveTransport
        <2> QED  BY <2>1 DEF onAck, onAckOfFin, onAckOfNew, onAckOfOld, onAckIgnored,
                    onData, onDataAccepted, onDataRejected, onDataDropped,
                    onFin, onFinTaken, onFinDropped
    <1> QED  BY <1>2, <1>3, <1>4 DEF Next

\* The state right after the handshake.
LEMMA InitConnInv ==
    ASSUME Init
    PROVE  ConnInv
PROOF
    <1> DEFINE c == sock[Client]
               t == sock[Server]
    <1>1. /\ Paired
          /\ \A e \in Ends : \A i \in 1 .. Len(net[e]) : net[e][i] = handshake(e)
          /\ ~Reorder => net = [e \in Ends |-> <<>>]
        BY InitOK
    <1>2. replaced = <<>> /\ established = [e \in Ends |-> TRUE]
        BY DEF Init
    <1>3. /\ Client \in Ends /\ Server \in Ends /\ Client # Server
          /\ Peer(Client) = Server /\ Peer(Server) = Client
          /\ receivers(Client) = Children(t, replaced)
        BY ReceiversAreChildren
    <1>4. replaced \in Seq(Replaced) /\ Len(replaced) = 0
        BY <1>2
    <1>5. TypeOK
        BY <1>1, <1>4 DEF Paired, PairTypes, TypeOK
    <1>6. ASSUME NEW e \in Ends  PROVE  SideOK(e)
        <2>1. FinOK(sock[e]) /\ pos[e] = sock[e].sndNxt - 1 /\ EndOK(e)
            BY <1>1, Parts
        <2> QED  BY <2>1 DEF SideOK, EndOK
    <1>7. /\ c \in Socket /\ t \in Socket /\ WindowOK(c) /\ PairOK(c, t) /\ ReadOK(t, got[Server])
        BY <1>1, <1>3, Parts
    <1>8. t \in receivers(Client)
        BY <1>3, <1>4, <1>7, ChildrenMembers
    <1>9. ASSUME NEW i \in 1 .. Len(net[Client])
          PROVE  ToClientOK(c, receivers(Client), net[Client][i])
        <2>1. net[Client][i] = synAck
            BY <1>1, <1>3 DEF handshake
        <2>2. c.sndUna >= 1
            BY <1>7 DEF WindowOK
        <2> QED  BY <2>1, <2>2, HandshakePackets DEF ToClientOK, AckedBy
    <1>10. ASSUME NEW i \in 1 .. Len(net[Server])
           PROVE  ToServerOK(c, net[Server][i])
        <2>1. net[Server][i] = syn
            BY <1>1, <1>3 DEF handshake
        <2>2. Reorder
            <3>1. SUFFICES ASSUME ~Reorder  PROVE  FALSE
                OBVIOUS
            <3>2. net[Server] = <<>>
                BY <1>1, <1>3, <3>1
            <3> QED  BY <3>2
        <2> QED  BY <2>1, <2>2, HandshakePackets DEF ToServerOK
    <1>11. UploadInv
        <2>1. ChildOK(c, t, got[Server]) /\ c.sndUna <= t.rcvNxt /\ Boundary(c, t.rcvNxt)
            BY <1>7 DEF PairOK, ChildOK
        <2>2. established[Client]
            BY <1>2, <1>3
        <2> QED  BY <1>2, <1>4, <1>7, <1>8, <1>9, <1>10, <2>1, <2>2 DEF UploadInv, OneChild
    <1> QED  BY <1>1, <1>5, <1>6, <1>11, ConnInvParts DEF Upload

\* One step of the inductive invariant.
LEMMA NextConnInv ==
    ASSUME ConnInv, Next
    PROVE  /\ ConnInv'
           /\ \A e \in Ends : SameSocket(e) => Moves(sock[e], sock'[e])
           /\ OneChild' => OneChild /\ Paired /\ Preserved
PROOF
    <1>1. Upload /\ (OneChild => Paired)
        BY ConnInvParts
    <1>2. UploadKept
        BY <1>1, UploadNextOK
    <1>3. OneChild' => OneChild
        <2>1. TypeOK
            BY <1>1 DEF Upload
        <2> QED  BY <2>1, ReplacedStays DEF OneChild
    <1>4. OneChild' => OneChild /\ Paired /\ Preserved
        BY <1>1, <1>3, PairNextOK
    <1>5. OneChild' => PairInv'
        BY <1>4 DEF Preserved, Paired
    <1>6. ConnInv'
        BY <1>2, <1>5 DEF UploadKept, Upload, ConnInv
    <1> QED  BY <1>2, <1>4, <1>6 DEF UploadKept

\* The inductive invariant holds in every reachable state, for any sizes, loss,
\* duplication and reordering, repeated SYNs included.
THEOREM ConnInvariant == Spec => []ConnInv
PROOF
    <1>1. Init => ConnInv
        BY InitConnInv
    <1>2. ConnInv /\ [Next]_vars => ConnInv'
        <2>1. ASSUME ConnInv, Next  PROVE  ConnInv'
            BY <2>1, NextConnInv
        <2>2. ASSUME ConnInv, UNCHANGED vars  PROVE  ConnInv'
            <3>1. TypeOK'
                BY <2>2 DEF vars, ConnInv, TypeOK
            <3>2. \A e \in Ends : SideOK(e)'
                BY <2>2 DEF vars, ConnInv, SideOK
            <3>3. receivers(Client)' = receivers(Client)
                BY <2>2 DEF vars, receivers
            <3>4. UploadInv'
                BY <2>2, <3>3 DEF vars, ConnInv, UploadInv, OneChild
            <3>5. OneChild' => PairInv'
                BY <2>2 DEF vars, ConnInv, OneChild, PairInv, EndOK
            <3> QED  BY <3>1, <3>2, <3>4, <3>5 DEF ConnInv
        <2> QED  BY <2>1, <2>2
    <1> QED  BY <1>1, <1>2, PTL DEF Spec

\* Types and buffer bounds: a receive buffer never outgrows RECV_BUF_CAP.
THEOREM TypeCorrect == Spec => []TypeOK
PROOF
    <1>1. ConnInv => TypeOK
        BY DEF ConnInv
    <1> QED  BY <1>1, ConnInvariant, PTL

\* The stream from e and all the sockets that take it.
LEMMA StreamParts ==
    ASSUME ConnInv, NEW e \in Ends, OneStream(e)
    PROVE  /\ sock[e] \in Socket /\ WindowOK(sock[e]) /\ FinOK(sock[e])
           /\ pos[e] = sock[e].sndNxt - 1
           /\ receivers(e) \subseteq Socket /\ sock[Peer(e)] \in receivers(e)
           /\ \E t \in receivers(e) : sock[e].sndUna <= t.rcvNxt
           /\ \A t \in receivers(e) : /\ t.rcvNxt <= sock[e].sndNxt
                                      /\ t.peerFinReceived => sock[e].finSeq >= 0
           /\ ~established[e] => /\ sock[e].finSeq >= 0
                                 /\ \E t \in receivers(e) : t.peerFinReceived
           /\ sock[Peer(e)].rcvNxt >= sock[e].sndUna =>
                Boundary(sock[e], sock[Peer(e)].rcvNxt)
PROOF
    <1>1. /\ Client \in Ends /\ Server \in Ends /\ Client # Server
          /\ Peer(Client) = Server /\ Peer(Server) = Client
          /\ receivers(Client) = Children(sock[Server], replaced)
        BY ReceiversAreChildren
    <1>2. Upload /\ (OneChild => Paired)
        BY ConnInvParts
    <1>3. /\ sock[e] \in Socket /\ FinOK(sock[e]) /\ pos[e] = sock[e].sndNxt - 1
          /\ sock[Client] \in Socket /\ sock[Server] \in Socket /\ replaced \in Seq(Replaced)
        BY <1>1, <1>2, UploadParts DEF SideOK
    <1>4. CASE e = Client
        <2>1. /\ WindowOK(sock[Client]) /\ InTable(sock[Client], sock[Server], got[Server])
              /\ \E t \in receivers(Client) : sock[Client].sndUna <= t.rcvNxt
              /\ ~established[Client] => /\ sock[Client].finSeq >= 0
                                         /\ \E t \in receivers(Client) : t.peerFinReceived
              /\ \A k \in 1 .. Len(replaced) :
                    ChildOK(sock[Client], replaced[k].sock, replaced[k].taken)
            BY <1>2, UploadParts
        <2>2. /\ receivers(Client) \subseteq Socket /\ sock[Server] \in receivers(Client)
              /\ \A t \in receivers(Client) :
                    t = sock[Server] \/ \E k \in 1 .. Len(replaced) : t = replaced[k].sock
            BY <1>1, <1>3, ChildrenMembers
        <2>3. \A t \in receivers(Client) : /\ t.rcvNxt <= sock[Client].sndNxt
                                           /\ t.peerFinReceived => sock[Client].finSeq >= 0
            BY <2>1, <2>2 DEF InTable, ChildOK
        <2> QED  BY <1>1, <1>3, <1>4, <2>1, <2>2, <2>3 DEF InTable
    <1>5. CASE e # Client
        <2>1. OneChild /\ Paired
            BY <1>2, <1>5 DEF OneStream
        <2>2. /\ WindowOK(sock[e]) /\ PairOK(sock[e], sock[Peer(e)]) /\ EndOK(e)
              /\ sock[Peer(e)] \in Socket
            BY <2>1, Parts
        <2>3. receivers(e) = {sock[Peer(e)]}
            BY <1>5 DEF receivers
        <2> QED  BY <1>3, <2>2, <2>3 DEF PairOK, EndOK
    <1> QED  BY <1>4, <1>5

\* A prefix that was read in order is intact.
LEMMA ReadIntact ==
    ASSUME NEW s \in Socket, NEW g \in Seq(Byte), ReadOK(s, g), NEW q \in Nat,
           s.rcvNxt <= q
    PROVE  Intact(s, g, q - 1)
PROOF
    <1> DEFINE b == s.recvBuf
               r == s.rcvNxt
    <1>1. b \in Seq(Byte) /\ r \in Nat
        BY SocketFields
    <1>2. /\ r = 1 + Len(g) + Len(b) /\ r <= q
          /\ \A n \in 1 .. Len(g) : g[n] = n
          /\ \A n \in 1 .. Len(b) : b[n] = Len(g) + n
        BY DEF ReadOK
    <1> HIDE DEF b, r
    <1>3. Len(g) \in Nat /\ Len(b) \in Nat
        BY <1>1, LenProperties
    <1>4. /\ \A n \in 1 .. Len(g) : g[n] = 0 + n
          /\ \A n \in 1 .. Len(b) : b[n] = 0 + Len(g) + n
        BY <1>2, <1>3
    <1>5. /\ Len(g \o b) = Len(g) + Len(b)
          /\ \A n \in 1 .. Len(g \o b) : (g \o b)[n] = 0 + n
        BY <1>1, <1>4, ConcatNumbered
    <1>6. \A n \in 1 .. Len(g \o b) : (g \o b)[n] = n
        BY <1>3, <1>5
    <1>7. Len(g \o b) <= q - 1 /\ r = Len(g \o b) + 1
        BY <1>1, <1>2, <1>3, <1>5
    <1> QED  BY <1>6, <1>7 DEF Intact, b, r

\* What an application reads is, byte for byte, a prefix of what the other end's
\* application wrote, whatever the network does with the packets.
THEOREM Integrity == Spec => []StreamIntegrity
PROOF
    <1>1. ASSUME ConnInv, NEW e \in Ends, OneStream(Peer(e))
          PROVE  Intact(sock[e], got[e], pos[Peer(e)])
        <2>1. Peer(e) \in Ends /\ Peer(Peer(e)) = e
            BY EndsPeer
        <2>2. /\ sock[Peer(e)] \in Socket /\ sock[e] \in receivers(Peer(e))
              /\ pos[Peer(e)] = sock[Peer(e)].sndNxt - 1
              /\ sock[e].rcvNxt <= sock[Peer(e)].sndNxt
            BY <1>1, <2>1, StreamParts
        <2>3. sock[e] \in Socket /\ got[e] \in Seq(Byte) /\ sock[Peer(e)].sndNxt \in Nat
            BY <1>1, <2>1, <2>2, ConnInvParts, UploadParts, SocketFields
        <2>4. ReadOK(sock[e], got[e])
            <3>1. CASE Peer(e) = Client
                <4>1. e = Server
                    BY <2>1, <3>1, ReceiversAreChildren
                <4>2. InTable(sock[Client], sock[Server], got[Server])
                    BY <1>1, ConnInvParts, UploadParts
                <4> QED  BY <4>1, <4>2 DEF InTable, ChildOK
            <3>2. CASE Peer(e) # Client
                <4>1. Paired
                    BY <1>1, <3>2, ConnInvParts DEF OneStream
                <4> QED  BY <4>1, Parts
            <3> QED  BY <3>1, <3>2
        <2>5. Intact(sock[e], got[e], sock[Peer(e)].sndNxt - 1)
            BY <2>2, <2>3, <2>4, ReadIntact
        <2> QED  BY <2>2, <2>5
    <1>2. ASSUME ConnInv, NEW k \in 1 .. Len(replaced)
          PROVE  Intact(replaced[k].sock, replaced[k].taken, pos[Client])
        <2>1. /\ replaced \in Seq(Replaced) /\ sock[Client] \in Socket /\ Client \in Ends
              /\ ChildOK(sock[Client], replaced[k].sock, replaced[k].taken)
            BY <1>2, ConnInvParts, UploadParts, ReceiversAreChildren
        <2>2. replaced[k].sock \in Socket /\ replaced[k].taken \in Seq(Byte)
            <3>1. replaced[k] \in Replaced
                BY <2>1, ElementOfSeq
            <3> QED  BY <3>1 DEF Replaced
        <2>3. pos[Client] = sock[Client].sndNxt - 1 /\ sock[Client].sndNxt \in Nat
            BY <1>2, <2>1, StreamParts, SocketFields DEF OneStream
        <2>4. Intact(replaced[k].sock, replaced[k].taken, sock[Client].sndNxt - 1)
            BY <2>1, <2>2, <2>3, ReadIntact DEF ChildOK
        <2> QED  BY <2>3, <2>4
    <1>3. ConnInv => StreamIntegrity
        BY <1>1, <1>2 DEF StreamIntegrity
    <1> QED  BY <1>3, ConnInvariant, PTL

\* A byte is acknowledged only after a socket of the peer has taken it.
THEOREM AcknowledgedReceived == Spec => []AckedIsReceived
PROOF
    <1>1. ConnInv => AckedIsReceived
        BY StreamParts DEF AckedIsReceived
    <1> QED  BY <1>1, ConnInvariant, PTL

\* Whatever the network loses, the sender holds the segment that the receiver
\* waits for, and its retransmission timer runs; after a repeated SYN as long as
\* the new child misses nothing that is acknowledged.
THEOREM AlwaysRecoverable == Spec => []Recoverable
PROOF
    <1>1. ASSUME ConnInv, NEW e \in Ends,
                 OneChild \/ (e = Client /\ sock[e].sndUna <= sock[Peer(e)].rcvNxt),
                 sock[Peer(e)].rcvNxt < sock[e].sndNxt
          PROVE  /\ sock[e].armed
                 /\ \E j \in DOMAIN sock[e].outstanding :
                        sock[e].outstanding[j].seqStart = sock[Peer(e)].rcvNxt
        <2>1. /\ sock[e] \in Socket /\ sock[Peer(e)] \in Socket /\ WindowOK(sock[e])
              /\ sock[Peer(e)].rcvNxt >= sock[e].sndUna =>
                    Boundary(sock[e], sock[Peer(e)].rcvNxt)
            BY <1>1, StreamParts DEF OneStream
        <2>2. sock[e].sndUna <= sock[Peer(e)].rcvNxt
            <3>1. OneChild => PairOK(sock[e], sock[Peer(e)])
                BY <1>1, ConnInvParts, Parts
            <3> QED  BY <1>1, <3>1 DEF PairOK
        <2>3. /\ sock[Peer(e)].rcvNxt # sock[e].sndNxt
              /\ sock[Peer(e)].rcvNxt >= sock[e].sndUna
            BY <1>1, <2>1, <2>2, SocketFields
        <2>4. \E j \in DOMAIN sock[e].outstanding :
                sock[e].outstanding[j].seqStart = sock[Peer(e)].rcvNxt
            BY <2>1, <2>3 DEF Boundary
        <2>5. sock[e].outstanding # <<>>
            BY <2>4
        <2>6. sock[e].armed
            BY <2>1, <2>5 DEF WindowOK
        <2> QED  BY <2>4, <2>6
    <1>2. ConnInv => Recoverable
        BY <1>1 DEF Recoverable, Repairable
    <1> QED  BY <1>2, ConnInvariant, PTL

\* When the FIN of e has its number, everything before it is acknowledged, and so
\* one of the receivers has it all.
LEMMA FinishedStream ==
    ASSUME ConnInv, NEW e \in Ends, OneStream(e), sock[e].finSeq >= 0
    PROVE  /\ sock[e].finSeq = sock[e].sndNxt
           /\ \E t \in receivers(e) : t.rcvNxt = sock[e].sndNxt
PROOF
    <1>1. /\ sock[e] \in Socket /\ WindowOK(sock[e]) /\ FinOK(sock[e])
          /\ receivers(e) \subseteq Socket
          /\ \E t \in receivers(e) : sock[e].sndUna <= t.rcvNxt
          /\ \A t \in receivers(e) : t.rcvNxt <= sock[e].sndNxt
        BY StreamParts
    <1>2. sock[e].finSeq = sock[e].sndNxt /\ sock[e].sndUna = sock[e].sndNxt
        BY <1>1 DEF FinOK, WindowOK
    <1>3. PICK t \in receivers(e) : sock[e].sndUna <= t.rcvNxt
        BY <1>1
    <1>4. t.rcvNxt \in Nat /\ sock[e].sndNxt \in Nat /\ t.rcvNxt <= sock[e].sndNxt
        BY <1>1, SocketFields
    <1>5. t.rcvNxt = sock[e].sndNxt
        BY <1>2, <1>3, <1>4
    <1> QED  BY <1>2, <1>5

\* A FIN ends a stream only after the whole of it.
THEOREM EndOfStreamComplete == Spec => []EofComplete
PROOF
    <1>1. ASSUME ConnInv, NEW e \in Ends, OneStream(e), NEW t \in receivers(e), t.peerFinReceived
          PROVE  /\ sock[e].finSeq = sock[e].sndNxt
                 /\ \E u \in receivers(e) : u.rcvNxt = sock[e].sndNxt
        <2>1. sock[e].finSeq >= 0
            BY <1>1, StreamParts
        <2> QED  BY <1>1, <2>1, FinishedStream
    <1>2. ASSUME ConnInv, NEW e \in Ends, OneChild, sock[e].state = "CLOSED", established[e]
          PROVE  Len(got[e]) = pos[Peer(e)]
        <2> DEFINE p == Peer(e)
        <2>1. Paired /\ p \in Ends /\ Peer(p) = e /\ OneStream(p)
            BY <1>2, ConnInvParts, EndsPeer DEF OneStream
        <2>2. sock[e] \in Socket /\ ReadOK(sock[e], got[e]) /\ EndOK(e) /\ got[e] \in Seq(Byte)
            BY <2>1, Parts
        <2>3. sock[e].peerFinReceived /\ sock[e].recvBuf = <<>>
            BY <1>2, <2>2 DEF EndOK
        <2>4. sock[e].rcvNxt = 1 + Len(got[e]) + Len(<<>>)
            BY <2>2, <2>3 DEF ReadOK
        <2> HIDE DEF p
        <2>5. /\ sock[p] \in Socket /\ pos[p] = sock[p].sndNxt - 1
              /\ sock[e] \in receivers(p)
            BY <1>2, <2>1, StreamParts
        <2>6. receivers(p) = {sock[e]}
            BY <1>2, <2>1 DEF receivers, OneChild
        <2>7. sock[e].rcvNxt = sock[p].sndNxt
            BY <1>1, <1>2, <2>1, <2>3, <2>5, <2>6
        <2>8. Len(got[e]) \in Nat /\ sock[p].sndNxt \in Nat
            BY <2>2, <2>5, LenProperties, SocketFields
        <2>9. Len(got[e]) = pos[p]
            BY <2>4, <2>5, <2>7, <2>8
        <2> QED  BY <2>9 DEF p
    <1>3. ConnInv => EofComplete
        BY <1>1, <1>2 DEF EofComplete
    <1> QED  BY <1>3, ConnInvariant, PTL

\* A connection that its own side saw through to the end left nothing behind.
THEOREM ClosedReceived == Spec => []CloseMeansReceived
PROOF
    <1>1. ASSUME ConnInv, NEW e \in Ends, ~established[e], OneStream(e)
          PROVE  /\ \E t \in receivers(e) : t.rcvNxt = pos[e] + 1
                 /\ \E t \in receivers(e) : t.peerFinReceived
        <2>1. /\ sock[e].finSeq >= 0 /\ \E t \in receivers(e) : t.peerFinReceived
              /\ pos[e] = sock[e].sndNxt - 1 /\ sock[e] \in Socket
            BY <1>1, StreamParts
        <2>2. \E t \in receivers(e) : t.rcvNxt = sock[e].sndNxt
            BY <1>1, <2>1, FinishedStream
        <2>3. pos[e] + 1 = sock[e].sndNxt
            BY <2>1, SocketFields
        <2> QED  BY <2>1, <2>2, <2>3
    <1>2. ASSUME ConnInv, NEW e \in Ends, ~established[e]  PROVE  sock[e].state = "CLOSED"
        BY <1>2 DEF ConnInv, SideOK
    <1>3. ConnInv => CloseMeansReceived
        BY <1>1, <1>2 DEF CloseMeansReceived
    <1> QED  BY <1>3, ConnInvariant, PTL

\* No step takes back an acknowledgement, a received byte or a FIN.
THEOREM OnlyForward == Spec => ForwardOnly
PROOF
    <1> DEFINE Fwd == \A e \in Ends : SameSocket(e) =>
                /\ sock[e].sndUna <= sock'[e].sndUna
                /\ sock[e].rcvNxt <= sock'[e].rcvNxt
                /\ sock[e].finSeq >= 0 => /\ sock'[e].finSeq = sock[e].finSeq
                                          /\ sock'[e].sndNxt = sock[e].sndNxt
    <1>1. ConnInv /\ [Next]_vars => [Fwd]_vars
        <2>1. ASSUME ConnInv, Next  PROVE  Fwd
            <3>1. \A e \in Ends : SameSocket(e) => Moves(sock[e], sock'[e])
                BY <2>1, NextConnInv
            <3> QED  BY <3>1 DEF Moves
        <2> QED  BY <2>1
    <1>2. Spec => [][Fwd]_vars
        BY <1>1, ConnInvariant, PTL DEF Spec
    <1> QED  BY <1>2 DEF ForwardOnly

\* No step moves the right edge of a receiver's window to the left: what an
\* acknowledgement has promised stays promised.
THEOREM PromiseKept == Spec => WindowNeverShrinks
PROOF
    <1> DEFINE Kept == \A e \in Ends : SameSocket(e) =>
                sock[e].rcvNxt + getRecvBufAvailable(sock[e])
                    <= sock'[e].rcvNxt + getRecvBufAvailable(sock'[e])
    <1>1. ConnInv /\ [Next]_vars => [Kept]_vars
        <2>1. ASSUME ConnInv, Next  PROVE  Kept
            <3>1. \A e \in Ends : SameSocket(e) => Moves(sock[e], sock'[e])
                BY <2>1, NextConnInv
            <3> QED  BY <3>1 DEF Moves
        <2> QED  BY <2>1
    <1>2. Spec => [][Kept]_vars
        BY <1>1, ConnInvariant, PTL DEF Spec
    <1> QED  BY <1>2 DEF WindowNeverShrinks

\* The retransmission buffer is exactly the unacknowledged window.
THEOREM WindowOutstanding == Spec => []WindowIsOutstanding
PROOF
    <1>1. ASSUME ConnInv, NEW e \in Ends, OneStream(e)
          PROVE  LET out == sock[e].outstanding
                     starts == [j \in 1 .. Len(out) + 1 |->
                                  IF j <= Len(out) THEN out[j].seqStart ELSE sock[e].sndNxt]
                 IN  /\ starts[1] = sock[e].sndUna
                     /\ \A j \in 1 .. Len(out) : /\ segEnd(out[j]) = starts[j + 1]
                                                 /\ Len(out[j].data) \in 1 .. MSS
        <2> DEFINE s == sock[e]
                   out == s.outstanding
                   starts == [j \in 1 .. Len(out) + 1 |->
                                IF j <= Len(out) THEN out[j].seqStart ELSE s.sndNxt]
        <2>1. s \in Socket /\ WindowOK(s)
            BY <1>1, StreamParts
        <2> HIDE DEF s
        <2>2. out \in Seq(Segment)
            BY <2>1, SocketFields
        <2>3. /\ s.sndUna = IF out = <<>> THEN s.sndNxt ELSE out[1].seqStart
              /\ \A j \in 1 .. Len(out) :
                    /\ Numbered(out[j].seqStart, out[j].data)
                    /\ segEnd(out[j]) = IF j = Len(out) THEN s.sndNxt
                                        ELSE out[j + 1].seqStart
            BY <2>1 DEF WindowOK
        <2> HIDE DEF out
        <2>4. Len(out) \in Nat /\ (out = <<>> <=> Len(out) = 0)
            BY <2>2, LenProperties, EmptySeq
        <2>5. starts[1] = s.sndUna
            BY <2>3, <2>4
        <2>6. ASSUME NEW j \in 1 .. Len(out)
              PROVE  segEnd(out[j]) = starts[j + 1] /\ Len(out[j].data) \in 1 .. MSS
            <3>1. Len(out[j].data) \in 1 .. MSS
                BY <2>3 DEF Numbered
            <3>2. CASE j = Len(out)
                BY <2>3, <2>4, <3>1, <3>2
            <3>3. CASE j # Len(out)
                <4>1. j + 1 \in 1 .. Len(out) + 1 /\ j + 1 <= Len(out)
                    BY <2>4, <3>3
                <4> QED  BY <2>3, <3>1, <3>3, <4>1
            <3> QED  BY <3>2, <3>3
        <2> QED  BY <2>5, <2>6 DEF s, out
    <1>2. ConnInv => WindowIsOutstanding
        BY <1>1 DEF WindowIsOutstanding
    <1> QED  BY <1>2, ConnInvariant, PTL

=============================================================================
