------------------------------ MODULE TcpSocket ------------------------------
(***************************************************************************)
(* The state of one TcpSocket and its methods, as operators from a socket  *)
(* record to a socket record.  A method that sends leaves the packets to   *)
(* its caller: dataPkts, finPkts and ackPkt say which ones go out.         *)
(*                                                                         *)
(* Time is abstracted: `armed` stands for nextRtoDeadlineMs_ # 0, and an   *)
(* armed deadline may be reached at any retransmission tick, because link  *)
(* delay and bandwidth are free parameters of the topology.  The RTT       *)
(* estimate is left out: nothing reads estRTTms_ or devRTTms_.  recvBufUsed_*)
(* is Len(recvBuf).                                                        *)
(*                                                                         *)
(* An operator named X_Y is a faulty variant of X that some property must  *)
(* tell from X; nothing else uses it.                                      *)
(***************************************************************************)
EXTENDS Integers, Sequences

CONSTANTS
    MSS,              \* Transport::MAX_PAYLOAD_SIZE (107 in the code)
    RECV_BUF_CAP,     \* bytes a receiver buffers (32 KiB in the code)
    RTO_INITIAL_MS,   \* first retransmission timeout
    RTO_MAX_MS        \* where doubling stops

ASSUME SocketConstants ==
    /\ MSS \in Nat \ {0}
    /\ RECV_BUF_CAP \in Nat \ {0}
    /\ RTO_INITIAL_MS \in Nat \ {0}
    /\ RTO_MAX_MS \in Nat \ {0}

min(a, b) == IF a <= b THEN a ELSE b
max(a, b) == IF a >= b THEN a ELSE b

States == {"CLOSED", "LISTEN", "SYN_SENT", "ESTABLISHED", "SHUTDOWN"}

Byte == Nat
Segment == [seqStart : Nat, data : Seq(Byte)]
Packet == [type : {"SYN", "ACK", "FIN", "DATA"}, seq : Nat,
           window : Nat, data : Seq(Byte)]

Socket == [state : States,
           sndUna : Nat, sndNxt : Nat, rcvNxt : Nat,
           recvBuf : Seq(Byte),
           finSeq : Nat \cup {-1},
           peerFinReceived : BOOLEAN,
           outstanding : Seq(Segment),
           armed : BOOLEAN,
           rtoMs : Nat, rwnd : Nat, cwnd : Nat]

-----------------------------------------------------------------------------
(* Construction and the end of the handshake. *)

NewSocket ==
    [state |-> "CLOSED", sndUna |-> 0, sndNxt |-> 0, rcvNxt |-> 0,
     recvBuf |-> <<>>, finSeq |-> -1, peerFinReceived |-> FALSE,
     outstanding |-> <<>>, armed |-> FALSE, rtoMs |-> RTO_INITIAL_MS,
     rwnd |-> RECV_BUF_CAP, cwnd |-> MSS]

initAccepted(s) ==
    [s EXCEPT !.sndUna = 1, !.sndNxt = 1, !.rcvNxt = 1, !.cwnd = MSS,
              !.state = "ESTABLISHED"]

markEstablished(s) ==
    IF s.state = "CLOSED" THEN s
    ELSE [s EXCEPT !.sndUna = 1, !.sndNxt = 1, !.rcvNxt = 1, !.cwnd = MSS,
                   !.peerFinReceived = FALSE, !.state = "ESTABLISHED"]

-----------------------------------------------------------------------------
(* Predicates and windows. *)

isOpen(s) == s.state \in {"ESTABLISHED", "SHUTDOWN"}
hasOutstanding(s) == s.outstanding # <<>>
getRecvBufAvailable_OneTooMany(s) == RECV_BUF_CAP + 1 - Len(s.recvBuf)
getRecvBufAvailable(s) == RECV_BUF_CAP - Len(s.recvBuf)
effectiveWindow_CwndOnly(s) == s.cwnd
effectiveWindow(s) == min(s.rwnd, s.cwnd)
bytesInFlight(s) == s.sndNxt - s.sndUna
segEnd(seg) == seg.seqStart + Len(seg.data)

finDue_NoDrain(s) == s.state = "SHUTDOWN" /\ s.finSeq < 0

\* The FIN goes out once, when a socket in SHUTDOWN has nothing outstanding.
finDue(s) == s.state = "SHUTDOWN" /\ s.finSeq < 0 /\ ~hasOutstanding(s)

acksFin_OneTooLow(s, ackNum) ==
    s.state = "SHUTDOWN" /\ s.finSeq >= 0 /\ ackNum = s.finSeq

\* The acknowledgement that ends a connection this side has finished.
acksFin(s, ackNum) ==
    s.state = "SHUTDOWN" /\ s.finSeq >= 0 /\ ackNum = s.finSeq + 1

acksNew_Stale(s, ackNum) == isOpen(s) /\ ackNum <= s.sndNxt

\* An acknowledgement of a byte that is still unacknowledged.
acksNew(s, ackNum) == isOpen(s) /\ s.sndUna < ackNum /\ ackNum <= s.sndNxt

-----------------------------------------------------------------------------
(* Packets. *)

ackPkt(s, ackNum) ==
    [type |-> "ACK", seq |-> ackNum, window |-> getRecvBufAvailable(s),
     data |-> <<>>]

finPkt(seq) == [type |-> "FIN", seq |-> seq, window |-> 0, data |-> <<>>]

dataPkts(segs) ==
    [j \in DOMAIN segs |-> [type |-> "DATA", seq |-> segs[j].seqStart,
                            window |-> 0, data |-> segs[j].data]]

finPkts(s) == IF finDue(s) THEN <<finPkt(s.sndNxt)>> ELSE <<>>

-----------------------------------------------------------------------------
(* The sending half. *)

\* How many of len bytes the window lets write() take.
writable(s, len) == max(0, min(len, effectiveWindow(s) - bytesInFlight(s)))

\* write() cuts what it takes into segments of MSS bytes, the last one shorter.
chunks(seqStart, bytes) ==
    [j \in 1 .. ((Len(bytes) + MSS - 1) \div MSS) |->
        [seqStart |-> seqStart + (j - 1) * MSS,
         data |-> SubSeq(bytes, (j - 1) * MSS + 1, min(j * MSS, Len(bytes)))]]

\* The segments a call of write() sends.
written(s, bytes) ==
    chunks(s.sndNxt, SubSeq(bytes, 1, writable(s, Len(bytes))))

write_NoTimer(s, bytes) ==
    [s EXCEPT !.outstanding = @ \o written(s, bytes),
              !.sndNxt = @ + writable(s, Len(bytes))]

write_AllCounted(s, bytes) ==
    [s EXCEPT !.outstanding = @ \o written(s, bytes),
              !.sndNxt = @ + Len(bytes), !.armed = TRUE]

write(s, bytes) ==
    LET n == writable(s, Len(bytes))
    IN  [s EXCEPT !.outstanding = @ \o written(s, bytes),
                  !.sndNxt = @ + n,
                  !.armed = IF ~hasOutstanding(s) /\ n > 0 THEN TRUE ELSE @]

firstUnacked_ByStart(segs, ackNum) ==
    CHOOSE f \in 1 .. Len(segs) + 1 :
        /\ \A i \in 1 .. f - 1 : segs[i].seqStart <= ackNum
        /\ f <= Len(segs) => segs[f].seqStart > ackNum

\* Index of the first segment that ackNum does not cover completely.
firstUnacked(segs, ackNum) ==
    CHOOSE f \in 1 .. Len(segs) + 1 :
        /\ \A i \in 1 .. f - 1 : segEnd(segs[i]) <= ackNum
        /\ f <= Len(segs) => segEnd(segs[f]) > ackNum

popAckedThrough(s, ackNum) ==
    LET f == firstUnacked(s.outstanding, ackNum)
        rest == SubSeq(s.outstanding, f, Len(s.outstanding))
    IN  [s EXCEPT !.outstanding = rest, !.sndUna = ackNum,
                  !.armed = rest # <<>>]

additiveIncreaseCwnd(s) ==
    [s EXCEPT !.cwnd = @ + max(1, (MSS * MSS) \div max(@, MSS))]

multiplicativeDecreaseCwnd(s) == [s EXCEPT !.cwnd = max(MSS, @ \div 2)]

doubleRto(s) == [s EXCEPT !.rtoMs = min(2 * @, RTO_MAX_MS)]

setRwnd(s, w) == [s EXCEPT !.rwnd = max(0, w)]

maybeSendFinOnDrain(s) ==
    IF finDue(s) THEN [s EXCEPT !.finSeq = s.sndNxt] ELSE s

\* What an acknowledgement of new data makes of the socket, before the FIN.
acked(s, ackNum, window) ==
    additiveIncreaseCwnd(popAckedThrough(setRwnd(s, window), ackNum))

-----------------------------------------------------------------------------
(* The receiving half. *)

acceptable_AnyOrder(s, pkt) ==
    pkt.data # <<>> /\ Len(pkt.data) <= getRecvBufAvailable(s)

\* Go-back-N: only the segment that is next in order is taken, and only whole.
acceptable(s, pkt) ==
    /\ pkt.data # <<>>
    /\ pkt.seq = s.rcvNxt
    /\ Len(pkt.data) <= getRecvBufAvailable(s)

appendToRecvBuf_RcvNxtStays(s, bytes) == [s EXCEPT !.recvBuf = @ \o bytes]

\* With the setRcvNxt that onData adds.
appendToRecvBuf(s, bytes) ==
    LET n == min(Len(bytes), getRecvBufAvailable(s))
    IN  [s EXCEPT !.recvBuf = @ \o SubSeq(bytes, 1, n), !.rcvNxt = @ + n]

read_EofEarly(s, len) ==
    LET n == min(len, Len(s.recvBuf))
    IN  [s EXCEPT !.recvBuf = SubSeq(@, n + 1, Len(@)),
                  !.state = IF s.peerFinReceived THEN "CLOSED" ELSE @]

read_EofOnlyWithData(s, len) ==
    LET n == min(len, Len(s.recvBuf))
        rest == SubSeq(s.recvBuf, n + 1, Len(s.recvBuf))
    IN  [s EXCEPT !.recvBuf = rest,
                  !.state = IF s.peerFinReceived /\ n > 0 /\ rest = <<>>
                            THEN "CLOSED" ELSE @]

\* read(): the buffer that stays, and the end of stream once it is empty.
read(s, len) ==
    LET n == min(len, Len(s.recvBuf))
        rest == SubSeq(s.recvBuf, n + 1, Len(s.recvBuf))
    IN  [s EXCEPT !.recvBuf = rest,
                  !.state = IF s.peerFinReceived /\ rest = <<>>
                            THEN "CLOSED" ELSE @]

markPeerFinReceived(s) ==
    [s EXCEPT !.peerFinReceived = TRUE,
              !.state = IF @ = "ESTABLISHED" THEN "SHUTDOWN" ELSE @]

markClosed(s) == [s EXCEPT !.state = "CLOSED"]

=============================================================================
