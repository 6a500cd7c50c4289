------------------------------ MODULE TcpManager ------------------------------
(***************************************************************************)
(* The TcpManager of one node: every socket it has made and the tables     *)
(* that take an arriving packet to its socket, with the TcpSocket methods  *)
(* that use those tables.  A manager is a record; a method is an operator  *)
(* from a manager to a manager, or to [m |-> manager, out |-> packets] if  *)
(* it sends.  n is always the address of the node.                         *)
(*                                                                         *)
(* A socket is named by its index in allSockets_, which only grows.        *)
(* sendSyn, sendFin, sendData and sendAck fail only on arguments that the  *)
(* callers here cannot pass, so that their error paths are left out.       *)
(***************************************************************************)
EXTENDS TcpSocket, Functions

CONSTANT MAX_PORT_NUM   \* Transport::MAX_PORT_NUM (255 in the code)

NONE == -1              \* an address or port that is not set

\* A socket as constructed: the connection of TcpSocket and its addresses.
newSocket ==
    LET addresses == [localPort |-> NONE, remoteAddr |-> NONE, remotePort |-> NONE,
                      synSeq |-> 0, backlog |-> 0, pendingConnQueue |-> <<>>]
    IN  [f \in DOMAIN NewSocket \cup DOMAIN addresses |->
            IF f \in DOMAIN NewSocket THEN NewSocket[f] ELSE addresses[f]]

NewManager ==
    [allSockets |-> <<>>, listenersByPort |-> <<>>,
     synPendingByKey |-> <<>>, establishedByKey |-> <<>>]

\* ConnKey, from a socket and from the packet that should reach it.
connKey(s) == <<s.remoteAddr, s.remotePort, s.localPort>>
pktKey(p) == <<p.src, p.srcPort, p.destPort>>

\* table[key] = value of an unordered_map, and its erase.
put(table, key, value) ==
    [k \in DOMAIN table \cup {key} |-> IF k = key THEN value ELSE table[k]]
erase(table, key) == Restrict(table, DOMAIN table \ {key})
eraseSocket(table, id) == Restrict(table, {k \in DOMAIN table : table[k] # id})

\* A segment from socket s, and an answer to packet p.
fromSocket(n, s, seg) ==
    [src |-> n, srcPort |-> s.localPort,
     dest |-> s.remoteAddr, destPort |-> s.remotePort, seg |-> seg]
answerTo(n, p, seg) ==
    [src |-> n, srcPort |-> p.destPort,
     dest |-> p.src, destPort |-> p.srcPort, seg |-> seg]

synPkt(seq) == [type |-> "SYN", seq |-> seq, window |-> 0, data |-> <<>>]

\* Socket id becomes s and sends segs.
socketSends(m, n, id, s, segs) ==
    [m |-> [m EXCEPT !.allSockets[id] = s],
     out |-> [j \in DOMAIN segs |-> fromSocket(n, s, segs[j])]]

-----------------------------------------------------------------------------
(* The tables: a new entry replaces one with the same key. *)

registerListener(m, id, port) ==
    [m EXCEPT !.listenersByPort = put(@, port, id)]

registerSynPending(m, id, key) ==
    [m EXCEPT !.synPendingByKey = put(@, key, id)]

registerEstablished_Forgotten(m, id, key) == m

registerEstablished(m, id, key) ==
    [m EXCEPT !.establishedByKey = put(@, key, id)]

-----------------------------------------------------------------------------
(* Socket methods that use the manager. *)

\* socket() followed by bind(); the new socket is the last one.
socketBound(m, localPort) ==
    [m EXCEPT !.allSockets =
        Append(@, [newSocket EXCEPT !.localPort = localPort])]

listen(m, id, backlog) ==
    IF m.allSockets[id].state # "CLOSED" THEN m
    ELSE registerListener(
            [m EXCEPT !.allSockets[id].state = "LISTEN",
                      !.allSockets[id].backlog = backlog],
            id, m.allSockets[id].localPort)

\* Nothing happens when a port is out of range.
connect(m, n, id, destAddr, destPort) ==
    LET s == m.allSockets[id]
        syn == [s EXCEPT !.remoteAddr = destAddr, !.remotePort = destPort,
                         !.synSeq = s.sndNxt, !.state = "SYN_SENT"]
        sent == socketSends(m, n, id, syn, <<synPkt(syn.synSeq)>>)
    IN  IF s.localPort < 0 \/ destPort \notin 0 .. MAX_PORT_NUM
        THEN [m |-> m, out |-> <<>>]
        ELSE [sent EXCEPT !.m = registerSynPending(@, id, connKey(syn))]

\* accept() returns the socket that has waited longest, if there is one.
hasPending(m, id) ==
    /\ m.allSockets[id].state = "LISTEN"
    /\ m.allSockets[id].pendingConnQueue # <<>>

accept(m, id) ==
    LET conn == Head(m.allSockets[id].pendingConnQueue)
    IN  [m EXCEPT !.allSockets[id].pendingConnQueue = Tail(@),
                  !.allSockets[conn].state =
                        IF @ # "CLOSED" THEN "ESTABLISHED" ELSE @]

drained(m, n, id, s) ==
    socketSends(m, n, id, maybeSendFinOnDrain(s), finPkts(s))

close(m, n, id) ==
    LET s == m.allSockets[id]
    IN  CASE s.state \in {"LISTEN", "SYN_SENT"} ->
                socketSends(m, n, id, markClosed(s), <<>>)
          [] s.state = "ESTABLISHED" ->
                drained(m, n, id, [s EXCEPT !.state = "SHUTDOWN"])
          [] OTHER -> [m |-> m, out |-> <<>>]

unregisterSocket_WholePort(m, id) ==
    LET other(table) ==
            Restrict(table, {k \in DOMAIN table :
                m.allSockets[table[k]].localPort # m.allSockets[id].localPort})
    IN  [m EXCEPT !.synPendingByKey = other(@), !.establishedByKey = other(@)]

unregisterSocket(m, id) ==
    [m EXCEPT !.listenersByPort = eraseSocket(@, id),
              !.synPendingByKey = eraseSocket(@, id),
              !.establishedByKey = eraseSocket(@, id)]

\* A socket that is already CLOSED keeps its table entries.
release(m, id) ==
    IF m.allSockets[id].state = "CLOSED" THEN m
    ELSE [unregisterSocket(m, id) EXCEPT !.allSockets[id] =
            [@ EXCEPT !.pendingConnQueue = <<>>, !.backlog = 0,
                      !.remoteAddr = NONE, !.remotePort = NONE,
                      !.localPort = NONE, !.state = "CLOSED"]]

-----------------------------------------------------------------------------
(* TcpManager::receiveTransport. *)

enqueueAccepted(listener, child) ==
    [listener EXCEPT !.pendingConnQueue =
        IF Len(@) < listener.backlog THEN Append(@, child) ELSE @]

\* The child is registered and acknowledged even if the backlog is full.
onSyn(m, n, p) ==
    LET child == [initAccepted(newSocket) EXCEPT
                    !.localPort = p.destPort,
                    !.remoteAddr = p.src, !.remotePort = p.srcPort]
        made == [m EXCEPT !.allSockets = Append(@, child)]
        id == Len(made.allSockets)
        listener == m.listenersByPort[p.destPort]
        queued == [made EXCEPT !.allSockets[listener] = enqueueAccepted(@, id)]
    IN  IF p.destPort \notin DOMAIN m.listenersByPort
        THEN [m |-> m, out |-> <<answerTo(n, p, finPkt(0))>>]
        ELSE [m |-> registerEstablished(queued, id, connKey(child)),
              out |-> <<answerTo(n, p, ackPkt(child, p.seg.seq + 1))>>]

\* An acknowledgement for a socket in SYN_SENT.
onAckPending(m, p) ==
    LET id == m.synPendingByKey[pktKey(p)]
        s == m.allSockets[id]
        m2 == registerEstablished(
                [m EXCEPT
                    !.synPendingByKey = erase(@, pktKey(p)),
                    !.allSockets[id] = markEstablished(setRwnd(s, p.seg.window))],
                id, pktKey(p))
    IN  [m |-> IF p.seg.seq = s.synSeq + 1 THEN m2 ELSE m, out |-> <<>>]

\* An acknowledgement for a socket of establishedByKey_.
onAckEstablished(m, n, p) ==
    LET id == m.establishedByKey[pktKey(p)]
        s == m.allSockets[id]
        ackNum == p.seg.seq
    IN  CASE acksFin(s, ackNum) ->
                [m |-> [m EXCEPT !.establishedByKey = erase(@, pktKey(p)),
                                 !.allSockets[id] = markClosed(@)],
                 out |-> <<>>]
          [] ~acksFin(s, ackNum) /\ acksNew(s, ackNum) ->
                drained(m, n, id, acked(s, ackNum, p.seg.window))
          [] /\ ~acksFin(s, ackNum) /\ ~acksNew(s, ackNum)
             /\ isOpen(s) /\ ackNum <= s.sndUna ->
                socketSends(m, n, id, setRwnd(s, p.seg.window), <<>>)
          [] OTHER -> [m |-> m, out |-> <<>>]

onAck(m, n, p) ==
    IF pktKey(p) \in DOMAIN m.synPendingByKey THEN onAckPending(m, p)
    ELSE IF pktKey(p) \in DOMAIN m.establishedByKey THEN onAckEstablished(m, n, p)
    ELSE [m |-> m, out |-> <<>>]

refused_Stays(m, key) ==
    [m EXCEPT !.allSockets[m.synPendingByKey[key]] = markClosed(@)]

refused_Ignored(m, key) == m

\* A FIN for a socket in SYN_SENT says that nobody listens.
refused(m, key) ==
    [m EXCEPT !.synPendingByKey = erase(@, key),
              !.allSockets[m.synPendingByKey[key]] = markClosed(@)]

onFin(m, n, p) ==
    LET key == pktKey(p)
        id == m.establishedByKey[key]
        s == markPeerFinReceived(m.allSockets[id])
    IN  IF key \in DOMAIN m.establishedByKey
        THEN [m |-> [m EXCEPT !.allSockets[id] = s],
              out |-> <<answerTo(n, p, ackPkt(s, p.seg.seq + 1))>>]
        ELSE [m |-> IF key \in DOMAIN m.synPendingByKey THEN refused(m, key) ELSE m,
              out |-> <<>>]

onData(m, n, p) ==
    LET id == m.establishedByKey[pktKey(p)]
        s == m.allSockets[id]
        s2 == IF acceptable(s, p.seg) THEN appendToRecvBuf(s, p.seg.data) ELSE s
    IN  IF pktKey(p) \in DOMAIN m.establishedByKey /\ isOpen(s)
        THEN socketSends(m, n, id, s2, <<ackPkt(s2, s2.rcvNxt)>>)
        ELSE [m |-> m, out |-> <<>>]

\* A retransmission tick for one socket of the table whose deadline has passed.
retransmit(m, n, id) ==
    LET s == m.allSockets[id]
    IN  socketSends(m, n, id, multiplicativeDecreaseCwnd(doubleRto(s)),
                    dataPkts(s.outstanding))

=============================================================================
