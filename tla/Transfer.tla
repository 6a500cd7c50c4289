------------------------------- MODULE Transfer -------------------------------
(***************************************************************************)
(* The transfer application on a network of StackNodes: the `transfer` and *)
(* `server` commands, the TransferClient, TransferServer and TransferWorker*)
(* tasks with their ticks, and the TcpManagers they use, from the first    *)
(* SYN to the last ACK, connections sharing links and reusing ports.       *)
(*                                                                         *)
(* A tick that finds its socket in a state in which it returns at once     *)
(* changes nothing and is left out.  Links deliver in order, as the        *)
(* simulator's do.                                                         *)
(***************************************************************************)
EXTENDS TcpManager, FiniteSets

CONSTANTS
    Nodes,         \* addresses
    Scenarios,     \* what is played, one of these:
                   \* [transfers : the transfer commands the user gives, each once,
                   \*    a set of [id, node, dest, port, localPort, amount, sz],
                   \*  losses : how many packets the network loses besides,
                   \*  timeouts : how many retransmission deadlines pass]
    ServerCmds,    \* the server commands: [node, port, backlog, sz]
    ByteValues,    \* values of a byte (256 in the code)
    LinkBuf        \* packets on the way over one link; the rest is dropped

TransferCmds == UNION {sc.transfers : sc \in Scenarios}

ASSUME TransferConstants ==
    /\ LinkBuf \in Nat \ {0} /\ ByteValues \in Nat \ {0}
    /\ \A sc \in Scenarios : sc.losses \in Nat /\ sc.timeouts \in Nat
    /\ \A c \in TransferCmds :
        /\ c.node \in Nodes /\ c.dest \in Nodes \ {c.node}
        /\ c.port \in Int /\ c.localPort \in 0 .. MAX_PORT_NUM
        /\ c.amount \in Int /\ c.sz \in Nat \ {0}
    /\ \A c \in ServerCmds :
        /\ c.node \in Nodes /\ c.port \in 0 .. MAX_PORT_NUM
        /\ c.backlog \in Nat /\ c.sz \in Nat \ {0}

ServerPorts(n) == {c.port : c \in {d \in ServerCmds : d.node = n}}
ClientPorts(n) == {c.localPort : c \in {d \in TransferCmds : d.node = n}}

VARIABLES
    tcp,       \* tcp[n]: the TcpManager of node n
    clients,   \* clients[n][s]: the TransferClient on socket s of node n
    servers,   \* servers[n][s]: the TransferServer on socket s
    workers,   \* workers[n][s]: the TransferWorker on socket s
    todo,      \* the commands still to be given
    shared,    \* history: the connections <<node, key>> for which a transfer was
               \* started while an earlier one was still using it
    net,       \* net[a][b]: the packets on their way from a to b, oldest first
    losses,    \* packets that may still be lost
    timeouts   \* deadlines that may still pass

vars == <<tcp, clients, servers, workers, todo, shared, net, losses, timeouts>>

Init ==
    /\ tcp = [n \in Nodes |-> NewManager]
    /\ clients = [n \in Nodes |-> <<>>]
    /\ servers = [n \in Nodes |-> <<>>]
    /\ workers = [n \in Nodes |-> <<>>]
    /\ \E sc \in Scenarios :
        /\ todo = sc.transfers \cup ServerCmds
        /\ losses = sc.losses
        /\ timeouts = sc.timeouts
    /\ shared = {}
    /\ net = [a \in Nodes |-> [b \in Nodes |-> <<>>]]

sockOf(n, id) == tcp[n].allSockets[id]

-----------------------------------------------------------------------------
(* The network. *)

enqueue_Unbounded(queue, pkts, b) ==
    queue \o SelectSeq(pkts, LAMBDA p : p.dest = b)

\* What a link from a to b carries after pkts have been sent from a.
enqueue(queue, pkts, b) ==
    LET mine == SelectSeq(pkts, LAMBDA p : p.dest = b)
        all == queue \o mine
    IN  SubSeq(all, 1, min(Len(all), LinkBuf))

\* Node n has done r: its manager changes and its packets leave.
Perform(n, r) ==
    /\ tcp' = [tcp EXCEPT ![n] = r.m]
    /\ net' = [net EXCEPT ![n] = [b \in Nodes |-> enqueue(@[b], r.out, b)]]

Lose(a, b) ==
    /\ losses > 0
    /\ \E i \in 1 .. Len(net[a][b]) :
        net' = [net EXCEPT ![a][b] = SubSeq(@, 1, i - 1) \o SubSeq(@, i + 1, Len(@))]
    /\ losses' = losses - 1
    /\ UNCHANGED <<tcp, clients, servers, workers, todo, shared, timeouts>>

\* The packet that arrives at n from a is handled by handler.
Receive(n, a, type, r) ==
    /\ net[a][n] # <<>>
    /\ Head(net[a][n]).seg.type = type
    /\ tcp' = [tcp EXCEPT ![n] = r.m]
    /\ net' = [net EXCEPT ![n] = [b \in Nodes |-> enqueue(@[b], r.out, b)],
                          ![a][n] = Tail(@)]
    /\ UNCHANGED <<clients, servers, workers, todo, shared, losses, timeouts>>

ReceiveSyn(n, a) == Receive(n, a, "SYN", onSyn(tcp[n], n, Head(net[a][n])))
ReceiveAck(n, a) == Receive(n, a, "ACK", onAck(tcp[n], n, Head(net[a][n])))
ReceiveFin(n, a) == Receive(n, a, "FIN", onFin(tcp[n], n, Head(net[a][n])))
ReceiveData(n, a) == Receive(n, a, "DATA", onData(tcp[n], n, Head(net[a][n])))

receiveTransport(n) ==
    \E a \in Nodes : \/ ReceiveSyn(n, a) \/ ReceiveAck(n, a)
                     \/ ReceiveFin(n, a) \/ ReceiveData(n, a)

\* A tick that finds several deadlines passed is several of these in a row.
retransmissionTick(n) ==
    /\ timeouts > 0
    /\ \E id \in Range(tcp[n].establishedByKey) :
        /\ hasOutstanding(sockOf(n, id))
        /\ sockOf(n, id).armed
        /\ Perform(n, retransmit(tcp[n], n, id))
    /\ timeouts' = timeouts - 1
    /\ UNCHANGED <<clients, servers, workers, todo, shared, losses>>

-----------------------------------------------------------------------------
(* Commands. *)

\* A client of node n that is still at it uses the connection key.
inUse(n, key) ==
    \E id \in DOMAIN clients[n] :
        clients[n][id].status = "running" /\ connKey(sockOf(n, id)) = key

\* bind() and connect() do not look whether the local port is in use.
matchTransferCommand(c) ==
    LET m == socketBound(tcp[c.node], c.localPort)
        id == Len(m.allSockets)
        key == <<c.dest, c.port, c.localPort>>
    IN  /\ c \in todo \cap TransferCmds
        /\ Perform(c.node, connect(m, c.node, id, c.dest, c.port))
        /\ clients' = [clients EXCEPT ![c.node] =
                put(@, id, [amount |-> c.amount, pos |-> 0, sz |-> c.sz,
                            conn |-> key, status |-> "running"])]
        /\ todo' = todo \ {c}
        /\ shared' = shared \cup IF inUse(c.node, key) THEN {<<c.node, key>>} ELSE {}
        /\ UNCHANGED <<servers, workers, losses, timeouts>>

matchServerCommand(c) ==
    /\ c \in todo \cap ServerCmds
    /\ LET m == socketBound(tcp[c.node], c.port)
           id == Len(m.allSockets)
       IN  /\ tcp' = [tcp EXCEPT ![c.node] = listen(m, id, c.backlog)]
           /\ servers' = [servers EXCEPT ![c.node] = put(@, id, [sz |-> c.sz])]
    /\ todo' = todo \ {c}
    /\ UNCHANGED <<clients, workers, shared, net, losses, timeouts>>

-----------------------------------------------------------------------------
(* TransferClient::execute. *)

\* The byte the client's buffer holds for stream position k.
content(k, sz) == (k % sz) % ByteValues

clientBytes(c) ==
    [j \in 1 .. min(c.sz - (c.pos % c.sz), c.amount) |-> content(c.pos + j - 1, c.sz)]

ClientWrite(n, id) ==
    LET c == clients[n][id]
        s == sockOf(n, id)
        bytes == clientBytes(c)
        count == writable(s, Len(bytes))
    IN  /\ c.status = "running"
        /\ s.state = "ESTABLISHED"
        /\ c.amount > 0
        /\ count > 0
        /\ Perform(n, socketSends(tcp[n], n, id, write(s, bytes),
                                  dataPkts(written(s, bytes))))
        /\ clients' = [clients EXCEPT ![n][id].pos = @ + count,
                                      ![n][id].amount = @ - count]
        /\ UNCHANGED <<servers, workers, todo, shared, losses, timeouts>>

ClientClose(n, id) ==
    /\ clients[n][id].status = "running"
    /\ sockOf(n, id).state = "ESTABLISHED"
    /\ clients[n][id].amount = 0
    /\ Perform(n, close(tcp[n], n, id))
    /\ UNCHANGED <<clients, servers, workers, todo, shared, losses, timeouts>>

\* "connection closed": the task ends; release() finds the socket CLOSED.
ClientReport(n, id) ==
    /\ clients[n][id].status = "running"
    /\ sockOf(n, id).state = "CLOSED"
    /\ tcp' = [tcp EXCEPT ![n] = release(@, id)]
    /\ clients' = [clients EXCEPT ![n][id].status = "closed"]
    /\ UNCHANGED <<servers, workers, todo, shared, net, losses, timeouts>>

\* "sending aborted": write() refuses a negative length.
ClientAbort(n, id) ==
    /\ clients[n][id].status = "running"
    /\ sockOf(n, id).state = "ESTABLISHED"
    /\ clients[n][id].amount < 0
    /\ tcp' = [tcp EXCEPT ![n] = release(@, id)]
    /\ clients' = [clients EXCEPT ![n][id].status = "aborted"]
    /\ UNCHANGED <<servers, workers, todo, shared, net, losses, timeouts>>

ClientTick(n, id) ==
    /\ id \in DOMAIN clients[n]
    /\ \/ ClientWrite(n, id) \/ ClientClose(n, id)
       \/ ClientReport(n, id) \/ ClientAbort(n, id)

-----------------------------------------------------------------------------
(* TransferServer::execute and TransferWorker::execute. *)

ServerTick(n) ==
    \E id \in DOMAIN servers[n] :
        /\ hasPending(tcp[n], id)
        /\ tcp' = [tcp EXCEPT ![n] = accept(@, id)]
        /\ LET child == Head(sockOf(n, id).pendingConnQueue)
           IN  workers' = [workers EXCEPT ![n] =
                put(@, child, [pos |-> 0, sz |-> servers[n][id].sz,
                               conn |-> connKey(sockOf(n, child)), status |-> "reading"])]
        /\ UNCHANGED <<clients, servers, todo, shared, net, losses, timeouts>>

\* What the worker's check says of the bytes it has read at position pos.
corrupt(w, bytes) ==
    \E j \in DOMAIN bytes : bytes[j] # ((w.pos % w.sz) + j - 1) % ByteValues

WorkerRead(n, id) ==
    LET w == workers[n][id]
        s == sockOf(n, id)
        len == w.sz - (w.pos % w.sz)
        bytes == SubSeq(s.recvBuf, 1, min(len, Len(s.recvBuf)))
        m == [tcp[n] EXCEPT !.allSockets[id] = read(s, len)]
    IN  /\ w.status = "reading"
        /\ isOpen(s)
        /\ s.recvBuf # <<>> \/ s.peerFinReceived
        /\ IF corrupt(w, bytes)
           THEN /\ tcp' = [tcp EXCEPT ![n] = release(m, id)]
                /\ workers' = [workers EXCEPT ![n][id].status = "corrupt"]
           ELSE /\ tcp' = [tcp EXCEPT ![n] = m]
                /\ workers' = [workers EXCEPT ![n][id].pos = @ + Len(bytes)]
        /\ UNCHANGED <<clients, servers, todo, shared, net, losses, timeouts>>

WorkerReport(n, id) ==
    /\ workers[n][id].status = "reading"
    /\ sockOf(n, id).state = "CLOSED"
    /\ workers' = [workers EXCEPT ![n][id].status = "closed"]
    /\ UNCHANGED <<tcp, clients, servers, todo, shared, net, losses, timeouts>>

WorkerTick(n, id) ==
    /\ id \in DOMAIN workers[n]
    /\ WorkerRead(n, id) \/ WorkerReport(n, id)

-----------------------------------------------------------------------------

\* No node ever has more sockets: one per command, and a child per transfer.
SocketIds == 1 .. Cardinality(TransferCmds \cup ServerCmds)

Command == \E c \in todo : matchTransferCommand(c) \/ matchServerCommand(c)

Run ==
    \E n \in Nodes :
        \/ ServerTick(n)
        \/ \E id \in SocketIds : WorkerTick(n, id) \/ ClientTick(n, id)
        \/ retransmissionTick(n)
        \/ receiveTransport(n)

Next == Command \/ Run \/ \E a, b \in Nodes : Lose(a, b)

Spec == Init /\ [][Next]_vars

\* The event loop keeps running while there are events: packets that arrive and
\* timers of tasks, each of which schedules its next tick.  Nobody has to give a
\* command, and nothing has to be lost.
Fairness == WF_vars(Run)

FairSpec == Spec /\ Fairness

-----------------------------------------------------------------------------
(* Properties. *)

ids(n) == DOMAIN tcp[n].allSockets

\* The tables name sockets that exist, and no node makes more sockets than
\* SocketIds allows for.
TypeOK ==
    /\ losses \in Nat /\ timeouts \in Nat
    /\ todo \subseteq TransferCmds \cup ServerCmds
    /\ \A n \in Nodes :
        /\ ids(n) \subseteq SocketIds
        /\ DOMAIN clients[n] \cup DOMAIN servers[n] \cup DOMAIN workers[n] \subseteq ids(n)
        /\ \A id \in ids(n) : sockOf(n, id).state \in States
        /\ Range(tcp[n].listenersByPort) \cup Range(tcp[n].synPendingByKey)
                \cup Range(tcp[n].establishedByKey) \subseteq ids(n)
        /\ \A b \in Nodes : Len(net[n][b]) <= LinkBuf

\* A packet that the tables take to a socket is from that socket's peer, and
\* each table holds sockets in the states its handler expects.  No key is both in
\* SYN_SENT and established, except where the user gave two running transfers the
\* same connection, or a transfer a port on which its own node listens.
TablesConsistent ==
    \A n \in Nodes :
        LET m == tcp[n]
        IN  /\ \A port \in DOMAIN m.listenersByPort :
                LET s == m.allSockets[m.listenersByPort[port]]
                IN  s.localPort = port /\ s.state = "LISTEN"
            /\ \A key \in DOMAIN m.synPendingByKey :
                LET s == m.allSockets[m.synPendingByKey[key]]
                IN  connKey(s) = key /\ s.state = "SYN_SENT"
            /\ \A key \in DOMAIN m.establishedByKey :
                LET s == m.allSockets[m.establishedByKey[key]]
                IN  connKey(s) = key /\ s.state \in {"ESTABLISHED", "SHUTDOWN", "CLOSED"}
            /\ \A key \in DOMAIN m.synPendingByKey \cap DOMAIN m.establishedByKey :
                <<n, key>> \in shared \/ key[3] \in ServerPorts(n) \cap ClientPorts(n)

\* The peer of node n knows the connection key under this one.
mirror(n, key) == <<n, key[3], key[2]>>

\* The clients at the other end of the connection that node n knows as key, and
\* whether two of them have used it at once.
clientsOf(n, key) == {c \in Range(clients[key[1]]) : c.conn = mirror(n, key)}
clientsShare(n, key) == <<key[1], mirror(n, key)>> \in shared

\* The packets of socket s of node n reach a child that has taken what was
\* acknowledged to s and expects what s has sent.
hasChild(n, s) ==
    LET peer == tcp[s.remoteAddr]
        child == peer.allSockets[peer.establishedByKey[mirror(n, connKey(s))]]
    IN  /\ mirror(n, connKey(s)) \in DOMAIN peer.establishedByKey
        /\ child.rcvNxt \in s.sndUna .. s.sndNxt
        /\ child.sndUna = 1

\* onSyn, onAck: a connected client is connected to a child of its own, even if
\* its ports were used before, unless the worker of this very connection found
\* corrupt data and let go of the child.  (Of two running clients that share a
\* connection, the first has lost its child to the second.)
ConnectedToChild ==
    \A n \in Nodes : \A id \in DOMAIN clients[n] :
        LET s == sockOf(n, id)
        IN  isOpen(s) /\ <<n, connKey(s)>> \notin shared =>
                \/ hasChild(n, s)
                \/ \E w \in Range(workers[s.remoteAddr]) :
                        w.conn = mirror(n, connKey(s)) /\ w.status = "corrupt"

\* "connection closed" at a client that was connected: the peer has a socket of
\* this connection that has taken every byte and knows that there are no more.
ReportedIsReceived ==
    \A n \in Nodes : \A id \in DOMAIN clients[n] :
        LET s == sockOf(n, id)
            c == clients[n][id]
        IN  c.status = "closed" /\ s.sndNxt >= 1 /\ <<n, c.conn>> \notin shared =>
                /\ c.amount = 0
                /\ \E t \in Range(tcp[s.remoteAddr].allSockets) :
                    /\ connKey(t) = mirror(n, connKey(s))
                    /\ t.rcvNxt = c.pos + 1
                    /\ t.peerFinReceived

\* unregisterSocket, registerEstablished: nobody waits for packets that can no
\* longer reach him.  A socket that is open, queued or with a worker, is the one
\* the table names, unless it has the whole stream already.  Two kinds of socket
\* are left behind: those of a connection that two clients shared, and the child
\* of a client that aborted, which sends no FIN, once its port is used again.
NoOrphan ==
    \A n \in Nodes : \A id \in ids(n) :
        LET s == sockOf(n, id)
            key == connKey(s)
            m == tcp[n]
        IN  isOpen(s) =>
            \/ key \in DOMAIN m.establishedByKey /\ m.establishedByKey[key] = id
            \/ s.peerFinReceived
            \/ <<n, key>> \in shared \/ clientsShare(n, key)
            \/ \E c \in clientsOf(n, key) : c.status = "aborted"

\* TransferWorker::execute: the network of this model alters no byte, so that a
\* worker detects corruption only where a client of its own connection has a
\* buffer of another size than the server's.
NoFalseAlarm ==
    \A n \in Nodes : \A w \in Range(workers[n]) :
        w.status = "corrupt" => \E c \in clientsOf(n, w.conn) : c.sz # w.sz

\* A worker that saw the connection closed has read what its client had sent.
WorkerReadAll ==
    \A n \in Nodes : \A id \in DOMAIN workers[n] :
        LET w == workers[n][id]
            s == sockOf(n, id)
        IN  w.status = "closed" =>
                /\ s.peerFinReceived
                /\ w.pos = s.rcvNxt - 1
                /\ \/ \E c \in clientsOf(n, w.conn) : c.amount = 0 /\ c.pos = w.pos
                   \/ clientsShare(n, w.conn)

\* Every transfer that was started ends, refused or seen through to its end: at
\* some time after any other there is no client left that runs, other than one
\* that shares its connection.
TransferEnds ==
    []<>(\A n \in Nodes : \A c \in Range(clients[n]) :
            c.status # "running" \/ <<n, c.conn>> \in shared)

\* "accept TCP connections on `localPort` and verify the data they send"
\* (README): the stream of a client that was connected and has ended is read to
\* its end by a worker.  It need not: onSyn acknowledges a connection that the
\* full backlog has no room for, and nobody ever accepts it.
EveryTransferVerified ==
    []<>(\A n \in Nodes : \A id \in DOMAIN clients[n] :
            clients[n][id].status = "closed" /\ sockOf(n, id).sndNxt >= 1 =>
                \E b \in Nodes : \E w \in DOMAIN workers[b] :
                    /\ workers[b][w].conn = mirror(n, clients[n][id].conn)
                    /\ workers[b][w].status = "closed")

=============================================================================
