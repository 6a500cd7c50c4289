---------------------------- MODULE TransferProofs ----------------------------
(***************************************************************************)
(* The tables of every TcpManager stay consistent, for every network and   *)
(* every set of commands.  bind() does not look whether a port is in use:  *)
(* where two running transfers of a node are given the same connection, or *)
(* a transfer a port on which its node listens, one key may be in SYN_SENT *)
(* and established at once, and nowhere else.                              *)
(*                                                                         *)
(* The argument is local to a node: whatever packet arrives, from whomever,*)
(* a handler keeps the invariant of its manager.  That invariant also says *)
(* which sockets belong to whom: an entry of synPendingByKey is a client   *)
(* that runs, one of establishedByKey a client that runs and is open or a  *)
(* child on a port with a listener, and a queue of pending connections     *)
(* holds children only.                                                    *)
(***************************************************************************)
EXTENDS Transfer, TLAPS, SequenceTheorems

-----------------------------------------------------------------------------
(* The invariant of the manager m of node n, whose clients are cl. *)

ManagerFields ==
    {"allSockets", "listenersByPort", "synPendingByKey", "establishedByKey"}

SocketFields ==
    {"state", "sndUna", "sndNxt", "rcvNxt", "recvBuf", "finSeq", "peerFinReceived",
     "outstanding", "armed", "rtoMs", "rwnd", "cwnd", "localPort", "remoteAddr",
     "remotePort", "synSeq", "backlog", "pendingConnQueue"}

Joined == {"ESTABLISHED", "SHUTDOWN", "CLOSED"}

Listed(q) == q \in Seq(Range(q))

Shaped(m) ==
    /\ DOMAIN m = ManagerFields
    /\ Listed(m.allSockets)
    /\ \A id \in DOMAIN m.allSockets : DOMAIN m.allSockets[id] = SocketFields

\* What each table says of a socket id that it holds under a port or a key.
ListenerEntry(n, m, port, id) ==
    /\ id \in DOMAIN m.allSockets
    /\ m.allSockets[id].localPort = port
    /\ m.allSockets[id].state = "LISTEN"
    /\ port \in ServerPorts(n)

PendingEntry(n, m, cl, key, id) ==
    /\ id \in DOMAIN m.allSockets
    /\ connKey(m.allSockets[id]) = key
    /\ m.allSockets[id].state = "SYN_SENT"
    /\ m.allSockets[id].localPort \in ClientPorts(n)
    /\ id \in DOMAIN cl /\ cl[id].status = "running"

EstablishedEntry(n, m, cl, key, id) ==
    /\ id \in DOMAIN m.allSockets
    /\ connKey(m.allSockets[id]) = key
    /\ m.allSockets[id].state \in Joined
    /\ \/ /\ id \in DOMAIN cl /\ cl[id].status = "running"
          /\ isOpen(m.allSockets[id])
       \/ /\ id \notin DOMAIN cl
          /\ m.allSockets[id].localPort \in ServerPorts(n)

ListenersOK(n, m) ==
    \A port \in DOMAIN m.listenersByPort :
        ListenerEntry(n, m, port, m.listenersByPort[port])

PendingOK(n, m, cl) ==
    \A key \in DOMAIN m.synPendingByKey :
        PendingEntry(n, m, cl, key, m.synPendingByKey[key])

EstablishedOK(n, m, cl) ==
    \A key \in DOMAIN m.establishedByKey :
        EstablishedEntry(n, m, cl, key, m.establishedByKey[key])

\* The keys in both tables; those that may be because clients and a listener use
\* the same port; and those that may be because two clients do.
Doubled(m) == DOMAIN m.synPendingByKey \cap DOMAIN m.establishedByKey

BothUse(n, key) == key[3] \in ServerPorts(n) \cap ClientPorts(n)

SharedOnly(n, m, sh) ==
    \A key \in Doubled(m) : <<n, key>> \in sh \/ BothUse(n, key)

\* An accepted connection that waits, or one with a worker.
Child(m, cl, id) ==
    /\ id \in DOMAIN m.allSockets \ DOMAIN cl
    /\ m.allSockets[id].state \in Joined

QueueOK(m, cl, q) == q \in Seq(Nat) /\ \A j \in 1 .. Len(q) : Child(m, cl, q[j])

QueuesOK(m, cl) ==
    \A id \in DOMAIN m.allSockets : QueueOK(m, cl, m.allSockets[id].pendingConnQueue)

ManagerOK(n, m, cl) ==
    /\ Shaped(m)
    /\ ListenersOK(n, m)
    /\ PendingOK(n, m, cl)
    /\ EstablishedOK(n, m, cl)
    /\ QueuesOK(m, cl)

ClientFields == {"amount", "pos", "sz", "conn", "status"}

TasksOK(m, cl, sv, wk) ==
    /\ \A id \in DOMAIN cl : id \in DOMAIN m.allSockets /\ DOMAIN cl[id] = ClientFields
    /\ DOMAIN sv \subseteq DOMAIN m.allSockets
    /\ \A id \in DOMAIN wk : Child(m, cl, id)

\* The inductive invariant.
TablesInv ==
    /\ DOMAIN tcp = Nodes /\ DOMAIN clients = Nodes
    /\ DOMAIN servers = Nodes /\ DOMAIN workers = Nodes
    /\ \A n \in Nodes :
        /\ ManagerOK(n, tcp[n], clients[n])
        /\ TasksOK(tcp[n], clients[n], servers[n], workers[n])
        /\ SharedOnly(n, tcp[n], shared)

-----------------------------------------------------------------------------
(* Sequences whose elements are of any kind. *)

LEMMA AppendAny ==
    ASSUME NEW q, Listed(q), NEW e
    PROVE  /\ Listed(Append(q, e))
           /\ Len(q) \in Nat /\ DOMAIN q = 1 .. Len(q)
           /\ Len(Append(q, e)) = Len(q) + 1
           /\ DOMAIN Append(q, e) = 1 .. Len(q) + 1
           /\ Append(q, e)[Len(q) + 1] = e
           /\ \A i \in 1 .. Len(q) : Append(q, e)[i] = q[i]
PROOF
    <1> DEFINE S == Range(q) \cup {e}
    <1>1. q \in Seq(Range(q)) /\ Range(q) \subseteq S /\ e \in S
        BY DEF Listed
    <1> HIDE DEF S
    <1>2. q \in Seq(S)
        BY <1>1, SeqMonotonic, Zenon
    <1>3. Append(q, e) \in Seq(S)
        BY <1>1, <1>2
    <1>4. Listed(Append(q, e))
        BY <1>3, SeqOfRange, Zenon DEF Listed
    <1> QED  BY <1>1, <1>2, <1>4

LEMMA ExceptAny ==
    ASSUME NEW q, Listed(q), NEW e, NEW k \in DOMAIN q
    PROVE  /\ Listed([q EXCEPT ![k] = e])
           /\ DOMAIN [q EXCEPT ![k] = e] = DOMAIN q
           /\ [q EXCEPT ![k] = e][k] = e
           /\ \A i \in DOMAIN q : i # k => [q EXCEPT ![k] = e][i] = q[i]
PROOF
    <1> DEFINE S == Range(q) \cup {e}
    <1>1. q \in Seq(Range(q)) /\ Range(q) \subseteq S /\ e \in S
        BY DEF Listed
    <1> HIDE DEF S
    <1>2. q \in Seq(S)
        BY <1>1, SeqMonotonic, Zenon
    <1>3. k \in 1 .. Len(q)
        BY <1>2
    <1>4. [q EXCEPT ![k] = e] \in Seq(S)
        BY <1>1, <1>2, <1>3, ExceptSeq, Zenon
    <1>5. Listed([q EXCEPT ![k] = e])
        BY <1>4, SeqOfRange, Zenon DEF Listed
    <1> QED  BY <1>5, Zenon

-----------------------------------------------------------------------------
(* What the methods of a socket leave alone. *)

\* The socket stays where it is: same addresses, same queue.
Stays(s, s2) ==
    /\ DOMAIN s2 = SocketFields
    /\ connKey(s2) = connKey(s)
    /\ s2.localPort = s.localPort
    /\ s2.pendingConnQueue = s.pendingConnQueue

LEMMA MethodsStay ==
    ASSUME NEW s, DOMAIN s = SocketFields
    PROVE  /\ \A w : Stays(s, setRwnd(s, w)) /\ setRwnd(s, w).state = s.state
           /\ \A b : Stays(s, write(s, b)) /\ write(s, b).state = s.state
           /\ \A a : Stays(s, popAckedThrough(s, a)) /\ popAckedThrough(s, a).state = s.state
           /\ Stays(s, additiveIncreaseCwnd(s)) /\ additiveIncreaseCwnd(s).state = s.state
           /\ Stays(s, multiplicativeDecreaseCwnd(s))
           /\ multiplicativeDecreaseCwnd(s).state = s.state
           /\ Stays(s, doubleRto(s)) /\ doubleRto(s).state = s.state
           /\ Stays(s, maybeSendFinOnDrain(s)) /\ maybeSendFinOnDrain(s).state = s.state
           /\ \A b : Stays(s, appendToRecvBuf(s, b)) /\ appendToRecvBuf(s, b).state = s.state
           /\ \A v : Stays(s, [s EXCEPT !.state = v]) /\ [s EXCEPT !.state = v].state = v
PROOF
    <1> USE DEF Stays, connKey, SocketFields
    <1>1. \A w : Stays(s, setRwnd(s, w)) /\ setRwnd(s, w).state = s.state
        BY DEF setRwnd
    <1>2. \A b : Stays(s, write(s, b)) /\ write(s, b).state = s.state
        BY DEF write
    <1>3. \A a : Stays(s, popAckedThrough(s, a)) /\ popAckedThrough(s, a).state = s.state
        BY DEF popAckedThrough
    <1>4. Stays(s, additiveIncreaseCwnd(s)) /\ additiveIncreaseCwnd(s).state = s.state
        BY DEF additiveIncreaseCwnd
    <1>5. /\ Stays(s, multiplicativeDecreaseCwnd(s))
          /\ multiplicativeDecreaseCwnd(s).state = s.state
        BY DEF multiplicativeDecreaseCwnd
    <1>6. Stays(s, doubleRto(s)) /\ doubleRto(s).state = s.state
        BY DEF doubleRto
    <1>7. Stays(s, maybeSendFinOnDrain(s)) /\ maybeSendFinOnDrain(s).state = s.state
        BY DEF maybeSendFinOnDrain
    <1>8. \A b : Stays(s, appendToRecvBuf(s, b)) /\ appendToRecvBuf(s, b).state = s.state
        BY DEF appendToRecvBuf
    <1>9. \A v : Stays(s, [s EXCEPT !.state = v]) /\ [s EXCEPT !.state = v].state = v
        OBVIOUS
    <1> QED  BY <1>1, <1>2, <1>3, <1>4, <1>5, <1>6, <1>7, <1>8, <1>9, Zenon

LEMMA ReadStays ==
    ASSUME NEW s, DOMAIN s = SocketFields, NEW len
    PROVE  Stays(s, read(s, len)) /\ read(s, len).state \in {s.state, "CLOSED"}
PROOF
    BY DEF read, Stays, connKey, SocketFields

LEMMA StaysTransitive ==
    ASSUME NEW s, NEW s1, NEW s2, Stays(s, s1), Stays(s1, s2)
    PROVE  Stays(s, s2)
PROOF
    BY DEF Stays

-----------------------------------------------------------------------------
(* One socket of a manager changes, or one is added. *)

SameTables(m, m2) ==
    /\ m2.listenersByPort = m.listenersByPort
    /\ m2.synPendingByKey = m.synPendingByKey
    /\ m2.establishedByKey = m.establishedByKey

LEMMA SocketSet ==
    ASSUME NEW m, Shaped(m), NEW id \in DOMAIN m.allSockets,
           NEW s, DOMAIN s = SocketFields,
           NEW m2, m2 = [m EXCEPT !.allSockets[id] = s]
    PROVE  /\ Shaped(m2) /\ SameTables(m, m2)
           /\ DOMAIN m2.allSockets = DOMAIN m.allSockets
           /\ m2.allSockets[id] = s
           /\ \A k \in DOMAIN m.allSockets : k # id => m2.allSockets[k] = m.allSockets[k]
PROOF
    <1> DEFINE q == m.allSockets
               r == [q EXCEPT ![id] = s]
    <1>1. DOMAIN m = ManagerFields /\ Listed(q)
        BY DEF Shaped
    <1>2. m2 = [m EXCEPT !.allSockets = r]
        OBVIOUS
    <1> HIDE DEF r
    <1>3. m2.allSockets = r /\ SameTables(m, m2) /\ DOMAIN m2 = ManagerFields
        BY <1>1, <1>2 DEF ManagerFields, SameTables
    <1>4. /\ Listed(r) /\ DOMAIN r = DOMAIN q /\ r[id] = s
          /\ \A k \in DOMAIN q : k # id => r[k] = q[k]
        BY <1>1, ExceptAny, Zenon DEF r
    <1> HIDE DEF q
    <1>5. \A k \in DOMAIN q : DOMAIN q[k] = SocketFields
        BY DEF Shaped, q
    <1>6. \A k \in DOMAIN r : DOMAIN r[k] = SocketFields
        BY <1>4, <1>5, Zenon
    <1> QED  BY <1>3, <1>4, <1>6, Zenon DEF Shaped, q

LEMMA SocketAdded ==
    ASSUME NEW m, Shaped(m), NEW s, DOMAIN s = SocketFields,
           NEW m2, m2 = [m EXCEPT !.allSockets = Append(@, s)]
    PROVE  /\ Shaped(m2) /\ SameTables(m, m2)
           /\ Len(m.allSockets) \in Nat
           /\ Len(m2.allSockets) = Len(m.allSockets) + 1
           /\ Len(m2.allSockets) \notin DOMAIN m.allSockets
           /\ DOMAIN m2.allSockets = DOMAIN m.allSockets \cup {Len(m2.allSockets)}
           /\ m2.allSockets[Len(m2.allSockets)] = s
           /\ \A k \in DOMAIN m.allSockets : m2.allSockets[k] = m.allSockets[k]
PROOF
    <1> DEFINE q == m.allSockets
               r == Append(q, s)
    <1>1. DOMAIN m = ManagerFields /\ Listed(q)
        BY DEF Shaped
    <1>2. m2 = [m EXCEPT !.allSockets = r]
        OBVIOUS
    <1> HIDE DEF r
    <1>3. m2.allSockets = r /\ SameTables(m, m2) /\ DOMAIN m2 = ManagerFields
        BY <1>1, <1>2 DEF ManagerFields, SameTables
    <1>4. /\ Listed(r) /\ Len(q) \in Nat /\ DOMAIN q = 1 .. Len(q)
          /\ Len(r) = Len(q) + 1 /\ DOMAIN r = 1 .. Len(q) + 1
          /\ r[Len(q) + 1] = s /\ \A k \in 1 .. Len(q) : r[k] = q[k]
        BY <1>1, AppendAny, Zenon DEF r
    <1> HIDE DEF q
    <1>5. \A k \in DOMAIN q : DOMAIN q[k] = SocketFields
        BY DEF Shaped, q
    <1>6. /\ Len(r) \notin DOMAIN q /\ DOMAIN r = DOMAIN q \cup {Len(r)}
          /\ r[Len(r)] = s /\ \A k \in DOMAIN q : r[k] = q[k]
        BY <1>4
    <1>7. \A k \in DOMAIN r : DOMAIN r[k] = SocketFields
        BY <1>5, <1>6, Zenon
    <1> QED  BY <1>3, <1>4, <1>6, <1>7, Zenon DEF Shaped, q

-----------------------------------------------------------------------------
(* What keeps the invariant of a manager. *)

\* The sockets that were there are, and what was a child is one.
Kept(m, cl, m2, cl2) ==
    /\ DOMAIN m.allSockets \subseteq DOMAIN m2.allSockets
    /\ \A id : Child(m, cl, id) => Child(m2, cl2, id)

\* A client that runs uses the connection key.
Runs(m, cl, key) ==
    \E k \in DOMAIN cl : cl[k].status = "running" /\ connKey(m.allSockets[k]) = key

\* No key comes to be in both tables, but where clients and a listener use a port.
Mixes(n, m, m2) ==
    \A key \in Doubled(m2) : key \in Doubled(m) \/ BothUse(n, key)

\* Nor where a client is given the connection key that another one uses.
Gains(n, m, cl, m2, addr, port, localPort) ==
    LET key == <<addr, port, localPort>>
    IN  \A x \in Doubled(m2) :
            x \in Doubled(m) \/ BothUse(n, x) \/ (x = key /\ Runs(m, cl, key))

Unnamed(m, id) ==
    /\ \A port \in DOMAIN m.listenersByPort : m.listenersByPort[port] # id
    /\ \A key \in DOMAIN m.synPendingByKey : m.synPendingByKey[key] # id
    /\ \A key \in DOMAIN m.establishedByKey : m.establishedByKey[key] # id

\* Socket id may become s: what the tables say of it remains true.
MayBecome(m, cl, id, s) ==
    LET old == m.allSockets[id]
    IN  /\ DOMAIN s = SocketFields
        /\ QueueOK(m, cl, s.pendingConnQueue)
        /\ Child(m, cl, id) => s.state \in Joined
        /\ \A port \in DOMAIN m.listenersByPort : m.listenersByPort[port] = id =>
            s.localPort = old.localPort /\ s.state = old.state
        /\ \A key \in DOMAIN m.synPendingByKey : m.synPendingByKey[key] = id =>
            connKey(s) = connKey(old) /\ s.localPort = old.localPort /\ s.state = old.state
        /\ \A key \in DOMAIN m.establishedByKey : m.establishedByKey[key] = id =>
            /\ connKey(s) = connKey(old) /\ s.localPort = old.localPort
            /\ s.state \in Joined /\ (id \in DOMAIN cl => isOpen(s))

LEMMA SocketReplaced ==
    ASSUME NEW n, NEW m, NEW cl, ManagerOK(n, m, cl), NEW id \in DOMAIN m.allSockets,
           NEW s, MayBecome(m, cl, id, s),
           NEW m2, m2 = [m EXCEPT !.allSockets[id] = s]
    PROVE  /\ ManagerOK(n, m2, cl) /\ Kept(m, cl, m2, cl) /\ SameTables(m, m2)
           /\ Mixes(n, m, m2)
PROOF
    <1>1. /\ Shaped(m2) /\ SameTables(m, m2)
          /\ DOMAIN m2.allSockets = DOMAIN m.allSockets
          /\ m2.allSockets[id] = s
          /\ \A k \in DOMAIN m.allSockets : k # id => m2.allSockets[k] = m.allSockets[k]
        BY SocketSet DEF ManagerOK, MayBecome
    <1>2. \A k : Child(m, cl, k) => Child(m2, cl, k)
        BY <1>1, Zenon DEF Child, MayBecome
    <1>3. ListenersOK(n, m2)
        BY <1>1 DEF ManagerOK, ListenersOK, ListenerEntry, MayBecome, SameTables
    <1>4. PendingOK(n, m2, cl)
        BY <1>1 DEF ManagerOK, PendingOK, PendingEntry, MayBecome, SameTables
    <1>5. EstablishedOK(n, m2, cl)
        BY <1>1 DEF ManagerOK, EstablishedOK, EstablishedEntry, MayBecome, SameTables
    <1>6. Mixes(n, m, m2)
        BY <1>1, Zenon DEF Mixes, Doubled, SameTables
    <1>7. QueuesOK(m2, cl)
        BY <1>1, <1>2, Zenon DEF ManagerOK, QueuesOK, QueueOK, MayBecome
    <1> QED  BY <1>1, <1>2, <1>3, <1>4, <1>5, <1>6, <1>7, Zenon DEF ManagerOK, Kept

\* A socket that stays where it is may do so open or, if it is a child, joined.
LEMMA StayingMayBecome ==
    ASSUME NEW n, NEW m, NEW cl, ManagerOK(n, m, cl), NEW id \in DOMAIN m.allSockets,
           NEW s, Stays(m.allSockets[id], s),
           \/ s.state = m.allSockets[id].state
           \/ isOpen(m.allSockets[id]) /\ isOpen(s)
           \/ id \notin DOMAIN cl /\ m.allSockets[id].state \in Joined /\ s.state \in Joined
    PROVE  MayBecome(m, cl, id, s)
PROOF
    <1> DEFINE old == m.allSockets[id]
    <1>1. QueueOK(m, cl, s.pendingConnQueue)
        BY Zenon DEF ManagerOK, QueuesOK, Stays
    <1>2. Child(m, cl, id) => s.state \in Joined
        BY DEF Child, isOpen, Joined
    <1>3. ASSUME NEW port \in DOMAIN m.listenersByPort, m.listenersByPort[port] = id
          PROVE  s.localPort = old.localPort /\ s.state = old.state
        <2>1. old.state = "LISTEN"
            BY <1>3, Zenon DEF ManagerOK, ListenersOK, ListenerEntry
        <2> QED  BY <2>1 DEF Stays, isOpen, Joined
    <1>4. ASSUME NEW key \in DOMAIN m.synPendingByKey, m.synPendingByKey[key] = id
          PROVE  /\ connKey(s) = connKey(old) /\ s.localPort = old.localPort
                 /\ s.state = old.state
        <2>1. old.state = "SYN_SENT"
            BY <1>4, Zenon DEF ManagerOK, PendingOK, PendingEntry
        <2> QED  BY <2>1 DEF Stays, isOpen, Joined
    <1>5. ASSUME NEW key \in DOMAIN m.establishedByKey, m.establishedByKey[key] = id
          PROVE  /\ connKey(s) = connKey(old) /\ s.localPort = old.localPort
                 /\ s.state \in Joined /\ (id \in DOMAIN cl => isOpen(s))
        <2>1. old.state \in Joined /\ (id \in DOMAIN cl => isOpen(old))
            BY <1>5, Zenon DEF ManagerOK, EstablishedOK, EstablishedEntry
        <2> QED  BY <2>1 DEF Stays, isOpen, Joined
    <1> QED  BY <1>1, <1>2, <1>3, <1>4, <1>5, Zenon DEF MayBecome, Stays

\* A socket is made, for a client or not.
LEMMA SocketMade ==
    ASSUME NEW n, NEW m, NEW cl, ManagerOK(n, m, cl),
           NEW s, DOMAIN s = SocketFields, s.pendingConnQueue = <<>>,
           NEW m2, m2 = [m EXCEPT !.allSockets = Append(@, s)],
           NEW cl2, DOMAIN cl2 \subseteq DOMAIN cl \cup {Len(m2.allSockets)},
           DOMAIN cl \subseteq DOMAIN cl2,
           \A k \in DOMAIN m.allSockets : k \in DOMAIN cl => cl2[k] = cl[k]
    PROVE  /\ ManagerOK(n, m2, cl2) /\ Kept(m, cl, m2, cl2) /\ SameTables(m, m2)
           /\ Mixes(n, m, m2)
           /\ Unnamed(m2, Len(m2.allSockets))
           /\ Len(m2.allSockets) \in DOMAIN m2.allSockets \ DOMAIN m.allSockets
           /\ Len(m2.allSockets) \in Nat
           /\ DOMAIN m2.allSockets = DOMAIN m.allSockets \cup {Len(m2.allSockets)}
           /\ m2.allSockets[Len(m2.allSockets)] = s
PROOF
    <1> DEFINE new == Len(m2.allSockets)
    <1>0. Shaped(m)
        BY DEF ManagerOK
    <1>1. /\ Shaped(m2) /\ SameTables(m, m2)
          /\ new \notin DOMAIN m.allSockets
          /\ DOMAIN m2.allSockets = DOMAIN m.allSockets \cup {new}
          /\ m2.allSockets[new] = s
          /\ \A k \in DOMAIN m.allSockets : m2.allSockets[k] = m.allSockets[k]
        BY <1>0, SocketAdded
    <1>2. new \in Nat
        <2>1. Len(m.allSockets) \in Nat /\ new = Len(m.allSockets) + 1
            BY <1>0, SocketAdded
        <2> QED  BY <2>1
    <1> HIDE DEF new
    <1>3. \A k : Child(m, cl, k) => Child(m2, cl2, k)
        BY <1>1, Zenon DEF Child, new
    <1>4. ListenersOK(n, m2) /\ \A port \in DOMAIN m2.listenersByPort :
                                    m2.listenersByPort[port] # new
        BY <1>1 DEF ManagerOK, ListenersOK, ListenerEntry, SameTables
    <1>5. PendingOK(n, m2, cl2) /\ \A key \in DOMAIN m2.synPendingByKey :
                                    m2.synPendingByKey[key] # new
        BY <1>1 DEF ManagerOK, PendingOK, PendingEntry, SameTables
    <1>6. EstablishedOK(n, m2, cl2) /\ \A key \in DOMAIN m2.establishedByKey :
                                    m2.establishedByKey[key] # new
        BY <1>1 DEF ManagerOK, EstablishedOK, EstablishedEntry, SameTables, new
    <1>7. Mixes(n, m, m2)
        BY <1>1, Zenon DEF Mixes, Doubled, SameTables
    <1>8. QueueOK(m2, cl2, <<>>)
        BY DEF QueueOK
    <1>9. QueuesOK(m2, cl2)
        <2>1. \A q : QueueOK(m, cl, q) => QueueOK(m2, cl2, q)
            BY <1>3, Zenon DEF QueueOK
        <2>2. ASSUME NEW k \in DOMAIN m2.allSockets
              PROVE  QueueOK(m2, cl2, m2.allSockets[k].pendingConnQueue)
            <3>1. CASE k = new
                BY <3>1, <1>1, <1>8
            <3>2. CASE k \in DOMAIN m.allSockets
                <4>1. QueueOK(m, cl, m.allSockets[k].pendingConnQueue)
                    BY <3>2 DEF ManagerOK, QueuesOK
                <4> QED  BY <4>1, <3>2, <2>1, <1>1
            <3> QED  BY <3>1, <3>2, <1>1
        <2> QED  BY <2>2 DEF QueuesOK
    <1> QED  BY <1>1, <1>2, <1>3, <1>4, <1>5, <1>6, <1>7, <1>9, Zenon
                DEF ManagerOK, Kept, Unnamed, new

\* Something about a client changes: not whether it runs, if a table names it.
LEMMA ClientChanged ==
    ASSUME NEW n, NEW m, NEW cl, ManagerOK(n, m, cl),
           NEW cl2, DOMAIN cl2 = DOMAIN cl,
           \A k \in DOMAIN cl : cl2[k].status = cl[k].status \/ Unnamed(m, k)
    PROVE  ManagerOK(n, m, cl2) /\ Kept(m, cl, m, cl2)
PROOF
    <1>1. \A k : Child(m, cl, k) <=> Child(m, cl2, k)
        BY Zenon DEF Child
    <1>2. PendingOK(n, m, cl2)
        BY Zenon DEF ManagerOK, PendingOK, PendingEntry, Unnamed
    <1>3. EstablishedOK(n, m, cl2)
        BY Zenon DEF ManagerOK, EstablishedOK, EstablishedEntry, Unnamed
    <1>4. QueuesOK(m, cl2)
        BY <1>1, Zenon DEF ManagerOK, QueuesOK, QueueOK
    <1> QED  BY <1>1, <1>2, <1>3, <1>4, Zenon DEF ManagerOK, Kept

\* The tables change.
LEMMA TablesChanged ==
    ASSUME NEW n, NEW m, NEW cl, ManagerOK(n, m, cl),
           NEW m2, DOMAIN m2 = ManagerFields, m2.allSockets = m.allSockets,
           \A port \in DOMAIN m2.listenersByPort :
                ListenerEntry(n, m, port, m2.listenersByPort[port]),
           \A key \in DOMAIN m2.synPendingByKey :
                PendingEntry(n, m, cl, key, m2.synPendingByKey[key]),
           \A key \in DOMAIN m2.establishedByKey :
                EstablishedEntry(n, m, cl, key, m2.establishedByKey[key])
    PROVE  ManagerOK(n, m2, cl) /\ Kept(m, cl, m2, cl)
PROOF
    <1>1. Shaped(m2)
        BY Zenon DEF ManagerOK, Shaped
    <1>2. \A k : Child(m, cl, k) <=> Child(m2, cl, k)
        BY Zenon DEF Child
    <1>3. ListenersOK(n, m2)
        BY Zenon DEF ListenersOK, ListenerEntry
    <1>4. PendingOK(n, m2, cl)
        BY Zenon DEF PendingOK, PendingEntry
    <1>5. EstablishedOK(n, m2, cl)
        BY Zenon DEF EstablishedOK, EstablishedEntry
    <1>6. QueuesOK(m2, cl)
        BY <1>2, Zenon DEF ManagerOK, QueuesOK, QueueOK
    <1> QED  BY <1>1, <1>2, <1>3, <1>4, <1>5, <1>6, Zenon DEF ManagerOK, Kept

LEMMA KeptTransitive ==
    ASSUME NEW m, NEW cl, NEW m1, NEW cl1, NEW m2, NEW cl2,
           Kept(m, cl, m1, cl1), Kept(m1, cl1, m2, cl2)
    PROVE  Kept(m, cl, m2, cl2)
PROOF
    BY Zenon DEF Kept

-----------------------------------------------------------------------------
(* The table operations. *)

\* TcpManager::registerEstablished for a key that is not in SYN_SENT, or may be.
LEMMA EstablishedRegistered ==
    ASSUME NEW n, NEW m, NEW cl, ManagerOK(n, m, cl), NEW id, NEW key,
           EstablishedEntry(n, m, cl, key, id),
           key \notin DOMAIN m.synPendingByKey \/ BothUse(n, key)
    PROVE  /\ ManagerOK(n, registerEstablished(m, id, key), cl)
           /\ Kept(m, cl, registerEstablished(m, id, key), cl)
           /\ Mixes(n, m, registerEstablished(m, id, key))
PROOF
    <1> DEFINE m2 == registerEstablished(m, id, key)
               table == put(m.establishedByKey, key, id)
    <1>1. DOMAIN m = ManagerFields
        BY DEF ManagerOK, Shaped
    <1>2. m2 = [m EXCEPT !.establishedByKey = table]
        BY DEF registerEstablished
    <1> HIDE DEF m2, table
    <1>3. /\ DOMAIN m2 = ManagerFields /\ m2.allSockets = m.allSockets
          /\ m2.listenersByPort = m.listenersByPort
          /\ m2.synPendingByKey = m.synPendingByKey
          /\ m2.establishedByKey = table
        BY <1>1, <1>2 DEF ManagerFields
    <1>4. /\ DOMAIN table = DOMAIN m.establishedByKey \cup {key}
          /\ table[key] = id
          /\ \A k \in DOMAIN m.establishedByKey : k # key => table[k] = m.establishedByKey[k]
        BY DEF table, put
    <1>5. \A k \in DOMAIN table : EstablishedEntry(n, m, cl, k, table[k])
        BY <1>4, Zenon DEF ManagerOK, EstablishedOK
    <1>6. Mixes(n, m, m2)
        BY <1>3, <1>4 DEF Mixes, Doubled
    <1>7. /\ \A port \in DOMAIN m2.listenersByPort :
                ListenerEntry(n, m, port, m2.listenersByPort[port])
          /\ \A k \in DOMAIN m2.synPendingByKey :
                PendingEntry(n, m, cl, k, m2.synPendingByKey[k])
        BY <1>3, Zenon DEF ManagerOK, ListenersOK, PendingOK
    <1>8. ManagerOK(n, m2, cl) /\ Kept(m, cl, m2, cl)
        BY <1>3, <1>5, <1>7, TablesChanged, Zenon
    <1> QED  BY <1>6, <1>8 DEF m2

\* TcpManager::registerSynPending, whether the key is established or not.
LEMMA PendingRegistered ==
    ASSUME NEW n, NEW m, NEW cl, ManagerOK(n, m, cl), NEW id, NEW key,
           PendingEntry(n, m, cl, key, id)
    PROVE  /\ ManagerOK(n, registerSynPending(m, id, key), cl)
           /\ Kept(m, cl, registerSynPending(m, id, key), cl)
           /\ \A k \in Doubled(registerSynPending(m, id, key)) :
                k \in Doubled(m) \/ (k = key /\ key \in DOMAIN m.establishedByKey)
PROOF
    <1> DEFINE m2 == registerSynPending(m, id, key)
               table == put(m.synPendingByKey, key, id)
    <1>1. DOMAIN m = ManagerFields
        BY DEF ManagerOK, Shaped
    <1>2. m2 = [m EXCEPT !.synPendingByKey = table]
        BY DEF registerSynPending
    <1> HIDE DEF m2, table
    <1>3. /\ DOMAIN m2 = ManagerFields /\ m2.allSockets = m.allSockets
          /\ m2.listenersByPort = m.listenersByPort
          /\ m2.establishedByKey = m.establishedByKey
          /\ m2.synPendingByKey = table
        BY <1>1, <1>2 DEF ManagerFields
    <1>4. /\ DOMAIN table = DOMAIN m.synPendingByKey \cup {key}
          /\ table[key] = id
          /\ \A k \in DOMAIN m.synPendingByKey : k # key => table[k] = m.synPendingByKey[k]
        BY DEF table, put
    <1>5. \A k \in DOMAIN table : PendingEntry(n, m, cl, k, table[k])
        BY <1>4, Zenon DEF ManagerOK, PendingOK
    <1>6. \A k \in Doubled(m2) :
                k \in Doubled(m) \/ (k = key /\ key \in DOMAIN m.establishedByKey)
        BY <1>3, <1>4 DEF Doubled
    <1>7. /\ \A port \in DOMAIN m2.listenersByPort :
                ListenerEntry(n, m, port, m2.listenersByPort[port])
          /\ \A k \in DOMAIN m2.establishedByKey :
                EstablishedEntry(n, m, cl, k, m2.establishedByKey[k])
        BY <1>3, Zenon DEF ManagerOK, ListenersOK, EstablishedOK
    <1>8. ManagerOK(n, m2, cl) /\ Kept(m, cl, m2, cl)
        BY <1>3, <1>5, <1>7, TablesChanged, Zenon
    <1> QED  BY <1>6, <1>8 DEF m2

\* TcpManager::registerListener.
LEMMA ListenerRegistered ==
    ASSUME NEW n, NEW m, NEW cl, ManagerOK(n, m, cl), NEW id, NEW port,
           ListenerEntry(n, m, port, id)
    PROVE  /\ ManagerOK(n, registerListener(m, id, port), cl)
           /\ Kept(m, cl, registerListener(m, id, port), cl)
           /\ Mixes(n, m, registerListener(m, id, port))
PROOF
    <1> DEFINE m2 == registerListener(m, id, port)
               table == put(m.listenersByPort, port, id)
    <1>1. DOMAIN m = ManagerFields
        BY DEF ManagerOK, Shaped
    <1>2. m2 = [m EXCEPT !.listenersByPort = table]
        BY DEF registerListener
    <1> HIDE DEF m2, table
    <1>3. /\ DOMAIN m2 = ManagerFields /\ m2.allSockets = m.allSockets
          /\ m2.listenersByPort = table
          /\ m2.synPendingByKey = m.synPendingByKey
          /\ m2.establishedByKey = m.establishedByKey
        BY <1>1, <1>2 DEF ManagerFields
    <1>4. /\ DOMAIN table = DOMAIN m.listenersByPort \cup {port}
          /\ table[port] = id
          /\ \A k \in DOMAIN m.listenersByPort : k # port => table[k] = m.listenersByPort[k]
        BY DEF table, put
    <1>5. \A k \in DOMAIN table : ListenerEntry(n, m, k, table[k])
        BY <1>4, Zenon DEF ManagerOK, ListenersOK
    <1>6. Mixes(n, m, m2)
        BY <1>3 DEF Mixes, Doubled
    <1>7. /\ \A k \in DOMAIN m2.synPendingByKey :
                PendingEntry(n, m, cl, k, m2.synPendingByKey[k])
          /\ \A k \in DOMAIN m2.establishedByKey :
                EstablishedEntry(n, m, cl, k, m2.establishedByKey[k])
        BY <1>3, Zenon DEF ManagerOK, PendingOK, EstablishedOK
    <1>8. ManagerOK(n, m2, cl) /\ Kept(m, cl, m2, cl)
        BY <1>3, <1>5, <1>7, TablesChanged, Zenon
    <1> QED  BY <1>6, <1>8 DEF m2

\* Entries are only taken out: erase by key, and unregisterSocket.
LEMMA EntriesErased ==
    ASSUME NEW n, NEW m, NEW cl, ManagerOK(n, m, cl),
           NEW L, NEW P, NEW E,
           L \subseteq DOMAIN m.listenersByPort, P \subseteq DOMAIN m.synPendingByKey,
           E \subseteq DOMAIN m.establishedByKey,
           NEW m2, DOMAIN m2 = ManagerFields, m2.allSockets = m.allSockets,
           m2.listenersByPort = Restrict(m.listenersByPort, L),
           m2.synPendingByKey = Restrict(m.synPendingByKey, P),
           m2.establishedByKey = Restrict(m.establishedByKey, E)
    PROVE  ManagerOK(n, m2, cl) /\ Kept(m, cl, m2, cl) /\ Mixes(n, m, m2)
PROOF
    <1>1. /\ DOMAIN m2.listenersByPort = L /\ DOMAIN m2.synPendingByKey = P
          /\ DOMAIN m2.establishedByKey = E
        BY DEF Restrict
    <1>2. /\ \A k \in L : m2.listenersByPort[k] = m.listenersByPort[k]
          /\ \A k \in P : m2.synPendingByKey[k] = m.synPendingByKey[k]
          /\ \A k \in E : m2.establishedByKey[k] = m.establishedByKey[k]
        BY DEF Restrict
    <1>3. /\ \A k \in L : ListenerEntry(n, m, k, m.listenersByPort[k])
          /\ \A k \in P : PendingEntry(n, m, cl, k, m.synPendingByKey[k])
          /\ \A k \in E : EstablishedEntry(n, m, cl, k, m.establishedByKey[k])
        BY DEF ManagerOK, ListenersOK, PendingOK, EstablishedOK
    <1>4. /\ \A k \in DOMAIN m2.listenersByPort :
                ListenerEntry(n, m, k, m2.listenersByPort[k])
          /\ \A k \in DOMAIN m2.synPendingByKey :
                PendingEntry(n, m, cl, k, m2.synPendingByKey[k])
          /\ \A k \in DOMAIN m2.establishedByKey :
                EstablishedEntry(n, m, cl, k, m2.establishedByKey[k])
        BY <1>1, <1>2, <1>3
    <1>5. Mixes(n, m, m2)
        BY <1>1 DEF Mixes, Doubled
    <1> QED  BY <1>4, <1>5, TablesChanged

Keeps(n, m, cl, m2) ==
    ManagerOK(n, m2, cl) /\ Kept(m, cl, m2, cl) /\ Mixes(n, m, m2)

LEMMA KeepsTransitive ==
    ASSUME NEW n, NEW m, NEW cl, NEW m1, NEW m2,
           Keeps(n, m, cl, m1), Keeps(n, m1, cl, m2)
    PROVE  Keeps(n, m, cl, m2)
PROOF
    BY KeptTransitive, Zenon DEF Keeps, Mixes

LEMMA KeepsItself ==
    ASSUME NEW n, NEW m, NEW cl, ManagerOK(n, m, cl)
    PROVE  Keeps(n, m, cl, m)
PROOF
    BY DEF Keeps, Kept, Mixes

\* An entry of synPendingByKey_ goes: no table names its socket any more.
LEMMA PendingErased ==
    ASSUME NEW n, NEW m, NEW cl, ManagerOK(n, m, cl),
           NEW key \in DOMAIN m.synPendingByKey,
           NEW m1, m1 = [m EXCEPT !.synPendingByKey = erase(@, key)]
    PROVE  /\ Keeps(n, m, cl, m1) /\ Unnamed(m1, m.synPendingByKey[key])
           /\ m1.allSockets = m.allSockets /\ key \notin DOMAIN m1.synPendingByKey
PROOF
    <1> DEFINE id == m.synPendingByKey[key]
               P == DOMAIN m.synPendingByKey \ {key}
    <1>1. DOMAIN m = ManagerFields
        BY DEF ManagerOK, Shaped
    <1>2. /\ DOMAIN m1 = ManagerFields /\ m1.allSockets = m.allSockets
          /\ m1.listenersByPort = m.listenersByPort
          /\ m1.synPendingByKey = Restrict(m.synPendingByKey, P)
          /\ m1.establishedByKey = m.establishedByKey
        BY <1>1 DEF ManagerFields, erase
    <1>3. /\ DOMAIN m1.synPendingByKey = P
          /\ \A k \in P : m1.synPendingByKey[k] = m.synPendingByKey[k]
        BY <1>2 DEF Restrict
    <1>4. /\ \A k \in DOMAIN m1.listenersByPort :
                ListenerEntry(n, m, k, m1.listenersByPort[k])
          /\ \A k \in DOMAIN m1.synPendingByKey :
                PendingEntry(n, m, cl, k, m1.synPendingByKey[k])
          /\ \A k \in DOMAIN m1.establishedByKey :
                EstablishedEntry(n, m, cl, k, m1.establishedByKey[k])
        BY <1>2, <1>3 DEF ManagerOK, ListenersOK, PendingOK, EstablishedOK
    <1>5. Mixes(n, m, m1)
        BY <1>2, <1>3 DEF Mixes, Doubled
    <1>6. Keeps(n, m, cl, m1)
        BY <1>2, <1>4, <1>5, TablesChanged DEF Keeps
    <1>7. PendingEntry(n, m, cl, key, id)
        BY DEF ManagerOK, PendingOK
    <1> HIDE DEF id
    <1>8. Unnamed(m1, id)
        <2>1. \A k \in DOMAIN m1.listenersByPort : m1.listenersByPort[k] # id
            BY <1>4, <1>7 DEF ListenerEntry, PendingEntry
        <2>2. \A k \in DOMAIN m1.synPendingByKey : m1.synPendingByKey[k] # id
            BY <1>3, <1>4, <1>7 DEF PendingEntry
        <2>3. \A k \in DOMAIN m1.establishedByKey : m1.establishedByKey[k] # id
            BY <1>4, <1>7 DEF EstablishedEntry, PendingEntry, Joined
        <2> QED  BY <2>1, <2>2, <2>3 DEF Unnamed
    <1> QED  BY <1>2, <1>3, <1>6, <1>8 DEF id

\* The same for establishedByKey_.
LEMMA EstablishedErased ==
    ASSUME NEW n, NEW m, NEW cl, ManagerOK(n, m, cl),
           NEW key \in DOMAIN m.establishedByKey,
           NEW m1, m1 = [m EXCEPT !.establishedByKey = erase(@, key)]
    PROVE  /\ Keeps(n, m, cl, m1) /\ Unnamed(m1, m.establishedByKey[key])
           /\ m1.allSockets = m.allSockets
PROOF
    <1> DEFINE id == m.establishedByKey[key]
               E == DOMAIN m.establishedByKey \ {key}
    <1>1. DOMAIN m = ManagerFields
        BY DEF ManagerOK, Shaped
    <1>2. /\ DOMAIN m1 = ManagerFields /\ m1.allSockets = m.allSockets
          /\ m1.listenersByPort = m.listenersByPort
          /\ m1.synPendingByKey = m.synPendingByKey
          /\ m1.establishedByKey = Restrict(m.establishedByKey, E)
        BY <1>1 DEF ManagerFields, erase
    <1>3. /\ DOMAIN m1.establishedByKey = E
          /\ \A k \in E : m1.establishedByKey[k] = m.establishedByKey[k]
        BY <1>2 DEF Restrict
    <1>4. /\ \A k \in DOMAIN m1.listenersByPort :
                ListenerEntry(n, m, k, m1.listenersByPort[k])
          /\ \A k \in DOMAIN m1.synPendingByKey :
                PendingEntry(n, m, cl, k, m1.synPendingByKey[k])
          /\ \A k \in DOMAIN m1.establishedByKey :
                EstablishedEntry(n, m, cl, k, m1.establishedByKey[k])
        BY <1>2, <1>3 DEF ManagerOK, ListenersOK, PendingOK, EstablishedOK
    <1>5. Mixes(n, m, m1)
        BY <1>2, <1>3 DEF Mixes, Doubled
    <1>6. Keeps(n, m, cl, m1)
        BY <1>2, <1>4, <1>5, TablesChanged DEF Keeps
    <1>7. EstablishedEntry(n, m, cl, key, id)
        BY DEF ManagerOK, EstablishedOK
    <1> HIDE DEF id
    <1>8. Unnamed(m1, id)
        <2>1. \A k \in DOMAIN m1.listenersByPort : m1.listenersByPort[k] # id
            BY <1>4, <1>7 DEF ListenerEntry, EstablishedEntry, Joined
        <2>2. \A k \in DOMAIN m1.synPendingByKey : m1.synPendingByKey[k] # id
            BY <1>4, <1>7 DEF PendingEntry, EstablishedEntry, Joined
        <2>3. \A k \in DOMAIN m1.establishedByKey : m1.establishedByKey[k] # id
            BY <1>3, <1>4, <1>7 DEF EstablishedEntry
        <2> QED  BY <2>1, <2>2, <2>3 DEF Unnamed
    <1> QED  BY <1>2, <1>6, <1>8 DEF id

\* TcpManager::unregisterSocket takes every entry of a socket out.
LEMMA Unregistered ==
    ASSUME NEW n, NEW m, NEW cl, ManagerOK(n, m, cl), NEW id
    PROVE  /\ Keeps(n, m, cl, unregisterSocket(m, id))
           /\ Unnamed(unregisterSocket(m, id), id)
           /\ unregisterSocket(m, id).allSockets = m.allSockets
PROOF
    <1> DEFINE m1 == unregisterSocket(m, id)
               L == {k \in DOMAIN m.listenersByPort : m.listenersByPort[k] # id}
               P == {k \in DOMAIN m.synPendingByKey : m.synPendingByKey[k] # id}
               E == {k \in DOMAIN m.establishedByKey : m.establishedByKey[k] # id}
    <1>1. DOMAIN m = ManagerFields
        BY DEF ManagerOK, Shaped
    <1>2. /\ DOMAIN m1 = ManagerFields /\ m1.allSockets = m.allSockets
          /\ m1.listenersByPort = Restrict(m.listenersByPort, L)
          /\ m1.synPendingByKey = Restrict(m.synPendingByKey, P)
          /\ m1.establishedByKey = Restrict(m.establishedByKey, E)
        BY <1>1 DEF ManagerFields, unregisterSocket, eraseSocket
    <1> HIDE DEF m1
    <1>3. Keeps(n, m, cl, m1)
        BY <1>2, EntriesErased DEF Keeps
    <1>4. Unnamed(m1, id)
        BY <1>2 DEF Unnamed, Restrict
    <1> QED  BY <1>2, <1>3, <1>4 DEF m1

\* A socket that no table names may become anything its queue and its being a
\* child allow.
LEMMA UnnamedReplaced ==
    ASSUME NEW n, NEW m, NEW cl, ManagerOK(n, m, cl), NEW id \in DOMAIN m.allSockets,
           Unnamed(m, id), NEW s, DOMAIN s = SocketFields,
           QueueOK(m, cl, s.pendingConnQueue), Child(m, cl, id) => s.state \in Joined,
           NEW m2, m2 = [m EXCEPT !.allSockets[id] = s]
    PROVE  Keeps(n, m, cl, m2) /\ SameTables(m, m2)
PROOF
    <1>1. MayBecome(m, cl, id, s)
        BY Zenon DEF MayBecome, Unnamed
    <1> QED  BY <1>1, SocketReplaced DEF Keeps

LEMMA StayingReplaced ==
    ASSUME NEW n, NEW m, NEW cl, ManagerOK(n, m, cl), NEW id \in DOMAIN m.allSockets,
           NEW s, Stays(m.allSockets[id], s),
           \/ s.state = m.allSockets[id].state
           \/ isOpen(m.allSockets[id]) /\ isOpen(s)
           \/ id \notin DOMAIN cl /\ m.allSockets[id].state \in Joined /\ s.state \in Joined,
           NEW m2, m2 = [m EXCEPT !.allSockets[id] = s]
    PROVE  Keeps(n, m, cl, m2) /\ SameTables(m, m2)
PROOF
    <1>1. MayBecome(m, cl, id, s)
        BY StayingMayBecome
    <1> QED  BY <1>1, SocketReplaced DEF Keeps

-----------------------------------------------------------------------------
(* Every handler, and every call of an application, keeps the invariant. *)

LEMMA NewSocketFields ==
    /\ DOMAIN newSocket = SocketFields
    /\ newSocket.pendingConnQueue = <<>>
    /\ newSocket.state = "CLOSED"
PROOF
    BY DEF newSocket, NewSocket, SocketFields

\* socketSends with a socket that stays where it is.
LEMMA SendsKeeps ==
    ASSUME NEW n, NEW m, NEW cl, ManagerOK(n, m, cl), NEW id \in DOMAIN m.allSockets,
           NEW s, Stays(m.allSockets[id], s),
           \/ s.state = m.allSockets[id].state
           \/ isOpen(m.allSockets[id]) /\ isOpen(s),
           NEW segs
    PROVE  Keeps(n, m, cl, socketSends(m, n, id, s, segs).m)
PROOF
    <1> DEFINE m2 == [m EXCEPT !.allSockets[id] = s]
    <1>1. socketSends(m, n, id, s, segs).m = m2
        BY DEF socketSends
    <1> HIDE DEF m2
    <1>2. Keeps(n, m, cl, m2)
        BY StayingReplaced DEF m2
    <1> QED  BY <1>1, <1>2

\* TcpManager::onSyn, whoever asks, and whether or not the backlog is full.
LEMMA OnSynKeeps ==
    ASSUME NEW n \in Nodes, NEW m, NEW cl, ManagerOK(n, m, cl),
           DOMAIN cl \subseteq DOMAIN m.allSockets, NEW p
    PROVE  Keeps(n, m, cl, onSyn(m, n, p).m)
PROOF
    <1> DEFINE child == [initAccepted(newSocket) EXCEPT
                            !.localPort = p.destPort,
                            !.remoteAddr = p.src, !.remotePort = p.srcPort]
               made == [m EXCEPT !.allSockets = Append(@, child)]
               id == Len(made.allSockets)
               listener == m.listenersByPort[p.destPort]
               other == enqueueAccepted(made.allSockets[listener], id)
               queued == [made EXCEPT !.allSockets[listener] = other]
    <1>1. CASE p.destPort \notin DOMAIN m.listenersByPort
        <2>1. onSyn(m, n, p).m = m
            BY <1>1 DEF onSyn
        <2> QED  BY <2>1, KeepsItself
    <1>2. CASE p.destPort \in DOMAIN m.listenersByPort
        <2>1. onSyn(m, n, p).m = registerEstablished(queued, id, connKey(child))
            BY <1>2, Zenon DEF onSyn
        <2>2. /\ DOMAIN child = SocketFields /\ child.pendingConnQueue = <<>>
              /\ child.state = "ESTABLISHED" /\ child.localPort = p.destPort
            BY NewSocketFields DEF initAccepted, SocketFields
        <2> HIDE DEF child
        <2>3. /\ ManagerOK(n, made, cl) /\ Kept(m, cl, made, cl) /\ SameTables(m, made)
              /\ Mixes(n, m, made)
              /\ id \in DOMAIN made.allSockets \ DOMAIN m.allSockets
              /\ id \in Nat /\ made.allSockets[id] = child
            BY <2>2, SocketMade
        <2> HIDE DEF made, id
        <2>4. ListenerEntry(n, m, p.destPort, listener)
            BY <1>2 DEF ManagerOK, ListenersOK
        <2>5. listener \in DOMAIN made.allSockets /\ listener # id
            BY <2>3, <2>4 DEF Kept, ListenerEntry
        <2> HIDE DEF listener
        <2>6. Child(made, cl, id)
            BY <2>2, <2>3 DEF Child, Joined
        <2>7. /\ DOMAIN made.allSockets[listener] = SocketFields
              /\ QueueOK(made, cl, made.allSockets[listener].pendingConnQueue)
            BY <2>3, <2>5 DEF ManagerOK, Shaped, QueuesOK
        <2>8. QueueOK(made, cl, Append(made.allSockets[listener].pendingConnQueue, id))
            <3> DEFINE q == made.allSockets[listener].pendingConnQueue
            <3>1. q \in Seq(Nat) /\ \A j \in 1 .. Len(q) : Child(made, cl, q[j])
                BY <2>7 DEF QueueOK
            <3> HIDE DEF q
            <3>2. /\ Append(q, id) \in Seq(Nat) /\ Len(Append(q, id)) = Len(q) + 1
                  /\ \A j \in 1 .. Len(q) : Append(q, id)[j] = q[j]
                  /\ Append(q, id)[Len(q) + 1] = id /\ Len(q) \in Nat
                BY <2>3, <3>1, AppendProperties
            <3>3. \A j \in 1 .. Len(Append(q, id)) : Child(made, cl, Append(q, id)[j])
                BY <2>6, <3>1, <3>2
            <3> QED  BY <3>2, <3>3 DEF QueueOK, q
        <2>9. /\ DOMAIN other = SocketFields
              /\ connKey(other) = connKey(made.allSockets[listener])
              /\ other.localPort = made.allSockets[listener].localPort
              /\ other.state = made.allSockets[listener].state
            BY <2>7 DEF enqueueAccepted, connKey, SocketFields
        <2>10. \/ other.pendingConnQueue = made.allSockets[listener].pendingConnQueue
               \/ other.pendingConnQueue
                    = Append(made.allSockets[listener].pendingConnQueue, id)
            BY <2>7 DEF enqueueAccepted, SocketFields
        <2> HIDE DEF other
        <2>11. MayBecome(made, cl, listener, other)
            <3>1. QueueOK(made, cl, other.pendingConnQueue)
                BY <2>7, <2>8, <2>10
            <3>2. Child(made, cl, listener) => other.state \in Joined
                BY <2>9, Zenon DEF Child
            <3>3. ASSUME NEW key \in DOMAIN made.establishedByKey,
                         made.establishedByKey[key] = listener
                  PROVE  other.state \in Joined /\ (listener \in DOMAIN cl => isOpen(other))
                <4>1. EstablishedEntry(n, made, cl, key, listener)
                    BY <2>3, <3>3 DEF ManagerOK, EstablishedOK
                <4> QED  BY <4>1, <2>9 DEF EstablishedEntry, isOpen
            <3> QED  BY <2>9, <3>1, <3>2, <3>3, Zenon DEF MayBecome
        <2>12. /\ Keeps(n, made, cl, queued) /\ SameTables(made, queued)
               /\ queued.allSockets[id] = child /\ id \in DOMAIN queued.allSockets
            <3>1. Keeps(n, made, cl, queued) /\ SameTables(made, queued)
                BY <2>3, <2>5, <2>11, SocketReplaced DEF Keeps
            <3>2. /\ DOMAIN queued.allSockets = DOMAIN made.allSockets
                  /\ \A k \in DOMAIN made.allSockets :
                        k # listener => queued.allSockets[k] = made.allSockets[k]
                BY <2>3, <2>5, <2>9, SocketSet DEF ManagerOK
            <3> QED  BY <3>1, <3>2, <2>3, <2>5
        <2> HIDE DEF queued
        <2>13. EstablishedEntry(n, queued, cl, connKey(child), id)
            BY <2>2, <2>3, <2>4, <2>12 DEF EstablishedEntry, ListenerEntry, Joined
        <2>14. \/ connKey(child) \notin DOMAIN queued.synPendingByKey
               \/ BothUse(n, connKey(child))
            <3>1. SUFFICES ASSUME connKey(child) \in DOMAIN m.synPendingByKey
                           PROVE  BothUse(n, connKey(child))
                BY <2>3, <2>12 DEF SameTables
            <3>2. PICK s : connKey(s) = connKey(child) /\ s.localPort \in ClientPorts(n)
                BY <3>1 DEF ManagerOK, PendingOK, PendingEntry
            <3>3. s.localPort = child.localPort /\ connKey(child)[3] = child.localPort
                BY <3>2 DEF connKey
            <3> QED  BY <2>2, <2>4, <3>2, <3>3 DEF ListenerEntry, BothUse
        <2>15. Keeps(n, queued, cl, registerEstablished(queued, id, connKey(child)))
            BY <2>12, <2>13, <2>14, EstablishedRegistered DEF Keeps
        <2>16. Keeps(n, m, cl, made)
            BY <2>3 DEF Keeps
        <2> QED  BY <2>1, <2>12, <2>15, <2>16, KeepsTransitive
    <1> QED  BY <1>1, <1>2

\* TcpManager::onAck for a socket in SYN_SENT.
LEMMA OnAckPendingKeeps ==
    ASSUME NEW n, NEW m, NEW cl, ManagerOK(n, m, cl), NEW p,
           pktKey(p) \in DOMAIN m.synPendingByKey
    PROVE  Keeps(n, m, cl, onAckPending(m, p).m)
PROOF
    <1> DEFINE key == pktKey(p)
               id == m.synPendingByKey[key]
               s == m.allSockets[id]
               s2 == markEstablished(setRwnd(s, p.seg.window))
               m1 == [m EXCEPT !.synPendingByKey = erase(@, key)]
               m2 == [m1 EXCEPT !.allSockets[id] = s2]
    <1>1. CASE p.seg.seq # s.synSeq + 1
        <2>1. onAckPending(m, p).m = m
            BY <1>1 DEF onAckPending
        <2> QED  BY <2>1, KeepsItself
    <1>2. CASE p.seg.seq = s.synSeq + 1
        <2>1. onAckPending(m, p).m = registerEstablished(m2, id, key)
            BY <1>2, Zenon DEF onAckPending
        <2>2. PendingEntry(n, m, cl, key, id)
            BY DEF ManagerOK, PendingOK
        <2>3. /\ Keeps(n, m, cl, m1) /\ Unnamed(m1, id)
              /\ m1.allSockets = m.allSockets /\ key \notin DOMAIN m1.synPendingByKey
            BY PendingErased
        <2> HIDE DEF m1, key, id
        <2>4. DOMAIN s = SocketFields /\ QueueOK(m, cl, s.pendingConnQueue)
            BY <2>2 DEF PendingEntry, ManagerOK, Shaped, QueuesOK
        <2>5. /\ DOMAIN setRwnd(s, p.seg.window) = SocketFields
              /\ Stays(s, setRwnd(s, p.seg.window))
              /\ setRwnd(s, p.seg.window).state = "SYN_SENT"
            BY <2>2, <2>4, MethodsStay DEF PendingEntry, Stays
        <2>6. Stays(s, s2) /\ s2.state = "ESTABLISHED" /\ DOMAIN s2 = SocketFields
            BY <2>5 DEF markEstablished, Stays, connKey, SocketFields
        <2> HIDE DEF s2
        <2>7. QueueOK(m1, cl, s2.pendingConnQueue)
            BY <2>3, <2>4, <2>6, Zenon DEF Stays, QueueOK, Child
        <2>8. Keeps(n, m1, cl, m2) /\ SameTables(m1, m2)
            BY <2>2, <2>3, <2>6, <2>7, UnnamedReplaced DEF Keeps, PendingEntry, Joined
        <2>9. m2.allSockets[id] = s2 /\ id \in DOMAIN m2.allSockets
            BY <2>2, <2>3, <2>6, SocketSet DEF Keeps, PendingEntry, ManagerOK
        <2> HIDE DEF m2
        <2>10. EstablishedEntry(n, m2, cl, key, id)
            BY <2>2, <2>6, <2>9 DEF EstablishedEntry, PendingEntry, Stays, Joined, isOpen
        <2>11. key \notin DOMAIN m2.synPendingByKey
            BY <2>3, <2>8 DEF SameTables
        <2>12. Keeps(n, m2, cl, registerEstablished(m2, id, key))
            BY <2>8, <2>10, <2>11, EstablishedRegistered DEF Keeps
        <2> QED  BY <2>1, <2>3, <2>8, <2>12, KeepsTransitive
    <1> QED  BY <1>1, <1>2

\* TcpManager::onAck for a connected socket.
LEMMA OnAckEstablishedKeeps ==
    ASSUME NEW n, NEW m, NEW cl, ManagerOK(n, m, cl), NEW p,
           pktKey(p) \in DOMAIN m.establishedByKey
    PROVE  Keeps(n, m, cl, onAckEstablished(m, n, p).m)
PROOF
    <1> DEFINE key == pktKey(p)
               id == m.establishedByKey[key]
               s == m.allSockets[id]
               a == p.seg.seq
               m1 == [m EXCEPT !.establishedByKey = erase(@, key)]
               m2 == [m1 EXCEPT !.allSockets[id] = markClosed(m1.allSockets[id])]
    <1>1. EstablishedEntry(n, m, cl, key, id)
        BY DEF ManagerOK, EstablishedOK
    <1>2. /\ id \in DOMAIN m.allSockets /\ DOMAIN s = SocketFields
          /\ QueueOK(m, cl, s.pendingConnQueue)
        BY <1>1 DEF EstablishedEntry, ManagerOK, Shaped, QueuesOK
    <1>3. CASE acksFin(s, a)
        <2>1. onAckEstablished(m, n, p).m = m2
            BY <1>3 DEF onAckEstablished
        <2>2. Keeps(n, m, cl, m1) /\ Unnamed(m1, id) /\ m1.allSockets = m.allSockets
            BY EstablishedErased
        <2> HIDE DEF m1, id
        <2>3. /\ DOMAIN markClosed(s) = SocketFields /\ markClosed(s).state \in Joined
              /\ markClosed(s).pendingConnQueue = s.pendingConnQueue
            BY <1>2 DEF markClosed, SocketFields, Joined
        <2>4. QueueOK(m1, cl, markClosed(s).pendingConnQueue)
            BY <1>2, <2>2, <2>3, Zenon DEF QueueOK, Child
        <2>5. m2 = [m1 EXCEPT !.allSockets[id] = markClosed(s)]
            BY <2>2, Zenon
        <2> HIDE DEF m2
        <2>6. Keeps(n, m1, cl, m2)
            BY <1>2, <2>2, <2>3, <2>4, <2>5, UnnamedReplaced DEF Keeps
        <2> QED  BY <2>1, <2>2, <2>6, KeepsTransitive
    <1>4. CASE ~acksFin(s, a) /\ acksNew(s, a)
        <2> DEFINE s1 == setRwnd(s, p.seg.window)
                   s2 == popAckedThrough(s1, a)
                   s3 == additiveIncreaseCwnd(s2)
                   s4 == maybeSendFinOnDrain(s3)
        <2>1. onAckEstablished(m, n, p).m = socketSends(m, n, id, s4, finPkts(s3)).m
            <3>1. onAckEstablished(m, n, p) = drained(m, n, id, acked(s, a, p.seg.window))
                BY <1>4 DEF onAckEstablished
            <3> QED  BY <3>1, Zenon DEF drained, acked
        <2>2. Stays(s, s1) /\ s1.state = s.state
            BY <1>2, MethodsStay
        <2> HIDE DEF s1
        <2>3. Stays(s1, s2) /\ s2.state = s1.state
            BY <2>2, MethodsStay DEF Stays
        <2> HIDE DEF s2
        <2>4. Stays(s2, s3) /\ s3.state = s2.state
            BY <2>3, MethodsStay DEF Stays
        <2> HIDE DEF s3
        <2>5. Stays(s3, s4) /\ s4.state = s3.state
            BY <2>4, MethodsStay DEF Stays
        <2> HIDE DEF s4
        <2>6. Stays(s, s4) /\ s4.state = s.state
            BY <2>2, <2>3, <2>4, <2>5 DEF Stays
        <2> QED  BY <1>2, <2>1, <2>6, SendsKeeps
    <1>5. CASE ~acksFin(s, a) /\ ~acksNew(s, a) /\ isOpen(s) /\ a <= s.sndUna
        <2>1. onAckEstablished(m, n, p).m
                = socketSends(m, n, id, setRwnd(s, p.seg.window), <<>>).m
            BY <1>5 DEF onAckEstablished
        <2>2. /\ Stays(s, setRwnd(s, p.seg.window))
              /\ setRwnd(s, p.seg.window).state = s.state
            BY <1>2, MethodsStay
        <2> QED  BY <1>2, <2>1, <2>2, SendsKeeps
    <1>6. CASE ~acksFin(s, a) /\ ~acksNew(s, a) /\ ~(isOpen(s) /\ a <= s.sndUna)
        <2>1. onAckEstablished(m, n, p).m = m
            BY <1>6 DEF onAckEstablished
        <2> QED  BY <2>1, KeepsItself
    <1> QED  BY <1>3, <1>4, <1>5, <1>6

LEMMA OnAckKeeps ==
    ASSUME NEW n, NEW m, NEW cl, ManagerOK(n, m, cl), NEW p
    PROVE  Keeps(n, m, cl, onAck(m, n, p).m)
PROOF
    <1>1. CASE pktKey(p) \in DOMAIN m.synPendingByKey
        BY <1>1, OnAckPendingKeeps DEF onAck
    <1>2. CASE /\ pktKey(p) \notin DOMAIN m.synPendingByKey
               /\ pktKey(p) \in DOMAIN m.establishedByKey
        BY <1>2, OnAckEstablishedKeeps DEF onAck
    <1>3. CASE /\ pktKey(p) \notin DOMAIN m.synPendingByKey
               /\ pktKey(p) \notin DOMAIN m.establishedByKey
        <2>1. onAck(m, n, p).m = m
            BY <1>3 DEF onAck
        <2> QED  BY <2>1, KeepsItself
    <1> QED  BY <1>1, <1>2, <1>3

\* TcpManager::onFin, the refusal of a connection included.
LEMMA OnFinKeeps ==
    ASSUME NEW n, NEW m, NEW cl, ManagerOK(n, m, cl), NEW p
    PROVE  Keeps(n, m, cl, onFin(m, n, p).m)
PROOF
    <1> DEFINE key == pktKey(p)
    <1>1. CASE key \in DOMAIN m.establishedByKey
        <2> DEFINE id == m.establishedByKey[key]
                   s == m.allSockets[id]
                   s2 == markPeerFinReceived(s)
                   m2 == [m EXCEPT !.allSockets[id] = s2]
        <2>1. onFin(m, n, p).m = m2
            BY <1>1 DEF onFin
        <2>2. EstablishedEntry(n, m, cl, key, id)
            BY <1>1 DEF ManagerOK, EstablishedOK
        <2>3. id \in DOMAIN m.allSockets /\ DOMAIN s = SocketFields
            BY <2>2 DEF EstablishedEntry, ManagerOK, Shaped
        <2>4. Stays(s, s2) /\ (s2.state = s.state \/ (isOpen(s) /\ isOpen(s2)))
            BY <2>3 DEF markPeerFinReceived, Stays, connKey, SocketFields, isOpen
        <2> HIDE DEF s2
        <2>5. Keeps(n, m, cl, m2)
            BY <2>3, <2>4, StayingReplaced
        <2> QED  BY <2>1, <2>5
    <1>2. CASE key \notin DOMAIN m.establishedByKey /\ key \in DOMAIN m.synPendingByKey
        <2> DEFINE id == m.synPendingByKey[key]
                   s == m.allSockets[id]
                   m1 == [m EXCEPT !.synPendingByKey = erase(@, key)]
                   m2 == [m1 EXCEPT !.allSockets[id] = markClosed(m1.allSockets[id])]
        <2>1. onFin(m, n, p).m = m2
            BY <1>2 DEF onFin, refused
        <2>2. PendingEntry(n, m, cl, key, id)
            BY <1>2 DEF ManagerOK, PendingOK
        <2>3. Keeps(n, m, cl, m1) /\ Unnamed(m1, id) /\ m1.allSockets = m.allSockets
            BY <1>2, PendingErased
        <2> HIDE DEF m1, id
        <2>4. /\ id \in DOMAIN m.allSockets /\ DOMAIN s = SocketFields
              /\ QueueOK(m, cl, s.pendingConnQueue)
            BY <2>2 DEF PendingEntry, ManagerOK, Shaped, QueuesOK
        <2>5. /\ DOMAIN markClosed(s) = SocketFields /\ markClosed(s).state \in Joined
              /\ markClosed(s).pendingConnQueue = s.pendingConnQueue
            BY <2>4 DEF markClosed, SocketFields, Joined
        <2>6. QueueOK(m1, cl, markClosed(s).pendingConnQueue)
            BY <2>3, <2>4, <2>5, Zenon DEF QueueOK, Child
        <2>7. m2 = [m1 EXCEPT !.allSockets[id] = markClosed(s)]
            BY <2>3, Zenon
        <2> HIDE DEF m2
        <2>8. Keeps(n, m1, cl, m2)
            BY <2>3, <2>4, <2>5, <2>6, <2>7, UnnamedReplaced DEF Keeps
        <2> QED  BY <2>1, <2>3, <2>8, KeepsTransitive
    <1>3. CASE key \notin DOMAIN m.establishedByKey /\ key \notin DOMAIN m.synPendingByKey
        <2>1. onFin(m, n, p).m = m
            BY <1>3 DEF onFin
        <2> QED  BY <2>1, KeepsItself
    <1> QED  BY <1>1, <1>2, <1>3

\* TcpManager::onData.
LEMMA OnDataKeeps ==
    ASSUME NEW n, NEW m, NEW cl, ManagerOK(n, m, cl), NEW p
    PROVE  Keeps(n, m, cl, onData(m, n, p).m)
PROOF
    <1> DEFINE key == pktKey(p)
               id == m.establishedByKey[key]
               s == m.allSockets[id]
               s2 == IF acceptable(s, p.seg) THEN appendToRecvBuf(s, p.seg.data) ELSE s
    <1>1. CASE key \in DOMAIN m.establishedByKey /\ isOpen(s)
        <2>1. onData(m, n, p).m = socketSends(m, n, id, s2, <<ackPkt(s2, s2.rcvNxt)>>).m
            BY <1>1 DEF onData
        <2>2. EstablishedEntry(n, m, cl, key, id)
            BY <1>1 DEF ManagerOK, EstablishedOK
        <2>3. id \in DOMAIN m.allSockets /\ DOMAIN s = SocketFields
            BY <2>2 DEF EstablishedEntry, ManagerOK, Shaped
        <2>4. /\ Stays(s, appendToRecvBuf(s, p.seg.data))
              /\ appendToRecvBuf(s, p.seg.data).state = s.state
            BY <2>3, MethodsStay
        <2>5. Stays(s, s)
            BY <2>3 DEF Stays
        <2>6. Stays(s, s2) /\ s2.state = s.state
            BY <2>4, <2>5
        <2> HIDE DEF s2
        <2> QED  BY <2>1, <2>3, <2>6, SendsKeeps
    <1>2. CASE ~(key \in DOMAIN m.establishedByKey /\ isOpen(s))
        <2>1. onData(m, n, p).m = m
            BY <1>2 DEF onData
        <2> QED  BY <2>1, KeepsItself
    <1> QED  BY <1>1, <1>2

\* TcpManager::onRetransmissionTick for one socket of the table.
LEMMA RetransmitKeeps ==
    ASSUME NEW n, NEW m, NEW cl, ManagerOK(n, m, cl), NEW id \in DOMAIN m.allSockets
    PROVE  Keeps(n, m, cl, retransmit(m, n, id).m)
PROOF
    <1> DEFINE s == m.allSockets[id]
               s1 == doubleRto(s)
               s2 == multiplicativeDecreaseCwnd(s1)
    <1>1. retransmit(m, n, id).m = socketSends(m, n, id, s2, dataPkts(s.outstanding)).m
        BY Zenon DEF retransmit
    <1>2. DOMAIN s = SocketFields
        BY DEF ManagerOK, Shaped
    <1>3. Stays(s, s1) /\ s1.state = s.state
        BY <1>2, MethodsStay
    <1> HIDE DEF s1
    <1>4. Stays(s1, s2) /\ s2.state = s1.state
        BY <1>3, MethodsStay DEF Stays
    <1> HIDE DEF s2
    <1>5. Stays(s, s2) /\ s2.state = s.state
        BY <1>3, <1>4, StaysTransitive
    <1> QED  BY <1>1, <1>5, SendsKeeps

\* TcpSocket::write.
LEMMA WriteKeeps ==
    ASSUME NEW n, NEW m, NEW cl, ManagerOK(n, m, cl), NEW id \in DOMAIN m.allSockets,
           NEW bytes, NEW segs
    PROVE  Keeps(n, m, cl, socketSends(m, n, id, write(m.allSockets[id], bytes), segs).m)
PROOF
    <1> DEFINE s == m.allSockets[id]
               s2 == write(s, bytes)
    <1>1. DOMAIN s = SocketFields
        BY DEF ManagerOK, Shaped
    <1>2. Stays(s, s2) /\ s2.state = s.state
        BY <1>1, MethodsStay
    <1> HIDE DEF s2
    <1>3. Keeps(n, m, cl, socketSends(m, n, id, s2, segs).m)
        BY <1>2, SendsKeeps
    <1> QED  BY <1>3 DEF s2

\* TcpSocket::close of a connected socket.
LEMMA CloseKeeps ==
    ASSUME NEW n, NEW m, NEW cl, ManagerOK(n, m, cl), NEW id \in DOMAIN m.allSockets,
           m.allSockets[id].state = "ESTABLISHED"
    PROVE  Keeps(n, m, cl, close(m, n, id).m)
PROOF
    <1> DEFINE s == m.allSockets[id]
               s1 == [s EXCEPT !.state = "SHUTDOWN"]
               s2 == maybeSendFinOnDrain(s1)
    <1>1. close(m, n, id).m = socketSends(m, n, id, s2, finPkts(s1)).m
        <2>1. close(m, n, id) = drained(m, n, id, s1)
            BY DEF close
        <2> QED  BY <2>1, Zenon DEF drained
    <1>2. DOMAIN s = SocketFields
        BY DEF ManagerOK, Shaped
    <1>3. Stays(s, s1) /\ s1.state = "SHUTDOWN"
        BY <1>2, MethodsStay
    <1> HIDE DEF s1
    <1>4. Stays(s1, s2) /\ s2.state = s1.state
        BY <1>3, MethodsStay DEF Stays
    <1> HIDE DEF s2
    <1>5. Stays(s, s2) /\ isOpen(s) /\ isOpen(s2)
        BY <1>3, <1>4, StaysTransitive DEF isOpen
    <1> QED  BY <1>1, <1>5, SendsKeeps

\* TcpSocket::read by a worker, who has a child.
LEMMA ReadKeeps ==
    ASSUME NEW n, NEW m, NEW cl, ManagerOK(n, m, cl), NEW id, Child(m, cl, id), NEW len,
           NEW m2, m2 = [m EXCEPT !.allSockets[id] = read(m.allSockets[id], len)]
    PROVE  Keeps(n, m, cl, m2)
PROOF
    <1> DEFINE s == m.allSockets[id]
               s2 == read(s, len)
    <1>1. /\ id \in DOMAIN m.allSockets /\ id \notin DOMAIN cl
          /\ s.state \in Joined /\ DOMAIN s = SocketFields
        BY DEF Child, ManagerOK, Shaped
    <1>2. Stays(s, s2) /\ s2.state \in {s.state, "CLOSED"}
        BY <1>1, ReadStays
    <1>3. s2.state \in Joined
        BY <1>1, <1>2 DEF Joined
    <1>4. m2 = [m EXCEPT !.allSockets[id] = s2]
        BY Zenon
    <1> HIDE DEF s2
    <1> QED  BY <1>1, <1>2, <1>3, <1>4, StayingReplaced

\* TcpSocket::release: afterwards no table names a socket that was not CLOSED.
LEMMA ReleaseKeeps ==
    ASSUME NEW n, NEW m, NEW cl, ManagerOK(n, m, cl), NEW id \in DOMAIN m.allSockets
    PROVE  /\ Keeps(n, m, cl, release(m, id))
           /\ m.allSockets[id].state # "CLOSED" => Unnamed(release(m, id), id)
PROOF
    <1> DEFINE m1 == unregisterSocket(m, id)
               s == m1.allSockets[id]
               s2 == [s EXCEPT !.pendingConnQueue = <<>>, !.backlog = 0,
                               !.remoteAddr = NONE, !.remotePort = NONE,
                               !.localPort = NONE, !.state = "CLOSED"]
               m2 == [m1 EXCEPT !.allSockets[id] = s2]
    <1>1. CASE m.allSockets[id].state = "CLOSED"
        <2>1. release(m, id) = m
            BY <1>1 DEF release
        <2> QED  BY <1>1, <2>1, KeepsItself
    <1>2. CASE m.allSockets[id].state # "CLOSED"
        <2>1. release(m, id) = m2
            BY <1>2, Zenon DEF release
        <2>2. Keeps(n, m, cl, m1) /\ Unnamed(m1, id) /\ m1.allSockets = m.allSockets
            BY Unregistered
        <2> HIDE DEF m1
        <2>3. DOMAIN s = SocketFields
            BY <2>2 DEF ManagerOK, Shaped
        <2>4. DOMAIN s2 = SocketFields /\ s2.state \in Joined /\ s2.pendingConnQueue = <<>>
            BY <2>3 DEF SocketFields, Joined
        <2> HIDE DEF s2
        <2>5. QueueOK(m1, cl, s2.pendingConnQueue)
            BY <2>4 DEF QueueOK
        <2>6. Keeps(n, m1, cl, m2) /\ SameTables(m1, m2)
            BY <2>2, <2>4, <2>5, UnnamedReplaced DEF Keeps
        <2> HIDE DEF m2
        <2>7. Unnamed(m2, id)
            BY <2>2, <2>6, Zenon DEF Unnamed, SameTables
        <2> QED  BY <2>1, <2>2, <2>6, <2>7, KeepsTransitive
    <1> QED  BY <1>1, <1>2

\* TcpSocket::accept: what it takes from the queue is a child.
LEMMA AcceptKeeps ==
    ASSUME NEW n, NEW m, NEW cl, ManagerOK(n, m, cl), NEW id \in DOMAIN m.allSockets,
           hasPending(m, id)
    PROVE  /\ Keeps(n, m, cl, accept(m, id))
           /\ Child(m, cl, Head(m.allSockets[id].pendingConnQueue))
PROOF
    <1> DEFINE s == m.allSockets[id]
               q == s.pendingConnQueue
               conn == Head(q)
               s1 == [s EXCEPT !.pendingConnQueue = Tail(q)]
               m1 == [m EXCEPT !.allSockets[id] = s1]
               t == m1.allSockets[conn]
               t2 == [t EXCEPT !.state = IF @ # "CLOSED" THEN "ESTABLISHED" ELSE @]
               m2 == [m1 EXCEPT !.allSockets[conn] = t2]
    <1>1. accept(m, id) = m2
        BY Zenon DEF accept
    <1>2. s.state = "LISTEN" /\ q # <<>> /\ DOMAIN s = SocketFields /\ QueueOK(m, cl, q)
        BY DEF hasPending, ManagerOK, Shaped, QueuesOK
    <1>3. Child(m, cl, conn) /\ QueueOK(m, cl, Tail(q))
        <2> HIDE DEF q
        <2>1. q \in Seq(Nat) /\ q # <<>> /\ \A j \in 1 .. Len(q) : Child(m, cl, q[j])
            BY <1>2 DEF QueueOK
        <2>2. conn = q[1] /\ 1 \in 1 .. Len(q) /\ Tail(q) \in Seq(Nat)
            BY <2>1
        <2>3. \A j \in 1 .. Len(Tail(q)) : Tail(q)[j] = q[j + 1] /\ j + 1 \in 1 .. Len(q)
            BY <2>1
        <2> HIDE DEF conn
        <2> QED  BY <2>1, <2>2, <2>3 DEF QueueOK
    <1>4. /\ DOMAIN s1 = SocketFields /\ s1.state = s.state /\ s1.localPort = s.localPort
          /\ connKey(s1) = connKey(s) /\ s1.pendingConnQueue = Tail(q)
        BY <1>2 DEF SocketFields, connKey
    <1> HIDE DEF s1, conn
    <1>5. MayBecome(m, cl, id, s1)
        <2>1. ~Child(m, cl, id)
            BY <1>2 DEF Child, Joined
        <2>2. \A key \in DOMAIN m.establishedByKey : m.establishedByKey[key] # id
            BY <1>2 DEF ManagerOK, EstablishedOK, EstablishedEntry, Joined
        <2> QED  BY <1>3, <1>4, <2>1, <2>2, Zenon DEF MayBecome
    <1>6. Keeps(n, m, cl, m1)
        BY <1>5, SocketReplaced DEF Keeps
    <1> HIDE DEF m1
    <1>7. Child(m1, cl, conn) /\ DOMAIN t = SocketFields
        BY <1>3, <1>6 DEF Keeps, Kept, Child, ManagerOK, Shaped
    <1>8. Stays(t, t2) /\ t2.state \in Joined
        BY <1>7 DEF Stays, connKey, SocketFields, Child, Joined
    <1> HIDE DEF t2
    <1>9. Keeps(n, m1, cl, m2)
        BY <1>6, <1>7, <1>8, StayingReplaced DEF Keeps, Child
    <1>10. Keeps(n, m, cl, m2)
        BY <1>6, <1>9, KeepsTransitive
    <1> QED  BY <1>1, <1>3, <1>10 DEF conn

\* What is written over the last socket might have been appended.
LEMMA AppendReplaced ==
    ASSUME NEW q, Listed(q), NEW a, NEW b
    PROVE  [Append(q, a) EXCEPT ![Len(Append(q, a))] = b] = Append(q, b)
PROOF
    <1> DEFINE S == Range(q) \cup {a, b}
               r == Append(q, a)
               k == Len(q) + 1
    <1>1. q \in Seq(Range(q)) /\ Range(q) \subseteq S /\ a \in S /\ b \in S
        BY DEF Listed
    <1> HIDE DEF S
    <1>2. q \in Seq(S)
        BY <1>1, SeqMonotonic, Zenon
    <1>3. /\ r \in Seq(S) /\ Append(q, b) \in Seq(S) /\ Len(r) = k /\ k \in 1 .. Len(r)
          /\ Len(Append(q, b)) = k /\ Append(q, b)[k] = b
          /\ \A i \in 1 .. k : i # k => r[i] = q[i] /\ Append(q, b)[i] = q[i]
        BY <1>1, <1>2
    <1> HIDE DEF r
    <1>4. [r EXCEPT ![k] = b] \in Seq(S)
        BY <1>1, <1>3, ExceptSeq, Zenon
    <1>5. /\ Len([r EXCEPT ![k] = b]) = Len(r)
          /\ \A i \in 1 .. k : [r EXCEPT ![k] = b][i] = IF i = k THEN b ELSE r[i]
        BY <1>1, <1>3, ExceptSeq
    <1> HIDE DEF k
    <1>6. /\ Len([r EXCEPT ![k] = b]) = Len(Append(q, b))
          /\ \A i \in 1 .. Len([r EXCEPT ![k] = b]) : [r EXCEPT ![k] = b][i] = Append(q, b)[i]
        BY <1>3, <1>5
    <1>7. [r EXCEPT ![k] = b] = Append(q, b)
        BY <1>3, <1>4, <1>6, SeqEqual, Zenon
    <1> QED  BY <1>3, <1>7 DEF r

\* The `server` command: socket(), bind() and listen().
LEMMA ListenKeeps ==
    ASSUME NEW n, NEW m, NEW cl, ManagerOK(n, m, cl),
           DOMAIN cl \subseteq DOMAIN m.allSockets,
           NEW port \in ServerPorts(n), NEW backlog,
           NEW made, made = socketBound(m, port), NEW id, id = Len(made.allSockets)
    PROVE  /\ Keeps(n, m, cl, listen(made, id, backlog))
           /\ id \in DOMAIN listen(made, id, backlog).allSockets
PROOF
    <1> DEFINE s == [newSocket EXCEPT !.localPort = port]
               s1 == [s EXCEPT !.state = "LISTEN"]
               m1 == [made EXCEPT !.allSockets[id] = s1]
               s2 == [s1 EXCEPT !.backlog = backlog]
               m2 == [m1 EXCEPT !.allSockets[id] = s2]
    <1>1. /\ DOMAIN s = SocketFields /\ s.pendingConnQueue = <<>>
          /\ s.state = "CLOSED" /\ s.localPort = port
        BY NewSocketFields DEF SocketFields
    <1>2. made = [m EXCEPT !.allSockets = Append(@, s)]
        BY Zenon DEF socketBound
    <1> HIDE DEF s
    <1>3. /\ Shaped(made) /\ id \in DOMAIN made.allSockets /\ made.allSockets[id] = s
        BY <1>1, <1>2, SocketAdded DEF ManagerOK
    <1>4. DOMAIN s1 = SocketFields /\ s1.localPort = port
        BY <1>1 DEF SocketFields
    <1>5. /\ DOMAIN s2 = SocketFields /\ s2.pendingConnQueue = <<>>
          /\ s2.state = "LISTEN" /\ s2.localPort = port
        BY <1>1 DEF SocketFields
    <1>6. m1.allSockets[id] = s1
        BY <1>3, <1>4, SocketSet
    <1>7. listen(made, id, backlog) = registerListener(m2, id, port)
        <2>1. made.allSockets[id].state = "CLOSED" /\ made.allSockets[id].localPort = port
            BY <1>1, <1>3
        <2>2. listen(made, id, backlog)
                = registerListener([made EXCEPT !.allSockets[id].state = "LISTEN",
                                                !.allSockets[id].backlog = backlog],
                                   id, port)
            BY <2>1 DEF listen
        <2>3. [made EXCEPT !.allSockets[id].state = "LISTEN"] = m1
            BY <1>3
        <2>4. [m1 EXCEPT !.allSockets[id].backlog = backlog] = m2
            BY <1>6
        <2>5. [made EXCEPT !.allSockets[id].state = "LISTEN",
                           !.allSockets[id].backlog = backlog]
                = [[made EXCEPT !.allSockets[id].state = "LISTEN"]
                        EXCEPT !.allSockets[id].backlog = backlog]
            OBVIOUS
        <2> QED  BY <2>2, <2>3, <2>4, <2>5
    <1> HIDE DEF s1, s2
    <1>8. m2 = [m EXCEPT !.allSockets = Append(@, s2)]
        <2>1. DOMAIN m = ManagerFields /\ Listed(m.allSockets)
            BY DEF ManagerOK, Shaped
        <2>2. made.allSockets = Append(m.allSockets, s)
            BY <1>2, <2>1 DEF ManagerFields
        <2>3. [made.allSockets EXCEPT ![id] = s2] = Append(m.allSockets, s2)
            <3>1. [Append(m.allSockets, s) EXCEPT ![Len(Append(m.allSockets, s))] = s2]
                    = Append(m.allSockets, s2)
                BY <2>1, AppendReplaced, Zenon
            <3> QED  BY <2>2, <3>1, Zenon
        <2>4. m2 = [made EXCEPT !.allSockets = [made.allSockets EXCEPT ![id] = s2]]
            BY <1>6
        <2> QED  BY <1>2, <2>3, <2>4
    <1> HIDE DEF m1, m2
    <1>9. id = Len(m2.allSockets)
        BY <1>1, <1>2, <1>5, <1>8, SocketAdded DEF ManagerOK
    <1>10. Keeps(n, m, cl, m2) /\ id \in DOMAIN m2.allSockets /\ m2.allSockets[id] = s2
        BY <1>5, <1>8, <1>9, SocketMade DEF Keeps
    <1>11. ListenerEntry(n, m2, port, id)
        BY <1>5, <1>10 DEF ListenerEntry
    <1>12. Keeps(n, m2, cl, registerListener(m2, id, port))
        BY <1>10, <1>11, ListenerRegistered DEF Keeps
    <1>13. Keeps(n, m, cl, listen(made, id, backlog))
        BY <1>7, <1>10, <1>12, KeepsTransitive
    <1>14. id \in DOMAIN listen(made, id, backlog).allSockets
        BY <1>7, <1>11, <1>12 DEF ListenerEntry, Keeps, Kept
    <1> QED  BY <1>13, <1>14

\* What connect() leaves of manager m, whose new client is socket id.
Connects(n, m, cl, m3, cl2, id, addr, port, localPort) ==
    /\ ManagerOK(n, m3, cl2) /\ Kept(m, cl, m3, cl2) /\ id \in DOMAIN m3.allSockets
    /\ Gains(n, m, cl, m3, addr, port, localPort)

\* The `transfer` command: socket(), bind() and connect().  The new key is
\* established already only if a client that runs has it or a listener's child may.
LEMMA ConnectKeeps ==
    ASSUME NEW n \in Nodes, NEW m, NEW cl, ManagerOK(n, m, cl),
           DOMAIN cl \subseteq DOMAIN m.allSockets,
           NEW port \in ClientPorts(n),
           NEW made, made = socketBound(m, port), NEW id, id = Len(made.allSockets),
           NEW cl2, DOMAIN cl2 = DOMAIN cl \cup {id}, cl2[id].status = "running",
           \A k \in DOMAIN cl : k # id => cl2[k] = cl[k],
           NEW destAddr, NEW destPort,
           NEW m3, m3 = connect(made, n, id, destAddr, destPort).m
    PROVE  Connects(n, m, cl, m3, cl2, id, destAddr, destPort, port)
PROOF
    <1> DEFINE s == [newSocket EXCEPT !.localPort = port]
               old == made.allSockets[id]
               syn == [old EXCEPT !.remoteAddr = destAddr, !.remotePort = destPort,
                                  !.synSeq = old.sndNxt, !.state = "SYN_SENT"]
               m2 == [made EXCEPT !.allSockets[id] = syn]
    <1>1. DOMAIN s = SocketFields /\ s.pendingConnQueue = <<>> /\ s.localPort = port
        BY NewSocketFields DEF SocketFields
    <1>2. made = [m EXCEPT !.allSockets = Append(@, s)]
        BY Zenon DEF socketBound
    <1> HIDE DEF s
    <1>3. id \notin DOMAIN m.allSockets
        BY <1>1, <1>2, SocketAdded DEF ManagerOK
    <1>4. /\ ManagerOK(n, made, cl2) /\ Kept(m, cl, made, cl2) /\ SameTables(m, made)
          /\ Unnamed(made, id) /\ id \in DOMAIN made.allSockets /\ old = s
          /\ Mixes(n, m, made)
        BY <1>1, <1>2, <1>3, SocketMade
    <1>5. CASE old.localPort < 0 \/ destPort \notin 0 .. MAX_PORT_NUM
        <2>1. m3 = made
            BY <1>5 DEF connect
        <2> QED  BY <1>4, <2>1 DEF Mixes, Gains, Connects
    <1>6. CASE ~(old.localPort < 0 \/ destPort \notin 0 .. MAX_PORT_NUM)
        <2>1. m3 = registerSynPending(m2, id, connKey(syn))
            BY <1>6 DEF connect, socketSends
        <2>2. /\ DOMAIN syn = SocketFields /\ syn.pendingConnQueue = <<>>
              /\ syn.state = "SYN_SENT" /\ syn.localPort = port
              /\ connKey(syn) = <<destAddr, destPort, port>>
            BY <1>1, <1>4 DEF SocketFields, connKey
        <2> HIDE DEF syn, old
        <2>3. QueueOK(made, cl2, syn.pendingConnQueue) /\ ~Child(made, cl2, id)
            BY <2>2 DEF QueueOK, Child
        <2>4. Keeps(n, made, cl2, m2) /\ SameTables(made, m2)
            BY <1>4, <2>2, <2>3, UnnamedReplaced
        <2>5. m2.allSockets[id] = syn /\ id \in DOMAIN m2.allSockets
            BY <1>4, <2>2, SocketSet DEF ManagerOK
        <2> HIDE DEF m2
        <2>6. PendingEntry(n, m2, cl2, connKey(syn), id)
            BY <2>2, <2>5 DEF PendingEntry
        <2>7. ASSUME connKey(syn) \in DOMAIN m2.establishedByKey
              PROVE  \/ BothUse(n, connKey(syn))
                     \/ Runs(m, cl, connKey(syn))
            <3>1. connKey(syn) \in DOMAIN m.establishedByKey
                BY <1>4, <2>4, <2>7 DEF SameTables
            <3>2. PICK e : EstablishedEntry(n, m, cl, connKey(syn), e)
                BY <3>1 DEF ManagerOK, EstablishedOK
            <3>3. m.allSockets[e].localPort = port /\ connKey(syn)[3] = port
                BY <2>2, <3>2 DEF EstablishedEntry, connKey
            <3> QED  BY <3>2, <3>3 DEF EstablishedEntry, BothUse, Runs
        <2>8. /\ ManagerOK(n, m3, cl2) /\ Kept(m2, cl2, m3, cl2)
              /\ \A k \in Doubled(m3) : \/ k \in Doubled(m2)
                                         \/ /\ k = connKey(syn)
                                            /\ connKey(syn) \in DOMAIN m2.establishedByKey
            BY <2>1, <2>4, <2>6, PendingRegistered DEF Keeps
        <2>9. Doubled(m2) = Doubled(m)
            BY <1>4, <2>4 DEF Doubled, SameTables
        <2>10. Kept(m, cl, m3, cl2)
            BY <1>4, <2>4, <2>8, KeptTransitive DEF Keeps
        <2>11. id \in DOMAIN m3.allSockets
            BY <2>5, <2>8 DEF Kept
        <2>12. Gains(n, m, cl, m3, destAddr, destPort, port)
            BY <2>2, <2>7, <2>8, <2>9 DEF Gains
        <2> QED  BY <2>8, <2>10, <2>11, <2>12 DEF Connects, Keeps
    <1> QED  BY <1>5, <1>6

-----------------------------------------------------------------------------
(* A step of one node. *)

LEMMA TasksChanged ==
    ASSUME NEW m, NEW cl, NEW sv, NEW wk, TasksOK(m, cl, sv, wk),
           NEW m2, NEW cl2, NEW sv2, NEW wk2, Kept(m, cl, m2, cl2),
           \A id \in DOMAIN cl2 :
                \/ id \in DOMAIN cl /\ cl2[id] = cl[id]
                \/ id \in DOMAIN m2.allSockets /\ DOMAIN cl2[id] = ClientFields,
           DOMAIN sv2 \subseteq DOMAIN sv \cup DOMAIN m2.allSockets,
           \A id \in DOMAIN wk2 : id \in DOMAIN wk \/ Child(m2, cl2, id)
    PROVE  TasksOK(m2, cl2, sv2, wk2)
PROOF
    <1>1. DOMAIN m.allSockets \subseteq DOMAIN m2.allSockets
        BY DEF Kept
    <1>2. \A id : Child(m, cl, id) => Child(m2, cl2, id)
        BY Zenon DEF Kept
    <1>3. \A id \in DOMAIN cl2 : id \in DOMAIN m2.allSockets /\ DOMAIN cl2[id] = ClientFields
        BY <1>1 DEF TasksOK
    <1>4. DOMAIN sv2 \subseteq DOMAIN m2.allSockets
        BY <1>1 DEF TasksOK
    <1>5. \A id \in DOMAIN wk2 : Child(m2, cl2, id)
        BY <1>2, Zenon DEF TasksOK
    <1> QED  BY <1>3, <1>4, <1>5 DEF TasksOK

LEMMA TasksKept ==
    ASSUME NEW n, NEW m, NEW cl, NEW sv, NEW wk, TasksOK(m, cl, sv, wk),
           NEW m2, Keeps(n, m, cl, m2)
    PROVE  TasksOK(m2, cl, sv, wk)
PROOF
    BY TasksChanged, Zenon DEF Keeps

\* Only entry n of the function f changes.
Changed(f, f2, n) ==
    DOMAIN f2 = DOMAIN f /\ \A k \in DOMAIN f : k # n => f2[k] = f[k]

LEMMA NodeStep ==
    ASSUME TablesInv, NEW n \in Nodes,
           Changed(tcp, tcp', n), Changed(clients, clients', n),
           Changed(servers, servers', n), Changed(workers, workers', n),
           ManagerOK(n, tcp'[n], clients'[n]),
           TasksOK(tcp'[n], clients'[n], servers'[n], workers'[n]),
           SharedOnly(n, tcp'[n], shared'), shared \subseteq shared'
    PROVE  TablesInv'
PROOF
    <1>1. /\ DOMAIN tcp' = Nodes /\ DOMAIN clients' = Nodes
          /\ DOMAIN servers' = Nodes /\ DOMAIN workers' = Nodes
        BY DEF TablesInv, Changed
    <1>2. ASSUME NEW k \in Nodes
          PROVE  /\ ManagerOK(k, tcp'[k], clients'[k])
                 /\ TasksOK(tcp'[k], clients'[k], servers'[k], workers'[k])
                 /\ SharedOnly(k, tcp'[k], shared')
        <2>1. CASE k # n
            <3>1. /\ tcp'[k] = tcp[k] /\ clients'[k] = clients[k]
                  /\ servers'[k] = servers[k] /\ workers'[k] = workers[k]
                BY <2>1, Zenon DEF TablesInv, Changed
            <3> QED  BY <3>1, Zenon DEF TablesInv, SharedOnly
        <2> QED  BY <2>1
    <1>3. TablesInv' <=>
            /\ DOMAIN tcp' = Nodes /\ DOMAIN clients' = Nodes
            /\ DOMAIN servers' = Nodes /\ DOMAIN workers' = Nodes
            /\ \A k \in Nodes :
                /\ ManagerOK(k, tcp'[k], clients'[k])
                /\ TasksOK(tcp'[k], clients'[k], servers'[k], workers'[k])
                /\ SharedOnly(k, tcp'[k], shared')
        BY DEF TablesInv
    <1> QED  BY <1>1, <1>2, <1>3, Zenon

\* What a handler or a method leaves behind.
LEMMA MixesShared ==
    ASSUME TablesInv, NEW n \in Nodes, NEW m2, Keeps(n, tcp[n], clients[n], m2),
           tcp'[n] = m2, shared' = shared
    PROVE  SharedOnly(n, tcp'[n], shared') /\ shared \subseteq shared'
PROOF
    BY Zenon DEF TablesInv, SharedOnly, Keeps, Mixes

\* A step that changes a node's manager and no task.
LEMMA ManagerStep ==
    ASSUME TablesInv, NEW n \in Nodes, NEW m2, Keeps(n, tcp[n], clients[n], m2),
           tcp' = [tcp EXCEPT ![n] = m2],
           UNCHANGED <<clients, servers, workers, shared>>
    PROVE  TablesInv'
PROOF
    <1>1. TasksOK(tcp[n], clients[n], servers[n], workers[n])
        BY DEF TablesInv
    <1>2. tcp'[n] = m2 /\ Changed(tcp, tcp', n)
        BY DEF TablesInv, Changed
    <1>3. /\ Changed(clients, clients', n) /\ Changed(servers, servers', n)
          /\ Changed(workers, workers', n)
        BY Zenon DEF Changed
    <1>4. ManagerOK(n, tcp'[n], clients'[n])
        BY <1>2 DEF Keeps
    <1>5. TasksOK(m2, clients[n], servers[n], workers[n])
        BY <1>1, TasksKept, Zenon
    <1>6. TasksOK(tcp'[n], clients'[n], servers'[n], workers'[n])
        BY <1>2, <1>5, Zenon
    <1> QED  BY <1>2, <1>3, <1>4, <1>6, MixesShared, NodeStep

-----------------------------------------------------------------------------
(* The invariant holds initially, and every action keeps it. *)

LEMMA NewManagerOK ==
    ASSUME NEW n
    PROVE  /\ ManagerOK(n, NewManager, <<>>) /\ TasksOK(NewManager, <<>>, <<>>, <<>>)
           /\ \A sh : SharedOnly(n, NewManager, sh)
PROOF
    <1> DEFINE m == NewManager
    <1>1. /\ DOMAIN m = ManagerFields /\ m.allSockets = <<>>
          /\ m.listenersByPort = <<>> /\ m.synPendingByKey = <<>>
          /\ m.establishedByKey = <<>>
        BY DEF NewManager, ManagerFields
    <1> HIDE DEF m
    <1>2. DOMAIN <<>> = {}
        OBVIOUS
    <1>3. Listed(<<>>)
        BY DEF Listed
    <1>4. Shaped(m)
        BY <1>1, <1>2, <1>3, Zenon DEF Shaped
    <1>5. /\ ListenersOK(n, m) /\ PendingOK(n, m, <<>>) /\ EstablishedOK(n, m, <<>>)
          /\ QueuesOK(m, <<>>)
        BY <1>1, <1>2 DEF ListenersOK, PendingOK, EstablishedOK, QueuesOK
    <1>6. TasksOK(m, <<>>, <<>>, <<>>)
        BY <1>1, <1>2 DEF TasksOK
    <1>7. \A sh : SharedOnly(n, m, sh)
        BY <1>1, <1>2 DEF SharedOnly, Doubled
    <1> QED  BY <1>4, <1>5, <1>6, <1>7 DEF ManagerOK, m

LEMMA TablesInit ==
    ASSUME Init
    PROVE  TablesInv
PROOF
    <1>1. /\ tcp = [n \in Nodes |-> NewManager] /\ clients = [n \in Nodes |-> <<>>]
          /\ servers = [n \in Nodes |-> <<>>] /\ workers = [n \in Nodes |-> <<>>]
        BY DEF Init
    <1>2. /\ DOMAIN tcp = Nodes /\ DOMAIN clients = Nodes
          /\ DOMAIN servers = Nodes /\ DOMAIN workers = Nodes
        BY <1>1
    <1>3. \A n \in Nodes : /\ tcp[n] = NewManager /\ clients[n] = <<>>
                           /\ servers[n] = <<>> /\ workers[n] = <<>>
        BY <1>1
    <1>4. \A n \in Nodes : /\ ManagerOK(n, tcp[n], clients[n])
                           /\ TasksOK(tcp[n], clients[n], servers[n], workers[n])
                           /\ SharedOnly(n, tcp[n], shared)
        BY <1>3, NewManagerOK
    <1> QED  BY <1>2, <1>4 DEF TablesInv

\* Whatever packet has arrived.
LEMMA ReceiveStep ==
    ASSUME TablesInv, NEW n \in Nodes, receiveTransport(n)
    PROVE  TablesInv'
PROOF
    <1> DEFINE m == tcp[n]
               cl == clients[n]
    <1>1. ManagerOK(n, m, cl) /\ DOMAIN cl \subseteq DOMAIN m.allSockets
        BY DEF TablesInv, TasksOK
    <1>2. PICK a : ReceiveSyn(n, a) \/ ReceiveAck(n, a) \/ ReceiveFin(n, a) \/ ReceiveData(n, a)
        BY Zenon DEF receiveTransport
    <1> DEFINE p == Head(net[a][n])
    <1>3. PICK m2 : /\ tcp' = [tcp EXCEPT ![n] = m2]
                    /\ UNCHANGED <<clients, servers, workers, shared>>
                    /\ m2 \in {onSyn(m, n, p).m, onAck(m, n, p).m,
                               onFin(m, n, p).m, onData(m, n, p).m}
        BY <1>2, Zenon DEF ReceiveSyn, ReceiveAck, ReceiveFin, ReceiveData, Receive
    <1> HIDE DEF p
    <1>4. Keeps(n, m, cl, m2)
        <2>1. Keeps(n, m, cl, onSyn(m, n, p).m)
            BY <1>1, OnSynKeeps
        <2>2. Keeps(n, m, cl, onAck(m, n, p).m)
            BY <1>1, OnAckKeeps
        <2>3. Keeps(n, m, cl, onFin(m, n, p).m)
            BY <1>1, OnFinKeeps
        <2>4. Keeps(n, m, cl, onData(m, n, p).m)
            BY <1>1, OnDataKeeps
        <2> QED  BY <1>3, <2>1, <2>2, <2>3, <2>4, Zenon
    <1> QED  BY <1>3, <1>4, ManagerStep

LEMMA RetransmissionStep ==
    ASSUME TablesInv, NEW n \in Nodes, retransmissionTick(n)
    PROVE  TablesInv'
PROOF
    <1> DEFINE m == tcp[n]
               cl == clients[n]
    <1>1. ManagerOK(n, m, cl)
        BY DEF TablesInv
    <1>2. PICK id \in Range(m.establishedByKey) :
                tcp' = [tcp EXCEPT ![n] = retransmit(m, n, id).m]
        BY Zenon DEF retransmissionTick, Perform
    <1>3. UNCHANGED <<clients, servers, workers, shared>>
        BY DEF retransmissionTick
    <1>4. id \in DOMAIN m.allSockets
        BY <1>1, <1>2 DEF Range, ManagerOK, EstablishedOK, EstablishedEntry
    <1>5. Keeps(n, m, cl, retransmit(m, n, id).m)
        BY <1>1, <1>4, RetransmitKeeps
    <1> QED  BY <1>2, <1>3, <1>5, ManagerStep

LEMMA TransferCommandStep ==
    ASSUME TablesInv, NEW c, matchTransferCommand(c)
    PROVE  TablesInv'
PROOF
    <1> DEFINE n == c.node
               m == tcp[n]
               cl == clients[n]
               made == socketBound(m, c.localPort)
               id == Len(made.allSockets)
               key == <<c.dest, c.port, c.localPort>>
               new == [amount |-> c.amount, pos |-> 0, sz |-> c.sz, conn |-> key,
                       status |-> "running"]
               cl2 == put(cl, id, new)
               m3 == connect(made, n, id, c.dest, c.port).m
    <1>1. c \in TransferCmds /\ n \in Nodes
        BY TransferConstants DEF matchTransferCommand
    <1>2. /\ ManagerOK(n, m, cl) /\ TasksOK(m, cl, servers[n], workers[n])
          /\ DOMAIN cl \subseteq DOMAIN m.allSockets
        BY <1>1 DEF TablesInv, TasksOK
    <1>3. c.localPort \in ClientPorts(n)
        BY <1>1 DEF ClientPorts
    <1>4. /\ shared \subseteq shared'
          /\ Runs(m, cl, key) => <<n, key>> \in shared'
        BY DEF matchTransferCommand, inUse, sockOf, Runs
    <1>5. /\ DOMAIN cl2 = DOMAIN cl \cup {id} /\ cl2[id] = new
          /\ \A k \in DOMAIN cl : k # id => cl2[k] = cl[k]
        BY DEF put
    <1>6. tcp' = [tcp EXCEPT ![n] = m3] /\ clients' = [clients EXCEPT ![n] = cl2]
        BY Zenon DEF matchTransferCommand, Perform
    <1>7. UNCHANGED <<servers, workers>>
        BY DEF matchTransferCommand
    <1>8. new.status = "running" /\ DOMAIN new = ClientFields
        BY DEF ClientFields
    <1>0. /\ made = socketBound(m, c.localPort) /\ id = Len(made.allSockets)
          /\ m3 = connect(made, n, id, c.dest, c.port).m
        BY Zenon
    <1> HIDE DEF made, id, new, cl2, m3
    <1>9. /\ ManagerOK(n, m3, cl2) /\ Kept(m, cl, m3, cl2) /\ id \in DOMAIN m3.allSockets
          /\ Gains(n, m, cl, m3, c.dest, c.port, c.localPort)
        <2>1. cl2[id].status = "running"
            BY <1>5, <1>8
        <2> HIDE DEF n, m, cl, key
        <2>2. Connects(n, m, cl, m3, cl2, id, c.dest, c.port, c.localPort)
            BY <1>0, <1>1, <1>2, <1>3, <1>5, <2>1, ConnectKeeps
        <2> QED  BY <2>2 DEF Connects
    <1>10. TasksOK(m3, cl2, servers[n], workers[n])
        BY <1>2, <1>5, <1>8, <1>9, TasksChanged
    <1>11. /\ tcp'[n] = m3 /\ Changed(tcp, tcp', n)
           /\ clients'[n] = cl2 /\ Changed(clients, clients', n)
        BY <1>1, <1>6 DEF TablesInv, Changed
    <1>12. Changed(servers, servers', n) /\ Changed(workers, workers', n)
        BY <1>7, Zenon DEF Changed
    <1>13. SharedOnly(n, tcp'[n], shared')
        <2>1. SharedOnly(n, m, shared)
            BY <1>1 DEF TablesInv
        <2> HIDE DEF n, m, cl, key
        <2>2. SharedOnly(n, m3, shared')
            BY <1>4, <1>9, <2>1 DEF SharedOnly, Gains, key
        <2> QED  BY <1>11, <2>2
    <1> QED  BY <1>1, <1>4, <1>7, <1>9, <1>10, <1>11, <1>12, <1>13, NodeStep

LEMMA ServerCommandStep ==
    ASSUME TablesInv, NEW c, matchServerCommand(c)
    PROVE  TablesInv'
PROOF
    <1> DEFINE n == c.node
               m == tcp[n]
               cl == clients[n]
               made == socketBound(m, c.port)
               id == Len(made.allSockets)
               m3 == listen(made, id, c.backlog)
               sv2 == put(servers[n], id, [sz |-> c.sz])
    <1>1. c \in ServerCmds /\ n \in Nodes /\ c.port \in ServerPorts(n)
        BY TransferConstants DEF matchServerCommand, ServerPorts
    <1>2. /\ ManagerOK(n, m, cl) /\ TasksOK(m, cl, servers[n], workers[n])
          /\ DOMAIN cl \subseteq DOMAIN m.allSockets
        BY <1>1 DEF TablesInv, TasksOK
    <1>3. tcp' = [tcp EXCEPT ![n] = m3] /\ servers' = [servers EXCEPT ![n] = sv2]
        BY Zenon DEF matchServerCommand
    <1>4. UNCHANGED <<clients, workers, shared>>
        BY DEF matchServerCommand
    <1>5. DOMAIN sv2 = DOMAIN servers[n] \cup {id}
        BY DEF put
    <1> HIDE DEF made, id, sv2, m3
    <1>6. Keeps(n, m, cl, m3) /\ id \in DOMAIN m3.allSockets
        BY <1>1, <1>2, ListenKeeps DEF made, id, m3
    <1>7. TasksOK(m3, cl, sv2, workers[n])
        BY <1>2, <1>5, <1>6, TasksChanged DEF Keeps
    <1>8. /\ tcp'[n] = m3 /\ Changed(tcp, tcp', n)
          /\ servers'[n] = sv2 /\ Changed(servers, servers', n)
        BY <1>1, <1>3 DEF TablesInv, Changed
    <1>9. Changed(clients, clients', n) /\ Changed(workers, workers', n)
        BY <1>4, Zenon DEF Changed
    <1>10. SharedOnly(n, tcp'[n], shared') /\ shared \subseteq shared'
        BY <1>1, <1>4, <1>6, <1>8, MixesShared
    <1> QED  BY <1>1, <1>4, <1>6, <1>7, <1>8, <1>9, <1>10, NodeStep DEF Keeps

\* Something about client id of node n changes, and its socket may.
LEMMA ClientStep ==
    ASSUME TablesInv, NEW n \in Nodes, NEW id \in DOMAIN clients[n],
           NEW m2, Keeps(n, tcp[n], clients[n], m2), tcp' = [tcp EXCEPT ![n] = m2],
           NEW c, DOMAIN c = ClientFields, clients' = [clients EXCEPT ![n][id] = c],
           c.status = clients[n][id].status \/ Unnamed(m2, id),
           UNCHANGED <<servers, workers, shared>>
    PROVE  TablesInv'
PROOF
    <1> DEFINE cl == clients[n]
               cl2 == [cl EXCEPT ![id] = c]
    <1>1. TasksOK(tcp[n], cl, servers[n], workers[n])
        BY DEF TablesInv
    <1>2. /\ tcp'[n] = m2 /\ Changed(tcp, tcp', n)
          /\ clients'[n] = cl2 /\ Changed(clients, clients', n)
        BY DEF TablesInv, Changed
    <1>3. Changed(servers, servers', n) /\ Changed(workers, workers', n)
        BY Zenon DEF Changed
    <1>4. /\ DOMAIN cl2 = DOMAIN cl /\ cl2[id] = c
          /\ \A k \in DOMAIN cl : k # id => cl2[k] = cl[k]
        OBVIOUS
    <1> HIDE DEF cl2
    <1>5. \A k \in DOMAIN cl : cl2[k].status = cl[k].status \/ Unnamed(m2, k)
        BY <1>4
    <1>6. ManagerOK(n, m2, cl2) /\ Kept(m2, cl, m2, cl2)
        BY <1>4, <1>5, ClientChanged DEF Keeps
    <1>7. Kept(tcp[n], cl, m2, cl2)
        BY <1>6, KeptTransitive DEF Keeps
    <1>8. id \in DOMAIN m2.allSockets
        BY <1>1, <1>7 DEF TasksOK, Kept
    <1>9. TasksOK(m2, cl2, servers[n], workers[n])
        BY <1>1, <1>4, <1>7, <1>8, TasksChanged
    <1>10. SharedOnly(n, tcp'[n], shared') /\ shared \subseteq shared'
        BY <1>2, MixesShared
    <1> QED  BY <1>2, <1>3, <1>6, <1>9, <1>10, NodeStep

LEMMA ClientTickStep ==
    ASSUME TablesInv, NEW n \in Nodes, NEW id, ClientTick(n, id)
    PROVE  TablesInv'
PROOF
    <1> DEFINE m == tcp[n]
               cl == clients[n]
               s == m.allSockets[id]
    <1>1. /\ ManagerOK(n, m, cl) /\ id \in DOMAIN cl
          /\ id \in DOMAIN m.allSockets /\ DOMAIN cl[id] = ClientFields
        BY DEF ClientTick, TablesInv, TasksOK
    <1>2. CASE ClientWrite(n, id)
        <2> DEFINE bytes == clientBytes(cl[id])
                   m2 == socketSends(m, n, id, write(s, bytes), dataPkts(written(s, bytes))).m
                   count == writable(s, Len(bytes))
                   c == [cl[id] EXCEPT !.pos = @ + count, !.amount = @ - count]
        <2>1. tcp' = [tcp EXCEPT ![n] = m2]
            BY <1>2, Zenon DEF ClientWrite, Perform, sockOf
        <2>2. clients' = [clients EXCEPT ![n][id].pos = @ + count,
                                         ![n][id].amount = @ - count]
            BY <1>2, Zenon DEF ClientWrite, sockOf
        <2>3. UNCHANGED <<servers, workers, shared>>
            BY <1>2 DEF ClientWrite
        <2>4. Keeps(n, m, cl, m2)
            BY <1>1, WriteKeeps
        <2> HIDE DEF m2, count
        <2>5. DOMAIN c = ClientFields /\ c.status = cl[id].status
            BY <1>1 DEF ClientFields
        <2>6. clients' = [clients EXCEPT ![n][id] = c]
            <3>1. n \in DOMAIN clients
                BY DEF TablesInv
            <3> QED  BY <1>1, <2>2, <3>1 DEF ClientFields
        <2> HIDE DEF c
        <2> QED  BY <1>1, <2>1, <2>3, <2>4, <2>5, <2>6, ClientStep
    <1>3. CASE ClientClose(n, id)
        <2>1. /\ tcp' = [tcp EXCEPT ![n] = close(m, n, id).m]
              /\ UNCHANGED <<clients, servers, workers, shared>> /\ s.state = "ESTABLISHED"
            BY <1>3, Zenon DEF ClientClose, Perform, sockOf
        <2>2. Keeps(n, m, cl, close(m, n, id).m)
            BY <1>1, <2>1, CloseKeeps
        <2> QED  BY <2>1, <2>2, ManagerStep
    <1>4. CASE ClientReport(n, id)
        <2> DEFINE c == [cl[id] EXCEPT !.status = "closed"]
        <2>1. /\ s.state = "CLOSED" /\ cl[id].status = "running"
              /\ clients' = [clients EXCEPT ![n][id] = c] /\ UNCHANGED <<servers, workers, shared>>
            BY <1>4 DEF ClientReport, sockOf
        <2>2. tcp' = [tcp EXCEPT ![n] = m]
            BY <1>4, <2>1 DEF ClientReport, release
        <2>3. DOMAIN c = ClientFields
            BY <1>1 DEF ClientFields
        <2>4. Unnamed(m, id)
            <3>1. \A k \in DOMAIN m.listenersByPort : m.listenersByPort[k] # id
                BY <1>1, <2>1 DEF ManagerOK, ListenersOK, ListenerEntry
            <3>2. \A k \in DOMAIN m.synPendingByKey : m.synPendingByKey[k] # id
                BY <1>1, <2>1 DEF ManagerOK, PendingOK, PendingEntry
            <3>3. \A k \in DOMAIN m.establishedByKey : m.establishedByKey[k] # id
                BY <1>1, <2>1 DEF ManagerOK, EstablishedOK, EstablishedEntry, isOpen
            <3> QED  BY <3>1, <3>2, <3>3 DEF Unnamed
        <2>5. Keeps(n, m, cl, m)
            BY <1>1, KeepsItself
        <2> QED  BY <1>1, <2>1, <2>2, <2>3, <2>4, <2>5, ClientStep
    <1>5. CASE ClientAbort(n, id)
        <2> DEFINE c == [cl[id] EXCEPT !.status = "aborted"]
        <2>1. /\ s.state = "ESTABLISHED" /\ tcp' = [tcp EXCEPT ![n] = release(m, id)]
              /\ clients' = [clients EXCEPT ![n][id] = c] /\ UNCHANGED <<servers, workers, shared>>
            BY <1>5 DEF ClientAbort, sockOf
        <2>2. Keeps(n, m, cl, release(m, id)) /\ Unnamed(release(m, id), id)
            BY <1>1, <2>1, ReleaseKeeps
        <2>3. DOMAIN c = ClientFields
            BY <1>1 DEF ClientFields
        <2> QED  BY <1>1, <2>1, <2>2, <2>3, ClientStep
    <1> QED  BY <1>2, <1>3, <1>4, <1>5 DEF ClientTick

LEMMA ServerTickStep ==
    ASSUME TablesInv, NEW n \in Nodes, ServerTick(n)
    PROVE  TablesInv'
PROOF
    <1> DEFINE m == tcp[n]
               cl == clients[n]
    <1>1. ManagerOK(n, m, cl) /\ TasksOK(m, cl, servers[n], workers[n])
        BY DEF TablesInv
    <1>2. PICK id, w :
                /\ id \in DOMAIN servers[n] /\ hasPending(m, id)
                /\ tcp' = [tcp EXCEPT ![n] = accept(m, id)]
                /\ workers' = [workers EXCEPT ![n] =
                        put(workers[n], Head(m.allSockets[id].pendingConnQueue), w)]
                /\ UNCHANGED <<clients, servers, shared>>
        BY Zenon DEF ServerTick, sockOf
    <1> DEFINE conn == Head(m.allSockets[id].pendingConnQueue)
               wk2 == put(workers[n], conn, w)
    <1>3. id \in DOMAIN m.allSockets
        BY <1>1, <1>2 DEF TasksOK
    <1>4. Keeps(n, m, cl, accept(m, id)) /\ Child(m, cl, conn)
        BY <1>1, <1>2, <1>3, AcceptKeeps
    <1>5. DOMAIN wk2 = DOMAIN workers[n] \cup {conn}
        BY DEF put
    <1>6. tcp'[n] = accept(m, id) /\ Changed(tcp, tcp', n)
        BY <1>2 DEF TablesInv, Changed
    <1>7. workers'[n] = wk2 /\ Changed(workers, workers', n)
        BY <1>2 DEF TablesInv, Changed
    <1>8. Changed(clients, clients', n) /\ Changed(servers, servers', n)
        BY <1>2, Zenon DEF Changed
    <1> HIDE DEF conn, wk2
    <1>9. Child(accept(m, id), cl, conn)
        BY <1>4, Zenon DEF Keeps, Kept
    <1>10. TasksOK(accept(m, id), cl, servers[n], wk2)
        BY <1>1, <1>4, <1>5, <1>9, TasksChanged DEF Keeps
    <1>11. SharedOnly(n, tcp'[n], shared') /\ shared \subseteq shared'
        BY <1>2, <1>4, <1>6, MixesShared
    <1> QED  BY <1>2, <1>4, <1>6, <1>7, <1>8, <1>10, <1>11, NodeStep DEF Keeps

LEMMA WorkerTickStep ==
    ASSUME TablesInv, NEW n \in Nodes, NEW id, WorkerTick(n, id)
    PROVE  TablesInv'
PROOF
    <1> DEFINE m == tcp[n]
               cl == clients[n]
    <1>1. /\ ManagerOK(n, m, cl) /\ TasksOK(m, cl, servers[n], workers[n])
          /\ id \in DOMAIN workers[n] /\ Child(m, cl, id)
        BY DEF WorkerTick, TablesInv, TasksOK
    <1>2. ASSUME NEW m2, Keeps(n, m, cl, m2),
                 tcp'[n] = m2, Changed(tcp, tcp', n),
                 Changed(workers, workers', n), DOMAIN workers'[n] = DOMAIN workers[n],
                 UNCHANGED <<clients, servers, shared>>
          PROVE  TablesInv'
        <2>1. TasksOK(m2, cl, servers[n], workers'[n])
            BY <1>1, <1>2, TasksChanged DEF Keeps
        <2>2. Changed(clients, clients', n) /\ Changed(servers, servers', n)
            BY <1>2, Zenon DEF Changed
        <2>3. SharedOnly(n, tcp'[n], shared') /\ shared \subseteq shared'
            BY <1>2, MixesShared
        <2> QED  BY <1>2, <2>1, <2>2, <2>3, NodeStep DEF Keeps
    <1>3. CASE WorkerRead(n, id)
        <2> DEFINE s == m.allSockets[id]
                   len == workers[n][id].sz - (workers[n][id].pos % workers[n][id].sz)
                   m1 == [m EXCEPT !.allSockets[id] = read(s, len)]
        <2>1. /\ \/ tcp' = [tcp EXCEPT ![n] = release(m1, id)]
                 \/ tcp' = [tcp EXCEPT ![n] = m1]
              /\ UNCHANGED <<clients, servers, shared>>
            BY <1>3, Zenon DEF WorkerRead, sockOf
        <2>2. \E v : \/ workers' = [workers EXCEPT ![n][id].status = v]
                     \/ workers' = [workers EXCEPT ![n][id].pos = v]
            BY <1>3 DEF WorkerRead
        <2>3. Keeps(n, m, cl, m1)
            BY <1>1, ReadKeeps
        <2> HIDE DEF m1
        <2>4. Keeps(n, m1, cl, release(m1, id))
            BY <1>1, <2>3, ReleaseKeeps DEF Keeps, Kept, Child
        <2>5. Keeps(n, m, cl, release(m1, id))
            BY <2>3, <2>4, KeepsTransitive
        <2>6. Changed(workers, workers', n) /\ DOMAIN workers'[n] = DOMAIN workers[n]
            BY <2>2 DEF TablesInv, Changed
        <2>7. Changed(tcp, tcp', n) /\ (tcp'[n] = m1 \/ tcp'[n] = release(m1, id))
            BY <2>1 DEF TablesInv, Changed
        <2> QED  BY <1>2, <2>1, <2>3, <2>5, <2>6, <2>7, Zenon
    <1>4. CASE WorkerReport(n, id)
        <2>1. /\ workers' = [workers EXCEPT ![n][id].status = "closed"]
              /\ UNCHANGED <<tcp, clients, servers, shared>>
            BY <1>4 DEF WorkerReport
        <2>2. Changed(workers, workers', n) /\ DOMAIN workers'[n] = DOMAIN workers[n]
            BY <2>1 DEF TablesInv, Changed
        <2>3. tcp'[n] = m /\ Changed(tcp, tcp', n)
            BY <2>1, Zenon DEF Changed
        <2>4. Keeps(n, m, cl, m)
            BY <1>1, KeepsItself
        <2> QED  BY <1>2, <2>1, <2>2, <2>3, <2>4, Zenon
    <1> QED  BY <1>3, <1>4 DEF WorkerTick

LEMMA TablesUnchanged ==
    ASSUME TablesInv, UNCHANGED <<tcp, clients, servers, workers, shared>>
    PROVE  TablesInv'
PROOF
    BY Zenon DEF TablesInv

-----------------------------------------------------------------------------
(* The theorems. *)

\* TcpManager and TransferClient, TransferServer, TransferWorker: the inductive
\* invariant of the tables and of who owns which socket.
THEOREM TablesInvariant == Spec => []TablesInv
PROOF
    <1>1. Init => TablesInv
        BY TablesInit
    <1>2. TablesInv /\ [Next]_vars => TablesInv'
        <2> SUFFICES ASSUME TablesInv, [Next]_vars  PROVE  TablesInv'
            OBVIOUS
        <2>1. CASE Command
            BY <2>1, TransferCommandStep, ServerCommandStep, Zenon DEF Command
        <2>2. CASE Run
            BY <2>2, ServerTickStep, WorkerTickStep, ClientTickStep, RetransmissionStep,
               ReceiveStep, Zenon DEF Run
        <2>3. ASSUME NEW a, NEW b, Lose(a, b)  PROVE  TablesInv'
            BY <2>3, TablesUnchanged DEF Lose
        <2>4. CASE UNCHANGED vars
            BY <2>4, TablesUnchanged DEF vars
        <2> QED  BY <2>1, <2>2, <2>3, <2>4, Zenon DEF Next
    <1> QED  BY <1>1, <1>2, PTL DEF Spec

\* registerListener, registerSynPending, registerEstablished, unregisterSocket and
\* the handlers: a packet that the tables take to a socket is from that socket's
\* peer, and each table holds sockets in the states its handler expects, whatever
\* commands the users give, and whatever the network loses or delays.  A key is
\* both in SYN_SENT and established only where a transfer was started over a
\* connection on which another was running, or from a port with a listener.
THEOREM TransferTables == Spec => []TablesConsistent
PROOF
    <1>1. TablesInv => TablesConsistent
        <2> SUFFICES ASSUME TablesInv, NEW n \in Nodes
                     PROVE  /\ ListenersOK(n, tcp[n]) /\ PendingOK(n, tcp[n], clients[n])
                            /\ EstablishedOK(n, tcp[n], clients[n])
                            /\ SharedOnly(n, tcp[n], shared)
            BY DEF ListenersOK, PendingOK, EstablishedOK, SharedOnly, Doubled, BothUse,
                ListenerEntry, PendingEntry, EstablishedEntry, TablesConsistent, Joined
        <2> QED  BY DEF TablesInv, ManagerOK
    <1>2. Spec => []TablesInv
        BY TablesInvariant
    <1> QED  BY <1>1, <1>2, PTL

=============================================================================
