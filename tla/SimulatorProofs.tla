---------------------------- MODULE SimulatorProofs ----------------------------
(***************************************************************************)
(* The invariants of the simulation, for every number of nodes, every      *)
(* topology file, command file and input, and every bound.                 *)
(*                                                                         *)
(* The functions of the main thread take a sim to a sim, so the invariant  *)
(* is an operator of a sim as well: SimInv(s).  Its parts are taken up one *)
(* by one for the few things that happen to a sim: the clock advances, an  *)
(* edge or a node is changed, a packet is sent, a copy of it is scheduled, *)
(* a timer is set, and the first event is taken out of the queue and run.  *)
(***************************************************************************)
EXTENDS Simulator, OrderedEventQueueProofs, FiniteSetTheorems, NaturalsInduction

\* A sequence, of whatever.
Listed(q) == q \in Seq(Range(q))

Lines == UNION {Range(file) : file \in Files}

-----------------------------------------------------------------------------
(* What the fields hold. *)

Fields ==
    {"now", "events", "starting", "sending", "edges", "failedNodes", "allToAll",
     "pings", "pktsSent", "pktsDropped", "pktsLost", "given", "arrived",
     "broadcast", "unexpected", "timedOut", "last", "changed"}

Links == Nodes \X (0 .. BROADCAST_ADDRESS)

OptionsOK(o) == o.delay \in Nat /\ o.bw \in Nat \ {0} /\ o.bt \in Int

EdgeOK(ends, edge) ==
    /\ {"live", "options", "nextSendTime"} \subseteq DOMAIN edge
    /\ OptionsOK(edge.options)
    /\ edge.nextSendTime \in [ends -> Nat]

\* The copy of a packet; the packet says who sent it.
CopyOK(c) ==
    /\ c.from \in Nodes /\ c.to \in 0 .. BROADCAST_ADDRESS
    /\ c.pkt.no \in Nat
    /\ c.pkt.protocol \in {"PING_PKT", "PING_REPLY_PKT"}
    /\ c.pkt.src = c.from

EventOK(e) ==
    /\ e.time \in Nat
    /\ e.what.type \in {"pkt", "pingTimedOut", "retransmissionTick", "topo"}
    /\ e.what.type = "pkt" => CopyOK(e.what)
    /\ e.what.type \in {"pingTimedOut", "retransmissionTick"} => e.what.node \in Nodes

QueueOK(q) == Listed(q) /\ Sorted(q) /\ \A i \in 1 .. Len(q) : EventOK(q[i])

\* Pings that wait, sent as packets up to the number no.
PingsOK(pings, no) ==
    IsFiniteSet(pings) /\ \A p \in pings : p.timeSentMs \in Nat /\ p.no \in 0 .. no

Shape(s) ==
    /\ Fields \subseteq DOMAIN s
    /\ s.now \in Nat
    /\ QueueOK(s.events)
    /\ s.allToAll = FALSE
    /\ \A ends \in DOMAIN s.edges : EdgeOK(ends, s.edges[ends])
    /\ DOMAIN s.pings = Nodes /\ \A n \in Nodes : PingsOK(s.pings[n], s.pktsSent)
    /\ s.pktsSent \in Nat /\ s.pktsDropped \in Nat /\ s.pktsLost \in Nat
    /\ s.given \in Nat /\ s.arrived \in Nat
    /\ s.broadcast \in [Nodes -> Nat] /\ s.unexpected \in [Nodes -> Nat]
    /\ s.timedOut \in [Nodes -> Nat]
    /\ s.last \in [Links -> Nat]

-----------------------------------------------------------------------------
(* The parts of the invariant. *)

\* What is yet to be sent: copies of the latest packet, over edges that exist; a
\* packet that is no broadcast has one copy, and only pings are broadcast.
Sending(s) ==
    /\ \A c \in s.sending :
        /\ CopyOK(c) /\ {c.from, c.to} \in DOMAIN s.edges
        /\ c.pkt.no = s.pktsSent
        /\ s.last[<<c.from, c.to>>] < s.pktsSent
        /\ c.pkt.dest # BROADCAST_ADDRESS => s.sending = {c}
        /\ c.pkt.dest = BROADCAST_ADDRESS => c.pkt.protocol = "PING_PKT"
    /\ \A c, d \in s.sending : c.from = d.from /\ c.to = d.to => c = d

\* The packet of event e is one of those sent, over an edge that exists.
Sent(s, e) ==
    /\ {e.what.from, e.what.to} \in DOMAIN s.edges
    /\ e.what.pkt.no <= s.pktsSent
    /\ \A c \in s.sending :
        c.from = e.what.from /\ c.to = e.what.to => e.what.pkt.no < s.pktsSent

\* As long as the options of its edge stay: it arrives before whatever the edge
\* takes from now on, within the time of the buffer and the delay, and after what
\* has arrived.
OnTime(s, e) ==
    LET w == e.what
        edge == s.edges[{w.from, w.to}]
    IN  {w.from, w.to} \notin s.changed =>
            /\ e.time <= edge.nextSendTime[w.from] + edge.options.delay * MicrosPerMs
            /\ e.time - s.now <= (edge.options.bt + edge.options.delay) * MicrosPerMs
            /\ s.last[<<w.from, w.to>>] < w.pkt.no

\* Two packets of one link, the first in front of the second.
Ordered(s, w, v) ==
    w.from = v.from /\ w.to = v.to /\ {w.from, w.to} \notin s.changed =>
        w.pkt.no < v.pkt.no

Flight(q) == {i \in DOMAIN q : q[i].what.type = "pkt"}

\* The queue q, as far as packets go.
FlightsOf(s, q) ==
    /\ \A i \in Flight(q) : Sent(s, q[i]) /\ OnTime(s, q[i])
    /\ \A i, j \in Flight(q) : i < j => Ordered(s, q[i].what, q[j].what)

Flights(s) ==
    /\ FlightsOf(s, s.events)
    /\ \A link \in Links : s.last[link] <= s.pktsSent

Counted(s) ==
    s.given = s.arrived + Cardinality(Flight(s.events)) + s.pktsDropped + s.pktsLost

\* The timer of node n: an event that is not too far away, nor too late for the
\* pings that wait.
Timer(s, n, e) ==
    /\ e.what.type = "pingTimedOut" /\ e.what.node = n
    /\ \E k \in 0 .. nowMs(s) + PING_TIMEOUT_MS :
        /\ e.time = k * MicrosPerMs
        /\ \A p \in s.pings[n] : k <= p.timeSentMs + 2 * PING_TIMEOUT_MS

TimerIn(s, q, n) == \E i \in DOMAIN q : Timer(s, n, q[i])

Timers(s) == \A n \in Nodes \ s.starting : TimerIn(s, s.events, n)

\* The copy is of a ping of n, or of a reply to one.
Mine(w, n) == IF w.pkt.protocol = "PING_PKT" THEN w.from = n ELSE w.to = n

FlightOf(q, n) == {i \in Flight(q) : Mine(q[i].what, n)}

\* 1 if a ping of n or a reply to n is about to be sent, and is no broadcast.
Pending(s, n) ==
    IF \E c \in s.sending : c.pkt.dest # BROADCAST_ADDRESS /\ Mine(c, n) THEN 1 ELSE 0

\* Node n has pings that wait, or have waited, for what is on its way and k more.
Room(s, n, k) ==
    Cardinality(FlightOf(s.events, n)) + k + s.unexpected[n]
        <= Cardinality(s.pings[n]) + s.timedOut[n] + s.broadcast[n]

Replies(s) == \A n \in Nodes : Room(s, n, Pending(s, n))

SimInv(s) ==
    Shape(s) /\ Sending(s) /\ Flights(s) /\ Counted(s) /\ Timers(s) /\ Replies(s)

\* The lines that are yet to be read.
Unread ==
    /\ topo \in Seq(Lines) /\ script \in Seq(Lines)
    /\ input \in Seq(Lines) /\ lines \in Seq(Lines)

\* The clock stands still until all nodes have been started.
Clock ==
    /\ pc \in {"topo", "start", "read", "wait", "run", "exited"}
    /\ sim.now <= MaxTime /\ deferTill \in Nat \cup {-1}
    /\ pc = "start" => sim.now = 0
    /\ pc \in {"read", "wait", "run"} => sim.now > 0
    /\ sim.starting \subseteq Nodes
    /\ sim.now > 0 => sim.starting = {}

Inv == SimInv(sim) /\ Unread /\ Clock

-----------------------------------------------------------------------------
(* Milliseconds. *)

LEMMA Quotient ==
    ASSUME NEW a \in Nat, NEW b \in Nat \ {0}
    PROVE  /\ a \div b \in Nat
           /\ \A k \in Nat : a < k * b => a \div b < k
           /\ \A c \in Nat : a <= c => a \div b <= c \div b
PROOF
    <1>1. \A x \in Nat : x \div b \in Nat /\ (x \div b) * b <= x /\ x < (x \div b) * b + b
        OBVIOUS
    <1>2. ASSUME NEW x \in Nat, NEW y \in Nat, x * b < y * b + b
          PROVE  x <= y
        <2>1. CASE x >= y + 1
            <3>1. x * b >= (y + 1) * b
                BY <2>1
            <3>2. (y + 1) * b = y * b + b
                OBVIOUS
            <3> QED  BY <3>1, <3>2, <1>2
        <2> QED  BY <2>1
    <1>3. a \div b \in Nat
        BY <1>1
    <1>4. ASSUME NEW k \in Nat, a < k * b
          PROVE  a \div b < k
        <2> DEFINE q == a \div b
        <2>1. q \in Nat /\ q * b <= a
            BY <1>1
        <2> HIDE DEF q
        <2>2. CASE q >= k
            <3>1. q * b >= k * b
                BY <2>2, <2>1
            <3> QED  BY <3>1, <2>1, <1>4
        <2>3. q < k
            BY <2>1, <2>2
        <2> QED  BY <2>3 DEF q
    <1>5. ASSUME NEW c \in Nat, a <= c
          PROVE  a \div b <= c \div b
        <2> DEFINE q == a \div b
                   r == c \div b
        <2>1. q \in Nat /\ r \in Nat /\ q * b <= a /\ c < r * b + b
            BY <1>1
        <2> HIDE DEF q, r
        <2>2. q * b \in Nat /\ r * b \in Nat
            BY <2>1
        <2>3. q * b < r * b + b
            BY <2>1, <2>2, <1>5
        <2>4. q <= r
            BY <2>1, <2>3, <1>2
        <2> QED  BY <2>4 DEF q, r
    <1> QED  BY <1>3, <1>4, <1>5

LEMMA MsOfNow ==
    ASSUME NEW s, s.now \in Nat
    PROVE  /\ nowMs(s) \in Nat
           /\ \A k \in Nat : s.now < k * MicrosPerMs => nowMs(s) < k
           /\ \A t : t.now \in Nat /\ s.now <= t.now => nowMs(s) <= nowMs(t)
PROOF
    BY Quotient, ParserConstants DEF nowMs

LEMMA Larger ==
    ASSUME NEW a \in Int, NEW b \in Int
    PROVE  /\ Max({a, b}) \in {a, b}
           /\ a <= Max({a, b}) /\ b <= Max({a, b})
PROOF
    <1>1. \E x \in {a, b} : \A y \in {a, b} : x >= y
        <2>1. CASE a <= b
            BY <2>1
        <2>2. CASE b <= a
            BY <2>2
        <2> QED  BY <2>1, <2>2
    <1> DEFINE m == CHOOSE x \in {a, b} : \A y \in {a, b} : x >= y
    <1>2. m \in {a, b} /\ \A y \in {a, b} : m >= y
        BY <1>1
    <1>3. Max({a, b}) = m
        BY DEF Max
    <1> HIDE DEF m
    <1> QED  BY <1>2, <1>3

-----------------------------------------------------------------------------
(* The queue: events go in and come out. *)

\* r is q with e put in at position p.
Shifted(q, e, r, p) ==
    /\ Len(r) = Len(q) + 1
    /\ r[p] = e
    /\ \A i \in 1 .. p - 1 : r[i] = q[i]
    /\ \A i \in p .. Len(q) : r[i + 1] = q[i]

LEMMA ListedIs ==
    ASSUME NEW S, NEW q \in Seq(S)
    PROVE  Listed(q)
PROOF
    BY SeqOfRange, Zenon DEF Listed

LEMMA ListedDomain ==
    ASSUME NEW q, Listed(q)
    PROVE  Len(q) \in Nat /\ DOMAIN q = 1 .. Len(q)
PROOF
    BY DEF Listed

LEMMA QueueAdd ==
    ASSUME NEW q, QueueOK(q), NEW e, EventOK(e)
    PROVE  /\ QueueOK(addEvent(q, e))
           /\ \E p \in 1 .. Len(q) + 1 : Inserted(q, e, addEvent(q, e), p)
PROOF
    <1> DEFINE T == Range(q) \cup {e}
               r == addEvent(q, e)
    <1>1. q \in Seq(Range(q)) /\ Sorted(q)
        BY DEF QueueOK, Listed
    <1>2. q \in Seq(T)
        BY <1>1, SeqMonotonic, Zenon
    <1>3. Len(q) \in Nat /\ DOMAIN q = 1 .. Len(q)
        BY <1>1
    <1>4. \A x \in T : EventOK(x)
        BY <1>3, Zenon DEF QueueOK, Range
    <1>5. \A x \in T : x.time \in Int
        <2> HIDE DEF T
        <2> QED  BY <1>4 DEF EventOK
    <1>6. e \in T
        OBVIOUS
    <1> HIDE DEF T
    <1>7. /\ r \in Seq(T) /\ Sorted(r)
          /\ \E p \in 1 .. Len(q) + 1 : Inserted(q, e, r, p)
        BY <1>1, <1>2, <1>5, <1>6, AddEventSorted
    <1> HIDE DEF r
    <1>8. \A i \in 1 .. Len(r) : r[i] \in T
        BY <1>7
    <1>9. QueueOK(r)
        BY <1>4, <1>7, <1>8, ListedIs, Zenon DEF QueueOK
    <1> QED  BY <1>7, <1>9 DEF r

LEMMA QueueTail ==
    ASSUME NEW q, QueueOK(q), q # <<>>
    PROVE  /\ QueueOK(Tail(q))
           /\ Shifted(Tail(q), q[1], q, 1)
           /\ Len(q) \in Nat \ {0}
           /\ \A i \in 1 .. Len(q) - 1 : Tail(q)[i] = q[i + 1]
PROOF
    <1> DEFINE r == Tail(q)
    <1>1. q \in Seq(Range(q)) /\ Sorted(q)
        BY DEF QueueOK, Listed
    <1>2. /\ r \in Seq(Range(q)) /\ Len(r) = Len(q) - 1 /\ Sorted(r)
          /\ \A i \in 1 .. Len(q) - 1 : r[i] = q[i + 1]
        BY <1>1, TailSorted
    <1>3. Len(q) \in Nat \ {0}
        BY <1>1
    <1> HIDE DEF r
    <1>4. \A i \in 1 .. Len(r) : EventOK(r[i])
        <2> SUFFICES ASSUME NEW i \in 1 .. Len(r)  PROVE  EventOK(r[i])
            OBVIOUS
        <2>1. i + 1 \in 1 .. Len(q) /\ r[i] = q[i + 1]
            BY <1>2, <1>3
        <2> QED  BY <2>1 DEF QueueOK
    <1>5. QueueOK(r)
        BY <1>2, <1>4, ListedIs, Zenon DEF QueueOK
    <1>6. Shifted(r, q[1], q, 1)
        BY <1>2, <1>3 DEF Shifted
    <1> QED  BY <1>2, <1>3, <1>5, <1>6 DEF r

\* The events of the kind K.
Kind(q, K) == {i \in DOMAIN q : q[i] \in K}

\* Putting an event in adds one to the number of events of its kind, and nothing to
\* any other number.
LEMMA CountShifted ==
    ASSUME NEW q, Listed(q), NEW r, Listed(r), NEW e, NEW p \in 1 .. Len(q) + 1,
           Shifted(q, e, r, p), NEW K
    PROVE  /\ IsFiniteSet(Kind(q, K))
           /\ Cardinality(Kind(r, K)) = Cardinality(Kind(q, K)) + (IF e \in K THEN 1 ELSE 0)
PROOF
    <1> DEFINE A == {i \in DOMAIN q : q[i] \in K}
               R == {i \in DOMAIN r : r[i] \in K}
               B == {i \in R : i # p}
               f == [i \in A |-> IF i < p THEN i ELSE i + 1]
    <1>1. /\ Len(q) \in Nat /\ DOMAIN q = 1 .. Len(q)
          /\ Len(r) = Len(q) + 1 /\ DOMAIN r = 1 .. Len(r)
        BY ListedDomain DEF Shifted
    <1>2. A \in SUBSET (1 .. Len(q)) /\ IsFiniteSet(1 .. Len(q))
        BY <1>1, FS_Interval
    <1>3. IsFiniteSet(A)
        BY <1>2, FS_Subset, Zenon
    <1>4. \A i \in A : f[i] \in B
        BY <1>1 DEF Shifted
    <1>5. \A i, j \in A : f[i] = f[j] => i = j
        BY <1>1
    <1>6. ASSUME NEW k \in B  PROVE  \E i \in A : f[i] = k
        <2>1. k \in 1 .. Len(q) + 1 /\ r[k] \in K /\ k # p
            BY <1>1
        <2>2. CASE k < p
            <3>1. k \in A
                BY <2>1, <2>2, <1>1 DEF Shifted
            <3> QED  BY <3>1, <2>2
        <2>3. CASE k > p
            <3>1. k - 1 \in p .. Len(q)
                BY <2>1, <2>3, <1>1
            <3>2. r[(k - 1) + 1] = q[k - 1]
                BY <3>1 DEF Shifted
            <3>3. k - 1 \in A /\ ~(k - 1 < p)
                BY <3>1, <3>2, <2>1, <1>1
            <3> QED  BY <3>3, <2>1
        <2> QED  BY <2>1, <2>2, <2>3
    <1>7. ExistsBijection(A, B)
        <2>1. f \in [A -> B]
            BY <1>4
        <2> HIDE DEF A, B, f
        <2>2. f \in Bijection(A, B)
            BY <2>1, <1>5, <1>6, Zenon DEF Bijection, Injection, Surjection, IsInjective
        <2> QED  BY <2>2, Zenon DEF ExistsBijection
    <1>8. IsFiniteSet(B) /\ Cardinality(B) = Cardinality(A)
        BY <1>3, <1>7, FS_Bijection, Zenon
    <1>9. Cardinality(A) \in Nat
        BY <1>3, FS_CardinalityType, Zenon
    <1>10. CASE e \in K
        <2>1. R = B \cup {p} /\ p \notin B
            BY <1>10, <1>1 DEF Shifted
        <2> HIDE DEF A, B, R
        <2>2. Cardinality(B \cup {p}) = Cardinality(B) + 1
            BY <2>1, <1>8, FS_AddElement
        <2>3. Cardinality(R) = Cardinality(A) + 1
            BY <2>1, <2>2, <1>8
        <2> QED  BY <2>3, <1>10, <1>3 DEF A, R, Kind
    <1>11. CASE e \notin K
        <2>1. R = B
            BY <1>11, <1>1 DEF Shifted
        <2> HIDE DEF A, B, R
        <2>2. Cardinality(R) = Cardinality(A) + 0
            BY <2>1, <1>8, <1>9
        <2> QED  BY <2>2, <1>11, <1>3 DEF A, R, Kind
    <1> QED  BY <1>10, <1>11

LEMMA InsertedShifts ==
    ASSUME NEW q, NEW e, NEW r, NEW p, Inserted(q, e, r, p)
    PROVE  Shifted(q, e, r, p)
PROOF
    BY Zenon DEF Inserted, Shifted

\* Where the events of q are in r, and the other way round.
Placed(q, e, r, p) ==
    /\ p \in DOMAIN r /\ r[p] = e
    /\ \A i \in DOMAIN q : \E j \in DOMAIN r : r[j] = q[i]
    /\ \A i \in DOMAIN r \ {p} : \E k \in DOMAIN q : q[k] = r[i]
    /\ \A i, j \in DOMAIN r \ {p} : i < j =>
         \E k, l \in DOMAIN q : k < l /\ q[k] = r[i] /\ q[l] = r[j]

LEMMA Positions ==
    ASSUME NEW q, Listed(q), NEW r, Listed(r), NEW e, NEW p \in 1 .. Len(q) + 1,
           Shifted(q, e, r, p)
    PROVE  Placed(q, e, r, p)
PROOF
    <1>1. /\ Len(q) \in Nat /\ DOMAIN q = 1 .. Len(q)
          /\ Len(r) = Len(q) + 1 /\ DOMAIN r = 1 .. Len(r)
        BY ListedDomain DEF Shifted
    <1> DEFINE back(i) == IF i < p THEN i ELSE i - 1
    <1>2. p \in DOMAIN r /\ r[p] = e
        BY <1>1 DEF Shifted
    <1>3. ASSUME NEW i \in DOMAIN q  PROVE  \E j \in DOMAIN r : r[j] = q[i]
        <2>1. CASE i < p
            BY <2>1, <1>1 DEF Shifted
        <2>2. CASE i >= p
            <3>1. r[i + 1] = q[i] /\ i + 1 \in DOMAIN r
                BY <2>2, <1>1 DEF Shifted
            <3> QED  BY <3>1
        <2> QED  BY <2>1, <2>2, <1>1
    <1>4. ASSUME NEW i \in DOMAIN r \ {p}
          PROVE  back(i) \in DOMAIN q /\ q[back(i)] = r[i]
        <2>1. CASE i < p
            BY <2>1, <1>1 DEF Shifted
        <2>2. CASE i > p
            <3>1. i - 1 \in p .. Len(q) /\ (i - 1) + 1 = i
                BY <2>2, <1>1
            <3>2. r[(i - 1) + 1] = q[i - 1]
                BY <3>1 DEF Shifted
            <3> QED  BY <3>1, <3>2, <2>2, <1>1
        <2> QED  BY <2>1, <2>2, <1>1
    <1>5. ASSUME NEW i \in DOMAIN r \ {p}, NEW j \in DOMAIN r \ {p}, i < j
          PROVE  back(i) < back(j)
        BY <1>5, <1>1
    <1> HIDE DEF back
    <1> QED  BY <1>2, <1>3, <1>4, <1>5, Zenon DEF Placed

\* An event that is no packet changes nothing for the packets.
LEMMA FlightsPass ==
    ASSUME NEW q, Listed(q), NEW r, Listed(r), NEW e, NEW p \in 1 .. Len(q) + 1,
           Shifted(q, e, r, p), NEW s
    PROVE  /\ FlightsOf(s, q) /\ e.what.type # "pkt" => FlightsOf(s, r)
           /\ FlightsOf(s, r) => FlightsOf(s, q)
PROOF
    <1>0. Placed(q, e, r, p)
        BY Positions
    <1>1. ASSUME FlightsOf(s, q), e.what.type # "pkt"
          PROVE  FlightsOf(s, r)
        <2>1. \A i \in Flight(r) : i \in DOMAIN r \ {p} /\ r[i].what.type = "pkt"
            BY <1>1, <1>0, Zenon DEF Placed, Flight
        <2>2. ASSUME NEW i \in Flight(r)
              PROVE  Sent(s, r[i]) /\ OnTime(s, r[i])
            <3>1. PICK k \in DOMAIN q : q[k] = r[i]
                BY <2>1, <1>0, Zenon DEF Placed
            <3>2. k \in Flight(q)
                BY <3>1, <2>1, Zenon DEF Flight
            <3> QED  BY <3>1, <3>2, <1>1, Zenon DEF FlightsOf
        <2>3. ASSUME NEW i \in Flight(r), NEW j \in Flight(r), i < j
              PROVE  Ordered(s, r[i].what, r[j].what)
            <3>1. PICK k, l \in DOMAIN q : k < l /\ q[k] = r[i] /\ q[l] = r[j]
                BY <2>1, <2>3, <1>0, Zenon DEF Placed
            <3>2. k \in Flight(q) /\ l \in Flight(q)
                BY <3>1, <2>1, Zenon DEF Flight
            <3> QED  BY <3>1, <3>2, <1>1, Zenon DEF FlightsOf
        <2> QED  BY <2>2, <2>3, Zenon DEF FlightsOf
    <1>2. ASSUME FlightsOf(s, r)
          PROVE  FlightsOf(s, q)
        <2> DEFINE on(i) == IF i < p THEN i ELSE i + 1
        <2>1. /\ Len(q) \in Nat /\ DOMAIN q = 1 .. Len(q)
              /\ Len(r) = Len(q) + 1 /\ DOMAIN r = 1 .. Len(r)
            BY ListedDomain DEF Shifted
        <2>2. ASSUME NEW i \in DOMAIN q
              PROVE  on(i) \in DOMAIN r /\ r[on(i)] = q[i]
            <3>1. CASE i < p
                BY <3>1, <2>1 DEF Shifted
            <3>2. CASE i >= p
                BY <3>2, <2>1 DEF Shifted
            <3> QED  BY <3>1, <3>2, <2>1
        <2>3. \A i, j \in DOMAIN q : i < j => on(i) < on(j)
            BY <2>1
        <2> HIDE DEF on
        <2>4. \A i \in Flight(q) :
                i \in DOMAIN q /\ on(i) \in Flight(r) /\ r[on(i)] = q[i]
            BY <2>2, Zenon DEF Flight
        <2> QED  BY <2>3, <2>4, <1>2, Zenon DEF FlightsOf
    <1> QED  BY <1>1, <1>2

LEMMA FlightsAt ==
    ASSUME NEW s, NEW t, NEW q, FlightsOf(s, q),
           t.edges = s.edges, t.sending = s.sending, t.pktsSent = s.pktsSent,
           t.now = s.now, t.last = s.last, t.changed = s.changed
    PROVE  FlightsOf(t, q)
PROOF
    <1>1. ASSUME NEW e  PROVE  /\ Sent(s, e) => Sent(t, e)
                               /\ OnTime(s, e) => OnTime(t, e)
        BY Zenon DEF Sent, OnTime
    <1>2. ASSUME NEW w, NEW v  PROVE  Ordered(s, w, v) => Ordered(t, w, v)
        BY Zenon DEF Ordered
    <1> QED  BY <1>1, <1>2, Zenon DEF FlightsOf

\* A timer stays in the queue until it is the one that is run.
LEMMA TimerStays ==
    ASSUME NEW q, Listed(q), NEW r, Listed(r), NEW e, NEW p \in 1 .. Len(q) + 1,
           Shifted(q, e, r, p), NEW s, NEW n
    PROVE  /\ TimerIn(s, q, n) => TimerIn(s, r, n)
           /\ TimerIn(s, r, n) =>
                TimerIn(s, q, n) \/ (e.what.type = "pingTimedOut" /\ e.what.node = n)
           /\ Timer(s, n, e) => TimerIn(s, r, n)
PROOF
    <1>0. Placed(q, e, r, p)
        BY Positions
    <1>1. ASSUME TimerIn(s, q, n)  PROVE  TimerIn(s, r, n)
        <2>1. PICK i \in DOMAIN q : Timer(s, n, q[i])
            BY <1>1, Zenon DEF TimerIn
        <2>2. PICK j \in DOMAIN r : r[j] = q[i]
            BY <1>0, Zenon DEF Placed
        <2>3. Timer(s, n, r[j])
            BY <2>1, <2>2, Zenon
        <2> QED  BY <2>3, Zenon DEF TimerIn
    <1>2. ASSUME TimerIn(s, r, n),
                 ~(e.what.type = "pingTimedOut" /\ e.what.node = n)
          PROVE  TimerIn(s, q, n)
        <2>1. PICK j \in DOMAIN r : Timer(s, n, r[j])
            BY <1>2, Zenon DEF TimerIn
        <2>2. j # p
            BY <2>1, <1>2, <1>0, Zenon DEF Placed, Timer
        <2>3. PICK i \in DOMAIN q : q[i] = r[j]
            BY <2>2, <1>0, Zenon DEF Placed
        <2>4. Timer(s, n, q[i])
            BY <2>1, <2>3, Zenon
        <2> QED  BY <2>4, Zenon DEF TimerIn
    <1>3. ASSUME Timer(s, n, e)  PROVE  TimerIn(s, r, n)
        BY <1>3, <1>0, Zenon DEF Placed, TimerIn
    <1> QED  BY <1>1, <1>2, <1>3

\* Nothing is asked of the clock but that it goes on, nor of the pings but that none
\* is new.
LEMMA TimerAt ==
    ASSUME NEW s, NEW t, s.now \in Nat, t.now \in Nat, s.now <= t.now,
           NEW n, t.pings[n] \subseteq s.pings[n], NEW q, TimerIn(s, q, n)
    PROVE  TimerIn(t, q, n)
PROOF
    <1>1. nowMs(s) \in Nat /\ nowMs(t) \in Nat /\ nowMs(s) <= nowMs(t)
        BY MsOfNow
    <1>2. 0 .. nowMs(s) + PING_TIMEOUT_MS \subseteq 0 .. nowMs(t) + PING_TIMEOUT_MS
        BY <1>1, SimulatorConstants
    <1>3. \A e : Timer(s, n, e) => Timer(t, n, e)
        BY <1>2, Zenon DEF Timer
    <1> QED  BY <1>3, Zenon DEF TimerIn

\* The numbers of packets, and of those that have to do with n, when e goes in.
LEMMA FlightCounts ==
    ASSUME NEW q, Listed(q), NEW r, Listed(r), NEW e, NEW p \in 1 .. Len(q) + 1,
           Shifted(q, e, r, p), NEW n
    PROVE  /\ Cardinality(Flight(q)) \in Nat /\ Cardinality(FlightOf(q, n)) \in Nat
           /\ Cardinality(Flight(r)) =
                Cardinality(Flight(q)) + (IF e.what.type = "pkt" THEN 1 ELSE 0)
           /\ Cardinality(FlightOf(r, n)) =
                Cardinality(FlightOf(q, n))
                    + (IF e.what.type = "pkt" /\ Mine(e.what, n) THEN 1 ELSE 0)
PROOF
    <1>0. Placed(q, e, r, p)
        BY Positions
    <1> DEFINE S == Range(r)
               K == {x \in S : x.what.type = "pkt"}
               M == {x \in S : x.what.type = "pkt" /\ Mine(x.what, n)}
    <1>1. /\ \A i \in DOMAIN r : r[i] \in S
          /\ \A i \in DOMAIN q : q[i] \in S
          /\ e \in S
        BY <1>0, Zenon DEF Placed, Range
    <1> HIDE DEF S
    <1>2. /\ Flight(r) = Kind(r, K)
          /\ Flight(q) = Kind(q, K)
          /\ e \in K <=> e.what.type = "pkt"
        BY <1>1, Zenon DEF Flight, Kind
    <1>3. /\ FlightOf(r, n) = Kind(r, M)
          /\ FlightOf(q, n) = Kind(q, M)
          /\ e \in M <=> e.what.type = "pkt" /\ Mine(e.what, n)
        BY <1>1, Zenon DEF Flight, FlightOf, Kind
    <1> HIDE DEF K, M
    <1>4. /\ IsFiniteSet(Kind(q, K))
          /\ Cardinality(Kind(r, K)) = Cardinality(Kind(q, K)) + (IF e \in K THEN 1 ELSE 0)
        BY CountShifted
    <1>5. /\ IsFiniteSet(Kind(q, M))
          /\ Cardinality(Kind(r, M)) = Cardinality(Kind(q, M)) + (IF e \in M THEN 1 ELSE 0)
        BY CountShifted
    <1>6. IsFiniteSet(Flight(q)) /\ IsFiniteSet(FlightOf(q, n))
        BY <1>2, <1>3, <1>4, <1>5, Zenon
    <1>7. Cardinality(Flight(q)) \in Nat /\ Cardinality(FlightOf(q, n)) \in Nat
        BY <1>6, FS_CardinalityType, Zenon
    <1>8. Cardinality(Flight(r)) = Cardinality(Flight(q)) + (IF e \in K THEN 1 ELSE 0)
        BY <1>2, <1>4
    <1>9. Cardinality(FlightOf(r, n)) = Cardinality(FlightOf(q, n)) + (IF e \in M THEN 1 ELSE 0)
        BY <1>3, <1>5
    <1> QED  BY <1>2, <1>3, <1>7, <1>8, <1>9

-----------------------------------------------------------------------------
(* What happens to a sim, and the parts of the invariant that it touches. *)

\* t is s except in the fields F.
Only(s, t, F) == DOMAIN t = DOMAIN s /\ \A f \in DOMAIN s \ F : t[f] = s[f]

\* Each part of the invariant looks at a few fields.
LEMMA Frame ==
    ASSUME NEW s, NEW t, NEW F, Fields \subseteq DOMAIN s, Only(s, t, F)
    PROVE  /\ F \cap {"sending", "pktsSent", "last", "edges"} = {} =>
                (Sending(s) => Sending(t))
           /\ F \cap {"events", "edges", "sending", "pktsSent", "now", "last", "changed"} = {} =>
                (Flights(s) => Flights(t))
           /\ F \cap {"given", "arrived", "events", "pktsDropped", "pktsLost"} = {} =>
                (Counted(s) => Counted(t))
           /\ F \cap {"events", "starting", "now", "pings"} = {} =>
                (Timers(s) => Timers(t))
           /\ F \cap {"events", "sending", "unexpected", "pings", "timedOut", "broadcast"} = {} =>
                (Replies(s) => Replies(t))
PROOF
    <1>0. \A f \in Fields \ F : t[f] = s[f]
        BY DEF Only
    <1>1. ASSUME F \cap {"sending", "pktsSent", "last", "edges"} = {}, Sending(s)
          PROVE  Sending(t)
        <2>1. /\ t.sending = s.sending /\ t.pktsSent = s.pktsSent
              /\ t.last = s.last /\ t.edges = s.edges
            BY <1>0, <1>1 DEF Fields
        <2> QED  BY <2>1, <1>1, Zenon DEF Sending
    <1>2. ASSUME F \cap {"events", "edges", "sending", "pktsSent", "now", "last", "changed"} = {},
                 Flights(s)
          PROVE  Flights(t)
        <2>1. /\ t.events = s.events /\ t.edges = s.edges /\ t.sending = s.sending
              /\ t.pktsSent = s.pktsSent /\ t.now = s.now /\ t.last = s.last
              /\ t.changed = s.changed
            BY <1>0, <1>2 DEF Fields
        <2>2. FlightsOf(t, s.events)
            BY <2>1, <1>2, FlightsAt DEF Flights
        <2> QED  BY <2>1, <2>2, <1>2, Zenon DEF Flights
    <1>3. ASSUME F \cap {"given", "arrived", "events", "pktsDropped", "pktsLost"} = {}, Counted(s)
          PROVE  Counted(t)
        <2>1. /\ t.given = s.given /\ t.arrived = s.arrived /\ t.events = s.events
              /\ t.pktsDropped = s.pktsDropped /\ t.pktsLost = s.pktsLost
            BY <1>0, <1>3 DEF Fields
        <2> QED  BY <2>1, <1>3, Zenon DEF Counted
    <1>4. ASSUME F \cap {"events", "starting", "now", "pings"} = {}, Timers(s)
          PROVE  Timers(t)
        <2>1. /\ t.events = s.events /\ t.starting = s.starting
              /\ t.now = s.now /\ t.pings = s.pings
            BY <1>0, <1>4 DEF Fields
        <2>2. nowMs(t) = nowMs(s)
            BY <2>1, Zenon DEF nowMs
        <2>3. \A n, e : Timer(s, n, e) => Timer(t, n, e)
            BY <2>1, <2>2, Zenon DEF Timer
        <2> QED  BY <2>1, <2>3, <1>4, Zenon DEF Timers, TimerIn
    <1>5. ASSUME F \cap {"events", "sending", "unexpected", "pings", "timedOut", "broadcast"} = {},
                 Replies(s)
          PROVE  Replies(t)
        <2>1. /\ t.events = s.events /\ t.sending = s.sending
              /\ t.unexpected = s.unexpected /\ t.pings = s.pings
              /\ t.timedOut = s.timedOut /\ t.broadcast = s.broadcast
            BY <1>0, <1>5 DEF Fields
        <2> QED  BY <2>1, <1>5, Zenon DEF Replies, Room, Pending
    <1> QED  BY <1>1, <1>2, <1>3, <1>4, <1>5

\* An event that is no packet is put into the queue.
LEMMA TimerSet ==
    ASSUME NEW s, Shape(s), NEW time \in Nat, NEW what, NEW e,
           e = [time |-> time, what |-> what], EventOK(e), what.type # "pkt",
           NEW t, t = addEventAtMicros(s, time, what)
    PROVE  /\ Shape(t) /\ Only(s, t, {"events"})
           /\ Sending(s) => Sending(t)
           /\ Flights(s) => Flights(t)
           /\ Counted(s) => Counted(t)
           /\ Replies(s) => Replies(t)
           /\ \A n : TimerIn(s, s.events, n) => TimerIn(t, t.events, n)
           /\ \A n : Timer(t, n, e) => TimerIn(t, t.events, n)
PROOF
    <1> DEFINE q == s.events
               r == addEvent(q, e)
    <1>1. t = [s EXCEPT !.events = r]
        BY DEF addEventAtMicros
    <1>2. QueueOK(q) /\ Fields \subseteq DOMAIN s
        BY DEF Shape
    <1>3. QueueOK(r) /\ \E p \in 1 .. Len(q) + 1 : Inserted(q, e, r, p)
        BY <1>2, QueueAdd
    <1> HIDE DEF r
    <1>4. Only(s, t, {"events"}) /\ t.events = r
        BY <1>1, <1>2 DEF Only, Fields
    <1>5. /\ t.now = s.now /\ t.starting = s.starting /\ t.sending = s.sending
          /\ t.edges = s.edges /\ t.allToAll = s.allToAll
          /\ t.pings = s.pings /\ t.pktsSent = s.pktsSent
          /\ t.pktsDropped = s.pktsDropped /\ t.pktsLost = s.pktsLost
          /\ t.given = s.given /\ t.arrived = s.arrived
          /\ t.broadcast = s.broadcast /\ t.unexpected = s.unexpected
          /\ t.timedOut = s.timedOut /\ t.last = s.last /\ t.changed = s.changed
        BY <1>4, <1>2 DEF Only, Fields
    <1>6. Shape(t)
        BY <1>3, <1>4, <1>5, Zenon DEF Shape, Only
    <1>7. PICK p \in 1 .. Len(q) + 1 : Shifted(q, e, r, p)
        BY <1>3, InsertedShifts
    <1>8. Listed(q) /\ Listed(r) /\ e.what.type # "pkt"
        BY <1>2, <1>3 DEF QueueOK
    <1> HIDE DEF q
    <1>9. ASSUME Flights(s)  PROVE  Flights(t)
        <2>1. FlightsOf(s, q)
            BY <1>9, Zenon DEF Flights, q
        <2>2. FlightsOf(s, r)
            BY <2>1, <1>7, <1>8, FlightsPass
        <2>3. FlightsOf(t, r)
            BY <2>2, <1>5, FlightsAt
        <2> QED  BY <2>3, <1>4, <1>5, <1>9, Zenon DEF Flights
    <1>10. /\ Cardinality(Flight(q)) \in Nat
           /\ Cardinality(Flight(r)) = Cardinality(Flight(q))
        BY <1>7, <1>8, FlightCounts
    <1>11. ASSUME NEW n
           PROVE  /\ Cardinality(FlightOf(q, n)) \in Nat
                  /\ Cardinality(FlightOf(r, n)) = Cardinality(FlightOf(q, n))
        BY <1>7, <1>8, FlightCounts
    <1>12. Counted(s) => Counted(t)
        BY <1>4, <1>5, <1>10, Zenon DEF Counted, q
    <1>13. Replies(s) => Replies(t)
        BY <1>4, <1>5, <1>11, Zenon DEF Replies, Room, Pending, q
    <1>14. ASSUME NEW n, TimerIn(s, s.events, n)  PROVE  TimerIn(t, t.events, n)
        <2>1. TimerIn(s, r, n)
            BY <1>14, <1>7, <1>8, TimerStays DEF q
        <2>2. s.now \in Nat /\ s.now <= t.now /\ t.pings[n] \subseteq s.pings[n]
            BY <1>5 DEF Shape
        <2>3. TimerIn(t, r, n)
            BY <2>1, <2>2, <1>5, TimerAt
        <2> QED  BY <2>3, <1>4
    <1>15. ASSUME NEW n, Timer(t, n, e)  PROVE  TimerIn(t, t.events, n)
        BY <1>15, <1>4, <1>7, <1>8, TimerStays
    <1>16. Sending(s) => Sending(t)
        BY <1>2, <1>4, Frame
    <1> QED  BY <1>4, <1>6, <1>9, <1>12, <1>13, <1>14, <1>15, <1>16

\* The clock goes on.
LEMMA ClockAdvances ==
    ASSUME NEW s, SimInv(s), NEW x \in Nat, s.now <= x, NEW t, t = [s EXCEPT !.now = x]
    PROVE  SimInv(t) /\ t.now = x /\ Only(s, t, {"now"})
PROOF
    <1>1. Shape(s) /\ Fields \subseteq DOMAIN s
        BY DEF SimInv, Shape
    <1>2. t.now = x /\ Only(s, t, {"now"})
        BY <1>1 DEF Only, Fields
    <1>3. /\ t.events = s.events /\ t.starting = s.starting /\ t.sending = s.sending
          /\ t.edges = s.edges /\ t.allToAll = s.allToAll
          /\ t.pings = s.pings /\ t.pktsSent = s.pktsSent
          /\ t.pktsDropped = s.pktsDropped /\ t.pktsLost = s.pktsLost
          /\ t.given = s.given /\ t.arrived = s.arrived
          /\ t.broadcast = s.broadcast /\ t.unexpected = s.unexpected
          /\ t.timedOut = s.timedOut /\ t.last = s.last /\ t.changed = s.changed
        BY <1>2, <1>1 DEF Only, Fields
    <1>4. Shape(t)
        BY <1>1, <1>2, <1>3, Zenon DEF Shape, Only
    <1>5. Sending(t) /\ Counted(t) /\ Replies(t)
        BY <1>1, <1>2, Frame DEF SimInv
    <1>6. Timers(t)
        <2> SUFFICES ASSUME NEW n \in Nodes \ t.starting  PROVE  TimerIn(t, t.events, n)
            BY DEF Timers
        <2>1. TimerIn(s, s.events, n)
            BY <1>3 DEF SimInv, Timers
        <2>2. s.now \in Nat /\ s.now <= t.now /\ t.pings[n] \subseteq s.pings[n]
            BY <1>1, <1>2, <1>3 DEF Shape
        <2>3. TimerIn(t, s.events, n)
            BY <2>1, <2>2, <1>2, TimerAt
        <2> QED  BY <2>3, <1>3
    <1>7. Flights(t)
        <2> DEFINE q == s.events
        <2>1. FlightsOf(s, q) /\ s.now \in Nat
            BY <1>1 DEF SimInv, Flights, Shape
        <2>2. ASSUME NEW i \in Flight(q)
              PROVE  Sent(t, q[i]) /\ OnTime(t, q[i])
            <3>1. Sent(s, q[i]) /\ OnTime(s, q[i])
                BY <2>1 DEF FlightsOf
            <3>2. EventOK(q[i]) /\ q[i].what.type = "pkt"
                BY <1>1, ListedDomain DEF Shape, QueueOK, Flight
            <3> DEFINE w == q[i].what
                       edge == s.edges[{w.from, w.to}]
            <3>3. q[i].time \in Nat /\ EdgeOK({w.from, w.to}, edge)
                BY <3>1, <3>2, <1>1 DEF Shape, Sent, EventOK
            <3> DEFINE far == (edge.options.bt + edge.options.delay) * MicrosPerMs
            <3>4. far \in Int
                <4> HIDE DEF edge
                <4>1. OptionsOK(edge.options)
                    BY <3>3, Zenon DEF EdgeOK
                <4>2. edge.options.bt \in Int /\ edge.options.delay \in Int
                    BY <4>1 DEF OptionsOK
                <4>3. MicrosPerMs \in Int
                    BY ParserConstants
                <4> QED  BY <4>2, <4>3
            <3>5. Sent(t, q[i])
                BY <3>1, <1>3, Zenon DEF Sent
            <3>6. q[i].time - s.now <= far => q[i].time - t.now <= far
                <4> HIDE DEF far
                <4> QED  BY <3>3, <3>4, <2>1, <1>2
            <3>7. OnTime(t, q[i])
                BY <3>1, <3>6, <1>3, Zenon DEF OnTime
            <3> QED  BY <3>5, <3>7
        <2>3. ASSUME NEW i \in Flight(q), NEW j \in Flight(q), i < j
              PROVE  Ordered(t, q[i].what, q[j].what)
            BY <2>1, <2>3, <1>3, Zenon DEF FlightsOf, Ordered
        <2>4. FlightsOf(t, q)
            BY <2>2, <2>3, Zenon DEF FlightsOf
        <2> QED  BY <2>4, <1>3, Zenon DEF Flights, SimInv
    <1> QED  BY <1>2, <1>4, <1>5, <1>6, <1>7 DEF SimInv

-----------------------------------------------------------------------------
(* Edges and nodes are changed. *)

\* Edges are new, or have other options, or have failed: nothing that is on its way
\* over an edge whose options stay is touched.
LEMMA Rewired ==
    ASSUME NEW s, SimInv(s), NEW t, Only(s, t, {"edges", "failedNodes", "changed"}),
           \A ends \in DOMAIN t.edges : EdgeOK(ends, t.edges[ends]),
           DOMAIN s.edges \subseteq DOMAIN t.edges, s.changed \subseteq t.changed,
           \A ends \in DOMAIN s.edges \ t.changed :
                /\ t.edges[ends].options = s.edges[ends].options
                /\ t.edges[ends].nextSendTime = s.edges[ends].nextSendTime
    PROVE  SimInv(t)
PROOF
    <1>1. Shape(s) /\ Fields \subseteq DOMAIN s
        BY DEF SimInv, Shape
    <1>2. /\ t.events = s.events /\ t.starting = s.starting /\ t.sending = s.sending
          /\ t.now = s.now /\ t.allToAll = s.allToAll
          /\ t.pings = s.pings /\ t.pktsSent = s.pktsSent
          /\ t.pktsDropped = s.pktsDropped /\ t.pktsLost = s.pktsLost
          /\ t.given = s.given /\ t.arrived = s.arrived
          /\ t.broadcast = s.broadcast /\ t.unexpected = s.unexpected
          /\ t.timedOut = s.timedOut /\ t.last = s.last
        BY <1>1 DEF Only, Fields
    <1>3. Shape(t)
        BY <1>1, <1>2, Zenon DEF Shape, Only
    <1>4. Counted(t) /\ Timers(t) /\ Replies(t)
        BY <1>1, Frame DEF SimInv
    <1>5. Sending(t)
        BY <1>2, Zenon DEF SimInv, Sending
    <1>6. ASSUME NEW e, Sent(s, e), OnTime(s, e)
          PROVE  Sent(t, e) /\ OnTime(t, e)
        BY <1>2, <1>6, Zenon DEF Sent, OnTime
    <1>7. ASSUME NEW w, NEW v, Ordered(s, w, v)
          PROVE  Ordered(t, w, v)
        BY <1>7, Zenon DEF Ordered
    <1>8. Flights(t)
        BY <1>2, <1>6, <1>7, Zenon DEF SimInv, Flights, FlightsOf
    <1> QED  BY <1>3, <1>4, <1>5, <1>8 DEF SimInv

LEMMA EdgePut ==
    ASSUME NEW s, Fields \subseteq DOMAIN s, NEW ends, NEW edge, NEW t, t = putEdge(s, ends, edge)
    PROVE  /\ Only(s, t, {"edges"})
           /\ DOMAIN t.edges = DOMAIN s.edges \cup {ends}
           /\ t.edges[ends] = edge
           /\ \A e \in DOMAIN s.edges : e # ends => t.edges[e] = s.edges[e]
PROOF
    <1> DEFINE f == [e \in DOMAIN s.edges \cup {ends} |->
                        IF e = ends THEN edge ELSE s.edges[e]]
    <1>1. t = [s EXCEPT !.edges = f]
        BY Zenon DEF putEdge
    <1>2. /\ DOMAIN f = DOMAIN s.edges \cup {ends}
          /\ f[ends] = edge
          /\ \A e \in DOMAIN s.edges : e # ends => f[e] = s.edges[e]
        OBVIOUS
    <1> HIDE DEF f
    <1>3. Only(s, t, {"edges"}) /\ t.edges = f
        BY <1>1 DEF Only, Fields
    <1> QED  BY <1>2, <1>3

LEMMA EdgeKnown ==
    ASSUME NEW s, Shape(s), NEW ends
    PROVE  EdgeOK(ends, getEdge(s, ends))
PROOF
    <1>1. CASE ends \in DOMAIN s.edges
        BY <1>1 DEF getEdge, Shape
    <1>2. CASE ends \notin DOMAIN s.edges
        <2>1. getEdge(s, ends) = NewEdge(ends)
            BY <1>2 DEF getEdge
        <2>2. EdgeOK(ends, NewEdge(ends))
            BY DEF NewEdge, EdgeOK, OptionsOK, defaultOptions
        <2> QED  BY <2>1, <2>2
    <1> QED  BY <1>1, <1>2

\* newEdge, after the edge's name was noted if it is there already.
LEMMA NewEdgePut ==
    ASSUME NEW s, SimInv(s), NEW ends, NEW options, OptionsOK(options),
           NEW u, Only(s, u, {"changed"}),
           u.changed = s.changed \cup ({ends} \cap DOMAIN s.edges),
           NEW edge, edge = [getEdge(s, ends) EXCEPT !.options = options],
           NEW t, t = putEdge(u, ends, edge)
    PROVE  SimInv(t) /\ Only(s, t, {"edges", "failedNodes", "changed"})
PROOF
    <1> DEFINE c == s.changed \cup ({ends} \cap DOMAIN s.edges)
               old == getEdge(s, ends)
    <1>1. Shape(s) /\ Fields \subseteq DOMAIN s
        BY DEF SimInv, Shape
    <1>3. u.changed = c /\ u.edges = s.edges
        BY <1>1 DEF Only, Fields
    <1>4. Fields \subseteq DOMAIN u
        BY <1>1 DEF Only
    <1>7. EdgeOK(ends, old)
        BY <1>1, EdgeKnown
    <1>8. edge = [old EXCEPT !.options = options]
        OBVIOUS
    <1> HIDE DEF old, c
    <1>9. EdgeOK(ends, edge)
        BY <1>7, <1>8 DEF EdgeOK
    <1>10. /\ Only(u, t, {"edges"})
           /\ DOMAIN t.edges = DOMAIN u.edges \cup {ends}
           /\ t.edges[ends] = edge
           /\ \A e \in DOMAIN u.edges : e # ends => t.edges[e] = u.edges[e]
        BY <1>4, EdgePut
    <1>11. Only(s, t, {"edges", "failedNodes", "changed"}) /\ t.changed = c
        BY <1>3, <1>10, <1>1 DEF Only, Fields
    <1>12. \A e \in DOMAIN s.edges : EdgeOK(e, s.edges[e])
        BY <1>1 DEF Shape
    <1>13. \A e \in DOMAIN t.edges : EdgeOK(e, t.edges[e])
        BY <1>3, <1>9, <1>10, <1>12, Zenon
    <1>14. \A e \in DOMAIN s.edges \ t.changed : t.edges[e] = s.edges[e]
        BY <1>3, <1>10, <1>11, Zenon DEF c
    <1>15. DOMAIN s.edges \subseteq DOMAIN t.edges /\ s.changed \subseteq t.changed
        BY <1>3, <1>10, <1>11, Zenon DEF c
    <1>16. SimInv(t)
        BY <1>11, <1>13, <1>14, <1>15, Rewired
    <1> QED  BY <1>11, <1>16

LEMMA NewEdgeKeeps ==
    ASSUME NEW s, SimInv(s), NEW a, NEW b, NEW options, OptionsOK(options), NEW t,
           t = newEdge([s EXCEPT !.changed = @ \cup ({{a, b}} \cap DOMAIN s.edges)],
                       a, b, options)
    PROVE  SimInv(t) /\ Only(s, t, {"edges", "failedNodes", "changed"})
PROOF
    <1> DEFINE ends == {a, b}
               c == s.changed \cup ({ends} \cap DOMAIN s.edges)
               u == [s EXCEPT !.changed = c]
               edge == [getEdge(u, ends) EXCEPT !.options = options]
    <1>1. t = newEdge(u, a, b, options)
        OBVIOUS
    <1>2. t = putEdge(u, ends, edge)
        BY <1>1, Zenon DEF newEdge
    <1>3. Fields \subseteq DOMAIN s
        BY DEF SimInv, Shape
    <1>4. Only(s, u, {"changed"}) /\ u.changed = c /\ u.edges = s.edges
        <2> HIDE DEF c
        <2> QED  BY <1>3 DEF Only, Fields
    <1> HIDE DEF u, ends
    <1>5. getEdge(u, ends) = getEdge(s, ends)
        BY <1>4, Zenon DEF getEdge
    <1>6. edge = [getEdge(s, ends) EXCEPT !.options = options]
        BY <1>5, Zenon
    <1> HIDE DEF edge
    <1> QED  BY <1>2, <1>4, <1>6, NewEdgePut

LEMMA ChangeEdgeKeeps ==
    ASSUME NEW s, SimInv(s), NEW ends, NEW live, NEW t, t = changeEdge(s, ends, live)
    PROVE  SimInv(t) /\ Only(s, t, {"edges", "failedNodes", "changed"})
PROOF
    <1> DEFINE edge == [getEdge(s, ends) EXCEPT !.live = live]
               old == s.edges[ends]
    <1>1. Shape(s) /\ Fields \subseteq DOMAIN s
        BY DEF SimInv, Shape
    <1>2. CASE ~hasEdge(s, ends)
        <2>1. t = s
            BY <1>2 DEF changeEdge
        <2> QED  BY <2>1 DEF Only
    <1>3. CASE hasEdge(s, ends)
        <2>1. t = putEdge(s, ends, edge)
            BY <1>3 DEF changeEdge
        <2>2. ends \in DOMAIN s.edges
            BY <1>3, <1>1 DEF hasEdge, Shape
        <2>3. edge = [old EXCEPT !.live = live] /\ EdgeOK(ends, old)
            BY <2>2, <1>1, Zenon DEF getEdge, Shape
        <2> HIDE DEF edge, old
        <2>4. /\ EdgeOK(ends, edge) /\ edge.options = old.options
              /\ edge.nextSendTime = old.nextSendTime
            BY <2>3 DEF EdgeOK
        <2>5. /\ Only(s, t, {"edges"})
              /\ DOMAIN t.edges = DOMAIN s.edges \cup {ends}
              /\ t.edges[ends] = edge
              /\ \A e \in DOMAIN s.edges : e # ends => t.edges[e] = s.edges[e]
            BY <2>1, <1>1, EdgePut
        <2>6. Only(s, t, {"edges", "failedNodes", "changed"}) /\ t.changed = s.changed
            BY <2>5, <1>1 DEF Only, Fields
        <2>7. \A e \in DOMAIN s.edges : EdgeOK(e, s.edges[e])
            BY <1>1 DEF Shape
        <2>8. \A e \in DOMAIN t.edges : EdgeOK(e, t.edges[e])
            BY <2>4, <2>5, <2>7, Zenon
        <2>9. \A e \in DOMAIN s.edges :
                /\ t.edges[e].options = s.edges[e].options
                /\ t.edges[e].nextSendTime = s.edges[e].nextSendTime
            BY <2>4, <2>5, Zenon DEF old
        <2>10. DOMAIN s.edges \subseteq DOMAIN t.edges /\ s.changed \subseteq t.changed
            BY <2>5, <2>6, Zenon
        <2>11. SimInv(t)
            BY <2>6, <2>8, <2>9, <2>10, Rewired
        <2> QED  BY <2>6, <2>11
    <1> QED  BY <1>2, <1>3

LEMMA ChangeNodeKeeps ==
    ASSUME NEW s, SimInv(s), NEW n, NEW live, NEW t, t = changeNode(s, n, live)
    PROVE  SimInv(t) /\ Only(s, t, {"edges", "failedNodes", "changed"})
PROOF
    <1> DEFINE f == IF live THEN s.failedNodes \ {n} ELSE s.failedNodes \cup {n}
    <1>1. Shape(s) /\ Fields \subseteq DOMAIN s
        BY DEF SimInv, Shape
    <1>2. t = [s EXCEPT !.failedNodes = f]
        BY DEF changeNode
    <1> HIDE DEF f
    <1>3. /\ Only(s, t, {"edges", "failedNodes", "changed"})
          /\ t.edges = s.edges /\ t.changed = s.changed
        BY <1>1, <1>2 DEF Only, Fields
    <1>4. \A e \in DOMAIN s.edges : EdgeOK(e, s.edges[e])
        BY <1>1 DEF Shape
    <1>5. SimInv(t)
        BY <1>3, <1>4, Rewired
    <1> QED  BY <1>3, <1>5

-----------------------------------------------------------------------------
(* Packets are sent, and lines executed. *)

\* Simulator::sendPkt, when the loop of an earlier one has ended.
LEMMA SendPrepares ==
    ASSUME NEW s, Shape(s), Flights(s), s.sending = {},
           NEW from \in Nodes, NEW to \in 0 .. BROADCAST_ADDRESS,
           NEW protocol \in {"PING_PKT", "PING_REPLY_PKT"},
           to = BROADCAST_ADDRESS => protocol = "PING_PKT",
           NEW msg, NEW t, t = sendPkt(s, from, to, protocol, msg)
    PROVE  /\ Only(s, t, {"pktsSent", "sending"})
           /\ t.pktsSent = s.pktsSent + 1
           /\ Shape(t) /\ Sending(t) /\ Flights(t)
           /\ \A n : \/ Pending(t, n) = 0
                     \/ Pending(t, n) = 1 /\ (IF protocol = "PING_PKT" THEN n = from ELSE n = to)
PROOF
    <1> DEFINE pkt == [no |-> s.pktsSent + 1, protocol |-> protocol,
                       src |-> from, dest |-> to, msg |-> msg]
               copy(n) == [from |-> from, to |-> n, pkt |-> pkt]
               dests == IF to = BROADCAST_ADDRESS THEN Nodes ELSE {to}
               ends == {n \in dests : hasLiveEdge(s, from, n)}
               C == {copy(n) : n \in ends}
    <1>1. Fields \subseteq DOMAIN s /\ s.pktsSent \in Nat /\ s.allToAll = FALSE
        BY DEF Shape
    <1>2. t = [s EXCEPT !.pktsSent = s.pktsSent + 1, !.sending = C]
        BY Zenon DEF sendPkt
    <1>3. \A c \in C : \E n \in ends : c = copy(n)
        BY Zenon
    <1>4. \A n : /\ copy(n).from = from /\ copy(n).to = n /\ copy(n).pkt = pkt
                 /\ pkt.no = s.pktsSent + 1 /\ pkt.protocol = protocol
                 /\ pkt.src = from /\ pkt.dest = to
        OBVIOUS
    <1>5. \A n \in ends : n \in 0 .. BROADCAST_ADDRESS /\ {from, n} \in DOMAIN s.edges
        BY <1>1, SimulatorConstants DEF hasLiveEdge, hasEdge
    <1>6. to # BROADCAST_ADDRESS => ends \subseteq {to}
        BY Zenon
    <1> HIDE DEF C
    <1>7. /\ Only(s, t, {"pktsSent", "sending"})
          /\ t.pktsSent = s.pktsSent + 1 /\ t.sending = C
        BY <1>1, <1>2 DEF Only, Fields
    <1>8. /\ t.events = s.events /\ t.starting = s.starting /\ t.edges = s.edges
          /\ t.now = s.now /\ t.allToAll = s.allToAll /\ t.pings = s.pings
          /\ t.pktsDropped = s.pktsDropped /\ t.pktsLost = s.pktsLost
          /\ t.given = s.given /\ t.arrived = s.arrived
          /\ t.broadcast = s.broadcast /\ t.unexpected = s.unexpected
          /\ t.timedOut = s.timedOut /\ t.last = s.last /\ t.changed = s.changed
        BY <1>1, <1>7 DEF Only, Fields
    <1> HIDE DEF pkt, ends, copy
    <1>9. \A c \in C :
            /\ c.from = from /\ c.to \in ends /\ c.pkt = pkt
            /\ c = copy(c.to)
        BY <1>3, <1>4
    <1>10. Shape(t)
        <2>1. \A n \in Nodes : PingsOK(t.pings[n], t.pktsSent)
            BY <1>1, <1>7, <1>8 DEF Shape, PingsOK
        <2>2. t.pktsSent \in Nat
            BY <1>1, <1>7
        <2> QED  BY <2>1, <2>2, <1>7, <1>8, Zenon DEF Shape, Only
    <1>11. \A link \in Links : s.last[link] \in Nat /\ s.last[link] <= s.pktsSent
        BY DEF Shape, Flights
    <1>12. ASSUME NEW c \in C
           PROVE  /\ CopyOK(c) /\ {c.from, c.to} \in DOMAIN t.edges
                  /\ c.pkt.no = t.pktsSent
                  /\ t.last[<<c.from, c.to>>] < t.pktsSent
                  /\ c.pkt.dest # BROADCAST_ADDRESS => C = {c}
                  /\ c.pkt.dest = BROADCAST_ADDRESS => c.pkt.protocol = "PING_PKT"
        <2>1. c.from = from /\ c.to \in ends /\ c.pkt = pkt
            BY <1>9
        <2>2. c.to \in 0 .. BROADCAST_ADDRESS /\ {from, c.to} \in DOMAIN s.edges
            BY <2>1, <1>5
        <2>3. CopyOK(c)
            BY <2>1, <2>2, <1>4, <1>1 DEF CopyOK
        <2>4. c.pkt.no = t.pktsSent /\ {c.from, c.to} \in DOMAIN t.edges
            BY <2>1, <2>2, <1>4, <1>7, <1>8
        <2>5. <<from, c.to>> \in Links
            BY <2>2 DEF Links
        <2>6. t.last[<<c.from, c.to>>] < t.pktsSent
            BY <2>1, <2>5, <1>1, <1>7, <1>8, <1>11
        <2>7. ASSUME c.pkt.dest # BROADCAST_ADDRESS  PROVE  C = {c}
            <3>1. ends \subseteq {to}
                BY <2>7, <2>1, <1>4, <1>6
            <3>2. \A d \in C : d = copy(to)
                BY <3>1, <1>9
            <3> QED  BY <3>2, Zenon
        <2>8. c.pkt.dest = BROADCAST_ADDRESS => c.pkt.protocol = "PING_PKT"
            BY <2>1, <1>4
        <2> QED  BY <2>3, <2>4, <2>6, <2>7, <2>8
    <1>13. \A c, d \in C : c.from = d.from /\ c.to = d.to => c = d
        BY <1>9
    <1>14. Sending(t)
        BY <1>7, <1>12, <1>13, Zenon DEF Sending
    <1>15. Flights(t)
        <2> DEFINE q == s.events
        <2>1. ASSUME NEW i \in Flight(q)
              PROVE  Sent(t, q[i]) /\ OnTime(t, q[i])
            <3>1. Sent(s, q[i]) /\ OnTime(s, q[i])
                BY Zenon DEF Flights, FlightsOf
            <3>2. EventOK(q[i]) /\ q[i].what.type = "pkt"
                BY ListedDomain DEF Shape, QueueOK, Flight
            <3>3. q[i].what.pkt.no \in Nat
                BY <3>2 DEF EventOK, CopyOK
            <3>4. q[i].what.pkt.no <= s.pktsSent
                BY <3>1 DEF Sent
            <3>5. q[i].what.pkt.no < t.pktsSent /\ q[i].what.pkt.no <= t.pktsSent
                BY <3>3, <3>4, <1>1, <1>7
            <3>6. Sent(t, q[i])
                BY <3>1, <3>5, <1>8, Zenon DEF Sent
            <3>7. OnTime(t, q[i])
                BY <3>1, <1>8, Zenon DEF OnTime
            <3> QED  BY <3>6, <3>7
        <2>2. ASSUME NEW i \in Flight(q), NEW j \in Flight(q), i < j
              PROVE  Ordered(t, q[i].what, q[j].what)
            BY <2>2, <1>8, Zenon DEF Flights, FlightsOf, Ordered
        <2>3. FlightsOf(t, q)
            BY <2>1, <2>2, Zenon DEF FlightsOf
        <2>4. \A link \in Links : t.last[link] <= t.pktsSent
            BY <1>1, <1>7, <1>8, <1>11
        <2> QED  BY <2>3, <2>4, <1>8, Zenon DEF Flights
    <1>16. ASSUME NEW n, Pending(t, n) # 0
           PROVE  Pending(t, n) = 1 /\ (IF protocol = "PING_PKT" THEN n = from ELSE n = to)
        <2>1. PICK c \in C : c.pkt.dest # BROADCAST_ADDRESS /\ Mine(c, n)
            BY <1>16, <1>7 DEF Pending
        <2>2. Pending(t, n) = 1
            BY <2>1, <1>7 DEF Pending
        <2>3. /\ c.from = from /\ c.to \in ends /\ c.pkt.protocol = protocol
              /\ to # BROADCAST_ADDRESS
            BY <2>1, <1>4, <1>9
        <2>4. c.to = to
            BY <2>3, <1>6
        <2> QED  BY <2>1, <2>2, <2>3, <2>4 DEF Mine
    <1> QED  BY <1>7, <1>10, <1>14, <1>15, <1>16

\* Without a packet about to be sent, what is pending is nothing.
LEMMA NothingPending ==
    ASSUME NEW s, s.sending = {}
    PROVE  Sending(s) /\ \A n : Pending(s, n) = 0
PROOF
    BY DEF Sending, Pending

LEMMA RoomNumbers ==
    ASSUME NEW s, Shape(s), NEW n \in Nodes
    PROVE  /\ Cardinality(FlightOf(s.events, n)) \in Nat /\ Cardinality(Flight(s.events)) \in Nat
           /\ Cardinality(s.pings[n]) \in Nat
           /\ s.unexpected[n] \in Nat /\ s.timedOut[n] \in Nat /\ s.broadcast[n] \in Nat
PROOF
    <1> DEFINE q == s.events
    <1>1. Listed(q)
        BY DEF Shape, QueueOK
    <1>2. DOMAIN q = 1 .. Len(q) /\ Len(q) \in Nat
        BY <1>1, ListedDomain
    <1>3. IsFiniteSet(DOMAIN q)
        BY <1>2, FS_Interval
    <1>4. FlightOf(q, n) \in SUBSET DOMAIN q /\ Flight(q) \in SUBSET DOMAIN q
        BY Zenon DEF FlightOf, Flight
    <1>5. IsFiniteSet(FlightOf(q, n)) /\ IsFiniteSet(Flight(q))
        BY <1>3, <1>4, FS_Subset, Zenon
    <1>6. IsFiniteSet(s.pings[n])
        BY DEF Shape, PingsOK
    <1>7. /\ Cardinality(FlightOf(q, n)) \in Nat /\ Cardinality(Flight(q)) \in Nat
          /\ Cardinality(s.pings[n]) \in Nat
        BY <1>5, <1>6, FS_CardinalityType, Zenon
    <1>8. s.unexpected[n] \in Nat /\ s.timedOut[n] \in Nat /\ s.broadcast[n] \in Nat
        BY DEF Shape
    <1> QED  BY <1>7, <1>8

LEMMA PingKeeps ==
    ASSUME NEW s, SimInv(s), s.sending = {}, NEW n \in Nodes, NEW args,
           NEW t, t = matchPingCommand(s, n, args)
    PROVE  SimInv(t) /\ Only(s, t, {"pktsSent", "sending", "pings"})
PROOF
    <1> DEFINE dest == Numbers[args[1]]
               msg == Tail(args)
               ping == [no |-> s.pktsSent + 1, dest |-> dest, msg |-> msg,
                        timeSentMs |-> nowMs(s)]
               u == sendPkt(s, n, dest, "PING_PKT", msg)
               f == [s.pings EXCEPT ![n] = @ \cup {ping}]
    <1>1. /\ Shape(s) /\ Fields \subseteq DOMAIN s /\ Flights(s) /\ Counted(s)
          /\ Timers(s) /\ Replies(s) /\ s.now \in Nat /\ s.pktsSent \in Nat
        BY DEF SimInv, Shape
    <1>2. CASE dest \notin 0 .. BROADCAST_ADDRESS
        <2>1. t = s
            BY <1>2 DEF matchPingCommand
        <2> QED  BY <2>1 DEF Only
    <1>3. CASE dest \in 0 .. BROADCAST_ADDRESS
        <2>1. t = [u EXCEPT !.pings[n] = @ \cup {ping}]
            BY <1>3 DEF matchPingCommand
        <2> HIDE DEF dest, msg
        <2>2. /\ Only(s, u, {"pktsSent", "sending"})
              /\ u.pktsSent = s.pktsSent + 1
              /\ Shape(u) /\ Sending(u) /\ Flights(u)
              /\ \A m : \/ Pending(u, m) = 0
                        \/ Pending(u, m) = 1 /\ m = n
            BY <1>1, <1>3, SendPrepares
        <2> HIDE DEF u
        <2>3. /\ u.events = s.events /\ u.starting = s.starting /\ u.now = s.now
              /\ u.pings = s.pings /\ u.broadcast = s.broadcast
              /\ u.unexpected = s.unexpected /\ u.timedOut = s.timedOut
              /\ Fields \subseteq DOMAIN u
            BY <1>1, <2>2 DEF Only, Fields
        <2>4. /\ ping.no = s.pktsSent + 1 /\ ping.timeSentMs = nowMs(s)
              /\ nowMs(s) \in Nat
            BY <1>1, MsOfNow
        <2> HIDE DEF ping
        <2>5. /\ DOMAIN f = Nodes /\ f[n] = s.pings[n] \cup {ping}
              /\ \A m \in Nodes : m # n => f[m] = s.pings[m]
            BY <1>1 DEF Shape
        <2>6. t = [u EXCEPT !.pings = f]
            BY <2>1, <2>3
        <2> HIDE DEF f
        <2>7. Only(u, t, {"pings"}) /\ t.pings = f
            BY <2>3, <2>6 DEF Only, Fields
        <2>8. Only(s, t, {"pktsSent", "sending", "pings"})
            BY <1>1, <2>2, <2>7 DEF Only, Fields
        <2>9. /\ t.events = u.events /\ t.starting = u.starting /\ t.now = u.now
              /\ t.sending = u.sending /\ t.broadcast = u.broadcast
              /\ t.unexpected = u.unexpected /\ t.timedOut = u.timedOut
              /\ t.edges = u.edges /\ t.allToAll = u.allToAll
              /\ t.pktsSent = u.pktsSent /\ t.pktsDropped = u.pktsDropped
              /\ t.pktsLost = u.pktsLost /\ t.given = u.given
              /\ t.arrived = u.arrived /\ t.last = u.last
            BY <2>3, <2>7 DEF Only, Fields
        <2>10. \A m \in Nodes : PingsOK(s.pings[m], s.pktsSent)
            BY <1>1 DEF Shape
        <2>11. ping \notin s.pings[n] /\ IsFiniteSet(s.pings[n])
            BY <2>4, <2>10, <1>1 DEF PingsOK
        <2>12. /\ IsFiniteSet(f[n])
               /\ Cardinality(f[n]) = Cardinality(s.pings[n]) + 1
            BY <2>5, <2>11, FS_AddElement
        <2>13. \A m \in Nodes : PingsOK(f[m], t.pktsSent)
            <3>1. PingsOK(f[n], t.pktsSent)
                BY <2>2, <2>4, <2>5, <2>9, <2>10, <2>12, <1>1 DEF PingsOK
            <3>2. \A m \in Nodes : m # n => PingsOK(f[m], t.pktsSent)
                BY <2>2, <2>5, <2>9, <2>10, <1>1 DEF PingsOK
            <3> QED  BY <3>1, <3>2
        <2>14. Shape(t)
            BY <2>2, <2>5, <2>7, <2>9, <2>13, Zenon DEF Shape, Only
        <2>15. Sending(t) /\ Flights(t)
            BY <2>2, <2>3, <2>7, Frame
        <2>16. Counted(t)
            BY <2>8, <1>1, Frame
        <2>17. Timers(t)
            <3> SUFFICES ASSUME NEW m \in Nodes \ s.starting
                         PROVE  TimerIn(t, s.events, m)
                BY <2>3, <2>9 DEF Timers
            <3>1. PICK i \in DOMAIN s.events : Timer(s, m, s.events[i])
                BY <1>1 DEF Timers, TimerIn
            <3> DEFINE e == s.events[i]
            <3>2. PICK k \in 0 .. nowMs(s) + PING_TIMEOUT_MS :
                    /\ e.time = k * MicrosPerMs
                    /\ \A p \in s.pings[m] : k <= p.timeSentMs + 2 * PING_TIMEOUT_MS
                BY <3>1, Zenon DEF Timer
            <3>3. k <= ping.timeSentMs + 2 * PING_TIMEOUT_MS
                BY <2>4, SimulatorConstants
            <3>4. \A p \in t.pings[m] : k <= p.timeSentMs + 2 * PING_TIMEOUT_MS
                BY <3>2, <3>3, <2>5, <2>7
            <3>5. nowMs(t) = nowMs(s)
                BY <2>3, <2>9 DEF nowMs
            <3>6. Timer(t, m, e)
                BY <3>1, <3>2, <3>4, <3>5, Zenon DEF Timer
            <3> QED  BY <3>6 DEF TimerIn
        <2>18. Replies(t)
            <3> SUFFICES ASSUME NEW m \in Nodes  PROVE  Room(t, m, Pending(t, m))
                BY DEF Replies
            <3>1. Room(s, m, 0)
                BY <1>1, NothingPending DEF Replies
            <3>2. Pending(t, m) = Pending(u, m)
                BY <2>9 DEF Pending
            <3>3. /\ Cardinality(FlightOf(s.events, m)) \in Nat
                  /\ Cardinality(s.pings[m]) \in Nat
                  /\ s.unexpected[m] \in Nat /\ s.timedOut[m] \in Nat /\ s.broadcast[m] \in Nat
                BY <1>1, RoomNumbers
            <3>4. \/ Pending(t, m) = 0 /\ Cardinality(f[m]) >= Cardinality(s.pings[m])
                  \/ Pending(t, m) = 1 /\ Cardinality(f[m]) = Cardinality(s.pings[m]) + 1
                BY <2>2, <2>5, <2>12, <3>2, <3>3
            <3>5. Cardinality(f[m]) \in Nat
                BY <2>5, <2>12, <3>3
            <3> QED  BY <3>1, <3>3, <3>4, <3>5, <2>3, <2>7, <2>9 DEF Room
        <2> QED  BY <2>8, <2>14, <2>15, <2>16, <2>17, <2>18 DEF SimInv
    <1> QED  BY <1>2, <1>3

\* What a line asks for.
LEMMA Parsed ==
    ASSUME NEW cmd \in Lines, NEW x \in Int, NEW line, line = parseLine(cmd, x)
    PROVE  /\ line.op = "edge" => OptionsOK(line.options)
           /\ line.op = "defer" => line.till \in Int
PROOF
    <1>1. nothing.op = "none"
        BY DEF nothing
    <1>2. ASSUME parseEdge(cmd).op = "edge"
          PROVE  OptionsOK(parseEdge(cmd).options)
        <2>1. edgeWellFormed(cmd)
            BY <1>1, <1>2 DEF parseEdge
        <2>2. parseEdge(cmd).options = edgeOptions(cmd)
            BY <2>1 DEF parseEdge
        <2>3. edgeOptions(cmd).delay \in Nat /\ edgeOptions(cmd).bw \in Nat \ {0}
            BY <2>1, EdgeLines DEF Lines
        <2>4. edgeOptions(cmd).bt = option(cmd, 10, "bt", defaultOptions.bt)
            BY DEF edgeOptions
        <2>5. defaultOptions.bt = 250
            BY DEF defaultOptions
        <2>6. Len(cmd) > 10 /\ cmd[10] = "bt" => Numbers[cmd[11]] \in Int
            BY <2>1, ParserConstants DEF edgeWellFormed, isNumber
        <2>7. edgeOptions(cmd).bt \in Int
            BY <2>4, <2>5, <2>6 DEF option
        <2> QED  BY <2>2, <2>3, <2>7 DEF OptionsOK
    <1>3. parseEdge(cmd).op # "defer"
        BY <1>1 DEF parseEdge
    <1>4. parseFailOrRestart(cmd).op \notin {"edge", "defer"}
        BY <1>1 DEF parseFailOrRestart
    <1>5. /\ parseTime(cmd, x).op # "edge"
          /\ parseTime(cmd, x).op = "defer" => parseTime(cmd, x).till \in Int
        <2>1. \A i : isNumber(cmd, i) => Numbers[cmd[i]] * MicrosPerMs \in Int
            BY ParserConstants DEF isNumber
        <2>2. parseTime(cmd, x) \in {nothing,
                [op |-> "defer", till |-> x + Numbers[cmd[3]] * MicrosPerMs],
                [op |-> "defer", till |-> Numbers[cmd[2]] * MicrosPerMs]}
            BY Zenon DEF parseTime
        <2>3. CASE parseTime(cmd, x) = nothing
            BY <2>3, <1>1
        <2>4. CASE isNumber(cmd, 3) /\ parseTime(cmd, x) =
                    [op |-> "defer", till |-> x + Numbers[cmd[3]] * MicrosPerMs]
            BY <2>1, <2>4
        <2>5. CASE isNumber(cmd, 2) /\ parseTime(cmd, x) =
                    [op |-> "defer", till |-> Numbers[cmd[2]] * MicrosPerMs]
            BY <2>1, <2>5
        <2> QED  BY <2>3, <2>4, <2>5, Zenon DEF parseTime
    <1>6. parseNodeCmd(cmd).op \notin {"edge", "defer"}
        BY <1>1 DEF parseNodeCmd
    <1>7. line \in {nothing, [op |-> "exit"], parseEdge(cmd), parseFailOrRestart(cmd),
                    parseTime(cmd, x), parseNodeCmd(cmd)}
        BY Zenon DEF parseLine
    <1>8. CASE line = nothing
        BY <1>1, <1>8
    <1>9. CASE line = [op |-> "exit"]
        BY <1>9
    <1>10. CASE line = parseEdge(cmd)
        BY <1>2, <1>3, <1>10
    <1>11. CASE line = parseFailOrRestart(cmd)
        BY <1>4, <1>11
    <1>12. CASE line = parseTime(cmd, x)
        BY <1>5, <1>12
    <1>13. CASE line = parseNodeCmd(cmd)
        BY <1>6, <1>13
    <1> QED  BY <1>7, <1>8, <1>9, <1>10, <1>11, <1>12, <1>13

\* A line that is executed, when nothing is being sent.
LEMMA ExecuteKeeps ==
    ASSUME NEW s, SimInv(s), s.sending = {}, NEW cmd \in Lines, NEW x \in Int,
           NEW line, line = parseLine(cmd, x), NEW t, t = execute(s, line)
    PROVE  SimInv(t) /\ t.now = s.now /\ t.starting = s.starting
PROOF
    <1>1. Fields \subseteq DOMAIN s
        BY DEF SimInv, Shape
    <1>2. ASSUME Only(s, t, {"edges", "failedNodes", "changed"})
          PROVE  t.now = s.now /\ t.starting = s.starting
        BY <1>1, <1>2 DEF Only, Fields
    <1>3. CASE line.op = "edge"
        <2>1. t = newEdge([s EXCEPT !.changed = @ \cup ({{line.a, line.b}} \cap DOMAIN s.edges)],
                          line.a, line.b, line.options)
            BY <1>3 DEF execute
        <2>2. OptionsOK(line.options)
            BY <1>3, Parsed
        <2>3. SimInv(t) /\ Only(s, t, {"edges", "failedNodes", "changed"})
            BY <2>1, <2>2, NewEdgeKeeps
        <2> QED  BY <2>3, <1>2
    <1>4. CASE line.op = "changeEdge"
        <2>1. t = changeEdge(s, {line.a, line.b}, line.live)
            BY <1>4 DEF execute
        <2> QED  BY <2>1, <1>2, ChangeEdgeKeeps
    <1>5. CASE line.op = "changeNode"
        <2>1. t = changeNode(s, line.a, line.live)
            BY <1>5 DEF execute
        <2> QED  BY <2>1, <1>2, ChangeNodeKeeps
    <1>6. CASE line.op = "node"
        <2>1. t = sendNodeMsg(s, line.node, line.args)
            BY <1>6 DEF execute
        <2>2. CASE t = s
            BY <2>2
        <2>3. CASE line.node \in Nodes /\ t = matchPingCommand(s, line.node, line.args)
            <3>1. SimInv(t) /\ Only(s, t, {"pktsSent", "sending", "pings"})
                BY <2>3, PingKeeps
            <3> QED  BY <3>1, <1>1 DEF Only, Fields
        <2> QED  BY <2>1, <2>2, <2>3, Zenon DEF sendNodeMsg
    <1>7. CASE line.op \notin {"edge", "changeEdge", "changeNode", "node"}
        <2>1. t = s
            BY <1>7 DEF execute
        <2> QED  BY <2>1
    <1> QED  BY <1>3, <1>4, <1>5, <1>6, <1>7

-----------------------------------------------------------------------------
(* A copy is given to its edge. *)

\* The copy has been taken from what is to be sent, and is not in the queue: it is
\* the latest packet of its link, and there is room for it.
Handed(s, copy) ==
    /\ Shape(s) /\ Sending(s) /\ Flights(s) /\ Timers(s)
    /\ s.given = s.arrived + Cardinality(Flight(s.events)) + s.pktsDropped + s.pktsLost + 1
    /\ \A n \in Nodes : Pending(s, n) = 0 /\ Room(s, n, IF Mine(copy, n) THEN 1 ELSE 0)
    /\ CopyOK(copy) /\ {copy.from, copy.to} \in DOMAIN s.edges
    /\ copy.pkt.no = s.pktsSent
    /\ s.last[<<copy.from, copy.to>>] < s.pktsSent
    /\ \A c \in s.sending : ~(c.from = copy.from /\ c.to = copy.to)
    /\ \A i \in Flight(s.events) :
        LET w == s.events[i].what
        IN  w.from = copy.from /\ w.to = copy.to => w.pkt.no < s.pktsSent

LEMMA CopyHanded ==
    ASSUME NEW s, SimInv(s), NEW copy \in s.sending, NEW t,
           t = [s EXCEPT !.sending = @ \ {copy}, !.given = @ + 1,
                         !.broadcast[copy.from] =
                            IF copy.pkt.dest = BROADCAST_ADDRESS THEN @ + 1 ELSE @]
    PROVE  Handed(t, copy) /\ Only(s, t, {"sending", "given", "broadcast"})
PROOF
    <1> DEFINE from == copy.from
               b == [s.broadcast EXCEPT ![from] =
                        IF copy.pkt.dest = BROADCAST_ADDRESS THEN @ + 1 ELSE @]
    <1>1. /\ Shape(s) /\ Fields \subseteq DOMAIN s /\ Sending(s) /\ Flights(s)
          /\ Counted(s) /\ Timers(s) /\ Replies(s)
          /\ s.given \in Nat /\ s.broadcast \in [Nodes -> Nat]
        BY DEF SimInv, Shape
    <1>2. /\ CopyOK(copy) /\ {copy.from, copy.to} \in DOMAIN s.edges
          /\ copy.pkt.no = s.pktsSent
          /\ s.last[<<copy.from, copy.to>>] < s.pktsSent
          /\ copy.pkt.dest # BROADCAST_ADDRESS => s.sending = {copy}
          /\ copy.pkt.dest = BROADCAST_ADDRESS => copy.pkt.protocol = "PING_PKT"
        BY <1>1, Zenon DEF Sending
    <1>3. from \in Nodes
        BY <1>2 DEF CopyOK
    <1>4. /\ b \in [Nodes -> Nat]
          /\ \A n \in Nodes : b[n] >= s.broadcast[n]
          /\ copy.pkt.dest = BROADCAST_ADDRESS => b[from] = s.broadcast[from] + 1
        BY <1>1, <1>3
    <1>5. t = [s EXCEPT !.sending = s.sending \ {copy}, !.given = s.given + 1, !.broadcast = b]
        BY <1>1 DEF Fields
    <1> HIDE DEF b
    <1>6. /\ Only(s, t, {"sending", "given", "broadcast"})
          /\ t.sending = s.sending \ {copy} /\ t.given = s.given + 1 /\ t.broadcast = b
        BY <1>1, <1>5 DEF Only, Fields
    <1>7. /\ t.events = s.events /\ t.starting = s.starting /\ t.edges = s.edges
          /\ t.now = s.now /\ t.allToAll = s.allToAll /\ t.pings = s.pings
          /\ t.pktsSent = s.pktsSent
          /\ t.pktsDropped = s.pktsDropped /\ t.pktsLost = s.pktsLost
          /\ t.arrived = s.arrived /\ t.unexpected = s.unexpected
          /\ t.timedOut = s.timedOut /\ t.last = s.last /\ t.changed = s.changed
        BY <1>1, <1>6 DEF Only, Fields
    <1>8. Shape(t)
        <2>1. t.given \in Nat
            BY <1>1, <1>6
        <2> QED  BY <2>1, <1>1, <1>4, <1>6, <1>7, Zenon DEF Shape, Only
    <1>9. Timers(t)
        BY <1>1, <1>6, Frame
    <1>10. Sending(t)
        BY <1>1, <1>6, <1>7, Zenon DEF Sending
    <1>11. Flights(t)
        <2>1. \A e : /\ Sent(s, e) => Sent(t, e)
                     /\ OnTime(s, e) => OnTime(t, e)
            BY <1>6, <1>7, Zenon DEF Sent, OnTime
        <2>2. \A w, v : Ordered(s, w, v) => Ordered(t, w, v)
            BY <1>7, Zenon DEF Ordered
        <2> QED  BY <1>1, <1>7, <2>1, <2>2, Zenon DEF Flights, FlightsOf
    <1>12. t.given = t.arrived + Cardinality(Flight(t.events)) + t.pktsDropped + t.pktsLost + 1
        <2> DEFINE k == Cardinality(Flight(s.events))
        <2>1. k \in Nat
            BY <1>1, <1>3, RoomNumbers
        <2>2. s.given = s.arrived + k + s.pktsDropped + s.pktsLost
            BY <1>1 DEF Counted
        <2> HIDE DEF k
        <2>3. s.given + 1 = s.arrived + k + s.pktsDropped + s.pktsLost + 1
            BY <2>1, <2>2, <1>1 DEF Shape
        <2> QED  BY <2>3, <1>6, <1>7 DEF k
    <1>13. \A c \in t.sending : ~(c.from = copy.from /\ c.to = copy.to)
        BY <1>1, <1>6, Zenon DEF Sending
    <1>14. \A i \in Flight(t.events) :
            LET w == t.events[i].what
            IN  w.from = copy.from /\ w.to = copy.to => w.pkt.no < t.pktsSent
        BY <1>1, <1>7, Zenon DEF Flights, FlightsOf, Sent
    <1>15. ASSUME NEW n \in Nodes
           PROVE  Pending(t, n) = 0 /\ Room(t, n, IF Mine(copy, n) THEN 1 ELSE 0)
        <2>1. Room(s, n, Pending(s, n))
            BY <1>1 DEF Replies
        <2>2. /\ Cardinality(FlightOf(s.events, n)) \in Nat
              /\ Cardinality(s.pings[n]) \in Nat
              /\ s.unexpected[n] \in Nat /\ s.timedOut[n] \in Nat
              /\ s.broadcast[n] \in Nat /\ b[n] \in Nat
            BY <1>1, <1>4, RoomNumbers
        <2>3. CASE copy.pkt.dest # BROADCAST_ADDRESS
            <3>1. t.sending = {} /\ s.sending = {copy}
                BY <2>3, <1>2, <1>6
            <3>2. Pending(t, n) = 0
                BY <3>1, NothingPending
            <3>3. Pending(s, n) = IF Mine(copy, n) THEN 1 ELSE 0
                BY <3>1, <2>3 DEF Pending
            <3> QED  BY <2>1, <2>2, <3>2, <3>3, <1>4, <1>6, <1>7 DEF Room
        <2>4. CASE copy.pkt.dest = BROADCAST_ADDRESS
            <3>1. \A c \in s.sending : c.pkt.dest = BROADCAST_ADDRESS
                BY <2>4, <1>1, Zenon DEF Sending
            <3>2. Pending(t, n) = 0 /\ Pending(s, n) = 0
                BY <3>1, <1>6 DEF Pending
            <3>3. Mine(copy, n) => n = from
                BY <2>4, <1>2 DEF Mine
            <3>4. Mine(copy, n) => b[n] = s.broadcast[n] + 1
                BY <3>3, <2>4, <1>4
            <3> QED  BY <2>1, <2>2, <3>2, <3>4, <1>4, <1>6, <1>7 DEF Room
        <2> QED  BY <2>3, <2>4
    <1>16. /\ {copy.from, copy.to} \in DOMAIN t.edges /\ copy.pkt.no = t.pktsSent
           /\ t.last[<<copy.from, copy.to>>] < t.pktsSent
        BY <1>2, <1>7
    <1>17. Handed(t, copy)
        BY <1>2, <1>8, <1>9, <1>10, <1>11, <1>12, <1>13, <1>14, <1>15, <1>16, Zenon DEF Handed
    <1> QED  BY <1>6, <1>17

\* Less room is needed for what does not get on its way.
LEMMA RoomLeft ==
    ASSUME NEW s, NEW copy, Handed(s, copy)
    PROVE  Replies(s)
PROOF
    <1> SUFFICES ASSUME NEW n \in Nodes  PROVE  Room(s, n, Pending(s, n))
        BY DEF Replies
    <1>1. Pending(s, n) = 0 /\ Room(s, n, IF Mine(copy, n) THEN 1 ELSE 0) /\ Shape(s)
        BY DEF Handed
    <1>2. /\ Cardinality(FlightOf(s.events, n)) \in Nat
          /\ Cardinality(s.pings[n]) \in Nat
          /\ s.unexpected[n] \in Nat /\ s.timedOut[n] \in Nat /\ s.broadcast[n] \in Nat
        BY <1>1, RoomNumbers
    <1> QED  BY <1>1, <1>2 DEF Room

\* The edge drops the copy, or loses it.
LEMMA CopyGone ==
    ASSUME NEW s, NEW copy, Handed(s, copy), NEW t,
           \/ t = [s EXCEPT !.pktsDropped = @ + 1]
           \/ t = [s EXCEPT !.pktsLost = @ + 1]
    PROVE  SimInv(t) /\ t.now = s.now /\ t.starting = s.starting
PROOF
    <1>1. /\ Shape(s) /\ Fields \subseteq DOMAIN s /\ Sending(s) /\ Flights(s) /\ Timers(s)
          /\ s.given = s.arrived + Cardinality(Flight(s.events)) + s.pktsDropped + s.pktsLost + 1
          /\ s.pktsDropped \in Nat /\ s.pktsLost \in Nat /\ s.arrived \in Nat
        BY DEF Handed, Shape
    <1>2. Only(s, t, {"pktsDropped", "pktsLost"})
        BY <1>1 DEF Only, Fields
    <1>3. /\ t.pktsDropped \in Nat /\ t.pktsLost \in Nat
          /\ t.pktsDropped + t.pktsLost = s.pktsDropped + s.pktsLost + 1
        BY <1>1 DEF Fields
    <1>4. /\ t.events = s.events /\ t.starting = s.starting /\ t.edges = s.edges
          /\ t.now = s.now /\ t.allToAll = s.allToAll /\ t.pings = s.pings
          /\ t.pktsSent = s.pktsSent /\ t.given = s.given
          /\ t.arrived = s.arrived /\ t.unexpected = s.unexpected
          /\ t.broadcast = s.broadcast
          /\ t.timedOut = s.timedOut /\ t.last = s.last /\ t.changed = s.changed
        BY <1>1, <1>2 DEF Only, Fields
    <1>5. Shape(t)
        BY <1>1, <1>2, <1>3, <1>4, Zenon DEF Shape, Only
    <1>6. Sending(t) /\ Flights(t) /\ Timers(t) /\ Replies(t)
        BY <1>1, <1>2, RoomLeft, Frame
    <1>7. Counted(t)
        <2> DEFINE k == Cardinality(Flight(s.events))
        <2>1. PICK n \in Nodes : n = copy.from
            BY DEF Handed, CopyOK
        <2>2. k \in Nat
            BY <1>1, <2>1, RoomNumbers
        <2> HIDE DEF k
        <2>3. t.given = t.arrived + k + t.pktsDropped + t.pktsLost
            BY <1>1, <1>3, <1>4, <2>2 DEF k
        <2> QED  BY <2>3, <1>4 DEF Counted, k
    <1> QED  BY <1>4, <1>5, <1>6, <1>7 DEF SimInv

\* The edge sends the copy: whatever it takes next is sent later.
LEMMA EdgeBusy ==
    ASSUME NEW s, NEW copy, Handed(s, copy), NEW ends, ends = {copy.from, copy.to},
           NEW finish, finish = finishTime(s, copy.from, s.edges[ends]),
           ~overflows(s, copy.from, s.edges[ends]),
           NEW t, t = [s EXCEPT !.edges[ends].nextSendTime[copy.from] = finish]
    PROVE  /\ Handed(t, copy) /\ Only(s, t, {"edges"})
           /\ t.edges[ends].nextSendTime[copy.from] - t.now
                <= t.edges[ends].options.bt * MicrosPerMs
PROOF
    <1> DEFINE from == copy.from
               edge == s.edges[ends]
               times == [edge.nextSendTime EXCEPT ![from] = finish]
               new == [edge EXCEPT !.nextSendTime = times]
               f == [s.edges EXCEPT ![ends] = new]
    <1>1. /\ Shape(s) /\ Fields \subseteq DOMAIN s /\ s.now \in Nat
          /\ Sending(s) /\ Flights(s) /\ Timers(s)
          /\ ends \in DOMAIN s.edges /\ from \in ends
        BY DEF Handed, Shape
    <1>2. EdgeOK(ends, edge) /\ \A e \in DOMAIN s.edges : EdgeOK(e, s.edges[e])
        BY <1>1 DEF Shape
    <1>3. edge.nextSendTime[from] \in Nat
        BY <1>1, <1>2 DEF EdgeOK
    <1>4. transmitTime(edge.options) \in Nat
        <2> DEFINE size == PktSize * 1000 * MicrosPerMs
                   bw == edge.options.bw
        <2>1. size \in Nat
            BY SimulatorConstants, ParserConstants
        <2>2. bw \in Nat \ {0}
            BY <1>2 DEF EdgeOK, OptionsOK
        <2>3. transmitTime(edge.options) = size \div bw
            BY DEF transmitTime
        <2> HIDE DEF size, bw
        <2>4. size \div bw \in Nat
            BY <2>1, <2>2, Quotient
        <2> QED  BY <2>3, <2>4
    <1>5. finish \in Nat /\ edge.nextSendTime[from] <= finish
        <2> DEFINE m == Max({s.now, edge.nextSendTime[from]})
        <2>1. m \in {s.now, edge.nextSendTime[from]} /\ edge.nextSendTime[from] <= m
            <3> DEFINE a == s.now
                       b == edge.nextSendTime[from]
            <3>1. a \in Int /\ b \in Int
                BY <1>1, <1>3
            <3> HIDE DEF a, b
            <3>2. Max({a, b}) \in {a, b} /\ b <= Max({a, b})
                BY <3>1, Larger
            <3> QED  BY <3>2 DEF a, b
        <2>2. finish = m + transmitTime(edge.options)
            BY DEF finishTime
        <2> HIDE DEF m
        <2> QED  BY <2>1, <2>2, <1>1, <1>3, <1>4
    <1>6. finish - s.now <= edge.options.bt * MicrosPerMs
        <2> DEFINE room == edge.options.bt * MicrosPerMs
        <2>1. ~(finish - s.now > room)
            BY DEF overflows
        <2>2. room \in Int
            <3>1. edge.options.bt \in Int /\ MicrosPerMs \in Int
                BY <1>2, ParserConstants DEF EdgeOK, OptionsOK
            <3> HIDE DEF edge
            <3> QED  BY <3>1
        <2> HIDE DEF room
        <2>3. finish - s.now <= room
            BY <2>1, <2>2, <1>1, <1>5
        <2> QED  BY <2>3 DEF room
    <1>7. t = [s EXCEPT !.edges = f]
        BY <1>1 DEF Fields
    <1>8. /\ times \in [ends -> Nat] /\ times[from] = finish
          /\ \A n \in ends : edge.nextSendTime[n] <= times[n]
        <2> DEFINE old == edge.nextSendTime
        <2>1. old \in [ends -> Nat] /\ from \in ends /\ finish \in Nat /\ old[from] <= finish
            BY <1>1, <1>2, <1>5 DEF EdgeOK
        <2>2. times = [old EXCEPT ![from] = finish]
            OBVIOUS
        <2> HIDE DEF old, times, from
        <2>3. \A n \in ends : old[n] \in Nat /\ old[n] <= times[n]
            BY <2>1, <2>2
        <2>4. times \in [ends -> Nat] /\ times[from] = finish
            BY <2>1, <2>2
        <2> QED  BY <2>3, <2>4 DEF old
    <1> HIDE DEF times
    <1>9. /\ EdgeOK(ends, new) /\ new.options = edge.options /\ new.nextSendTime = times
        BY <1>2, <1>8 DEF EdgeOK
    <1> HIDE DEF new
    <1>10. /\ DOMAIN f = DOMAIN s.edges /\ f[ends] = new
           /\ \A e \in DOMAIN s.edges : e # ends => f[e] = s.edges[e]
        BY <1>1
    <1> HIDE DEF f
    <1>11. Only(s, t, {"edges"}) /\ t.edges = f
        BY <1>1, <1>7 DEF Only, Fields
    <1>12. /\ t.events = s.events /\ t.starting = s.starting /\ t.sending = s.sending
           /\ t.now = s.now /\ t.allToAll = s.allToAll /\ t.pings = s.pings
           /\ t.pktsSent = s.pktsSent /\ t.given = s.given
           /\ t.pktsDropped = s.pktsDropped /\ t.pktsLost = s.pktsLost
           /\ t.arrived = s.arrived /\ t.unexpected = s.unexpected
           /\ t.broadcast = s.broadcast
           /\ t.timedOut = s.timedOut /\ t.last = s.last /\ t.changed = s.changed
        BY <1>1, <1>11 DEF Only, Fields
    <1>13. \A e \in DOMAIN f : EdgeOK(e, f[e])
        BY <1>2, <1>9, <1>10, Zenon
    <1>14. Shape(t)
        BY <1>1, <1>11, <1>12, <1>13, Zenon DEF Shape, Only
    <1>15. ASSUME NEW e, EventOK(e), e.what.type = "pkt", Sent(s, e), OnTime(s, e)
           PROVE  Sent(t, e) /\ OnTime(t, e)
        <2> DEFINE w == e.what
                   k == {w.from, w.to}
                   late == s.edges[k].options.delay * MicrosPerMs
        <2>1. k \in DOMAIN s.edges /\ e.time \in Nat
            BY <1>15 DEF Sent, EventOK
        <2>2. Sent(t, e)
            BY <1>15, <1>10, <1>11, <1>12, Zenon DEF Sent
        <2>3. EdgeOK(k, s.edges[k])
            BY <2>1, <1>2
        <2>4. /\ f[k].options = s.edges[k].options
              /\ f[k].nextSendTime[w.from] \in Nat
              /\ s.edges[k].nextSendTime[w.from] \in Nat
              /\ s.edges[k].nextSendTime[w.from] <= f[k].nextSendTime[w.from]
            <3>1. CASE k = ends
                <4>1. w.from \in ends
                    BY <3>1
                <4> QED  BY <4>1, <3>1, <1>8, <1>9, <1>10, <1>2 DEF EdgeOK
            <3>2. CASE k # ends
                <4>1. f[k] = s.edges[k]
                    BY <3>2, <2>1, <1>10
                <4> QED  BY <4>1, <2>3 DEF EdgeOK
            <3> QED  BY <3>1, <3>2
        <2>5. late \in Int
            <3>1. s.edges[k].options.delay \in Int /\ MicrosPerMs \in Int
                BY <2>3, ParserConstants DEF EdgeOK, OptionsOK
            <3> HIDE DEF k
            <3> QED  BY <3>1
        <2>6. ASSUME k \notin s.changed
              PROVE  e.time <= f[k].nextSendTime[w.from] + late
            <3>1. e.time <= s.edges[k].nextSendTime[w.from] + late
                BY <2>6, <1>15 DEF OnTime
            <3> HIDE DEF late, k
            <3> QED  BY <3>1, <2>1, <2>4, <2>5
        <2>7. OnTime(t, e)
            BY <1>15, <1>11, <1>12, <2>4, <2>6, Zenon DEF OnTime
        <2> QED  BY <2>2, <2>7
    <1>16. \A i \in Flight(s.events) : EventOK(s.events[i]) /\ s.events[i].what.type = "pkt"
        BY <1>1, ListedDomain DEF Shape, QueueOK, Flight
    <1>17. Flights(t)
        <2>1. \A w, v : Ordered(s, w, v) => Ordered(t, w, v)
            BY <1>12, Zenon DEF Ordered
        <2> QED  BY <1>1, <1>12, <1>15, <1>16, <2>1, Zenon DEF Flights, FlightsOf
    <1>18. Timers(t)
        BY <1>1, <1>11, Frame
    <1>19. Sending(t)
        BY <1>1, <1>10, <1>11, <1>12, Zenon DEF Sending
    <1>20. ASSUME NEW n \in Nodes
           PROVE  Pending(t, n) = 0 /\ Room(t, n, IF Mine(copy, n) THEN 1 ELSE 0)
        BY <1>12, Zenon DEF Handed, Pending, Room
    <1>21. Handed(t, copy)
        BY <1>10, <1>11, <1>12, <1>14, <1>17, <1>18, <1>19, <1>20, Zenon DEF Handed
    <1>22. /\ t.edges[ends].nextSendTime[from] = finish
           /\ t.edges[ends].options = edge.options
        BY <1>8, <1>9, <1>10, <1>11
    <1> QED  BY <1>6, <1>11, <1>12, <1>21, <1>22

\* The delivery goes into the queue, behind what else is on its way over the link.
LEMMA CopyArrives ==
    ASSUME NEW s, NEW copy, Handed(s, copy), NEW edge, edge = s.edges[{copy.from, copy.to}],
           edge.nextSendTime[copy.from] - s.now <= edge.options.bt * MicrosPerMs,
           NEW t, t = arrival(s, copy)
    PROVE  SimInv(t) /\ Only(s, t, {"events"})
PROOF
    <1> DEFINE time == edge.nextSendTime[copy.from] + edge.options.delay * MicrosPerMs
               what == [type |-> "pkt", from |-> copy.from, to |-> copy.to, pkt |-> copy.pkt]
               e == [time |-> time, what |-> what]
               q == s.events
               r == addEvent(q, e)
               k == {copy.from, copy.to}
    <1>1. /\ Shape(s) /\ Fields \subseteq DOMAIN s /\ s.now \in Nat /\ s.pktsSent \in Nat
          /\ Sending(s) /\ Flights(s) /\ Timers(s) /\ QueueOK(q)
          /\ CopyOK(copy) /\ k \in DOMAIN s.edges
        BY DEF Handed, Shape
    <1>2. /\ EdgeOK(k, edge) /\ edge.nextSendTime[copy.from] \in Nat
          /\ edge.options.delay \in Nat /\ edge.options.bt \in Int
          /\ MicrosPerMs \in Nat
        BY <1>1, ParserConstants DEF Shape, EdgeOK, OptionsOK
    <1>3. /\ time \in Nat
          /\ time - s.now <= (edge.options.bt + edge.options.delay) * MicrosPerMs
        <2> DEFINE late == edge.options.delay * MicrosPerMs
                   room == edge.options.bt * MicrosPerMs
                   sum == (edge.options.bt + edge.options.delay) * MicrosPerMs
        <2>1. late \in Nat /\ room \in Int /\ sum = room + late
            BY <1>2
        <2>2. edge.nextSendTime[copy.from] - s.now <= room
            OBVIOUS
        <2>3. time = edge.nextSendTime[copy.from] + late
            OBVIOUS
        <2> HIDE DEF late, room, sum, time
        <2>4. time \in Nat /\ time - s.now <= sum
            BY <2>1, <2>2, <2>3, <1>1, <1>2
        <2> QED  BY <2>4 DEF sum
    <1>4. /\ what.type = "pkt" /\ what.from = copy.from /\ what.to = copy.to
          /\ what.pkt = copy.pkt
        OBVIOUS
    <1>5. t = addEventAtMicros(s, time, what)
        BY DEF arrival
    <1> HIDE DEF what
    <1>6. e.time = time /\ e.what = what
        OBVIOUS
    <1>7. t = [s EXCEPT !.events = r]
        <2> HIDE DEF time
        <2> QED  BY <1>5, <1>3 DEF addEventAtMicros
    <1> HIDE DEF e
    <1>8. EventOK(e)
        <2> HIDE DEF time
        <2> QED  BY <1>1, <1>3, <1>4, <1>6 DEF EventOK, CopyOK
    <1>9. QueueOK(r) /\ \E p \in 1 .. Len(q) + 1 : Inserted(q, e, r, p)
        BY <1>1, <1>8, QueueAdd
    <1> HIDE DEF r
    <1>10. Only(s, t, {"events"}) /\ t.events = r
        BY <1>1, <1>7 DEF Only, Fields
    <1>11. /\ t.starting = s.starting /\ t.sending = s.sending /\ t.edges = s.edges
           /\ t.now = s.now /\ t.allToAll = s.allToAll /\ t.pings = s.pings
           /\ t.pktsSent = s.pktsSent /\ t.given = s.given
           /\ t.pktsDropped = s.pktsDropped /\ t.pktsLost = s.pktsLost
           /\ t.arrived = s.arrived /\ t.unexpected = s.unexpected
           /\ t.broadcast = s.broadcast
           /\ t.timedOut = s.timedOut /\ t.last = s.last /\ t.changed = s.changed
        BY <1>1, <1>10 DEF Only, Fields
    <1>12. Shape(t)
        BY <1>1, <1>9, <1>10, <1>11, Zenon DEF Shape, Only
    <1>13. Sending(t)
        BY <1>1, <1>10, Frame
    <1>14. PICK p \in 1 .. Len(q) + 1 : Inserted(q, e, r, p)
        BY <1>9
    <1>15. Shifted(q, e, r, p) /\ Listed(q) /\ Listed(r)
        BY <1>1, <1>9, <1>14, InsertedShifts DEF QueueOK
    <1>16. Placed(q, e, r, p)
        BY <1>15, Positions
    <1>17. /\ Cardinality(Flight(q)) \in Nat
           /\ Cardinality(Flight(r)) = Cardinality(Flight(q)) + 1
        BY <1>15, <1>4, <1>6, FlightCounts
    <1>18. Counted(t)
        <2> DEFINE x == Cardinality(Flight(q))
        <2>1. s.given = s.arrived + x + s.pktsDropped + s.pktsLost + 1
            BY DEF Handed
        <2>2. /\ s.arrived \in Nat /\ s.pktsDropped \in Nat /\ s.pktsLost \in Nat
              /\ x \in Nat
            BY <1>1, <1>17 DEF Shape
        <2>3. Cardinality(Flight(r)) = x + 1
            BY <1>17
        <2> HIDE DEF x
        <2>4. s.given = s.arrived + (x + 1) + s.pktsDropped + s.pktsLost
            BY <2>1, <2>2
        <2> QED  BY <2>3, <2>4, <1>10, <1>11 DEF Counted
    <1>19. Replies(t)
        <2> SUFFICES ASSUME NEW n \in Nodes  PROVE  Room(t, n, Pending(t, n))
            BY DEF Replies
        <2>1. Pending(s, n) = 0 /\ Room(s, n, IF Mine(copy, n) THEN 1 ELSE 0)
            BY DEF Handed
        <2>2. Pending(t, n) = 0
            BY <2>1, <1>11 DEF Pending
        <2>3. Mine(what, n) <=> Mine(copy, n)
            BY <1>4 DEF Mine
        <2>4. /\ Cardinality(FlightOf(q, n)) \in Nat
              /\ Cardinality(FlightOf(r, n)) =
                    Cardinality(FlightOf(q, n)) + (IF Mine(copy, n) THEN 1 ELSE 0)
            BY <1>15, <1>4, <1>6, <2>3, FlightCounts
        <2>5. /\ Cardinality(s.pings[n]) \in Nat
              /\ s.unexpected[n] \in Nat /\ s.timedOut[n] \in Nat /\ s.broadcast[n] \in Nat
            BY <1>1, RoomNumbers
        <2> QED  BY <2>1, <2>2, <2>4, <2>5, <1>10, <1>11 DEF Room
    <1>20. Timers(t)
        <2> SUFFICES ASSUME NEW n \in Nodes \ s.starting  PROVE  TimerIn(t, r, n)
            BY <1>10, <1>11 DEF Timers
        <2>1. TimerIn(s, q, n)
            BY <1>1 DEF Timers
        <2>2. TimerIn(s, r, n)
            BY <2>1, <1>15, TimerStays
        <2>3. s.now <= t.now /\ t.pings[n] \subseteq s.pings[n] /\ t.now \in Nat
            BY <1>1, <1>11
        <2> QED  BY <2>2, <2>3, <1>1, TimerAt
    <1>21. FlightsOf(t, q)
        <2>1. FlightsOf(s, q)
            BY <1>1 DEF Flights
        <2> QED  BY <2>1, <1>11, FlightsAt
    <1>22. Sent(t, e) /\ OnTime(t, e)
        <2>1. copy.pkt.no = s.pktsSent /\ s.last[<<copy.from, copy.to>>] < s.pktsSent
            BY DEF Handed
        <2>2. \A c \in s.sending : ~(c.from = copy.from /\ c.to = copy.to)
            BY DEF Handed
        <2>3. copy.pkt.no <= t.pktsSent
            BY <2>1, <1>1, <1>11
        <2>4. Sent(t, e)
            BY <2>2, <2>3, <1>1, <1>4, <1>6, <1>11, Zenon DEF Sent
        <2>5. time <= time
            <3> HIDE DEF time
            <3> QED  BY <1>3
        <2>6. OnTime(t, e)
            BY <2>1, <2>5, <1>3, <1>4, <1>6, <1>11, Zenon DEF OnTime
        <2> QED  BY <2>4, <2>6
    <1> HIDE DEF time
    <1>23. \A i \in Flight(q) : EventOK(q[i]) /\ q[i].what.type = "pkt"
        BY <1>1, ListedDomain DEF QueueOK, Flight
    <1>24. \A i \in Flight(r) : i \in DOMAIN r /\ r[i].what.type = "pkt"
        BY Zenon DEF Flight
    <1>25. ASSUME NEW i \in Flight(r), i # p
           PROVE  \E j \in Flight(q) : q[j] = r[i]
        <2>1. PICK j \in DOMAIN q : q[j] = r[i]
            BY <1>16, <1>24, <1>25, Zenon DEF Placed
        <2> QED  BY <2>1, <1>24, Zenon DEF Flight
    <1>26. r[p] = e
        BY <1>16, Zenon DEF Placed
    <1>27. ASSUME NEW i \in Flight(r)
           PROVE  Sent(t, r[i]) /\ OnTime(t, r[i])
        <2>1. CASE i = p
            BY <2>1, <1>22, <1>26, Zenon
        <2>2. CASE i # p
            BY <2>2, <1>21, <1>25, Zenon DEF FlightsOf
        <2> QED  BY <2>1, <2>2
    <1>28. ASSUME NEW i \in Flight(r), NEW j \in Flight(r), i < j
           PROVE  Ordered(t, r[i].what, r[j].what)
        <2>1. CASE i # p /\ j # p
            <3>1. i \in DOMAIN r \ {p} /\ j \in DOMAIN r \ {p}
                BY <2>1, <1>24
            <3>2. PICK x, y \in DOMAIN q : x < y /\ q[x] = r[i] /\ q[y] = r[j]
                BY <3>1, <1>16, <1>28 DEF Placed
            <3>3. x \in Flight(q) /\ y \in Flight(q)
                BY <3>2, <1>24, Zenon DEF Flight
            <3> QED  BY <3>2, <3>3, <1>21, Zenon DEF FlightsOf
        <2>2. CASE j = p
            <3>1. i # p
                BY <2>2, <1>28, <1>24, <1>15, ListedDomain
            <3>2. PICK x \in Flight(q) : q[x] = r[i]
                BY <3>1, <1>25
            <3>3. q[x].what.from = copy.from /\ q[x].what.to = copy.to =>
                    q[x].what.pkt.no < s.pktsSent
                BY DEF Handed
            <3>4. copy.pkt.no = s.pktsSent
                BY DEF Handed
            <3> QED  BY <3>2, <3>3, <3>4, <2>2, <1>4, <1>6, <1>26, Zenon DEF Ordered
        <2>3. CASE i = p
            <3>1. j \in p + 1 .. Len(q) + 1 /\ Len(q) \in Nat
                BY <2>3, <1>28, <1>24, <1>15, ListedDomain DEF Shifted
            <3>2. j - 1 \in p .. Len(q) /\ (j - 1) + 1 = j
                BY <3>1
            <3>3. r[j] = q[j - 1] /\ e.time < q[j - 1].time
                BY <3>2, <1>14 DEF Inserted
            <3>4. j - 1 \in Flight(q)
                BY <3>2, <3>3, <1>24, <1>15, ListedDomain DEF Flight
            <3> DEFINE v == q[j - 1].what
            <3>5. OnTime(t, q[j - 1]) /\ EventOK(q[j - 1])
                BY <3>4, <1>21, <1>23, Zenon DEF FlightsOf
            <3>6. ASSUME v.from = copy.from, v.to = copy.to, k \notin t.changed
                  PROVE  FALSE
                <4>1. q[j - 1].time <= time
                    BY <3>5, <3>6, <1>11 DEF OnTime, time
                <4> QED  BY <4>1, <3>3, <3>5, <1>3, <1>6 DEF EventOK
            <3> QED  BY <3>3, <3>6, <2>3, <1>4, <1>6, <1>26, Zenon DEF Ordered
        <2> QED  BY <2>1, <2>2, <2>3
    <1>29. Flights(t)
        <2>1. \A link \in Links : t.last[link] <= t.pktsSent
            BY <1>1, <1>11 DEF Flights
        <2> QED  BY <2>1, <1>10, <1>27, <1>28, Zenon DEF Flights, FlightsOf
    <1> QED  BY <1>10, <1>12, <1>13, <1>18, <1>19, <1>20, <1>29 DEF SimInv

\* Simulator::sendPkt, one copy of it.
LEMMA CopyKeeps ==
    ASSUME NEW s, NEW copy, Handed(s, copy), NEW lost, NEW t, t = schedulePkt(s, copy, lost)
    PROVE  SimInv(t) /\ t.now = s.now /\ t.starting = s.starting
PROOF
    <1> DEFINE ends == {copy.from, copy.to}
               finish == finishTime(s, copy.from, s.edges[ends])
               u == [s EXCEPT !.edges[ends].nextSendTime[copy.from] = finish]
               full == overflows(s, copy.from, s.edges[ends])
    <1>1. \/ full /\ t = [s EXCEPT !.pktsDropped = @ + 1]
          \/ ~full /\ lost /\ t = [u EXCEPT !.pktsLost = @ + 1]
          \/ ~full /\ t = arrival(u, copy)
        BY Zenon DEF schedulePkt
    <1>2. CASE full /\ t = [s EXCEPT !.pktsDropped = @ + 1]
        BY <1>2, CopyGone
    <1>3. ASSUME ~full
          PROVE  /\ Handed(u, copy) /\ Only(s, u, {"edges"})
                 /\ u.edges[ends].nextSendTime[copy.from] - u.now
                        <= u.edges[ends].options.bt * MicrosPerMs
        <2>1. u = [s EXCEPT !.edges[ends].nextSendTime[copy.from] = finish]
            OBVIOUS
        <2>2. ends = {copy.from, copy.to} /\ finish = finishTime(s, copy.from, s.edges[ends])
            OBVIOUS
        <2>3. ~overflows(s, copy.from, s.edges[ends])
            BY <1>3
        <2> HIDE DEF u, finish, ends, full
        <2> QED  BY <2>1, <2>2, <2>3, EdgeBusy
    <1> HIDE DEF u, full
    <1>4. ASSUME ~full  PROVE  u.now = s.now /\ u.starting = s.starting
        BY <1>3, <1>4 DEF Only, Handed, Shape, Fields
    <1>5. CASE ~full /\ t = [u EXCEPT !.pktsLost = @ + 1]
        <2>1. SimInv(t) /\ t.now = u.now /\ t.starting = u.starting
            BY <1>3, <1>5, CopyGone
        <2> QED  BY <2>1, <1>4, <1>5
    <1>6. CASE ~full /\ t = arrival(u, copy)
        <2>1. SimInv(t) /\ Only(u, t, {"events"})
            BY <1>3, <1>6, CopyArrives
        <2>2. t.now = u.now /\ t.starting = u.starting
            BY <2>1, <1>3, <1>6 DEF Only, Handed, Shape, Fields
        <2> QED  BY <2>1, <2>2, <1>4, <1>6
    <1> QED  BY <1>1, <1>2, <1>5, <1>6

-----------------------------------------------------------------------------
(* The first event is run. *)

\* An event that is no packet is taken out of the queue.
LEMMA EventTaken ==
    ASSUME NEW s, SimInv(s), s.events # <<>>, NEW what, what = s.events[1].what,
           what.type # "pkt", NEW t, Only(s, t, {"events"}), t.events = Tail(s.events)
    PROVE  /\ Shape(t) /\ Sending(t) /\ Flights(t) /\ Counted(t) /\ Replies(t)
           /\ \A n \in Nodes \ s.starting :
                ~(what.type = "pingTimedOut" /\ what.node = n) => TimerIn(t, t.events, n)
PROOF
    <1> DEFINE r == s.events
               q == Tail(r)
               e == r[1]
    <1>1. QueueOK(r) /\ Fields \subseteq DOMAIN s /\ s.now \in Nat
        BY DEF SimInv, Shape
    <1>2. QueueOK(q) /\ Shifted(q, e, r, 1) /\ Len(r) \in Nat
        BY <1>1, QueueTail
    <1>3. Listed(q) /\ Listed(r)
        BY <1>1, <1>2 DEF QueueOK
    <1>4. 1 \in 1 .. Len(q) + 1
        BY <1>3, ListedDomain
    <1> HIDE DEF q
    <1>5. Only(s, t, {"events"}) /\ t.events = q
        BY DEF q
    <1>6. /\ t.now = s.now /\ t.starting = s.starting /\ t.sending = s.sending
          /\ t.edges = s.edges /\ t.allToAll = s.allToAll
          /\ t.pings = s.pings /\ t.pktsSent = s.pktsSent
          /\ t.pktsDropped = s.pktsDropped /\ t.pktsLost = s.pktsLost
          /\ t.given = s.given /\ t.arrived = s.arrived
          /\ t.broadcast = s.broadcast /\ t.unexpected = s.unexpected
          /\ t.timedOut = s.timedOut /\ t.last = s.last /\ t.changed = s.changed
        BY <1>5, <1>1 DEF Only, Fields
    <1> HIDE DEF r
    <1>7. Shape(t)
        BY <1>2, <1>5, <1>6, Zenon DEF Shape, Only, SimInv
    <1>8. Sending(t)
        BY <1>1, <1>5, Frame DEF SimInv
    <1>9. Flights(t)
        <2>1. FlightsOf(s, r)
            BY Zenon DEF SimInv, Flights, r
        <2>2. FlightsOf(s, q)
            BY <2>1, <1>2, <1>3, <1>4, FlightsPass
        <2>3. FlightsOf(t, q)
            BY <2>2, <1>6, FlightsAt
        <2> QED  BY <2>3, <1>5, <1>6, Zenon DEF Flights, SimInv
    <1>10. e.what.type # "pkt" /\ e.what = what
        BY DEF r
    <1>11. /\ Cardinality(Flight(q)) \in Nat
           /\ Cardinality(Flight(r)) = Cardinality(Flight(q))
        BY <1>2, <1>3, <1>4, <1>10, FlightCounts
    <1>12. ASSUME NEW n
           PROVE  /\ Cardinality(FlightOf(q, n)) \in Nat
                  /\ Cardinality(FlightOf(r, n)) = Cardinality(FlightOf(q, n))
        BY <1>2, <1>3, <1>4, <1>10, FlightCounts
    <1>13. Counted(t)
        BY <1>5, <1>6, <1>11, Zenon DEF Counted, SimInv, r
    <1>14. Replies(t)
        BY <1>5, <1>6, <1>12, Zenon DEF Replies, Room, Pending, SimInv, r
    <1>15. ASSUME NEW n \in Nodes \ s.starting, ~(what.type = "pingTimedOut" /\ what.node = n)
           PROVE  TimerIn(t, t.events, n)
        <2>1. TimerIn(s, r, n)
            BY DEF SimInv, Timers, r
        <2>2. TimerIn(s, q, n)
            BY <2>1, <1>15, <1>2, <1>3, <1>4, <1>10, TimerStays
        <2>3. s.now <= t.now /\ t.pings[n] \subseteq s.pings[n]
            BY <1>1, <1>6
        <2>4. TimerIn(t, q, n)
            BY <2>2, <2>3, <1>1, <1>6, TimerAt
        <2> QED  BY <2>4, <1>5
    <1> QED  BY <1>5, <1>7, <1>8, <1>9, <1>13, <1>14, <1>15

\* A packet arrives: the ones of its link that are on their way were sent after it.
LEMMA PacketTaken ==
    ASSUME NEW s, SimInv(s), s.sending = {}, s.events # <<>>,
           NEW w, w = s.events[1].what, w.type = "pkt",
           NEW t, Only(s, t, {"events", "arrived", "last"}),
           t.events = Tail(s.events), t.arrived = s.arrived + 1,
           t.last = [s.last EXCEPT ![<<w.from, w.to>>] = w.pkt.no]
    PROVE  /\ CopyOK(w)
           /\ Shape(t) /\ Flights(t) /\ Counted(t) /\ Timers(t)
           /\ \A n \in Nodes : Room(t, n, IF Mine(w, n) THEN 1 ELSE 0)
PROOF
    <1> DEFINE r == s.events
               q == Tail(r)
               e == r[1]
               link == <<w.from, w.to>>
               f == [s.last EXCEPT ![link] = w.pkt.no]
    <1>1. /\ Shape(s) /\ QueueOK(r) /\ Fields \subseteq DOMAIN s /\ s.now \in Nat
          /\ s.last \in [Links -> Nat] /\ s.arrived \in Nat
        BY DEF SimInv, Shape
    <1>2. QueueOK(q) /\ Shifted(q, e, r, 1) /\ Len(r) \in Nat \ {0}
        BY <1>1, QueueTail
    <1>3. Listed(q) /\ Listed(r)
        BY <1>1, <1>2 DEF QueueOK
    <1>4. /\ 1 \in 1 .. Len(q) + 1 /\ 1 \in 1 .. Len(r)
          /\ Len(q) \in Nat /\ DOMAIN q = 1 .. Len(q) /\ DOMAIN r = 1 .. Len(r)
          /\ Len(r) = Len(q) + 1
        BY <1>2, <1>3, ListedDomain DEF Shifted
    <1>5. CopyOK(w)
        BY <1>1, <1>4 DEF QueueOK, EventOK
    <1>6. link \in Links /\ w.pkt.no \in Nat
        BY <1>5 DEF CopyOK, Links
    <1> HIDE DEF q
    <1>7. /\ Only(s, t, {"events", "arrived", "last"})
          /\ t.events = q /\ t.arrived = s.arrived + 1 /\ t.last = f
        BY DEF q
    <1>8. /\ t.now = s.now /\ t.starting = s.starting /\ t.sending = s.sending
          /\ t.edges = s.edges /\ t.allToAll = s.allToAll
          /\ t.pings = s.pings /\ t.pktsSent = s.pktsSent
          /\ t.pktsDropped = s.pktsDropped /\ t.pktsLost = s.pktsLost
          /\ t.given = s.given
          /\ t.broadcast = s.broadcast /\ t.unexpected = s.unexpected
          /\ t.timedOut = s.timedOut /\ t.changed = s.changed
        BY <1>7, <1>1 DEF Only, Fields
    <1>9. /\ f \in [Links -> Nat] /\ f[link] = w.pkt.no
          /\ \A l \in Links : l # link => f[l] = s.last[l]
        BY <1>1, <1>6
    <1> HIDE DEF f, link
    <1>10. Shape(t)
        <2>1. t.arrived \in Nat
            BY <1>1, <1>7
        <2> QED  BY <2>1, <1>1, <1>2, <1>7, <1>8, <1>9, Zenon DEF Shape, Only
    <1>11. FlightsOf(s, r)
        BY DEF SimInv, Flights
    <1>12. 1 \in Flight(r) /\ e.what = w /\ e.what.type = "pkt"
        BY <1>4 DEF Flight
    <1> HIDE DEF r
    <1>13. FlightsOf(s, q)
        BY <1>11, <1>2, <1>3, <1>4, FlightsPass
    <1>14. ASSUME NEW i \in Flight(q)
           PROVE  /\ Sent(s, q[i]) /\ OnTime(s, q[i])
                  /\ Ordered(s, w, q[i].what) /\ CopyOK(q[i].what)
        <2>1. i \in 1 .. Len(q) /\ q[i].what.type = "pkt"
            BY <1>4 DEF Flight
        <2>2. i + 1 \in 1 .. Len(r) /\ 1 < i + 1 /\ r[i + 1] = q[i]
            BY <2>1, <1>2, <1>4 DEF Shifted
        <2>3. i + 1 \in Flight(r)
            BY <2>1, <2>2, <1>4 DEF Flight
        <2>4. Ordered(s, r[1].what, r[i + 1].what)
            BY <2>2, <2>3, <1>11, <1>12 DEF FlightsOf
        <2>5. CopyOK(q[i].what)
            BY <2>1, <1>2 DEF QueueOK, EventOK
        <2>6. Sent(s, q[i]) /\ OnTime(s, q[i])
            BY <1>13 DEF FlightsOf
        <2> QED  BY <2>2, <2>4, <2>5, <2>6, <1>12
    <1>15. Flights(t)
        <2>1. ASSUME NEW i \in Flight(q)
              PROVE  Sent(t, q[i]) /\ OnTime(t, q[i])
            <3> DEFINE v == q[i].what
            <3>1. Sent(t, q[i])
                BY <1>14, <1>8, Zenon DEF Sent
            <3>2. <<v.from, v.to>> \in Links
                BY <1>14 DEF CopyOK, Links
            <3>3. {v.from, v.to} \notin s.changed => f[<<v.from, v.to>>] < v.pkt.no
                <4>1. CASE <<v.from, v.to>> = link
                    <5>1. w.from = v.from /\ w.to = v.to
                        BY <4>1 DEF link
                    <5> QED  BY <5>1, <4>1, <1>9, <1>14 DEF Ordered
                <4>2. CASE <<v.from, v.to>> # link
                    BY <4>2, <3>2, <1>9, <1>14 DEF OnTime
                <4> QED  BY <4>1, <4>2
            <3>4. OnTime(t, q[i])
                BY <3>3, <1>14, <1>7, <1>8, Zenon DEF OnTime
            <3> QED  BY <3>1, <3>4
        <2>2. ASSUME NEW i \in Flight(q), NEW j \in Flight(q), i < j
              PROVE  Ordered(t, q[i].what, q[j].what)
            BY <2>2, <1>13, <1>8, Zenon DEF FlightsOf, Ordered
        <2>3. FlightsOf(t, q)
            BY <2>1, <2>2, Zenon DEF FlightsOf
        <2>4. w.pkt.no <= s.pktsSent
            BY <1>11, <1>12 DEF FlightsOf, Sent
        <2>5. ASSUME NEW l \in Links  PROVE  f[l] <= s.pktsSent
            <3>1. s.last[l] <= s.pktsSent
                BY DEF SimInv, Flights
            <3> QED  BY <3>1, <2>4, <1>9
        <2> QED  BY <2>3, <2>5, <1>7, <1>8, Zenon DEF Flights
    <1>16. /\ Cardinality(Flight(q)) \in Nat
           /\ Cardinality(Flight(r)) = Cardinality(Flight(q)) + 1
        BY <1>2, <1>3, <1>4, <1>12, FlightCounts
    <1>17. ASSUME NEW n
           PROVE  /\ Cardinality(FlightOf(q, n)) \in Nat
                  /\ Cardinality(FlightOf(r, n)) =
                        Cardinality(FlightOf(q, n)) + (IF Mine(w, n) THEN 1 ELSE 0)
        BY <1>2, <1>3, <1>4, <1>12, FlightCounts
    <1>18. Counted(t)
        <2> DEFINE k == Cardinality(Flight(q))
        <2>1. s.given = s.arrived + (k + 1) + s.pktsDropped + s.pktsLost
            BY <1>16 DEF SimInv, Counted, r
        <2>2. s.pktsDropped \in Nat /\ s.pktsLost \in Nat
            BY <1>1 DEF Shape
        <2>3. k \in Nat
            BY <1>16
        <2> HIDE DEF k
        <2>4. t.given = t.arrived + k + t.pktsDropped + t.pktsLost
            <3> DEFINE a == s.arrived
                       d == s.pktsDropped
                       l == s.pktsLost
            <3>1. t.given = a + (k + 1) + d + l /\ a \in Nat /\ d \in Nat /\ l \in Nat
                BY <2>1, <2>2, <1>1, <1>8
            <3>2. t.arrived = a + 1 /\ t.pktsDropped = d /\ t.pktsLost = l
                BY <1>7, <1>8
            <3> HIDE DEF a, d, l
            <3> QED  BY <3>1, <3>2, <2>3
        <2> QED  BY <2>4, <1>7 DEF Counted, k
    <1>19. ASSUME NEW n \in Nodes
           PROVE  Room(t, n, IF Mine(w, n) THEN 1 ELSE 0)
        <2>1. Room(s, n, 0)
            BY NothingPending DEF SimInv, Replies
        <2>2. s.unexpected[n] \in Nat
            BY <1>1, RoomNumbers
        <2>3. Cardinality(FlightOf(r, n)) + 0 + s.unexpected[n]
                <= Cardinality(s.pings[n]) + s.timedOut[n] + s.broadcast[n]
            BY <2>1 DEF Room, r
        <2>4. Cardinality(FlightOf(q, n)) + (IF Mine(w, n) THEN 1 ELSE 0) + s.unexpected[n]
                <= Cardinality(s.pings[n]) + s.timedOut[n] + s.broadcast[n]
            BY <2>2, <2>3, <1>17
        <2> QED  BY <2>4, <1>7, <1>8 DEF Room
    <1>20. Timers(t)
        <2> SUFFICES ASSUME NEW n \in Nodes \ s.starting  PROVE  TimerIn(t, q, n)
            BY <1>7, <1>8 DEF Timers
        <2>1. TimerIn(s, r, n)
            BY DEF SimInv, Timers, r
        <2>2. TimerIn(s, q, n)
            BY <2>1, <1>2, <1>3, <1>4, <1>12, TimerStays
        <2>3. s.now <= t.now /\ t.pings[n] \subseteq s.pings[n]
            BY <1>1, <1>8
        <2> QED  BY <2>2, <2>3, <1>1, <1>8, TimerAt
    <1> QED  BY <1>5, <1>7, <1>10, <1>15, <1>18, <1>19, <1>20

\* Pings no longer wait, or a reply was not expected.
LEMMA PingsLeave ==
    ASSUME NEW s, Shape(s), NEW t, Only(s, t, {"pings", "unexpected", "timedOut"}),
           DOMAIN t.pings = Nodes, \A n \in Nodes : t.pings[n] \subseteq s.pings[n],
           t.unexpected \in [Nodes -> Nat], t.timedOut \in [Nodes -> Nat]
    PROVE  /\ Shape(t)
           /\ Sending(s) => Sending(t)
           /\ Flights(s) => Flights(t)
           /\ Counted(s) => Counted(t)
           /\ \A n \in Nodes : TimerIn(s, s.events, n) => TimerIn(t, t.events, n)
PROOF
    <1>1. Fields \subseteq DOMAIN s /\ s.now \in Nat
        BY DEF Shape
    <1>2. /\ t.now = s.now /\ t.starting = s.starting /\ t.sending = s.sending
          /\ t.events = s.events /\ t.edges = s.edges /\ t.allToAll = s.allToAll
          /\ t.pktsSent = s.pktsSent
          /\ t.pktsDropped = s.pktsDropped /\ t.pktsLost = s.pktsLost
          /\ t.given = s.given /\ t.arrived = s.arrived
          /\ t.broadcast = s.broadcast /\ t.last = s.last
        BY <1>1 DEF Only, Fields
    <1>3. ASSUME NEW n \in Nodes  PROVE  PingsOK(t.pings[n], t.pktsSent)
        <2>1. PingsOK(s.pings[n], s.pktsSent) /\ t.pings[n] \subseteq s.pings[n]
            BY DEF Shape
        <2>2. IsFiniteSet(t.pings[n])
            BY <2>1, FS_Subset DEF PingsOK
        <2> QED  BY <2>1, <2>2, <1>2 DEF PingsOK
    <1>4. Shape(t)
        BY <1>1, <1>2, <1>3, Zenon DEF Shape, Only
    <1>5. ASSUME NEW n \in Nodes, TimerIn(s, s.events, n)
          PROVE  TimerIn(t, t.events, n)
        <2>1. s.now <= t.now /\ t.now \in Nat
            BY <1>1, <1>2
        <2>2. TimerIn(t, s.events, n)
            BY <2>1, <1>1, <1>5, TimerAt
        <2> QED  BY <2>2, <1>2
    <1>6. /\ Sending(s) => Sending(t)
          /\ Flights(s) => Flights(t)
          /\ Counted(s) => Counted(t)
        BY <1>1, Frame
    <1> QED  BY <1>4, <1>5, <1>6

\* A reply finds a ping that waits for it, or is counted.
LEMMA ReplyFinds ==
    ASSUME NEW s, Shape(s), Sending(s), Flights(s), Counted(s), Timers(s), s.sending = {},
           NEW n \in Nodes, \A m \in Nodes : Room(s, m, IF m = n THEN 1 ELSE 0),
           NEW pkt, NEW t, t = receivePingReply(s, n, pkt)
    PROVE  SimInv(t) /\ t.now = s.now /\ t.starting = s.starting
PROOF
    <1> DEFINE old == answered(s, n, pkt)
               first == CHOOSE p \in old : \A q \in old : p.no <= q.no
               miss == [s.unexpected EXCEPT ![n] = @ + 1]
               rest == [s.pings EXCEPT ![n] = @ \ {first}]
    <1>1. /\ Fields \subseteq DOMAIN s /\ s.unexpected \in [Nodes -> Nat]
          /\ s.timedOut \in [Nodes -> Nat] /\ DOMAIN s.pings = Nodes
          /\ \A m \in Nodes : IsFiniteSet(s.pings[m])
        BY DEF Shape, PingsOK
    <1>2. \/ t = [s EXCEPT !.unexpected = miss]
          \/ t = [s EXCEPT !.pings = rest]
        BY <1>1, Zenon DEF receivePingReply
    <1>3. /\ miss \in [Nodes -> Nat] /\ miss[n] = s.unexpected[n] + 1
          /\ \A m \in Nodes : m # n => miss[m] = s.unexpected[m]
        BY <1>1
    <1> HIDE DEF first
    <1>4. /\ DOMAIN rest = Nodes /\ rest[n] = s.pings[n] \ {first}
          /\ \A m \in Nodes : m # n => rest[m] = s.pings[m]
        BY <1>1
    <1> HIDE DEF miss, rest
    <1>5. /\ Only(s, t, {"pings", "unexpected", "timedOut"})
          /\ \/ t.unexpected = miss /\ t.pings = s.pings
             \/ t.unexpected = s.unexpected /\ t.pings = rest
          /\ t.timedOut = s.timedOut
        BY <1>1, <1>2 DEF Only, Fields
    <1>6. /\ t.events = s.events /\ t.now = s.now /\ t.starting = s.starting
          /\ t.broadcast = s.broadcast /\ t.sending = {}
        BY <1>1, <1>5 DEF Only, Fields
    <1>7. /\ DOMAIN t.pings = Nodes /\ t.unexpected \in [Nodes -> Nat]
          /\ t.timedOut \in [Nodes -> Nat]
          /\ \A m \in Nodes : t.pings[m] \subseteq s.pings[m]
        BY <1>1, <1>3, <1>4, <1>5
    <1>8. /\ Shape(t) /\ Sending(t) /\ Flights(t) /\ Counted(t)
          /\ \A m \in Nodes : TimerIn(s, s.events, m) => TimerIn(t, t.events, m)
        BY <1>5, <1>7, PingsLeave
    <1>9. Timers(t)
        BY <1>6, <1>8 DEF Timers
    <1>10. /\ Cardinality(rest[n]) \in Nat /\ Cardinality(s.pings[n]) \in Nat
           /\ Cardinality(s.pings[n]) <= Cardinality(rest[n]) + 1
        <2>1. /\ Cardinality(s.pings[n]) \in Nat
              /\ IsFiniteSet(rest[n])
              /\ Cardinality(rest[n]) = IF first \in s.pings[n] THEN Cardinality(s.pings[n]) - 1
                                                                ELSE Cardinality(s.pings[n])
            BY <1>1, <1>4, FS_RemoveElement, FS_CardinalityType
        <2>2. Cardinality(rest[n]) \in Nat
            BY <2>1, FS_CardinalityType
        <2> QED  BY <2>1, <2>2
    <1>11. ASSUME NEW m \in Nodes  PROVE  Room(t, m, Pending(t, m))
        <2>1. Pending(t, m) = 0
            BY <1>6, NothingPending
        <2>2. /\ Cardinality(FlightOf(s.events, m)) \in Nat
              /\ Cardinality(s.pings[m]) \in Nat
              /\ s.unexpected[m] \in Nat /\ s.timedOut[m] \in Nat /\ s.broadcast[m] \in Nat
            BY RoomNumbers
        <2>3. Room(s, m, IF m = n THEN 1 ELSE 0)
            OBVIOUS
        <2>4. CASE m = n
            <3>1. Cardinality(FlightOf(s.events, n)) + 1 + s.unexpected[n]
                    <= Cardinality(s.pings[n]) + s.timedOut[n] + s.broadcast[n]
                BY <2>3, <2>4 DEF Room
            <3>2. Cardinality(FlightOf(s.events, n)) + 0 + t.unexpected[n]
                    <= Cardinality(t.pings[n]) + s.timedOut[n] + s.broadcast[n]
                BY <3>1, <2>2, <2>4, <1>3, <1>5, <1>10
            <3> QED  BY <3>2, <2>1, <2>4, <1>5, <1>6 DEF Room
        <2>5. CASE m # n
            <3>1. t.unexpected[m] = s.unexpected[m] /\ t.pings[m] = s.pings[m]
                BY <2>5, <1>3, <1>4, <1>5
            <3> QED  BY <3>1, <2>1, <2>3, <2>5, <1>5, <1>6 DEF Room
        <2> QED  BY <2>4, <2>5
    <1> QED  BY <1>6, <1>8, <1>9, <1>11 DEF SimInv, Replies

\* Simulator::deliverPkt.
LEMMA DeliverKeeps ==
    ASSUME NEW s, SimInv(s), s.sending = {}, s.events # <<>>,
           NEW w, w = s.events[1].what, w.type = "pkt",
           NEW u, Only(s, u, {"events"}), u.events = Tail(s.events),
           NEW t, t = deliverPkt(u, w)
    PROVE  SimInv(t) /\ t.now = s.now /\ t.starting = s.starting
PROOF
    <1> DEFINE v == [u EXCEPT !.arrived = @ + 1, !.last[<<w.from, w.to>>] = w.pkt.no]
    <1>1. Shape(s) /\ Fields \subseteq DOMAIN s
        BY DEF SimInv, Shape
    <1>2. /\ DOMAIN u = DOMAIN s /\ u.arrived = s.arrived /\ u.last = s.last
          /\ u.now = s.now /\ u.starting = s.starting /\ u.sending = {}
        BY <1>1 DEF Only, Fields
    <1>3. \/ w.to \notin Nodes /\ t = v
          \/ /\ w.to \in Nodes /\ w.pkt.protocol = "PING_PKT"
             /\ t = sendPkt(v, w.to, w.pkt.src, "PING_REPLY_PKT", w.pkt.msg)
          \/ /\ w.to \in Nodes /\ w.pkt.protocol = "PING_REPLY_PKT"
             /\ t = receivePingReply(v, w.to, w.pkt)
          \/ w.to \in Nodes /\ w.pkt.protocol \notin {"PING_PKT", "PING_REPLY_PKT"}
        BY DEF deliverPkt, receivePing
    <1>4. /\ Only(u, v, {"arrived", "last"}) /\ v.arrived = u.arrived + 1
          /\ v.last = [u.last EXCEPT ![<<w.from, w.to>>] = w.pkt.no]
        BY <1>1, <1>2 DEF Only, Fields
    <1> HIDE DEF v
    <1>5. /\ Only(s, v, {"events", "arrived", "last"}) /\ v.events = Tail(s.events)
          /\ v.now = s.now /\ v.starting = s.starting /\ v.sending = {}
          /\ Fields \subseteq DOMAIN v
        BY <1>1, <1>2, <1>4 DEF Only, Fields
    <1>6. /\ CopyOK(w)
          /\ Shape(v) /\ Flights(v) /\ Counted(v) /\ Timers(v)
          /\ \A n \in Nodes : Room(v, n, IF Mine(w, n) THEN 1 ELSE 0)
        BY <1>2, <1>4, <1>5, PacketTaken
    <1>7. Sending(v) /\ \A n : Pending(v, n) = 0
        BY <1>5, NothingPending
    <1>8. CASE w.to \notin Nodes /\ t = v
        <2>1. ASSUME NEW n \in Nodes  PROVE  Room(v, n, 0)
            <3>1. Room(v, n, IF Mine(w, n) THEN 1 ELSE 0)
                BY <1>6
            <3>2. Cardinality(FlightOf(v.events, n)) \in Nat /\ v.unexpected[n] \in Nat
                  /\ Cardinality(v.pings[n]) \in Nat
                  /\ v.timedOut[n] \in Nat /\ v.broadcast[n] \in Nat
                BY <1>6, RoomNumbers
            <3> QED  BY <3>1, <3>2 DEF Room
        <2>2. Replies(v)
            BY <2>1, <1>7 DEF Replies
        <2> QED  BY <2>2, <1>5, <1>6, <1>7, <1>8 DEF SimInv
    <1>9. CASE /\ w.to \in Nodes /\ w.pkt.protocol = "PING_PKT"
               /\ t = sendPkt(v, w.to, w.pkt.src, "PING_REPLY_PKT", w.pkt.msg)
        <2>1. /\ w.pkt.src = w.from /\ w.from \in Nodes
              /\ w.from \in 0 .. BROADCAST_ADDRESS /\ w.from # BROADCAST_ADDRESS
            <3>1. w.pkt.src = w.from /\ w.from \in Nodes
                BY <1>6 DEF CopyOK
            <3>2. \A n \in Nodes : n \in 0 .. BROADCAST_ADDRESS /\ n # BROADCAST_ADDRESS
                BY SimulatorConstants
            <3> QED  BY <3>1, <3>2
        <2>2. /\ Only(v, t, {"pktsSent", "sending"})
              /\ Shape(t) /\ Sending(t) /\ Flights(t)
              /\ \A n : Pending(t, n) = 0 \/ (Pending(t, n) = 1 /\ n = w.from)
            BY <2>1, <1>5, <1>6, <1>9, SendPrepares
        <2>3. Counted(t) /\ Timers(t)
            BY <2>2, <1>5, <1>6, Frame
        <2>4. /\ t.events = v.events /\ t.now = v.now /\ t.starting = v.starting
              /\ t.pings = v.pings /\ t.broadcast = v.broadcast
              /\ t.unexpected = v.unexpected /\ t.timedOut = v.timedOut
            BY <2>2, <1>5 DEF Only, Fields
        <2>5. ASSUME NEW n \in Nodes  PROVE  Room(t, n, Pending(t, n))
            <3>1. Room(v, n, IF w.from = n THEN 1 ELSE 0)
                BY <1>6, <1>9 DEF Mine
            <3>2. Cardinality(FlightOf(v.events, n)) \in Nat /\ v.unexpected[n] \in Nat
                  /\ Cardinality(v.pings[n]) \in Nat
                  /\ v.timedOut[n] \in Nat /\ v.broadcast[n] \in Nat
                BY <1>6, RoomNumbers
            <3>3. Pending(t, n) = 0 \/ (Pending(t, n) = 1 /\ n = w.from)
                BY <2>2
            <3>4. Room(v, n, Pending(t, n))
                BY <3>1, <3>2, <3>3 DEF Room
            <3> QED  BY <3>4, <2>4 DEF Room
        <2> QED  BY <2>2, <2>3, <2>4, <2>5, <1>5 DEF SimInv, Replies
    <1>10. CASE /\ w.to \in Nodes /\ w.pkt.protocol = "PING_REPLY_PKT"
                /\ t = receivePingReply(v, w.to, w.pkt)
        <2>1. \A n \in Nodes : Room(v, n, IF n = w.to THEN 1 ELSE 0)
            BY <1>6, <1>10 DEF Mine
        <2>2. SimInv(t) /\ t.now = v.now /\ t.starting = v.starting
            BY <2>1, <1>5, <1>6, <1>7, <1>10, ReplyFinds
        <2> QED  BY <2>2, <1>5
    <1> QED  BY <1>3, <1>6, <1>8, <1>9, <1>10 DEF CopyOK

\* What a timer that is set leaves as it is.
WithTimer(s, t) ==
    /\ Shape(t) /\ Only(s, t, {"events"})
    /\ Sending(s) => Sending(t)
    /\ Flights(s) => Flights(t)
    /\ Counted(s) => Counted(t)
    /\ Replies(s) => Replies(t)
    /\ \A m : TimerIn(s, s.events, m) => TimerIn(t, t.events, m)

\* A timer that a node sets for itself.
LEMMA NodeTimer ==
    ASSUME NEW s, Shape(s), NEW n \in Nodes, NEW kind \in {"pingTimedOut", "retransmissionTick"},
           NEW delta \in Nat, NEW t, t = addTimer(s, n, kind, delta)
    PROVE  /\ WithTimer(s, t)
           /\ /\ kind = "pingTimedOut" /\ delta = PING_TIMEOUT_MS
              /\ \A p \in s.pings[n] : nowMs(s) <= p.timeSentMs + PING_TIMEOUT_MS
              => TimerIn(t, t.events, n)
PROOF
    <1> DEFINE k == nowMs(s) + delta
               time == k * MicrosPerMs
               what == [type |-> kind, node |-> n]
               e == [time |-> time, what |-> what]
    <1>1. s.now \in Nat /\ Fields \subseteq DOMAIN s
        BY DEF Shape
    <1>2. nowMs(s) \in Nat
        BY <1>1, MsOfNow
    <1>3. k \in Nat
        BY <1>2
    <1>4. time \in Nat
        <2> HIDE DEF k
        <2> QED  BY <1>3, ParserConstants
    <1>5. t = addEventAtMicros(s, time, what)
        BY DEF addTimer
    <1>6. what.type = kind /\ what.node = n /\ what.type # "pkt"
        OBVIOUS
    <1> HIDE DEF time, what
    <1>7. e.time = time /\ e.what = what
        OBVIOUS
    <1>8. e = [time |-> time, what |-> what]
        OBVIOUS
    <1> HIDE DEF e
    <1>9. EventOK(e)
        BY <1>4, <1>6, <1>7 DEF EventOK
    <1>10. /\ Shape(t) /\ Only(s, t, {"events"})
           /\ Sending(s) => Sending(t)
           /\ Flights(s) => Flights(t)
           /\ Counted(s) => Counted(t)
           /\ Replies(s) => Replies(t)
           /\ \A m : TimerIn(s, s.events, m) => TimerIn(t, t.events, m)
           /\ \A m : Timer(t, m, e) => TimerIn(t, t.events, m)
        BY <1>4, <1>5, <1>6, <1>8, <1>9, TimerSet
    <1>11. ASSUME kind = "pingTimedOut", delta = PING_TIMEOUT_MS,
                  \A p \in s.pings[n] : nowMs(s) <= p.timeSentMs + PING_TIMEOUT_MS
           PROVE  TimerIn(t, t.events, n)
        <2>1. t.now = s.now /\ t.pings = s.pings
            BY <1>1, <1>10 DEF Only, Fields
        <2>2. nowMs(t) = nowMs(s)
            BY <2>1 DEF nowMs
        <2>3. k \in 0 .. nowMs(t) + PING_TIMEOUT_MS
            BY <2>2, <1>2, <1>3, <1>11
        <2>4. ASSUME NEW p \in t.pings[n]  PROVE  k <= p.timeSentMs + 2 * PING_TIMEOUT_MS
            <3>1. p.timeSentMs \in Nat
                BY <2>1 DEF Shape, PingsOK
            <3>2. nowMs(s) <= p.timeSentMs + PING_TIMEOUT_MS
                BY <2>1, <1>11
            <3> QED  BY <3>1, <3>2, <1>2, <1>11, SimulatorConstants
        <2>5. e.time = k * MicrosPerMs
            BY <1>7 DEF time
        <2>6. Timer(t, n, e)
            <3> HIDE DEF k
            <3> QED  BY <2>3, <2>4, <2>5, <1>6, <1>7, <1>11, Zenon DEF Timer
        <2> QED  BY <2>6, <1>10
    <1> QED  BY <1>10, <1>11, Zenon DEF WithTimer

\* StackNode::pingTimedOut.
LEMMA TimeoutKeeps ==
    ASSUME NEW s, SimInv(s), s.events # <<>>,
           NEW w, w = s.events[1].what, w.type = "pingTimedOut", NEW n, n = w.node,
           NEW u, Only(s, u, {"events"}), u.events = Tail(s.events),
           NEW t, t = pingTimedOut(u, n)
    PROVE  SimInv(t) /\ t.now = s.now /\ t.starting = s.starting
PROOF
    <1> DEFINE old == {p \in u.pings[n] : expired(u, p)}
               rest == [u.pings EXCEPT ![n] = @ \ old]
               late == [u.timedOut EXCEPT ![n] = @ + Cardinality(old)]
               v == [u EXCEPT !.pings = rest, !.timedOut = late]
    <1>1. Shape(s) /\ Fields \subseteq DOMAIN s
        BY DEF SimInv, Shape
    <1>2. /\ DOMAIN u = DOMAIN s /\ u.now = s.now /\ u.starting = s.starting
          /\ u.now \in Nat
        BY <1>1 DEF Only, Fields, Shape
    <1>3. n \in Nodes
        <2>1. QueueOK(s.events) /\ Listed(s.events)
            BY <1>1 DEF Shape, QueueOK
        <2>2. 1 \in 1 .. Len(s.events)
            BY <2>1, QueueTail
        <2>3. EventOK(s.events[1])
            BY <2>1, <2>2 DEF QueueOK
        <2> QED  BY <2>3 DEF EventOK
    <1>4. /\ Shape(u) /\ Sending(u) /\ Flights(u) /\ Counted(u) /\ Replies(u)
          /\ \A m \in Nodes \ s.starting : m # n => TimerIn(u, u.events, m)
        BY EventTaken
    <1>5. /\ DOMAIN u.pings = Nodes /\ u.timedOut \in [Nodes -> Nat]
          /\ u.unexpected \in [Nodes -> Nat]
          /\ \A m \in Nodes : PingsOK(u.pings[m], u.pktsSent)
        BY <1>4 DEF Shape
    <1>6. /\ IsFiniteSet(old) /\ Cardinality(old) \in Nat
          /\ IsFiniteSet(u.pings[n]) /\ Cardinality(u.pings[n]) \in Nat
          /\ Cardinality(u.pings[n] \ old) = Cardinality(u.pings[n]) - Cardinality(old)
        <2>1. IsFiniteSet(u.pings[n]) /\ old \subseteq u.pings[n]
            BY <1>3, <1>5 DEF PingsOK
        <2>2. IsFiniteSet(old)
            BY <2>1, FS_Subset
        <2>3. u.pings[n] \cap old = old
            BY <2>1
        <2> HIDE DEF old
        <2>4. Cardinality(u.pings[n] \ old)
                = Cardinality(u.pings[n]) - Cardinality(u.pings[n] \cap old)
            BY <2>1, FS_Difference
        <2> QED  BY <2>1, <2>2, <2>3, <2>4, FS_CardinalityType
    <1>7. ASSUME NEW p \in u.pings[n] \ old
          PROVE  nowMs(u) <= p.timeSentMs + PING_TIMEOUT_MS
        <2>1. p.timeSentMs \in Nat /\ ~expired(u, p)
            BY <1>3, <1>5 DEF PingsOK
        <2>2. nowMs(u) \in Nat
            BY <1>2, MsOfNow
        <2> QED  BY <2>1, <2>2, SimulatorConstants DEF expired
    <1>8. t = addTimer(v, n, "pingTimedOut", PING_TIMEOUT_MS)
        BY <1>1, <1>2 DEF pingTimedOut, Fields
    <1> HIDE DEF old
    <1>9. /\ DOMAIN rest = Nodes /\ rest[n] = u.pings[n] \ old
          /\ \A m \in Nodes : m # n => rest[m] = u.pings[m]
        BY <1>3, <1>5
    <1>10. /\ late \in [Nodes -> Nat] /\ late[n] = u.timedOut[n] + Cardinality(old)
           /\ \A m \in Nodes : m # n => late[m] = u.timedOut[m]
        BY <1>3, <1>5, <1>6
    <1> HIDE DEF rest, late
    <1>11. /\ Only(u, v, {"pings", "unexpected", "timedOut"})
           /\ v.pings = rest /\ v.timedOut = late
        BY <1>1, <1>2 DEF Only, Fields
    <1> HIDE DEF v
    <1>12. /\ v.now = u.now /\ v.starting = u.starting /\ v.events = u.events
           /\ v.broadcast = u.broadcast /\ v.sending = u.sending
           /\ Fields \subseteq DOMAIN v
        BY <1>1, <1>2, <1>11 DEF Only, Fields
    <1>13. v.unexpected = u.unexpected
        BY <1>1, <1>2, <1>8 DEF v, Fields
    <1>14. /\ DOMAIN v.pings = Nodes /\ v.unexpected \in [Nodes -> Nat]
           /\ v.timedOut \in [Nodes -> Nat]
           /\ \A m \in Nodes : v.pings[m] \subseteq u.pings[m]
        BY <1>5, <1>9, <1>10, <1>11, <1>13
    <1>15. /\ Shape(v) /\ Sending(v) /\ Flights(v) /\ Counted(v)
           /\ \A m \in Nodes : TimerIn(u, u.events, m) => TimerIn(v, v.events, m)
        BY <1>4, <1>11, <1>14, PingsLeave
    <1>16. Replies(v)
        <2> SUFFICES ASSUME NEW m \in Nodes  PROVE  Room(v, m, Pending(v, m))
            BY DEF Replies
        <2>1. Room(u, m, Pending(u, m)) /\ Pending(v, m) = Pending(u, m)
            BY <1>4, <1>12 DEF Replies, Pending
        <2>2. CASE m = n
            <3>1. u.timedOut[n] \in Nat /\ u.broadcast[n] \in Nat
                BY <1>3, <1>4, RoomNumbers
            <3>2. Cardinality(rest[n]) + late[n] = Cardinality(u.pings[n]) + u.timedOut[n]
                <4> DEFINE a == Cardinality(u.pings[n])
                           b == Cardinality(old)
                           c == u.timedOut[n]
                <4>1. a \in Nat /\ b \in Nat /\ c \in Nat
                    BY <3>1, <1>6
                <4>2. Cardinality(rest[n]) = a - b /\ late[n] = c + b
                    BY <1>6, <1>9, <1>10
                <4> HIDE DEF a, b, c
                <4>3. Cardinality(rest[n]) + late[n] = a + c
                    BY <4>1, <4>2
                <4> QED  BY <4>3 DEF a, c
            <3>3. Cardinality(v.pings[n]) + v.timedOut[n] + v.broadcast[n]
                    = Cardinality(u.pings[n]) + u.timedOut[n] + u.broadcast[n]
                BY <3>2, <1>11, <1>12
            <3> QED  BY <3>3, <2>1, <2>2, <1>12, <1>13 DEF Room
        <2>3. CASE m # n
            BY <2>1, <2>3, <1>9, <1>10, <1>11, <1>12, <1>13 DEF Room
        <2> QED  BY <2>2, <2>3
    <1>17. nowMs(v) = nowMs(u)
        BY <1>12 DEF nowMs
    <1>18. \A p \in v.pings[n] : nowMs(v) <= p.timeSentMs + PING_TIMEOUT_MS
        BY <1>7, <1>9, <1>11, <1>17
    <1>19. /\ Shape(t) /\ Only(v, t, {"events"})
           /\ Sending(t) /\ Flights(t) /\ Counted(t) /\ Replies(t)
           /\ \A m : TimerIn(v, v.events, m) => TimerIn(t, t.events, m)
           /\ TimerIn(t, t.events, n)
        <2>1. PING_TIMEOUT_MS \in Nat
            BY SimulatorConstants
        <2>2. WithTimer(v, t) /\ TimerIn(t, t.events, n)
            BY <2>1, <1>3, <1>8, <1>15, <1>18, NodeTimer
        <2> QED  BY <2>2, <1>15, <1>16, Zenon DEF WithTimer
    <1>20. t.now = v.now /\ t.starting = v.starting
        BY <1>12, <1>19 DEF Only, Fields
    <1>21. Timers(t)
        BY <1>2, <1>4, <1>12, <1>15, <1>19, <1>20 DEF Timers
    <1> QED  BY <1>2, <1>12, <1>19, <1>20, <1>21 DEF SimInv

\* TcpManager's tick, and the event that goes on with the topology file.
LEMMA TickKeeps ==
    ASSUME NEW s, SimInv(s), s.events # <<>>,
           NEW w, w = s.events[1].what, w.type \in {"retransmissionTick", "topo"},
           NEW u, Only(s, u, {"events"}), u.events = Tail(s.events)
    PROVE  /\ SimInv(u) /\ u.now = s.now /\ u.starting = s.starting
           /\ w.type = "retransmissionTick" =>
                \A t : t = retransmissionTick(u, w.node) =>
                    SimInv(t) /\ t.now = s.now /\ t.starting = s.starting
PROOF
    <1>1. Shape(s) /\ Fields \subseteq DOMAIN s
        BY DEF SimInv, Shape
    <1>2. /\ u.now = s.now /\ u.starting = s.starting /\ Fields \subseteq DOMAIN u
        BY <1>1 DEF Only, Fields
    <1>3. /\ Shape(u) /\ Sending(u) /\ Flights(u) /\ Counted(u) /\ Replies(u)
          /\ \A m \in Nodes \ s.starting : TimerIn(u, u.events, m)
        BY EventTaken
    <1>4. SimInv(u)
        BY <1>2, <1>3 DEF SimInv, Timers
    <1>5. ASSUME w.type = "retransmissionTick", NEW t, t = retransmissionTick(u, w.node)
          PROVE  SimInv(t) /\ t.now = s.now /\ t.starting = s.starting
        <2>1. QueueOK(s.events) /\ Listed(s.events)
            BY <1>1 DEF Shape, QueueOK
        <2>2. 1 \in 1 .. Len(s.events)
            BY <2>1, QueueTail
        <2>3. w.node \in Nodes
            BY <2>1, <2>2, <1>5 DEF QueueOK, EventOK
        <2>4. t = addTimer(u, w.node, "retransmissionTick", RETRANS_TICK_MS)
            BY <1>5 DEF retransmissionTick
        <2>5. /\ Shape(t) /\ Only(u, t, {"events"})
              /\ Sending(t) /\ Flights(t) /\ Counted(t) /\ Replies(t)
              /\ \A m : TimerIn(u, u.events, m) => TimerIn(t, t.events, m)
            <3>1. RETRANS_TICK_MS \in Nat
                BY SimulatorConstants
            <3>2. WithTimer(u, t)
                BY <3>1, <2>3, <2>4, <1>3, NodeTimer
            <3> QED  BY <3>2, <1>3, Zenon DEF WithTimer
        <2>6. t.now = u.now /\ t.starting = u.starting
            BY <2>5, <1>2 DEF Only, Fields
        <2> QED  BY <2>5, <2>6, <1>2, <1>3 DEF SimInv, Timers
    <1> QED  BY <1>2, <1>4, <1>5

\* StackNode::start: the clock still stands at 0, so no ping waits for long.
LEMMA StartKeeps ==
    ASSUME NEW s, SimInv(s), s.now = 0, NEW n \in Nodes,
           NEW u, Only(s, u, {"starting"}), u.starting = s.starting \ {n},
           NEW t, t = startNode(u, n)
    PROVE  SimInv(t) /\ t.now = s.now /\ t.starting = s.starting \ {n} /\ t.sending = s.sending
PROOF
    <1> DEFINE v == addTimer(u, n, "pingTimedOut", PING_TIMEOUT_MS)
    <1>1. Shape(s) /\ Fields \subseteq DOMAIN s
        BY DEF SimInv, Shape
    <1>2. /\ u.now = s.now /\ u.sending = s.sending /\ u.events = s.events
          /\ u.pings = s.pings /\ Fields \subseteq DOMAIN u
          /\ u.edges = s.edges /\ u.allToAll = s.allToAll /\ u.pktsSent = s.pktsSent
          /\ u.pktsDropped = s.pktsDropped /\ u.pktsLost = s.pktsLost
          /\ u.given = s.given /\ u.arrived = s.arrived
          /\ u.broadcast = s.broadcast /\ u.unexpected = s.unexpected
          /\ u.timedOut = s.timedOut /\ u.last = s.last
        BY <1>1 DEF Only, Fields
    <1>3. Shape(u)
        BY <1>1, <1>2, Zenon DEF Shape
    <1>4. Sending(u) /\ Flights(u) /\ Counted(u) /\ Replies(u)
        BY <1>1, Frame DEF SimInv
    <1>5. nowMs(u) = 0
        <2>1. 0 \div MicrosPerMs = 0
            BY ParserConstants
        <2> QED  BY <2>1, <1>2 DEF nowMs
    <1>6. ASSUME NEW p \in u.pings[n]  PROVE  nowMs(u) <= p.timeSentMs + PING_TIMEOUT_MS
        <2>1. p.timeSentMs \in Nat
            BY <1>3 DEF Shape, PingsOK
        <2> QED  BY <2>1, <1>5, SimulatorConstants
    <1>7. /\ Shape(v) /\ Only(u, v, {"events"})
          /\ Sending(v) /\ Flights(v) /\ Counted(v) /\ Replies(v)
          /\ \A m : TimerIn(u, u.events, m) => TimerIn(v, v.events, m)
          /\ TimerIn(v, v.events, n)
        <2>1. PING_TIMEOUT_MS \in Nat
            BY SimulatorConstants
        <2>2. WithTimer(u, v) /\ TimerIn(v, v.events, n)
            BY <2>1, <1>3, <1>6, NodeTimer
        <2> QED  BY <2>2, <1>4, Zenon DEF WithTimer
    <1>8. t = addTimer(v, n, "retransmissionTick", RETRANS_TICK_MS)
        BY DEF startNode, retransmissionTick
    <1> HIDE DEF v
    <1>9. /\ Shape(t) /\ Only(v, t, {"events"})
          /\ Sending(t) /\ Flights(t) /\ Counted(t) /\ Replies(t)
          /\ \A m : TimerIn(v, v.events, m) => TimerIn(t, t.events, m)
        <2>1. RETRANS_TICK_MS \in Nat
            BY SimulatorConstants
        <2>2. WithTimer(v, t)
            BY <2>1, <1>7, <1>8, NodeTimer
        <2> QED  BY <2>2, <1>7, Zenon DEF WithTimer
    <1>10. v.now = u.now /\ v.starting = u.starting /\ v.sending = u.sending
        BY <1>2, <1>7 DEF Only, Fields
    <1>11. t.now = v.now /\ t.starting = v.starting /\ t.sending = v.sending
        BY <1>2, <1>7, <1>9 DEF Only, Fields
    <1>12. ASSUME NEW m \in Nodes \ t.starting  PROVE  TimerIn(t, t.events, m)
        <2>1. CASE m = n
            BY <2>1, <1>7, <1>9
        <2>2. CASE m # n
            <3>1. m \in Nodes \ s.starting
                BY <2>2, <1>10, <1>11
            <3>2. TimerIn(s, s.events, m)
                BY <3>1 DEF SimInv, Timers
            <3>3. s.now \in Nat /\ s.now <= u.now /\ u.pings[m] \subseteq s.pings[m]
                BY <1>1, <1>2 DEF Shape
            <3>4. TimerIn(u, s.events, m)
                BY <3>2, <3>3, <1>2, TimerAt
            <3> QED  BY <3>4, <1>2, <1>7, <1>9
        <2> QED  BY <2>1, <2>2
    <1> QED  BY <1>2, <1>9, <1>10, <1>11, <1>12 DEF SimInv, Timers

-----------------------------------------------------------------------------
(* The invariant. *)

\* A sim is new.
LEMMA NewSimInv ==
    SimInv(NewSim)
PROOF
    <1> DEFINE s == NewSim
    <1>1. /\ Fields \subseteq DOMAIN s
          /\ s.now = 0 /\ s.events = <<>> /\ s.starting = Nodes /\ s.sending = {}
          /\ s.edges = <<>> /\ s.allToAll = FALSE /\ s.pings = [n \in Nodes |-> {}]
          /\ s.pktsSent = 0 /\ s.pktsDropped = 0 /\ s.pktsLost = 0
          /\ s.given = 0 /\ s.arrived = 0 /\ s.broadcast = [n \in Nodes |-> 0]
          /\ s.unexpected = [n \in Nodes |-> 0] /\ s.timedOut = [n \in Nodes |-> 0]
          /\ s.last = [link \in Nodes \X (0 .. BROADCAST_ADDRESS) |-> 0]
        BY DEF NewSim, Fields
    <1> HIDE DEF s
    <1>2. QueueOK(<<>>) /\ DOMAIN <<>> = {}
        <2>1. <<>> \in Seq(Range(<<>>)) /\ Len(<<>>) = 0
            OBVIOUS
        <2> QED  BY <2>1 DEF QueueOK, Listed, Sorted
    <1>3. IsFiniteSet({}) /\ Cardinality({}) = 0
        BY FS_EmptySet
    <1>4. Flight(<<>>) = {} /\ \A n : FlightOf(<<>>, n) = {}
        BY <1>2 DEF Flight, FlightOf
    <1>5. Shape(s)
        <2>1. DOMAIN s.pings = Nodes /\ \A n \in Nodes : PingsOK(s.pings[n], s.pktsSent)
            BY <1>1, <1>3 DEF PingsOK
        <2>2. QueueOK(s.events)
            BY <1>1, <1>2
        <2>3. DOMAIN s.edges = {}
            BY <1>1, <1>2
        <2>4. s.last \in [Links -> Nat]
            BY <1>1 DEF Links
        <2>5. /\ s.broadcast \in [Nodes -> Nat] /\ s.unexpected \in [Nodes -> Nat]
              /\ s.timedOut \in [Nodes -> Nat]
            BY <1>1
        <2> QED  BY <2>1, <2>2, <2>3, <2>4, <2>5, <1>1 DEF Shape
    <1>6. Sending(s) /\ \A n : Pending(s, n) = 0
        BY <1>1, NothingPending
    <1>7. Flights(s)
        <2>1. \A link \in Links : s.last[link] <= s.pktsSent
            BY <1>1 DEF Links
        <2>2. FlightsOf(s, <<>>)
            BY <1>4 DEF FlightsOf
        <2> QED  BY <2>1, <2>2, <1>1 DEF Flights
    <1>8. Counted(s)
        <2>1. Cardinality(Flight(s.events)) = 0
            BY <1>1, <1>3, <1>4
        <2>2. /\ s.given = 0 /\ s.arrived = 0 /\ s.pktsDropped = 0 /\ s.pktsLost = 0
            BY <1>1
        <2> QED  BY <2>1, <2>2 DEF Counted
    <1>9. Timers(s)
        BY <1>1 DEF Timers
    <1>10. Replies(s)
        <2> SUFFICES ASSUME NEW n \in Nodes  PROVE  Room(s, n, 0)
            BY <1>6 DEF Replies
        <2>1. Cardinality(FlightOf(s.events, n)) = 0 /\ Cardinality(s.pings[n]) = 0
            BY <1>1, <1>3, <1>4
        <2>2. s.unexpected[n] = 0 /\ s.timedOut[n] = 0 /\ s.broadcast[n] = 0
            BY <1>1
        <2> QED  BY <2>1, <2>2 DEF Room
    <1> QED  BY <1>5, <1>6, <1>7, <1>8, <1>9, <1>10 DEF SimInv, s

LEMMA InvInit ==
    Init => Inv
PROOF
    <1> SUFFICES ASSUME Init  PROVE  Inv
        OBVIOUS
    <1>1. NewSim.now = 0 /\ NewSim.starting = Nodes
        BY DEF NewSim
    <1>2. ASSUME NEW file \in Files  PROVE  file \in Seq(Lines)
        <2>1. file \in Seq(Range(file)) /\ Range(file) \subseteq Lines
            BY EdgeLines DEF Lines
        <2> QED  BY <2>1
    <1>3. Unread
        BY <1>2 DEF Init, Unread, Files
    <1>4. Clock
        BY <1>1, SimulatorConstants DEF Init, Clock
    <1> QED  BY <1>3, <1>4, NewSimInv DEF Init, Inv

\* The first line of a file, and the others.
LEMMA NextLine ==
    ASSUME NEW file \in Seq(Lines), file # <<>>
    PROVE  Head(file) \in Lines /\ Tail(file) \in Seq(Lines)
PROOF
    OBVIOUS

\* What a step of the main thread leaves alone.
LEMMA InvParse ==
    ASSUME Inv, sim.sending = {}, parseRemainder
    PROVE  Inv'
PROOF
    <1> DEFINE line == parseLine(Head(topo), sim.now)
    <1>1. SimInv(sim) /\ Unread /\ Clock /\ Shape(sim) /\ sim.now \in Nat
        BY DEF Inv, SimInv, Shape
    <1>2. Head(topo) \in Lines /\ Tail(topo) \in Seq(Lines)
        BY <1>1, NextLine DEF parseRemainder, Unread
    <1>3. line.op = "defer" => line.till \in Int
        BY <1>1, <1>2, Parsed
    <1>4. /\ pc = "topo" /\ topo' = Tail(topo)
          /\ \/ /\ line.op = "defer" /\ pc' = afterTopo
                /\ sim' = addEventAtMicros(sim, line.till, [type |-> "topo"])
             \/ /\ sim' = execute(sim, line) /\ pc' \in {"exited", "topo"}
          /\ UNCHANGED <<script, deferTill, input, lines, stopping>>
        BY DEF parseRemainder
    <1> HIDE DEF line
    <1>5. Unread'
        BY <1>1, <1>2, <1>4 DEF Unread
    <1>6. SimInv(sim') /\ sim'.now = sim.now /\ sim'.starting = sim.starting
        <2>1. CASE sim' = execute(sim, line)
            BY <2>1, <1>1, <1>2, ExecuteKeeps DEF line
        <2>2. CASE /\ line.op = "defer"
                   /\ sim' = addEventAtMicros(sim, line.till, [type |-> "topo"])
            <3>1. CASE line.till < 0
                <4>1. sim' = sim
                    BY <3>1, <2>2 DEF addEventAtMicros
                <4> QED  BY <4>1, <1>1
            <3>2. CASE ~(line.till < 0)
                <4> DEFINE what == [type |-> "topo"]
                           e == [time |-> line.till, what |-> what]
                <4>1. line.till \in Nat
                    BY <3>2, <2>2, <1>3
                <4>2. EventOK(e) /\ what.type # "pkt"
                    BY <4>1 DEF EventOK
                <4>3. /\ sim' = addEventAtMicros(sim, line.till, what)
                      /\ e = [time |-> line.till, what |-> what]
                    BY <2>2
                <4> HIDE DEF what, e
                <4>4. /\ Shape(sim') /\ Only(sim, sim', {"events"})
                      /\ Sending(sim) => Sending(sim')
                      /\ Flights(sim) => Flights(sim')
                      /\ Counted(sim) => Counted(sim')
                      /\ Replies(sim) => Replies(sim')
                      /\ \A n : TimerIn(sim, sim.events, n) => TimerIn(sim', sim'.events, n)
                    BY <4>1, <4>2, <4>3, <1>1, TimerSet
                <4>5. sim'.now = sim.now /\ sim'.starting = sim.starting
                    BY <4>4, <1>1 DEF Only, Fields, Shape
                <4> QED  BY <4>4, <4>5, <1>1 DEF SimInv, Timers
            <3> QED  BY <3>1, <3>2
        <2> QED  BY <2>1, <2>2, <1>4
    <1>7. Clock'
        BY <1>1, <1>4, <1>6 DEF Clock, afterTopo
    <1> QED  BY <1>5, <1>6, <1>7 DEF Inv

LEMMA InvStart ==
    ASSUME Inv, start
    PROVE  Inv'
PROOF
    <1>1. SimInv(sim) /\ Unread /\ Clock /\ Shape(sim) /\ Fields \subseteq DOMAIN sim
        BY DEF Inv, SimInv, Shape
    <1>2. pc = "start" /\ sim.now = 0 /\ UNCHANGED <<topo, script, deferTill, input, lines, stopping>>
        BY <1>1 DEF start, Clock
    <1>3. Unread'
        BY <1>1, <1>2 DEF Unread
    <1>4. CASE sim.starting # {}
        <2> DEFINE n == Min(sim.starting)
                   u == [sim EXCEPT !.starting = @ \ {n}]
        <2>1. sim' = startNode(u, n) /\ pc' = pc
            BY <1>4 DEF start
        <2>2. n \in Nodes
            <3>1. sim.starting \subseteq Nodes /\ Nodes \subseteq Nat
                BY <1>1, SimulatorConstants DEF Clock
            <3>2. Min(sim.starting) \in sim.starting
                BY <3>1, <1>4, FirstPosition
            <3> QED  BY <3>1, <3>2
        <2> HIDE DEF n
        <2>3. Only(sim, u, {"starting"}) /\ u.starting = sim.starting \ {n}
            BY <1>1 DEF Only, Fields
        <2> HIDE DEF u
        <2>4. SimInv(sim') /\ sim'.now = 0 /\ sim'.starting = sim.starting \ {n}
            BY <2>1, <2>2, <2>3, <1>1, <1>2, StartKeeps
        <2> QED  BY <2>1, <2>4, <1>1, <1>2, <1>3 DEF Inv, Clock
    <1>5. CASE sim.starting = {}
        <2>1. sim' = [sim EXCEPT !.now = 1] /\ pc' = "read"
            BY <1>5 DEF start
        <2>2. SimInv(sim') /\ sim'.now = 1 /\ Only(sim, sim', {"now"})
            BY <2>1, <1>1, <1>2, ClockAdvances
        <2>3. sim'.starting = {}
            BY <2>2, <1>1, <1>5 DEF Only, Fields
        <2> QED  BY <2>1, <2>2, <2>3, <1>1, <1>2, <1>3, SimulatorConstants DEF Inv, Clock
    <1> QED  BY <1>4, <1>5

LEMMA InvReadFile ==
    ASSUME Inv, sim.sending = {}, readCommandFile
    PROVE  Inv'
PROOF
    <1> DEFINE x == nowMs(sim) * MicrosPerMs
               line == parseLine(Head(script), x)
    <1>1. /\ SimInv(sim) /\ Unread /\ Clock /\ Shape(sim) /\ sim.now \in Nat
          /\ pc = "read" /\ UNCHANGED <<topo, input, lines, stopping>>
        BY DEF Inv, SimInv, Shape, readCommandFile
    <1>2. x \in Int
        <2>1. nowMs(sim) \in Nat
            BY <1>1, MsOfNow
        <2> QED  BY <2>1, ParserConstants
    <1>3. CASE script = <<>>
        <2>1. deferTill' = -1 /\ pc' = "wait" /\ UNCHANGED <<sim, script>>
            BY <1>3 DEF readCommandFile
        <2> QED  BY <2>1, <1>1 DEF Inv, Unread, Clock
    <1>4. CASE script # <<>>
        <2>1. /\ sim' = execute(sim, line) /\ script' = Tail(script)
              /\ deferTill' = IF line.op = "defer" THEN Max({line.till, 0}) ELSE 0
              /\ pc' \in {"exited", "wait"}
            BY <1>4 DEF readCommandFile
        <2> HIDE DEF x
        <2>2. Head(script) \in Lines /\ Tail(script) \in Seq(Lines)
            BY <1>1, <1>4, NextLine DEF Unread
        <2>3. line.op = "defer" => line.till \in Int
            BY <1>2, <2>2, Parsed
        <2>4. SimInv(sim') /\ sim'.now = sim.now /\ sim'.starting = sim.starting
            BY <1>1, <1>2, <2>1, <2>2, ExecuteKeeps
        <2> HIDE DEF line
        <2>5. deferTill' \in Nat
            <3>1. CASE line.op = "defer"
                <4> DEFINE a == line.till
                <4>1. a \in Int
                    BY <3>1, <2>3
                <4> HIDE DEF a
                <4>2. Max({a, 0}) \in {a, 0} /\ 0 <= Max({a, 0})
                    BY <4>1, Larger
                <4>3. Max({a, 0}) \in Nat
                    BY <4>1, <4>2
                <4> QED  BY <4>3, <3>1, <2>1 DEF a
            <3>2. CASE line.op # "defer"
                BY <3>2, <2>1
            <3> QED  BY <3>1, <3>2
        <2>6. Unread'
            BY <1>1, <2>1, <2>2 DEF Unread
        <2>7. Clock'
            BY <1>1, <2>1, <2>4, <2>5 DEF Clock
        <2> QED  BY <2>4, <2>6, <2>7 DEF Inv
    <1> QED  BY <1>3, <1>4

LEMMA DeltaTime ==
    ASSUME Inv
    PROVE  deltaTime \in Int
PROOF
    <1>1. QueueOK(sim.events) /\ sim.now \in Int /\ deferTill \in Int
        BY DEF Inv, SimInv, Shape, Clock
    <1>2. sim.events # <<>> => sim.events[1].time \in Int
        <2>1. ASSUME sim.events # <<>>  PROVE  sim.events[1].time \in Int
            <3>1. 1 \in 1 .. Len(sim.events)
                BY <2>1, <1>1, QueueTail
            <3> QED  BY <3>1, <1>1 DEF QueueOK, EventOK
        <2> QED  BY <2>1
    <1> QED  BY <1>1, <1>2 DEF deltaTime

LEMMA InvUserInput ==
    ASSUME Inv, sim.sending = {}, userInput
    PROVE  Inv'
PROOF
    <1> DEFINE m == Max({deltaTime, 0})
    <1>1. /\ SimInv(sim) /\ Unread /\ Clock /\ Fields \subseteq DOMAIN sim /\ sim.now \in Nat
          /\ pc = "wait" /\ lines # <<>> /\ lines' = Tail(lines)
          /\ UNCHANGED <<topo, script, deferTill, input, stopping>>
        BY DEF Inv, SimInv, Shape, userInput
    <1>2. m \in Int
        <2> DEFINE a == deltaTime
        <2>1. a \in Int
            BY DeltaTime
        <2> HIDE DEF a
        <2>2. Max({a, 0}) \in {a, 0}
            BY <2>1, Larger
        <2>3. Max({a, 0}) \in Int
            BY <2>1, <2>2
        <2> QED  BY <2>3 DEF a
    <1>3. PICK elapsed \in 0 .. m + MaxLate :
            LET s == [sim EXCEPT !.now = @ + elapsed]
                line == parseLine(Head(lines), s.now)
            IN  /\ s.now <= MaxTime
                /\ sim' = execute(s, line)
                /\ pc' = IF line.op = "exit" THEN "exited" ELSE "read"
        BY DEF userInput
    <1> HIDE DEF m
    <1> DEFINE x == sim.now + elapsed
               s == [sim EXCEPT !.now = x]
               line == parseLine(Head(lines), s.now)
    <1>4. /\ s.now <= MaxTime /\ sim' = execute(s, line)
          /\ pc' \in {"exited", "read"}
        BY <1>3
    <1>5. x \in Nat /\ sim.now <= x
        BY <1>1, <1>2, <1>3, SimulatorConstants
    <1> HIDE DEF x
    <1>6. SimInv(s) /\ s.now = x /\ Only(sim, s, {"now"})
        BY <1>1, <1>5, ClockAdvances
    <1> HIDE DEF s
    <1>7. s.sending = {} /\ s.starting = sim.starting
        BY <1>1, <1>6 DEF Only, Fields
    <1>8. Head(lines) \in Lines /\ Tail(lines) \in Seq(Lines)
        BY <1>1, NextLine DEF Unread
    <1>9. SimInv(sim') /\ sim'.now = s.now /\ sim'.starting = s.starting
        BY <1>4, <1>5, <1>6, <1>7, <1>8, ExecuteKeeps
    <1> HIDE DEF line
    <1>10. Unread'
        BY <1>1, <1>8 DEF Unread
    <1>11. Clock'
        BY <1>1, <1>4, <1>5, <1>6, <1>7, <1>9 DEF Clock
    <1> QED  BY <1>9, <1>10, <1>11 DEF Inv

LEMMA InvAdvance ==
    ASSUME Inv, advance
    PROVE  Inv'
PROOF
    <1> DEFINE a == sim.now
               b == sim.now + deltaTime
               x == Max({a, b})
    <1>1. /\ SimInv(sim) /\ Unread /\ Clock /\ Fields \subseteq DOMAIN sim /\ sim.now \in Nat
          /\ pc = "wait" /\ pc' = "run" /\ sim'.now <= MaxTime
          /\ sim' = [sim EXCEPT !.now = x]
          /\ UNCHANGED <<topo, script, deferTill, input, lines, stopping>>
        BY DEF Inv, SimInv, Shape, advance
    <1>2. a \in Int /\ b \in Int
        BY <1>1, DeltaTime
    <1> HIDE DEF b
    <1>3. x \in {a, b} /\ a <= x
        <2> HIDE DEF a
        <2> QED  BY <1>2, Larger
    <1>4. x \in Nat /\ sim.now <= x
        <2> HIDE DEF x
        <2> QED  BY <1>1, <1>2, <1>3
    <1> HIDE DEF x
    <1>5. SimInv(sim') /\ sim'.now = x /\ Only(sim, sim', {"now"})
        BY <1>1, <1>4, ClockAdvances
    <1>6. sim'.starting = sim.starting
        BY <1>1, <1>5 DEF Only, Fields
    <1>7. Unread'
        BY <1>1 DEF Unread
    <1>8. Clock'
        BY <1>1, <1>4, <1>5, <1>6 DEF Clock
    <1> QED  BY <1>5, <1>7, <1>8 DEF Inv

LEMMA InvRunEvent ==
    ASSUME Inv, sim.sending = {}, runEvent
    PROVE  Inv'
PROOF
    <1> DEFINE w == sim.events[1].what
               u == [sim EXCEPT !.events = Tail(@)]
    <1>1. /\ SimInv(sim) /\ Unread /\ Clock /\ Fields \subseteq DOMAIN sim
          /\ pc = "run" /\ sim.events # <<>>
          /\ UNCHANGED <<topo, script, deferTill, input, lines, stopping>>
        BY DEF Inv, SimInv, Shape, runEvent, isDue
    <1>2. \/ w.type = "pkt" /\ sim' = deliverPkt(u, w) /\ pc' = pc
          \/ w.type = "pingTimedOut" /\ sim' = pingTimedOut(u, w.node) /\ pc' = pc
          \/ w.type = "retransmissionTick" /\ sim' = retransmissionTick(u, w.node) /\ pc' = pc
          \/ w.type = "topo" /\ sim' = u /\ pc' = "topo"
        BY DEF runEvent
    <1>3. Only(sim, u, {"events"}) /\ u.events = Tail(sim.events)
        BY <1>1 DEF Only, Fields
    <1> HIDE DEF w, u
    <1>4. w = sim.events[1].what
        BY DEF w
    <1>5. SimInv(sim') /\ sim'.now = sim.now /\ sim'.starting = sim.starting
        <2>1. CASE w.type = "pkt" /\ sim' = deliverPkt(u, w)
            BY <2>1, <1>1, <1>3, <1>4, DeliverKeeps
        <2>2. CASE w.type = "pingTimedOut" /\ sim' = pingTimedOut(u, w.node)
            BY <2>2, <1>1, <1>3, <1>4, TimeoutKeeps
        <2>3. CASE w.type = "retransmissionTick" /\ sim' = retransmissionTick(u, w.node)
            BY <2>3, <1>1, <1>3, <1>4, TickKeeps
        <2>4. CASE w.type = "topo" /\ sim' = u
            BY <2>4, <1>1, <1>3, <1>4, TickKeeps
        <2> QED  BY <2>1, <2>2, <2>3, <2>4, <1>2
    <1>6. pc' \in {"run", "topo"}
        BY <1>1, <1>2
    <1>7. Unread'
        BY <1>1 DEF Unread
    <1>8. Clock'
        BY <1>1, <1>5, <1>6 DEF Clock
    <1> QED  BY <1>5, <1>7, <1>8 DEF Inv

LEMMA InvSendCopy ==
    ASSUME Inv, sendCopy
    PROVE  Inv'
PROOF
    <1>1. /\ SimInv(sim) /\ Unread /\ Clock /\ Fields \subseteq DOMAIN sim
          /\ UNCHANGED <<pc, topo, script, deferTill, input, lines, stopping>>
        BY DEF Inv, SimInv, Shape, sendCopy
    <1>2. PICK copy \in sim.sending :
            LET s == [sim EXCEPT !.sending = @ \ {copy}, !.given = @ + 1,
                                 !.broadcast[copy.from] =
                                    IF copy.pkt.dest = BROADCAST_ADDRESS THEN @ + 1 ELSE @]
            IN  \E lost \in losses(sim.edges[{copy.from, copy.to}]) :
                    sim' = schedulePkt(s, copy, lost)
        BY DEF sendCopy
    <1> DEFINE s == [sim EXCEPT !.sending = @ \ {copy}, !.given = @ + 1,
                                !.broadcast[copy.from] =
                                   IF copy.pkt.dest = BROADCAST_ADDRESS THEN @ + 1 ELSE @]
    <1>3. PICK lost \in losses(sim.edges[{copy.from, copy.to}]) :
            sim' = schedulePkt(s, copy, lost)
        BY <1>2
    <1>4. Handed(s, copy) /\ Only(sim, s, {"sending", "given", "broadcast"})
        BY <1>1, CopyHanded
    <1> HIDE DEF s
    <1>5. s.now = sim.now /\ s.starting = sim.starting
        BY <1>1, <1>4 DEF Only, Fields
    <1>6. SimInv(sim') /\ sim'.now = s.now /\ sim'.starting = s.starting
        BY <1>3, <1>4, CopyKeeps
    <1>7. Unread'
        BY <1>1 DEF Unread
    <1>8. Clock'
        BY <1>1, <1>5, <1>6 DEF Clock
    <1> QED  BY <1>6, <1>7, <1>8 DEF Inv

\* One step per action.
LEMMA InvNext ==
    Inv /\ [Next]_vars => Inv'
PROOF
    <1> SUFFICES ASSUME Inv, [Next]_vars  PROVE  Inv'
        OBVIOUS
    <1>0. SimInv(sim) /\ Unread /\ Clock /\ sim.now \in Nat
        BY DEF Inv, SimInv, Shape
    <1>1. CASE sendCopy
        BY <1>1, InvSendCopy
    <1>2. CASE sim.sending = {} /\ parseRemainder
        BY <1>2, InvParse
    <1>3. CASE topoParsed
        <2>1. Clock'
            BY <1>0, <1>3 DEF topoParsed, afterTopo, Clock
        <2>2. SimInv(sim') /\ Unread'
            BY <1>0, <1>3 DEF topoParsed, Unread
        <2> QED  BY <2>1, <2>2 DEF Inv
    <1>4. CASE start
        BY <1>4, InvStart
    <1>5. CASE sim.sending = {} /\ readCommandFile
        BY <1>5, InvReadFile
    <1>6. CASE nothingToRead
        <2>1. Clock'
            BY <1>0, <1>6 DEF nothingToRead, Clock
        <2>2. SimInv(sim') /\ Unread'
            BY <1>0, <1>6 DEF nothingToRead, Unread
        <2> QED  BY <2>1, <2>2 DEF Inv
    <1>7. CASE sim.sending = {} /\ userInput
        BY <1>7, InvUserInput
    <1>8. CASE advance
        BY <1>8, InvAdvance
    <1>9. CASE sim.sending = {} /\ runEvent
        BY <1>9, InvRunEvent
    <1>10. CASE eventsDone
        <2>1. Clock'
            BY <1>0, <1>10 DEF eventsDone, Clock
        <2>2. SimInv(sim') /\ Unread'
            BY <1>0, <1>10 DEF eventsDone, Unread
        <2> QED  BY <2>1, <2>2 DEF Inv
    <1>11. CASE pushLine
        <2>1. Clock' /\ SimInv(sim')
            BY <1>0, <1>11 DEF pushLine, Clock
        <2>2. Head(input) \in Lines /\ Tail(input) \in Seq(Lines)
            BY <1>0, <1>11, NextLine DEF pushLine, Unread
        <2>3. Append(lines, Head(input)) \in Seq(Lines)
            BY <1>0, <2>2 DEF Unread
        <2>4. Unread'
            BY <1>0, <1>11, <2>2, <2>3 DEF pushLine, Unread
        <2> QED  BY <2>1, <2>4 DEF Inv
    <1>12. CASE endOfInput
        <2>1. Clock' /\ SimInv(sim') /\ Unread'
            BY <1>0, <1>12 DEF endOfInput, Clock, Unread
        <2> QED  BY <2>1 DEF Inv
    <1>13. CASE UNCHANGED vars
        <2>1. Clock' /\ SimInv(sim') /\ Unread'
            BY <1>0, <1>13 DEF vars, Clock, Unread
        <2> QED  BY <2>1 DEF Inv
    <1> QED  BY <1>1, <1>2, <1>3, <1>4, <1>5, <1>6, <1>7, <1>8, <1>9, <1>10, <1>11,
                <1>12, <1>13 DEF Next, Main

\* The inductive invariant holds in every state of the simulation.
THEOREM Invariant ==
    Spec => []Inv
PROOF
    BY InvInit, InvNext, PTL DEF Spec

-----------------------------------------------------------------------------
(* What it says of the simulation. *)

\* The clock and the places of the loop keep their types, and the event queue that
\* the loop of Simulator::start takes from is always sorted.
THEOREM SimTypes ==
    Spec => []TypeOK
PROOF
    <1>1. ASSUME Inv  PROVE  TypeOK
        <2>1. Clock /\ Shape(sim) /\ sim.now \in Nat
            BY <1>1 DEF Inv, SimInv, Shape
        <2>2. sim.now \in 0 .. MaxTime
            BY <2>1, SimulatorConstants DEF Clock
        <2>3. Sorted(sim.events) /\ Len(sim.events) \in Nat
            BY <2>1, ListedDomain DEF Shape, QueueOK
        <2>4. ASSUME NEW i \in 2 .. Len(sim.events)
              PROVE  sim.events[i - 1].time <= sim.events[i].time
            <3>1. i - 1 \in 1 .. Len(sim.events) /\ i \in 1 .. Len(sim.events) /\ i - 1 < i
                BY <2>3
            <3> QED  BY <3>1, <2>3 DEF Sorted
        <2> QED  BY <2>1, <2>2, <2>4 DEF TypeOK, Clock
    <1> QED  BY <1>1, Invariant, PTL

\* The facts that the next theorems read off the packets on their way.
LEMMA OnTheirWay ==
    ASSUME Inv
    PROVE  /\ inFlight = Flight(sim.events)
           /\ \A i \in inFlight : OnTime(sim, sim.events[i])
           /\ \A i, j \in inFlight :
                i < j => Ordered(sim, sim.events[i].what, sim.events[j].what)
PROOF
    <1>1. inFlight = Flight(sim.events)
        BY DEF inFlight, Flight
    <1>2. FlightsOf(sim, sim.events)
        BY DEF Inv, SimInv, Flights
    <1> QED  BY <1>1, <1>2 DEF FlightsOf

\* Edge::schedulePkt with OrderedEventQueue: as long as the options of an edge
\* stay, it delivers in the order of sending, however packets are lost and dropped.
THEOREM LinksKeepOrder ==
    Spec => []LinkInOrder
PROOF
    <1>1. ASSUME Inv  PROVE  LinkInOrder
        <2> SUFFICES ASSUME NEW i \in inFlight,
                            {sim.events[i].what.from, sim.events[i].what.to} \notin sim.changed
                     PROVE  LET w == sim.events[i].what
                            IN  /\ sim.last[<<w.from, w.to>>] < w.pkt.no
                                /\ \A j \in inFlight :
                                    LET v == sim.events[j].what
                                    IN  i < j /\ v.from = w.from /\ v.to = w.to =>
                                            w.pkt.no < v.pkt.no
            BY DEF LinkInOrder
        <2>1. OnTime(sim, sim.events[i])
            BY <1>1, OnTheirWay
        <2>2. \A j \in inFlight : i < j =>
                Ordered(sim, sim.events[i].what, sim.events[j].what)
            BY <1>1, OnTheirWay
        <2> QED  BY <2>1, <2>2, Zenon DEF OnTime, Ordered
    <1> QED  BY <1>1, Invariant, PTL

\* Edge::schedulePkt drops what would wait for too long: no packet is ever further
\* away than the time of the buffer and the delay of its edge.
THEOREM QueueingBounded ==
    Spec => []BoundedQueueing
PROOF
    <1>1. ASSUME Inv  PROVE  BoundedQueueing
        <2>1. \A i \in inFlight : OnTime(sim, sim.events[i])
            BY <1>1, OnTheirWay
        <2> QED  BY <2>1, Zenon DEF OnTime, BoundedQueueing
    <1> QED  BY <1>1, Invariant, PTL

\* The statistics of RuntimeManager::stop account for every copy that an edge was
\* given: it has arrived, is on its way, or is counted as dropped or lost.
THEOREM PacketsConserved ==
    Spec => []Conservation
PROOF
    <1>1. ASSUME Inv  PROVE  Conservation
        BY <1>1, OnTheirWay DEF Inv, SimInv, Counted, Conservation
    <1> QED  BY <1>1, Invariant, PTL

\* StackNode::pingTimedOut comes back in time: whenever no event is due, no ping has
\* been waiting for more than two periods of the timer.
THEOREM PingsTimeOut ==
    Spec => []PingAge
PROOF
    <1>1. ASSUME Inv  PROVE  PingAge
        <2> SUFFICES ASSUME ~isDue, NEW n \in Nodes, NEW p \in sim.pings[n]
                     PROVE  nowMs(sim) <= p.timeSentMs + 2 * PING_TIMEOUT_MS
            BY DEF PingAge
        <2>1. /\ Shape(sim) /\ Timers(sim) /\ Clock /\ sim.now \in Nat
              /\ QueueOK(sim.events) /\ Listed(sim.events)
            BY <1>1 DEF Inv, SimInv, Shape, QueueOK
        <2>2. p.timeSentMs \in Nat /\ nowMs(sim) \in Nat
            BY <2>1, MsOfNow DEF Shape, PingsOK
        <2>3. CASE n \in sim.starting
            <3>1. sim.now = 0
                BY <2>1, <2>3 DEF Clock
            <3>2. nowMs(sim) = 0
                BY <3>1, ParserConstants DEF nowMs
            <3> QED  BY <3>2, <2>2, SimulatorConstants
        <2>4. CASE n \notin sim.starting
            <3>1. PICK i \in DOMAIN sim.events : Timer(sim, n, sim.events[i])
                BY <2>1, <2>4 DEF Timers, TimerIn
            <3>2. PICK k \in 0 .. nowMs(sim) + PING_TIMEOUT_MS :
                    /\ sim.events[i].time = k * MicrosPerMs
                    /\ \A r \in sim.pings[n] : k <= r.timeSentMs + 2 * PING_TIMEOUT_MS
                BY <3>1, Zenon DEF Timer
            <3>3. i \in 1 .. Len(sim.events) /\ Len(sim.events) \in Nat
                BY <2>1, ListedDomain
            <3>4. 1 \in 1 .. Len(sim.events) /\ sim.events # <<>>
                BY <3>3
            <3>5. /\ sim.events[1].time \in Nat /\ sim.events[i].time \in Nat
                  /\ sim.events[1].time <= sim.events[i].time
                BY <3>3, <3>4, <2>1 DEF QueueOK, EventOK, Sorted
            <3>6. sim.now < sim.events[1].time
                BY <3>4, <3>5, <2>1 DEF isDue
            <3>7. sim.now < k * MicrosPerMs
                <4> DEFINE x == k * MicrosPerMs
                <4>1. x = sim.events[i].time
                    BY <3>2
                <4> HIDE DEF x
                <4>2. sim.now < x
                    BY <4>1, <3>5, <3>6, <2>1
                <4> QED  BY <4>2 DEF x
            <3>8. k \in Nat /\ nowMs(sim) < k
                BY <3>2, <3>7, <2>1, <2>2, MsOfNow
            <3>9. k <= p.timeSentMs + 2 * PING_TIMEOUT_MS
                BY <3>2
            <3> QED  BY <3>8, <3>9, <2>2, SimulatorConstants
        <2> QED  BY <2>3, <2>4
    <1> QED  BY <1>1, Invariant, PTL

\* StackNode::receivePingReply: a reply is unexpected only when its ping has timed
\* out or was broadcast, and every ping and reply on its way has an entry that
\* waits for it, or had one.
THEOREM RepliesFound ==
    Spec => []RepliesAccounted
PROOF
    <1>1. ASSUME Inv  PROVE  RepliesAccounted
        <2> SUFFICES ASSUME NEW n \in Nodes
                     PROVE  LET mine == {i \in inFlight :
                                        LET w == sim.events[i].what
                                        IN  IF w.pkt.protocol = "PING_PKT"
                                            THEN w.from = n ELSE w.to = n}
                            IN  Cardinality(mine) + sim.unexpected[n]
                                <= Cardinality(sim.pings[n]) + sim.timedOut[n]
                                    + sim.broadcast[n]
            BY DEF RepliesAccounted
        <2> DEFINE mine == {i \in inFlight :
                              LET w == sim.events[i].what
                              IN  IF w.pkt.protocol = "PING_PKT"
                                  THEN w.from = n ELSE w.to = n}
        <2>1. mine = FlightOf(sim.events, n)
            BY <1>1, OnTheirWay DEF FlightOf, Mine
        <2>2. Shape(sim) /\ Room(sim, n, Pending(sim, n))
            BY <1>1 DEF Inv, SimInv, Replies
        <2>3. /\ Cardinality(FlightOf(sim.events, n)) \in Nat
              /\ Cardinality(sim.pings[n]) \in Nat
              /\ sim.unexpected[n] \in Nat /\ sim.timedOut[n] \in Nat
              /\ sim.broadcast[n] \in Nat
            BY <2>2, RoomNumbers
        <2>4. Pending(sim, n) \in {0, 1}
            BY DEF Pending
        <2>5. Cardinality(FlightOf(sim.events, n)) + sim.unexpected[n]
                <= Cardinality(sim.pings[n]) + sim.timedOut[n] + sim.broadcast[n]
            BY <2>2, <2>3, <2>4 DEF Room
        <2> HIDE DEF mine
        <2> QED  BY <2>1, <2>5 DEF mine
    <1> QED  BY <1>1, Invariant, PTL

=============================================================================
