---------------------------- MODULE EmulationProofs ----------------------------
(***************************************************************************)
(* A process that runs holds its address: AddressHeld, for every number of *)
(* processes and addresses, every topology file and every ping.            *)
(*                                                                         *)
(* The operators of Trawler make a trawler of a trawler by writing lines   *)
(* and by changing the topology.  Tells(m, r) says what they all have in   *)
(* common: no node comes or goes, one dies only of a failed write, and only*)
(* to the processes of nodes are lines added, after those there were.      *)
(*                                                                         *)
(* The second part is about what the lines say: TypeOK and ArpAgrees.      *)
(* Settled(m, a, b, q, cache) says what a process at address a will know of*)
(* address b when it has read the lines q, and Informs(m, r) that whatever *)
(* the trawler wrote on its way from m to r keeps that as it should be.    *)
(***************************************************************************)
EXTENDS Emulation, FiniteSetTheorems, SequenceTheorems, NaturalsInduction, TLAPS

\* A sequence, of whatever.
Listed(q) == q \in Seq(Range(q))

\* r is q, possibly with more behind.
Begins(q, r) == q # <<>> => r # <<>> /\ r[1] = q[1]

Nodes(m) == DOMAIN m.nodes

\* The process p has a node.
Registered(m, p) == \E a \in Nodes(m) : m.nodes[a].proc = p

\* A trawler: the fields that matter here.
Shape(m) ==
    /\ {"edges", "failedNodes", "nodes", "out", "broken", "writeFailed"} \subseteq DOMAIN m
    /\ Nodes(m) \subseteq 0 .. BROADCAST_ADDRESS - 1
    /\ \A a \in Nodes(m) :
        {"proc", "alive"} \subseteq DOMAIN m.nodes[a] /\ m.nodes[a].proc \in Procs
    /\ DOMAIN m.out = Procs
    /\ \A p \in Procs : Listed(m.out[p])

Tells(m, r) ==
    /\ Shape(r)
    /\ r.broken = m.broken
    /\ Nodes(r) = Nodes(m)
    /\ \A a \in Nodes(m) :
        /\ r.nodes[a].proc = m.nodes[a].proc
        /\ ~r.nodes[a].alive => ~m.nodes[a].alive \/ m.nodes[a].proc \in m.broken
    /\ \A p \in Procs :
        Begins(m.out[p], r.out[p]) /\ (r.out[p] # m.out[p] => Registered(m, p))

-----------------------------------------------------------------------------
(* The invariant. *)

waiting == client \cup Range(queue)

\* The first line on its way to p.
First(p) == inbox[p][1]

\* Between two steps nothing is about to be written.
TrawlerShape ==
    /\ Shape(t) /\ t.out = [p \in Procs |-> <<>>] /\ t.broken = {}
    /\ queue \in Seq(Procs)

ProcessTypes ==
    /\ DOMAIN inbox = Procs /\ DOMAIN addr = Procs
    /\ status \in [Procs -> {"off", "connected", "asked", "running", "gone"}]
    /\ \A p \in Procs : Listed(inbox[p])
    /\ client \subseteq Procs

\* Who waits to be accepted does so once.
QueuedOnce ==
    /\ IsInjective(queue)
    /\ client \cap Range(queue) = {}

\* checkNodesQuit removes only nodes whose process has ended.
DeadAreGone == \A a \in Nodes(t) : ~t.nodes[a].alive => t.nodes[a].proc \in gone

\* Nothing was said to a process that has not said its port, or that waits.
NotYetTold ==
    /\ \A p \in Procs : status[p] \in {"off", "connected"} =>
        ~Registered(t, p) /\ inbox[p] = <<>> /\ p \notin asked
    /\ \A p \in waiting :
        ~Registered(t, p) /\ inbox[p] = <<>> /\ status[p] \notin {"off", "running"}

\* The first line to a process is the address it has, or the refusal.
FirstLine ==
    \A p \in Procs : status[p] = "asked" =>
        /\ Registered(t, p) => inbox[p] # <<>>
        /\ inbox[p] # <<>> =>
            \/ First(p) = <<ToString(BROADCAST_ADDRESS)>>
            \/ \E a \in Nodes(t) : t.nodes[a].proc = p /\ First(p) = <<ToString(a)>>

Held == \A p \in running : addr[p] \in Nodes(t) /\ t.nodes[addr[p]].proc = p

Core ==
    /\ TrawlerShape
    /\ ProcessTypes
    /\ QueuedOnce
    /\ DeadAreGone
    /\ NotYetTold
    /\ FirstLine
    /\ Held

\* The loop of checkNodesQuit comes to nodes that are there.
Inv == Core /\ visit \subseteq Nodes(t)

-----------------------------------------------------------------------------
(* Sequences, the order of a set, and the lowest number. *)

LEMMA ListedIs ==
    ASSUME NEW S, NEW q \in Seq(S)
    PROVE  Listed(q)
PROOF
    BY SeqOfRange, Zenon DEF Listed

LEMMA Singles ==
    ASSUME NEW x
    PROVE  Listed(<<x>>) /\ <<x>> # <<>> /\ Listed(<<>>)
PROOF
    <1>1. <<x>> \in Seq({x}) /\ <<>> \in Seq({x})
        OBVIOUS
    <1>2. <<x>> # <<>>
        OBVIOUS
    <1> QED  BY <1>1, <1>2, ListedIs, Zenon

LEMMA ConcatAny ==
    ASSUME NEW q, NEW r, Listed(q), Listed(r)
    PROVE  /\ Listed(q \o r)
           /\ Begins(q, q \o r)
           /\ q = <<>> => q \o r = r
           /\ q \o <<>> = q
           /\ q # <<>> \/ r # <<>> => q \o r # <<>>
PROOF
    <1> DEFINE S == Range(q) \cup Range(r)
    <1>1. /\ q \in Seq(Range(q)) /\ Range(q) \subseteq S
          /\ r \in Seq(Range(r)) /\ Range(r) \subseteq S
        BY DEF Listed
    <1> HIDE DEF S
    <1>2. q \in Seq(S) /\ r \in Seq(S)
        BY <1>1, SeqMonotonic, Zenon
    <1>3. q \o r \in Seq(S)
        BY <1>2
    <1>4. Listed(q \o r)
        BY <1>3, ListedIs, Zenon
    <1>5. ASSUME q # <<>>  PROVE  q \o r # <<>> /\ (q \o r)[1] = q[1]
        <2>1. Len(q) \in Nat /\ Len(q) # 0 /\ Len(r) \in Nat
            BY <1>2, <1>5
        <2>2. Len(q \o r) = Len(q) + Len(r) /\ (q \o r)[1] = q[1]
            BY <1>2, <2>1
        <2> QED  BY <2>1, <2>2, <1>3
    <1>6. ASSUME r # <<>>  PROVE  q \o r # <<>>
        <2>1. Len(q) \in Nat /\ Len(r) # 0 /\ Len(r) \in Nat
            BY <1>2, <1>6
        <2>2. Len(q \o r) = Len(q) + Len(r)
            BY <1>2, <2>1
        <2> QED  BY <2>1, <2>2, <1>3
    <1>7. q \o <<>> = q /\ <<>> \o r = r
        BY <1>2
    <1> QED  BY <1>4, <1>5, <1>6, <1>7, Zenon DEF Begins

LEMMA TailAny ==
    ASSUME NEW q, Listed(q), q # <<>>
    PROVE  Listed(Tail(q))
PROOF
    <1>1. Tail(q) \in Seq(Range(q))
        BY HeadTailProperties, Zenon DEF Listed
    <1> QED  BY <1>1, ListedIs, Zenon

\* SetToSeq(S) is a sequence if S is finite.
LEMMA OrderIsSeq ==
    ASSUME NEW S, IsFiniteSet(S)
    PROVE  SetToSeq(S) \in Seq(S)
PROOF
    <1> DEFINE n == Cardinality(S)
    <1>1. n \in Nat /\ ExistsBijection(1 .. n, S)
        BY FS_CardinalityType, Zenon
    <1> HIDE DEF n
    <1>2. PICK f : f \in Bijection(1 .. n, S)
        BY <1>1, Zenon DEF ExistsBijection
    <1>3. f \in [1 .. n -> S] /\ IsInjective(f)
        BY <1>2, Zenon DEF Bijection, Injection
    <1>4. SetToSeq(S) \in [1 .. n -> S]
        BY <1>3, Zenon DEF SetToSeq, n
    <1> QED  BY <1>1, <1>4

-----------------------------------------------------------------------------
(* What the operations of Trawler have in common. *)

LEMMA TellsNothing ==
    ASSUME NEW m, Shape(m)
    PROVE  Tells(m, m)
PROOF
    BY Zenon DEF Tells, Begins

LEMMA TellsBoth ==
    ASSUME NEW m, NEW r, NEW s, Tells(m, r), Tells(r, s)
    PROVE  Tells(m, s)
PROOF
    <1>1. /\ Shape(s)
          /\ s.broken = m.broken
          /\ Nodes(s) = Nodes(m)
        BY Zenon DEF Tells
    <1>2. ASSUME NEW a \in Nodes(m)
          PROVE  /\ s.nodes[a].proc = m.nodes[a].proc
                 /\ ~s.nodes[a].alive => ~m.nodes[a].alive \/ m.nodes[a].proc \in m.broken
        BY <1>2, Zenon DEF Tells
    <1>3. ASSUME NEW p \in Procs
          PROVE  Begins(m.out[p], s.out[p])
        BY <1>3, Zenon DEF Tells, Begins
    <1>4. ASSUME NEW p \in Procs, s.out[p] # m.out[p]
          PROVE  Registered(m, p)
        <2>1. Registered(m, p) \/ Registered(r, p)
            BY <1>4, Zenon DEF Tells
        <2>2. ASSUME NEW a \in Nodes(r), r.nodes[a].proc = p
              PROVE  Registered(m, p)
            BY <2>2, Zenon DEF Tells, Registered
        <2> QED  BY <2>1, <2>2, Zenon DEF Registered
    <1> QED  BY <1>1, <1>2, <1>3, <1>4, Zenon DEF Tells

\* The topology is no line and no node.
LEMMA TopologyTells ==
    ASSUME NEW m, Shape(m), NEW x
    PROVE  /\ Tells(m, [m EXCEPT !.edges = x])
           /\ Tells(m, [m EXCEPT !.failedNodes = x])
PROOF
    <1> DEFINE r == [m EXCEPT !.edges = x]
               s == [m EXCEPT !.failedNodes = x]
    <1>1. /\ DOMAIN r = DOMAIN m /\ r.nodes = m.nodes /\ r.out = m.out
          /\ r.broken = m.broken
        BY DEF Shape
    <1>2. /\ DOMAIN s = DOMAIN m /\ s.nodes = m.nodes /\ s.out = m.out
          /\ s.broken = m.broken
        BY DEF Shape
    <1> HIDE DEF r, s
    <1>3. Shape(r) /\ Shape(s)
        BY <1>1, <1>2, Zenon DEF Shape, Nodes
    <1>4. Tells(m, r) /\ Tells(m, s)
        BY <1>1, <1>2, <1>3, Zenon DEF Tells, Begins, Nodes
    <1> QED  BY <1>4 DEF r, s

\* The lines of the topology's operations, each of which changes one field.
LEMMA ChangesTell ==
    ASSUME NEW m, Shape(m), NEW a, NEW b, NEW v
    PROVE  /\ Tells(m, newEdge(m, a, b, v))
           /\ Tells(m, changeEdge(m, {a, b}, v))
           /\ Tells(m, changeNode(m, a, v))
PROOF
    <1>1. \A ends, e : Tells(m, putEdge(m, ends, e))
        BY TopologyTells DEF putEdge
    <1>2. Tells(m, newEdge(m, a, b, v))
        BY <1>1, Zenon DEF newEdge
    <1>3. Tells(m, changeEdge(m, {a, b}, v))
        BY <1>1, TellsNothing, Zenon DEF changeEdge
    <1>4. Tells(m, changeNode(m, a, v))
        BY TopologyTells DEF changeNode
    <1> QED  BY <1>2, <1>3, <1>4

LEMMA WriteLinesTells ==
    ASSUME NEW m, Shape(m), NEW lines, DOMAIN lines \subseteq Nodes(m),
           \A a \in DOMAIN lines : Listed(lines[a])
    PROVE  Tells(m, writeLines(m, lines))
PROOF
    <1> DEFINE failing == {a \in DOMAIN lines : lines[a] # <<>> /\ m.nodes[a].proc \in m.broken}
               to(p) == {a \in DOMAIN lines \ failing : m.nodes[a].proc = p}
               nodes == [a \in DOMAIN m.nodes |->
                            IF a \in failing THEN [m.nodes[a] EXCEPT !.alive = FALSE]
                                             ELSE m.nodes[a]]
               out == [p \in Procs |-> IF to(p) = {} THEN m.out[p]
                                       ELSE m.out[p] \o lines[CHOOSE a \in to(p) : TRUE]]
               r == writeLines(m, lines)
    <1>1. r = [m EXCEPT !.nodes = nodes, !.out = out,
                        !.writeFailed = @ \/ failing # {}]
        BY Zenon DEF writeLines
    <1> HIDE DEF r
    <1>2. /\ DOMAIN r = DOMAIN m /\ r.nodes = nodes /\ r.out = out
          /\ r.broken = m.broken
        <2> HIDE DEF nodes, out, failing, to
        <2> QED  BY <1>1 DEF Shape
    <1>3. DOMAIN nodes = Nodes(m)
        BY DEF Nodes
    <1>4. ASSUME NEW a \in Nodes(m)
          PROVE  /\ {"proc", "alive"} \subseteq DOMAIN nodes[a]
                 /\ nodes[a].proc = m.nodes[a].proc
                 /\ nodes[a].proc \in Procs
                 /\ ~nodes[a].alive => ~m.nodes[a].alive \/ m.nodes[a].proc \in m.broken
        <2>1. {"proc", "alive"} \subseteq DOMAIN m.nodes[a] /\ m.nodes[a].proc \in Procs
            BY DEF Shape
        <2>2. CASE a \in failing
            <3>1. nodes[a] = [m.nodes[a] EXCEPT !.alive = FALSE]
                BY <2>2 DEF Nodes
            <3>2. m.nodes[a].proc \in m.broken
                BY <2>2
            <3> HIDE DEF nodes, failing
            <3> QED  BY <3>1, <3>2, <2>1
        <2>3. CASE a \notin failing
            <3>1. nodes[a] = m.nodes[a]
                BY <2>3 DEF Nodes
            <3> HIDE DEF nodes, failing
            <3> QED  BY <3>1, <2>1, Zenon
        <2> QED  BY <2>2, <2>3
    <1>5. ASSUME NEW p \in Procs
          PROVE  /\ Listed(out[p])
                 /\ Begins(m.out[p], out[p])
                 /\ out[p] # m.out[p] => Registered(m, p)
        <2>1. Listed(m.out[p])
            BY DEF Shape
        <2>2. CASE to(p) = {}
            <3>1. out[p] = m.out[p]
                BY <2>2
            <3> HIDE DEF out
            <3> QED  BY <3>1, <2>1, Zenon DEF Begins
        <2>3. CASE to(p) # {}
            <3> DEFINE c == CHOOSE a \in to(p) : TRUE
            <3>1. c \in to(p)
                BY <2>3, Zenon
            <3>2. out[p] = m.out[p] \o lines[c]
                BY <2>3
            <3>3. c \in DOMAIN lines /\ m.nodes[c].proc = p
                BY <3>1, Zenon
            <3> HIDE DEF c, out, to
            <3>4. Registered(m, p)
                BY <3>3, Zenon DEF Registered
            <3>5. Listed(lines[c])
                BY <3>3
            <3>6. Listed(m.out[p] \o lines[c]) /\ Begins(m.out[p], m.out[p] \o lines[c])
                BY <3>5, <2>1, ConcatAny, Zenon
            <3> QED  BY <3>2, <3>4, <3>6, Zenon
        <2> QED  BY <2>2, <2>3
    <1>6. Nodes(r) = Nodes(m) /\ DOMAIN r.out = Procs
        BY <1>2, <1>3, Zenon DEF Nodes
    <1> HIDE DEF nodes, out, failing, to
    <1>7. Shape(r)
        <2>1. /\ {"edges", "failedNodes", "nodes", "out", "broken", "writeFailed"}
                    \subseteq DOMAIN r
              /\ Nodes(r) \subseteq 0 .. BROADCAST_ADDRESS - 1
            BY <1>2, <1>6, Zenon DEF Shape
        <2>2. \A a \in Nodes(r) :
                {"proc", "alive"} \subseteq DOMAIN r.nodes[a] /\ r.nodes[a].proc \in Procs
            BY <1>2, <1>4, <1>6, Zenon
        <2>3. \A p \in Procs : Listed(r.out[p])
            BY <1>2, <1>5, Zenon
        <2> QED  BY <2>1, <2>2, <2>3, <1>6, Zenon DEF Shape
    <1>8. Tells(m, r)
        <2>1. ASSUME NEW a \in Nodes(m)
              PROVE  /\ r.nodes[a].proc = m.nodes[a].proc
                     /\ ~r.nodes[a].alive => ~m.nodes[a].alive \/ m.nodes[a].proc \in m.broken
            BY <1>2, <1>4, Zenon
        <2>2. ASSUME NEW p \in Procs
              PROVE  Begins(m.out[p], r.out[p]) /\ (r.out[p] # m.out[p] => Registered(m, p))
            BY <1>2, <1>5, Zenon
        <2> QED  BY <1>2, <1>6, <1>7, <2>1, <2>2, Zenon DEF Tells
    <1> QED  BY <1>8 DEF r

LEMMA WriteLineTells ==
    ASSUME NEW m, Shape(m), NEW a \in Nodes(m), NEW line
    PROVE  Tells(m, writeLine(m, a, line))
PROOF
    <1> DEFINE lines == [x \in {a} |-> <<line>>]
    <1>1. DOMAIN lines \subseteq Nodes(m) /\ \A x \in DOMAIN lines : lines[x] = <<line>>
        OBVIOUS
    <1>2. \A x \in DOMAIN lines : Listed(lines[x])
        BY <1>1, Singles, Zenon
    <1> HIDE DEF lines
    <1>3. Tells(m, writeLines(m, lines))
        BY <1>1, <1>2, WriteLinesTells, Zenon
    <1> QED  BY <1>3, Zenon DEF writeLine, lines

LEMMA RemoveAsNeighborTells ==
    ASSUME NEW m, Shape(m), NEW dying
    PROVE  Tells(m, removeAsNeighbor(m, dying))
PROOF
    <1> DEFINE lines == [a \in liveNeighbors(m, dying) |-> <<removeNeighbor(dying)>>]
    <1>1. /\ DOMAIN lines = liveNeighbors(m, dying)
          /\ \A x \in DOMAIN lines : lines[x] = <<removeNeighbor(dying)>>
        BY Zenon
    <1>2. \A x \in DOMAIN lines : Listed(lines[x])
        BY <1>1, Singles, Zenon
    <1>3. DOMAIN lines \subseteq Nodes(m)
        BY <1>1, Zenon DEF liveNeighbors, Nodes
    <1> HIDE DEF lines
    <1>4. Tells(m, writeLines(m, lines))
        BY <1>2, <1>3, WriteLinesTells, Zenon
    <1> QED  BY <1>4, Zenon DEF removeAsNeighbor, lines

LEMMA UpdateNeighborsTells ==
    ASSUME NEW m, Shape(m), NEW starting
    PROVE  Tells(m, updateNeighbors(m, starting))
PROOF
    <1> DEFINE L == liveNeighbors(m, starting)
               order == SetToSeq(L)
               own == [i \in DOMAIN order |-> addNeighborLine(m, starting, order[i])]
               lines == [a \in L \cup {starting} |->
                            IF a = starting THEN own
                            ELSE <<addNeighborLine(m, a, starting)>>]
    <1>1. CASE starting \notin Nodes(m)
        BY <1>1, TellsNothing, Zenon DEF updateNeighbors, Nodes
    <1>2. CASE starting \in Nodes(m)
        <2>1. L \subseteq Nodes(m)
            BY Zenon DEF liveNeighbors, Nodes
        <2>2. IsFiniteSet(L)
            <3> HIDE DEF L
            <3>1. 0 \in Int /\ BROADCAST_ADDRESS - 1 \in Int
                BY TrawlerConstants
            <3>2. IsFiniteSet(0 .. BROADCAST_ADDRESS - 1)
                BY <3>1, FS_Interval, Zenon
            <3>3. L \in SUBSET (0 .. BROADCAST_ADDRESS - 1)
                BY <2>1, Zenon DEF Shape
            <3> QED  BY <3>2, <3>3, FS_Subset, Zenon
        <2>3. order \in Seq(L)
            BY <2>2, OrderIsSeq, Zenon
        <2>4. Listed(own)
            <3> DEFINE S == {addNeighborLine(m, starting, order[i]) : i \in DOMAIN order}
            <3> HIDE DEF L, order
            <3>1. Len(order) \in Nat /\ DOMAIN order = 1 .. Len(order)
                BY <2>3
            <3>2. own \in [1 .. Len(order) -> S]
                <4>1. \A i \in DOMAIN order : own[i] \in S
                    BY Zenon
                <4>2. own = [i \in DOMAIN order |-> own[i]]
                    BY Zenon
                <4> HIDE DEF own, S
                <4> QED  BY <4>1, <4>2, <3>1
            <3> HIDE DEF own, S
            <3>3. own \in Seq(S)
                BY <3>1, <3>2
            <3> QED  BY <3>3, ListedIs, Zenon
        <2> HIDE DEF L, order, own
        <2>5. DOMAIN lines = L \cup {starting}
            BY Zenon
        <2>6. ASSUME NEW a \in DOMAIN lines  PROVE  Listed(lines[a])
            <3>1. CASE a = starting
                <4>1. lines[a] = own
                    BY <3>1, Zenon
                <4> QED  BY <4>1, <2>4, Zenon
            <3>2. CASE a # starting
                <4>1. lines[a] = <<addNeighborLine(m, a, starting)>>
                    BY <3>2, Zenon
                <4> HIDE DEF lines
                <4> QED  BY <4>1, Singles, Zenon
            <3> QED  BY <3>1, <3>2
        <2> HIDE DEF lines
        <2>7. DOMAIN lines \subseteq Nodes(m)
            BY <2>1, <2>5, <1>2, Zenon
        <2>8. Tells(m, writeLines(m, lines))
            BY <2>6, <2>7, WriteLinesTells, Zenon
        <2>9. updateNeighbors(m, starting) = writeLines(m, lines)
            BY <1>2, Zenon DEF updateNeighbors, Nodes, lines, own, order, L
        <2> QED  BY <2>8, <2>9, Zenon
    <1> QED  BY <1>1, <1>2

LEMMA EdgesTell ==
    ASSUME NEW m, Shape(m), NEW a, NEW b
    PROVE  /\ Tells(m, startEdge(m, a, b))
           /\ Tells(m, failEdge(m, a, b))
           /\ Tells(m, failNode(m, a))
PROOF
    <1>1. Tells(m, startEdge(m, a, b)) /\ Tells(m, failEdge(m, a, b))
        <2>1. CASE bothRegistered(m, a, b)
            <3>1. a \in Nodes(m) /\ b \in Nodes(m)
                BY <2>1 DEF bothRegistered, Nodes
            <3>2. ASSUME NEW x, NEW y
                  PROVE  Tells(m, writeLine(writeLine(m, a, x), b, y))
                <4> DEFINE r == writeLine(m, a, x)
                <4>1. Tells(m, r)
                    BY <3>1, WriteLineTells, Zenon
                <4> HIDE DEF r
                <4>2. Shape(r) /\ b \in Nodes(r)
                    BY <3>1, <4>1, Zenon DEF Tells
                <4>3. Tells(r, writeLine(r, b, y))
                    BY <4>2, WriteLineTells, Zenon
                <4>4. Tells(m, writeLine(r, b, y))
                    BY <4>1, <4>3, TellsBoth, Zenon
                <4> QED  BY <4>4 DEF r
            <3>3. Tells(m, startEdge(m, a, b))
                BY <2>1, <3>2, Zenon DEF startEdge, sendAddNeighbor
            <3>4. Tells(m, failEdge(m, a, b))
                BY <2>1, <3>2, Zenon DEF failEdge, sendRemoveNeighbor
            <3> QED  BY <3>3, <3>4
        <2>2. CASE ~bothRegistered(m, a, b)
            BY <2>2, TellsNothing, Zenon DEF startEdge, failEdge
        <2> QED  BY <2>1, <2>2
    <1>2. Tells(m, failNode(m, a))
        <2>1. CASE a \in DOMAIN m.nodes
            <3> DEFINE r == writeLine(m, a, reset)
            <3>1. Tells(m, r)
                BY <2>1, WriteLineTells, Zenon DEF Nodes
            <3> HIDE DEF r
            <3>2. Shape(r)
                BY <3>1, Zenon DEF Tells
            <3>3. Tells(r, removeAsNeighbor(r, a))
                BY <3>2, RemoveAsNeighborTells, Zenon
            <3>4. Tells(m, removeAsNeighbor(r, a))
                BY <3>1, <3>3, TellsBoth, Zenon
            <3>5. failNode(m, a) = removeAsNeighbor(r, a)
                BY <2>1, Zenon DEF failNode, sendReset, r
            <3> QED  BY <3>4, <3>5, Zenon
        <2>2. CASE a \notin DOMAIN m.nodes
            BY <2>2, TellsNothing, Zenon DEF failNode
        <2> QED  BY <2>1, <2>2
    <1> QED  BY <1>1, <1>2

\* A line of the topology file.
LEMMA ExecuteTells ==
    ASSUME NEW m, Shape(m), NEW line
    PROVE  Tells(m, execute(m, line))
PROOF
    <1>1. \A a, b, v : Tells(m, startEdge(newEdge(m, a, b, v), a, b))
        <2> TAKE a, b, v
        <2> DEFINE r == newEdge(m, a, b, v)
        <2>1. Tells(m, r)
            BY ChangesTell, Zenon
        <2> HIDE DEF r
        <2>2. Tells(r, startEdge(r, a, b))
            <3>1. Shape(r)
                BY <2>1, Zenon DEF Tells
            <3> QED  BY <3>1, EdgesTell, Zenon
        <2>3. Tells(m, startEdge(r, a, b))
            BY <2>1, <2>2, TellsBoth, Zenon
        <2> QED  BY <2>3 DEF r
    <1>2. \A a, b, v : Tells(m, edgeHook(m, a, b, v))
        <2> TAKE a, b, v
        <2> DEFINE r == changeEdge(m, {a, b}, v)
        <2>1. Tells(m, r)
            BY ChangesTell, Zenon
        <2> HIDE DEF r
        <2>2. Tells(r, startEdge(r, a, b)) /\ Tells(r, failEdge(r, a, b))
            <3>1. Shape(r)
                BY <2>1, Zenon DEF Tells
            <3> QED  BY <3>1, EdgesTell, Zenon
        <2>3. Tells(m, startEdge(r, a, b)) /\ Tells(m, failEdge(r, a, b)) /\ Tells(m, m)
            BY <2>1, <2>2, TellsBoth, TellsNothing, Zenon
        <2>4. edgeHook(m, a, b, v) \in {m, startEdge(r, a, b), failEdge(r, a, b)}
            BY Zenon DEF edgeHook, r
        <2> QED  BY <2>3, <2>4, Zenon
    <1>3. \A a : Tells(m, restartNodeHook(m, a))
        <2> TAKE a
        <2> DEFINE r == changeNode(m, a, TRUE)
        <2>1. Tells(m, r)
            BY ChangesTell, Zenon
        <2> HIDE DEF r
        <2>2. Tells(r, updateNeighbors(r, a))
            <3>1. Shape(r)
                BY <2>1, Zenon DEF Tells
            <3> QED  BY <3>1, UpdateNeighborsTells, Zenon
        <2>3. Tells(m, updateNeighbors(r, a))
            BY <2>1, <2>2, TellsBoth, Zenon
        <2> QED  BY <2>3 DEF r, restartNodeHook
    <1>4. \A a : Tells(m, failNodeHook(m, a))
        <2> TAKE a
        <2> DEFINE r == failNode(m, a)
        <2>1. Tells(m, r)
            BY EdgesTell, Zenon
        <2> HIDE DEF r
        <2>2. Tells(r, changeNode(r, a, FALSE))
            <3>1. Shape(r)
                BY <2>1, Zenon DEF Tells
            <3> QED  BY <3>1, ChangesTell, Zenon
        <2>3. Tells(m, changeNode(r, a, FALSE))
            BY <2>1, <2>2, TellsBoth, Zenon
        <2> QED  BY <2>3 DEF r, failNodeHook
    <1>5. \/ execute(m, line) =
                startEdge(newEdge(m, line.a, line.b, line.options), line.a, line.b)
          \/ execute(m, line) = edgeHook(m, line.a, line.b, line.live)
          \/ execute(m, line) = restartNodeHook(m, line.a)
          \/ execute(m, line) = failNodeHook(m, line.a)
          \/ execute(m, line) = m
        BY DEF execute
    <1> QED  BY <1>1, <1>2, <1>3, <1>4, <1>5, TellsNothing, Zenon

-----------------------------------------------------------------------------
(* The steps of an emulator. *)

Statuses == {"off", "connected", "asked", "running", "gone"}

LEMMA WaitingAreProcs ==
    ASSUME Core
    PROVE  waiting \subseteq Procs
PROOF
    <1>1. queue \in Seq(Procs) /\ client \subseteq Procs
        BY Zenon DEF Core, TrawlerShape, ProcessTypes
    <1>2. Range(queue) \subseteq Procs
        BY <1>1 DEF Range
    <1> QED  BY <1>1, <1>2, Zenon DEF waiting

\* A step by which process p may change its status, its address and what has yet to
\* reach it, after its port is sent.
LEMMA ProcessKeeps ==
    ASSUME Core, NEW p \in Procs,
           UNCHANGED <<t, client, queue>>,
           status' \in [Procs -> Statuses],
           DOMAIN inbox' = Procs, DOMAIN addr' = Procs,
           \A q \in Procs \ {p} :
                status'[q] = status[q] /\ inbox'[q] = inbox[q] /\ addr'[q] = addr[q],
           asked' \subseteq asked \cup {p},
           status'[p] \in {"asked", "running", "gone"},
           status[p] = "gone" => status'[p] = "gone",
           Listed(inbox'[p]),
           p \in waiting => inbox'[p] = <<>> /\ status'[p] # "running",
           status'[p] = "asked" => status[p] = "connected" /\ inbox'[p] = inbox[p],
           status'[p] = "running" => addr'[p] \in Nodes(t) /\ t.nodes[addr'[p]].proc = p
    PROVE  Core'
PROOF
    <1>0. t' = t /\ client' = client /\ queue' = queue
        OBVIOUS
    <1>1. TrawlerShape'
        BY <1>0, Zenon DEF Core, TrawlerShape
    <1>2. ProcessTypes'
        <2>1. \A q \in Procs : Listed(inbox'[q])
            BY Zenon DEF Core, ProcessTypes
        <2>2. client' \subseteq Procs
            BY <1>0, Zenon DEF Core, ProcessTypes
        <2> QED  BY <2>1, <2>2, Zenon DEF ProcessTypes, Statuses
    <1>3. QueuedOnce'
        BY <1>0, Zenon DEF Core, QueuedOnce
    <1>4. DeadAreGone'
        <2>1. \A q \in gone : q \in gone'
            BY Zenon DEF gone
        <2> QED  BY <1>0, <2>1, Zenon DEF Core, DeadAreGone
    <1>5. NotYetTold'
        <2>1. ASSUME NEW q \in Procs, status'[q] \in {"off", "connected"}
              PROVE  ~Registered(t', q) /\ inbox'[q] = <<>> /\ q \notin asked'
            <3>1. q # p
                BY <2>1
            <3>2. status[q] \in {"off", "connected"} /\ inbox'[q] = inbox[q]
                BY <2>1, <3>1
            <3>3. ~Registered(t, q) /\ inbox[q] = <<>> /\ q \notin asked
                BY <3>2, Zenon DEF Core, NotYetTold
            <3> QED  BY <1>0, <3>1, <3>2, <3>3, Zenon
        <2>2. ASSUME NEW q \in waiting'
              PROVE  /\ ~Registered(t', q) /\ inbox'[q] = <<>>
                     /\ status'[q] \notin {"off", "running"}
            <3>1. q \in waiting
                BY <1>0, Zenon DEF waiting
            <3>2. ~Registered(t, q) /\ inbox[q] = <<>> /\ status[q] \notin {"off", "running"}
                BY <3>1, Zenon DEF Core, NotYetTold
            <3>3. q \in Procs
                BY <3>1, WaitingAreProcs, Zenon
            <3>4. CASE q = p
                <4>1. inbox'[p] = <<>> /\ status'[p] \in {"asked", "gone"}
                    BY <3>1, <3>4
                <4> QED  BY <1>0, <3>2, <3>4, <4>1
            <3>5. CASE q # p
                BY <1>0, <3>2, <3>3, <3>5, Zenon
            <3> QED  BY <3>4, <3>5
        <2> QED  BY <2>1, <2>2, Zenon DEF NotYetTold
    <1>6. FirstLine'
        <2> SUFFICES ASSUME NEW q \in Procs, status'[q] = "asked"
                     PROVE  /\ Registered(t', q) => inbox'[q] # <<>>
                            /\ inbox'[q] # <<>> =>
                                \/ inbox'[q][1] = <<ToString(BROADCAST_ADDRESS)>>
                                \/ \E a \in Nodes(t') : /\ t'.nodes[a].proc = q
                                                        /\ inbox'[q][1] = <<ToString(a)>>
            BY Zenon DEF FirstLine, First
        <2>1. CASE q = p
            <3>1. status[p] = "connected" /\ inbox'[p] = inbox[p]
                BY <2>1
            <3>2. ~Registered(t, p) /\ inbox[p] = <<>>
                BY <3>1 DEF Core, NotYetTold
            <3> QED  BY <1>0, <2>1, <3>1, <3>2, Zenon
        <2>2. CASE q # p
            <3>1. status[q] = "asked" /\ inbox'[q] = inbox[q]
                BY <2>2
            <3>2. /\ Registered(t, q) => inbox[q] # <<>>
                  /\ inbox[q] # <<>> =>
                        \/ inbox[q][1] = <<ToString(BROADCAST_ADDRESS)>>
                        \/ \E a \in Nodes(t) : /\ t.nodes[a].proc = q
                                               /\ inbox[q][1] = <<ToString(a)>>
                BY <3>1, Zenon DEF Core, FirstLine, First
            <3> QED  BY <1>0, <3>1, <3>2, Zenon
        <2> QED  BY <2>1, <2>2
    <1>7. Held'
        <2> SUFFICES ASSUME NEW q \in Procs, status'[q] = "running"
                     PROVE  addr'[q] \in Nodes(t') /\ t'.nodes[addr'[q]].proc = q
            BY Zenon DEF Held, running
        <2>1. CASE q = p
            BY <1>0, <2>1, Zenon
        <2>2. CASE q # p
            <3>1. status[q] = "running" /\ addr'[q] = addr[q]
                BY <2>2
            <3> QED  BY <1>0, <3>1, Zenon DEF Core, Held, running
        <2> QED  BY <2>1, <2>2
    <1> QED  BY <1>1, <1>2, <1>3, <1>4, <1>5, <1>6, <1>7, Zenon DEF Core

\* The process ends.
LEMMA EndKeeps ==
    ASSUME Core, NEW p \in Procs,
           status' = [status EXCEPT ![p] = "gone"],
           inbox' = [inbox EXCEPT ![p] = <<>>] \/ (inbox[p] = <<>> /\ inbox' = inbox),
           UNCHANGED <<t, client, queue, asked, addr>>
    PROVE  Core'
PROOF
    <1>1. status \in [Procs -> Statuses] /\ DOMAIN inbox = Procs /\ DOMAIN addr = Procs
        BY Zenon DEF Core, ProcessTypes, Statuses
    <1>2. /\ status' \in [Procs -> Statuses] /\ status'[p] = "gone"
          /\ DOMAIN inbox' = Procs /\ inbox'[p] = <<>>
          /\ \A q \in Procs \ {p} : status'[q] = status[q] /\ inbox'[q] = inbox[q]
        BY <1>1 DEF Statuses
    <1>3. Listed(inbox'[p])
        BY <1>2, Singles, Zenon
    <1> QED  BY <1>1, <1>2, <1>3, ProcessKeeps

LEMMA QuitKeeps ==
    ASSUME Core, NEW p \in Procs, quit(p)
    PROVE  Core'
PROOF
    BY EndKeeps DEF quit, trawlerVars

LEMMA OpenUdpSocketKeeps ==
    ASSUME Core, NEW p \in Procs, openUdpSocket(p)
    PROVE  Core'
PROOF
    <1>1. status \in [Procs -> Statuses] /\ DOMAIN inbox = Procs /\ DOMAIN addr = Procs
        BY Zenon DEF Core, ProcessTypes, Statuses
    <1>2. /\ status[p] = "connected"
          /\ \/ status' = [status EXCEPT ![p] = "gone"] /\ asked' = asked
             \/ status' = [status EXCEPT ![p] = "asked"] /\ asked' = asked \cup {p}
          /\ UNCHANGED <<t, client, queue, inbox, addr>>
        BY Zenon DEF openUdpSocket, trawlerVars
    <1>3. /\ status' \in [Procs -> Statuses] /\ status'[p] \in {"asked", "gone"}
          /\ \A q \in Procs \ {p} : status'[q] = status[q]
          /\ asked' \subseteq asked \cup {p}
        BY <1>1, <1>2 DEF Statuses
    <1>4. Listed(inbox[p]) /\ inbox[p] = <<>>
        BY <1>2 DEF Core, ProcessTypes, NotYetTold
    <1> QED  BY <1>1, <1>2, <1>3, <1>4, ProcessKeeps

\* Who runs does not wait.
LEMMA RunningIsHeld ==
    ASSUME Core, NEW p \in Procs, status[p] = "running"
    PROVE  /\ p \notin waiting
           /\ addr[p] \in Nodes(t) /\ t.nodes[addr[p]].proc = p
PROOF
    <1>1. p \notin waiting
        BY DEF Core, NotYetTold
    <1>2. addr[p] \in Nodes(t) /\ t.nodes[addr[p]].proc = p
        BY Zenon DEF Core, Held, running
    <1> QED  BY <1>1, <1>2

\* A step of a process that runs, by which it takes some lines.
LEMMA RunningKeeps ==
    ASSUME Core, NEW p \in Procs, status[p] = "running", NEW q, Listed(q),
           inbox' = [inbox EXCEPT ![p] = q],
           UNCHANGED <<t, client, queue, status, asked, addr>>
    PROVE  Core'
PROOF
    <1>1. status \in [Procs -> Statuses] /\ DOMAIN inbox = Procs /\ DOMAIN addr = Procs
        BY Zenon DEF Core, ProcessTypes, Statuses
    <1>2. /\ DOMAIN inbox' = Procs /\ inbox'[p] = q
          /\ \A x \in Procs \ {p} : inbox'[x] = inbox[x]
        BY <1>1
    <1>3. p \notin waiting /\ addr[p] \in Nodes(t) /\ t.nodes[addr[p]].proc = p
        BY RunningIsHeld
    <1> QED  BY <1>1, <1>2, <1>3, ProcessKeeps

LEMMA RefreshARPKeeps ==
    ASSUME Core, NEW p \in Procs, refreshARP(p)
    PROVE  Core'
PROOF
    <1>1. CASE /\ status' = [status EXCEPT ![p] = "gone"]
               /\ inbox' = [inbox EXCEPT ![p] = <<>>]
        <2>1. UNCHANGED <<t, client, queue, asked, addr>>
            BY DEF refreshARP, trawlerVars
        <2> QED  BY <1>1, <2>1, EndKeeps
    <1>2. CASE /\ inbox[p] # <<>> /\ inbox' = [inbox EXCEPT ![p] = Tail(@)]
               /\ status' = status
        <2>1. status[p] = "running" /\ UNCHANGED <<t, client, queue, status, asked, addr>>
            BY <1>2 DEF refreshARP, trawlerVars
        <2>2. Listed(Tail(inbox[p]))
            BY <1>2, TailAny, Zenon DEF Core, ProcessTypes
        <2> QED  BY <1>2, <2>1, <2>2, RunningKeeps
    <1> QED  BY <1>1, <1>2, Zenon DEF refreshARP

LEMMA HandshakeKeeps ==
    ASSUME Core, NEW p \in Procs, handshake(p)
    PROVE  Core'
PROOF
    <1>1. status \in [Procs -> Statuses] /\ DOMAIN inbox = Procs /\ DOMAIN addr = Procs
        BY Zenon DEF Core, ProcessTypes, Statuses
    <1>2. status[p] = "asked" /\ UNCHANGED <<t, client, queue, asked>>
        BY Zenon DEF handshake, trawlerVars
    <1>3. CASE /\ inbox[p] # <<>> /\ assigned(p) # BROADCAST_ADDRESS
               /\ status' = [status EXCEPT ![p] = "running"]
               /\ addr' = [addr EXCEPT ![p] = assigned(p)]
               /\ inbox' = [inbox EXCEPT ![p] = Tail(@)]
        <2>0. p \notin waiting
            BY <1>3, Zenon DEF Core, NotYetTold
        <2>1. ASSUME NEW a \in 0 .. BROADCAST_ADDRESS, First(p) = <<ToString(a)>>
              PROVE  assigned(p) = a
            <3>1. assigned(p) = Numbers[ToString(a)]
                BY <2>1 DEF assigned, First
            <3> QED  BY <3>1, TrawlerConstants, Zenon
        <2>2. First(p) # <<ToString(BROADCAST_ADDRESS)>>
            <3>1. BROADCAST_ADDRESS \in 0 .. BROADCAST_ADDRESS
                BY TrawlerConstants
            <3> QED  BY <1>3, <2>1, <3>1, Zenon
        <2>3. PICK a \in Nodes(t) : t.nodes[a].proc = p /\ First(p) = <<ToString(a)>>
            BY <1>2, <1>3, <2>2, Zenon DEF Core, FirstLine
        <2>4. a \in 0 .. BROADCAST_ADDRESS
            <3>1. a \in 0 .. BROADCAST_ADDRESS - 1
                BY Zenon DEF Core, TrawlerShape, Shape
            <3> QED  BY <3>1, TrawlerConstants
        <2>5. assigned(p) = a
            BY <2>1, <2>3, <2>4, Zenon
        <2>6. Listed(Tail(inbox[p]))
            BY <1>3, TailAny, Zenon DEF Core, ProcessTypes
        <2>7. /\ status' \in [Procs -> Statuses] /\ status'[p] = "running"
              /\ DOMAIN inbox' = Procs /\ inbox'[p] = Tail(inbox[p])
              /\ DOMAIN addr' = Procs /\ addr'[p] = a
              /\ \A q \in Procs \ {p} :
                    status'[q] = status[q] /\ inbox'[q] = inbox[q] /\ addr'[q] = addr[q]
            BY <1>1, <1>3, <2>5 DEF Statuses
        <2> QED  BY <1>2, <2>0, <2>3, <2>6, <2>7, ProcessKeeps
    <1>4. CASE /\ status' = [status EXCEPT ![p] = "gone"]
               /\ inbox' = [inbox EXCEPT ![p] = <<>>] /\ addr' = addr
        BY <1>2, <1>4, EndKeeps
    <1>5. CASE inbox[p] = <<>> /\ status' = [status EXCEPT ![p] = "gone"]
               /\ inbox' = inbox /\ addr' = addr
        BY <1>2, <1>5, EndKeeps
    <1> QED  BY <1>3, <1>4, <1>5, Zenon DEF handshake

LEMMA ConnectKeeps ==
    ASSUME Core, NEW p \in Procs, connectToTrawler(p)
    PROVE  Core'
PROOF
    <1>1. /\ status \in [Procs -> Statuses] /\ DOMAIN inbox = Procs
          /\ DOMAIN addr = Procs /\ queue \in Seq(Procs)
        BY Zenon DEF Core, TrawlerShape, ProcessTypes, Statuses
    <1>2. /\ status[p] = "off"
          /\ UNCHANGED <<t, client, inbox, asked, addr>>
        BY Zenon DEF connectToTrawler
    <1>3. p \notin waiting
        BY <1>2, Zenon DEF Core, NotYetTold
    <1>4. ~Registered(t, p) /\ inbox[p] = <<>> /\ p \notin asked
        BY <1>2 DEF Core, NotYetTold
    <1>5. CASE status' = [status EXCEPT ![p] = "gone"] /\ queue' = queue
        <2>1. /\ status' \in [Procs -> Statuses] /\ status'[p] = "gone"
              /\ \A q \in Procs \ {p} : status'[q] = status[q]
            BY <1>1, <1>5 DEF Statuses
        <2>2. Listed(inbox'[p])
            BY <1>2, Zenon DEF Core, ProcessTypes
        <2> QED  BY <1>1, <1>2, <1>3, <1>5, <2>1, <2>2, ProcessKeeps
    <1>6. CASE status' = [status EXCEPT ![p] = "connected"] /\ queue' = Append(queue, p)
        <2>0. t' = t /\ client' = client /\ inbox' = inbox /\ asked' = asked /\ addr' = addr
            BY <1>2
        <2>1. /\ status' \in [Procs -> Statuses] /\ status'[p] = "connected"
              /\ \A q \in Procs \ {p} : status'[q] = status[q]
            BY <1>1, <1>6 DEF Statuses
        <2>2. queue' \in Seq(Procs) /\ Range(queue') = Range(queue) \cup {p}
            <3>1. /\ Len(queue) \in Nat /\ DOMAIN queue = 1 .. Len(queue)
                  /\ queue' \in Seq(Procs) /\ DOMAIN queue' = 1 .. Len(queue) + 1
                  /\ queue'[Len(queue) + 1] = p
                  /\ \A k \in 1 .. Len(queue) : queue'[k] = queue[k]
                BY <1>1, <1>6
            <3> QED  BY <3>1 DEF Range
        <2>3. TrawlerShape'
            BY <2>0, <2>2, Zenon DEF Core, TrawlerShape
        <2>4. ProcessTypes'
            BY <2>0, <2>1, Zenon DEF Core, ProcessTypes, Statuses
        <2>5. QueuedOnce'
            <3>1. p \notin client /\ p \notin Range(queue)
                BY <1>3, Zenon DEF waiting
            <3>2. /\ Len(queue) \in Nat /\ DOMAIN queue = 1 .. Len(queue)
                  /\ DOMAIN queue' = 1 .. Len(queue) + 1
                  /\ queue'[Len(queue) + 1] = p
                  /\ \A k \in 1 .. Len(queue) : queue'[k] = queue[k]
                BY <1>1, <1>6
            <3>3. \A k \in 1 .. Len(queue) : queue'[k] # p
                BY <3>1, <3>2 DEF Range
            <3>4. \A k, l \in 1 .. Len(queue) : queue'[k] = queue'[l] => k = l
                BY <3>2 DEF Core, QueuedOnce, IsInjective
            <3>5. IsInjective(queue')
                BY <3>2, <3>3, <3>4 DEF IsInjective
            <3>6. client' \cap Range(queue') = {}
                BY <2>0, <2>2, <3>1 DEF Core, QueuedOnce
            <3> QED  BY <3>5, <3>6, Zenon DEF QueuedOnce
        <2>6. DeadAreGone'
            <3>1. \A q \in gone : q \in gone'
                BY <1>2, <2>1 DEF gone
            <3> QED  BY <2>0, <3>1, Zenon DEF Core, DeadAreGone
        <2>7. NotYetTold'
            <3>1. ASSUME NEW q \in Procs, status'[q] \in {"off", "connected"}
                  PROVE  ~Registered(t', q) /\ inbox'[q] = <<>> /\ q \notin asked'
                <4>1. q = p \/ status[q] \in {"off", "connected"}
                    BY <2>1, <3>1
                <4> QED  BY <4>1, <1>4, <2>0, Zenon DEF Core, NotYetTold
            <3>2. ASSUME NEW q \in waiting'
                  PROVE  /\ ~Registered(t', q) /\ inbox'[q] = <<>>
                         /\ status'[q] \notin {"off", "running"}
                <4>1. q = p \/ q \in waiting
                    BY <2>0, <2>2, Zenon DEF waiting
                <4>2. CASE q = p
                    BY <4>2, <1>4, <2>0, <2>1
                <4>3. CASE q \in waiting /\ q # p
                    <5>1. /\ ~Registered(t, q) /\ inbox[q] = <<>>
                          /\ status[q] \notin {"off", "running"}
                        BY <4>3, Zenon DEF Core, NotYetTold
                    <5>2. q \in Procs
                        BY <4>3, WaitingAreProcs, Zenon
                    <5> QED  BY <4>3, <5>1, <5>2, <2>0, <2>1, Zenon
                <4> QED  BY <4>1, <4>2, <4>3
            <3> QED  BY <3>1, <3>2, Zenon DEF NotYetTold
        <2>8. FirstLine'
            <3>1. \A q \in Procs : status'[q] = "asked" => status[q] = "asked"
                BY <2>1
            <3>2. \A q \in Procs : First(q)' = First(q)
                BY <2>0, Zenon DEF First
            <3> QED  BY <2>0, <3>1, <3>2, Zenon DEF Core, FirstLine
        <2>9. Held'
            <3>1. \A q \in Procs : status'[q] = "running" => status[q] = "running"
                BY <2>1
            <3> QED  BY <2>0, <3>1, Zenon DEF Core, Held, running
        <2> QED  BY <2>3, <2>4, <2>5, <2>6, <2>7, <2>8, <2>9, Zenon DEF Core
    <1> QED  BY <1>5, <1>6, Zenon DEF connectToTrawler

-----------------------------------------------------------------------------
(* The steps of the trawler. *)

\* The trawler and what is on its way after the writes of a step.
LEMMA WrittenGives ==
    ASSUME Core, NEW r, Shape(r), Written(r)
    PROVE  /\ Shape(t') /\ t'.out = [p \in Procs |-> <<>>] /\ t'.nodes = r.nodes
           /\ t'.broken = {} /\ DOMAIN inbox' = Procs
           /\ \A p \in Procs :
                /\ Listed(inbox'[p])
                /\ p \in gone => inbox'[p] = <<>>
                /\ p \notin gone =>
                    /\ inbox'[p] = inbox[p] \o r.out[p]
                    /\ Begins(inbox[p], inbox'[p])
                    /\ r.out[p] = <<>> => inbox'[p] = inbox[p]
PROOF
    <1> DEFINE none == [p \in Procs |-> <<>>]
    <1>1. /\ t' = [r EXCEPT !.out = none, !.broken = {}, !.writeFailed = FALSE]
          /\ inbox' = [p \in Procs |-> IF p \in gone THEN <<>> ELSE inbox[p] \o r.out[p]]
        BY Zenon DEF Written
    <1>2. /\ DOMAIN none = Procs
          /\ \A p \in Procs : none[p] = <<>>
        BY Zenon
    <1>3. \A p \in Procs : Listed(none[p])
        BY <1>2, Singles, Zenon
    <1>4. DOMAIN t' = DOMAIN r /\ t'.out = none /\ t'.nodes = r.nodes /\ t'.broken = {}
        <2> HIDE DEF none
        <2> QED  BY <1>1 DEF Shape
    <1>5. DOMAIN inbox' = Procs
        BY <1>1, Zenon
    <1>6. Shape(t')
        <2> HIDE DEF none
        <2> QED  BY <1>2, <1>3, <1>4, Zenon DEF Shape, Nodes
    <1>7. ASSUME NEW p \in Procs
          PROVE  /\ Listed(inbox'[p])
                 /\ p \in gone => inbox'[p] = <<>>
                 /\ p \notin gone =>
                    /\ inbox'[p] = inbox[p] \o r.out[p]
                    /\ Begins(inbox[p], inbox'[p])
                    /\ r.out[p] = <<>> => inbox'[p] = inbox[p]
        <2>1. Listed(inbox[p]) /\ Listed(r.out[p])
            BY Zenon DEF Core, ProcessTypes, Shape
        <2>2. CASE p \in gone
            <3>1. inbox'[p] = <<>>
                BY <1>1, <2>2, Zenon
            <3> QED  BY <2>2, <3>1, Singles, Zenon
        <2>3. CASE p \notin gone
            <3>1. inbox'[p] = inbox[p] \o r.out[p]
                BY <1>1, <2>3, Zenon
            <3>2. /\ Listed(inbox[p] \o r.out[p])
                  /\ Begins(inbox[p], inbox[p] \o r.out[p])
                  /\ inbox[p] \o <<>> = inbox[p]
                BY <2>1, ConcatAny, Zenon
            <3> QED  BY <2>3, <3>1, <3>2, Zenon
        <2> QED  BY <2>2, <2>3
    <1> QED  BY <1>4, <1>5, <1>6, <1>7, Zenon

\* The trawler told some nodes something, after it has removed some of processes
\* that have ended, or none.
LEMMA ToldKeeps ==
    ASSUME Core, NEW m, NEW r, Tells(m, r), Written(r),
           m.out = t.out, m.broken \subseteq gone, Nodes(m) \subseteq Nodes(t),
           \A a \in Nodes(m) : m.nodes[a] = t.nodes[a],
           \A a \in Nodes(t) : a \in Nodes(m) \/ t.nodes[a].proc \in gone,
           UNCHANGED <<queue, client, status, asked, addr>>
    PROVE  Core' /\ Nodes(t') = Nodes(m)
PROOF
    <1>0. /\ queue' = queue /\ client' = client /\ status' = status
          /\ asked' = asked /\ addr' = addr /\ gone' = gone
        BY DEF gone
    <1>1. Shape(r)
        BY Zenon DEF Tells
    <1>2. /\ Shape(t') /\ t'.out = [p \in Procs |-> <<>>] /\ t'.nodes = r.nodes
          /\ t'.broken = {} /\ DOMAIN inbox' = Procs
        BY <1>1, WrittenGives, Zenon
    <1>3. \A p \in Procs :
                /\ Listed(inbox'[p])
                /\ p \in gone => inbox'[p] = <<>>
                /\ p \notin gone =>
                    /\ Begins(inbox[p], inbox'[p])
                    /\ r.out[p] = <<>> => inbox'[p] = inbox[p]
        BY <1>1, WrittenGives, Zenon
    <1>4. /\ Nodes(t') = Nodes(m)
          /\ \A a \in Nodes(m) : t'.nodes[a].proc = t.nodes[a].proc
        BY <1>2, Zenon DEF Tells, Nodes
    <1>5. ASSUME NEW p  PROVE  Registered(t', p) => Registered(t, p)
        BY <1>4, Zenon DEF Registered
    <1>6. ASSUME NEW p \in Procs, ~Registered(t, p)  PROVE  r.out[p] = <<>>
        <2>1. ~Registered(m, p)
            BY <1>6, Zenon DEF Registered
        <2>2. r.out[p] = m.out[p]
            BY <2>1, Zenon DEF Tells
        <2>3. t.out[p] = <<>>
            <3>1. t.out = [q \in Procs |-> <<>>]
                BY Zenon DEF Core, TrawlerShape
            <3> QED  BY <3>1, Zenon
        <2> QED  BY <2>2, <2>3, Zenon
    <1>7. TrawlerShape'
        BY <1>0, <1>2, Zenon DEF Core, TrawlerShape
    <1>8. ProcessTypes'
        BY <1>0, <1>2, <1>3, Zenon DEF Core, ProcessTypes
    <1>9. QueuedOnce'
        BY <1>0, Zenon DEF Core, QueuedOnce
    <1>10. DeadAreGone'
        <2> SUFFICES ASSUME NEW a \in Nodes(m), ~t'.nodes[a].alive
                     PROVE  t'.nodes[a].proc \in gone
            BY <1>0, <1>4, Zenon DEF DeadAreGone
        <2>1. ~m.nodes[a].alive \/ m.nodes[a].proc \in m.broken
            BY <1>2, Zenon DEF Tells
        <2> QED  BY <1>4, <2>1, Zenon DEF Core, DeadAreGone
    <1>11. NotYetTold'
        <2>1. ASSUME NEW p \in Procs, ~Registered(t, p), inbox[p] = <<>>
              PROVE  ~Registered(t', p) /\ inbox'[p] = <<>>
            BY <1>3, <1>5, <1>6, <2>1, Zenon
        <2>2. ASSUME NEW p \in Procs, status'[p] \in {"off", "connected"}
              PROVE  ~Registered(t', p) /\ inbox'[p] = <<>> /\ p \notin asked'
            BY <1>0, <2>1, <2>2, Zenon DEF Core, NotYetTold
        <2>3. ASSUME NEW p \in waiting'
              PROVE  /\ ~Registered(t', p) /\ inbox'[p] = <<>>
                     /\ status'[p] \notin {"off", "running"}
            <3>1. p \in waiting
                BY <1>0, <2>3, Zenon DEF waiting
            <3>2. p \in Procs
                BY <3>1, WaitingAreProcs, Zenon
            <3> QED  BY <1>0, <2>1, <3>1, <3>2, Zenon DEF Core, NotYetTold
        <2> QED  BY <2>2, <2>3, Zenon DEF NotYetTold
    <1>12. FirstLine'
        <2> SUFFICES ASSUME NEW p \in Procs, status[p] = "asked"
                     PROVE  /\ Registered(t', p) => inbox'[p] # <<>>
                            /\ inbox'[p] # <<>> =>
                                \/ inbox'[p][1] = <<ToString(BROADCAST_ADDRESS)>>
                                \/ \E a \in Nodes(t') : /\ t'.nodes[a].proc = p
                                                        /\ inbox'[p][1] = <<ToString(a)>>
            BY <1>0, Zenon DEF FirstLine, First
        <2>1. p \notin gone
            BY DEF gone
        <2>2. /\ Registered(t, p) => inbox[p] # <<>>
              /\ inbox[p] # <<>> =>
                    \/ inbox[p][1] = <<ToString(BROADCAST_ADDRESS)>>
                    \/ \E a \in Nodes(t) : /\ t.nodes[a].proc = p
                                           /\ inbox[p][1] = <<ToString(a)>>
            BY Zenon DEF Core, FirstLine, First
        <2>3. CASE inbox[p] = <<>>
            <3>1. ~Registered(t, p)
                BY <2>2, <2>3
            <3>2. inbox'[p] = <<>> /\ ~Registered(t', p)
                BY <1>3, <1>5, <1>6, <2>1, <2>3, <3>1, Zenon
            <3> QED  BY <3>2, Zenon
        <2>4. CASE inbox[p] # <<>>
            <3>1. inbox'[p] # <<>> /\ inbox'[p][1] = inbox[p][1]
                BY <1>3, <2>1, <2>4, Zenon DEF Begins
            <3>2. CASE inbox[p][1] = <<ToString(BROADCAST_ADDRESS)>>
                BY <3>1, <3>2, Zenon
            <3>3. ASSUME NEW a \in Nodes(t), t.nodes[a].proc = p,
                         inbox[p][1] = <<ToString(a)>>
                  PROVE  /\ a \in Nodes(t') /\ t'.nodes[a].proc = p
                         /\ inbox'[p][1] = <<ToString(a)>>
                BY <1>4, <2>1, <3>1, <3>3, Zenon
            <3> QED  BY <2>2, <2>4, <3>1, <3>2, <3>3, Zenon
        <2> QED  BY <2>3, <2>4
    <1>13. Held'
        <2> SUFFICES ASSUME NEW p \in Procs, status[p] = "running"
                     PROVE  addr[p] \in Nodes(t') /\ t'.nodes[addr[p]].proc = p
            BY <1>0, Zenon DEF Held, running
        <2>1. p \notin gone
            BY DEF gone
        <2>2. addr[p] \in Nodes(t) /\ t.nodes[addr[p]].proc = p
            BY Zenon DEF Core, Held, running
        <2>3. addr[p] \in Nodes(m)
            BY <2>1, <2>2, Zenon
        <2> QED  BY <1>4, <2>2, <2>3, Zenon
    <1> QED  BY <1>4, <1>7, <1>8, <1>9, <1>10, <1>11, <1>12, <1>13, Zenon DEF Core

LEMMA WithBroken ==
    ASSUME Core, NEW b \in brokenSets
    PROVE  /\ Shape(with(b)) /\ with(b).nodes = t.nodes /\ with(b).out = t.out
           /\ with(b).broken = b /\ b \subseteq gone
PROOF
    <1>1. Shape(t)
        BY Zenon DEF Core, TrawlerShape
    <1>2. DOMAIN with(b) = DOMAIN t
        BY DEF with
    <1>3. with(b).nodes = t.nodes /\ with(b).out = t.out /\ with(b).broken = b
        BY <1>1 DEF with, Shape
    <1>4. Shape(with(b))
        BY <1>1, <1>2, <1>3, Zenon DEF Shape, Nodes
    <1>5. b \subseteq gone
        BY Zenon DEF brokenSets
    <1> QED  BY <1>3, <1>4, <1>5, Zenon

\* Nothing is written, and the client, if it changes, goes.
LEMMA SilentKeeps ==
    ASSUME Core, client' \in {client, {}},
           UNCHANGED <<t, queue, status, asked, addr, inbox>>
    PROVE  Core'
PROOF
    <1>1. /\ t' = t /\ queue' = queue /\ status' = status /\ asked' = asked
          /\ addr' = addr /\ inbox' = inbox /\ client' \subseteq client
        BY Zenon
    <1>2. QueuedOnce'
        BY <1>1, Zenon DEF Core, QueuedOnce
    <1>3. TrawlerShape' /\ ProcessTypes'
        BY <1>1, Zenon DEF Core, TrawlerShape, ProcessTypes
    <1>4. DeadAreGone'
        BY <1>1, Zenon DEF Core, DeadAreGone, gone
    <1>5. NotYetTold'
        <2>1. waiting' \subseteq waiting
            BY <1>1, Zenon DEF waiting
        <2> QED  BY <1>1, <2>1, Zenon DEF Core, NotYetTold
    <1>6. FirstLine' /\ Held'
        <2>1. FirstLine'
            BY <1>1, Zenon DEF Core, FirstLine, First
        <2>2. Held'
            BY <1>1, Zenon DEF Core, Held, running
        <2> QED  BY <2>1, <2>2
    <1> QED  BY <1>2, <1>3, <1>4, <1>5, <1>6, Zenon DEF Core

LEMMA KilledKeeps ==
    ASSUME Core, NEW r, Killed(r), UNCHANGED <<queue, status, asked, addr>>
    PROVE  Core' /\ Nodes(t') = Nodes(t) /\ visit' = visit
PROOF
    <1>1. /\ client' = client /\ visit' = visit
          /\ UNCHANGED <<t, queue, status, asked, addr, inbox>>
        BY DEF Killed
    <1> QED  BY <1>1, SilentKeeps, Zenon DEF Nodes

LEMMA ParseRemainderKeeps ==
    ASSUME Core, parseRemainder
    PROVE  Core' /\ Nodes(t') = Nodes(t) /\ visit' = visit
PROOF
    <1> DEFINE line == parseLine(Head(topo), 0)
    <1>1. PICK b \in brokenSets :
            \/ Written(execute(with(b), line)) /\ client' = client /\ visit' = visit
            \/ Killed(execute(with(b), line))
        BY Zenon DEF parseRemainder
    <1>2. UNCHANGED <<queue, status, asked, addr>>
        BY Zenon DEF parseRemainder, emulatorVars
    <1> HIDE DEF line
    <1>3. CASE Written(execute(with(b), line)) /\ client' = client /\ visit' = visit
        <2> DEFINE m == with(b)
                   r == execute(m, line)
        <2>1. /\ Shape(m) /\ m.nodes = t.nodes /\ m.out = t.out
              /\ m.broken = b /\ b \subseteq gone
            BY WithBroken, Zenon
        <2> HIDE DEF m
        <2>2. Tells(m, r)
            BY <2>1, ExecuteTells, Zenon
        <2>3. Written(r)
            BY <1>3, Zenon DEF m
        <2>4. Nodes(m) = Nodes(t) /\ \A a \in Nodes(m) : m.nodes[a] = t.nodes[a]
            BY <2>1, Zenon DEF Nodes
        <2> HIDE DEF r
        <2> QED  BY <1>2, <1>3, <2>1, <2>2, <2>3, <2>4, ToldKeeps
    <1> QED  BY <1>1, <1>2, <1>3, KilledKeeps

LEMMA CheckNodesQuitKeeps ==
    ASSUME Core, checkNodesQuit, visit \subseteq Nodes(t)
    PROVE  Core' /\ visit' \subseteq Nodes(t')
PROOF
    <1>1. PICK a \in visit, b \in brokenSets :
            \/ Written(removeQuit(with(b), a)) /\ client' = client /\ visit' = visit \ {a}
            \/ Killed(removeQuit(with(b), a))
        BY Zenon DEF checkNodesQuit
    <1>2. UNCHANGED <<queue, status, asked, addr>>
        BY Zenon DEF checkNodesQuit, emulatorVars
    <1>3. CASE Written(removeQuit(with(b), a)) /\ client' = client /\ visit' = visit \ {a}
        <2> DEFINE w == with(b)
                   r == removeQuit(w, a)
                   m == [w EXCEPT !.nodes = [c \in DOMAIN w.nodes \ {a} |-> w.nodes[c]]]
        <2>1. /\ Shape(w) /\ w.nodes = t.nodes /\ w.out = t.out
              /\ w.broken = b /\ b \subseteq gone
            BY WithBroken, Zenon
        <2> HIDE DEF w
        <2>2. Written(r)
            BY <1>3, Zenon DEF w
        <2>3. CASE w.nodes[a].alive
            <3>1. Tells(w, r)
                BY <2>1, <2>3, TellsNothing, Zenon DEF removeQuit
            <3>2. Nodes(w) = Nodes(t) /\ \A c \in Nodes(w) : w.nodes[c] = t.nodes[c]
                BY <2>1, Zenon DEF Nodes
            <3> HIDE DEF r
            <3> QED  BY <1>2, <1>3, <2>1, <2>2, <3>1, <3>2, ToldKeeps
        <2>4. CASE ~w.nodes[a].alive
            <3>1. r = removeAsNeighbor(m, a)
                BY <2>4, Zenon DEF removeQuit
            <3> DEFINE rest == [c \in DOMAIN w.nodes \ {a} |-> w.nodes[c]]
            <3>2. /\ DOMAIN rest = DOMAIN t.nodes \ {a}
                  /\ \A c \in DOMAIN t.nodes \ {a} : rest[c] = t.nodes[c]
                BY <2>1, Zenon
            <3> HIDE DEF rest
            <3>3. /\ DOMAIN m = DOMAIN w /\ m.nodes = rest /\ m.out = w.out
                  /\ m.broken = w.broken
                BY <2>1 DEF Shape, rest
            <3> HIDE DEF m
            <3>4. Nodes(m) = Nodes(t) \ {a} /\ \A c \in Nodes(m) : m.nodes[c] = t.nodes[c]
                BY <3>2, <3>3, Zenon DEF Nodes
            <3>5. Shape(m)
                <4>1. Shape(t)
                    BY Zenon DEF Core, TrawlerShape
                <4>2. \A c \in Nodes(m) :
                        {"proc", "alive"} \subseteq DOMAIN m.nodes[c] /\ m.nodes[c].proc \in Procs
                    BY <3>4, <4>1, Zenon DEF Shape
                <4>3. Nodes(m) \subseteq 0 .. BROADCAST_ADDRESS - 1
                    BY <3>4, <4>1, Zenon DEF Shape
                <4> QED  BY <2>1, <3>3, <4>2, <4>3, Zenon DEF Shape
            <3>6. Tells(m, r)
                BY <3>1, <3>5, RemoveAsNeighborTells, Zenon
            <3>7. t.nodes[a].proc \in gone
                BY <2>1, <2>4, Zenon DEF Core, DeadAreGone
            <3>8. \A c \in Nodes(t) : c \in Nodes(m) \/ t.nodes[c].proc \in gone
                BY <3>4, <3>7, Zenon
            <3> HIDE DEF r
            <3> QED  BY <1>2, <1>3, <2>1, <2>2, <3>3, <3>4, <3>6, <3>8, ToldKeeps
        <2> QED  BY <2>3, <2>4
    <1> QED  BY <1>1, <1>2, <1>3, KilledKeeps, Zenon

LEMMA AcceptKeeps ==
    ASSUME Core, accept
    PROVE  Core'
PROOF
    <1>1. /\ queue # <<>> /\ queue' = Tail(queue) /\ client' = {Head(queue)}
          /\ t' = t /\ status' = status /\ asked' = asked /\ addr' = addr /\ inbox' = inbox
        BY Zenon DEF accept, emulatorVars
    <1>2. queue \in Seq(Procs)
        BY Zenon DEF Core, TrawlerShape
    <1>3. /\ Len(queue) \in Nat \ {0} /\ DOMAIN queue = 1 .. Len(queue)
          /\ Head(queue) = queue[1] /\ Head(queue) \in Procs
          /\ queue' \in Seq(Procs) /\ DOMAIN queue' = 1 .. Len(queue) - 1
          /\ \A k \in 1 .. Len(queue) - 1 : queue'[k] = queue[k + 1]
        BY <1>1, <1>2
    <1>4. \A k, l \in 1 .. Len(queue) : queue[k] = queue[l] => k = l
        BY <1>3 DEF Core, QueuedOnce, IsInjective
    <1>5. Range(queue') \subseteq Range(queue) /\ Head(queue) \in Range(queue)
        BY <1>3 DEF Range
    <1>6. QueuedOnce'
        <2>1. IsInjective(queue')
            BY <1>3, <1>4 DEF IsInjective
        <2>2. Head(queue) \notin Range(queue')
            BY <1>3, <1>4 DEF Range
        <2> QED  BY <1>1, <2>1, <2>2 DEF QueuedOnce
    <1>7. TrawlerShape'
        BY <1>1, <1>3, Zenon DEF Core, TrawlerShape
    <1>8. ProcessTypes'
        <2>1. client' \subseteq Procs
            BY <1>1, <1>3, Zenon
        <2> QED  BY <1>1, <2>1, Zenon DEF Core, ProcessTypes
    <1>9. DeadAreGone'
        BY <1>1, Zenon DEF Core, DeadAreGone, gone
    <1>10. NotYetTold'
        <2>1. waiting' \subseteq waiting
            BY <1>1, <1>5, Zenon DEF waiting
        <2> QED  BY <1>1, <2>1, Zenon DEF Core, NotYetTold
    <1>11. FirstLine' /\ Held'
        BY <1>1, Zenon DEF Core, FirstLine, First, Held, running
    <1> QED  BY <1>6, <1>7, <1>8, <1>9, <1>10, <1>11, Zenon DEF Core

\* The client p is sent a line that says the address a, and has it or is refused.
LEMMA AnswerKeeps ==
    ASSUME Core, NEW p \in client \cap asked, NEW m, NEW r, Tells(m, r), Written(r),
           NEW a \in 0 .. BROADCAST_ADDRESS,
           \A q \in Procs \ {p} : m.out[q] = <<>>,
           m.out[p] = <<<<ToString(a)>>>>,
           m.broken \subseteq gone,
           \/ Nodes(m) = Nodes(t) /\ a = BROADCAST_ADDRESS
           \/ /\ Nodes(m) = Nodes(t) \cup {a} /\ a \notin Nodes(t)
              /\ m.nodes[a].proc = p /\ m.nodes[a].alive,
           \A c \in Nodes(t) : m.nodes[c] = t.nodes[c],
           client' = {}, UNCHANGED <<queue, status, asked, addr>>
    PROVE  Core' /\ Nodes(t) \subseteq Nodes(t')
PROOF
    <1>0. /\ queue' = queue /\ client' = {} /\ status' = status
          /\ asked' = asked /\ addr' = addr /\ gone' = gone
        BY DEF gone
    <1>1. Shape(r) /\ p \in Procs /\ p \in waiting
        <2>1. Shape(r) /\ p \in waiting
            BY Zenon DEF Tells, waiting
        <2> QED  BY <2>1, WaitingAreProcs, Zenon
    <1>2. /\ Shape(t') /\ t'.out = [q \in Procs |-> <<>>] /\ t'.nodes = r.nodes
          /\ t'.broken = {} /\ DOMAIN inbox' = Procs
        BY <1>1, WrittenGives, Zenon
    <1>3. \A q \in Procs :
                /\ Listed(inbox'[q])
                /\ q \in gone => inbox'[q] = <<>>
                /\ q \notin gone =>
                    /\ inbox'[q] = inbox[q] \o r.out[q]
                    /\ Begins(inbox[q], inbox'[q])
                    /\ r.out[q] = <<>> => inbox'[q] = inbox[q]
        BY <1>1, WrittenGives, Zenon
    <1>4. /\ Nodes(t') = Nodes(m) /\ Nodes(t) \subseteq Nodes(m)
          /\ \A c \in Nodes(m) : t'.nodes[c].proc = m.nodes[c].proc
          /\ \A c \in Nodes(t) : t'.nodes[c].proc = t.nodes[c].proc
        <2>1. Nodes(t) \subseteq Nodes(m)
            BY Zenon
        <2>2. Nodes(t') = Nodes(m) /\ \A c \in Nodes(m) : t'.nodes[c].proc = m.nodes[c].proc
            <3>1. t'.nodes = r.nodes
                BY <1>2
            <3>2. Nodes(r) = Nodes(m) /\ \A c \in Nodes(m) : r.nodes[c].proc = m.nodes[c].proc
                BY Zenon DEF Tells
            <3> QED  BY <3>1, <3>2, Zenon DEF Nodes
        <2>3. ASSUME NEW c \in Nodes(t)  PROVE  t'.nodes[c].proc = t.nodes[c].proc
            BY <2>1, <2>2, <2>3, Zenon
        <2> QED  BY <2>1, <2>2, <2>3, Zenon
    <1>5. ASSUME NEW q, q # p
          PROVE  /\ Registered(t', q) => Registered(t, q)
                 /\ Registered(m, q) => Registered(t, q)
        <2>1. ASSUME NEW c \in Nodes(m), m.nodes[c].proc = q
              PROVE  c \in Nodes(t) /\ t.nodes[c].proc = q
            <3>1. c \in Nodes(t)
                BY <1>5, <2>1, Zenon
            <3> QED  BY <2>1, <3>1, Zenon
        <2> QED  BY <1>4, <2>1, Zenon DEF Registered
    <1>6. ASSUME NEW q \in Procs, q # p, ~Registered(t, q)  PROVE  r.out[q] = <<>>
        BY <1>5, <1>6, Zenon DEF Tells
    <1>7. inbox[p] = <<>> /\ ~Registered(t, p) /\ status[p] \notin {"off", "connected"}
        <2>1. inbox[p] = <<>> /\ ~Registered(t, p)
            BY <1>1, Zenon DEF Core, NotYetTold
        <2>2. status[p] \notin {"off", "connected"}
            BY <1>1, Zenon DEF Core, NotYetTold
        <2> QED  BY <2>1, <2>2
    <1>8. p \notin gone => inbox'[p] # <<>> /\ inbox'[p][1] = <<ToString(a)>>
        <2>1. ASSUME p \notin gone  PROVE  inbox'[p] = r.out[p]
            <3>1. inbox'[p] = inbox[p] \o r.out[p]
                BY <1>1, <1>3, <2>1, Zenon
            <3>2. Listed(inbox[p]) /\ Listed(r.out[p])
                BY <1>1, Zenon DEF Core, ProcessTypes, Shape
            <3> QED  BY <1>7, <3>1, <3>2, ConcatAny, Zenon
        <2>2. r.out[p] # <<>> /\ r.out[p][1] = m.out[p][1]
            <3>1. m.out[p] # <<>>
                BY Singles, Zenon
            <3> QED  BY <1>1, <3>1, Zenon DEF Tells, Begins
        <2>3. m.out[p][1] = <<ToString(a)>>
            OBVIOUS
        <2> QED  BY <2>1, <2>2, <2>3, Zenon
    <1>9. TrawlerShape'
        BY <1>0, <1>2, Zenon DEF Core, TrawlerShape
    <1>10. ProcessTypes'
        BY <1>0, <1>2, <1>3, Zenon DEF Core, ProcessTypes
    <1>11. QueuedOnce'
        BY <1>0, Zenon DEF Core, QueuedOnce
    <1>12. DeadAreGone'
        <2> SUFFICES ASSUME NEW c \in Nodes(m), ~t'.nodes[c].alive
                     PROVE  t'.nodes[c].proc \in gone
            BY <1>0, <1>4, Zenon DEF DeadAreGone
        <2>1. ~m.nodes[c].alive \/ m.nodes[c].proc \in m.broken
            BY <1>2, Zenon DEF Tells
        <2>2. m.nodes[c].proc \in gone
            BY <2>1, Zenon DEF Core, DeadAreGone
        <2> QED  BY <1>4, <2>2, Zenon
    <1>13. NotYetTold'
        <2>1. ASSUME NEW q \in Procs, q # p, ~Registered(t, q), inbox[q] = <<>>
              PROVE  ~Registered(t', q) /\ inbox'[q] = <<>>
            BY <1>3, <1>5, <1>6, <2>1, Zenon
        <2>2. ASSUME NEW q \in Procs, status'[q] \in {"off", "connected"}
              PROVE  ~Registered(t', q) /\ inbox'[q] = <<>> /\ q \notin asked'
            <3>1. q # p
                BY <1>0, <1>7, <2>2, Zenon
            <3> QED  BY <1>0, <2>1, <2>2, <3>1, Zenon DEF Core, NotYetTold
        <2>3. ASSUME NEW q \in waiting'
              PROVE  /\ ~Registered(t', q) /\ inbox'[q] = <<>>
                     /\ status'[q] \notin {"off", "running"}
            <3>1. q \in waiting /\ q # p
                BY <1>0, <2>3, Zenon DEF waiting, Core, QueuedOnce
            <3>2. q \in Procs
                BY <3>1, WaitingAreProcs, Zenon
            <3> QED  BY <1>0, <2>1, <3>1, <3>2, Zenon DEF Core, NotYetTold
        <2> QED  BY <2>2, <2>3, Zenon DEF NotYetTold
    <1>14. FirstLine'
        <2> SUFFICES ASSUME NEW q \in Procs, status[q] = "asked"
                     PROVE  /\ Registered(t', q) => inbox'[q] # <<>>
                            /\ inbox'[q] # <<>> =>
                                \/ inbox'[q][1] = <<ToString(BROADCAST_ADDRESS)>>
                                \/ \E c \in Nodes(t') : /\ t'.nodes[c].proc = q
                                                        /\ inbox'[q][1] = <<ToString(c)>>
            BY <1>0, Zenon DEF FirstLine, First
        <2>1. q \notin gone
            BY DEF gone
        <2>2. /\ Registered(t, q) => inbox[q] # <<>>
              /\ inbox[q] # <<>> =>
                    \/ inbox[q][1] = <<ToString(BROADCAST_ADDRESS)>>
                    \/ \E c \in Nodes(t) : /\ t.nodes[c].proc = q
                                           /\ inbox[q][1] = <<ToString(c)>>
            BY Zenon DEF Core, FirstLine, First
        <2>3. CASE q = p
            <3>1. inbox'[p] # <<>> /\ inbox'[p][1] = <<ToString(a)>>
                BY <1>8, <2>1, <2>3, Zenon
            <3>2. a = BROADCAST_ADDRESS \/ (a \in Nodes(t') /\ t'.nodes[a].proc = p)
                BY <1>4, Zenon
            <3> QED  BY <2>3, <3>1, <3>2, Zenon
        <2>4. CASE q # p /\ inbox[q] = <<>>
            <3>1. ~Registered(t, q)
                BY <2>2, <2>4
            <3>2. inbox'[q] = <<>> /\ ~Registered(t', q)
                BY <1>3, <1>5, <1>6, <2>1, <2>4, <3>1, Zenon
            <3> QED  BY <3>2, Zenon
        <2>5. CASE q # p /\ inbox[q] # <<>>
            <3>1. inbox'[q] # <<>> /\ inbox'[q][1] = inbox[q][1]
                BY <1>3, <2>1, <2>5, Zenon DEF Begins
            <3>2. CASE inbox[q][1] = <<ToString(BROADCAST_ADDRESS)>>
                BY <3>1, <3>2, Zenon
            <3>3. ASSUME NEW c \in Nodes(t), t.nodes[c].proc = q,
                         inbox[q][1] = <<ToString(c)>>
                  PROVE  /\ c \in Nodes(t') /\ t'.nodes[c].proc = q
                         /\ inbox'[q][1] = <<ToString(c)>>
                BY <1>4, <3>1, <3>3, Zenon
            <3> QED  BY <2>2, <2>5, <3>1, <3>2, <3>3, Zenon
        <2> QED  BY <2>3, <2>4, <2>5
    <1>15. Held'
        <2> SUFFICES ASSUME NEW q \in Procs, status[q] = "running"
                     PROVE  addr[q] \in Nodes(t') /\ t'.nodes[addr[q]].proc = q
            BY <1>0, Zenon DEF Held, running
        <2>1. addr[q] \in Nodes(t) /\ t.nodes[addr[q]].proc = q
            BY Zenon DEF Core, Held, running
        <2> QED  BY <1>4, <2>1, Zenon
    <1> QED  BY <1>4, <1>9, <1>10, <1>11, <1>12, <1>13, <1>14, <1>15, Zenon DEF Core

\* The lowest free address is one, if there is any.
LEMMA FreeFishAddrIsFree ==
    ASSUME NEW m, freeAddresses(m) # {}
    PROVE  freeFishAddr(m) \in freeAddresses(m)
PROOF
    <1> DEFINE S == freeAddresses(m)
               R == OpToRel(<, Nat)
    <1>1. S \subseteq Nat /\ S # {}
        BY TrawlerConstants DEF freeAddresses
    <1>2. freeFishAddr(m) = CHOOSE a \in S : \A b \in S : a <= b
        BY Zenon DEF freeFishAddr
    <1>3. \A x, y \in Nat : x < y => <<x, y>> \in R
        BY Zenon DEF OpToRel
    <1> HIDE DEF S
    <1>4. \E x \in S : \A y \in S : ~(<<y, x>> \in R)
        BY <1>1, NatLessThanWellFounded, WFMin, Zenon
    <1> HIDE DEF R
    <1>5. PICK x \in S : \A y \in S : ~(<<y, x>> \in R)
        BY <1>4
    <1>6. ASSUME NEW y \in S  PROVE  x <= y
        <2>1. x \in Nat /\ y \in Nat
            BY <1>1
        <2>2. ~(y < x)
            BY <2>1, <1>3, <1>5, Zenon
        <2> QED  BY <2>1, <2>2
    <1>7. freeFishAddr(m) \in S
        BY <1>2, <1>6, Zenon
    <1> QED  BY <1>7 DEF S

LEMMA SendAddressShape ==
    ASSUME NEW m, Shape(m), NEW p \in Procs, NEW a,
           \A q \in Procs : m.out[q] = <<>>
    PROVE  /\ Shape(sendAddress(m, p, a))
           /\ sendAddress(m, p, a).nodes = m.nodes
           /\ sendAddress(m, p, a).broken = m.broken
           /\ sendAddress(m, p, a).out[p] = <<<<ToString(a)>>>>
           /\ \A q \in Procs \ {p} : sendAddress(m, p, a).out[q] = <<>>
PROOF
    <1> DEFINE r == sendAddress(m, p, a)
               line == <<ToString(a)>>
    <1>1. r = [m EXCEPT !.out[p] = Append(@, line)]
        BY Zenon DEF sendAddress
    <1> HIDE DEF line
    <1>2. DOMAIN r = DOMAIN m /\ r.nodes = m.nodes /\ r.broken = m.broken
        BY <1>1 DEF Shape
    <1>3. r.out = [m.out EXCEPT ![p] = Append(@, line)]
        BY <1>1 DEF Shape
    <1> HIDE DEF r
    <1>4. Append(<<>>, line) = <<line>>
        OBVIOUS
    <1>5. /\ DOMAIN r.out = Procs /\ r.out[p] = <<line>>
          /\ \A q \in Procs \ {p} : r.out[q] = <<>>
        <2>1. DOMAIN m.out = Procs
            BY Zenon DEF Shape
        <2>2. m.out[p] = <<>>
            OBVIOUS
        <2>3. r.out = [m.out EXCEPT ![p] = <<line>>]
            BY <1>3, <1>4, <2>2, Zenon
        <2>4. DOMAIN r.out = Procs /\ r.out[p] = <<line>>
            BY <2>1, <2>3, Zenon
        <2>5. \A q \in Procs \ {p} : r.out[q] = <<>>
            BY <2>1, <2>3, Zenon
        <2> QED  BY <2>4, <2>5
    <1>6. \A q \in Procs : Listed(r.out[q])
        BY <1>5, Singles, Zenon
    <1>7. Shape(r)
        BY <1>2, <1>5, <1>6, Zenon DEF Shape, Nodes
    <1> QED  BY <1>2, <1>5, <1>7, Zenon DEF r, line

LEMMA RefuseKeeps ==
    ASSUME Core, refuse
    PROVE  Core' /\ Nodes(t) \subseteq Nodes(t') /\ visit' = visit
PROOF
    <1>1. PICK p \in client \cap asked : Written(sendAddress(t, p, BROADCAST_ADDRESS))
        BY Zenon DEF refuse
    <1>2. client' = {} /\ visit' = visit /\ UNCHANGED <<queue, status, asked, addr>>
        BY Zenon DEF refuse, emulatorVars
    <1>3. Shape(t) /\ t.out = [q \in Procs |-> <<>>] /\ t.broken = {}
        BY Zenon DEF Core, TrawlerShape
    <1>4. \A q \in Procs : t.out[q] = <<>>
        BY <1>3, Zenon
    <1>5. p \in Procs
        BY Zenon DEF Core, ProcessTypes
    <1> DEFINE m == sendAddress(t, p, BROADCAST_ADDRESS)
    <1>6. /\ Shape(m) /\ m.nodes = t.nodes /\ m.broken = t.broken
          /\ m.out[p] = <<<<ToString(BROADCAST_ADDRESS)>>>>
          /\ \A q \in Procs \ {p} : m.out[q] = <<>>
        BY <1>3, <1>4, <1>5, SendAddressShape
    <1>7. Written(m)
        BY <1>1
    <1> HIDE DEF m
    <1>8. Tells(m, m)
        BY <1>6, TellsNothing, Zenon
    <1>9. /\ m.broken \subseteq gone /\ Nodes(m) = Nodes(t)
          /\ \A c \in Nodes(t) : m.nodes[c] = t.nodes[c]
        BY <1>3, <1>6, Zenon DEF Nodes
    <1>10. BROADCAST_ADDRESS \in 0 .. BROADCAST_ADDRESS
        BY TrawlerConstants
    <1>11. Core' /\ Nodes(t) \subseteq Nodes(t')
        BY <1>1, <1>2, <1>6, <1>7, <1>8, <1>9, <1>10, AnswerKeeps
    <1> QED  BY <1>2, <1>11

LEMMA AssignKeeps ==
    ASSUME Core, assign
    PROVE  Core' /\ Nodes(t) \subseteq Nodes(t') /\ visit' = visit
PROOF
    <1> DEFINE a == freeFishAddr(t)
    <1>1. PICK p, b :
            /\ p \in client \cap asked /\ b \in brokenSets /\ ~refused(p)
            /\ \/ /\ Written(welcome(with(b), a, p, HOST, port[p]))
                  /\ client' = {} /\ visit' = visit
               \/ Killed(welcome(with(b), a, p, HOST, port[p]))
        BY Zenon DEF assign
    <1>2. UNCHANGED <<queue, status, asked, addr>>
        BY Zenon DEF assign, emulatorVars
    <1>3. a \in freeAddresses(t)
        BY <1>1, FreeFishAddrIsFree, Zenon DEF refused
    <1>4. a \in 0 .. BROADCAST_ADDRESS - 1 /\ a \notin Nodes(t)
        BY <1>3, Zenon DEF freeAddresses, Nodes
    <1> HIDE DEF a
    <1>5. CASE /\ Written(welcome(with(b), a, p, HOST, port[p]))
               /\ client' = {} /\ visit' = visit
        <2> DEFINE w == with(b)
                   s == sendAddress(w, p, a)
                   m == register(s, a, p, HOST, port[p])
                   r == updateNeighbors(m, a)
                   node == [proc |-> p, ipAddress |-> HOST, udpPort |-> port[p], alive |-> TRUE]
                   nodes == [c \in DOMAIN s.nodes \cup {a} |->
                                IF c = a THEN node ELSE s.nodes[c]]
        <2>1. /\ Shape(w) /\ w.nodes = t.nodes /\ w.out = t.out
              /\ w.broken = b /\ b \subseteq gone
            BY <1>1, WithBroken, Zenon
        <2>2. \A q \in Procs : t.out[q] = <<>>
            <3>1. t.out = [q \in Procs |-> <<>>]
                BY Zenon DEF Core, TrawlerShape
            <3> QED  BY <3>1, Zenon
        <2>3. p \in Procs
            BY <1>1, Zenon DEF Core, ProcessTypes
        <2>4. Written(r)
            BY <1>5, Zenon DEF welcome
        <2> HIDE DEF w
        <2>5. /\ Shape(s) /\ s.nodes = t.nodes /\ s.broken = b
              /\ s.out[p] = <<<<ToString(a)>>>>
              /\ \A q \in Procs \ {p} : s.out[q] = <<>>
            BY <2>1, <2>2, <2>3, SendAddressShape
        <2> HIDE DEF s
        <2>6. m = [s EXCEPT !.nodes = nodes]
            BY Zenon DEF register
        <2>7. DOMAIN m = DOMAIN s /\ m.nodes = nodes /\ m.out = s.out /\ m.broken = b
            <3> HIDE DEF m, nodes
            <3> QED  BY <2>5, <2>6 DEF Shape
        <2>8. /\ DOMAIN nodes = DOMAIN t.nodes \cup {a} /\ nodes[a] = node
              /\ \A c \in DOMAIN t.nodes : nodes[c] = t.nodes[c]
            <3> HIDE DEF node
            <3>1. a \notin DOMAIN t.nodes
                BY <1>4, Zenon DEF Nodes
            <3> QED  BY <2>5, <3>1, Zenon
        <2>9. {"proc", "alive"} \subseteq DOMAIN node /\ node.proc = p /\ node.alive
            OBVIOUS
        <2> HIDE DEF m, node, nodes
        <2>10. /\ Nodes(m) = Nodes(t) \cup {a} /\ m.nodes[a] = node
               /\ \A c \in Nodes(t) : m.nodes[c] = t.nodes[c]
            BY <2>7, <2>8, Zenon DEF Nodes
        <2>11. Shape(m)
            <3>1. Shape(t)
                BY Zenon DEF Core, TrawlerShape
            <3>2. \A c \in Nodes(m) :
                    {"proc", "alive"} \subseteq DOMAIN m.nodes[c] /\ m.nodes[c].proc \in Procs
                BY <2>3, <2>9, <2>10, <3>1, Zenon DEF Shape
            <3>3. Nodes(m) \subseteq 0 .. BROADCAST_ADDRESS - 1
                BY <1>4, <2>10, <3>1, Zenon DEF Shape
            <3> QED  BY <2>5, <2>7, <3>2, <3>3, Zenon DEF Shape
        <2>12. Tells(m, r)
            BY <2>11, UpdateNeighborsTells, Zenon
        <2>13. a \in 0 .. BROADCAST_ADDRESS
            BY <1>4, TrawlerConstants
        <2>14. /\ \A q \in Procs \ {p} : m.out[q] = <<>>
               /\ m.out[p] = <<<<ToString(a)>>>>
               /\ m.broken \subseteq gone
               /\ m.nodes[a].proc = p /\ m.nodes[a].alive
            BY <2>1, <2>5, <2>7, <2>9, <2>10, Zenon
        <2> HIDE DEF r
        <2>15. Core' /\ Nodes(t) \subseteq Nodes(t')
            BY <1>1, <1>2, <1>4, <1>5, <2>4, <2>10, <2>12, <2>13, <2>14, AnswerKeeps
        <2> QED  BY <1>5, <2>15
    <1> QED  BY <1>1, <1>2, <1>5, KilledKeeps, Zenon

-----------------------------------------------------------------------------
(* The theorem. *)

LEMMA InitInv ==
    Init => Inv
PROOF
    <1> SUFFICES ASSUME Init  PROVE  Core /\ visit \subseteq Nodes(t)
        BY Zenon DEF Inv
    <1>1. /\ t = NewTrawler(topo = <<>>)
          /\ queue = <<>> /\ client = {} /\ visit = {} /\ asked = {}
          /\ status = [p \in Procs |-> "off"]
          /\ addr = [p \in Procs |-> -1]
          /\ inbox = [p \in Procs |-> <<>>]
        BY Zenon DEF Init
    <1> DEFINE none == [p \in Procs |-> <<>>]
    <1>2. /\ DOMAIN none = Procs
          /\ \A p \in Procs : none[p] = <<>>
        BY Zenon
    <1>3. \A p \in Procs : Listed(none[p])
        BY <1>2, Singles, Zenon
    <1>4. /\ DOMAIN t = {"edges", "failedNodes", "allToAll", "nodes", "out", "broken",
                         "writeFailed"}
          /\ t.nodes = <<>> /\ t.out = none /\ t.broken = {}
        <2> HIDE DEF none
        <2> QED  BY <1>1 DEF NewTrawler, none
    <1>5. Nodes(t) = {}
        BY <1>4 DEF Nodes
    <1>6. /\ DOMAIN queue = {} /\ Range(queue) = {} /\ queue \in Seq(Procs)
        BY <1>1 DEF Range
    <1> HIDE DEF none
    <1>7. TrawlerShape
        <2>1. {"edges", "failedNodes", "nodes", "out", "broken", "writeFailed"}
                \subseteq DOMAIN t
            BY <1>4
        <2>2. Shape(t)
            BY <1>2, <1>3, <1>4, <1>5, <2>1, Zenon DEF Shape
        <2> QED  BY <1>4, <1>6, <2>2, Zenon DEF TrawlerShape, none
    <1>8. ProcessTypes
        <2>1. DOMAIN inbox = Procs /\ \A p \in Procs : Listed(inbox[p])
            BY <1>1, <1>2, <1>3, Zenon DEF none
        <2>2. /\ status \in [Procs -> {"off", "connected", "asked", "running", "gone"}]
              /\ DOMAIN addr = Procs /\ client \subseteq Procs
            BY <1>1
        <2> QED  BY <2>1, <2>2, Zenon DEF ProcessTypes
    <1>9. QueuedOnce
        BY <1>1, <1>6, Zenon DEF QueuedOnce, IsInjective
    <1>10. \A p : ~Registered(t, p)
        BY <1>5, Zenon DEF Registered
    <1>11. DeadAreGone
        BY <1>5, Zenon DEF DeadAreGone
    <1>12. \A p \in Procs : status[p] = "off" /\ inbox[p] = <<>>
        BY <1>1, Zenon
    <1>13. NotYetTold
        BY <1>1, <1>6, <1>10, <1>12, Zenon DEF NotYetTold, waiting
    <1>14. FirstLine
        BY <1>12 DEF FirstLine
    <1>15. Held
        BY <1>12 DEF Held, running
    <1>16. visit \subseteq Nodes(t)
        BY <1>1, Zenon
    <1> QED  BY <1>7, <1>8, <1>9, <1>11, <1>13, <1>14, <1>15, <1>16, Zenon DEF Core

LEMMA NextInv ==
    ASSUME Inv, [Next]_vars
    PROVE  Inv'
PROOF
    <1>1. CASE UNCHANGED vars
        <2>1. /\ t' = t /\ queue' = queue /\ status' = status /\ asked' = asked
              /\ addr' = addr /\ inbox' = inbox /\ client' = client /\ visit' = visit
              /\ pc' = pc
            BY <1>1 DEF vars, trawlerVars, emulatorVars
        <2> QED  BY <2>1, SilentKeeps, Zenon DEF Inv, Nodes
    <1>2. CASE Next
        <2>0. Core /\ visit \subseteq Nodes(t)
            BY Zenon DEF Inv
        <2>1. CASE parseRemainder
            BY <2>0, <2>1, ParseRemainderKeeps, Zenon DEF Inv
        <2>2. CASE topoParsed \/ quitsChecked \/ clientClosed
            <3>1. /\ client' \in {client, {}} /\ visit' = visit /\ t' = t
                  /\ UNCHANGED <<t, queue, status, asked, addr, inbox>>
                BY <2>2, Zenon DEF topoParsed, quitsChecked, clientClosed, emulatorVars
            <3>2. Core'
                BY <2>0, <3>1, SilentKeeps, Zenon
            <3> QED  BY <2>0, <3>1, <3>2, Zenon DEF Inv, Nodes
        <2>3. CASE accept
            <3>1. t' = t /\ visit' = DOMAIN t.nodes
                BY <2>3, Zenon DEF accept
            <3>2. Core'
                BY <2>0, <2>3, AcceptKeeps, Zenon
            <3> QED  BY <3>1, <3>2, Zenon DEF Inv, Nodes
        <2>4. CASE checkNodesQuit
            BY <2>0, <2>4, CheckNodesQuitKeeps, Zenon DEF Inv
        <2>5. CASE refuse
            BY <2>0, <2>5, RefuseKeeps, Zenon DEF Inv
        <2>6. CASE assign
            BY <2>0, <2>6, AssignKeeps, Zenon DEF Inv
        <2>7. ASSUME Core', t' = t, visit' = visit  PROVE  Inv'
            BY <2>0, <2>7, Zenon DEF Inv, Nodes
        <2>8. ASSUME NEW p \in Procs, connectToTrawler(p) \/ EmulatorStep(p) \/ quit(p)
              PROVE  Inv'
            <3>1. t' = t /\ visit' = visit
                BY <2>8 DEF connectToTrawler, EmulatorStep, openUdpSocket, handshake,
                    refreshARP, quit, trawlerVars
            <3>2. Core'
                BY <2>0, <2>8, ConnectKeeps, OpenUdpSocketKeeps, HandshakeKeeps,
                    RefreshARPKeeps, QuitKeeps, Zenon DEF EmulatorStep
            <3> QED  BY <2>7, <3>1, <3>2
        <2>9. ASSUME /\ t' = t /\ visit' = visit /\ client' = client
                     /\ UNCHANGED <<t, queue, status, asked, addr, inbox>>
              PROVE  Inv'
            BY <2>0, <2>7, <2>9, SilentKeeps, Zenon
        <2>10. ASSUME NEW c \in Pings, ping(c)  PROVE  Inv'
            BY <2>9, <2>10, Zenon DEF ping, trawlerVars
        <2>11. ASSUME NEW p \in Procs, NEW d \in udp, processUdpPacket(p, d)  PROVE  Inv'
            BY <2>9, <2>11, Zenon DEF processUdpPacket, trawlerVars
        <2>12. ASSUME NEW p \in Procs, answer(p)  PROVE  Inv'
            BY <2>9, <2>12, Zenon DEF answer, trawlerVars
        <2> QED  BY <1>2, <2>1, <2>2, <2>3, <2>4, <2>5, <2>6, <2>8, <2>10, <2>11, <2>12, Zenon
                 DEF Next, TrawlerStep
    <1> QED  BY <1>1, <1>2

\* freeFishAddr, checkNodesQuit, and the handshake in between: as long as the trawler
\* lives, a process that runs is registered under the address it goes by, whoever
\* quits, is refused or fails to be written to, and when.
THEOREM RunningHoldsAddress == Spec => []AddressHeld
PROOF
    <1>1. Init => Inv
        BY InitInv
    <1>2. Inv /\ [Next]_vars => Inv'
        BY NextInv
    <1>3. Inv => AddressHeld
        BY Zenon DEF Inv, Core, Held, AddressHeld, Nodes
    <1> QED  BY <1>1, <1>2, <1>3, PTL DEF Spec

-----------------------------------------------------------------------------
(* What a line says of an address b, and what it should. *)

Addresses == 0 .. BROADCAST_ADDRESS - 1

\* std::stoi reads n as std::to_string wrote it.
RoundTrips(n) == ToString(n) \in DOMAIN Numbers /\ Numbers[ToString(n)] = n

Sendable(o) ==
    /\ o = [lossRate |-> o.lossRate, delay |-> o.delay, bw |-> o.bw, bt |-> o.bt]
    /\ o.lossRate \in LossRates
    /\ RoundTrips(o.delay) /\ RoundTrips(o.bw) /\ RoundTrips(o.bt)

\* The line speaks of addresses only.
InRange(line) ==
    /\ receiveRemoveNeighbor(line) \subseteq Addresses
    /\ \A r \in receiveAddNeighbor(line) : r.nodeId \in Addresses

Erases(line, b) == receiveReset(line) \/ b \in receiveRemoveNeighbor(line)

Concerns(line, b) == Erases(line, b) \/ \E r \in receiveAddNeighbor(line) : r.nodeId = b

\* a must have an entry for b.
Needed(m, a, b) == b \in Nodes(m) \ {a} /\ hasLiveEdge(m, a, b) /\ m.nodes[b].alive

\* An entry of a for b with these options has what the topology says.
Right(m, a, b, udpPort, link) ==
    /\ b \in Nodes(m) /\ hasLiveEdge(m, a, b)
    /\ udpPort = m.nodes[b].udpPort
    /\ link = {getEdge(m, {a, b}).options}

LineOK(m, a, b, line) ==
    /\ Erases(line, b) => ~Needed(m, a, b)
    /\ \A r \in receiveAddNeighbor(line) :
        r.nodeId = b /\ r.options # {} => Right(m, a, b, r.port, r.options)

EntryOK(m, a, b, cache) ==
    /\ b \in DOMAIN cache /\ cache[b].link # {} =>
        Right(m, a, b, cache[b].udpPort, cache[b].link)
    /\ b \notin DOMAIN cache => ~Needed(m, a, b)

\* The last of the lines in q that concern b, or else the entry, says what it should.
Settled(m, a, b, q, cache) ==
    /\ \A i \in DOMAIN q :
        Concerns(q[i], b) /\ (\A j \in DOMAIN q : j > i => ~Concerns(q[j], b)) =>
            LineOK(m, a, b, q[i])
    /\ (\A i \in DOMAIN q : ~Concerns(q[i], b)) => EntryOK(m, a, b, cache)

\* A trawler, more closely: what it can say in a line, and to one node per process.
Fit(m) ==
    /\ "allToAll" \in DOMAIN m
    /\ \A a \in Nodes(m) :
        /\ {"ipAddress", "udpPort"} \subseteq DOMAIN m.nodes[a]
        /\ RoundTrips(m.nodes[a].udpPort)
    /\ \A a, b \in Nodes(m) : m.nodes[a].proc = m.nodes[b].proc => a = b
    /\ \A ends \in DOMAIN m.edges :
        {"live", "options"} \subseteq DOMAIN m.edges[ends] /\ Sendable(m.edges[ends].options)
    /\ \A p \in Procs : \A line \in Range(m.out[p]) : InRange(line)

\* Node a is alive, and so is its process for all the trawler finds out now.
Live(m, a) == m.nodes[a].alive /\ m.nodes[a].proc \notin m.broken

SameTopology(m, r) ==
    r.edges = m.edges /\ r.failedNodes = m.failedNodes /\ r.allToAll = m.allToAll

\* r is m after some lines.
Adds(m, r) ==
    /\ Shape(r) /\ Fit(r)
    /\ SameTopology(m, r)
    /\ r.broken = m.broken /\ Nodes(r) = Nodes(m)
    /\ \A a \in Nodes(m) :
        /\ r.nodes[a].proc = m.nodes[a].proc
        /\ r.nodes[a].ipAddress = m.nodes[a].ipAddress
        /\ r.nodes[a].udpPort = m.nodes[a].udpPort
        /\ r.nodes[a].alive => m.nodes[a].alive
        /\ Live(m, a) => r.nodes[a].alive

\* Those for node c are the lines in S.
Hears(m, r, c, S) ==
    LET p == m.nodes[c].proc
    IN  \E x : Listed(x) /\ Range(x) = S /\ r.out[p] = m.out[p] \o x

-----------------------------------------------------------------------------
(* Reading lines. *)

\* A line is of one kind.
LEMMA Kinds ==
    ASSUME NEW line
    PROVE  /\ receiveReset(line) =>
                receiveRemoveNeighbor(line) = {} /\ receiveAddNeighbor(line) = {}
           /\ receiveRemoveNeighbor(line) # {} => receiveAddNeighbor(line) = {}
           /\ \A r, s \in receiveAddNeighbor(line) : r = s
           /\ \A r, s \in receiveRemoveNeighbor(line) : r = s
PROOF
    <1>1. receiveReset(line) => Len(line) = 1
        BY DEF receiveReset, reset
    <1>2. /\ receiveRemoveNeighbor(line) # {} => Len(line) = 2
          /\ \A r, s \in receiveRemoveNeighbor(line) : r = s
        BY Zenon DEF receiveRemoveNeighbor
    <1>3. /\ receiveAddNeighborOptions(line) # {} => Len(line) = 12
          /\ \A r, s \in receiveAddNeighborOptions(line) : r = s
        BY Zenon DEF receiveAddNeighborOptions, result
    <1>4. /\ receiveAddNeighbor(line) # {} => Len(line) \in {4, 12}
          /\ \A r, s \in receiveAddNeighbor(line) : r = s
        BY <1>3, Zenon DEF receiveAddNeighbor, result
    <1>5. receiveReset(line) => receiveRemoveNeighbor(line) = {}
        BY <1>1, <1>2
    <1>6. receiveReset(line) => receiveAddNeighbor(line) = {}
        BY <1>1, <1>4
    <1>7. receiveRemoveNeighbor(line) # {} => receiveAddNeighbor(line) = {}
        BY <1>2, <1>4
    <1> QED  BY <1>2, <1>4, <1>5, <1>6, <1>7

SetTo(now, cache, a, data) ==
    /\ DOMAIN now = DOMAIN cache \cup {a}
    /\ now[a] = data
    /\ \A b \in DOMAIN cache \ {a} : now[b] = cache[b]

LEMMA SetGives ==
    ASSUME NEW cache, NEW a, NEW data
    PROVE  SetTo(set(cache, a, data), cache, a, data)
PROOF
    BY Zenon DEF set, SetTo

\* What refreshARP makes of the entry for b.
Refreshed(now, cache, line, b) ==
    /\ ~Concerns(line, b) =>
        /\ b \in DOMAIN now <=> b \in DOMAIN cache
        /\ b \in DOMAIN cache => now[b] = cache[b]
    /\ Erases(line, b) => b \notin DOMAIN now
    /\ \A r \in receiveAddNeighbor(line) : r.nodeId = b =>
        b \in DOMAIN now /\ now[b].link = r.options /\ now[b].udpPort = r.port
    /\ DOMAIN now \subseteq DOMAIN cache \cup {r.nodeId : r \in receiveAddNeighbor(line)}

LEMMA RefreshGives ==
    ASSUME NEW cache, NEW line, NEW b
    PROVE  Refreshed(refresh(cache, line), cache, line, b)
PROOF
    <1> SUFFICES ASSUME NEW now, now = refresh(cache, line)
                 PROVE  Refreshed(now, cache, line, b)
        BY Zenon
    <1> DEFINE add == CHOOSE r \in receiveAddNeighbor(line) : TRUE
               data == arpData(add.ipAddress, add.port, add.options, FALSE)
    <1>1. CASE receiveReset(line)
        <2>1. now = <<>>
            BY <1>1, Kinds, Zenon DEF refresh
        <2>2. DOMAIN now = {}
            BY <2>1
        <2>3. receiveAddNeighbor(line) = {} /\ Concerns(line, b)
            BY <1>1, Kinds, Zenon DEF Concerns, Erases
        <2> QED  BY <2>2, <2>3, Zenon DEF Refreshed
    <1>2. CASE receiveRemoveNeighbor(line) # {}
        <2>1. ~receiveReset(line) /\ receiveAddNeighbor(line) = {}
            BY <1>2, Kinds, Zenon
        <2>2. now = [a \in DOMAIN cache \ receiveRemoveNeighbor(line) |-> cache[a]]
            BY <1>2, <2>1, Zenon DEF refresh
        <2>3. /\ DOMAIN now = DOMAIN cache \ receiveRemoveNeighbor(line)
              /\ \A a \in DOMAIN now : now[a] = cache[a]
            BY <2>2, Zenon
        <2> QED  BY <2>1, <2>3, Zenon DEF Concerns, Erases, Refreshed
    <1>3. CASE receiveAddNeighbor(line) # {}
        <2>1. ~receiveReset(line) /\ receiveRemoveNeighbor(line) = {}
            BY <1>3, Kinds, Zenon
        <2>2. now = set(cache, add.nodeId, data)
            BY <1>3, <2>1, Zenon DEF refresh
        <2>3. add \in receiveAddNeighbor(line)
            BY <1>3, Zenon
        <2>4. \A r \in receiveAddNeighbor(line) : r = add
            BY <2>3, Kinds, Zenon
        <2>5. data.link = add.options /\ data.udpPort = add.port
            BY DEF arpData
        <2> HIDE DEF add, data
        <2>6. /\ DOMAIN now = DOMAIN cache \cup {add.nodeId}
              /\ now[add.nodeId] = data
              /\ \A a \in DOMAIN cache \ {add.nodeId} : now[a] = cache[a]
            <3>1. SetTo(set(cache, add.nodeId, data), cache, add.nodeId, data)
                BY SetGives, Zenon
            <3>2. SetTo(now, cache, add.nodeId, data)
                BY <2>2, <3>1, Zenon
            <3> QED  BY <3>2, Zenon DEF SetTo
        <2> QED  BY <2>1, <2>3, <2>4, <2>5, <2>6, Zenon DEF Concerns, Erases, Refreshed
    <1>4. CASE /\ ~receiveReset(line) /\ receiveRemoveNeighbor(line) = {}
               /\ receiveAddNeighbor(line) = {}
        <2>1. now = cache
            BY <1>4, Zenon DEF refresh
        <2> QED  BY <1>4, <2>1, Zenon DEF Concerns, Erases, Refreshed
    <1> QED  BY <1>1, <1>2, <1>3, <1>4

\* A received packet leaves an entry as it is or without a link.
LEMMA LearnGives ==
    ASSUME NEW cache, NEW d, NEW b
    PROVE  /\ b \in DOMAIN cache => b \in DOMAIN learn(cache, d)
           /\ b \in DOMAIN learn(cache, d) =>
                \/ b \in DOMAIN cache /\ learn(cache, d)[b] = cache[b]
                \/ b = d.src /\ learn(cache, d)[b].link = {}
PROOF
    <1> DEFINE data == arpData(d.fromIp, d.fromPort, {}, TRUE)
    <1>1. data.link = {}
        BY DEF arpData
    <1> HIDE DEF data
    <1>2. learn(cache, d) = cache \/ learn(cache, d) = set(cache, d.src, data)
        BY Zenon DEF learn, data
    <1>3. CASE learn(cache, d) = cache
        BY <1>3, Zenon
    <1>4. CASE learn(cache, d) = set(cache, d.src, data)
        <2>1. /\ DOMAIN learn(cache, d) = DOMAIN cache \cup {d.src}
              /\ learn(cache, d)[d.src] = data
              /\ \A a \in DOMAIN cache \ {d.src} : learn(cache, d)[a] = cache[a]
            <3>1. SetTo(set(cache, d.src, data), cache, d.src, data)
                BY SetGives, Zenon
            <3>2. SetTo(learn(cache, d), cache, d.src, data)
                BY <1>4, <3>1, Zenon
            <3> QED  BY <3>2, Zenon DEF SetTo
        <2> QED  BY <1>1, <2>1, Zenon
    <1> QED  BY <1>2, <1>3, <1>4

LEMMA LearnKeepsEntry ==
    ASSUME NEW m, NEW a, NEW b, NEW cache, NEW d, EntryOK(m, a, b, cache)
    PROVE  EntryOK(m, a, b, learn(cache, d))
PROOF
    <1>1. /\ b \in DOMAIN cache => b \in DOMAIN learn(cache, d)
          /\ b \in DOMAIN learn(cache, d) =>
                \/ b \in DOMAIN cache /\ learn(cache, d)[b] = cache[b]
                \/ learn(cache, d)[b].link = {}
        BY LearnGives, Zenon
    <1> QED  BY <1>1, Zenon DEF EntryOK

\* A process takes the first line that has come.
LEMMA RefreshSettles ==
    ASSUME NEW m, NEW a, NEW b, NEW q, Listed(q), q # <<>>, NEW cache,
           Settled(m, a, b, q, cache)
    PROVE  Settled(m, a, b, Tail(q), refresh(cache, Head(q)))
PROOF
    <1> DEFINE x == Tail(q)
               now == refresh(cache, Head(q))
    <1>1. /\ Len(q) \in Nat \ {0} /\ DOMAIN q = 1 .. Len(q)
          /\ DOMAIN x = 1 .. Len(q) - 1
          /\ \A i \in DOMAIN x : x[i] = q[i + 1] /\ i + 1 \in DOMAIN q
          /\ Head(q) = q[1]
        BY DEF Listed
    <1>2. \A j \in DOMAIN q : j > 1 => j - 1 \in DOMAIN x /\ q[j] = x[j - 1]
        BY <1>1
    <1> HIDE DEF x
    <1>0. Refreshed(now, cache, q[1], b)
        BY <1>1, RefreshGives, Zenon
    <1> HIDE DEF now
    <1>3. ASSUME NEW i \in DOMAIN x, Concerns(x[i], b),
                 \A j \in DOMAIN x : j > i => ~Concerns(x[j], b)
          PROVE  LineOK(m, a, b, x[i])
        <2>1. i + 1 \in DOMAIN q /\ x[i] = q[i + 1]
            BY <1>1
        <2>2. ASSUME NEW j \in DOMAIN q, j > i + 1  PROVE  ~Concerns(q[j], b)
            <3>1. j - 1 \in DOMAIN x /\ q[j] = x[j - 1] /\ j - 1 > i
                BY <1>1, <1>2, <2>2
            <3> QED  BY <1>3, <3>1, Zenon
        <2>3. Concerns(q[i + 1], b)
            BY <1>3, <2>1, Zenon
        <2>4. LineOK(m, a, b, q[i + 1])
            BY <2>1, <2>2, <2>3, Zenon DEF Settled
        <2> QED  BY <2>1, <2>4, Zenon
    <1>4. ASSUME \A i \in DOMAIN x : ~Concerns(x[i], b)
          PROVE  EntryOK(m, a, b, now)
        <2>1. ASSUME NEW j \in DOMAIN q, j > 1  PROVE  ~Concerns(q[j], b)
            BY <1>2, <1>4, <2>1, Zenon
        <2>2. 1 \in DOMAIN q
            BY <1>1
        <2>3. CASE Concerns(q[1], b)
            <3>1. LineOK(m, a, b, q[1])
                BY <2>1, <2>2, <2>3, Zenon DEF Settled
            <3>2. CASE Erases(q[1], b)
                <4>1. b \notin DOMAIN now
                    BY <1>0, <3>2, Zenon DEF Refreshed
                <4>2. ~Needed(m, a, b)
                    BY <3>1, <3>2, Zenon DEF LineOK
                <4> QED  BY <4>1, <4>2, Zenon DEF EntryOK
            <3>3. ASSUME NEW r \in receiveAddNeighbor(q[1]), r.nodeId = b
                  PROVE  EntryOK(m, a, b, now)
                <4>1. b \in DOMAIN now /\ now[b].link = r.options /\ now[b].udpPort = r.port
                    BY <1>0, <3>3, Zenon DEF Refreshed
                <4>2. r.options # {} => Right(m, a, b, r.port, r.options)
                    BY <3>1, <3>3, Zenon DEF LineOK
                <4> QED  BY <4>1, <4>2, Zenon DEF EntryOK
            <3> QED  BY <2>3, <3>2, <3>3, Zenon DEF Concerns
        <2>4. CASE ~Concerns(q[1], b)
            <3>1. \A j \in DOMAIN q : j = 1 \/ j > 1
                BY <1>1
            <3>2. \A j \in DOMAIN q : ~Concerns(q[j], b)
                BY <2>1, <2>4, <3>1, Zenon
            <3>3. EntryOK(m, a, b, cache)
                BY <3>2, Zenon DEF Settled
            <3>4. /\ b \in DOMAIN now <=> b \in DOMAIN cache
                  /\ b \in DOMAIN cache => now[b] = cache[b]
                BY <1>0, <2>4, Zenon DEF Refreshed
            <3> QED  BY <3>3, <3>4, Zenon DEF EntryOK
        <2> QED  BY <2>3, <2>4
    <1>5. Settled(m, a, b, x, now)
        BY <1>3, <1>4, Zenon DEF Settled
    <1> QED  BY <1>5 DEF x, now

-----------------------------------------------------------------------------
(* Writing lines. *)

LEMMA AddressesRoundTrip ==
    ASSUME NEW b \in Addresses
    PROVE  RoundTrips(b)
PROOF
    <1>1. b \in 0 .. BROADCAST_ADDRESS
        BY TrawlerConstants DEF Addresses
    <1> QED  BY <1>1, TrawlerConstants, Zenon DEF RoundTrips

LEMMA ReadReset ==
    /\ receiveReset(reset)
    /\ receiveRemoveNeighbor(reset) = {} /\ receiveAddNeighbor(reset) = {}
PROOF
    BY Kinds, Zenon DEF receiveReset

LEMMA ReadRemove ==
    ASSUME NEW b \in Addresses
    PROVE  /\ ~receiveReset(removeNeighbor(b))
           /\ receiveRemoveNeighbor(removeNeighbor(b)) = {b}
           /\ receiveAddNeighbor(removeNeighbor(b)) = {}
PROOF
    <1> DEFINE line == removeNeighbor(b)
               word == ToString(b)
    <1>1. word \in DOMAIN Numbers /\ Numbers[word] = b
        BY AddressesRoundTrip, Zenon DEF RoundTrips
    <1>2. line = <<"remove", word>>
        BY Zenon DEF removeNeighbor
    <1> HIDE DEF line, word
    <1>3. Len(line) = 2 /\ line[1] = "remove" /\ line[2] = word
        BY <1>2
    <1>4. receiveRemoveNeighbor(line) = {b}
        BY <1>1, <1>3 DEF receiveRemoveNeighbor, isNumber
    <1>5. receiveRemoveNeighbor(line) # {}
        BY <1>4
    <1>6. ~receiveReset(line) /\ receiveAddNeighbor(line) = {}
        BY <1>5, Kinds, Zenon
    <1> QED  BY <1>4, <1>6 DEF line

\* The line says: b is a neighbour, at this port and with these options.
Reads(line, b, udpPort, link) ==
    /\ ~receiveReset(line) /\ receiveRemoveNeighbor(line) = {}
    /\ \E r \in receiveAddNeighbor(line) : r.nodeId = b
    /\ \A r \in receiveAddNeighbor(line) :
        r.nodeId = b /\ r.port = udpPort /\ r.options = link

LEMMA ReadAdd ==
    ASSUME NEW b \in Addresses, NEW ip, NEW udpPort, RoundTrips(udpPort)
    PROVE  Reads(addNeighbor(b, ip, udpPort), b, udpPort, {})
PROOF
    <1> DEFINE line == addNeighbor(b, ip, udpPort)
               word == ToString(b)
               digits == ToString(udpPort)
               said == [nodeId |-> b, ipAddress |-> ip, port |-> udpPort, options |-> {}]
    <1>1. /\ word \in DOMAIN Numbers /\ Numbers[word] = b
          /\ digits \in DOMAIN Numbers /\ Numbers[digits] = udpPort
        BY AddressesRoundTrip, Zenon DEF RoundTrips
    <1>2. line = <<"add", word, ip, digits>>
        BY Zenon DEF addNeighbor
    <1> HIDE DEF line, word, digits
    <1>3. /\ Len(line) = 4 /\ line[1] = "add" /\ line[2] = word /\ line[3] = ip
          /\ line[4] = digits
        BY <1>2
    <1>4. receiveAddNeighborOptions(line) = {}
        BY <1>3 DEF receiveAddNeighborOptions
    <1>5. isNumber(line, 2) /\ isNumber(line, 4)
        BY <1>1, <1>3 DEF isNumber
    <1>6. receiveAddNeighbor(line) = result(line, {})
        BY <1>3, <1>4, <1>5, Zenon DEF receiveAddNeighbor
    <1>7. result(line, {}) = {said}
        BY <1>1, <1>3 DEF result
    <1>8. said.nodeId = b /\ said.port = udpPort /\ said.options = {}
        OBVIOUS
    <1> HIDE DEF said
    <1>9. receiveAddNeighbor(line) = {said}
        BY <1>6, <1>7, Zenon
    <1>10. receiveAddNeighbor(line) # {}
        BY <1>9, Zenon
    <1>11. ~receiveReset(line) /\ receiveRemoveNeighbor(line) = {}
        BY <1>10, Kinds, Zenon
    <1>12. Reads(line, b, udpPort, {})
        BY <1>8, <1>9, <1>11, Zenon DEF Reads
    <1> QED  BY <1>12 DEF line

LEMMA ReadAddOptions ==
    ASSUME NEW b \in Addresses, NEW ip, NEW udpPort, RoundTrips(udpPort),
           NEW o, Sendable(o)
    PROVE  Reads(addNeighborOptions(b, ip, udpPort, o), b, udpPort, {o})
PROOF
    <1> DEFINE line == addNeighborOptions(b, ip, udpPort, o)
               word == ToString(b)
               digits == ToString(udpPort)
               rate == o.lossRate
               delay == ToString(o.delay)
               bw == ToString(o.bw)
               bt == ToString(o.bt)
               said == [nodeId |-> b, ipAddress |-> ip, port |-> udpPort, options |-> {o}]
    <1>1. /\ word \in DOMAIN Numbers /\ Numbers[word] = b
          /\ digits \in DOMAIN Numbers /\ Numbers[digits] = udpPort
          /\ rate \in LossRates
          /\ delay \in DOMAIN Numbers /\ Numbers[delay] = o.delay
          /\ bw \in DOMAIN Numbers /\ Numbers[bw] = o.bw
          /\ bt \in DOMAIN Numbers /\ Numbers[bt] = o.bt
        BY AddressesRoundTrip, Zenon DEF RoundTrips, Sendable
    <1>2. line = <<"add", word, ip, digits>> \o
                    <<"lossRate", rate, "delay", delay, "bw", bw, "bt", bt>>
        BY Zenon DEF addNeighborOptions, addNeighbor
    <1>3. o = [lossRate |-> rate, delay |-> o.delay, bw |-> o.bw, bt |-> o.bt]
        BY DEF Sendable
    <1> HIDE DEF line, word, digits, rate, delay, bw, bt
    <1>4. /\ Len(line) = 12
          /\ \A i \in 1 .. 4 : line[i] = <<"add", word, ip, digits>>[i]
          /\ \A i \in 5 .. 12 : line[i] =
                <<"lossRate", rate, "delay", delay, "bw", bw, "bt", bt>>[i - 4]
        <2> DEFINE g == <<"add", word, ip, digits>>
                   h == <<"lossRate", rate, "delay", delay, "bw", bw, "bt", bt>>
                   S == {"add", word, ip, digits, "lossRate", rate, "delay", delay,
                         "bw", bw, "bt", bt}
        <2>1. g \in Seq(S) /\ Len(g) = 4
            OBVIOUS
        <2>2. h \in Seq(S) /\ Len(h) = 8
            OBVIOUS
        <2> HIDE DEF g, h, S
        <2>3. /\ Len(g \o h) = 12
              /\ \A i \in 1 .. 4 : (g \o h)[i] = g[i]
              /\ \A i \in 5 .. 12 : (g \o h)[i] = h[i - 4]
            <3> DEFINE c == g \o h
            <3>1. /\ Len(c) = Len(g) + Len(h)
                  /\ \A i \in 1 .. Len(g) + Len(h) :
                        c[i] = IF i <= Len(g) THEN g[i] ELSE h[i - Len(g)]
                BY <2>1, <2>2, ConcatProperties, Zenon
            <3> HIDE DEF c
            <3>2. /\ Len(c) = 12
                  /\ \A i \in 1 .. 12 : c[i] = IF i <= 4 THEN g[i] ELSE h[i - 4]
                BY <2>1, <2>2, <3>1
            <3>3. \A i \in 1 .. 4 : c[i] = g[i]
                BY <3>2
            <3>4. \A i \in 5 .. 12 : c[i] = h[i - 4]
                BY <3>2
            <3> QED  BY <3>2, <3>3, <3>4 DEF c
        <2> QED  BY <1>2, <2>3, Zenon DEF g, h
    <1>5. /\ Len(line) = 12 /\ line[1] = "add" /\ line[2] = word /\ line[3] = ip
          /\ line[4] = digits /\ line[5] = "lossRate" /\ line[6] = rate
          /\ line[7] = "delay" /\ line[8] = delay /\ line[9] = "bw" /\ line[10] = bw
          /\ line[11] = "bt" /\ line[12] = bt
        BY <1>4
    <1>6. \A i \in {2, 4, 8, 10, 12} : isNumber(line, i)
        BY <1>1, <1>5 DEF isNumber
    <1>7. receiveAddNeighborOptions(line) =
            result(line, {[lossRate |-> line[6], delay |-> Numbers[line[8]],
                           bw |-> Numbers[line[10]], bt |-> Numbers[line[12]]]})
        BY <1>1, <1>5, <1>6 DEF receiveAddNeighborOptions
    <1>8. [lossRate |-> line[6], delay |-> Numbers[line[8]],
           bw |-> Numbers[line[10]], bt |-> Numbers[line[12]]] = o
        BY <1>1, <1>3, <1>5
    <1>9. receiveAddNeighborOptions(line) = result(line, {o})
        BY <1>7, <1>8, Zenon
    <1>10. result(line, {o}) = {said}
        BY <1>1, <1>5 DEF result
    <1>11. said.nodeId = b /\ said.port = udpPort /\ said.options = {o}
        OBVIOUS
    <1> HIDE DEF said
    <1>12. receiveAddNeighbor(line) = {said}
        BY <1>9, <1>10, Zenon DEF receiveAddNeighbor
    <1>13. receiveAddNeighbor(line) # {}
        BY <1>12, Zenon
    <1>14. ~receiveReset(line) /\ receiveRemoveNeighbor(line) = {}
        BY <1>13, Kinds, Zenon
    <1>15. Reads(line, b, udpPort, {o})
        BY <1>11, <1>12, <1>14, Zenon DEF Reads
    <1> QED  BY <1>15 DEF line

\* SetToSeq(S) has every element of S.
LEMMA OrderHasAll ==
    ASSUME NEW S, IsFiniteSet(S)
    PROVE  Range(SetToSeq(S)) = S
PROOF
    <1> DEFINE n == Cardinality(S)
               q == SetToSeq(S)
    <1>1. n \in Nat /\ ExistsBijection(1 .. n, S)
        BY FS_CardinalityType, Zenon
    <1> HIDE DEF n
    <1>2. PICK f : f \in Bijection(1 .. n, S)
        BY <1>1, Zenon DEF ExistsBijection
    <1>3. f \in [1 .. n -> S] /\ IsInjective(f)
        BY <1>2, Zenon DEF Bijection, Injection
    <1>4. q \in [1 .. n -> S] /\ IsInjective(q)
        BY <1>3, Zenon DEF SetToSeq, n
    <1> HIDE DEF q
    <1>5. q \in Injection(1 .. n, S)
        BY <1>4, Zenon DEF Injection
    <1>6. Cardinality(1 .. n) = n
        <2>1. 1 \in Int /\ n \in Int
            BY <1>1
        <2>2. Cardinality(1 .. n) = IF 1 > n THEN 0 ELSE n - 1 + 1
            BY <2>1, FS_Interval, Zenon
        <2> QED  BY <2>2, <1>1
    <1>7. q \in Surjection(1 .. n, S)
        BY <1>5, <1>6, FS_Injection DEF n
    <1>8. \A s \in S : \E i \in 1 .. n : q[i] = s
        BY <1>7, Zenon DEF Surjection
    <1>9. DOMAIN q = 1 .. n /\ \A i \in 1 .. n : q[i] \in S
        BY <1>4, Zenon
    <1>10. Range(q) = S
        BY <1>8, <1>9, Zenon DEF Range
    <1> QED  BY <1>10 DEF q

-----------------------------------------------------------------------------
(* Who hears what. *)

LEMMA RangeOf ==
    ASSUME NEW x, NEW q, NEW r, Listed(q), Listed(r)
    PROVE  /\ Range(<<>>) = {} /\ Range(<<x>>) = {x}
           /\ Range(q \o r) = Range(q) \cup Range(r)
PROOF
    <1>1. Range(<<>>) = {} /\ Range(<<x>>) = {x}
        BY DEF Range
    <1> DEFINE S == Range(q) \cup Range(r)
    <1>2. /\ q \in Seq(Range(q)) /\ Range(q) \subseteq S
          /\ r \in Seq(Range(r)) /\ Range(r) \subseteq S
        BY DEF Listed
    <1> HIDE DEF S
    <1>3. q \in Seq(S) /\ r \in Seq(S)
        BY <1>2, SeqMonotonic, Zenon
    <1> DEFINE c == q \o r
    <1>4. /\ c \in Seq(S) /\ Len(c) = Len(q) + Len(r)
          /\ \A i \in 1 .. Len(q) + Len(r) :
                c[i] = IF i <= Len(q) THEN q[i] ELSE r[i - Len(q)]
        BY <1>3, ConcatProperties, Zenon
    <1> HIDE DEF c
    <1>5. /\ Len(q) \in Nat /\ Len(r) \in Nat
          /\ DOMAIN q = 1 .. Len(q) /\ DOMAIN r = 1 .. Len(r) /\ DOMAIN c = 1 .. Len(c)
        BY <1>3, <1>4
    <1>6. \A i \in DOMAIN q : i \in DOMAIN c /\ c[i] = q[i]
        BY <1>4, <1>5
    <1>7. \A i \in DOMAIN r : i + Len(q) \in DOMAIN c /\ c[i + Len(q)] = r[i]
        BY <1>4, <1>5
    <1>8. \A i \in DOMAIN c :
            \/ i \in DOMAIN q /\ c[i] = q[i]
            \/ i - Len(q) \in DOMAIN r /\ c[i] = r[i - Len(q)]
        BY <1>4, <1>5
    <1>9. Range(c) = Range(q) \cup Range(r)
        <2>1. Range(q) \subseteq Range(c)
            BY <1>6, Zenon DEF Range
        <2>2. Range(r) \subseteq Range(c)
            BY <1>7 DEF Range
        <2>3. Range(c) \subseteq Range(q) \cup Range(r)
            BY <1>8 DEF Range
        <2> QED  BY <2>1, <2>2, <2>3, Zenon
    <1> QED  BY <1>1, <1>9 DEF c

LEMMA HearsNothing ==
    ASSUME NEW m, Shape(m), NEW r, NEW c \in Nodes(m),
           r.out[m.nodes[c].proc] = m.out[m.nodes[c].proc]
    PROVE  Hears(m, r, c, {})
PROOF
    <1> DEFINE q == m.out[m.nodes[c].proc]
    <1>1. Listed(q)
        BY Zenon DEF Shape
    <1> HIDE DEF q
    <1>2. Listed(<<>>) /\ Range(<<>>) = {} /\ q \o <<>> = q
        BY <1>1, Singles, RangeOf, ConcatAny, Zenon
    <1> QED  BY <1>2, Zenon DEF Hears, q

LEMMA WriteLinesAdds ==
    ASSUME NEW m, Shape(m), Fit(m), NEW lines, DOMAIN lines \subseteq Nodes(m),
           \A a \in DOMAIN lines :
                Listed(lines[a]) /\ \A line \in Range(lines[a]) : InRange(line)
    PROVE  /\ Adds(m, writeLines(m, lines))
           /\ \A c \in Nodes(m) : Live(m, c) =>
                Hears(m, writeLines(m, lines), c,
                      IF c \in DOMAIN lines THEN Range(lines[c]) ELSE {})
PROOF
    <1> DEFINE failing == {a \in DOMAIN lines : lines[a] # <<>> /\ m.nodes[a].proc \in m.broken}
               to(p) == {a \in DOMAIN lines \ failing : m.nodes[a].proc = p}
               nodes == [a \in DOMAIN m.nodes |->
                            IF a \in failing THEN [m.nodes[a] EXCEPT !.alive = FALSE]
                                             ELSE m.nodes[a]]
               out == [p \in Procs |-> IF to(p) = {} THEN m.out[p]
                                       ELSE m.out[p] \o lines[CHOOSE a \in to(p) : TRUE]]
               r == writeLines(m, lines)
    <1>1. r = [m EXCEPT !.nodes = nodes, !.out = out,
                        !.writeFailed = @ \/ failing # {}]
        BY Zenon DEF writeLines
    <1>2. Tells(m, r)
        BY WriteLinesTells, Zenon
    <1> HIDE DEF r
    <1>3. /\ DOMAIN r = DOMAIN m /\ r.nodes = nodes /\ r.out = out
          /\ r.broken = m.broken
          /\ r.edges = m.edges /\ r.failedNodes = m.failedNodes /\ r.allToAll = m.allToAll
        <2> HIDE DEF nodes, out, failing, to
        <2> QED  BY <1>1 DEF Shape, Fit
    <1>4. DOMAIN nodes = Nodes(m)
        BY DEF Nodes
    <1>5. ASSUME NEW a \in Nodes(m)
          PROVE  /\ {"ipAddress", "udpPort"} \subseteq DOMAIN nodes[a]
                 /\ nodes[a].proc = m.nodes[a].proc
                 /\ nodes[a].ipAddress = m.nodes[a].ipAddress
                 /\ nodes[a].udpPort = m.nodes[a].udpPort
                 /\ nodes[a].alive => m.nodes[a].alive
                 /\ Live(m, a) => nodes[a].alive
        <2>1. {"proc", "alive", "ipAddress", "udpPort"} \subseteq DOMAIN m.nodes[a]
            BY DEF Shape, Fit
        <2>2. CASE a \in failing
            <3>1. nodes[a] = [m.nodes[a] EXCEPT !.alive = FALSE]
                BY <2>2 DEF Nodes
            <3>2. ~Live(m, a)
                BY <2>2, Zenon DEF Live
            <3> HIDE DEF nodes, failing
            <3> QED  BY <3>1, <3>2, <2>1
        <2>3. CASE a \notin failing
            <3>1. nodes[a] = m.nodes[a]
                BY <2>3 DEF Nodes
            <3> HIDE DEF nodes, failing
            <3> QED  BY <3>1, <2>1 DEF Live
        <2> QED  BY <2>2, <2>3
    <1>6. ASSUME NEW p \in Procs
          PROVE  \A line \in Range(out[p]) : InRange(line)
        <2>1. Listed(m.out[p]) /\ \A line \in Range(m.out[p]) : InRange(line)
            BY Zenon DEF Shape, Fit
        <2>2. CASE to(p) = {}
            <3>1. out[p] = m.out[p]
                BY <2>2
            <3> HIDE DEF out
            <3> QED  BY <3>1, <2>1, Zenon
        <2>3. CASE to(p) # {}
            <3> DEFINE c == CHOOSE a \in to(p) : TRUE
            <3>1. c \in to(p)
                BY <2>3, Zenon
            <3>2. out[p] = m.out[p] \o lines[c]
                BY <2>3
            <3>3. c \in DOMAIN lines
                BY <3>1, Zenon
            <3> HIDE DEF c, out, to
            <3>4. Listed(lines[c]) /\ \A line \in Range(lines[c]) : InRange(line)
                BY <3>3
            <3>5. Range(out[p]) = Range(m.out[p]) \cup Range(lines[c])
                BY <2>1, <3>2, <3>4, RangeOf, Zenon
            <3> QED  BY <2>1, <3>4, <3>5, Zenon
        <2> QED  BY <2>2, <2>3
    <1>7. ASSUME NEW c \in Nodes(m), Live(m, c)
          PROVE  Hears(m, r, c, IF c \in DOMAIN lines THEN Range(lines[c]) ELSE {})
        <2> DEFINE p == m.nodes[c].proc
        <2>1. p \in Procs /\ c \notin failing
            BY <1>7, Zenon DEF Live, Shape
        <2>2. \A a \in to(p) : a = c
            BY Zenon DEF Fit
        <2>3. CASE c \in DOMAIN lines
            <3>1. c \in to(p)
                BY <2>1, <2>3, Zenon
            <3>2. (CHOOSE a \in to(p) : TRUE) = c
                BY <2>2, <3>1, Zenon
            <3>3. to(p) # {}
                BY <3>1, Zenon
            <3>4. out[p] = m.out[p] \o lines[c]
                <4> HIDE DEF to
                <4> QED  BY <2>1, <3>2, <3>3
            <3> HIDE DEF out, to, failing
            <3>5. Listed(lines[c])
                BY <2>3
            <3> QED  BY <1>3, <2>3, <3>4, <3>5, Zenon DEF Hears
        <2>4. CASE c \notin DOMAIN lines
            <3>1. to(p) = {}
                BY <2>2, <2>4, Zenon
            <3>2. out[p] = m.out[p]
                BY <2>1, <3>1
            <3> HIDE DEF out, to, failing
            <3>3. Hears(m, r, c, {})
                BY <1>3, <3>2, HearsNothing, Zenon
            <3> QED  BY <2>4, <3>3, Zenon
        <2> QED  BY <2>3, <2>4
    <1> HIDE DEF nodes, out, failing, to
    <1>8. Shape(r) /\ Nodes(r) = Nodes(m)
        BY <1>2, Zenon DEF Tells
    <1>9. Fit(r)
        <2>1. \A a \in Nodes(r) :
                /\ {"ipAddress", "udpPort"} \subseteq DOMAIN r.nodes[a]
                /\ RoundTrips(r.nodes[a].udpPort)
            BY <1>3, <1>5, <1>8, Zenon DEF Fit
        <2>2. \A a, b \in Nodes(r) : r.nodes[a].proc = r.nodes[b].proc => a = b
            <3>1. ASSUME NEW a \in Nodes(m), NEW b \in Nodes(m),
                         nodes[a].proc = nodes[b].proc
                  PROVE  a = b
                <4>1. m.nodes[a].proc = m.nodes[b].proc
                    BY <1>5, <3>1, Zenon
                <4> QED  BY <4>1, Zenon DEF Fit
            <3> QED  BY <1>3, <1>8, <3>1, Zenon
        <2>3. \A ends \in DOMAIN r.edges :
                /\ {"live", "options"} \subseteq DOMAIN r.edges[ends]
                /\ Sendable(r.edges[ends].options)
            BY <1>3, Zenon DEF Fit
        <2>4. \A p \in Procs : \A line \in Range(r.out[p]) : InRange(line)
            BY <1>3, <1>6, Zenon
        <2>5. "allToAll" \in DOMAIN r
            BY <1>3, Zenon DEF Fit
        <2> QED  BY <2>1, <2>2, <2>3, <2>4, <2>5, Zenon DEF Fit
    <1>10. Adds(m, r)
        <2>1. \A a \in Nodes(m) :
                /\ r.nodes[a].proc = m.nodes[a].proc
                /\ r.nodes[a].ipAddress = m.nodes[a].ipAddress
                /\ r.nodes[a].udpPort = m.nodes[a].udpPort
                /\ r.nodes[a].alive => m.nodes[a].alive
                /\ Live(m, a) => r.nodes[a].alive
            BY <1>3, <1>5, Zenon
        <2> QED  BY <1>3, <1>8, <1>9, <2>1, Zenon DEF Adds, SameTopology
    <1> QED  BY <1>7, <1>10, Zenon DEF r

LEMMA AddsNothing ==
    ASSUME NEW m, Shape(m), Fit(m)
    PROVE  Adds(m, m) /\ \A c \in Nodes(m) : Hears(m, m, c, {})
PROOF
    BY HearsNothing, Zenon DEF Adds, SameTopology, Live

LEMMA AddsBoth ==
    ASSUME NEW m, NEW r, NEW s, Adds(m, r), Adds(r, s)
    PROVE  Adds(m, s)
PROOF
    <1>1. /\ Shape(s) /\ Fit(s) /\ SameTopology(m, s)
          /\ s.broken = m.broken /\ Nodes(s) = Nodes(m)
        BY Zenon DEF Adds, SameTopology
    <1>2. ASSUME NEW a \in Nodes(m)
          PROVE  /\ s.nodes[a].proc = m.nodes[a].proc
                 /\ s.nodes[a].ipAddress = m.nodes[a].ipAddress
                 /\ s.nodes[a].udpPort = m.nodes[a].udpPort
                 /\ s.nodes[a].alive => m.nodes[a].alive
                 /\ Live(m, a) => s.nodes[a].alive
        <2>1. a \in Nodes(r) /\ r.broken = m.broken
            BY <1>2, Zenon DEF Adds
        <2>2. Live(m, a) => Live(r, a)
            BY <2>1, Zenon DEF Adds, Live
        <2> QED  BY <2>1, <2>2, Zenon DEF Adds
    <1> QED  BY <1>1, <1>2, Zenon DEF Adds

LEMMA LiveStays ==
    ASSUME NEW m, NEW r, Adds(m, r), NEW c \in Nodes(m), Live(m, c)
    PROVE  c \in Nodes(r) /\ Live(r, c)
PROOF
    BY Zenon DEF Adds, Live

LEMMA HearsBoth ==
    ASSUME NEW m, NEW r, NEW s, Shape(m), Adds(m, r), NEW c \in Nodes(m), NEW S, NEW T,
           Hears(m, r, c, S), Hears(r, s, c, T)
    PROVE  Hears(m, s, c, S \cup T)
PROOF
    <1> DEFINE p == m.nodes[c].proc
    <1>1. r.nodes[c].proc = p /\ Listed(m.out[p])
        BY Zenon DEF Adds, Shape
    <1>2. PICK x : Listed(x) /\ Range(x) = S /\ r.out[p] = m.out[p] \o x
        BY Zenon DEF Hears
    <1>3. PICK y : Listed(y) /\ Range(y) = T /\ s.out[p] = r.out[p] \o y
        BY <1>1, Zenon DEF Hears
    <1> HIDE DEF p
    <1>4. Listed(x \o y) /\ Range(x \o y) = S \cup T
        BY <1>2, <1>3, ConcatAny, RangeOf, Zenon
    <1>5. s.out[p] = m.out[p] \o (x \o y)
        <2> DEFINE q == m.out[p]
                   V == Range(q) \cup Range(x) \cup Range(y)
        <2>1. /\ q \in Seq(Range(q)) /\ Range(q) \subseteq V
              /\ x \in Seq(Range(x)) /\ Range(x) \subseteq V
              /\ y \in Seq(Range(y)) /\ Range(y) \subseteq V
            BY <1>1, <1>2, <1>3, Zenon DEF Listed
        <2> HIDE DEF V, q
        <2>2. q \in Seq(V) /\ x \in Seq(V) /\ y \in Seq(V)
            BY <2>1, SeqMonotonic, Zenon
        <2>3. (q \o x) \o y = q \o (x \o y)
            BY <2>2, ConcatAssociative
        <2> USE DEF q
        <2> QED  BY <1>2, <1>3, <2>3, Zenon
    <1> QED  BY <1>4, <1>5, Zenon DEF Hears, p

LEMMA WriteLineAdds ==
    ASSUME NEW m, Shape(m), Fit(m), NEW a \in Nodes(m), NEW line, InRange(line)
    PROVE  /\ Adds(m, writeLine(m, a, line))
           /\ \A c \in Nodes(m) : Live(m, c) =>
                Hears(m, writeLine(m, a, line), c, IF c = a THEN {line} ELSE {})
PROOF
    <1> DEFINE lines == [x \in {a} |-> <<line>>]
    <1>1. DOMAIN lines = {a} /\ lines[a] = <<line>>
        BY Zenon
    <1>2. Listed(<<line>>) /\ Range(<<line>>) = {line}
        BY Singles, RangeOf, Zenon
    <1> HIDE DEF lines
    <1>3. /\ DOMAIN lines \subseteq Nodes(m)
          /\ \A x \in DOMAIN lines :
                Listed(lines[x]) /\ \A l \in Range(lines[x]) : InRange(l)
        BY <1>1, <1>2, Zenon
    <1> DEFINE r == writeLines(m, lines)
    <1>4. /\ Adds(m, r)
          /\ \A c \in Nodes(m) : Live(m, c) =>
                Hears(m, r, c, IF c \in DOMAIN lines THEN Range(lines[c]) ELSE {})
        BY <1>3, WriteLinesAdds, Zenon
    <1>5. writeLine(m, a, line) = r
        BY Zenon DEF writeLine, lines
    <1> HIDE DEF r
    <1>6. ASSUME NEW c \in Nodes(m), Live(m, c)
          PROVE  Hears(m, r, c, IF c = a THEN {line} ELSE {})
        <2>1. CASE c = a
            <3>1. Hears(m, r, c, Range(lines[c]))
                BY <1>1, <1>4, <1>6, <2>1, Zenon
            <3> QED  BY <1>1, <1>2, <2>1, <3>1, Zenon
        <2>2. CASE c # a
            BY <1>1, <1>4, <1>6, <2>2, Zenon
        <2> QED  BY <2>1, <2>2
    <1> QED  BY <1>4, <1>5, <1>6, Zenon

-----------------------------------------------------------------------------
(* The lines of the trawler. *)

LEMMA TopologySame ==
    ASSUME NEW m, NEW r, SameTopology(m, r), NEW a, NEW b
    PROVE  /\ hasLiveEdge(r, a, b) <=> hasLiveEdge(m, a, b)
           /\ getEdge(r, {a, b}) = getEdge(m, {a, b})
PROOF
    <1>1. \A ends : getEdge(r, ends) = getEdge(m, ends) /\ (hasEdge(r, ends) <=> hasEdge(m, ends))
        BY Zenon DEF getEdge, hasEdge, SameTopology
    <1>2. \A n : isNodeAlive(r, n) <=> isNodeAlive(m, n)
        BY Zenon DEF isNodeAlive, SameTopology
    <1> QED  BY <1>1, <1>2, Zenon DEF hasLiveEdge

LEMMA LiveEdgeBothWays ==
    ASSUME NEW m, NEW a, NEW b
    PROVE  /\ hasLiveEdge(m, a, b) <=> hasLiveEdge(m, b, a)
           /\ {a, b} = {b, a}
PROOF
    <1>1. {a, b} = {b, a}
        OBVIOUS
    <1> QED  BY <1>1, Zenon DEF hasLiveEdge

LEMMA DefaultSendable ==
    Sendable(defaultOptions)
PROOF
    <1>1. /\ defaultOptions = [lossRate |-> "0.0", delay |-> defaultOptions.delay,
                               bw |-> defaultOptions.bw, bt |-> defaultOptions.bt]
          /\ defaultOptions.lossRate = "0.0"
        BY DEF defaultOptions
    <1>2. "0.0" \in LossRates
        BY ParserConstants, Zenon
    <1>3. /\ RoundTrips(defaultOptions.delay) /\ RoundTrips(defaultOptions.bw)
          /\ RoundTrips(defaultOptions.bt)
        BY EmulationConstants, Zenon DEF RoundTrips
    <1> HIDE DEF defaultOptions
    <1> QED  BY <1>1, <1>2, <1>3, Zenon DEF Sendable

LEMMA EdgeSendable ==
    ASSUME NEW m, Fit(m), NEW ends
    PROVE  /\ Sendable(getEdge(m, ends).options)
           /\ {"live", "options"} \subseteq DOMAIN getEdge(m, ends)
PROOF
    <1>1. Sendable(defaultOptions)
        BY DefaultSendable
    <1>2. CASE ends \in DOMAIN m.edges
        BY <1>2, Zenon DEF Fit, getEdge
    <1>3. CASE ends \notin DOMAIN m.edges
        <2>1. getEdge(m, ends) = NewEdge(ends)
            BY <1>3, Zenon DEF getEdge
        <2>2. /\ NewEdge(ends).options = defaultOptions
              /\ DOMAIN NewEdge(ends) = {"live", "options", "nextSendTime"}
            BY DEF NewEdge
        <2>3. {"live", "options"} \subseteq DOMAIN NewEdge(ends)
            BY <2>2
        <2> QED  BY <1>1, <2>1, <2>2, <2>3, Zenon
    <1> QED  BY <1>2, <1>3

LEMMA AddLineReads ==
    ASSUME NEW m, Shape(m), Fit(m), NEW a, NEW b \in Nodes(m)
    PROVE  /\ Reads(addNeighborLine(m, a, b), b, m.nodes[b].udpPort,
                    IF hasLiveEdge(m, a, b) THEN {getEdge(m, {a, b}).options} ELSE {})
           /\ InRange(addNeighborLine(m, a, b))
PROOF
    <1> DEFINE line == addNeighborLine(m, a, b)
               n == m.nodes[b]
               o == getEdge(m, {a, b}).options
    <1>1. b \in Addresses /\ RoundTrips(n.udpPort) /\ Sendable(o)
        BY EdgeSendable, Zenon DEF Shape, Fit, Addresses
    <1>2. line = IF hasLiveEdge(m, a, b)
                 THEN addNeighborOptions(b, n.ipAddress, n.udpPort, o)
                 ELSE addNeighbor(b, n.ipAddress, n.udpPort)
        BY Zenon DEF addNeighborLine
    <1> HIDE DEF line, n, o
    <1>3. Reads(line, b, n.udpPort, IF hasLiveEdge(m, a, b) THEN {o} ELSE {})
        BY <1>1, <1>2, ReadAdd, ReadAddOptions, Zenon
    <1>4. InRange(line)
        BY <1>1, <1>3, Zenon DEF Reads, InRange
    <1> QED  BY <1>3, <1>4 DEF line, n, o

LEMMA AddLineSame ==
    ASSUME NEW m, NEW r, Adds(m, r), NEW a, NEW b \in Nodes(m)
    PROVE  addNeighborLine(r, a, b) = addNeighborLine(m, a, b)
PROOF
    <1>1. /\ r.nodes[b].ipAddress = m.nodes[b].ipAddress
          /\ r.nodes[b].udpPort = m.nodes[b].udpPort
        BY Zenon DEF Adds
    <1>2. /\ hasLiveEdge(r, a, b) <=> hasLiveEdge(m, a, b)
          /\ getEdge(r, {a, b}) = getEdge(m, {a, b})
        <2>1. SameTopology(m, r)
            BY Zenon DEF Adds
        <2> QED  BY <2>1, TopologySame
    <1> QED  BY <1>1, <1>2, Zenon DEF addNeighborLine

LEMMA RemoveLineReads ==
    ASSUME NEW b \in Addresses
    PROVE  InRange(removeNeighbor(b)) /\ InRange(reset)
PROOF
    BY ReadRemove, ReadReset, Zenon DEF InRange

\* The other end, for node c, of an edge between a and b.
Other(c, a, b) == {d \in {a, b} : {c, d} = {a, b}}

LEMMA OtherIs ==
    ASSUME NEW a, NEW b, NEW c
    PROVE  Other(c, a, b) = (IF c = a THEN {b} ELSE {}) \cup (IF c = b THEN {a} ELSE {})
PROOF
    BY DEF Other

\* Two lines, to the ends of an edge.
LEMMA TwoLinesAdd ==
    ASSUME NEW m, Shape(m), Fit(m), NEW a \in Nodes(m), NEW b \in Nodes(m),
           NEW x, NEW y, InRange(x), InRange(y)
    PROVE  /\ Adds(m, writeLine(writeLine(m, a, x), b, y))
           /\ \A c \in Nodes(m) : Live(m, c) =>
                Hears(m, writeLine(writeLine(m, a, x), b, y), c,
                      (IF c = a THEN {x} ELSE {}) \cup (IF c = b THEN {y} ELSE {}))
PROOF
    <1> DEFINE r == writeLine(m, a, x)
               s == writeLine(r, b, y)
    <1>1. /\ Adds(m, r)
          /\ \A c \in Nodes(m) : Live(m, c) => Hears(m, r, c, IF c = a THEN {x} ELSE {})
        BY WriteLineAdds, Zenon
    <1> HIDE DEF r
    <1>2. Shape(r) /\ Fit(r) /\ b \in Nodes(r)
        BY <1>1, Zenon DEF Adds
    <1>3. /\ Adds(r, s)
          /\ \A c \in Nodes(r) : Live(r, c) => Hears(r, s, c, IF c = b THEN {y} ELSE {})
        BY <1>2, WriteLineAdds, Zenon
    <1> HIDE DEF s
    <1>4. Adds(m, s)
        BY <1>1, <1>3, AddsBoth, Zenon
    <1>5. ASSUME NEW c \in Nodes(m), Live(m, c)
          PROVE  Hears(m, s, c, (IF c = a THEN {x} ELSE {}) \cup (IF c = b THEN {y} ELSE {}))
        <2>1. c \in Nodes(r) /\ Live(r, c)
            BY <1>1, <1>5, LiveStays, Zenon
        <2>2. /\ Hears(m, r, c, IF c = a THEN {x} ELSE {})
              /\ Hears(r, s, c, IF c = b THEN {y} ELSE {})
            BY <1>1, <1>3, <1>5, <2>1, Zenon
        <2> QED  BY <1>1, <2>2, HearsBoth, Zenon
    <1> QED  BY <1>4, <1>5 DEF r, s

LEMMA StartEdgeAdds ==
    ASSUME NEW m, Shape(m), Fit(m), NEW a, NEW b, bothRegistered(m, a, b)
    PROVE  /\ Adds(m, startEdge(m, a, b))
           /\ \A c \in Nodes(m) : Live(m, c) =>
                Hears(m, startEdge(m, a, b), c,
                      {addNeighborLine(m, c, d) : d \in Other(c, a, b)})
PROOF
    <1>1. a \in Nodes(m) /\ b \in Nodes(m)
        BY DEF bothRegistered, Nodes
    <1> DEFINE x == addNeighborLine(m, a, b)
               y == addNeighborLine(m, b, a)
               r == writeLine(m, a, x)
               s == writeLine(r, b, y)
    <1>2. InRange(x) /\ InRange(y)
        BY <1>1, AddLineReads, Zenon
    <1>3. Adds(m, r)
        BY <1>1, <1>2, WriteLineAdds, Zenon
    <1>4. /\ Adds(m, s)
          /\ \A c \in Nodes(m) : Live(m, c) =>
                Hears(m, s, c, (IF c = a THEN {x} ELSE {}) \cup (IF c = b THEN {y} ELSE {}))
        BY <1>1, <1>2, TwoLinesAdd, Zenon
    <1>5. startEdge(m, a, b) = s
        <2>1. addNeighborLine(r, b, a) = y
            BY <1>1, <1>3, AddLineSame, Zenon
        <2> QED  BY <2>1, Zenon DEF startEdge, sendAddNeighbor
    <1> HIDE DEF s, r
    <1>6. ASSUME NEW c
          PROVE  {addNeighborLine(m, c, d) : d \in Other(c, a, b)} =
                    (IF c = a THEN {x} ELSE {}) \cup (IF c = b THEN {y} ELSE {})
        <2> DEFINE S == {addNeighborLine(m, c, d) : d \in Other(c, a, b)}
        <2>1. CASE c = a /\ c = b
            BY <2>1, OtherIs
        <2>2. CASE c = a /\ c # b
            BY <2>2, OtherIs
        <2>3. CASE c # a /\ c = b
            BY <2>3, OtherIs
        <2>4. CASE c # a /\ c # b
            BY <2>4, OtherIs
        <2> QED  BY <2>1, <2>2, <2>3, <2>4
    <1> HIDE DEF x, y
    <1> QED  BY <1>4, <1>5, <1>6, Zenon

LEMMA FailEdgeAdds ==
    ASSUME NEW m, Shape(m), Fit(m), NEW a, NEW b, bothRegistered(m, a, b)
    PROVE  /\ Adds(m, failEdge(m, a, b))
           /\ \A c \in Nodes(m) : Live(m, c) =>
                Hears(m, failEdge(m, a, b), c, {removeNeighbor(d) : d \in Other(c, a, b)})
PROOF
    <1>1. a \in Nodes(m) /\ b \in Nodes(m) /\ a \in Addresses /\ b \in Addresses
        BY DEF bothRegistered, Nodes, Shape, Addresses
    <1> DEFINE x == removeNeighbor(b)
               y == removeNeighbor(a)
               s == writeLine(writeLine(m, a, x), b, y)
    <1>2. InRange(x) /\ InRange(y)
        BY <1>1, RemoveLineReads, Zenon
    <1>3. /\ Adds(m, s)
          /\ \A c \in Nodes(m) : Live(m, c) =>
                Hears(m, s, c, (IF c = a THEN {x} ELSE {}) \cup (IF c = b THEN {y} ELSE {}))
        BY <1>1, <1>2, TwoLinesAdd, Zenon
    <1>4. failEdge(m, a, b) = s
        BY Zenon DEF failEdge, sendRemoveNeighbor
    <1> HIDE DEF s
    <1>5. ASSUME NEW c
          PROVE  {removeNeighbor(d) : d \in Other(c, a, b)} =
                    (IF c = a THEN {x} ELSE {}) \cup (IF c = b THEN {y} ELSE {})
        <2>1. CASE c = a /\ c = b
            BY <2>1, OtherIs
        <2>2. CASE c = a /\ c # b
            BY <2>2, OtherIs
        <2>3. CASE c # a /\ c = b
            BY <2>3, OtherIs
        <2>4. CASE c # a /\ c # b
            BY <2>4, OtherIs
        <2> QED  BY <2>1, <2>2, <2>3, <2>4
    <1> HIDE DEF x, y
    <1> QED  BY <1>3, <1>4, <1>5, Zenon

LEMMA RemoveAsNeighborAdds ==
    ASSUME NEW m, Shape(m), Fit(m), NEW dying \in Addresses
    PROVE  /\ Adds(m, removeAsNeighbor(m, dying))
           /\ \A c \in Nodes(m) : Live(m, c) =>
                Hears(m, removeAsNeighbor(m, dying), c,
                      IF c \in liveNeighbors(m, dying) THEN {removeNeighbor(dying)} ELSE {})
PROOF
    <1> DEFINE line == removeNeighbor(dying)
               L == liveNeighbors(m, dying)
               lines == [a \in L |-> <<line>>]
               r == writeLines(m, lines)
    <1>1. InRange(line)
        BY RemoveLineReads, Zenon
    <1> HIDE DEF line
    <1>2. Listed(<<line>>) /\ Range(<<line>>) = {line}
        BY Singles, RangeOf, Zenon
    <1>3. DOMAIN lines = L /\ \A x \in L : lines[x] = <<line>>
        BY Zenon
    <1>4. L \subseteq Nodes(m)
        BY Zenon DEF liveNeighbors, Nodes
    <1>5. removeAsNeighbor(m, dying) = r
        BY Zenon DEF removeAsNeighbor, line
    <1> HIDE DEF lines, L
    <1>6. /\ DOMAIN lines \subseteq Nodes(m)
          /\ \A x \in DOMAIN lines :
                Listed(lines[x]) /\ \A l \in Range(lines[x]) : InRange(l)
        BY <1>1, <1>2, <1>3, <1>4, Zenon
    <1>7. /\ Adds(m, r)
          /\ \A c \in Nodes(m) : Live(m, c) =>
                Hears(m, r, c, IF c \in DOMAIN lines THEN Range(lines[c]) ELSE {})
        BY <1>6, WriteLinesAdds, Zenon
    <1> HIDE DEF r
    <1>8. ASSUME NEW c \in Nodes(m), Live(m, c)
          PROVE  Hears(m, r, c, IF c \in L THEN {line} ELSE {})
        <2>1. CASE c \in L
            <3>1. Range(lines[c]) = {line}
                BY <1>2, <1>3, <2>1, Zenon
            <3>2. Hears(m, r, c, Range(lines[c]))
                BY <1>3, <1>7, <1>8, <2>1, Zenon
            <3> QED  BY <2>1, <3>1, <3>2, Zenon
        <2>2. CASE c \notin L
            BY <1>3, <1>7, <1>8, <2>2, Zenon
        <2> QED  BY <2>1, <2>2
    <1> QED  BY <1>5, <1>7, <1>8, Zenon DEF L, line

\* Of whom node c hears when s starts.
Hereof(m, c, s) ==
    IF c = s THEN liveNeighbors(m, s) ELSE IF c \in liveNeighbors(m, s) THEN {s} ELSE {}

LEMMA UpdateNeighborsAdds ==
    ASSUME NEW m, Shape(m), Fit(m), NEW s \in Nodes(m)
    PROVE  /\ Adds(m, updateNeighbors(m, s))
           /\ \A c \in Nodes(m) : Live(m, c) =>
                Hears(m, updateNeighbors(m, s), c,
                      {addNeighborLine(m, c, d) : d \in Hereof(m, c, s)})
PROOF
    <1> DEFINE L == liveNeighbors(m, s)
               order == SetToSeq(L)
               own == [i \in DOMAIN order |-> addNeighborLine(m, s, order[i])]
               lines == [a \in L \cup {s} |->
                            IF a = s THEN own ELSE <<addNeighborLine(m, a, s)>>]
               said(c) == {addNeighborLine(m, c, d) : d \in Hereof(m, c, s)}
               r == writeLines(m, lines)
    <1>1. L \subseteq Nodes(m) /\ s \notin L
        BY Zenon DEF liveNeighbors, Nodes
    <1>2. IsFiniteSet(L)
        <2> HIDE DEF L
        <2>1. 0 \in Int /\ BROADCAST_ADDRESS - 1 \in Int
            BY TrawlerConstants
        <2>2. IsFiniteSet(0 .. BROADCAST_ADDRESS - 1)
            BY <2>1, FS_Interval, Zenon
        <2>3. L \in SUBSET (0 .. BROADCAST_ADDRESS - 1)
            BY <1>1, Zenon DEF Shape
        <2> QED  BY <2>2, <2>3, FS_Subset, Zenon
    <1>3. order \in Seq(L) /\ Range(order) = L
        BY <1>2, OrderIsSeq, OrderHasAll, Zenon
    <1>4. updateNeighbors(m, s) = r
        BY Zenon DEF updateNeighbors, Nodes
    <1> HIDE DEF r
    <1>5. Listed(own) /\ Range(own) = said(s)
        <2> HIDE DEF L, order
        <2>1. Len(order) \in Nat /\ DOMAIN order = 1 .. Len(order)
            BY <1>3
        <2>2. Range(own) = {addNeighborLine(m, s, order[i]) : i \in DOMAIN order}
            <3>1. DOMAIN own = DOMAIN order
                BY Zenon
            <3>2. \A i \in DOMAIN order : own[i] = addNeighborLine(m, s, order[i])
                BY Zenon
            <3> HIDE DEF own
            <3> QED  BY <3>1, <3>2, Zenon DEF Range
        <2>3. Listed(own)
            <3> DEFINE S == Range(own)
            <3>1. /\ own = [i \in DOMAIN order |-> own[i]]
                  /\ \A i \in DOMAIN order : own[i] \in S
                BY <2>2, Zenon DEF Range
            <3> HIDE DEF own, S
            <3>2. own \in [1 .. Len(order) -> S]
                BY <3>1, <2>1
            <3>3. own \in Seq(S)
                BY <2>1, <3>2
            <3> QED  BY <3>3 DEF S, Listed
        <2>4. Hereof(m, s, s) = L
            BY Zenon DEF Hereof, L
        <2>5. Range(order) = {order[i] : i \in DOMAIN order}
            BY Zenon DEF Range
        <2> HIDE DEF own
        <2>6. Range(own) \subseteq said(s)
            BY <1>3, <2>2, <2>4, <2>5, Zenon
        <2>7. said(s) \subseteq Range(own)
            BY <1>3, <2>2, <2>4, <2>5, Zenon
        <2> QED  BY <2>3, <2>6, <2>7, Zenon
    <1>6. \A a \in Nodes(m), b \in Nodes(m) : InRange(addNeighborLine(m, a, b))
        BY AddLineReads, Zenon
    <1>7. \A c : c # s => Hereof(m, c, s) = IF c \in L THEN {s} ELSE {}
        BY Zenon DEF Hereof
    <1>8. \A c \in L \cup {s} : Hereof(m, c, s) \subseteq Nodes(m)
        BY <1>1, <1>7, Zenon DEF Hereof
    <1>9. /\ DOMAIN lines = L \cup {s} /\ lines[s] = own
          /\ \A a \in L : lines[a] = <<addNeighborLine(m, a, s)>>
        <2> HIDE DEF own, L, order
        <2> QED  BY <1>1, Zenon
    <1> HIDE DEF lines, own, order
    <1>10. \A a \in L : Range(lines[a]) = said(a) /\ Listed(lines[a])
        <2> TAKE a \in L
        <2> DEFINE line == addNeighborLine(m, a, s)
        <2>1. Hereof(m, a, s) = {s}
            BY <1>1, <1>7, Zenon
        <2>2. said(a) = {line}
            BY <2>1
        <2> HIDE DEF line, L
        <2>3. Listed(<<line>>) /\ Range(<<line>>) = {line}
            BY Singles, RangeOf, Zenon
        <2>4. lines[a] = <<line>>
            BY <1>9, Zenon DEF line
        <2> QED  BY <2>2, <2>3, <2>4, Zenon
    <1>11. ASSUME NEW a \in DOMAIN lines
           PROVE  /\ a \in Nodes(m) /\ Range(lines[a]) = said(a) /\ Listed(lines[a])
                  /\ \A line \in Range(lines[a]) : InRange(line)
        <2>1. a \in L \/ a = s
            BY <1>9, Zenon
        <2>2. a \in Nodes(m) /\ Range(lines[a]) = said(a) /\ Listed(lines[a])
            BY <2>1, <1>1, <1>5, <1>9, <1>10, Zenon
        <2>3. \A line \in said(a) : InRange(line)
            BY <2>1, <2>2, <1>6, <1>8, Zenon
        <2> HIDE DEF said
        <2> QED  BY <2>2, <2>3, Zenon
    <1>12. \A c : c \notin DOMAIN lines => said(c) = {}
        <2>1. \A c : c \notin DOMAIN lines => Hereof(m, c, s) = {}
            BY <1>7, <1>9, Zenon
        <2> QED  BY <2>1, Zenon
    <1> HIDE DEF said, L
    <1>13. /\ Adds(m, r)
           /\ \A c \in Nodes(m) : Live(m, c) =>
                Hears(m, r, c, IF c \in DOMAIN lines THEN Range(lines[c]) ELSE {})
        <2>1. /\ DOMAIN lines \subseteq Nodes(m)
              /\ \A a \in DOMAIN lines :
                    Listed(lines[a]) /\ \A line \in Range(lines[a]) : InRange(line)
            BY <1>11, Zenon
        <2> QED  BY <2>1, WriteLinesAdds, Zenon DEF r
    <1>14. ASSUME NEW c \in Nodes(m), Live(m, c)  PROVE  Hears(m, r, c, said(c))
        <2>1. CASE c \in DOMAIN lines
            <3>1. Hears(m, r, c, Range(lines[c]))
                BY <1>13, <1>14, <2>1, Zenon
            <3> QED  BY <1>11, <2>1, <3>1, Zenon
        <2>2. CASE c \notin DOMAIN lines
            <3>1. Hears(m, r, c, {})
                BY <1>13, <1>14, <2>2, Zenon
            <3> QED  BY <1>12, <2>2, <3>1, Zenon
        <2> QED  BY <2>1, <2>2
    <1> QED  BY <1>4, <1>13, <1>14, Zenon DEF said

LEMMA FailNodeAdds ==
    ASSUME NEW m, Shape(m), Fit(m), NEW a \in Nodes(m)
    PROVE  /\ Adds(m, failNode(m, a))
           /\ \A c \in Nodes(m) : Live(m, c) =>
                Hears(m, failNode(m, a), c,
                      (IF c = a THEN {reset} ELSE {}) \cup
                      (IF c \in liveNeighbors(m, a) THEN {removeNeighbor(a)} ELSE {}))
PROOF
    <1> DEFINE r == writeLine(m, a, reset)
               s == removeAsNeighbor(r, a)
               first(c) == IF c = a THEN {reset} ELSE {}
               then(n, c) == IF c \in liveNeighbors(n, a) THEN {removeNeighbor(a)} ELSE {}
    <1>1. a \in Addresses /\ InRange(reset)
        BY RemoveLineReads, Zenon DEF Shape, Addresses
    <1>2. /\ Adds(m, r)
          /\ \A c \in Nodes(m) : Live(m, c) => Hears(m, r, c, first(c))
        BY <1>1, WriteLineAdds, Zenon
    <1>3. failNode(m, a) = s
        BY Zenon DEF failNode, sendReset, Nodes
    <1> HIDE DEF r, first
    <1>4. Shape(r) /\ Fit(r)
        BY <1>2, Zenon DEF Adds
    <1>5. /\ Adds(r, s)
          /\ \A c \in Nodes(r) : Live(r, c) => Hears(r, s, c, then(r, c))
        BY <1>1, <1>4, RemoveAsNeighborAdds, Zenon
    <1> HIDE DEF s
    <1>6. Adds(m, s)
        BY <1>2, <1>5, AddsBoth, Zenon
    <1>7. ASSUME NEW c \in Nodes(m), Live(m, c)
          PROVE  Hears(m, s, c, first(c) \cup then(m, c))
        <2>1. c \in Nodes(r) /\ Live(r, c)
            BY <1>2, <1>7, LiveStays, Zenon
        <2>2. c \in liveNeighbors(r, a) <=> c \in liveNeighbors(m, a)
            <3>1. SameTopology(m, r)
                BY <1>2, Zenon DEF Adds
            <3>2. hasLiveEdge(r, c, a) <=> hasLiveEdge(m, c, a)
                BY <3>1, TopologySame
            <3> QED  BY <1>7, <2>1, <3>2, Zenon DEF liveNeighbors, Nodes, Live
        <2>3. then(r, c) = then(m, c)
            BY <2>2, Zenon
        <2> HIDE DEF then
        <2>4. Hears(m, r, c, first(c)) /\ Hears(r, s, c, then(m, c))
            BY <1>2, <1>5, <1>7, <2>1, <2>3, Zenon
        <2> QED  BY <1>2, <2>4, HearsBoth, Zenon
    <1> QED  BY <1>3, <1>6, <1>7, Zenon DEF first
-----------------------------------------------------------------------------
(* What a node has heard, and what it has to hear. *)

\* What was right for a of b is so still, and nothing else is needed.
Weaker(w, r, a, b) ==
    /\ Needed(r, a, b) => Needed(w, a, b)
    /\ \A udpPort, link : Right(w, a, b, udpPort, link) => Right(r, a, b, udpPort, link)

\* Of the lines in S one is about b at least, and all that are say what they should.
Says(r, a, b, S) ==
    /\ \E line \in S : Concerns(line, b)
    /\ \A line \in S : Concerns(line, b) => LineOK(r, a, b, line)

\* What the lines in S say of b is so if b is in N, and nothing else.
Covers(r, a, b, N, S) ==
    IF b \in N THEN Says(r, a, b, S) ELSE \A line \in S : ~Concerns(line, b)

\* The lines in S do for a, as far as b goes, when the trawler becomes r.
Told(w, r, a, b, S) ==
    \/ Says(r, a, b, S)
    \/ (\A line \in S : ~Concerns(line, b)) /\ Weaker(w, r, a, b)

Informs(w, r) ==
    \A a \in Nodes(w) \cap Nodes(r) : Live(w, a) =>
        \A b \in Addresses : \E S : Hears(w, r, a, S) /\ Told(w, r, a, b, S)

LEMMA WeakerSettles ==
    ASSUME NEW w, NEW r, NEW a, NEW b, Weaker(w, r, a, b), NEW q, NEW cache,
           Settled(w, a, b, q, cache)
    PROVE  Settled(r, a, b, q, cache)
PROOF
    <1>1. \A line : LineOK(w, a, b, line) => LineOK(r, a, b, line)
        BY Zenon DEF LineOK, Weaker
    <1>2. EntryOK(w, a, b, cache) => EntryOK(r, a, b, cache)
        BY Zenon DEF EntryOK, Weaker
    <1> QED  BY <1>1, <1>2, Zenon DEF Settled

\* More lines have come.
LEMMA MoreSettles ==
    ASSUME NEW r, NEW a, NEW b, NEW q, NEW x, Listed(q), Listed(x), NEW cache,
           \/ Says(r, a, b, Range(x))
           \/ (\A line \in Range(x) : ~Concerns(line, b)) /\ Settled(r, a, b, q, cache)
    PROVE  Settled(r, a, b, q \o x, cache)
PROOF
    <1> DEFINE S == Range(q) \cup Range(x)
               c == q \o x
    <1>1. /\ q \in Seq(Range(q)) /\ Range(q) \subseteq S
          /\ x \in Seq(Range(x)) /\ Range(x) \subseteq S
        BY DEF Listed
    <1> HIDE DEF S
    <1>2. q \in Seq(S) /\ x \in Seq(S)
        BY <1>1, SeqMonotonic, Zenon
    <1>3. /\ c \in Seq(S) /\ Len(c) = Len(q) + Len(x)
          /\ \A i \in 1 .. Len(q) + Len(x) :
                c[i] = IF i <= Len(q) THEN q[i] ELSE x[i - Len(q)]
        BY <1>2, ConcatProperties, Zenon
    <1> HIDE DEF c
    <1>4. /\ Len(q) \in Nat /\ Len(x) \in Nat
          /\ DOMAIN q = 1 .. Len(q) /\ DOMAIN x = 1 .. Len(x) /\ DOMAIN c = 1 .. Len(c)
        BY <1>2, <1>3
    <1>5. \A i \in DOMAIN q : i \in DOMAIN c /\ c[i] = q[i]
        BY <1>3, <1>4
    <1>6. \A j \in DOMAIN x :
            /\ j + Len(q) \in DOMAIN c /\ c[j + Len(q)] = x[j]
            /\ \A i \in DOMAIN q : j + Len(q) > i
        BY <1>3, <1>4
    <1>7. \A i \in DOMAIN c :
            \/ i \in DOMAIN q /\ c[i] = q[i]
            \/ i - Len(q) \in DOMAIN x /\ c[i] = x[i - Len(q)]
        BY <1>3, <1>4
    <1>8. \A i \in DOMAIN x : x[i] \in Range(x)
        BY Zenon DEF Range
    <1>9. CASE Says(r, a, b, Range(x))
        <2>1. PICK j \in DOMAIN x : Concerns(x[j], b)
            BY <1>9, Zenon DEF Says, Range
        <2> DEFINE k == j + Len(q)
        <2>2. k \in DOMAIN c /\ Concerns(c[k], b) /\ \A i \in DOMAIN q : k > i
            BY <1>6, <2>1, Zenon
        <2> HIDE DEF k
        <2>3. ASSUME NEW i \in DOMAIN c, Concerns(c[i], b),
                     \A h \in DOMAIN c : h > i => ~Concerns(c[h], b)
              PROVE  LineOK(r, a, b, c[i])
            <3>1. i \notin DOMAIN q
                BY <2>2, <2>3, Zenon
            <3>2. c[i] \in Range(x)
                BY <3>1, <1>7, <1>8, Zenon
            <3> QED  BY <1>9, <2>3, <3>2, Zenon DEF Says
        <2>4. ~\A i \in DOMAIN c : ~Concerns(c[i], b)
            BY <2>2, Zenon
        <2> QED  BY <2>3, <2>4, Zenon DEF Settled, c
    <1>10. CASE /\ \A line \in Range(x) : ~Concerns(line, b)
                /\ Settled(r, a, b, q, cache)
        <2>1. \A i \in DOMAIN c : Concerns(c[i], b) => i \in DOMAIN q /\ c[i] = q[i]
            BY <1>7, <1>8, <1>10, Zenon
        <2>2. ASSUME NEW i \in DOMAIN c, Concerns(c[i], b),
                     \A h \in DOMAIN c : h > i => ~Concerns(c[h], b)
              PROVE  LineOK(r, a, b, c[i])
            <3>1. i \in DOMAIN q /\ c[i] = q[i]
                BY <2>1, <2>2, Zenon
            <3>2. \A h \in DOMAIN q : h > i => ~Concerns(q[h], b)
                BY <1>5, <2>2, Zenon
            <3> QED  BY <1>10, <2>2, <3>1, <3>2, Zenon DEF Settled
        <2>3. ASSUME \A i \in DOMAIN c : ~Concerns(c[i], b)
              PROVE  EntryOK(r, a, b, cache)
            <3>1. \A i \in DOMAIN q : ~Concerns(q[i], b)
                BY <1>5, <2>3, Zenon
            <3> QED  BY <1>10, <3>1, Zenon DEF Settled
        <2> QED  BY <2>2, <2>3, Zenon DEF Settled, c
    <1> QED  BY <1>9, <1>10

LEMMA ToldSettles ==
    ASSUME NEW w, NEW r, NEW a, NEW b, NEW q, NEW x, Listed(q), Listed(x), NEW cache,
           Settled(w, a, b, q, cache), Told(w, r, a, b, Range(x))
    PROVE  Settled(r, a, b, q \o x, cache)
PROOF
    <1>1. CASE Says(r, a, b, Range(x))
        BY <1>1, MoreSettles, Zenon
    <1>2. CASE (\A line \in Range(x) : ~Concerns(line, b)) /\ Weaker(w, r, a, b)
        <2>1. Settled(r, a, b, q, cache)
            BY <1>2, WeakerSettles, Zenon
        <2> QED  BY <1>2, <2>1, MoreSettles, Zenon
    <1> QED  BY <1>1, <1>2, Zenon DEF Told

\* Lines that add the nodes in N; m is the trawler that writes them.
LEMMA AddLinesTell ==
    ASSUME NEW m, Shape(m), Fit(m), NEW r, Adds(m, r), NEW a, NEW b,
           NEW N, N \subseteq Nodes(m)
    PROVE  Covers(r, a, b, N, {addNeighborLine(m, a, d) : d \in N})
PROOF
    <1> DEFINE add(d) == addNeighborLine(m, a, d)
               S == {add(d) : d \in N}
               link(d) == IF hasLiveEdge(m, a, d) THEN {getEdge(m, {a, d}).options} ELSE {}
    <1>1. \A d \in N : Reads(add(d), d, m.nodes[d].udpPort, link(d))
        BY AddLineReads, Zenon
    <1>2. \A d \in N : Concerns(add(d), b) <=> d = b
        <2> HIDE DEF add, link
        <2> QED  BY <1>1, Zenon DEF Reads, Concerns, Erases
    <1>3. CASE b \notin N
        <2>1. \A line \in S : ~Concerns(line, b)
            <3> HIDE DEF add
            <3> QED  BY <1>2, <1>3, Zenon
        <2> QED  BY <1>3, <2>1, Zenon DEF Covers
    <1>4. CASE b \in N
        <2>1. Reads(add(b), b, m.nodes[b].udpPort, link(b))
            BY <1>1, <1>4, Zenon
        <2>2. link(b) # {} => Right(r, a, b, m.nodes[b].udpPort, link(b))
            <3>1. ASSUME link(b) # {}
                  PROVE  hasLiveEdge(m, a, b) /\ link(b) = {getEdge(m, {a, b}).options}
                BY <3>1, Zenon
            <3> HIDE DEF link
            <3>2. SameTopology(m, r) /\ b \in Nodes(m)
                BY <1>4, Zenon DEF Adds
            <3>3. /\ hasLiveEdge(r, a, b) <=> hasLiveEdge(m, a, b)
                  /\ getEdge(r, {a, b}) = getEdge(m, {a, b})
                BY <3>2, TopologySame
            <3>4. b \in Nodes(r) /\ r.nodes[b].udpPort = m.nodes[b].udpPort
                BY <3>2, Zenon DEF Adds
            <3> QED  BY <3>1, <3>3, <3>4, Zenon DEF Right
        <2> HIDE DEF add, link
        <2>3. LineOK(r, a, b, add(b))
            BY <2>1, <2>2, Zenon DEF LineOK, Reads, Erases
        <2>4. Says(r, a, b, S)
            BY <1>2, <1>4, <2>3, Zenon DEF Says
        <2> QED  BY <1>4, <2>4, Zenon DEF add, Covers
    <1> QED  BY <1>3, <1>4

\* Lines that remove the nodes in N.
LEMMA RemoveLinesTell ==
    ASSUME NEW r, NEW a, NEW b, NEW N, N \subseteq Addresses, b \in N => ~Needed(r, a, b)
    PROVE  Covers(r, a, b, N, {removeNeighbor(d) : d \in N})
PROOF
    <1> DEFINE del(d) == removeNeighbor(d)
               S == {del(d) : d \in N}
    <1>1. \A d \in N : /\ ~receiveReset(del(d)) /\ receiveRemoveNeighbor(del(d)) = {d}
                       /\ receiveAddNeighbor(del(d)) = {}
        BY ReadRemove, Zenon
    <1> HIDE DEF del
    <1>2. \A d \in N : Concerns(del(d), b) <=> d = b
        BY <1>1, Zenon DEF Concerns, Erases
    <1>3. CASE b \notin N
        BY <1>2, <1>3, Zenon DEF del, Covers
    <1>4. CASE b \in N
        <2>1. LineOK(r, a, b, del(b))
            BY <1>1, <1>4, Zenon DEF LineOK
        <2>2. Says(r, a, b, S)
            BY <1>2, <1>4, <2>1, Zenon DEF Says
        <2> QED  BY <1>4, <2>2, Zenon DEF del, Covers
    <1> QED  BY <1>3, <1>4

LEMMA ResetTells ==
    ASSUME NEW r, NEW a, NEW b, ~Needed(r, a, b)
    PROVE  Says(r, a, b, {reset})
PROOF
    <1>1. Concerns(reset, b) /\ LineOK(r, a, b, reset)
        BY ReadReset, Zenon DEF Concerns, Erases, LineOK
    <1> QED  BY <1>1, Zenon DEF Says

\* Node b is as known, and as far, as before, for all that a can tell.
SameFor(w, r, a, b) ==
    /\ b \in Nodes(r) <=> b \in Nodes(w)
    /\ b \in Nodes(w) =>
        r.nodes[b].udpPort = w.nodes[b].udpPort /\ (r.nodes[b].alive => w.nodes[b].alive)
    /\ hasLiveEdge(r, a, b) <=> hasLiveEdge(w, a, b)
    /\ getEdge(r, {a, b}).options = getEdge(w, {a, b}).options

LEMMA SameIsWeaker ==
    ASSUME NEW w, NEW r, NEW a, NEW b, SameFor(w, r, a, b)
    PROVE  Weaker(w, r, a, b)
PROOF
    BY Zenon DEF SameFor, Weaker, Needed, Right

LEMMA UnknownIsWeaker ==
    ASSUME NEW w, NEW r, NEW a, NEW b,
           ~Needed(r, a, b), ~hasLiveEdge(w, a, b) \/ b \notin Nodes(w)
    PROVE  Weaker(w, r, a, b)
PROOF
    BY Zenon DEF Weaker, Right
-----------------------------------------------------------------------------
(* The topology changes. *)

\* m is w with another topology.
Kept(w, m) ==
    /\ Shape(m) /\ Fit(m)
    /\ m.nodes = w.nodes /\ m.out = w.out /\ m.broken = w.broken

SameEdge(w, m, c, d) ==
    /\ hasLiveEdge(m, c, d) <=> hasLiveEdge(w, c, d)
    /\ getEdge(m, {c, d}).options = getEdge(w, {c, d}).options

\* Only the edge between a and b may differ.
Rewired(w, m, a, b) ==
    Kept(w, m) /\ \A c, d : {c, d} # {a, b} => SameEdge(w, m, c, d)

LEMMA HearsKept ==
    ASSUME NEW w, NEW m, Kept(w, m), NEW r, NEW c, NEW S, Hears(m, r, c, S)
    PROVE  Hears(w, r, c, S)
PROOF
    BY Zenon DEF Kept, Hears

LEMMA SameForKept ==
    ASSUME NEW w, NEW m, Kept(w, m), NEW r, Adds(m, r), NEW c, NEW d, SameEdge(w, m, c, d)
    PROVE  SameFor(w, r, c, d)
PROOF
    <1>1. SameTopology(m, r) /\ Nodes(m) = Nodes(w)
        BY Zenon DEF Adds, Kept, Nodes
    <1>2. /\ hasLiveEdge(r, c, d) <=> hasLiveEdge(m, c, d)
          /\ getEdge(r, {c, d}) = getEdge(m, {c, d})
        BY <1>1, TopologySame
    <1>3. /\ d \in Nodes(r) <=> d \in Nodes(w)
          /\ d \in Nodes(w) =>
                r.nodes[d].udpPort = w.nodes[d].udpPort /\ (r.nodes[d].alive => w.nodes[d].alive)
        BY <1>1, Zenon DEF Adds, Kept
    <1> QED  BY <1>2, <1>3, Zenon DEF SameEdge, SameFor

LEMMA PutEdgeRewires ==
    ASSUME NEW w, Shape(w), Fit(w), NEW a, NEW b,
           NEW e, {"live", "options"} \subseteq DOMAIN e, Sendable(e.options)
    PROVE  /\ Rewired(w, putEdge(w, {a, b}, e), a, b)
           /\ getEdge(putEdge(w, {a, b}, e), {a, b}) = e
PROOF
    <1> DEFINE ends == {a, b}
               edges == [f \in DOMAIN w.edges \cup {ends} |->
                            IF f = ends THEN e ELSE w.edges[f]]
               m == putEdge(w, ends, e)
    <1>1. m = [w EXCEPT !.edges = edges]
        BY Zenon DEF putEdge
    <1>2. /\ DOMAIN edges = DOMAIN w.edges \cup {ends} /\ edges[ends] = e
          /\ \A f \in DOMAIN w.edges : f # ends => edges[f] = w.edges[f]
        BY Zenon
    <1> HIDE DEF m, edges, ends
    <1>3. /\ DOMAIN m = DOMAIN w /\ m.nodes = w.nodes /\ m.out = w.out
          /\ m.broken = w.broken /\ m.edges = edges /\ m.failedNodes = w.failedNodes
          /\ m.allToAll = w.allToAll
        BY <1>1 DEF Shape, Fit
    <1>4. Shape(m)
        BY <1>3, Zenon DEF Shape, Nodes
    <1>5. \A f \in DOMAIN edges :
            {"live", "options"} \subseteq DOMAIN edges[f] /\ Sendable(edges[f].options)
        BY <1>2, Zenon DEF Fit
    <1>6. Fit(m)
        <2>1. \A f \in DOMAIN m.edges :
                {"live", "options"} \subseteq DOMAIN m.edges[f] /\ Sendable(m.edges[f].options)
            BY <1>3, <1>5, Zenon
        <2>2. "allToAll" \in DOMAIN m
            BY <1>3, Zenon DEF Fit
        <2>3. /\ \A c \in Nodes(m) :
                    /\ {"ipAddress", "udpPort"} \subseteq DOMAIN m.nodes[c]
                    /\ RoundTrips(m.nodes[c].udpPort)
              /\ \A c, d \in Nodes(m) : m.nodes[c].proc = m.nodes[d].proc => c = d
              /\ \A p \in Procs : \A line \in Range(m.out[p]) : InRange(line)
            BY <1>3, Zenon DEF Fit, Nodes
        <2> QED  BY <2>1, <2>2, <2>3, Zenon DEF Fit
    <1>7. getEdge(m, ends) = e
        BY <1>2, <1>3, Zenon DEF getEdge
    <1>8. ASSUME NEW c, NEW d, {c, d} # ends  PROVE  SameEdge(w, m, c, d)
        <2> DEFINE f == {c, d}
        <2>1. f # ends
            BY <1>8
        <2> HIDE DEF f
        <2>2. f \in DOMAIN edges <=> f \in DOMAIN w.edges
            BY <1>2, <2>1, Zenon
        <2>3. getEdge(m, f) = getEdge(w, f) /\ (hasEdge(m, f) <=> hasEdge(w, f))
            BY <1>2, <1>3, <2>1, <2>2, Zenon DEF getEdge, hasEdge
        <2>4. \A n : isNodeAlive(m, n) <=> isNodeAlive(w, n)
            BY <1>3, Zenon DEF isNodeAlive
        <2> QED  BY <2>3, <2>4, Zenon DEF SameEdge, hasLiveEdge, f
    <1>9. Rewired(w, m, a, b)
        BY <1>3, <1>4, <1>6, <1>8, Zenon DEF Rewired, Kept, ends
    <1> QED  BY <1>7, <1>9, Zenon DEF m, ends

LEMMA NewEdgeRewires ==
    ASSUME NEW w, Shape(w), Fit(w), NEW a, NEW b, NEW o, Sendable(o)
    PROVE  Rewired(w, newEdge(w, a, b, o), a, b)
PROOF
    <1> DEFINE old == getEdge(w, {a, b})
               e == [old EXCEPT !.options = o]
    <1>1. {"live", "options"} \subseteq DOMAIN old
        BY EdgeSendable, Zenon
    <1> HIDE DEF old
    <1>2. {"live", "options"} \subseteq DOMAIN e /\ e.options = o
        BY <1>1
    <1>3. newEdge(w, a, b, o) = putEdge(w, {a, b}, e)
        BY Zenon DEF newEdge, old
    <1> HIDE DEF e
    <1>4. Sendable(e.options)
        BY <1>2, Zenon
    <1> QED  BY <1>2, <1>3, <1>4, PutEdgeRewires

LEMMA ChangeEdgeRewires ==
    ASSUME NEW w, Shape(w), Fit(w), NEW a, NEW b, NEW live, hasEdge(w, {a, b})
    PROVE  /\ Rewired(w, changeEdge(w, {a, b}, live), a, b)
           /\ ~live => ~hasLiveEdge(changeEdge(w, {a, b}, live), a, b)
PROOF
    <1> DEFINE old == getEdge(w, {a, b})
               e == [old EXCEPT !.live = live]
               m == putEdge(w, {a, b}, e)
    <1>1. {"live", "options"} \subseteq DOMAIN old /\ Sendable(old.options)
        BY EdgeSendable, Zenon
    <1>2. changeEdge(w, {a, b}, live) = m
        BY Zenon DEF changeEdge
    <1> HIDE DEF old, m
    <1>3. {"live", "options"} \subseteq DOMAIN e /\ e.options = old.options /\ e.live = live
        BY <1>1
    <1> HIDE DEF e
    <1>4. Sendable(e.options)
        BY <1>1, <1>3, Zenon
    <1>5. Rewired(w, m, a, b) /\ getEdge(m, {a, b}) = e
        BY <1>3, <1>4, PutEdgeRewires DEF m
    <1>6. ASSUME ~live  PROVE  ~hasLiveEdge(m, a, b)
        <2>1. hasLiveEdge(m, a, b) => getEdge(m, {a, b}).live
            BY Zenon DEF hasLiveEdge
        <2> QED  BY <1>3, <1>5, <1>6, <2>1, Zenon
    <1> QED  BY <1>2, <1>5, <1>6, Zenon

\* m is w after the node a is restarted (live) or fails.
NodeChanged(w, m, a, live) ==
    /\ Kept(w, m)
    /\ \A c, d : c # a /\ d # a => SameEdge(w, m, c, d)
    /\ \A c, d :
        /\ getEdge(m, {c, d}) = getEdge(w, {c, d})
        /\ IF live THEN hasLiveEdge(w, c, d) => hasLiveEdge(m, c, d)
           ELSE a \in {c, d} => ~hasLiveEdge(m, c, d)

LEMMA ChangeNodeKeeps ==
    ASSUME NEW w, Shape(w), Fit(w), NEW a, NEW live
    PROVE  NodeChanged(w, changeNode(w, a, live), a, live)
PROOF
    <1> DEFINE failed == IF live THEN w.failedNodes \ {a} ELSE w.failedNodes \cup {a}
               m == changeNode(w, a, live)
    <1>1. m = [w EXCEPT !.failedNodes = failed]
        BY Zenon DEF changeNode
    <1>2. \A n : n # a => (n \in failed <=> n \in w.failedNodes)
        BY Zenon
    <1>3. IF live THEN \A n : n \notin w.failedNodes => n \notin failed ELSE a \in failed
        BY Zenon
    <1> HIDE DEF m, failed
    <1>4. /\ DOMAIN m = DOMAIN w /\ m.nodes = w.nodes /\ m.out = w.out
          /\ m.broken = w.broken /\ m.edges = w.edges /\ m.failedNodes = failed
          /\ m.allToAll = w.allToAll
        BY <1>1 DEF Shape, Fit
    <1>5. Kept(w, m)
        <2>1. Shape(m)
            BY <1>4, Zenon DEF Shape, Nodes
        <2>2. Fit(m)
            BY <1>4, Zenon DEF Fit, Nodes
        <2> QED  BY <1>4, <2>1, <2>2, Zenon DEF Kept
    <1>6. \A f : getEdge(m, f) = getEdge(w, f) /\ (hasEdge(m, f) <=> hasEdge(w, f))
        BY <1>4, Zenon DEF getEdge, hasEdge
    <1>7. \A n : /\ isNodeAlive(m, n) <=> n \notin failed
                 /\ isNodeAlive(w, n) <=> n \notin w.failedNodes
        BY <1>4, Zenon DEF isNodeAlive
    <1>8. ASSUME NEW c, NEW d, c # a, d # a  PROVE  SameEdge(w, m, c, d)
        <2>1. hasLiveEdge(m, c, d) <=> hasLiveEdge(w, c, d)
            BY <1>2, <1>6, <1>7, <1>8, Zenon DEF hasLiveEdge
        <2> QED  BY <1>6, <2>1, Zenon DEF SameEdge
    <1>9. ASSUME NEW c, NEW d
          PROVE  /\ getEdge(m, {c, d}) = getEdge(w, {c, d})
                 /\ IF live THEN hasLiveEdge(w, c, d) => hasLiveEdge(m, c, d)
                    ELSE a \in {c, d} => ~hasLiveEdge(m, c, d)
        <2>1. CASE live
            <3>1. hasLiveEdge(w, c, d) => hasLiveEdge(m, c, d)
                BY <1>3, <1>6, <1>7, <2>1, Zenon DEF hasLiveEdge
            <3> QED  BY <1>6, <2>1, <3>1, Zenon
        <2>2. CASE ~live
            <3>1. ASSUME a \in {c, d}  PROVE  ~hasLiveEdge(m, c, d)
                <4>1. a = c \/ a = d
                    BY <3>1
                <4> QED  BY <1>3, <1>7, <2>2, <4>1, Zenon DEF hasLiveEdge
            <3> QED  BY <1>6, <2>2, <3>1, Zenon
        <2> QED  BY <2>1, <2>2
    <1> QED  BY <1>5, <1>8, <1>9, Zenon DEF NodeChanged, m
-----------------------------------------------------------------------------
(* Who is told of a change. *)

LEMMA LiveKept ==
    ASSUME NEW w, NEW m, Kept(w, m)
    PROVE  Nodes(m) = Nodes(w) /\ \A c \in Nodes(w) : Live(m, c) <=> Live(w, c)
PROOF
    BY Zenon DEF Kept, Nodes, Live

\* What is enough for a node to be told of b.
LEMMA SaidOrWeaker ==
    ASSUME NEW w, NEW r, NEW a, NEW b, NEW N, NEW S,
           Covers(r, a, b, N, S), b \notin N => Weaker(w, r, a, b)
    PROVE  Told(w, r, a, b, S)
PROOF
    BY Zenon DEF Told, Covers

LEMMA EdgeInforms ==
    ASSUME NEW w, NEW m, NEW a, NEW b, Rewired(w, m, a, b), NEW r,
           \/ r = startEdge(m, a, b)
           \/ r = failEdge(m, a, b) /\ ~hasLiveEdge(m, a, b)
    PROVE  Fit(r) /\ Informs(w, r)
PROOF
    <1>1. Kept(w, m) /\ Shape(m) /\ Fit(m)
        BY Zenon DEF Rewired, Kept
    <1>2. Nodes(m) = Nodes(w) /\ \A c \in Nodes(w) : Live(m, c) <=> Live(w, c)
        BY <1>1, LiveKept, Zenon
    <1>3. ASSUME Adds(m, r), NEW c, NEW d, {c, d} # {a, b}
          PROVE  Weaker(w, r, c, d)
        <2>1. SameEdge(w, m, c, d)
            BY <1>3, Zenon DEF Rewired
        <2>2. SameFor(w, r, c, d)
            BY <1>1, <1>3, <2>1, SameForKept, Zenon
        <2> QED  BY <2>2, SameIsWeaker, Zenon
    <1>4. CASE ~bothRegistered(m, a, b)
        <2>1. r = m
            BY <1>4, Zenon DEF startEdge, failEdge
        <2>2. Adds(m, r) /\ \A c \in Nodes(m) : Hears(m, r, c, {})
            BY <1>1, <2>1, AddsNothing, Zenon
        <2>3. ASSUME NEW c \in Nodes(w), NEW d \in Addresses
              PROVE  Hears(w, r, c, {}) /\ Told(w, r, c, d, {})
            <3>1. Hears(w, r, c, {})
                BY <1>1, <1>2, <2>2, HearsKept, Zenon
            <3>2. Weaker(w, r, c, d)
                <4>1. CASE {c, d} # {a, b}
                    BY <1>3, <2>2, <4>1, Zenon
                <4>2. CASE {c, d} = {a, b}
                    <5>1. ~({c, d} \subseteq Nodes(w))
                        BY <1>2, <1>4, <4>2, Zenon DEF bothRegistered, Nodes
                    <5>2. d \notin Nodes(w)
                        BY <5>1
                    <5>3. ~Needed(r, c, d)
                        BY <1>2, <2>1, <5>2, Zenon DEF Needed
                    <5> QED  BY <5>2, <5>3, UnknownIsWeaker, Zenon
                <4> QED  BY <4>1, <4>2
            <3> QED  BY <3>1, <3>2, Zenon DEF Told
        <2>4. Fit(r)
            BY <1>1, <2>1, Zenon
        <2> QED  BY <2>3, <2>4, Zenon DEF Informs
    <1>5. CASE bothRegistered(m, a, b)
        <2>1. a \in Nodes(m) /\ b \in Nodes(m) /\ Nodes(m) \subseteq Addresses
            BY <1>1, <1>5 DEF bothRegistered, Nodes, Shape, Addresses
        <2>2. ASSUME NEW c, NEW d
              PROVE  /\ Other(c, a, b) \subseteq Nodes(m)
                     /\ Other(c, a, b) \subseteq Addresses
                     /\ d \in Other(c, a, b) <=> {c, d} = {a, b}
            BY <2>1 DEF Other
        <2>3. CASE r = startEdge(m, a, b)
            <3> DEFINE S(c) == {addNeighborLine(m, c, d) : d \in Other(c, a, b)}
            <3>1. /\ Adds(m, r)
                  /\ \A c \in Nodes(m) : Live(m, c) => Hears(m, r, c, S(c))
                BY <1>1, <1>5, <2>3, StartEdgeAdds, Zenon
            <3>2. ASSUME NEW c \in Nodes(w), Live(w, c), NEW d \in Addresses
                  PROVE  Hears(w, r, c, S(c)) /\ Told(w, r, c, d, S(c))
                <4> DEFINE N == Other(c, a, b)
                <4>1. Hears(w, r, c, S(c))
                    <5> HIDE DEF S
                    <5> QED  BY <1>1, <1>2, <3>1, <3>2, HearsKept, Zenon
                <4>2. N \subseteq Nodes(m)
                    BY <2>2, Zenon
                <4>3. Covers(r, c, d, N, S(c))
                    <5> HIDE DEF N
                    <5>1. Covers(r, c, d, N, {addNeighborLine(m, c, e) : e \in N})
                        BY <1>1, <3>1, <4>2, AddLinesTell, Zenon
                    <5> QED  BY <5>1, Zenon DEF N
                <4>4. d \notin N => Weaker(w, r, c, d)
                    BY <1>3, <2>2, <3>1, Zenon
                <4> HIDE DEF S, N
                <4> QED  BY <4>1, <4>3, <4>4, SaidOrWeaker, Zenon
            <3>3. Fit(r)
                BY <3>1, Zenon DEF Adds
            <3> HIDE DEF S
            <3> QED  BY <3>2, <3>3, Zenon DEF Informs
        <2>4. CASE r = failEdge(m, a, b) /\ ~hasLiveEdge(m, a, b)
            <3> DEFINE S(c) == {removeNeighbor(d) : d \in Other(c, a, b)}
            <3>1. /\ Adds(m, r)
                  /\ \A c \in Nodes(m) : Live(m, c) => Hears(m, r, c, S(c))
                BY <1>1, <1>5, <2>4, FailEdgeAdds, Zenon
            <3>2. ASSUME NEW c \in Nodes(w), Live(w, c), NEW d \in Addresses
                  PROVE  Hears(w, r, c, S(c)) /\ Told(w, r, c, d, S(c))
                <4> DEFINE N == Other(c, a, b)
                <4>1. Hears(w, r, c, S(c))
                    <5> HIDE DEF S
                    <5> QED  BY <1>1, <1>2, <3>1, <3>2, HearsKept, Zenon
                <4>2. N \subseteq Addresses
                    BY <2>2, Zenon
                <4>3. d \in N => ~Needed(r, c, d)
                    <5>1. ASSUME {c, d} = {a, b}  PROVE  ~hasLiveEdge(r, c, d)
                        <6>1. (c = a /\ d = b) \/ (c = b /\ d = a)
                            BY <5>1
                        <6>2. ~hasLiveEdge(m, c, d)
                            BY <2>4, <6>1, LiveEdgeBothWays, Zenon
                        <6>3. SameTopology(m, r)
                            BY <3>1, Zenon DEF Adds
                        <6>4. hasLiveEdge(r, c, d) <=> hasLiveEdge(m, c, d)
                            BY <6>3, TopologySame
                        <6> QED  BY <6>2, <6>4
                    <5> QED  BY <5>1, <2>2, Zenon DEF Needed
                <4>4. Covers(r, c, d, N, S(c))
                    <5> HIDE DEF N
                    <5>1. Covers(r, c, d, N, {removeNeighbor(e) : e \in N})
                        BY <4>2, <4>3, RemoveLinesTell, Zenon
                    <5> QED  BY <5>1, Zenon DEF N
                <4>5. d \notin N => Weaker(w, r, c, d)
                    BY <1>3, <2>2, <3>1, Zenon
                <4> HIDE DEF S, N
                <4> QED  BY <4>1, <4>4, <4>5, SaidOrWeaker, Zenon
            <3>3. Fit(r)
                BY <3>1, Zenon DEF Adds
            <3> HIDE DEF S
            <3> QED  BY <3>2, <3>3, Zenon DEF Informs
        <2> QED  BY <2>3, <2>4
    <1> QED  BY <1>4, <1>5

LEMMA NothingInforms ==
    ASSUME NEW w, Shape(w), Fit(w)
    PROVE  Fit(w) /\ Informs(w, w)
PROOF
    <1>1. \A c \in Nodes(w) : Hears(w, w, c, {})
        BY AddsNothing, Zenon
    <1>2. \A c, d : Weaker(w, w, c, d)
        BY Zenon DEF Weaker
    <1>3. \A c \in Nodes(w), d \in Addresses : Hears(w, w, c, {}) /\ Told(w, w, c, d, {})
        BY <1>1, <1>2, Zenon DEF Told
    <1> QED  BY <1>3, Zenon DEF Informs

\* When a starts, c hears of the nodes in Hereof(m, c, a), and lacks none that is new.
StartHeard(m, r, c, a) ==
    \E S :
        /\ Hears(m, r, c, S)
        /\ \A d :
            /\ Covers(r, c, d, Hereof(m, c, a), S)
            /\ (c = a \/ d = a) /\ d \notin Hereof(m, c, a) => ~Needed(r, c, d)

LEMMA UpdateCovers ==
    ASSUME NEW m, Shape(m), Fit(m), NEW a \in Nodes(m)
    PROVE  /\ Adds(m, updateNeighbors(m, a))
           /\ \A c \in Nodes(m) : Live(m, c) => StartHeard(m, updateNeighbors(m, a), c, a)
PROOF
    <1> DEFINE r == updateNeighbors(m, a)
               N(c) == Hereof(m, c, a)
               S(c) == {addNeighborLine(m, c, d) : d \in Hereof(m, c, a)}
    <1>1. /\ Adds(m, r)
          /\ \A c \in Nodes(m) : Live(m, c) => Hears(m, r, c, S(c))
        BY UpdateNeighborsAdds, Zenon
    <1> HIDE DEF r
    <1>2. SameTopology(m, r)
        BY <1>1, Zenon DEF Adds
    <1>3. ASSUME NEW c, NEW d
          PROVE  hasLiveEdge(r, c, d) <=> hasLiveEdge(m, c, d)
        BY <1>2, TopologySame
    <1>4. ASSUME NEW c \in Nodes(m), Live(m, c)  PROVE  StartHeard(m, r, c, a)
        <2>1. N(c) \subseteq Nodes(m)
            BY Zenon DEF Hereof, liveNeighbors, Nodes
        <2>2. \A d : Covers(r, c, d, N(c), S(c))
            <3> TAKE d
            <3> DEFINE M == N(c)
            <3>1. M \subseteq Nodes(m)
                BY <2>1, Zenon
            <3> HIDE DEF M
            <3>2. Covers(r, c, d, M, {addNeighborLine(m, c, e) : e \in M})
                BY <1>1, <3>1, AddLinesTell, Zenon
            <3> QED  BY <3>2, Zenon DEF M
        <2>3. ASSUME NEW d, c = a, d \notin N(c)  PROVE  ~Needed(r, c, d)
            <3>1. d \notin liveNeighbors(m, a)
                BY <2>3, Zenon DEF Hereof
            <3>2. ASSUME Needed(r, a, d)  PROVE  d \in liveNeighbors(m, a)
                <4>1. /\ d \in Nodes(r) /\ d # a /\ hasLiveEdge(r, a, d)
                      /\ r.nodes[d].alive
                    BY <3>2, Zenon DEF Needed
                <4>2. d \in Nodes(m) /\ m.nodes[d].alive
                    BY <1>1, <4>1, Zenon DEF Adds
                <4>3. hasLiveEdge(m, d, a)
                    BY <1>3, <4>1, LiveEdgeBothWays, Zenon
                <4> QED  BY <4>1, <4>2, <4>3, Zenon DEF liveNeighbors, Nodes
            <3> QED  BY <2>3, <3>1, <3>2, Zenon
        <2>4. ASSUME NEW d, d = a, c # a, d \notin N(c)  PROVE  ~Needed(r, c, d)
            <3>1. c \notin liveNeighbors(m, a)
                BY <2>4, Zenon DEF Hereof
            <3>2. ~hasLiveEdge(m, c, a)
                BY <1>4, <2>4, <3>1, Zenon DEF liveNeighbors, Nodes, Live
            <3> QED  BY <1>3, <2>4, <3>2, Zenon DEF Needed
        <2>5. Hears(m, r, c, S(c))
            BY <1>1, <1>4, Zenon
        <2> HIDE DEF S
        <2> QED  BY <2>2, <2>3, <2>4, <2>5, Zenon DEF StartHeard
    <1> QED  BY <1>1, <1>4, Zenon DEF r

LEMMA RestartNodeInforms ==
    ASSUME NEW w, Shape(w), Fit(w), NEW a
    PROVE  Fit(restartNodeHook(w, a)) /\ Informs(w, restartNodeHook(w, a))
PROOF
    <1> DEFINE m == changeNode(w, a, TRUE)
               r == updateNeighbors(m, a)
    <1>1. restartNodeHook(w, a) = r
        BY Zenon DEF restartNodeHook
    <1>2. /\ Kept(w, m)
          /\ \A c, d : c # a /\ d # a => SameEdge(w, m, c, d)
          /\ \A c, d : /\ getEdge(m, {c, d}) = getEdge(w, {c, d})
                       /\ hasLiveEdge(w, c, d) => hasLiveEdge(m, c, d)
        <2>1. NodeChanged(w, m, a, TRUE)
            BY ChangeNodeKeeps, Zenon
        <2> HIDE DEF m
        <2> QED  BY <2>1, Zenon DEF NodeChanged
    <1> HIDE DEF m
    <1>3. Shape(m) /\ Fit(m)
        BY <1>2, Zenon DEF Kept
    <1>4. Nodes(m) = Nodes(w) /\ \A c \in Nodes(w) : Live(m, c) <=> Live(w, c)
        BY <1>2, LiveKept, Zenon
    <1>5. ASSUME Adds(m, r), NEW c, NEW d, c # a, d # a
          PROVE  Weaker(w, r, c, d)
        <2> HIDE DEF r
        <2>1. SameEdge(w, m, c, d)
            BY <1>2, <1>5, Zenon
        <2>2. SameFor(w, r, c, d)
            BY <1>2, <1>5, <2>1, SameForKept, Zenon
        <2> QED  BY <2>2, SameIsWeaker, Zenon
    <1>6. CASE a \notin Nodes(w)
        <2>1. r = m
            BY <1>4, <1>6, Zenon DEF updateNeighbors, Nodes
        <2> HIDE DEF r
        <2>2. Adds(m, r) /\ \A c \in Nodes(m) : Hears(m, r, c, {})
            BY <1>3, <2>1, AddsNothing, Zenon
        <2>3. ASSUME NEW c \in Nodes(w), NEW d \in Addresses
              PROVE  Hears(w, r, c, {}) /\ Told(w, r, c, d, {})
            <3>1. Hears(w, r, c, {})
                BY <1>2, <1>4, <2>2, HearsKept, Zenon
            <3>2. Weaker(w, r, c, d)
                <4>1. CASE d # a
                    BY <1>5, <1>6, <2>2, <4>1, Zenon DEF r
                <4>2. CASE d = a
                    <5>1. ~Needed(r, c, d)
                        BY <1>4, <1>6, <2>1, <4>2, Zenon DEF Needed
                    <5> QED  BY <1>6, <4>2, <5>1, UnknownIsWeaker, Zenon
                <4> QED  BY <4>1, <4>2
            <3> QED  BY <3>1, <3>2, Zenon DEF Told
        <2> QED  BY <1>1, <1>3, <2>1, <2>3, Zenon DEF Informs
    <1>7. CASE a \in Nodes(w)
        <2>1. /\ Adds(m, r)
              /\ \A c \in Nodes(m) : Live(m, c) => StartHeard(m, r, c, a)
            BY <1>3, <1>4, <1>7, UpdateCovers, Zenon
        <2>2. ASSUME NEW c, NEW d, ~Needed(r, c, d)  PROVE  Weaker(w, r, c, d)
            <3> HIDE DEF r
            <3>1. SameTopology(m, r)
                BY <2>1, Zenon DEF Adds
            <3>2. /\ hasLiveEdge(r, c, d) <=> hasLiveEdge(m, c, d)
                  /\ getEdge(r, {c, d}) = getEdge(m, {c, d})
                BY <3>1, TopologySame
            <3>3. getEdge(m, {c, d}) = getEdge(w, {c, d})
                BY <1>2
            <3>4. hasLiveEdge(w, c, d) => hasLiveEdge(m, c, d)
                BY <1>2, Zenon
            <3>5. d \in Nodes(w) => d \in Nodes(r) /\ r.nodes[d].udpPort = w.nodes[d].udpPort
                BY <1>2, <1>4, <2>1, Zenon DEF Adds, Kept
            <3>6. \A udpPort, link :
                    Right(w, c, d, udpPort, link) => Right(r, c, d, udpPort, link)
                BY <3>2, <3>3, <3>4, <3>5, Zenon DEF Right
            <3> QED  BY <2>2, <3>6, Zenon DEF Weaker
        <2> HIDE DEF r
        <2>3. ASSUME NEW c \in Nodes(w), Live(w, c), NEW d \in Addresses
              PROVE  \E S : Hears(w, r, c, S) /\ Told(w, r, c, d, S)
            <3> DEFINE N == Hereof(m, c, a)
            <3>1. StartHeard(m, r, c, a)
                BY <1>4, <2>1, <2>3, Zenon
            <3>2. PICK S :
                    /\ Hears(m, r, c, S) /\ Covers(r, c, d, N, S)
                    /\ (c = a \/ d = a) /\ d \notin N => ~Needed(r, c, d)
                BY <3>1, Zenon DEF StartHeard
            <3> HIDE DEF N
            <3>3. d \notin N => Weaker(w, r, c, d)
                BY <1>5, <2>1, <2>2, <3>2, Zenon DEF r
            <3>4. Told(w, r, c, d, S)
                BY <3>2, <3>3, SaidOrWeaker, Zenon
            <3>5. Hears(w, r, c, S)
                BY <1>2, <3>2, HearsKept, Zenon
            <3> QED  BY <3>4, <3>5, Zenon
        <2>4. Fit(r)
            BY <2>1, Zenon DEF Adds
        <2> QED  BY <1>1, <2>3, <2>4, Zenon DEF Informs
    <1> QED  BY <1>6, <1>7

LEMMA FailNodeInforms ==
    ASSUME NEW w, Shape(w), Fit(w), NEW a
    PROVE  Fit(failNodeHook(w, a)) /\ Informs(w, failNodeHook(w, a))
PROOF
    <1> DEFINE m == failNode(w, a)
               r == changeNode(m, a, FALSE)
               first(c) == IF c = a THEN {reset} ELSE {}
               then(c) == IF c \in liveNeighbors(w, a) THEN {removeNeighbor(a)} ELSE {}
    <1>1. failNodeHook(w, a) = r
        BY Zenon DEF failNodeHook
    <1>2. /\ Adds(w, m)
          /\ a \in Nodes(w) =>
                \A c \in Nodes(w) : Live(w, c) => Hears(w, m, c, first(c) \cup then(c))
          /\ a \notin Nodes(w) => \A c \in Nodes(w) : Hears(w, m, c, {})
        <2>1. CASE a \in Nodes(w)
            BY <2>1, FailNodeAdds, Zenon
        <2>2. CASE a \notin Nodes(w)
            <3>1. m = w
                BY <2>2, Zenon DEF failNode, Nodes
            <3> QED  BY <2>2, <3>1, AddsNothing, Zenon
        <2> QED  BY <2>1, <2>2
    <1> HIDE DEF m
    <1>3. Shape(m) /\ Fit(m)
        BY <1>2, Zenon DEF Adds
    <1>4. NodeChanged(m, r, a, FALSE)
        BY <1>3, ChangeNodeKeeps, Zenon
    <1> HIDE DEF r, first, then
    <1>5. /\ Kept(m, r)
          /\ \A c, d : c # a /\ d # a => SameEdge(m, r, c, d)
          /\ \A c, d : a \in {c, d} => ~hasLiveEdge(r, c, d)
        BY <1>4, Zenon DEF NodeChanged
    <1>6. \A c, d : c = a \/ d = a => ~Needed(r, c, d)
        <2> SUFFICES ASSUME NEW c, NEW d, c = a \/ d = a  PROVE  ~Needed(r, c, d)
            BY Zenon
        <2>1. a \in {c, d}
            OBVIOUS
        <2>2. ~hasLiveEdge(r, c, d)
            BY <1>5, <2>1
        <2> QED  BY <2>2, Zenon DEF Needed
    <1>7. \A c, S : Hears(w, m, c, S) => Hears(w, r, c, S)
        BY <1>5, Zenon DEF Hears, Kept
    <1>8. ASSUME NEW c, NEW d, c # a, d # a  PROVE  Weaker(w, r, c, d)
        <2>1. SameTopology(w, m)
            BY <1>2, Zenon DEF Adds
        <2>2. /\ hasLiveEdge(m, c, d) <=> hasLiveEdge(w, c, d)
              /\ getEdge(m, {c, d}) = getEdge(w, {c, d})
            BY <2>1, TopologySame
        <2>3. SameEdge(m, r, c, d)
            BY <1>5, <1>8, Zenon
        <2>4. /\ hasLiveEdge(r, c, d) <=> hasLiveEdge(w, c, d)
              /\ getEdge(r, {c, d}).options = getEdge(w, {c, d}).options
            BY <2>2, <2>3, Zenon DEF SameEdge
        <2>5. /\ d \in Nodes(r) <=> d \in Nodes(w)
              /\ d \in Nodes(w) =>
                    /\ r.nodes[d].udpPort = w.nodes[d].udpPort
                    /\ r.nodes[d].alive => w.nodes[d].alive
            BY <1>2, <1>5, Zenon DEF Adds, Kept, Nodes
        <2>6. SameFor(w, r, c, d)
            BY <2>4, <2>5, Zenon DEF SameFor
        <2> QED  BY <2>6, SameIsWeaker, Zenon
    <1>9. ASSUME NEW c, NEW d, c = a \/ d = a, ~hasLiveEdge(w, c, d) \/ d \notin Nodes(w)
          PROVE  Weaker(w, r, c, d)
        BY <1>6, <1>9, UnknownIsWeaker, Zenon
    <1>10. Fit(r)
        BY <1>5, Zenon DEF Kept
    <1>11. CASE a \notin Nodes(w)
        <2>1. ASSUME NEW c \in Nodes(w), NEW d \in Addresses
              PROVE  Hears(w, r, c, {}) /\ Told(w, r, c, d, {})
            <3>1. Hears(w, r, c, {})
                BY <1>2, <1>7, <1>11, Zenon
            <3>2. Weaker(w, r, c, d)
                BY <1>8, <1>9, <1>11, Zenon
            <3> QED  BY <3>1, <3>2, Zenon DEF Told
        <2> QED  BY <1>1, <1>10, <2>1, Zenon DEF Informs
    <1>12. CASE a \in Nodes(w)
        <2>1. a \in Addresses
            BY <1>12, Zenon DEF Shape, Addresses
        <2>2. ASSUME NEW c \in Nodes(w), Live(w, c), NEW d \in Addresses
              PROVE  \E S : Hears(w, r, c, S) /\ Told(w, r, c, d, S)
            <3>1. Hears(w, r, c, first(c) \cup then(c))
                BY <1>2, <1>7, <1>12, <2>2, Zenon
            <3>2. CASE c = a
                <4>1. first(c) \cup then(c) = {reset}
                    <5>1. first(c) = {reset} /\ then(c) = {}
                        BY <3>2, Zenon DEF first, then, liveNeighbors
                    <5> QED  BY <5>1, Zenon
                <4>2. Says(r, c, d, {reset})
                    BY <1>6, <3>2, ResetTells, Zenon
                <4> QED  BY <3>1, <4>1, <4>2, Zenon DEF Told
            <3>3. CASE c # a
                <4> DEFINE N == IF c \in liveNeighbors(w, a) THEN {a} ELSE {}
                           S == {removeNeighbor(e) : e \in N}
                <4>1. first(c) \cup then(c) = S
                    <5>1. first(c) = {}
                        BY <3>3, Zenon DEF first
                    <5>2. then(c) = S
                        <6>1. CASE c \in liveNeighbors(w, a)
                            BY <6>1 DEF then
                        <6>2. CASE c \notin liveNeighbors(w, a)
                            BY <6>2 DEF then
                        <6> QED  BY <6>1, <6>2
                    <5> QED  BY <5>1, <5>2, Zenon
                <4>2. N \subseteq {a}
                    BY Zenon
                <4>3. d \notin N => Weaker(w, r, c, d)
                    <5>1. CASE d # a
                        BY <1>8, <3>3, <5>1, Zenon
                    <5>2. CASE d = a
                        <6>1. ASSUME d \notin N  PROVE  ~hasLiveEdge(w, c, a)
                            <7>1. c \notin liveNeighbors(w, a)
                                BY <5>2, <6>1, Zenon
                            <7> QED  BY <2>2, <3>3, <7>1, Zenon DEF liveNeighbors, Nodes, Live
                        <6> QED  BY <1>9, <5>2, <6>1, Zenon
                    <5> QED  BY <5>1, <5>2
                <4> HIDE DEF N
                <4>4. N \subseteq Addresses
                    BY <2>1, <4>2, Zenon
                <4>5. d \in N => ~Needed(r, c, d)
                    BY <1>6, <4>2, Zenon
                <4>6. Covers(r, c, d, N, S)
                    BY <4>4, <4>5, RemoveLinesTell, Zenon
                <4> HIDE DEF S
                <4>7. Told(w, r, c, d, S)
                    BY <4>3, <4>6, SaidOrWeaker, Zenon
                <4> QED  BY <3>1, <4>1, <4>7, Zenon
            <3> QED  BY <3>2, <3>3
        <2> QED  BY <1>1, <1>10, <2>2, Zenon DEF Informs
    <1> QED  BY <1>11, <1>12

\* r is a trawler in which who was registered has its process still.
SameProcs(w, r) ==
    Shape(r) /\ \A c \in Nodes(w) \cap Nodes(r) : r.nodes[c].proc = w.nodes[c].proc

LEMMA RemoveQuitInforms ==
    ASSUME NEW w, Shape(w), Fit(w), NEW a \in Nodes(w)
    PROVE  /\ Fit(removeQuit(w, a)) /\ Informs(w, removeQuit(w, a))
           /\ SameProcs(w, removeQuit(w, a)) /\ Nodes(removeQuit(w, a)) \subseteq Nodes(w)
PROOF
    <1> DEFINE rest == [c \in DOMAIN w.nodes \ {a} |-> w.nodes[c]]
               m == [w EXCEPT !.nodes = rest]
               r == removeAsNeighbor(m, a)
    <1>1. CASE w.nodes[a].alive
        <2>1. removeQuit(w, a) = w
            BY <1>1, Zenon DEF removeQuit
        <2>2. SameProcs(w, w)
            BY Zenon DEF SameProcs
        <2> QED  BY <2>1, <2>2, NothingInforms, Zenon
    <1>2. CASE ~w.nodes[a].alive
        <2>1. removeQuit(w, a) = r
            BY <1>2, Zenon DEF removeQuit
        <2>2. /\ DOMAIN rest = DOMAIN w.nodes \ {a}
              /\ \A c \in DOMAIN w.nodes \ {a} : rest[c] = w.nodes[c]
            BY Zenon
        <2> HIDE DEF rest
        <2>3. /\ DOMAIN m = DOMAIN w /\ m.nodes = rest /\ m.out = w.out
              /\ m.broken = w.broken /\ m.edges = w.edges /\ m.failedNodes = w.failedNodes
              /\ m.allToAll = w.allToAll
            BY DEF Shape, Fit
        <2> HIDE DEF m
        <2>4. Nodes(m) = Nodes(w) \ {a} /\ \A c \in Nodes(m) : m.nodes[c] = w.nodes[c]
            BY <2>2, <2>3, Zenon DEF Nodes
        <2>5. Shape(m)
            <3>1. \A c \in Nodes(m) :
                    {"proc", "alive"} \subseteq DOMAIN m.nodes[c] /\ m.nodes[c].proc \in Procs
                BY <2>4, Zenon DEF Shape
            <3>2. Nodes(m) \subseteq 0 .. BROADCAST_ADDRESS - 1
                BY <2>4, Zenon DEF Shape
            <3> QED  BY <2>3, <3>1, <3>2, Zenon DEF Shape
        <2>6. Fit(m)
            <3>1. \A c \in Nodes(m) :
                    /\ {"ipAddress", "udpPort"} \subseteq DOMAIN m.nodes[c]
                    /\ RoundTrips(m.nodes[c].udpPort)
                BY <2>4, Zenon DEF Fit
            <3>2. \A c, d \in Nodes(m) : m.nodes[c].proc = m.nodes[d].proc => c = d
                BY <2>4, Zenon DEF Fit
            <3>3. "allToAll" \in DOMAIN m
                BY <2>3, Zenon DEF Fit
            <3>4. \A ends \in DOMAIN m.edges :
                    /\ {"live", "options"} \subseteq DOMAIN m.edges[ends]
                    /\ Sendable(m.edges[ends].options)
                BY <2>3, Zenon DEF Fit
            <3>5. \A p \in Procs : \A line \in Range(m.out[p]) : InRange(line)
                BY <2>3, Zenon DEF Fit
            <3> QED  BY <3>1, <3>2, <3>3, <3>4, <3>5, Zenon DEF Fit
        <2>7. a \in Addresses
            BY Zenon DEF Shape, Addresses
        <2> DEFINE S(c) == IF c \in liveNeighbors(m, a) THEN {removeNeighbor(a)} ELSE {}
        <2>8. /\ Adds(m, r)
              /\ \A c \in Nodes(m) : Live(m, c) => Hears(m, r, c, S(c))
            BY <2>5, <2>6, <2>7, RemoveAsNeighborAdds, Zenon
        <2> HIDE DEF r
        <2>9. Nodes(r) = Nodes(m) /\ SameTopology(w, r)
            BY <2>3, <2>8, Zenon DEF Adds, SameTopology
        <2>10. ASSUME NEW c, NEW d
               PROVE  /\ hasLiveEdge(r, c, d) <=> hasLiveEdge(w, c, d)
                      /\ getEdge(r, {c, d}).options = getEdge(w, {c, d}).options
            BY <2>9, TopologySame
        <2>11. ASSUME NEW c, NEW d, d # a  PROVE  Weaker(w, r, c, d)
            <3>1. /\ d \in Nodes(r) <=> d \in Nodes(w)
                  /\ d \in Nodes(w) =>
                        /\ r.nodes[d].udpPort = w.nodes[d].udpPort
                        /\ r.nodes[d].alive => w.nodes[d].alive
                BY <2>4, <2>8, <2>9, <2>11, Zenon DEF Adds
            <3>2. SameFor(w, r, c, d)
                BY <2>10, <3>1, Zenon DEF SameFor
            <3> QED  BY <3>2, SameIsWeaker, Zenon
        <2>12. \A c : ~Needed(r, c, a)
            BY <2>4, <2>9, Zenon DEF Needed
        <2>13. ASSUME NEW c \in Nodes(r), Live(w, c), NEW d \in Addresses
               PROVE  Hears(w, r, c, S(c)) /\ Told(w, r, c, d, S(c))
            <3>1. c \in Nodes(m) /\ c \in Nodes(w) /\ c # a /\ m.nodes[c] = w.nodes[c]
                BY <2>4, <2>9, Zenon
            <3>2. Live(m, c)
                BY <2>3, <2>13, <3>1, Zenon DEF Live
            <3>3. Hears(w, r, c, S(c))
                <4>1. Hears(m, r, c, S(c))
                    BY <2>8, <3>1, <3>2, Zenon
                <4> HIDE DEF S
                <4> QED  BY <2>3, <3>1, <4>1, Zenon DEF Hears
            <3> DEFINE N == IF c \in liveNeighbors(m, a) THEN {a} ELSE {}
                       T == {removeNeighbor(e) : e \in N}
            <3>4. S(c) = T
                <4>1. CASE c \in liveNeighbors(m, a)
                    BY <4>1
                <4>2. CASE c \notin liveNeighbors(m, a)
                    BY <4>2
                <4> QED  BY <4>1, <4>2
            <3> HIDE DEF S
            <3>5. N \subseteq {a}
                BY Zenon
            <3>6. d \notin N => Weaker(w, r, c, d)
                <4>1. CASE d # a
                    BY <2>11, <4>1, Zenon
                <4>2. CASE d = a
                    <5>1. ASSUME d \notin N  PROVE  ~hasLiveEdge(w, c, d)
                        <6>1. c \notin liveNeighbors(m, a)
                            BY <4>2, <5>1, Zenon
                        <6>2. ~hasLiveEdge(m, c, a)
                            BY <3>1, <3>2, <6>1, Zenon DEF liveNeighbors, Nodes, Live
                        <6>3. SameTopology(m, r)
                            BY <2>8, Zenon DEF Adds
                        <6>4. hasLiveEdge(r, c, a) <=> hasLiveEdge(m, c, a)
                            BY <6>3, TopologySame
                        <6> QED  BY <2>10, <4>2, <6>2, <6>4, Zenon
                    <5> QED  BY <2>12, <4>2, <5>1, UnknownIsWeaker, Zenon
                <4> QED  BY <4>1, <4>2
            <3> HIDE DEF N
            <3>7. N \subseteq Addresses /\ (d \in N => ~Needed(r, c, d))
                BY <2>7, <2>12, <3>5, Zenon
            <3>8. Covers(r, c, d, N, T)
                BY <3>7, RemoveLinesTell, Zenon
            <3> HIDE DEF T
            <3>9. Told(w, r, c, d, T)
                BY <3>6, <3>8, SaidOrWeaker, Zenon
            <3> QED  BY <3>3, <3>4, <3>9, Zenon
        <2>14. Fit(r)
            BY <2>8, Zenon DEF Adds
        <2>15. SameProcs(w, r) /\ Nodes(r) \subseteq Nodes(w)
            BY <2>4, <2>8, <2>9, Zenon DEF Adds, SameProcs
        <2> HIDE DEF S
        <2>16. Informs(w, r)
            BY <2>13, Zenon DEF Informs
        <2> QED  BY <2>1, <2>14, <2>15, <2>16, Zenon
    <1> QED  BY <1>1, <1>2

\* The options of an edge command can be sent as they were read.
LEMMA ParsedIsSendable ==
    ASSUME NEW cmd, parseLine(cmd, 0).op = "edge"
    PROVE  Sendable(parseLine(cmd, 0).options)
PROOF
    <1> DEFINE line == parseLine(cmd, 0)
               o == edgeOptions(cmd)
    <1>1. nothing.op # "edge" /\ [op |-> "exit"].op # "edge"
        BY DEF nothing
    <1>2. parseFailOrRestart(cmd).op # "edge"
        <2> DEFINE a == Numbers[cmd[2]]
                   b == Numbers[cmd[3]]
                   live == cmd[1] = "restart"
        <2>1. parseFailOrRestart(cmd) \in
                {nothing, [op |-> "changeEdge", a |-> a, b |-> b, live |-> live],
                 [op |-> "changeNode", a |-> a, live |-> live]}
            BY Zenon DEF parseFailOrRestart
        <2>2. /\ [op |-> "changeEdge", a |-> a, b |-> b, live |-> live].op # "edge"
              /\ [op |-> "changeNode", a |-> a, live |-> live].op # "edge"
            OBVIOUS
        <2> QED  BY <1>1, <2>1, <2>2, Zenon
    <1>3. parseTime(cmd, 0).op # "edge"
        <2> DEFINE x == 0 + Numbers[cmd[3]] * MicrosPerMs
                   y == Numbers[cmd[2]] * MicrosPerMs
        <2>1. parseTime(cmd, 0) \in {nothing, [op |-> "defer", till |-> x],
                                     [op |-> "defer", till |-> y]}
            BY Zenon DEF parseTime
        <2> HIDE DEF x, y
        <2>2. [op |-> "defer", till |-> x].op # "edge" /\ [op |-> "defer", till |-> y].op # "edge"
            OBVIOUS
        <2> QED  BY <1>1, <2>1, <2>2, Zenon
    <1>4. parseNodeCmd(cmd).op # "edge"
        <2> DEFINE n == Numbers[cmd[1]]
                   args == Tail(cmd)
        <2>1. parseNodeCmd(cmd) \in {nothing, [op |-> "node", node |-> n, args |-> args]}
            BY Zenon DEF parseNodeCmd
        <2> HIDE DEF n, args
        <2>2. [op |-> "node", node |-> n, args |-> args].op # "edge"
            OBVIOUS
        <2> QED  BY <1>1, <2>1, <2>2, Zenon
    <1>5. line \in {nothing, parseEdge(cmd), parseFailOrRestart(cmd), [op |-> "exit"],
                    parseTime(cmd, 0), parseNodeCmd(cmd)}
        BY Zenon DEF parseLine
    <1>6. line = parseEdge(cmd)
        <2> HIDE DEF line
        <2>1. line.op = "edge"
            BY DEF line
        <2> QED  BY <1>1, <1>2, <1>3, <1>4, <1>5, <2>1, Zenon
    <1>7. edgeWellFormed(cmd)
        BY <1>1, <1>6, Zenon DEF parseEdge
    <1>8. line.options = o
        <2> DEFINE a == Numbers[cmd[2]]
                   b == Numbers[cmd[3]]
        <2>1. line = [op |-> "edge", a |-> a, b |-> b, options |-> o]
            BY <1>6, <1>7, Zenon DEF parseEdge
        <2> HIDE DEF line, o, a, b
        <2> QED  BY <2>1
    <1>9. Sendable(defaultOptions)
        BY DefaultSendable
    <1>10. \A word \in DOMAIN Numbers : RoundTrips(Numbers[word])
        BY EmulationConstants, Zenon DEF RoundTrips
    <1> DEFINE rate == IF Len(cmd) > 4 /\ cmd[4] = "lossRate" THEN cmd[5] ELSE "0.0"
               delay == option(cmd, 6, "delay", defaultOptions.delay)
               bw == option(cmd, 8, "bw", defaultOptions.bw)
               bt == option(cmd, 10, "bt", defaultOptions.bt)
    <1>11. rate \in LossRates
        BY <1>7, ParserConstants DEF edgeWellFormed
    <1>12. ASSUME NEW i \in {6, 8, 10}, NEW name, NEW default, RoundTrips(default),
                  Len(cmd) > i /\ cmd[i] = name => isNumber(cmd, i + 1)
           PROVE  RoundTrips(option(cmd, i, name, default))
        BY <1>10, <1>12, Zenon DEF option, isNumber
    <1>13. RoundTrips(delay) /\ RoundTrips(bw) /\ RoundTrips(bt)
        <2>1. /\ Len(cmd) > 6 /\ cmd[6] = "delay" => isNumber(cmd, 6 + 1)
              /\ Len(cmd) > 8 /\ cmd[8] = "bw" => isNumber(cmd, 8 + 1)
              /\ Len(cmd) > 10 /\ cmd[10] = "bt" => isNumber(cmd, 10 + 1)
            BY <1>7 DEF edgeWellFormed
        <2>2. /\ RoundTrips(defaultOptions.delay) /\ RoundTrips(defaultOptions.bw)
              /\ RoundTrips(defaultOptions.bt)
            BY <1>9, Zenon DEF Sendable
        <2>3. RoundTrips(delay)
            BY <1>12, <2>1, <2>2, Zenon
        <2>4. RoundTrips(bw)
            BY <1>12, <2>1, <2>2, Zenon
        <2>5. RoundTrips(bt)
            BY <1>12, <2>1, <2>2, Zenon
        <2> QED  BY <2>3, <2>4, <2>5
    <1>14. o = [lossRate |-> rate, delay |-> delay, bw |-> bw, bt |-> bt]
        BY Zenon DEF edgeOptions
    <1> HIDE DEF rate, delay, bw, bt, line, o
    <1>15. /\ o = [lossRate |-> o.lossRate, delay |-> o.delay, bw |-> o.bw, bt |-> o.bt]
           /\ o.lossRate = rate /\ o.delay = delay /\ o.bw = bw /\ o.bt = bt
        BY <1>14
    <1>16. Sendable(o)
        BY <1>11, <1>13, <1>15, Zenon DEF Sendable
    <1> QED  BY <1>8, <1>16, Zenon DEF line

\* A line of the topology file.
LEMMA ExecuteInforms ==
    ASSUME NEW w, Shape(w), Fit(w), NEW cmd
    PROVE  /\ Fit(execute(w, parseLine(cmd, 0)))
           /\ Informs(w, execute(w, parseLine(cmd, 0)))
PROOF
    <1>1. ASSUME NEW a, NEW b, NEW o, Sendable(o)
          PROVE  /\ Fit(startEdge(newEdge(w, a, b, o), a, b))
                 /\ Informs(w, startEdge(newEdge(w, a, b, o), a, b))
        <2> DEFINE m == newEdge(w, a, b, o)
        <2>1. Rewired(w, m, a, b)
            BY <1>1, NewEdgeRewires, Zenon
        <2> HIDE DEF m
        <2>2. Fit(startEdge(m, a, b)) /\ Informs(w, startEdge(m, a, b))
            BY <2>1, EdgeInforms, Zenon
        <2> QED  BY <2>2 DEF m
    <1>2. ASSUME NEW a, NEW b, NEW live
          PROVE  Fit(edgeHook(w, a, b, live)) /\ Informs(w, edgeHook(w, a, b, live))
        <2> DEFINE m == changeEdge(w, {a, b}, live)
        <2>1. CASE ~hasEdge(w, {a, b})
            <3>1. edgeHook(w, a, b, live) = w
                BY <2>1, Zenon DEF edgeHook
            <3> QED  BY <3>1, NothingInforms, Zenon
        <2>2. CASE hasEdge(w, {a, b})
            <3>1. /\ Rewired(w, m, a, b)
                  /\ ~live => ~hasLiveEdge(m, a, b)
                BY <2>2, ChangeEdgeRewires
            <3>2. /\ live => edgeHook(w, a, b, live) = startEdge(m, a, b)
                  /\ ~live => edgeHook(w, a, b, live) = failEdge(m, a, b)
                BY <2>2, Zenon DEF edgeHook
            <3> HIDE DEF m
            <3>3. Fit(startEdge(m, a, b)) /\ Informs(w, startEdge(m, a, b))
                BY <3>1, EdgeInforms, Zenon
            <3>4. ~live => Fit(failEdge(m, a, b)) /\ Informs(w, failEdge(m, a, b))
                BY <3>1, EdgeInforms, Zenon
            <3> QED  BY <3>2, <3>3, <3>4, Zenon
        <2> QED  BY <2>1, <2>2
    <1> DEFINE line == parseLine(cmd, 0)
    <1>3. line.op = "edge" => Sendable(line.options)
        BY ParsedIsSendable, Zenon
    <1> HIDE DEF line
    <1>4. \/ /\ line.op = "edge"
             /\ execute(w, line) =
                    startEdge(newEdge(w, line.a, line.b, line.options), line.a, line.b)
          \/ execute(w, line) = edgeHook(w, line.a, line.b, line.live)
          \/ execute(w, line) = restartNodeHook(w, line.a)
          \/ execute(w, line) = failNodeHook(w, line.a)
          \/ execute(w, line) = w
        BY DEF execute
    <1>5. Fit(execute(w, line)) /\ Informs(w, execute(w, line))
        BY <1>1, <1>2, <1>3, <1>4, RestartNodeInforms, FailNodeInforms, NothingInforms, Zenon
    <1> QED  BY <1>5 DEF line

\* The line with an address is none of those that refreshARP knows.
LEMMA AddressLineInRange ==
    ASSUME NEW a
    PROVE  InRange(<<ToString(a)>>)
PROOF
    <1> DEFINE word == ToString(a)
               line == <<word>>
    <1> HIDE DEF word
    <1>1. Len(line) = 1
        OBVIOUS
    <1> HIDE DEF line
    <1>2. /\ receiveRemoveNeighbor(line) = {} /\ receiveAddNeighborOptions(line) = {}
          /\ receiveAddNeighbor(line) = {}
        BY <1>1 DEF receiveRemoveNeighbor, receiveAddNeighborOptions, receiveAddNeighbor
    <1>3. InRange(line)
        BY <1>2, Zenon DEF InRange
    <1> QED  BY <1>3 DEF line, word

LEMMA SendAddressFits ==
    ASSUME NEW w, Shape(w), Fit(w), NEW p \in Procs, NEW a,
           \A q \in Procs : w.out[q] = <<>>
    PROVE  Fit(sendAddress(w, p, a)) /\ SameTopology(w, sendAddress(w, p, a))
PROOF
    <1> DEFINE s == sendAddress(w, p, a)
               line == <<ToString(a)>>
    <1>1. /\ Shape(s) /\ s.nodes = w.nodes /\ s.out[p] = <<line>>
          /\ \A q \in Procs \ {p} : s.out[q] = <<>>
        BY SendAddressShape
    <1>2. InRange(line)
        BY AddressLineInRange, Zenon
    <1>3. s = [w EXCEPT !.out[p] = Append(@, line)]
        BY Zenon DEF sendAddress
    <1> HIDE DEF line
    <1>4. /\ DOMAIN s = DOMAIN w /\ s.edges = w.edges /\ s.failedNodes = w.failedNodes
          /\ s.allToAll = w.allToAll
        BY <1>3 DEF Shape, Fit
    <1> HIDE DEF s
    <1>5. Range(<<line>>) = {line} /\ Range(<<>>) = {}
        BY RangeOf, Singles, Zenon
    <1>6. \A q \in Procs : \A l \in Range(s.out[q]) : InRange(l)
        BY <1>1, <1>2, <1>5, Zenon
    <1>7. Fit(s)
        <2>1. /\ "allToAll" \in DOMAIN s
              /\ \A ends \in DOMAIN s.edges :
                    /\ {"live", "options"} \subseteq DOMAIN s.edges[ends]
                    /\ Sendable(s.edges[ends].options)
            BY <1>4, Zenon DEF Fit
        <2>2. /\ \A c \in Nodes(s) :
                    /\ {"ipAddress", "udpPort"} \subseteq DOMAIN s.nodes[c]
                    /\ RoundTrips(s.nodes[c].udpPort)
              /\ \A c, d \in Nodes(s) : s.nodes[c].proc = s.nodes[d].proc => c = d
            BY <1>1, Zenon DEF Fit, Nodes
        <2> QED  BY <1>6, <2>1, <2>2, Zenon DEF Fit
    <1> QED  BY <1>4, <1>7, Zenon DEF SameTopology, s

\* A process joins as node a: what it hears of the others follows its address.
\* r is w with a node a for p, which is sent its address and what it has to know.
Welcomed(w, r, a, p) ==
    /\ Fit(r) /\ Informs(w, r) /\ SameProcs(w, r)
    /\ Nodes(r) = Nodes(w) \cup {a} /\ r.nodes[a].proc = p
    /\ p \notin w.broken =>
        \E x : /\ Listed(x) /\ r.out[p] = <<<<ToString(a)>>>> \o x
               /\ \A d : Settled(r, a, d, x, <<>>)

LEMMA WelcomeInforms ==
    ASSUME NEW w, Shape(w), Fit(w), \A q \in Procs : w.out[q] = <<>>,
           NEW p \in Procs, ~Registered(w, p),
           NEW a \in Addresses, a \notin Nodes(w),
           NEW ip, NEW udpPort, RoundTrips(udpPort)
    PROVE  Welcomed(w, welcome(w, a, p, ip, udpPort), a, p)
PROOF
    <1> DEFINE s == sendAddress(w, p, a)
               m == register(s, a, p, ip, udpPort)
               r == updateNeighbors(m, a)
               node == [proc |-> p, ipAddress |-> ip, udpPort |-> udpPort, alive |-> TRUE]
               nodes == [c \in DOMAIN s.nodes \cup {a} |-> IF c = a THEN node ELSE s.nodes[c]]
               first == <<<<ToString(a)>>>>
    <1>1. welcome(w, a, p, ip, udpPort) = r
        BY Zenon DEF welcome
    <1>2. /\ Shape(s) /\ s.nodes = w.nodes /\ s.broken = w.broken
          /\ s.out[p] = first /\ \A q \in Procs \ {p} : s.out[q] = <<>>
        BY SendAddressShape
    <1>3. Fit(s) /\ SameTopology(w, s)
        BY SendAddressFits, Zenon
    <1> HIDE DEF s, first
    <1>4. m = [s EXCEPT !.nodes = nodes]
        BY Zenon DEF register
    <1> HIDE DEF m
    <1>5. /\ DOMAIN m = DOMAIN s /\ m.nodes = nodes /\ m.out = s.out
          /\ m.broken = s.broken /\ m.edges = s.edges /\ m.failedNodes = s.failedNodes
          /\ m.allToAll = s.allToAll
        <2> HIDE DEF nodes
        <2> QED  BY <1>2, <1>3, <1>4 DEF Shape, Fit
    <1>6. /\ DOMAIN nodes = Nodes(w) \cup {a} /\ nodes[a] = node
          /\ \A c \in Nodes(w) : nodes[c] = w.nodes[c]
        <2> HIDE DEF node
        <2> QED  BY <1>2, Zenon DEF Nodes
    <1>7. /\ {"proc", "alive"} \subseteq DOMAIN node
          /\ {"ipAddress", "udpPort"} \subseteq DOMAIN node
          /\ node.proc = p /\ node.alive /\ node.udpPort = udpPort
        OBVIOUS
    <1> HIDE DEF node, nodes
    <1>8. /\ Nodes(m) = Nodes(w) \cup {a} /\ m.nodes[a] = node
          /\ \A c \in Nodes(w) : m.nodes[c] = w.nodes[c]
        BY <1>5, <1>6, Zenon DEF Nodes
    <1>9. Shape(m)
        <2>1. \A c \in Nodes(m) :
                {"proc", "alive"} \subseteq DOMAIN m.nodes[c] /\ m.nodes[c].proc \in Procs
            BY <1>7, <1>8, Zenon DEF Shape
        <2>2. Nodes(m) \subseteq 0 .. BROADCAST_ADDRESS - 1
            BY <1>8, Zenon DEF Shape, Addresses
        <2> QED  BY <1>2, <1>5, <2>1, <2>2, Zenon DEF Shape
    <1>10. Fit(m)
        <2>1. \A c \in Nodes(m) :
                /\ {"ipAddress", "udpPort"} \subseteq DOMAIN m.nodes[c]
                /\ RoundTrips(m.nodes[c].udpPort)
            BY <1>7, <1>8, Zenon DEF Fit
        <2>2. \A c \in Nodes(w) : m.nodes[c].proc # p
            BY <1>8, Zenon DEF Registered
        <2>3. \A c, d \in Nodes(m) : m.nodes[c].proc = m.nodes[d].proc => c = d
            <3> SUFFICES ASSUME NEW c \in Nodes(m), NEW d \in Nodes(m),
                                m.nodes[c].proc = m.nodes[d].proc
                         PROVE  c = d
                BY Zenon
            <3>1. CASE c \in Nodes(w) /\ d \in Nodes(w)
                <4>1. w.nodes[c].proc = w.nodes[d].proc
                    BY <1>8, <3>1, Zenon
                <4> QED  BY <3>1, <4>1, Zenon DEF Fit
            <3>2. m.nodes[a].proc = p
                BY <1>7, <1>8, Zenon
            <3> QED  BY <1>8, <2>2, <3>1, <3>2, Zenon
        <2>4. /\ "allToAll" \in DOMAIN m
              /\ \A ends \in DOMAIN m.edges :
                    /\ {"live", "options"} \subseteq DOMAIN m.edges[ends]
                    /\ Sendable(m.edges[ends].options)
              /\ \A q \in Procs : \A line \in Range(m.out[q]) : InRange(line)
            BY <1>3, <1>5, Zenon DEF Fit
        <2> QED  BY <2>1, <2>3, <2>4, Zenon DEF Fit
    <1>11. /\ Adds(m, r)
           /\ \A c \in Nodes(m) : Live(m, c) => StartHeard(m, r, c, a)
        BY <1>8, <1>9, <1>10, UpdateCovers, Zenon
    <1> HIDE DEF r
    <1>12. Fit(r) /\ SameTopology(w, r)
        BY <1>3, <1>5, <1>11, Zenon DEF Adds, SameTopology
    <1>13. ASSUME NEW c, NEW d, d # a  PROVE  Weaker(w, r, c, d)
        <2>1. /\ hasLiveEdge(r, c, d) <=> hasLiveEdge(w, c, d)
              /\ getEdge(r, {c, d}) = getEdge(w, {c, d})
            BY <1>12, TopologySame
        <2>2. /\ d \in Nodes(r) <=> d \in Nodes(w)
              /\ d \in Nodes(w) =>
                    /\ r.nodes[d].udpPort = w.nodes[d].udpPort
                    /\ r.nodes[d].alive => w.nodes[d].alive
            BY <1>8, <1>11, <1>13, Zenon DEF Adds
        <2>3. SameFor(w, r, c, d)
            BY <2>1, <2>2, Zenon DEF SameFor
        <2> QED  BY <2>3, SameIsWeaker, Zenon
    <1>14. ASSUME NEW c \in Nodes(w), Live(w, c), NEW d \in Addresses
           PROVE  \E S : Hears(w, r, c, S) /\ Told(w, r, c, d, S)
        <2> DEFINE N == Hereof(m, c, a)
                   q == w.nodes[c].proc
        <2>1. c \in Nodes(m) /\ m.nodes[c] = w.nodes[c] /\ q # p /\ q \in Procs
            BY <1>8, Zenon DEF Registered, Shape
        <2>2. Live(m, c) /\ m.out[q] = w.out[q]
            BY <1>2, <1>5, <1>14, <2>1, Zenon DEF Live
        <2>3. StartHeard(m, r, c, a)
            BY <1>11, <2>1, <2>2, Zenon
        <2>4. PICK S :
                /\ Hears(m, r, c, S) /\ Covers(r, c, d, N, S)
                /\ (c = a \/ d = a) /\ d \notin N => ~Needed(r, c, d)
            BY <2>3, Zenon DEF StartHeard
        <2> HIDE DEF N
        <2>5. d \notin N => Weaker(w, r, c, d)
            BY <1>13, <2>4, UnknownIsWeaker, Zenon
        <2>6. Told(w, r, c, d, S)
            BY <2>4, <2>5, SaidOrWeaker, Zenon
        <2>7. Hears(w, r, c, S)
            BY <2>1, <2>2, <2>4, Zenon DEF Hears
        <2> QED  BY <2>6, <2>7, Zenon
    <1>15. ASSUME p \notin w.broken
           PROVE  \E x : /\ Listed(x) /\ r.out[p] = first \o x
                         /\ \A d : Settled(r, a, d, x, <<>>)
        <2> DEFINE N == Hereof(m, a, a)
        <2>1. a \in Nodes(m) /\ Live(m, a) /\ m.nodes[a].proc = p /\ m.out[p] = first
            BY <1>2, <1>5, <1>7, <1>8, <1>15, Zenon DEF Live
        <2>2. StartHeard(m, r, a, a)
            BY <1>11, <2>1, Zenon
        <2>3. PICK S :
                /\ Hears(m, r, a, S)
                /\ \A d : Covers(r, a, d, N, S) /\ (d \notin N => ~Needed(r, a, d))
            BY <2>2, Zenon DEF StartHeard
        <2>4. PICK x : Listed(x) /\ Range(x) = S /\ r.out[p] = first \o x
            BY <2>1, <2>3, Zenon DEF Hears
        <2> HIDE DEF N
        <2>5. Listed(<<>>) /\ <<>> \o x = x
            BY <2>4, Singles, ConcatAny, Zenon
        <2>6. ASSUME NEW d  PROVE  Settled(r, a, d, x, <<>>)
            <3>1. CASE d \in N
                <4>1. Says(r, a, d, Range(x))
                    BY <2>3, <2>4, <3>1, Zenon DEF Covers
                <4>2. Settled(r, a, d, <<>> \o x, <<>>)
                    BY <2>4, <2>5, <4>1, MoreSettles, Zenon
                <4> QED  BY <2>5, <4>2, Zenon
            <3>2. CASE d \notin N
                <4>1. /\ \A line \in Range(x) : ~Concerns(line, d)
                      /\ ~Needed(r, a, d)
                    BY <2>3, <2>4, <3>2, Zenon DEF Covers
                <4>2. Settled(r, a, d, <<>>, <<>>)
                    <5>1. DOMAIN <<>> = {}
                        OBVIOUS
                    <5>2. EntryOK(r, a, d, <<>>)
                        BY <4>1, <5>1, Zenon DEF EntryOK
                    <5> QED  BY <5>1, <5>2, Zenon DEF Settled
                <4>3. Settled(r, a, d, <<>> \o x, <<>>)
                    BY <2>4, <2>5, <4>1, <4>2, MoreSettles, Zenon
                <4> QED  BY <2>5, <4>3, Zenon
            <3> QED  BY <3>1, <3>2
        <2> QED  BY <2>4, <2>6, Zenon
    <1>16. Informs(w, r)
        BY <1>14, Zenon DEF Informs
    <1>17. SameProcs(w, r) /\ Nodes(r) = Nodes(w) \cup {a} /\ r.nodes[a].proc = p
        BY <1>7, <1>8, <1>11, Zenon DEF Adds, SameProcs
    <1> QED  BY <1>1, <1>12, <1>15, <1>16, <1>17, Zenon DEF first, Welcomed
-----------------------------------------------------------------------------
(* What the processes know. *)

\* Of the lines q on their way to a process, those about its neighbours.
Pending(st, q) == IF st = "asked" /\ q # <<>> THEN Tail(q) ELSE q

\* After these, a process that has not ended knows what it should.
Informed ==
    \A a \in Nodes(t) : t.nodes[a].proc \notin gone =>
        \A b \in Addresses :
            LET p == t.nodes[a].proc
            IN  Settled(t, a, b, Pending(status[p], inbox[p]), arp[p])

\* It knows of addresses only, and of none before it has one itself.
Caches ==
    /\ DOMAIN arp = Procs
    /\ \A p \in Procs :
        /\ DOMAIN arp[p] \subseteq Addresses
        /\ status[p] \in {"off", "connected", "asked"} => arp[p] = <<>>

Lines ==
    /\ \A p \in Procs : \A line \in Range(inbox[p]) : InRange(line)
    /\ \A d \in udp : d.pkt.src \in Addresses

Knowledge == Fit(t) /\ Caches /\ Lines /\ Informed

LEMMA SameTrawler ==
    ASSUME NEW m, NEW r, SameTopology(m, r), r.nodes = m.nodes, NEW a, NEW b
    PROVE  Weaker(m, r, a, b)
PROOF
    <1>1. /\ hasLiveEdge(r, a, b) <=> hasLiveEdge(m, a, b)
          /\ getEdge(r, {a, b}) = getEdge(m, {a, b})
        BY TopologySame
    <1>2. SameFor(m, r, a, b)
        BY <1>1, Zenon DEF SameFor, Nodes
    <1> QED  BY <1>2, SameIsWeaker, Zenon

LEMMA WithFit ==
    ASSUME Core, Fit(t), NEW b \in brokenSets
    PROVE  Fit(with(b)) /\ SameTopology(t, with(b))
PROOF
    <1>1. with(b).nodes = t.nodes /\ with(b).out = t.out
        BY WithBroken, Zenon
    <1>2. Shape(t)
        BY Zenon DEF Core, TrawlerShape
    <1>3. /\ DOMAIN with(b) = DOMAIN t /\ with(b).edges = t.edges
          /\ with(b).failedNodes = t.failedNodes /\ with(b).allToAll = t.allToAll
        BY <1>2 DEF with, Shape, Fit
    <1> QED  BY <1>1, <1>3, Zenon DEF Fit, Nodes, SameTopology

LEMMA WrittenFits ==
    ASSUME NEW r, Shape(r), Fit(r), Written(r)
    PROVE  /\ Fit(t') /\ SameTopology(r, t') /\ t'.nodes = r.nodes
PROOF
    <1> DEFINE none == [p \in Procs |-> <<>>]
    <1>1. t' = [r EXCEPT !.out = none, !.broken = {}, !.writeFailed = FALSE]
        BY Zenon DEF Written
    <1>2. \A p \in Procs : none[p] = <<>>
        BY Zenon
    <1> HIDE DEF none
    <1>3. /\ DOMAIN t' = DOMAIN r /\ t'.out = none /\ t'.nodes = r.nodes
          /\ t'.edges = r.edges /\ t'.failedNodes = r.failedNodes
          /\ t'.allToAll = r.allToAll
        BY <1>1 DEF Shape, Fit
    <1>4. Range(<<>>) = {}
        BY RangeOf, Singles, Zenon
    <1>5. \A p \in Procs : \A line \in Range(t'.out[p]) : InRange(line)
        BY <1>2, <1>3, <1>4, Zenon
    <1>6. /\ "allToAll" \in DOMAIN t'
          /\ \A ends \in DOMAIN t'.edges :
                /\ {"live", "options"} \subseteq DOMAIN t'.edges[ends]
                /\ Sendable(t'.edges[ends].options)
        BY <1>3, Zenon DEF Fit
    <1>7. /\ \A c \in Nodes(t') :
                /\ {"ipAddress", "udpPort"} \subseteq DOMAIN t'.nodes[c]
                /\ RoundTrips(t'.nodes[c].udpPort)
          /\ \A c, d \in Nodes(t') : t'.nodes[c].proc = t'.nodes[d].proc => c = d
        BY <1>3, Zenon DEF Fit, Nodes
    <1>8. Fit(t')
        BY <1>5, <1>6, <1>7, Zenon DEF Fit
    <1> QED  BY <1>3, <1>8, Zenon DEF SameTopology

LEMMA TailConcat ==
    ASSUME NEW q, NEW x, Listed(q), Listed(x), q # <<>>
    PROVE  Tail(q \o x) = Tail(q) \o x
PROOF
    <1> DEFINE S == Range(q) \cup Range(x)
               c == q \o x
               u == Tail(q)
               v == u \o x
    <1>1. /\ q \in Seq(Range(q)) /\ Range(q) \subseteq S
          /\ x \in Seq(Range(x)) /\ Range(x) \subseteq S
        BY DEF Listed
    <1> HIDE DEF S
    <1>2. q \in Seq(S) /\ x \in Seq(S)
        BY <1>1, SeqMonotonic, Zenon
    <1>3. /\ u \in Seq(S) /\ Len(u) = Len(q) - 1 /\ Len(q) \in Nat /\ Len(q) # 0
          /\ Len(x) \in Nat /\ \A i \in 1 .. Len(u) : u[i] = q[i + 1]
        BY <1>2
    <1> HIDE DEF u
    <1>4. /\ c \in Seq(S) /\ Len(c) = Len(q) + Len(x)
          /\ \A i \in 1 .. Len(q) + Len(x) :
                c[i] = IF i <= Len(q) THEN q[i] ELSE x[i - Len(q)]
        BY <1>2, ConcatProperties, Zenon
    <1>5. /\ v \in Seq(S) /\ Len(v) = Len(u) + Len(x)
          /\ \A i \in 1 .. Len(u) + Len(x) :
                v[i] = IF i <= Len(u) THEN u[i] ELSE x[i - Len(u)]
        BY <1>2, <1>3, ConcatProperties, Zenon
    <1> HIDE DEF c, v
    <1> DEFINE d == Tail(c)
    <1>6. /\ d \in Seq(S) /\ Len(d) = Len(c) - 1
          /\ \A i \in 1 .. Len(d) : d[i] = c[i + 1]
        <2>1. c # <<>>
            BY <1>3, <1>4
        <2> QED  BY <1>4, <2>1, HeadTailProperties, Zenon
    <1> HIDE DEF d
    <1>7. Len(d) = Len(v) /\ \A i \in 1 .. Len(d) : d[i] = v[i]
        <2>1. Len(d) = Len(v)
            BY <1>3, <1>4, <1>5, <1>6
        <2>2. ASSUME NEW i \in 1 .. Len(d)  PROVE  d[i] = v[i]
            <3>1. d[i] = c[i + 1] /\ i + 1 \in 1 .. Len(q) + Len(x) /\ i \in 1 .. Len(u) + Len(x)
                BY <1>3, <1>4, <1>5, <1>6, <2>1
            <3>2. CASE i <= Len(u)
                BY <1>3, <1>4, <1>5, <3>1, <3>2
            <3>3. CASE ~(i <= Len(u))
                <4>1. i + 1 - Len(q) = i - Len(u) /\ ~(i + 1 <= Len(q))
                    BY <1>3, <3>3
                <4>2. c[i + 1] = x[i + 1 - Len(q)]
                    <5> DEFINE k == i + 1
                    <5>1. k \in 1 .. Len(q) + Len(x) /\ ~(k <= Len(q))
                        BY <3>1, <4>1
                    <5> HIDE DEF k
                    <5>2. c[k] = x[k - Len(q)]
                        BY <1>4, <5>1, Zenon
                    <5> QED  BY <5>2 DEF k
                <4>3. v[i] = x[i - Len(u)]
                    BY <1>5, <3>1, <3>3, Zenon
                <4> QED  BY <3>1, <4>1, <4>2, <4>3, Zenon
            <3> QED  BY <3>2, <3>3
        <2> QED  BY <2>1, <2>2
    <1>8. d = v
        BY <1>5, <1>6, <1>7, SeqEqual
    <1> QED  BY <1>8 DEF d, c, v, u

\* The trawler, from w, has become r and written what it had to.
LEMMA WrittenKnown ==
    ASSUME Core, Knowledge,
           NEW w, w.nodes = t.nodes, w.out = t.out, w.broken \subseteq gone,
           SameTopology(t, w),
           NEW r, Shape(r), Fit(r), Informs(w, r), Written(r),
           \A a \in Nodes(t) \cap Nodes(r) : r.nodes[a].proc = t.nodes[a].proc,
           UNCHANGED <<status, arp, udp>>,
           \A a \in Nodes(r) \ Nodes(t) : r.nodes[a].proc \notin gone =>
                \A d \in Addresses :
                    LET p == r.nodes[a].proc
                    IN  Settled(r, a, d, Pending(status[p], inbox'[p]), arp[p])
    PROVE  Knowledge'
PROOF
    <1>1. /\ status' = status /\ arp' = arp /\ udp' = udp /\ gone' = gone
        BY DEF gone
    <1>2. Fit(t') /\ SameTopology(r, t') /\ t'.nodes = r.nodes
        BY WrittenFits, Zenon
    <1>3. \A p \in Procs :
            /\ Listed(inbox'[p])
            /\ p \in gone => inbox'[p] = <<>>
            /\ p \notin gone => inbox'[p] = inbox[p] \o r.out[p]
        BY WrittenGives, Zenon
    <1>4. \A p \in Procs : Listed(inbox[p]) /\ Listed(r.out[p])
        BY Zenon DEF Core, ProcessTypes, Shape
    <1>5. Caches'
        BY <1>1, Zenon DEF Knowledge, Caches
    <1>6. Lines'
        <2>1. ASSUME NEW p \in Procs  PROVE  \A line \in Range(inbox'[p]) : InRange(line)
            <3>1. CASE p \in gone
                <4>1. Range(inbox'[p]) = {}
                    BY <1>3, <3>1, RangeOf, Singles, Zenon
                <4> QED  BY <4>1, Zenon
            <3>2. CASE p \notin gone
                <4>1. Range(inbox'[p]) = Range(inbox[p]) \cup Range(r.out[p])
                    BY <1>3, <1>4, <3>2, RangeOf, Zenon
                <4>2. \A line \in Range(inbox[p]) : InRange(line)
                    BY Zenon DEF Knowledge, Lines
                <4>3. \A line \in Range(r.out[p]) : InRange(line)
                    BY Zenon DEF Fit
                <4> QED  BY <4>1, <4>2, <4>3, Zenon
            <3> QED  BY <3>1, <3>2
        <2> QED  BY <1>1, <2>1, Zenon DEF Knowledge, Lines
    <1>7. ASSUME NEW a \in Nodes(t) \cap Nodes(r), t.nodes[a].proc \notin gone,
                 NEW d \in Addresses
          PROVE  LET p == t.nodes[a].proc
                 IN  Settled(r, a, d, Pending(status[p], inbox'[p]), arp[p])
        <2> DEFINE p == t.nodes[a].proc
                   q == Pending(status[p], inbox[p])
        <2>1. /\ p \in Procs /\ p \notin gone /\ t.out[p] = <<>> /\ Registered(t, p)
            <3>1. Shape(t) /\ t.out = [k \in Procs |-> <<>>]
                BY Zenon DEF Core, TrawlerShape
            <3>2. p \in Procs
                BY <3>1, Zenon DEF Shape
            <3>3. t.out[p] = <<>>
                BY <3>1, <3>2, Zenon
            <3> QED  BY <1>7, <3>2, <3>3, Zenon DEF Registered
        <2>2. a \in Nodes(w) /\ Live(w, a)
            <3>1. t.nodes[a].alive
                BY <1>7, Zenon DEF Core, DeadAreGone
            <3> QED  BY <1>7, <3>1, Zenon DEF Live, Nodes
        <2>3. Settled(t, a, d, q, arp[p])
            BY <1>7, Zenon DEF Knowledge, Informed
        <2>4. PICK S : Hears(w, r, a, S) /\ Told(w, r, a, d, S)
            BY <1>7, <2>2, Zenon DEF Informs
        <2>5. PICK x : Listed(x) /\ Range(x) = S /\ r.out[p] = w.out[p] \o x
            BY <2>4, Zenon DEF Hears
        <2> HIDE DEF p
        <2>6. r.out[p] = x
            BY <2>1, <2>5, Singles, ConcatAny, Zenon
        <2>7. Told(w, r, a, d, Range(x))
            BY <2>4, <2>5, Zenon
        <2>8. inbox'[p] = inbox[p] \o x /\ Listed(inbox[p])
            BY <1>3, <1>4, <2>1, <2>6, Zenon
        <2>9. Listed(q) /\ Pending(status[p], inbox'[p]) = q \o x
            <3>1. CASE status[p] = "asked"
                <4>1. inbox[p] # <<>>
                    BY <2>1, <3>1, Zenon DEF Core, FirstLine
                <4>2. q = Tail(inbox[p])
                    BY <3>1, <4>1, Zenon DEF Pending
                <4>3. inbox'[p] # <<>>
                    BY <2>5, <2>8, <4>1, ConcatAny, Zenon
                <4>4. Pending(status[p], inbox'[p]) = Tail(inbox'[p])
                    BY <1>1, <3>1, <4>3, Zenon DEF Pending
                <4> HIDE DEF q
                <4>5. Tail(inbox'[p]) = Tail(inbox[p]) \o x
                    BY <2>5, <2>8, <4>1, TailConcat, Zenon
                <4>6. Listed(Tail(inbox[p]))
                    BY <2>8, <4>1, TailAny, Zenon
                <4> QED  BY <4>2, <4>4, <4>5, <4>6, Zenon
            <3>2. CASE status[p] # "asked"
                <4>1. q = inbox[p]
                    BY <3>2, Zenon DEF Pending
                <4>2. Pending(status[p], inbox'[p]) = inbox'[p]
                    BY <1>1, <3>2, Zenon DEF Pending
                <4> QED  BY <2>8, <4>1, <4>2, Zenon
            <3> QED  BY <3>1, <3>2
        <2> HIDE DEF q
        <2>10. Settled(w, a, d, q, arp[p])
            <3>1. Weaker(t, w, a, d)
                BY SameTrawler, Zenon
            <3> QED  BY <2>3, <3>1, WeakerSettles, Zenon
        <2>11. Settled(r, a, d, q \o x, arp[p])
            BY <2>5, <2>7, <2>9, <2>10, ToldSettles, Zenon
        <2> QED  BY <2>9, <2>11, Zenon DEF p
    <1>8. Informed'
        <2> SUFFICES ASSUME NEW a \in Nodes(t'), t'.nodes[a].proc \notin gone,
                            NEW d \in Addresses
                     PROVE  LET p == t'.nodes[a].proc
                            IN  Settled(t', a, d, Pending(status[p], inbox'[p]), arp[p])
            BY <1>1, Zenon DEF Informed
        <2>1. a \in Nodes(r) /\ t'.nodes[a].proc = r.nodes[a].proc
            BY <1>2, Zenon DEF Nodes
        <2>2. LET p == r.nodes[a].proc
              IN  Settled(r, a, d, Pending(status[p], inbox'[p]), arp[p])
            <3>1. CASE a \in Nodes(t)
                <4>1. r.nodes[a].proc = t.nodes[a].proc
                    BY <2>1, <3>1, Zenon
                <4>2. t.nodes[a].proc \notin gone
                    BY <2>1, <4>1, Zenon
                <4> QED  BY <1>7, <2>1, <3>1, <4>1, <4>2, Zenon
            <3>2. CASE a \notin Nodes(t)
                BY <2>1, <3>2, Zenon
            <3> QED  BY <3>1, <3>2
        <2>3. Weaker(r, t', a, d)
            BY <1>2, SameTrawler, Zenon
        <2> QED  BY <2>1, <2>2, <2>3, WeakerSettles, Zenon
    <1> QED  BY <1>2, <1>5, <1>6, <1>8, Zenon DEF Knowledge

\* Nothing changes but the states of processes that end.
LEMMA SilentKnown ==
    ASSUME Knowledge, UNCHANGED <<t, status, inbox, arp, udp>>
    PROVE  Knowledge'
PROOF
    <1>1. t' = t /\ status' = status /\ inbox' = inbox /\ arp' = arp /\ udp' = udp
        BY Zenon
    <1>2. Fit(t') /\ Caches' /\ Lines'
        BY <1>1, Zenon DEF Knowledge, Caches, Lines
    <1>3. Informed'
        BY <1>1, Zenon DEF Knowledge, Informed, gone
    <1> QED  BY <1>2, <1>3, Zenon DEF Knowledge

LEMMA KilledKnown ==
    ASSUME Knowledge, NEW r, Killed(r), UNCHANGED <<status, arp, udp>>
    PROVE  Knowledge'
PROOF
    <1>1. UNCHANGED <<t, status, inbox, arp, udp>>
        BY DEF Killed
    <1> QED  BY <1>1, SilentKnown, Zenon

LEMMA ParseRemainderKnown ==
    ASSUME Core, Knowledge, parseRemainder
    PROVE  Knowledge'
PROOF
    <1>1. PICK b \in brokenSets :
            \/ Written(execute(with(b), parseLine(Head(topo), 0)))
            \/ Killed(execute(with(b), parseLine(Head(topo), 0)))
        BY Zenon DEF parseRemainder
    <1>2. UNCHANGED <<status, arp, udp>>
        BY Zenon DEF parseRemainder, emulatorVars
    <1>3. CASE Written(execute(with(b), parseLine(Head(topo), 0)))
        <2> DEFINE w == with(b)
                   line == parseLine(Head(topo), 0)
                   r == execute(w, line)
        <2>1. /\ Shape(w) /\ w.nodes = t.nodes /\ w.out = t.out
              /\ w.broken \subseteq gone
            BY WithBroken, Zenon
        <2>2. Fit(w) /\ SameTopology(t, w)
            BY WithFit, Zenon DEF Knowledge
        <2>3. Written(r)
            BY <1>3
        <2> HIDE DEF w
        <2>4. Fit(r) /\ Informs(w, r)
            BY <2>1, <2>2, ExecuteInforms, Zenon
        <2> HIDE DEF line
        <2>5. Tells(w, r)
            BY <2>1, ExecuteTells, Zenon
        <2> HIDE DEF r
        <2>6. /\ Shape(r) /\ Nodes(r) = Nodes(t)
              /\ \A a \in Nodes(t) \cap Nodes(r) : r.nodes[a].proc = t.nodes[a].proc
            BY <2>1, <2>5, Zenon DEF Tells, Nodes
        <2>7. Nodes(r) \ Nodes(t) = {}
            BY <2>6, Zenon
        <2> QED  BY <1>2, <2>1, <2>2, <2>3, <2>4, <2>6, <2>7, WrittenKnown, Zenon
    <1> QED  BY <1>1, <1>2, <1>3, KilledKnown, Zenon

LEMMA CheckNodesQuitKnown ==
    ASSUME Core, Knowledge, checkNodesQuit, visit \subseteq Nodes(t)
    PROVE  Knowledge'
PROOF
    <1>1. PICK a \in visit, b \in brokenSets :
            Written(removeQuit(with(b), a)) \/ Killed(removeQuit(with(b), a))
        BY Zenon DEF checkNodesQuit
    <1>2. UNCHANGED <<status, arp, udp>>
        BY Zenon DEF checkNodesQuit, emulatorVars
    <1>3. CASE Written(removeQuit(with(b), a))
        <2> DEFINE w == with(b)
                   r == removeQuit(w, a)
        <2>1. /\ Shape(w) /\ w.nodes = t.nodes /\ w.out = t.out
              /\ w.broken \subseteq gone
            BY WithBroken, Zenon
        <2>2. Fit(w) /\ SameTopology(t, w)
            BY WithFit, Zenon DEF Knowledge
        <2>3. Written(r)
            BY <1>3
        <2> HIDE DEF w
        <2>4. a \in Nodes(w)
            BY <2>1, Zenon DEF Nodes
        <2>5. Fit(r) /\ Informs(w, r) /\ SameProcs(w, r) /\ Nodes(r) \subseteq Nodes(w)
            BY <2>1, <2>2, <2>4, RemoveQuitInforms, Zenon
        <2> HIDE DEF r
        <2>6. /\ Shape(r) /\ Nodes(w) = Nodes(t)
              /\ \A c \in Nodes(t) \cap Nodes(r) : r.nodes[c].proc = t.nodes[c].proc
            BY <2>1, <2>5, Zenon DEF SameProcs, Nodes
        <2>7. Nodes(r) \ Nodes(t) = {}
            BY <2>5, <2>6, Zenon
        <2> QED  BY <1>2, <2>1, <2>2, <2>3, <2>5, <2>6, <2>7, WrittenKnown, Zenon
    <1> QED  BY <1>1, <1>2, <1>3, KilledKnown, Zenon

LEMMA RefuseKnown ==
    ASSUME Core, Knowledge, refuse
    PROVE  Knowledge'
PROOF
    <1>1. PICK p \in client \cap asked : Written(sendAddress(t, p, BROADCAST_ADDRESS))
        BY Zenon DEF refuse
    <1>2. UNCHANGED <<status, arp, udp>>
        BY Zenon DEF refuse, emulatorVars
    <1>3. Shape(t) /\ t.out = [q \in Procs |-> <<>>] /\ t.broken = {}
        BY Zenon DEF Core, TrawlerShape
    <1>4. \A q \in Procs : t.out[q] = <<>>
        BY <1>3, Zenon
    <1>5. p \in Procs /\ ~Registered(t, p) /\ Fit(t)
        BY Zenon DEF Core, ProcessTypes, NotYetTold, waiting, Knowledge
    <1> DEFINE r == sendAddress(t, p, BROADCAST_ADDRESS)
    <1>6. /\ Shape(r) /\ r.nodes = t.nodes /\ \A q \in Procs \ {p} : r.out[q] = <<>>
        BY <1>3, <1>4, <1>5, SendAddressShape
    <1>7. Fit(r) /\ SameTopology(t, r)
        BY <1>3, <1>4, <1>5, SendAddressFits, Zenon
    <1>8. Written(r)
        BY <1>1
    <1> HIDE DEF r
    <1>9. Informs(t, r)
        <2>1. ASSUME NEW a \in Nodes(t), NEW d
              PROVE  Hears(t, r, a, {}) /\ Told(t, r, a, d, {})
            <3>1. t.nodes[a].proc \in Procs \ {p}
                BY <1>3, <1>5, Zenon DEF Registered, Shape
            <3>2. r.out[t.nodes[a].proc] = t.out[t.nodes[a].proc]
                BY <1>4, <1>6, <3>1, Zenon
            <3>3. Hears(t, r, a, {})
                BY <1>3, <3>2, HearsNothing, Zenon
            <3>4. Weaker(t, r, a, d)
                BY <1>6, <1>7, SameTrawler, Zenon
            <3> QED  BY <3>3, <3>4, Zenon DEF Told
        <2> QED  BY <2>1, Zenon DEF Informs
    <1>10. /\ Nodes(r) = Nodes(t) /\ Nodes(r) \ Nodes(t) = {}
           /\ \A c \in Nodes(t) \cap Nodes(r) : r.nodes[c].proc = t.nodes[c].proc
        BY <1>6, Zenon DEF Nodes
    <1>11. t.broken \subseteq gone /\ SameTopology(t, t)
        BY <1>3, Zenon DEF SameTopology
    <1> QED  BY <1>2, <1>6, <1>7, <1>8, <1>9, <1>10, <1>11, WrittenKnown, Zenon

LEMMA AssignKnown ==
    ASSUME Core, Knowledge, port \in PortChoices, assign
    PROVE  Knowledge'
PROOF
    <1> DEFINE a == freeFishAddr(t)
    <1>1. PICK p, b :
            /\ p \in client \cap asked /\ b \in brokenSets /\ ~refused(p)
            /\ \/ Written(welcome(with(b), a, p, HOST, port[p]))
               \/ Killed(welcome(with(b), a, p, HOST, port[p]))
        BY Zenon DEF assign
    <1>2. UNCHANGED <<status, arp, udp>>
        BY Zenon DEF assign, emulatorVars
    <1>3. a \in freeAddresses(t)
        BY <1>1, FreeFishAddrIsFree, Zenon DEF refused
    <1>4. a \in Addresses /\ a \notin Nodes(t)
        BY <1>3, Zenon DEF freeAddresses, Nodes, Addresses
    <1> HIDE DEF a
    <1>5. /\ p \in Procs /\ ~Registered(t, p) /\ inbox[p] = <<>>
          /\ status[p] \notin {"off", "running", "connected"}
        <2>1. p \in Procs /\ p \in waiting
            BY <1>1, Zenon DEF Core, ProcessTypes, waiting
        <2>2. status[p] # "connected"
            BY <1>1, <2>1, Zenon DEF Core, NotYetTold
        <2> QED  BY <2>1, <2>2 DEF Core, NotYetTold
    <1>6. RoundTrips(port[p])
        <2> DEFINE used(ports) == {ports[q] : q \in Procs}
        <2>1. port[p] \in used(port)
            BY <1>5, Zenon
        <2> HIDE DEF used
        <2>2. port[p] \in UNION {used(ports) : ports \in PortChoices}
            BY <2>1, Zenon
        <2> USE DEF used
        <2> QED  BY <2>2, EmulationConstants, Zenon DEF RoundTrips
    <1>7. CASE Written(welcome(with(b), a, p, HOST, port[p]))
        <2> DEFINE w == with(b)
                   r == welcome(w, a, p, HOST, port[p])
        <2>1. /\ Shape(w) /\ w.nodes = t.nodes /\ w.out = t.out
              /\ w.broken \subseteq gone
            BY <1>1, WithBroken, Zenon
        <2>2. Fit(w) /\ SameTopology(t, w)
            BY <1>1, WithFit, Zenon DEF Knowledge
        <2>3. Written(r)
            BY <1>7
        <2> HIDE DEF w
        <2>4. \A q \in Procs : w.out[q] = <<>>
            <3>1. t.out = [q \in Procs |-> <<>>]
                BY Zenon DEF Core, TrawlerShape
            <3> QED  BY <2>1, <3>1, Zenon
        <2>5. ~Registered(w, p) /\ Nodes(w) = Nodes(t)
            BY <1>5, <2>1, Zenon DEF Registered, Nodes
        <2>6. /\ Fit(r) /\ Informs(w, r) /\ SameProcs(w, r)
              /\ Nodes(r) = Nodes(w) \cup {a} /\ r.nodes[a].proc = p
              /\ p \notin w.broken =>
                    \E x : /\ Listed(x) /\ r.out[p] = <<<<ToString(a)>>>> \o x
                           /\ \A d : Settled(r, a, d, x, <<>>)
            <3>1. a \notin Nodes(w)
                BY <1>4, <2>5, Zenon
            <3>2. Welcomed(w, r, a, p)
                BY <1>4, <1>5, <1>6, <2>1, <2>2, <2>4, <2>5, <3>1, WelcomeInforms, Zenon
            <3> HIDE DEF r
            <3> QED  BY <3>2, Zenon DEF Welcomed
        <2> HIDE DEF r
        <2>7. /\ Shape(r)
              /\ \A c \in Nodes(t) \cap Nodes(r) : r.nodes[c].proc = t.nodes[c].proc
            BY <2>1, <2>6, Zenon DEF SameProcs, Nodes
        <2>8. Nodes(r) \ Nodes(t) = {a}
            BY <1>4, <2>5, <2>6, Zenon
        <2>9. ASSUME p \notin gone, NEW d \in Addresses
              PROVE  Settled(r, a, d, Pending(status[p], inbox'[p]), arp[p])
            <3> DEFINE first == <<<<ToString(a)>>>>
            <3>1. PICK x : /\ Listed(x) /\ r.out[p] = first \o x
                           /\ Settled(r, a, d, x, <<>>)
                BY <2>1, <2>6, <2>9, Zenon
            <3>2. status[p] = "asked"
                <4>1. status[p] # "gone"
                    BY <1>5, <2>9, Zenon DEF gone
                <4>2. status[p] \in Statuses
                    BY <1>5 DEF Core, ProcessTypes, Statuses
                <4> QED  BY <1>5, <4>1, <4>2 DEF Statuses
            <3>3. Listed(first) /\ first # <<>> /\ Tail(first) = <<>>
                <4>1. Listed(first) /\ first # <<>>
                    BY Singles, Zenon
                <4>2. Tail(first) = <<>>
                    OBVIOUS
                <4> QED  BY <4>1, <4>2
            <3> HIDE DEF first
            <3>4. inbox'[p] = first \o x
                <4>1. inbox'[p] = inbox[p] \o r.out[p]
                    BY <1>5, <2>3, <2>7, <2>9, WrittenGives, Zenon
                <4>2. Listed(first \o x)
                    BY <3>1, <3>3, ConcatAny, Zenon
                <4>3. Listed(<<>>)
                    BY Singles, Zenon
                <4>4. <<>> \o (first \o x) = first \o x
                    BY <4>2, <4>3, ConcatAny, Zenon
                <4> QED  BY <1>5, <3>1, <4>1, <4>4, Zenon
            <3>5. inbox'[p] # <<>> /\ Tail(inbox'[p]) = <<>> \o x
                <4>1. first \o x # <<>>
                    BY <3>1, <3>3, ConcatAny, Zenon
                <4>2. Tail(first \o x) = Tail(first) \o x
                    BY <3>1, <3>3, TailConcat, Zenon
                <4> QED  BY <3>3, <3>4, <4>1, <4>2, Zenon
            <3>6. <<>> \o x = x
                BY <3>1, Singles, ConcatAny, Zenon
            <3>7. Pending(status[p], inbox'[p]) = x
                BY <3>2, <3>5, <3>6, Zenon DEF Pending
            <3>8. arp[p] = <<>>
                BY <1>5, <3>2 DEF Knowledge, Caches
            <3> QED  BY <3>1, <3>7, <3>8, Zenon
        <2>10. \A c \in Nodes(r) \ Nodes(t) : r.nodes[c].proc \notin gone =>
                 \A d \in Addresses :
                    LET q == r.nodes[c].proc
                    IN  Settled(r, c, d, Pending(status[q], inbox'[q]), arp[q])
            BY <2>6, <2>8, <2>9, Zenon
        <2> QED  BY <1>2, <2>1, <2>2, <2>3, <2>6, <2>7, <2>10, WrittenKnown, Zenon
    <1> QED  BY <1>1, <1>2, <1>7, KilledKnown, Zenon

-----------------------------------------------------------------------------
(* The steps of an emulator, again. *)

\* A step of process p by which, unless it has ended, it knows what it should if it
\* did before.
LEMMA ProcessKnown ==
    ASSUME Core, Knowledge, NEW p \in Procs, t' = t,
           \A q \in Procs \ {p} :
                status'[q] = status[q] /\ inbox'[q] = inbox[q] /\ arp'[q] = arp[q],
           status[p] = "gone" => status'[p] = "gone",
           Range(inbox'[p]) \subseteq Range(inbox[p]),
           DOMAIN arp' = Procs, DOMAIN arp'[p] \subseteq Addresses,
           status'[p] \in {"off", "connected", "asked"} => arp'[p] = <<>>,
           \A d \in udp' : d.pkt.src \in Addresses,
           status'[p] # "gone" =>
                \A a, b : Settled(t, a, b, Pending(status[p], inbox[p]), arp[p]) =>
                    Settled(t, a, b, Pending(status'[p], inbox'[p]), arp'[p])
    PROVE  Knowledge'
PROOF
    <1>1. Fit(t')
        BY Zenon DEF Knowledge
    <1>2. Caches'
        <2>1. ASSUME NEW q \in Procs
              PROVE  /\ DOMAIN arp'[q] \subseteq Addresses
                     /\ status'[q] \in {"off", "connected", "asked"} => arp'[q] = <<>>
            <3>1. CASE q = p
                BY <3>1
            <3>2. CASE q # p
                BY <3>2, Zenon DEF Knowledge, Caches
            <3> QED  BY <3>1, <3>2
        <2> QED  BY <2>1, Zenon DEF Caches
    <1>3. Lines'
        <2>1. ASSUME NEW q \in Procs, NEW line \in Range(inbox'[q])  PROVE  InRange(line)
            <3>1. line \in Range(inbox[q])
                BY Zenon
            <3> QED  BY <3>1, Zenon DEF Knowledge, Lines
        <2> QED  BY <2>1, Zenon DEF Lines
    <1>4. \A q \in Procs : q \notin gone' => q \notin gone
        BY Zenon DEF gone
    <1>5. Informed'
        <2> SUFFICES ASSUME NEW a \in Nodes(t), t.nodes[a].proc \notin gone',
                            NEW b \in Addresses
                     PROVE  LET q == t.nodes[a].proc
                            IN  Settled(t, a, b, Pending(status'[q], inbox'[q]), arp'[q])
            BY Zenon DEF Informed
        <2> DEFINE q == t.nodes[a].proc
        <2>1. q \in Procs
            BY Zenon DEF Core, TrawlerShape, Shape
        <2>2. Settled(t, a, b, Pending(status[q], inbox[q]), arp[q])
            BY <1>4, <2>1, Zenon DEF Knowledge, Informed
        <2>3. q \notin gone'
            OBVIOUS
        <2> HIDE DEF q
        <2>4. Settled(t, a, b, Pending(status'[q], inbox'[q]), arp'[q])
            <3>1. CASE q = p
                <4>1. status'[p] # "gone"
                    BY <2>3, <3>1, Zenon DEF gone
                <4> QED  BY <2>2, <3>1, <4>1, Zenon
            <3>2. CASE q # p
                <4>1. status'[q] = status[q] /\ inbox'[q] = inbox[q] /\ arp'[q] = arp[q]
                    BY <2>1, <3>2, Zenon
                <4> QED  BY <2>2, <4>1, Zenon
            <3> QED  BY <3>1, <3>2
        <2> QED  BY <2>4 DEF q
    <1> QED  BY <1>1, <1>2, <1>3, <1>5, Zenon DEF Knowledge

\* Of what is known, only what is on its way to p may change.
Same(p) ==
    /\ t' = t /\ arp' = arp /\ udp' = udp
    /\ \A q \in Procs \ {p} : status'[q] = status[q] /\ inbox'[q] = inbox[q]

LEMMA SameKnown ==
    ASSUME Core, Knowledge, NEW p \in Procs, Same(p),
           status[p] = "gone" => status'[p] = "gone",
           Range(inbox'[p]) \subseteq Range(inbox[p]),
           status'[p] \in {"off", "connected", "asked"} =>
                status[p] \in {"off", "connected", "asked"},
           status'[p] # "gone" =>
                Pending(status'[p], inbox'[p]) = Pending(status[p], inbox[p])
    PROVE  Knowledge'
PROOF
    <1>1. /\ t' = t /\ arp' = arp
          /\ \A q \in Procs \ {p} :
                status'[q] = status[q] /\ inbox'[q] = inbox[q] /\ arp'[q] = arp[q]
        BY Zenon DEF Same
    <1>2. \A d \in udp' : d.pkt.src \in Addresses
        BY Zenon DEF Same, Knowledge, Lines
    <1>3. DOMAIN arp' = Procs /\ DOMAIN arp'[p] \subseteq Addresses
        BY <1>1, Zenon DEF Knowledge, Caches
    <1>4. status'[p] \in {"off", "connected", "asked"} => arp'[p] = <<>>
        BY <1>1, Zenon DEF Knowledge, Caches
    <1>5. status'[p] # "gone" =>
            \A a, b : Settled(t, a, b, Pending(status[p], inbox[p]), arp[p]) =>
                Settled(t, a, b, Pending(status'[p], inbox'[p]), arp'[p])
        BY <1>1, Zenon
    <1> QED  BY <1>1, <1>2, <1>3, <1>4, <1>5, ProcessKnown, Zenon

\* The process ends.
LEMMA EndKnown ==
    ASSUME Core, Knowledge, NEW p \in Procs,
           status' = [status EXCEPT ![p] = "gone"],
           inbox' = [inbox EXCEPT ![p] = <<>>] \/ inbox' = inbox,
           UNCHANGED <<t, arp, udp>>
    PROVE  Knowledge'
PROOF
    <1>1. status \in [Procs -> Statuses] /\ DOMAIN inbox = Procs
        BY Zenon DEF Core, ProcessTypes, Statuses
    <1>2. /\ status'[p] = "gone" /\ (inbox'[p] = <<>> \/ inbox'[p] = inbox[p])
          /\ \A q \in Procs \ {p} : status'[q] = status[q] /\ inbox'[q] = inbox[q]
        BY <1>1
    <1>3. Same(p)
        BY <1>2 DEF Same
    <1>4. Range(inbox'[p]) \subseteq Range(inbox[p])
        <2>1. Range(<<>>) = {}
            BY RangeOf, Singles, Zenon
        <2> QED  BY <1>2, <2>1, Zenon
    <1> QED  BY <1>2, <1>3, <1>4, SameKnown

\* The process connects, or asks for an address.
LEMMA JoinKnown ==
    ASSUME Core, Knowledge, NEW p \in Procs, connectToTrawler(p) \/ openUdpSocket(p)
    PROVE  Knowledge'
PROOF
    <1>1. /\ status[p] \in {"off", "connected"}
          /\ \E s \in {"connected", "asked", "gone"} : status' = [status EXCEPT ![p] = s]
          /\ t' = t /\ arp' = arp /\ udp' = udp /\ inbox' = inbox
        BY DEF connectToTrawler, openUdpSocket, trawlerVars
    <1>2. status \in [Procs -> Statuses]
        BY Zenon DEF Core, ProcessTypes, Statuses
    <1>3. /\ status'[p] \in {"connected", "asked", "gone"}
          /\ \A q \in Procs \ {p} : status'[q] = status[q]
        BY <1>1, <1>2
    <1>4. Same(p)
        BY <1>1, <1>3, Zenon DEF Same
    <1>5. inbox[p] = <<>>
        BY <1>1 DEF Core, NotYetTold
    <1>6. Pending(status'[p], inbox'[p]) = Pending(status[p], inbox[p])
        BY <1>1, <1>5, Zenon DEF Pending
    <1>7. /\ status[p] # "gone" /\ Range(inbox'[p]) \subseteq Range(inbox[p])
          /\ status[p] \in {"off", "connected", "asked"}
        BY <1>1
    <1> QED  BY <1>4, <1>6, <1>7, SameKnown, Zenon

LEMMA TailRange ==
    ASSUME NEW q, Listed(q), q # <<>>
    PROVE  Range(Tail(q)) \subseteq Range(q) /\ Head(q) \in Range(q)
PROOF
    <1> DEFINE S == Range(q)
    <1>1. q \in Seq(S)
        BY DEF Listed
    <1> HIDE DEF S
    <1>2. Tail(q) \in Seq(S) /\ Head(q) \in S
        BY <1>1
    <1>3. Range(Tail(q)) \subseteq S
        BY <1>2 DEF Range
    <1> QED  BY <1>2, <1>3 DEF S

LEMMA HandshakeKnown ==
    ASSUME Core, Knowledge, NEW p \in Procs, handshake(p)
    PROVE  Knowledge'
PROOF
    <1>1. /\ status[p] = "asked" /\ t' = t /\ arp' = arp /\ udp' = udp
        BY DEF handshake, trawlerVars
    <1>2. CASE /\ status' = [status EXCEPT ![p] = "gone"]
               /\ inbox' = [inbox EXCEPT ![p] = <<>>] \/ inbox' = inbox
        BY <1>1, <1>2, EndKnown
    <1>3. CASE /\ inbox[p] # <<>> /\ status' = [status EXCEPT ![p] = "running"]
               /\ inbox' = [inbox EXCEPT ![p] = Tail(@)]
        <2>1. status \in [Procs -> Statuses] /\ DOMAIN inbox = Procs /\ Listed(inbox[p])
            BY Zenon DEF Core, ProcessTypes, Statuses
        <2>2. /\ status'[p] = "running" /\ inbox'[p] = Tail(inbox[p])
              /\ \A q \in Procs \ {p} : status'[q] = status[q] /\ inbox'[q] = inbox[q]
            BY <1>3, <2>1
        <2>3. Same(p)
            BY <1>1, <2>2, Zenon DEF Same
        <2>4. Pending(status[p], inbox[p]) = Tail(inbox[p])
            BY <1>1, <1>3, Zenon DEF Pending
        <2>5. Pending(status'[p], inbox'[p]) = Tail(inbox[p])
            BY <2>2 DEF Pending
        <2>6. Range(inbox'[p]) \subseteq Range(inbox[p])
            BY <1>3, <2>1, <2>2, TailRange, Zenon
        <2>7. status'[p] \notin {"off", "connected", "asked"} /\ status[p] # "gone"
            BY <1>1, <2>2
        <2> QED  BY <2>3, <2>4, <2>5, <2>6, <2>7, SameKnown, Zenon
    <1>4. \/ /\ status' = [status EXCEPT ![p] = "gone"]
             /\ inbox' = [inbox EXCEPT ![p] = <<>>] \/ inbox' = inbox
          \/ /\ inbox[p] # <<>> /\ status' = [status EXCEPT ![p] = "running"]
             /\ inbox' = [inbox EXCEPT ![p] = Tail(@)]
        BY Zenon DEF handshake
    <1> QED  BY <1>2, <1>3, <1>4

LEMMA RefreshARPKnown ==
    ASSUME Core, Knowledge, NEW p \in Procs, refreshARP(p)
    PROVE  Knowledge'
PROOF
    <1>1. CASE /\ status' = [status EXCEPT ![p] = "gone"]
               /\ inbox' = [inbox EXCEPT ![p] = <<>>] /\ arp' = arp
        <2>1. UNCHANGED <<t, arp, udp>>
            BY <1>1 DEF refreshARP, trawlerVars
        <2> QED  BY <1>1, <2>1, EndKnown
    <1>2. CASE /\ inbox[p] # <<>> /\ inbox' = [inbox EXCEPT ![p] = Tail(@)]
               /\ arp' = [arp EXCEPT ![p] = refresh(@, Head(inbox[p]))]
               /\ status' = status
        <2>1. status[p] = "running" /\ t' = t /\ udp' = udp /\ status' = status
            BY <1>2 DEF refreshARP, trawlerVars
        <2>2. DOMAIN inbox = Procs /\ Listed(inbox[p]) /\ DOMAIN arp = Procs
            BY Zenon DEF Core, ProcessTypes, Knowledge, Caches
        <2>3. /\ inbox'[p] = Tail(inbox[p]) /\ DOMAIN arp' = Procs
              /\ arp'[p] = refresh(arp[p], Head(inbox[p]))
              /\ \A q \in Procs \ {p} : inbox'[q] = inbox[q] /\ arp'[q] = arp[q]
            BY <1>2, <2>2, Zenon
        <2>4. /\ Pending(status[p], inbox[p]) = inbox[p]
              /\ Pending(status'[p], inbox'[p]) = Tail(inbox[p])
            BY <2>1, <2>3 DEF Pending
        <2>5. \A a, b : Settled(t, a, b, inbox[p], arp[p]) =>
                Settled(t, a, b, Tail(inbox[p]), refresh(arp[p], Head(inbox[p])))
            BY <1>2, <2>2, RefreshSettles, Zenon
        <2>6. /\ Range(inbox'[p]) \subseteq Range(inbox[p])
              /\ Head(inbox[p]) \in Range(inbox[p])
            BY <1>2, <2>2, <2>3, TailRange, Zenon
        <2>7. DOMAIN arp'[p] \subseteq Addresses
            <3> DEFINE line == Head(inbox[p])
            <3>1. InRange(line) /\ DOMAIN arp[p] \subseteq Addresses
                BY <2>6, Zenon DEF Knowledge, Lines, Caches
            <3> HIDE DEF line
            <3>2. ASSUME NEW b \in DOMAIN refresh(arp[p], line)  PROVE  b \in Addresses
                <4>1. Refreshed(refresh(arp[p], line), arp[p], line, b)
                    BY RefreshGives, Zenon
                <4>2. \/ b \in DOMAIN arp[p]
                      \/ \E r \in receiveAddNeighbor(line) : r.nodeId = b
                    BY <4>1, Zenon DEF Refreshed
                <4> QED  BY <3>1, <4>2, Zenon DEF InRange
            <3> QED  BY <2>3, <3>2, Zenon DEF line
        <2>8. status[p] # "gone" /\ status'[p] \notin {"off", "connected", "asked"}
            BY <2>1
        <2>9. \A d \in udp' : d.pkt.src \in Addresses
            BY <2>1, Zenon DEF Knowledge, Lines
        <2>10. \A a, b : Settled(t, a, b, Pending(status[p], inbox[p]), arp[p]) =>
                    Settled(t, a, b, Pending(status'[p], inbox'[p]), arp'[p])
            BY <2>3, <2>4, <2>5, Zenon
        <2>11. \A q \in Procs \ {p} :
                    status'[q] = status[q] /\ inbox'[q] = inbox[q] /\ arp'[q] = arp[q]
            BY <2>1, <2>3, Zenon
        <2> QED  BY <2>1, <2>3, <2>6, <2>7, <2>8, <2>9, <2>10, <2>11, ProcessKnown, Zenon
    <1>3. \/ /\ status' = [status EXCEPT ![p] = "gone"]
             /\ inbox' = [inbox EXCEPT ![p] = <<>>] /\ arp' = arp
          \/ /\ inbox[p] # <<>> /\ inbox' = [inbox EXCEPT ![p] = Tail(@)]
             /\ arp' = [arp EXCEPT ![p] = refresh(@, Head(inbox[p]))]
             /\ status' = status
        BY Zenon DEF refreshARP
    <1> QED  BY <1>1, <1>2, <1>3

LEMMA LearnSettles ==
    ASSUME NEW m, NEW a, NEW b, NEW q, NEW cache, NEW pkt, Settled(m, a, b, q, cache)
    PROVE  Settled(m, a, b, q, learn(cache, pkt))
PROOF
    BY LearnKeepsEntry, Zenon DEF Settled

LEMMA ProcessUdpPacketKnown ==
    ASSUME Core, Knowledge, NEW p \in Procs, NEW d \in udp, processUdpPacket(p, d)
    PROVE  Knowledge'
PROOF
    <1>1. /\ status[p] = "running" /\ t' = t /\ udp' = udp /\ status' = status
          /\ inbox' = inbox /\ arp' = [arp EXCEPT ![p] = learn(@, d.pkt)]
        BY DEF processUdpPacket, idle, trawlerVars
    <1>2. DOMAIN arp = Procs /\ DOMAIN arp[p] \subseteq Addresses /\ d.pkt.src \in Addresses
        BY Zenon DEF Knowledge, Caches, Lines
    <1>3. /\ DOMAIN arp' = Procs /\ arp'[p] = learn(arp[p], d.pkt)
          /\ \A q \in Procs \ {p} : arp'[q] = arp[q]
        BY <1>1, <1>2, Zenon
    <1>4. DOMAIN arp'[p] \subseteq Addresses
        <2> SUFFICES ASSUME NEW b \in DOMAIN learn(arp[p], d.pkt)  PROVE  b \in Addresses
            BY <1>3, Zenon
        <2>1. b \in DOMAIN arp[p] \/ b = d.pkt.src
            <3> DEFINE pkt == d.pkt
                       cache == arp[p]
            <3>1. b \in DOMAIN learn(cache, pkt)
                OBVIOUS
            <3> HIDE DEF pkt, cache
            <3>2. b \in DOMAIN cache \/ b = pkt.src
                BY <3>1, LearnGives
            <3> QED  BY <3>2 DEF pkt, cache
        <2> QED  BY <1>2, <2>1, Zenon
    <1>5. \A a, b : Settled(t, a, b, Pending(status[p], inbox[p]), arp[p]) =>
                Settled(t, a, b, Pending(status'[p], inbox'[p]), arp'[p])
        BY <1>1, <1>3, LearnSettles, Zenon
    <1>6. status[p] # "gone" /\ status'[p] \notin {"off", "connected", "asked"}
        BY <1>1
    <1>7. \A e \in udp' : e.pkt.src \in Addresses
        BY <1>1, Zenon DEF Knowledge, Lines
    <1>8. /\ Range(inbox'[p]) \subseteq Range(inbox[p])
          /\ \A q \in Procs \ {p} :
                status'[q] = status[q] /\ inbox'[q] = inbox[q] /\ arp'[q] = arp[q]
        BY <1>1, <1>3, Zenon
    <1> QED  BY <1>1, <1>3, <1>4, <1>5, <1>6, <1>7, <1>8, ProcessKnown, Zenon

\* ping, and the answer to one.
LEMMA SendPktKnown ==
    ASSUME Core, Knowledge, NEW p \in Procs, NEW dest, NEW protocol,
           status[p] = "running", sendPkt(p, dest, protocol),
           UNCHANGED <<t, status, inbox, arp>>
    PROVE  Knowledge'
PROOF
    <1>1. addr[p] \in Addresses
        BY RunningIsHeld, Zenon DEF Core, TrawlerShape, Shape, Addresses
    <1> DEFINE pkt == packet(p, dest, protocol)
    <1>2. pkt.src = addr[p]
        BY DEF packet
    <1>3. udp' = udp \cup datagrams(arp[p], BROADCAST_ADDRESS, pkt)
        BY Zenon DEF sendPkt
    <1> HIDE DEF pkt
    <1>4. \A d \in datagrams(arp[p], BROADCAST_ADDRESS, pkt) : d.pkt = pkt
        BY DEF datagrams
    <1>5. \A d \in udp' : d.pkt.src \in Addresses
        BY <1>1, <1>2, <1>3, <1>4, Zenon DEF Knowledge, Lines
    <1>6. t' = t /\ status' = status /\ inbox' = inbox /\ arp' = arp
        BY Zenon
    <1>7. DOMAIN arp = Procs /\ DOMAIN arp[p] \subseteq Addresses
        BY Zenon DEF Knowledge, Caches
    <1>8. status[p] # "gone" /\ status[p] \notin {"off", "connected", "asked"}
        OBVIOUS
    <1> QED  BY <1>5, <1>6, <1>7, <1>8, ProcessKnown, Zenon

-----------------------------------------------------------------------------
(* The theorems. *)

Control ==
    /\ port \in PortChoices
    /\ pc \in {"topo", "accept", "quits", "reading", "exited"}
    /\ client = {} \/ \E p \in Procs : client = {p}

Whole == Inv /\ Control /\ Knowledge

LEMMA InitControl ==
    ASSUME Init
    PROVE  Control
PROOF
    BY DEF Init, Control

LEMMA InitKnowledge ==
    ASSUME Init
    PROVE  Knowledge
PROOF
    <1> DEFINE none == [p \in Procs |-> <<>>]
    <1>1. /\ t = NewTrawler(topo = <<>>) /\ udp = {} /\ inbox = none /\ arp = none
        BY Zenon DEF Init
    <1>2. DOMAIN none = Procs /\ \A p \in Procs : none[p] = <<>>
        BY Zenon
    <1> HIDE DEF none
    <1>3. /\ "allToAll" \in DOMAIN t /\ t.nodes = <<>> /\ t.edges = <<>> /\ t.out = none
        BY <1>1 DEF NewTrawler, none
    <1>4. DOMAIN <<>> = {} /\ Range(<<>>) = {}
        BY DEF Range
    <1>5. Nodes(t) = {} /\ DOMAIN t.edges = {}
        BY <1>3, <1>4, Zenon DEF Nodes
    <1>6. \A p \in Procs : \A line \in Range(none[p]) : InRange(line)
        BY <1>2, <1>4, Zenon
    <1>7. Fit(t)
        BY <1>3, <1>5, <1>6, Zenon DEF Fit
    <1>8. Caches
        BY <1>1, <1>2, <1>4, Zenon DEF Caches
    <1>9. Lines
        BY <1>1, <1>6, Zenon DEF Lines
    <1>10. Informed
        BY <1>5, Zenon DEF Informed
    <1> QED  BY <1>7, <1>8, <1>9, <1>10, Zenon DEF Knowledge

LEMMA NextControl ==
    ASSUME Core, Control, Next
    PROVE  Control'
PROOF
    <1> DEFINE Pcs == {"topo", "accept", "quits", "reading", "exited"}
    <1>1. ASSUME port' = port, pc' \in Pcs, client' = client \/ client' = {}
          PROVE  Control'
        BY <1>1, Zenon DEF Control
    <1>2. afterTopo \in Pcs /\ pc \in Pcs
        BY DEF afterTopo, Control
    <1>3. \A r : Killed(r) => pc' \in Pcs /\ client' = client
        BY DEF Killed
    <1>4. CASE parseRemainder
        <2>1. port' = port
            BY <1>4, Zenon DEF parseRemainder
        <2>2. PICK r : Killed(r) \/ (pc' \in {"exited", afterTopo, pc} /\ client' = client)
            BY <1>4 DEF parseRemainder
        <2> QED  BY <1>1, <1>2, <1>3, <2>1, <2>2
    <1>5. CASE topoParsed \/ quitsChecked \/ clientClosed \/ refuse
        <2>1. /\ port' = port /\ (client' = client \/ client' = {})
              /\ pc' \in {afterTopo, "reading", "topo", "accept"}
            BY <1>5 DEF topoParsed, quitsChecked, clientClosed, refuse
        <2>2. pc' \in Pcs
            BY <1>2, <2>1
        <2> QED  BY <1>1, <2>1, <2>2, Zenon
    <1>6. CASE accept
        <2>1. port' = port /\ pc' \in Pcs /\ client' = {Head(queue)} /\ queue # <<>>
            BY <1>6 DEF accept
        <2>2. Head(queue) \in Procs
            BY <2>1 DEF Core, TrawlerShape
        <2> HIDE DEF Pcs
        <2>3. client' = {} \/ \E p \in Procs : client' = {p}
            BY <2>1, <2>2
        <2> USE DEF Pcs
        <2> QED  BY <2>1, <2>3, Zenon DEF Control
    <1>7. CASE checkNodesQuit
        <2>1. port' = port
            BY <1>7, Zenon DEF checkNodesQuit
        <2>2. PICK r : Killed(r) \/ (pc' = pc /\ client' = client)
            BY <1>7, Zenon DEF checkNodesQuit
        <2> QED  BY <1>1, <1>2, <1>3, <2>1, <2>2
    <1>8. CASE assign
        <2>1. port' = port
            BY <1>8, Zenon DEF assign
        <2>2. PICK r : Killed(r) \/ (pc' = "accept" /\ client' = {})
            BY <1>8, Zenon DEF assign
        <2> QED  BY <1>1, <1>3, <2>1, <2>2
    <1>9. ASSUME NEW p, connectToTrawler(p) \/ EmulatorStep(p) \/ answer(p) \/ quit(p)
          PROVE  Control'
        <2>1. port' = port /\ pc' = pc /\ client' = client
            BY <1>9, Zenon DEF connectToTrawler, EmulatorStep, openUdpSocket, handshake,
                refreshARP, answer, quit, trawlerVars
        <2> QED  BY <1>1, <1>2, <2>1, Zenon
    <1>10. ASSUME NEW c, ping(c)  PROVE  Control'
        BY <1>1, <1>2, <1>10, Zenon DEF ping, trawlerVars
    <1>11. ASSUME NEW p, NEW d, processUdpPacket(p, d)  PROVE  Control'
        BY <1>1, <1>2, <1>11, Zenon DEF processUdpPacket, trawlerVars
    <1> QED  BY <1>4, <1>5, <1>6, <1>7, <1>8, <1>9, <1>10, <1>11, Zenon DEF Next, TrawlerStep

LEMMA NextKnowledge ==
    ASSUME Inv, Control, Knowledge, Next
    PROVE  Knowledge'
PROOF
    <1>0. Core /\ visit \subseteq Nodes(t) /\ port \in PortChoices
        BY Zenon DEF Inv, Control
    <1>1. CASE parseRemainder
        BY <1>0, <1>1, ParseRemainderKnown, Zenon
    <1>2. CASE topoParsed \/ accept \/ quitsChecked \/ clientClosed
        <2>1. UNCHANGED <<t, status, inbox, arp, udp>>
            BY <1>2, Zenon DEF topoParsed, accept, quitsChecked, clientClosed, emulatorVars
        <2> QED  BY <2>1, SilentKnown, Zenon
    <1>3. CASE checkNodesQuit
        BY <1>0, <1>3, CheckNodesQuitKnown, Zenon
    <1>4. CASE refuse
        BY <1>0, <1>4, RefuseKnown, Zenon
    <1>5. CASE assign
        BY <1>0, <1>5, AssignKnown, Zenon
    <1>6. ASSUME NEW p \in Procs, connectToTrawler(p) \/ EmulatorStep(p)
          PROVE  Knowledge'
        BY <1>0, <1>6, JoinKnown, HandshakeKnown, RefreshARPKnown, Zenon DEF EmulatorStep
    <1>7. ASSUME NEW p \in Procs, quit(p)  PROVE  Knowledge'
        BY <1>0, <1>7, EndKnown DEF quit, trawlerVars
    <1>8. ASSUME NEW p \in Procs, answer(p)  PROVE  Knowledge'
        <2>1. PICK dest : sendPkt(p, dest, "PING_REPLY_PKT")
            BY <1>8, Zenon DEF answer
        <2>2. status[p] = "running" /\ UNCHANGED <<t, status, inbox, arp>>
            BY <1>8, Zenon DEF answer, trawlerVars
        <2> QED  BY <1>0, <2>1, <2>2, SendPktKnown, Zenon
    <1>9. ASSUME NEW c \in Pings, ping(c)  PROVE  Knowledge'
        <2>1. /\ sendPkt(c.proc, c.dest, "PING_PKT") /\ status[c.proc] = "running"
              /\ UNCHANGED <<t, status, inbox, arp>>
            BY <1>9, Zenon DEF ping, idle, trawlerVars
        <2>2. c.proc \in Procs
            BY EmulationConstants, Zenon
        <2> QED  BY <1>0, <2>1, <2>2, SendPktKnown, Zenon
    <1>10. ASSUME NEW p \in Procs, NEW d \in udp, processUdpPacket(p, d)  PROVE  Knowledge'
        BY <1>0, <1>10, ProcessUdpPacketKnown, Zenon
    <1> QED  BY <1>1, <1>2, <1>3, <1>4, <1>5, <1>6, <1>7, <1>8, <1>9, <1>10, Zenon
             DEF Next, TrawlerStep

LEMMA NextWhole ==
    ASSUME Whole, [Next]_vars
    PROVE  Whole'
PROOF
    <1>1. Inv /\ Control /\ Knowledge
        BY Zenon DEF Whole
    <1>2. Inv'
        BY <1>1, NextInv, Zenon
    <1>3. CASE UNCHANGED vars
        <2>1. /\ port' = port /\ pc' = pc /\ client' = client
              /\ UNCHANGED <<t, status, inbox, arp, udp>>
            BY <1>3 DEF vars, trawlerVars, emulatorVars
        <2>2. Control'
            BY <1>1, <2>1, Zenon DEF Control
        <2> QED  BY <1>1, <1>2, <2>1, <2>2, SilentKnown, Zenon DEF Whole
    <1>4. CASE Next
        BY <1>1, <1>2, <1>4, NextControl, NextKnowledge, Zenon DEF Whole, Inv
    <1> QED  BY <1>3, <1>4

LEMMA WholeTypeOK ==
    ASSUME Whole
    PROVE  TypeOK
PROOF
    <1>1. Core /\ Control /\ Knowledge
        BY Zenon DEF Whole, Inv
    <1>2. Cardinality(client) <= 1 /\ client \subseteq Procs
        <2>1. CASE client = {}
            BY <2>1, FS_EmptySet
        <2>2. ASSUME NEW p \in Procs, client = {p}  PROVE  Cardinality(client) <= 1
            <3>1. Cardinality({p}) = 1
                BY FS_Singleton, Zenon
            <3> QED  BY <2>2, <3>1
        <2>3. client \subseteq Procs
            BY <1>1, Zenon DEF Core, ProcessTypes
        <2> QED  BY <1>1, <2>1, <2>2, <2>3 DEF Control
    <1>3. Nodes(t) \subseteq 0 .. BROADCAST_ADDRESS - 1
        BY <1>1, Zenon DEF Core, TrawlerShape, Shape
    <1>4. ASSUME NEW p \in Procs
          PROVE  /\ status[p] \in {"off", "connected", "asked", "running", "gone"}
                 /\ p \in running => addr[p] \in 0 .. BROADCAST_ADDRESS - 1
                 /\ DOMAIN arp[p] \subseteq 0 .. BROADCAST_ADDRESS - 1
        <2>1. status[p] \in {"off", "connected", "asked", "running", "gone"}
            BY <1>1 DEF Core, ProcessTypes
        <2>2. p \in running => addr[p] \in 0 .. BROADCAST_ADDRESS - 1
            BY <1>1, <1>3, Zenon DEF Core, Held
        <2>3. DOMAIN arp[p] \subseteq 0 .. BROADCAST_ADDRESS - 1
            BY <1>1, Zenon DEF Knowledge, Caches, Addresses
        <2> QED  BY <2>1, <2>2, <2>3
    <1>5. ASSUME NEW p \in Procs, status[p] = "asked", inbox[p] # <<>>
          PROVE  inbox[p][1][1] \in DOMAIN Numbers
        <2>1. \/ inbox[p][1] = <<ToString(BROADCAST_ADDRESS)>>
              \/ \E a \in Nodes(t) : inbox[p][1] = <<ToString(a)>>
            BY <1>1, <1>5, Zenon DEF Core, FirstLine, First
        <2>2. PICK a \in 0 .. BROADCAST_ADDRESS : inbox[p][1] = <<ToString(a)>>
            BY <1>3, <2>1, TrawlerConstants
        <2>3. ToString(a) \in DOMAIN Numbers
            BY TrawlerConstants, Zenon
        <2> QED  BY <2>2, <2>3
    <1>6. pc \in {"topo", "accept", "quits", "reading", "exited"}
        BY <1>1, Zenon DEF Control
    <1> QED  BY <1>2, <1>3, <1>4, <1>5, <1>6, Zenon DEF TypeOK, Nodes

LEMMA WholeAgrees ==
    ASSUME Whole
    PROVE  ArpAgrees
PROOF
    <1>1. Core /\ Knowledge
        BY Zenon DEF Whole, Inv
    <1>2. ASSUME NEW p \in running, inbox[p] = <<>>, NEW b \in Addresses
          PROVE  EntryOK(t, addr[p], b, arp[p])
        <2> DEFINE a == addr[p]
        <2>1. p \in Procs /\ status[p] = "running" /\ p \notin gone
            BY DEF running, gone
        <2>2. a \in Nodes(t) /\ t.nodes[a].proc = p
            BY <1>1, <2>1, RunningIsHeld, Zenon
        <2> HIDE DEF a
        <2>3. Settled(t, a, b, Pending(status[p], inbox[p]), arp[p])
            BY <1>1, <2>1, <2>2, Zenon DEF Knowledge, Informed
        <2>4. Pending(status[p], inbox[p]) = <<>>
            BY <1>2, Zenon DEF Pending
        <2>5. DOMAIN <<>> = {}
            OBVIOUS
        <2>6. EntryOK(t, a, b, arp[p])
            BY <2>3, <2>4, <2>5, Zenon DEF Settled
        <2> QED  BY <2>6 DEF a
    <1>3. Nodes(t) \subseteq Addresses
        BY <1>1, Zenon DEF Core, TrawlerShape, Shape, Addresses
    <1>4. ASSUME NEW p \in running, inbox[p] = <<>>, NEW b \in Nodes(t) \ {addr[p]},
                 hasLiveEdge(t, addr[p], b), t.nodes[b].alive
          PROVE  b \in DOMAIN arp[p]
        <2>1. EntryOK(t, addr[p], b, arp[p])
            BY <1>2, <1>3, <1>4, Zenon
        <2> QED  BY <1>4, <2>1, Zenon DEF EntryOK, Needed
    <1>5. ASSUME NEW p \in running, inbox[p] = <<>>,
                 NEW b \in DOMAIN arp[p], arp[p][b].link # {}
          PROVE  Right(t, addr[p], b, arp[p][b].udpPort, arp[p][b].link)
        <2>1. p \in Procs
            BY DEF running
        <2>2. b \in Addresses
            BY <1>1, <1>5, <2>1, Zenon DEF Knowledge, Caches
        <2>3. EntryOK(t, addr[p], b, arp[p])
            BY <1>2, <1>5, <2>2, Zenon
        <2> QED  BY <1>5, <2>3, Zenon DEF EntryOK
    <1> QED  BY <1>4, <1>5, Zenon DEF ArpAgrees, Right, Nodes

\* Emulation: the trawler's thread and the processes are in states they can be in,
\* and only addresses are given, cached or read from a first line.
THEOREM EmulationTyped == Spec => []TypeOK
PROOF
    <1>1. Init => Whole
        BY InitInv, InitControl, InitKnowledge, Zenon DEF Whole
    <1>2. Whole /\ [Next]_vars => Whole'
        BY NextWhole
    <1>3. Whole => TypeOK
        BY WholeTypeOK
    <1> QED  BY <1>1, <1>2, <1>3, PTL DEF Spec

\* TrawlerCommandsParser, updateNeighbors, refreshARP, processUdpPacket: whatever the
\* topology file says and whoever joins, fails, quits or pings in the meantime, a
\* process that has read what the trawler wrote knows every live neighbour, and paces
\* only what goes to one, at its port and with the options of the edge.
THEOREM CachesAgree == Spec => []ArpAgrees
PROOF
    <1>1. Init => Whole
        BY InitInv, InitControl, InitKnowledge, Zenon DEF Whole
    <1>2. Whole /\ [Next]_vars => Whole'
        BY NextWhole
    <1>3. Whole => ArpAgrees
        BY WholeAgrees
    <1> QED  BY <1>1, <1>2, <1>3, PTL DEF Spec

=============================================================================
