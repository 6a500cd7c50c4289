------------------------------- MODULE Simulator -------------------------------
(***************************************************************************)
(* The Simulator: its event loop and event queue, the Topology of Edges on *)
(* which packets travel, the topology file, the command file and the       *)
(* console thread that drive it, and the nodes' pings.                     *)
(*                                                                         *)
(* `sim` holds what the main thread alone changes, as one record, so that  *)
(* the functions it calls are operators from a sim to a sim.  The console  *)
(* thread shares `lines` and `stopping` with it, under a mutex.            *)
(*                                                                         *)
(* The nodes' TCP is Transfer; here its tick only keeps the clock going.   *)
(***************************************************************************)
EXTENDS CommandsParser, OrderedEventQueue

CONSTANTS
    Nodes,             \* addresses 0 .. numNodes - 1
    BROADCAST_ADDRESS,
    PktSize,           \* bytes of a packet
    PING_TIMEOUT_MS,
    RETRANS_TICK_MS,
    TopoFiles, CommandFiles, Inputs,   \* files and console input to choose from
    MaxLate,           \* bound: how much too late waitForLine may return a line
    MaxTime            \* bound: where the simulated clock stops

ASSUME SimulatorConstants ==
    /\ Nodes \subseteq 0 .. BROADCAST_ADDRESS - 1 /\ BROADCAST_ADDRESS \in Nat
    /\ PktSize \in Nat \ {0} /\ MaxLate \in Nat /\ MaxTime \in Nat \ {0}
    /\ PING_TIMEOUT_MS \in Nat \ {0} /\ RETRANS_TICK_MS \in Nat \ {0}

Files == TopoFiles \cup CommandFiles \cup Inputs

\* The code takes any number for a delay or a bandwidth; it divides by the latter.
ASSUME EdgeLines ==
    \A file \in Files :
        /\ file \in Seq(Range(file))
        /\ \A cmd \in Range(file) : edgeWellFormed(cmd) =>
            edgeOptions(cmd).delay \in Nat /\ edgeOptions(cmd).bw \in Nat \ {0}

VARIABLES
    sim,         \* the state of the main thread, see NewSim
    pc,          \* where the main thread is
    topo,        \* lines of the topology file still to parse
    script,      \* lines of the command file still to parse
    deferTill,   \* deferParsingTill of the loop: -1 when the file is done
    input,       \* lines the user will still type
    lines,       \* lines_ of the ConsoleIoThread
    stopping     \* stopping_ of the ConsoleIoThread: end of input

vars == <<sim, pc, topo, script, deferTill, input, lines, stopping>>

\* starting are the nodes that the loop of start has yet to start, sending what the
\* loop of sendPkt has yet to give to the edges.  The last seven fields are history:
\* how many copies of packets the edges were given and how many arrived; each node's
\* unexpected replies, its pings that timed out and the copies of those it
\* broadcast; the last packet that arrived at the end of each link, and the edges
\* whose options have been changed.
NewSim ==
    [now |-> 0, events |-> <<>>, starting |-> Nodes, sending |-> {},
     edges |-> <<>>, failedNodes |-> {}, allToAll |-> FALSE,
     pings |-> [n \in Nodes |-> {}],
     pktsSent |-> 0, pktsDropped |-> 0, pktsLost |-> 0,
     given |-> 0, arrived |-> 0, broadcast |-> [n \in Nodes |-> 0],
     unexpected |-> [n \in Nodes |-> 0], timedOut |-> [n \in Nodes |-> 0],
     last |-> [link \in Nodes \X (0 .. BROADCAST_ADDRESS) |-> 0], changed |-> {}]

-----------------------------------------------------------------------------
(* The timers of RuntimeManager. *)

nowMs(s) == s.now \div MicrosPerMs

addTimer(s, n, kind, deltaMs) ==
    addEventAtMicros(s, (nowMs(s) + deltaMs) * MicrosPerMs,
                     [type |-> kind, node |-> n])

-----------------------------------------------------------------------------
(* Edge. *)

transmitTime(options) == (PktSize * 1000 * MicrosPerMs) \div options.bw

finishTime(s, from, edge) ==
    Max({s.now, edge.nextSendTime[from]}) + transmitTime(edge.options)

overflows_OnePacket(s, from, edge) ==
    transmitTime(edge.options) > edge.options.bt * MicrosPerMs

\* The buffer of an edge holds what can be sent in bt milliseconds.
overflows(s, from, edge) ==
    finishTime(s, from, edge) - s.now > edge.options.bt * MicrosPerMs

\* The delivery that the caller of Edge::schedulePkt schedules.
arrival(s, copy) ==
    LET edge == s.edges[{copy.from, copy.to}]
    IN  addEventAtMicros(
            s, edge.nextSendTime[copy.from] + edge.options.delay * MicrosPerMs,
            [type |-> "pkt", from |-> copy.from, to |-> copy.to, pkt |-> copy.pkt])

\* Whether the edge's random number can lose the packet.
losses(edge) ==
    CASE edge.options.lossRate = "0.0" -> {FALSE}
      [] edge.options.lossRate = "1.0" -> {TRUE}
      [] OTHER -> BOOLEAN

schedulePkt_LostArrives(s, copy, lost) ==
    LET ends == {copy.from, copy.to}
        finish == finishTime(s, copy.from, s.edges[ends])
        s2 == [s EXCEPT !.edges[ends].nextSendTime[copy.from] = finish]
    IN  IF overflows(s, copy.from, s.edges[ends]) THEN [s EXCEPT !.pktsDropped = @ + 1]
        ELSE arrival([s2 EXCEPT !.pktsLost = IF lost THEN @ + 1 ELSE @], copy)

\* Edge::schedulePkt, and the delivery.
schedulePkt(s, copy, lost) ==
    LET ends == {copy.from, copy.to}
        finish == finishTime(s, copy.from, s.edges[ends])
        s2 == [s EXCEPT !.edges[ends].nextSendTime[copy.from] = finish]
    IN  CASE overflows(s, copy.from, s.edges[ends]) -> [s EXCEPT !.pktsDropped = @ + 1]
          [] ~overflows(s, copy.from, s.edges[ends]) /\ lost ->
                [s2 EXCEPT !.pktsLost = @ + 1]
          [] OTHER -> arrival(s2, copy)

\* Simulator::sendPkt: pktsSent_ numbers the packet, and a copy goes to every live
\* edge of a broadcast, or to the one edge, in the steps of sendCopy.
sendPkt(s, from, to, protocol, msg) ==
    LET pkt == [no |-> s.pktsSent + 1, protocol |-> protocol,
                src |-> from, dest |-> to, msg |-> msg]
        ends == {n \in IF to = BROADCAST_ADDRESS THEN Nodes ELSE {to} :
                    hasLiveEdge(s, from, n)}
    IN  [s EXCEPT !.pktsSent = @ + 1,
                  !.sending = {[from |-> from, to |-> n, pkt |-> pkt] : n \in ends}]

-----------------------------------------------------------------------------
(* The pings of StackNode. *)

\* Pings are kept in the order of their numbers.  The code adds one when sendPkt has
\* returned; nothing looks at the pings before.
matchPingCommand(s, n, args) ==
    LET dest == Numbers[args[1]]
        ping == [no |-> s.pktsSent + 1, dest |-> dest, msg |-> Tail(args),
                 timeSentMs |-> nowMs(s)]
    IN  IF dest \notin 0 .. BROADCAST_ADDRESS THEN s
        ELSE [sendPkt(s, n, dest, "PING_PKT", ping.msg)
              EXCEPT !.pings[n] = @ \cup {ping}]

receivePing(s, n, pkt) == sendPkt(s, n, pkt.src, "PING_REPLY_PKT", pkt.msg)

answered(s, n, pkt) == {p \in s.pings[n] : p.dest = pkt.src /\ p.msg = pkt.msg}

receivePingReply_All(s, n, pkt) ==
    IF answered(s, n, pkt) = {} THEN [s EXCEPT !.unexpected[n] = @ + 1]
    ELSE [s EXCEPT !.pings[n] = @ \ answered(s, n, pkt)]

\* The first ping that it answers.
receivePingReply(s, n, pkt) ==
    IF answered(s, n, pkt) = {} THEN [s EXCEPT !.unexpected[n] = @ + 1]
    ELSE LET first == CHOOSE p \in answered(s, n, pkt) :
                        \A q \in answered(s, n, pkt) : p.no <= q.no
         IN  [s EXCEPT !.pings[n] = @ \ {first}]

expired_OnlyLate(s, p) == p.timeSentMs + 2 * PING_TIMEOUT_MS < nowMs(s)

expired(s, p) == p.timeSentMs + PING_TIMEOUT_MS < nowMs(s)

pingTimedOut(s, n) ==
    LET old == {p \in s.pings[n] : expired(s, p)}
    IN  addTimer([s EXCEPT !.pings[n] = @ \ old,
                           !.timedOut[n] = @ + Cardinality(old)],
                 n, "pingTimedOut", PING_TIMEOUT_MS)

\* With no connection in its table the tick of TcpManager only starts again.
retransmissionTick(s, n) == addTimer(s, n, "retransmissionTick", RETRANS_TICK_MS)

\* StackNode::start.
startNode(s, n) ==
    retransmissionTick(addTimer(s, n, "pingTimedOut", PING_TIMEOUT_MS), n)

\* Simulator::sendNodeMsg: a node that does not exist gets no command.
sendNodeMsg(s, n, args) ==
    IF n \in Nodes /\ onCommand(args) = "ping" THEN matchPingCommand(s, n, args) ELSE s

\* Simulator::deliverPkt: whatever has failed since the packet was sent.
deliverPkt(s, what) ==
    LET s2 == [s EXCEPT !.arrived = @ + 1, !.last[<<what.from, what.to>>] = what.pkt.no]
    IN  CASE what.to \notin Nodes -> s2
          [] what.to \in Nodes /\ what.pkt.protocol = "PING_PKT" ->
                receivePing(s2, what.to, what.pkt)
          [] what.to \in Nodes /\ what.pkt.protocol = "PING_REPLY_PKT" ->
                receivePingReply(s2, what.to, what.pkt)

-----------------------------------------------------------------------------
(* A line does what parseLine says. *)

execute(s, line) ==
    CASE line.op = "edge" ->
            newEdge([s EXCEPT !.changed = @ \cup ({{line.a, line.b}} \cap DOMAIN s.edges)],
                    line.a, line.b, line.options)
      [] line.op = "changeEdge" -> changeEdge(s, {line.a, line.b}, line.live)
      [] line.op = "changeNode" -> changeNode(s, line.a, line.live)
      [] line.op = "node" -> sendNodeMsg(s, line.node, line.args)
      [] OTHER -> s

-----------------------------------------------------------------------------
(* The main thread. *)

Init ==
    /\ sim = NewSim
    /\ pc = "topo"
    /\ topo \in TopoFiles
    /\ script \in CommandFiles
    /\ deferTill = 0
    /\ input \in Inputs
    /\ lines = <<>>
    /\ stopping = FALSE

\* The topology file is read by the constructor and, after a deferral, by the
\* event that ends it.
afterTopo == IF sim.now = 0 THEN "start" ELSE "run"

parseRemainder ==
    /\ pc = "topo" /\ topo # <<>>
    /\ LET line == parseLine(Head(topo), sim.now)
       IN  IF line.op = "defer"
           THEN /\ sim' = addEventAtMicros(sim, line.till, [type |-> "topo"])
                /\ pc' = afterTopo
           ELSE /\ sim' = execute(sim, line)
                /\ pc' = IF line.op = "exit" THEN "exited" ELSE pc
    /\ topo' = Tail(topo)
    /\ UNCHANGED <<script, deferTill, input, lines, stopping>>

topoParsed ==
    /\ pc = "topo" /\ topo = <<>>
    /\ pc' = afterTopo
    /\ UNCHANGED <<sim, topo, script, deferTill, input, lines, stopping>>

\* Simulator::start: the nodes in their order, then the loop.
start ==
    /\ pc = "start"
    /\ IF sim.starting # {}
       THEN LET n == Min(sim.starting)
            IN  /\ sim' = startNode([sim EXCEPT !.starting = @ \ {n}], n)
                /\ pc' = pc
       ELSE sim' = [sim EXCEPT !.now = 1] /\ pc' = "read"
    /\ UNCHANGED <<topo, script, deferTill, input, lines, stopping>>

\* The clock that the file's deferrals are compared with has milliseconds.
mayRead == deferTill >= 0 /\ deferTill <= nowMs(sim) * MicrosPerMs

readCommandFile ==
    /\ pc = "read" /\ mayRead
    /\ IF script = <<>>
       THEN deferTill' = -1 /\ pc' = "wait" /\ UNCHANGED <<sim, script>>
       ELSE LET line == parseLine(Head(script), nowMs(sim) * MicrosPerMs)
            IN  /\ sim' = execute(sim, line)
                /\ deferTill' = IF line.op = "defer" THEN Max({line.till, 0}) ELSE 0
                /\ pc' = IF line.op = "exit" THEN "exited" ELSE "wait"
                /\ script' = Tail(script)
    /\ UNCHANGED <<topo, input, lines, stopping>>

nothingToRead ==
    /\ pc = "read" /\ ~mayRead
    /\ pc' = "wait"
    /\ UNCHANGED <<sim, topo, script, deferTill, input, lines, stopping>>

\* How far the loop means to advance the clock.
deltaTime ==
    CASE sim.events # <<>> -> sim.events[1].time - sim.now
      [] sim.events = <<>> /\ deferTill >= 0 -> deferTill - sim.now
      [] OTHER -> 0

\* waitForLine returns a line after some of that time, or a little later.
userInput ==
    /\ pc = "wait" /\ lines # <<>>
    /\ \E elapsed \in 0 .. Max({deltaTime, 0}) + MaxLate :
        LET s == [sim EXCEPT !.now = @ + elapsed]
            line == parseLine(Head(lines), s.now)
        IN  /\ s.now <= MaxTime
            /\ sim' = execute(s, line)
            /\ pc' = IF line.op = "exit" THEN "exited" ELSE "read"
    /\ lines' = Tail(lines)
    /\ UNCHANGED <<topo, script, deferTill, input, stopping>>

\* waitForLine returns nothing: the time is up, or there is no more input.
advance ==
    /\ pc = "wait" /\ lines = <<>>
    /\ sim.events # <<>> \/ deferTill >= 0 \/ stopping
    /\ sim' = [sim EXCEPT !.now = Max({@, @ + deltaTime})]
    /\ sim'.now <= MaxTime
    /\ pc' = "run"
    /\ UNCHANGED <<topo, script, deferTill, input, lines, stopping>>

isDue == sim.events # <<>> /\ sim.events[1].time <= sim.now

runEvent ==
    /\ pc = "run" /\ isDue
    /\ LET what == sim.events[1].what
           s == [sim EXCEPT !.events = Tail(@)]
       IN  \/ /\ what.type = "pkt"
              /\ sim' = deliverPkt(s, what)
              /\ pc' = pc
           \/ /\ what.type = "pingTimedOut"
              /\ sim' = pingTimedOut(s, what.node)
              /\ pc' = pc
           \/ /\ what.type = "retransmissionTick"
              /\ sim' = retransmissionTick(s, what.node)
              /\ pc' = pc
           \/ /\ what.type = "topo"
              /\ sim' = s
              /\ pc' = "topo"
    /\ UNCHANGED <<topo, script, deferTill, input, lines, stopping>>

eventsDone ==
    /\ pc = "run" /\ ~isDue
    /\ pc' = "read"
    /\ UNCHANGED <<sim, topo, script, deferTill, input, lines, stopping>>

-----------------------------------------------------------------------------
(* The console thread: ConsoleIoThread::run. *)

\* The constructor starts the thread, exit() ends it.
ioThread == pc # "exited" /\ ~(pc = "topo" /\ sim.now = 0)

pushLine ==
    /\ ioThread /\ input # <<>>
    /\ lines' = Append(lines, Head(input))
    /\ input' = Tail(input)
    /\ UNCHANGED <<sim, pc, topo, script, deferTill, stopping>>

endOfInput ==
    /\ ioThread /\ input = <<>> /\ ~stopping
    /\ stopping' = TRUE
    /\ UNCHANGED <<sim, pc, topo, script, deferTill, input, lines>>

\* One round of the loop of sendPkt: the next copy, in the order of the nodes.
sendCopy ==
    /\ \E copy \in sim.sending :
        /\ \A other \in sim.sending : copy.to <= other.to
        /\ LET s == [sim EXCEPT !.sending = @ \ {copy}, !.given = @ + 1,
                                !.broadcast[copy.from] =
                                    IF copy.pkt.dest = BROADCAST_ADDRESS THEN @ + 1 ELSE @]
           IN  \E lost \in losses(sim.edges[{copy.from, copy.to}]) :
                    sim' = schedulePkt(s, copy, lost)
    /\ UNCHANGED <<pc, topo, script, deferTill, input, lines, stopping>>

\* Whatever sends goes on when sendPkt has returned.
Main ==
    \/ sendCopy
    \/ /\ sim.sending = {}
       /\ \/ parseRemainder \/ topoParsed \/ start
          \/ readCommandFile \/ nothingToRead
          \/ userInput \/ advance
          \/ runEvent \/ eventsDone

Next == Main \/ pushLine \/ endOfInput

Spec == Init /\ [][Next]_vars

\* The program has ended, or its clock would pass the bound of the model.
Halted ==
    \/ pc = "exited"
    \/ pc = "wait" /\ sim.sending = {} /\ sim.now + deltaTime > MaxTime

\* The loop goes on; nobody has to type.  This is WF_vars(Main) written out: only
\* Main changes sim or pc, and it can be taken unless the program has halted.
FairSpec == Spec /\ ([]<>Halted \/ []<><<TRUE>>_<<sim, pc>>)

-----------------------------------------------------------------------------
(* Properties. *)

\* The packets on their way.
inFlight == {i \in DOMAIN sim.events : sim.events[i].what.type = "pkt"}

\* Types, and the queue that the loop relies on to be sorted.
TypeOK ==
    /\ pc \in {"topo", "start", "read", "wait", "run", "exited"}
    /\ sim.now \in 0 .. MaxTime /\ deferTill \in Nat \cup {-1}
    /\ \A i \in 2 .. Len(sim.events) : sim.events[i - 1].time <= sim.events[i].time

\* Edge::schedulePkt with OrderedEventQueue: an edge delivers in the order of
\* sending, whatever it loses and drops, as long as its options stay; the models
\* of TCP over the simulator assume it.
LinkInOrder ==
    \A i \in inFlight :
        LET w == sim.events[i].what
        IN  {w.from, w.to} \notin sim.changed =>
            /\ sim.last[<<w.from, w.to>>] < w.pkt.no
            /\ \A j \in inFlight :
                LET v == sim.events[j].what
                IN  i < j /\ v.from = w.from /\ v.to = w.to => w.pkt.no < v.pkt.no

\* Edge::schedulePkt: no packet waits for longer than the buffer's time bt, so
\* that none is ever further away than bt and the delay.
BoundedQueueing ==
    \A i \in inFlight :
        LET w == sim.events[i].what
            options == sim.edges[{w.from, w.to}].options
        IN  {w.from, w.to} \notin sim.changed =>
                sim.events[i].time - sim.now <= (options.bt + options.delay) * MicrosPerMs

\* The statistics that RuntimeManager::stop prints: of the copies given to the
\* edges, each has arrived, is on its way, or is counted as dropped or lost.
Conservation ==
    sim.given = sim.arrived + Cardinality(inFlight) + sim.pktsDropped + sim.pktsLost

\* StackNode::pingTimedOut: whenever no event is due, no ping has been waiting for
\* more than two periods of the timer.
PingAge ==
    ~isDue =>
        \A n \in Nodes : \A p \in sim.pings[n] :
            nowMs(sim) <= p.timeSentMs + 2 * PING_TIMEOUT_MS

\* receivePingReply: a reply is unexpected only when its ping has timed out or was
\* broadcast; every other ping and reply on its way has an entry waiting for it,
\* or had one.
RepliesAccounted ==
    \A n \in Nodes :
        LET mine == {i \in inFlight :
                        LET w == sim.events[i].what
                        IN  IF w.pkt.protocol = "PING_PKT" THEN w.from = n ELSE w.to = n}
        IN  Cardinality(mine) + sim.unexpected[n]
                <= Cardinality(sim.pings[n]) + sim.timedOut[n] + sim.broadcast[n]

\* readCommandFile, parseRestOfTopoFile: both files are read to their ends, past
\* every deferral, unless one says exit.
FilesRead == <>(pc = "exited" \/ (topo = <<>> /\ script = <<>>))

=============================================================================
