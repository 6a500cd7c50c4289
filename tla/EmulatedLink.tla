----------------------------- MODULE EmulatedLink -----------------------------
(***************************************************************************)
(* The sending side of one Emulator towards one neighbour: a segment is    *)
(* packed, paced by the EmulatedLink of the neighbour's ARP entry, rounded *)
(* to milliseconds, kept in the event queue and sent as a datagram by the  *)
(* loop, to be unpacked at the other end.  Times are microseconds.         *)
(*                                                                         *)
(* clockMicros() is the wall clock in whole milliseconds: it may be set    *)
(* back as well as go on, between any two calls.  What UDP does to the     *)
(* datagrams is in Emulation and, for TCP, in TcpStream.                   *)
(***************************************************************************)
EXTENDS WireFormats, OrderedEventQueue

CONSTANTS
    From, To,      \* the addresses of the two nodes
    Segments,      \* what the node may send: Transports
    EdgeOptions,   \* options the trawler may give: [mayLose, delay, bw, bt]
    MaxSent,       \* bound: how many segments are sent
    MaxLinks,      \* bound: how many links the trawler's commands make
    MaxTime        \* bound: the last millisecond of the clock

ASSUME LinkConstants ==
    /\ validAddress(From) /\ validAddress(To)
    /\ \A t \in Segments : t \in Transport /\ validTransport(t)
    /\ \A o \in EdgeOptions :
        o.mayLose \in BOOLEAN /\ o.delay \in Nat /\ o.bw \in Nat \ {0} /\ o.bt \in Nat
    /\ {MaxSent, MaxLinks, MaxTime} \subseteq Nat

VARIABLES
    now,       \* clockMicros()
    loop,      \* where the loop is, and its nowMicros: [at, nowMicros]
    link,      \* the link of the ARP entry: [no, options, nextSendTime, work]
    queue,     \* [events]: sortedEvents_
    log,       \* history: what was sent, and what became of it
    departed,  \* history: the numbers in log of the datagrams sent, in order
    got        \* history: what the other end made of them

vars == <<now, loop, link, queue, log, departed, got>>

Ms == 1000

\* Two fields are history: no numbers the links, and work is the time that all
\* the link has accepted takes at its bandwidth.
NewLink(no, options) == [no |-> no, options |-> options, nextSendTime |-> 0, work |-> 0]

Init ==
    /\ now = 0
    /\ loop = [at |-> "input", nowMicros |-> 0]
    /\ \E o \in EdgeOptions : link = NewLink(1, o)
    /\ queue = [events |-> <<>>]
    /\ log = <<>> /\ departed = <<>> /\ got = <<>>

-----------------------------------------------------------------------------
(* EmulatedLink::schedulePkt. *)

transmitTime(l, size) == (size * 1000000) \div l.options.bw

finishTime_NotQueued(l, size) == now + transmitTime(l, size)

finishTime(l, size) == Max({now, l.nextSendTime}) + transmitTime(l, size)

\* The buffer holds what can be sent in bt milliseconds.
overflows(l, size) == finishTime(l, size) - now > l.options.bt * Ms

-----------------------------------------------------------------------------
(* Emulator::sendPkt, schedulePkt, physicalSend. *)

packetOf(t) ==
    [dest |-> To, src |-> From, ttl |-> MAX_TTL, protocol |-> TRANSPORT_PKT, seq |-> 0,
     payload |-> packTransport(t)]

\* To a whole millisecond.
roundUp(t) == IF t % Ms = 0 THEN t ELSE t + Ms - (t % Ms)

timeToDeliver(l, size) == roundUp(finishTime(l, size) + l.options.delay * Ms)

entry(t, size, fate) ==
    [seg |-> t, size |-> size, link |-> link.no, options |-> link.options, at |-> now,
     due |-> timeToDeliver(link, size), work |-> link.work + transmitTime(link, size),
     fate |-> fate]

\* A command, a timer or a packet makes the node send t.
sendPkt(t) ==
    LET pkt == packPacket(packetOf(t))
        datagram == packEmulator([dest |-> To, src |-> From, payload |-> pkt])
        size == Len(datagram) - EMULATOR_HEADER
        finished == [link EXCEPT !.nextSendTime = finishTime(link, size),
                                 !.work = @ + transmitTime(link, size)]
    IN  /\ Len(log) < MaxSent
        /\ validToSend(From, To, pkt)
        /\ \/ /\ overflows(link, size)
              /\ log' = Append(log, entry(t, size, "dropped"))
              /\ UNCHANGED <<link, queue>>
           \/ /\ ~overflows(link, size) /\ link.options.mayLose
              /\ log' = Append(log, entry(t, size, "lost"))
              /\ link' = finished
              /\ UNCHANGED queue
           \/ /\ ~overflows(link, size)
              /\ log' = Append(log, entry(t, size, "scheduled"))
              /\ link' = finished
              /\ queue' = addEventAtMicros(queue, timeToDeliver(link, size),
                                           [no |-> Len(log) + 1, datagram |-> datagram])
        /\ UNCHANGED <<now, loop, departed, got>>

\* processUdpPacket, onReceive and receiveTransport at the other end.
received(d) ==
    LET packets == UNION {unpackPacket(e.payload) :
                            e \in {x \in unpackEmulator(d) : x.dest = To}}
    IN  UNION {{[src |-> p.src, seg |-> t] : t \in unpackTransport(p.payload)} :
                p \in packets}

isDue == queue.events # <<>> /\ queue.events[1].time <= loop.nowMicros

physicalSend ==
    /\ loop.at = "events" /\ isDue
    /\ LET what == queue.events[1].what
       IN  /\ departed' = Append(departed, what.no)
           /\ got' = Append(got, received(what.datagram))
    /\ queue' = [queue EXCEPT !.events = Tail(@)]
    /\ UNCHANGED <<now, loop, link, log>>

-----------------------------------------------------------------------------
(* The loop, the trawler's commands and the clock. *)

beginTurn ==
    /\ loop.at = "input"
    /\ loop' = [at |-> "events", nowMicros |-> now]
    /\ UNCHANGED <<now, link, queue, log, departed, got>>

eventsDone ==
    /\ loop.at = "events" /\ ~isDue
    /\ loop' = [loop EXCEPT !.at = "input"]
    /\ UNCHANGED <<now, link, queue, log, departed, got>>

\* refreshARP: an add command replaces the entry and, with it, the link.
addNeighbor(o) ==
    /\ link.no < MaxLinks
    /\ link' = NewLink(link.no + 1, o)
    /\ UNCHANGED <<now, loop, queue, log, departed, got>>

wallClock(ms) ==
    /\ now' = ms * Ms
    /\ UNCHANGED <<loop, link, queue, log, departed, got>>

Next ==
    \/ beginTurn \/ eventsDone \/ physicalSend
    \/ \E t \in Segments : sendPkt(t)
    \/ \E o \in EdgeOptions : addNeighbor(o)
    \/ \E ms \in 0 .. MaxTime : wallClock(ms)

Spec == Init /\ [][Next]_vars

-----------------------------------------------------------------------------
(* Properties. *)

\* Types: a datagram has bytes only and fits; the queue is sorted.
TypeOK ==
    /\ now \in Nat /\ loop.nowMicros \in Nat /\ loop.at \in {"input", "events"}
    /\ \A i \in DOMAIN queue.events :
        /\ queue.events[i].what.no \in DOMAIN log
        /\ LET d == queue.events[i].what.datagram
           IN  Len(d) <= 131 /\ \A j \in DOMAIN d : d[j] \in Bytes
        /\ i > 1 => queue.events[i - 1].time <= queue.events[i].time

\* pack() and unpack() of the three layers: what the other end hands to its
\* TcpManager is what was sent, for every size of segment that TcpSocket makes and
\* every number.
Intact ==
    \A k \in DOMAIN got : got[k] = {[src |-> From, seg |-> log[departed[k]].seg]}

\* schedulePkt with its rounding, and OrderedEventQueue: one link sends in the
\* order in which it was given, whatever the clock does.
DepartsInOrder ==
    \A i, j \in DOMAIN departed :
        i < j /\ log[departed[i]].link = log[departed[j]].link =>
            departed[i] < departed[j]

\* EmulatedLink::schedulePkt: between two datagrams of a link there is the time
\* that all it accepted since takes at its bandwidth, less the rounding; and none
\* waits for longer than the buffer holds and the delay.
Paced ==
    \A j \in DOMAIN log :
        LET b == log[j]
        IN  b.fate = "scheduled" =>
            /\ b.due - b.at <= (b.options.bt + b.options.delay) * Ms
            /\ \A i \in 1 .. j - 1 :
                log[i].fate = "scheduled" /\ log[i].link = b.link =>
                    b.due - log[i].due > b.work - log[i].work - Ms

=============================================================================
