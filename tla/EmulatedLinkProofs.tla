-------------------------- MODULE EmulatedLinkProofs --------------------------
(***************************************************************************)
(* The sending side of an emulator keeps its order, its bytes and its pace *)
(* for every set of segments and of edge options, for any number of        *)
(* segments and links, and whatever the clock does.                        *)
(*                                                                         *)
(* The argument: what a link has in the queue is no later than the time    *)
(* the link would give to its next packet, and the queue puts an event     *)
(* behind all that are not later.                                          *)
(***************************************************************************)
EXTENDS EmulatedLink, OrderedEventQueueProofs, WireFormatsProofs

-----------------------------------------------------------------------------
(* The inductive invariant. *)

\* What Emulator::sendPkt makes of a segment.
datagramOf(t) ==
    packEmulator([dest |-> To, src |-> From, payload |-> packPacket(packetOf(t))])

sizeOf(t) == Len(datagramOf(t)) - EMULATOR_HEADER

Event == [time : Nat, what : [no : Nat, datagram : Seq(Bytes)]]

Entry ==
    [seg : Segments, size : Nat, link : Nat, options : EdgeOptions, at : Nat,
     due : Nat, work : Nat, fate : {"dropped", "lost", "scheduled"}]

Types ==
    /\ now \in Nat /\ now % Ms = 0
    /\ loop \in [at : {"input", "events"}, nowMicros : Nat]
    /\ link \in [no : Nat, options : EdgeOptions, nextSendTime : Nat, work : Nat]
    /\ queue \in [events : Seq(Event)]
    /\ log \in Seq(Entry)
    /\ departed \in Seq(Nat)
    /\ got \in Seq({{[src |-> From, seg |-> t]} : t \in Segments})

\* The number of the datagram at a place of the queue, and the link of a number.
queued(i) == queue.events[i].what.no

linkOf(k) == log[k].link

\* When the next packet of the link is due, if it takes no time.
horizon == roundUp(link.nextSendTime + link.options.delay * Ms)

\* Every event is of a segment that was sent, and of the present link none is later
\* than the next one will be.
Pending ==
    \A i \in 1 .. Len(queue.events) :
        /\ queued(i) \in 1 .. Len(log)
        /\ queue.events[i].what.datagram = datagramOf(log[queued(i)].seg)
        /\ linkOf(queued(i)) = link.no => queue.events[i].time <= horizon

QueuedInOrder ==
    \A i, j \in 1 .. Len(queue.events) :
        i < j /\ linkOf(queued(i)) = linkOf(queued(j)) => queued(i) < queued(j)

\* What has left was sent before what has not.
LeftFirst ==
    /\ Len(got) = Len(departed)
    /\ \A k \in 1 .. Len(departed) :
        /\ departed[k] \in 1 .. Len(log)
        /\ \A i \in 1 .. Len(queue.events) :
            linkOf(departed[k]) = linkOf(queued(i)) => departed[k] < queued(i)

\* The links are numbered as they are made; since each datagram the present one has
\* been busy for as long as what it accepted takes.
Busy ==
    \A k \in 1 .. Len(log) :
        /\ linkOf(k) <= link.no
        /\ linkOf(k) = link.no /\ log[k].fate = "scheduled" =>
            link.nextSendTime + link.options.delay * Ms - log[k].due
                > link.work - log[k].work - Ms

LinkInv ==
    /\ Types
    /\ Sorted(queue.events)
    /\ Pending
    /\ QueuedInOrder
    /\ LeftFirst
    /\ Busy
    /\ DepartsInOrder
    /\ Intact
    /\ Paced

-----------------------------------------------------------------------------
(* The operators: pack() and unpack(), the rounding, EmulatedLink. *)

\* A segment's datagram has bytes only, fits, is not refused by RuntimeManager's
\* check, and is read at the other end as what it was made of.
LEMMA DatagramOK ==
    ASSUME NEW t \in Segments
    PROVE  /\ datagramOf(t) \in Seq(Bytes)
           /\ Len(datagramOf(t)) <= 131
           /\ sizeOf(t) \in Nat
           /\ validToSend(From, To, packPacket(packetOf(t)))
           /\ received(datagramOf(t)) = {[src |-> From, seg |-> t]}
PROOF
    <1> DEFINE pt == packTransport(t)
               p == packetOf(t)
               q == packPacket(p)
               e == [dest |-> To, src |-> From, payload |-> q]
               d == packEmulator(e)
    <1>1. t \in Transport /\ validTransport(t)
        BY LinkConstants
    <1>2. /\ pt \in Seq(Bytes) /\ Len(pt) = TRANSPORT_HEADER + Len(t.payload)
          /\ unpackTransport(pt) = {t}
        BY <1>1, TransportRoundTrip, Zenon
    <1>3. Len(t.payload) \in Nat /\ Len(t.payload) <= 107
        BY <1>1 DEF Transport, validTransport, MAX_TRANSPORT_PAYLOAD, MAX_PACKET_SIZE,
                    PACKET_HEADER, TRANSPORT_HEADER
    <1>4. Len(pt) \in Nat /\ Len(pt) <= 119
        BY <1>2, <1>3 DEF TRANSPORT_HEADER
    <1> HIDE DEF pt
    <1>5. p = [dest |-> To, src |-> From, ttl |-> MAX_TTL, protocol |-> TRANSPORT_PKT,
               seq |-> 0, payload |-> pt]
        BY DEF packetOf, pt
    <1>6. p.dest = To /\ p.src = From /\ p.ttl = 15 /\ p.protocol = 4 /\ p.payload = pt
        BY <1>5 DEF MAX_TTL, TRANSPORT_PKT
    <1>7. p \in Packet /\ validPacket(p)
        <2>1. To \in Int32 /\ From \in Int32 /\ 15 \in Int32 /\ 4 \in Int32 /\ 0 \in Int32
            BY LinkConstants, SMT DEF validAddress, Int32
        <2>2. p \in Packet
            <3> HIDE DEF p
            <3> QED  BY <2>1, <1>2, <1>5 DEF Packet, MAX_TTL, TRANSPORT_PKT
        <2>3. Len(p.payload) + PACKET_HEADER <= MAX_PACKET_SIZE
            BY <1>4, <1>6 DEF PACKET_HEADER, MAX_PACKET_SIZE
        <2>4. validAddress(p.dest) /\ validAddress(p.src)
            BY <1>6, LinkConstants, Zenon
        <2>5. p.protocol \in 0 .. 4 /\ p.ttl \in 0 .. MAX_TTL
            BY <1>6 DEF MAX_TTL
        <2> QED  BY <2>2, <2>3, <2>4, <2>5, Zenon DEF validPacket
    <1> HIDE DEF p
    <1>8. /\ q \in Seq(Bytes) /\ Len(q) = PACKET_HEADER + Len(pt)
          /\ unpackPacket(q) = {p}
        BY <1>6, <1>7, PacketRoundTrip, Zenon
    <1>9. Len(q) \in Nat /\ Len(q) <= MAX_PACKET_SIZE
        BY <1>4, <1>8 DEF PACKET_HEADER, MAX_PACKET_SIZE
    <1>10. validToSend(From, To, q)
        <2>1. p.ttl > 0
            BY <1>6
        <2> QED  BY <2>1, <1>8, <1>9, LinkConstants, Zenon DEF validToSend
    <1> HIDE DEF q
    <1>11. /\ d \in Seq(Bytes) /\ Len(d) = EMULATOR_HEADER + Len(q)
           /\ unpackEmulator(d) = {e}
        <2>1. validAddress(To) /\ validAddress(From)
            BY LinkConstants
        <2> QED  BY <2>1, <1>8, <1>9, EmulatorRoundTrip
    <1> HIDE DEF d
    <1>12. Len(d) <= 131 /\ Len(d) - EMULATOR_HEADER \in Nat
        BY <1>9, <1>11 DEF EMULATOR_HEADER, MAX_PACKET_SIZE
    <1>13. received(d) = {[src |-> From, seg |-> t]}
        <2>1. e.dest = To /\ e.payload = q
            OBVIOUS
        <2> HIDE DEF e
        <2>2. {x \in unpackEmulator(d) : x.dest = To} = {e}
            BY <1>11, <2>1, Zenon
        <2>3. UNION {unpackPacket(x.payload) : x \in {e}} = {p}
            BY <1>8, <2>1
        <2>4. UNION {{[src |-> x.src, seg |-> y] : y \in unpackTransport(x.payload)} :
                        x \in {p}} = {[src |-> p.src, seg |-> t]}
            <3>1. {[src |-> p.src, seg |-> y] : y \in unpackTransport(p.payload)}
                    = {[src |-> p.src, seg |-> t]}
                BY <1>2, <1>6, Zenon
            <3> QED  BY <3>1, Zenon
        <2> QED  BY <1>6, <2>2, <2>3, <2>4, Zenon DEF received
    <1>14. d = datagramOf(t)
        BY DEF d, q, p, datagramOf
    <1> QED  BY <1>10, <1>11, <1>12, <1>13, <1>14, Zenon DEF sizeOf, q, p

\* Emulator::schedulePkt's rounding: to the first whole millisecond that is not
\* earlier, which keeps the order.
LEMMA RoundUpOK ==
    ASSUME NEW t \in Nat
    PROVE  /\ roundUp(t) \in Nat /\ t <= roundUp(t) /\ roundUp(t) < t + Ms
           /\ \A u \in Nat : t <= u => roundUp(t) <= roundUp(u)
           /\ \A u \in Nat : t <= u /\ u % Ms = 0 => roundUp(t) <= u
PROOF
    BY SMT DEF roundUp, Ms

LEMMA MaxOfTwo ==
    ASSUME NEW a \in Nat, NEW b \in Nat
    PROVE  Max({a, b}) \in Nat /\ a <= Max({a, b}) /\ b <= Max({a, b})
PROOF
    <1>1. \E x \in {a, b} : \A y \in {a, b} : x >= y
        OBVIOUS
    <1>2. Max({a, b}) \in {a, b} /\ \A y \in {a, b} : Max({a, b}) >= y
        BY <1>1, Zenon DEF Max
    <1> QED  BY <1>2

\* What the options of a link are.
LEMMA OptionsOK ==
    ASSUME NEW o \in EdgeOptions
    PROVE  o.delay \in Nat /\ o.bw \in Nat \ {0} /\ o.bt \in Nat
PROOF
    BY LinkConstants

\* EmulatedLink::schedulePkt: the next packet never finishes before the last, and
\* there is the time between them that it takes.
LEMMA FinishTimeOK ==
    ASSUME Types, NEW t \in Segments
    PROVE  LET size == sizeOf(t)
               tx == transmitTime(link, size)
               f == finishTime(link, size)
           IN  /\ tx \in Nat /\ f \in Nat
               /\ now <= f /\ link.nextSendTime + tx <= f
               /\ timeToDeliver(link, size) \in Nat
               /\ horizon <= timeToDeliver(link, size)
PROOF
    <1> DEFINE size == sizeOf(t)
               tx == transmitTime(link, size)
               f == finishTime(link, size)
               m == Max({now, link.nextSendTime})
               delay == link.options.delay * Ms
    <1>1. /\ now \in Nat /\ link.nextSendTime \in Nat /\ link.options \in EdgeOptions
        BY DEF Types
    <1>2. link.options.delay \in Nat /\ link.options.bw \in Nat \ {0}
        BY <1>1, OptionsOK
    <1>3. size \in Nat
        BY DatagramOK
    <1>4. tx \in Nat
        <2>1. \A a \in Nat : \A b \in Nat \ {0} : a \div b \in Nat
            OBVIOUS
        <2>2. size * 1000000 \in Nat
            BY <1>3, SMT
        <2> QED  BY <2>1, <2>2, <1>2, SMT DEF transmitTime
    <1>5. m \in Nat /\ now <= m /\ link.nextSendTime <= m
        BY <1>1, MaxOfTwo
    <1>6. f = m + tx
        BY DEF finishTime
    <1>7. delay \in Nat
        BY <1>2 DEF Ms
    <1> HIDE DEF tx, f, m, delay, size
    <1>8. f \in Nat /\ now <= f /\ link.nextSendTime + tx <= f
        BY <1>1, <1>4, <1>5, <1>6
    <1>9. roundUp(f + delay) \in Nat /\ horizon <= roundUp(f + delay)
        <2>1. /\ link.nextSendTime + delay \in Nat /\ f + delay \in Nat
              /\ link.nextSendTime + delay <= f + delay
            BY <1>1, <1>4, <1>7, <1>8
        <2> QED  BY <2>1, RoundUpOK DEF horizon, delay
    <1>10. timeToDeliver(link, size) = roundUp(f + delay)
        BY DEF timeToDeliver, f, delay
    <1> QED  BY <1>4, <1>8, <1>9, <1>10 DEF tx, f, size

-----------------------------------------------------------------------------
(* The steps. *)

\* What is in the log and in the queue.
LEMMA Fields ==
    ASSUME Types
    PROVE  /\ Len(log) \in Nat /\ DOMAIN log = 1 .. Len(log)
           /\ \A k \in 1 .. Len(log) :
                /\ log[k].seg \in Segments /\ log[k].link \in Nat
                /\ log[k].due \in Nat /\ log[k].work \in Nat /\ log[k].at \in Nat
           /\ Len(queue.events) \in Nat /\ queue.events \in Seq(Event)
           /\ \A i \in 1 .. Len(queue.events) :
                queue.events[i].time \in Nat /\ queued(i) \in Nat
           /\ Len(departed) \in Nat /\ DOMAIN departed = 1 .. Len(departed)
           /\ Len(got) \in Nat /\ DOMAIN got = 1 .. Len(got)
PROOF
    <1>1. log \in Seq(Entry) /\ queue.events \in Seq(Event)
        BY DEF Types
    <1>2. Len(log) \in Nat /\ DOMAIN log = 1 .. Len(log) /\ Len(queue.events) \in Nat
        BY <1>1
    <1>3. \A k \in 1 .. Len(log) : log[k] \in Entry
        BY <1>1
    <1>4. \A i \in 1 .. Len(queue.events) : queue.events[i] \in Event
        BY <1>1
    <1>5. \A i \in 1 .. Len(queue.events) :
            queue.events[i].time \in Nat /\ queued(i) \in Nat
        BY <1>4 DEF Event, queued
    <1>6. /\ Len(departed) \in Nat /\ DOMAIN departed = 1 .. Len(departed)
          /\ Len(got) \in Nat /\ DOMAIN got = 1 .. Len(got)
        BY DEF Types
    <1>7. \A x \in Entry : /\ x.seg \in Segments /\ x.link \in Nat /\ x.due \in Nat
                           /\ x.work \in Nat /\ x.at \in Nat
        BY DEF Entry
    <1> QED  BY <1>1, <1>2, <1>3, <1>5, <1>6, <1>7

LEMMA InitOK == Init => LinkInv
PROOF
    <1> SUFFICES ASSUME Init  PROVE  LinkInv
        OBVIOUS
    <1>1. /\ queue.events = <<>> /\ log = <<>> /\ departed = <<>> /\ got = <<>>
          /\ Len(queue.events) = 0 /\ Len(log) = 0 /\ Len(departed) = 0 /\ Len(got) = 0
        BY DEF Init
    <1>2. Types
        <2>1. now \in Nat /\ now % Ms = 0
            BY DEF Init, Ms
        <2>2. loop \in [at : {"input", "events"}, nowMicros : Nat]
            BY DEF Init
        <2>3. link \in [no : Nat, options : EdgeOptions, nextSendTime : Nat, work : Nat]
            BY DEF Init, NewLink
        <2>4. queue \in [events : Seq(Event)]
            BY DEF Init
        <2>5. log \in Seq(Entry) /\ departed \in Seq(Nat)
            BY <1>1
        <2>6. got \in Seq({{[src |-> From, seg |-> t]} : t \in Segments})
            BY <1>1
        <2> QED  BY <2>1, <2>2, <2>3, <2>4, <2>5, <2>6 DEF Types
    <1>3. Sorted(queue.events) /\ Pending /\ QueuedInOrder
        BY <1>1 DEF Sorted, Pending, QueuedInOrder
    <1>4. LeftFirst /\ Busy
        BY <1>1 DEF LeftFirst, Busy
    <1>5. DepartsInOrder /\ Intact /\ Paced
        BY <1>1 DEF DepartsInOrder, Intact, Paced
    <1> QED  BY <1>2, <1>3, <1>4, <1>5 DEF LinkInv

\* The loop and the clock: nothing of the link, the queue or the history changes.
LEMMA IdleOK ==
    ASSUME LinkInv, UNCHANGED <<link, queue, log, departed, got>>,
           now' \in Nat, now' % Ms = 0,
           loop' \in [at : {"input", "events"}, nowMicros : Nat]
    PROVE  LinkInv'
PROOF
    <1>1. Types'
        BY DEF LinkInv, Types
    <1>2. Sorted(queue.events)' /\ Pending' /\ QueuedInOrder'
        BY DEF LinkInv, Sorted, Pending, QueuedInOrder, queued, linkOf, horizon
    <1>3. LeftFirst' /\ Busy'
        BY DEF LinkInv, LeftFirst, Busy, queued, linkOf
    <1>4. DepartsInOrder' /\ Intact' /\ Paced'
        BY DEF LinkInv, DepartsInOrder, Intact, Paced
    <1> QED  BY <1>1, <1>2, <1>3, <1>4 DEF LinkInv

\* refreshARP: the new link has nothing in the queue yet.
LEMMA AddNeighborOK ==
    ASSUME LinkInv, NEW o \in EdgeOptions, addNeighbor(o)
    PROVE  LinkInv'
PROOF
    <1>1. /\ UNCHANGED <<now, loop, queue, log, departed, got>>
          /\ link' = [no |-> link.no + 1, options |-> o, nextSendTime |-> 0, work |-> 0]
        BY DEF addNeighbor, NewLink
    <1>2. Types /\ link.no \in Nat
        BY DEF LinkInv, Types
    <1>3. link'.no = link.no + 1
        BY <1>1
    <1>4. Types'
        <2>1. link' \in [no : Nat, options : EdgeOptions, nextSendTime : Nat, work : Nat]
            BY <1>1, <1>2
        <2> QED  BY <2>1, <1>1, <1>2 DEF Types
    <1>5. \A k \in 1 .. Len(log) : linkOf(k) \in Nat /\ linkOf(k) <= link.no
        BY <1>2, Fields DEF LinkInv, Busy, linkOf
    <1>6. \A k \in 1 .. Len(log) : linkOf(k)' = linkOf(k) /\ linkOf(k)' # link'.no
        BY <1>1, <1>2, <1>3, <1>5 DEF linkOf
    <1>7. Sorted(queue.events)' /\ QueuedInOrder'
        BY <1>1 DEF LinkInv, Sorted, QueuedInOrder, queued, linkOf
    <1>8. Pending'
        <2> SUFFICES ASSUME NEW i \in 1 .. Len(queue.events)
                     PROVE  /\ queued(i)' \in 1 .. Len(log)
                            /\ queue.events[i].what.datagram
                                    = datagramOf(log[queued(i)'].seg)
                            /\ linkOf(queued(i))' # link'.no
            BY <1>1 DEF Pending
        <2>1. queued(i)' = queued(i) /\ queued(i) \in 1 .. Len(log)
            BY <1>1 DEF LinkInv, Pending, queued
        <2>2. queue.events[i].what.datagram = datagramOf(log[queued(i)].seg)
            BY DEF LinkInv, Pending
        <2>3. linkOf(queued(i))' = log[queued(i)].link
            BY <1>1, <2>1 DEF linkOf
        <2>4. log[queued(i)].link # link'.no
            BY <1>6, <2>1, <1>1 DEF linkOf
        <2> QED  BY <2>1, <2>2, <2>3, <2>4
    <1>9. LeftFirst'
        BY <1>1 DEF LinkInv, LeftFirst, queued, linkOf
    <1>10. Busy'
        <2> SUFFICES ASSUME NEW k \in 1 .. Len(log)
                     PROVE  linkOf(k)' <= link'.no /\ linkOf(k)' # link'.no
            BY <1>1 DEF Busy
        <2> QED  BY <1>2, <1>3, <1>5, <1>6
    <1>11. DepartsInOrder' /\ Intact' /\ Paced'
        BY <1>1 DEF LinkInv, DepartsInOrder, Intact, Paced
    <1> QED  BY <1>4, <1>7, <1>8, <1>9, <1>10, <1>11 DEF LinkInv

\* The loop sends the first event: all that is left of its link was sent after it.
LEMMA PhysicalSendOK ==
    ASSUME LinkInv, physicalSend
    PROVE  LinkInv'
PROOF
    <1> DEFINE q == queue.events
               what == q[1].what
               out == [src |-> From, seg |-> log[what.no].seg]
    <1>1. /\ UNCHANGED <<now, loop, link, log>>
          /\ q # <<>>
          /\ departed' = Append(departed, what.no)
          /\ got' = Append(got, received(what.datagram))
          /\ queue' = [queue EXCEPT !.events = Tail(q)]
        BY DEF physicalSend, isDue
    <1>2. Types /\ Sorted(q) /\ Pending /\ QueuedInOrder /\ LeftFirst
        BY DEF LinkInv
    <1>3. /\ q \in Seq(Event) /\ Len(q) \in Nat
          /\ Len(log) \in Nat /\ Len(departed) \in Nat /\ Len(got) \in Nat
        BY <1>2, Fields
    <1>4. Len(q) >= 1
        BY <1>1, <1>3, EmptySeq
    <1>5. queue'.events = Tail(q)
        BY <1>1, <1>2 DEF Types
    <1>6. /\ Tail(q) \in Seq(Event) /\ Len(Tail(q)) = Len(q) - 1
          /\ \A i \in 1 .. Len(q) - 1 : Tail(q)[i] = q[i + 1]
          /\ Sorted(Tail(q))
        <2> HIDE DEF q
        <2> QED  BY <1>1, <1>2, <1>3, TailSorted
    <1>7. /\ Len(queue'.events) = Len(q) - 1
          /\ \A i \in 1 .. Len(q) - 1 :
                i + 1 \in 1 .. Len(q) /\ queue'.events[i] = q[i + 1]
        BY <1>3, <1>5, <1>6
    <1>8. /\ what.no \in 1 .. Len(log) /\ what.no \in Nat
          /\ what.datagram = datagramOf(log[what.no].seg)
        BY <1>2, <1>3, <1>4 DEF Pending, queued
    <1>9. log[what.no].seg \in Segments
        BY <1>2, <1>8, Fields
    <1>10. received(what.datagram) = {out}
        BY <1>8, <1>9, DatagramOK
    <1> HIDE DEF what
    <1>11. /\ departed' \in Seq(Nat) /\ Len(departed') = Len(departed) + 1
           /\ departed'[Len(departed) + 1] = what.no
           /\ \A k \in 1 .. Len(departed) : departed'[k] = departed[k]
        BY <1>1, <1>2, <1>8 DEF Types
    <1>12. /\ got' \in Seq({{[src |-> From, seg |-> t]} : t \in Segments})
           /\ Len(got') = Len(got) + 1
           /\ got'[Len(got) + 1] = {out}
           /\ \A k \in 1 .. Len(got) : got'[k] = got[k]
        <2> DEFINE Outs == {{[src |-> From, seg |-> t]} : t \in Segments}
        <2>1. {out} \in Outs
            BY <1>9
        <2>2. got \in Seq(Outs)
            BY <1>2 DEF Types
        <2>3. got' = Append(got, {out})
            BY <1>1, <1>10
        <2> HIDE DEF Outs, out
        <2>4. /\ got' \in Seq(Outs) /\ Len(got') = Len(got) + 1
              /\ got'[Len(got) + 1] = {out}
              /\ \A k \in 1 .. Len(got) : got'[k] = got[k]
            BY <2>1, <2>2, <2>3, AppendProperties
        <2> QED  BY <2>4 DEF Outs
    <1>13. Types'
        <2>1. queue' \in [events : Seq(Event)]
            BY <1>1, <1>2, <1>6 DEF Types
        <2> QED  BY <2>1, <1>1, <1>2, <1>11, <1>12 DEF Types
    <1>14. Sorted(queue.events)'
        BY <1>5, <1>6
    <1>15. \A k : linkOf(k)' = linkOf(k)
        BY <1>1 DEF linkOf
    <1>16. horizon' = horizon
        BY <1>1 DEF horizon
    <1>17. \A i \in 1 .. Len(q) - 1 : queued(i)' = queued(i + 1)
        BY <1>7 DEF queued
    <1>18. Pending'
        <2> SUFFICES ASSUME NEW i \in 1 .. Len(q) - 1
                     PROVE  /\ queued(i)' \in 1 .. Len(log)
                            /\ queue'.events[i].what.datagram
                                    = datagramOf(log[queued(i)'].seg)
                            /\ linkOf(queued(i)') = link.no
                                    => queue'.events[i].time <= horizon
            BY <1>1, <1>7, <1>15, <1>16 DEF Pending, linkOf
        <2> QED  BY <1>2, <1>7, <1>17 DEF Pending
    <1>19. QueuedInOrder'
        <2> SUFFICES ASSUME NEW i \in 1 .. Len(q) - 1, NEW j \in 1 .. Len(q) - 1, i < j,
                            linkOf(queued(i)') = linkOf(queued(j)')
                     PROVE  queued(i)' < queued(j)'
            BY <1>1, <1>7 DEF QueuedInOrder, linkOf
        <2> QED  BY <1>2, <1>3, <1>7, <1>17 DEF QueuedInOrder
    <1>20. \A i \in 1 .. Len(q) - 1 :
                linkOf(what.no) = linkOf(queued(i + 1)) => what.no < queued(i + 1)
        BY <1>2, <1>3, <1>4, <1>7 DEF QueuedInOrder, queued, what
    <1>21. LeftFirst'
        <2>1. Len(got') = Len(departed')
            BY <1>2, <1>3, <1>11, <1>12 DEF LeftFirst
        <2> SUFFICES ASSUME NEW k \in 1 .. Len(departed) + 1
                     PROVE  /\ departed'[k] \in 1 .. Len(log)
                            /\ \A i \in 1 .. Len(q) - 1 :
                                linkOf(departed'[k]) = linkOf(queued(i)')
                                    => departed'[k] < queued(i)'
            BY <2>1, <1>1, <1>7, <1>11 DEF LeftFirst, linkOf
        <2>2. CASE k = Len(departed) + 1
            BY <2>2, <1>8, <1>11, <1>17, <1>20
        <2>3. CASE k \in 1 .. Len(departed)
            BY <2>3, <1>2, <1>7, <1>11, <1>17 DEF LeftFirst
        <2> QED  BY <2>2, <2>3, <1>3
    <1>22. Busy'
        BY <1>1, <1>15 DEF LinkInv, Busy
    <1>23. DepartsInOrder'
        <2>1. DOMAIN departed = 1 .. Len(departed)
            BY <1>2, Fields
        <2>2. DOMAIN departed' = 1 .. Len(departed) + 1
            BY <1>11
        <2> SUFFICES ASSUME NEW i \in 1 .. Len(departed) + 1,
                            NEW j \in 1 .. Len(departed) + 1, i < j,
                            linkOf(departed'[i]) = linkOf(departed'[j])
                     PROVE  departed'[i] < departed'[j]
            BY <2>2, <1>1 DEF DepartsInOrder, linkOf
        <2>3. i \in 1 .. Len(departed) /\ departed'[i] = departed[i]
            BY <1>3, <1>11
        <2>4. CASE j = Len(departed) + 1
            <3>1. queued(1) = what.no /\ 1 \in 1 .. Len(q)
                BY <1>3, <1>4 DEF queued, what
            <3>2. departed'[j] = queued(1)
                BY <3>1, <2>4, <1>11
            <3> QED  BY <3>1, <3>2, <2>3, <1>2 DEF LeftFirst
        <2>5. CASE j \in 1 .. Len(departed)
            BY <2>1, <2>3, <2>5, <1>11 DEF LinkInv, DepartsInOrder, linkOf
        <2> QED  BY <2>4, <2>5, <1>3
    <1>24. Intact'
        <2>1. DOMAIN got = 1 .. Len(got) /\ DOMAIN got' = 1 .. Len(got) + 1
            BY <1>2, <1>12, Fields
        <2>2. Len(got) = Len(departed)
            BY <1>2 DEF LeftFirst
        <2> SUFFICES ASSUME NEW k \in 1 .. Len(got) + 1
                     PROVE  got'[k] = {[src |-> From, seg |-> log[departed'[k]].seg]}
            BY <2>1, <1>1 DEF Intact
        <2>3. CASE k = Len(got) + 1
            BY <2>2, <2>3, <1>11, <1>12
        <2>4. CASE k \in 1 .. Len(got)
            BY <2>1, <2>2, <2>4, <1>11, <1>12 DEF LinkInv, Intact
        <2> QED  BY <2>3, <2>4, <1>3
    <1>25. Paced'
        BY <1>1 DEF LinkInv, Paced
    <1> QED  BY <1>13, <1>14, <1>18, <1>19, <1>21, <1>22, <1>23, <1>24, <1>25 DEF LinkInv

\* What sendPkt does, in one of three ways.
Sent(t, fate) ==
    LET size == sizeOf(t)
        finished == [link EXCEPT !.nextSendTime = finishTime(link, size),
                                 !.work = @ + transmitTime(link, size)]
        event == [time |-> timeToDeliver(link, size),
                  what |-> [no |-> Len(log) + 1, datagram |-> datagramOf(t)]]
    IN  /\ log' = Append(log, entry(t, size, fate))
        /\ fate = "dropped" => link' = link
        /\ fate # "dropped" => link' = finished /\ ~overflows(link, size)
        /\ fate # "scheduled" => queue' = queue
        /\ fate = "scheduled" =>
            queue' = [queue EXCEPT !.events = addEvent(queue.events, event)]
        /\ UNCHANGED <<now, loop, departed, got>>

LEMMA SendPktCases ==
    ASSUME Types, NEW t \in Segments, sendPkt(t)
    PROVE  \E fate \in {"dropped", "lost", "scheduled"} : Sent(t, fate)
PROOF
    <1> DEFINE size == sizeOf(t)
               finished == [link EXCEPT !.nextSendTime = finishTime(link, size),
                                        !.work = @ + transmitTime(link, size)]
               time == timeToDeliver(link, size)
               what == [no |-> Len(log) + 1, datagram |-> datagramOf(t)]
               event == [time |-> time, what |-> what]
    <1>1. time \in Nat
        BY FinishTimeOK
    <1>2. addEventAtMicros(queue, time, what)
            = [queue EXCEPT !.events = addEvent(queue.events, event)]
        <2> HIDE DEF time, what
        <2>1. ~(time < 0)
            BY <1>1
        <2> QED  BY <2>1, Zenon DEF addEventAtMicros, event
    <1>3. /\ \/ /\ overflows(link, size)
                /\ log' = Append(log, entry(t, size, "dropped"))
                /\ UNCHANGED <<link, queue>>
             \/ /\ ~overflows(link, size) /\ link.options.mayLose
                /\ log' = Append(log, entry(t, size, "lost"))
                /\ link' = finished
                /\ UNCHANGED queue
             \/ /\ ~overflows(link, size)
                /\ log' = Append(log, entry(t, size, "scheduled"))
                /\ link' = finished
                /\ queue' = addEventAtMicros(queue, time, what)
          /\ UNCHANGED <<now, loop, departed, got>>
        BY Zenon DEF sendPkt, sizeOf, datagramOf
    <1> HIDE DEF size, finished, time, what, event
    <1>4. "dropped" # "lost" /\ "dropped" # "scheduled" /\ "lost" # "scheduled"
        OBVIOUS
    <1>5. CASE overflows(link, size) /\ log' = Append(log, entry(t, size, "dropped"))
                /\ UNCHANGED <<link, queue>>
        <2>1. Sent(t, "dropped")
            BY <1>3, <1>4, <1>5 DEF Sent, size
        <2> QED  BY <2>1
    <1>6. CASE ~overflows(link, size) /\ log' = Append(log, entry(t, size, "lost"))
                /\ link' = finished /\ UNCHANGED queue
        <2>1. Sent(t, "lost")
            BY <1>3, <1>4, <1>6 DEF Sent, size, finished
        <2> QED  BY <2>1
    <1>7. CASE ~overflows(link, size) /\ log' = Append(log, entry(t, size, "scheduled"))
                /\ link' = finished /\ queue' = addEventAtMicros(queue, time, what)
        <2>1. Sent(t, "scheduled")
            BY <1>2, <1>3, <1>4, <1>7 DEF Sent, size, finished, event, time, what
        <2> QED  BY <2>1
    <1> QED  BY <1>3, <1>5, <1>6, <1>7

\* The entry that a sending adds to the log, and what it does to the link.
LEMMA SentLog ==
    ASSUME Types, NEW t \in Segments, NEW fate \in {"dropped", "lost", "scheduled"},
           Sent(t, fate)
    PROVE  LET size == sizeOf(t)
               x == entry(t, size, fate)
               tx == transmitTime(link, size)
               new == Len(log) + 1
           IN  /\ x \in Entry /\ x.link = link.no /\ x.fate = fate /\ x.seg = t
               /\ x.due = timeToDeliver(link, size) /\ x.at = now
               /\ x.options = link.options /\ x.work = link.work + tx
               /\ log' \in Seq(Entry) /\ Len(log') = new /\ log'[new] = x
               /\ DOMAIN log' = 1 .. new
               /\ \A k \in 1 .. Len(log) : log'[k] = log[k]
               /\ link' \in [no : Nat, options : EdgeOptions, nextSendTime : Nat, work : Nat]
               /\ link'.no = link.no /\ link'.options = link.options
               /\ fate = "dropped" =>
                    link'.nextSendTime = link.nextSendTime /\ link'.work = link.work
               /\ fate # "dropped" =>
                    /\ link'.nextSendTime = finishTime(link, size)
                    /\ link'.work = link.work + tx
PROOF
    <1> DEFINE size == sizeOf(t)
               x == entry(t, size, fate)
               tx == transmitTime(link, size)
               f == finishTime(link, size)
               due == timeToDeliver(link, size)
               new == Len(log) + 1
    <1>1. tx \in Nat /\ f \in Nat /\ due \in Nat /\ size \in Nat
        BY FinishTimeOK, DatagramOK
    <1>2. /\ link \in [no : Nat, options : EdgeOptions, nextSendTime : Nat, work : Nat]
          /\ log \in Seq(Entry) /\ now \in Nat /\ Len(log) \in Nat
        BY DEF Types
    <1>3. /\ log' = Append(log, x)
          /\ fate = "dropped" => link' = link
          /\ fate # "dropped" =>
                link' = [link EXCEPT !.nextSendTime = f, !.work = link.work + tx]
        BY DEF Sent
    <1>4. x = [seg |-> t, size |-> size, link |-> link.no, options |-> link.options,
               at |-> now, due |-> due, work |-> link.work + tx, fate |-> fate]
        BY Zenon DEF entry
    <1> HIDE DEF size, x, tx, f, due
    <1>5. /\ x \in Entry /\ x.link = link.no /\ x.fate = fate /\ x.seg = t
          /\ x.due = due /\ x.at = now /\ x.options = link.options
          /\ x.work = link.work + tx
        BY <1>1, <1>2, <1>4 DEF Entry
    <1>6. /\ log' \in Seq(Entry) /\ Len(log') = new /\ log'[new] = x
          /\ DOMAIN log' = 1 .. new
          /\ \A k \in 1 .. Len(log) : log'[k] = log[k]
        BY <1>2, <1>3, <1>5, AppendProperties, LenProperties
    <1>7. /\ link' \in [no : Nat, options : EdgeOptions, nextSendTime : Nat, work : Nat]
          /\ link'.no = link.no /\ link'.options = link.options
        <2>1. CASE fate = "dropped"
            BY <2>1, <1>2, <1>3
        <2>2. CASE fate # "dropped"
            <3>1. link' = [link EXCEPT !.nextSendTime = f, !.work = link.work + tx]
                BY <2>2, <1>3
            <3>2. link.work + tx \in Nat
                BY <1>1, <1>2
            <3> QED  BY <3>1, <3>2, <1>1, <1>2
        <2> QED  BY <2>1, <2>2
    <1>8. fate = "dropped" =>
            link'.nextSendTime = link.nextSendTime /\ link'.work = link.work
        BY <1>3
    <1>9. fate # "dropped" =>
            link'.nextSendTime = f /\ link'.work = link.work + tx
        BY <1>2, <1>3
    <1> QED  BY <1>5, <1>6, <1>7, <1>8, <1>9, Zenon DEF size, x, tx, f, due

\* The pace: the new datagram is due at least as long after the others of its link
\* as it and those between them take.
LEMMA SentPaced ==
    ASSUME LinkInv, NEW t \in Segments, NEW fate \in {"dropped", "lost", "scheduled"},
           Sent(t, fate)
    PROVE  Busy' /\ Paced'
PROOF
    <1> DEFINE size == sizeOf(t)
               x == entry(t, size, fate)
               tx == transmitTime(link, size)
               f == finishTime(link, size)
               due == timeToDeliver(link, size)
               new == Len(log) + 1
               delay == link.options.delay * Ms
               next == link.nextSendTime
               next2 == link'.nextSendTime
    <1>1. Types /\ Busy /\ Paced
        BY DEF LinkInv
    <1>2. /\ tx \in Nat /\ f \in Nat /\ due \in Nat
          /\ now <= f /\ next + tx <= f
        BY <1>1, FinishTimeOK
    <1>3. /\ x.link = link.no /\ x.fate = fate /\ x.due = due /\ x.at = now
          /\ x.options = link.options /\ x.work = link.work + tx
          /\ Len(log') = new /\ log'[new] = x /\ DOMAIN log' = 1 .. new
          /\ \A k \in 1 .. Len(log) : log'[k] = log[k]
          /\ link'.no = link.no /\ link'.options = link.options
          /\ fate = "dropped" => next2 = next /\ link'.work = link.work
          /\ fate # "dropped" => next2 = f /\ link'.work = link.work + tx
        BY <1>1, SentLog
    <1>4. /\ link.no \in Nat /\ next \in Nat /\ link.work \in Nat /\ now \in Nat
          /\ link.options \in EdgeOptions /\ now % Ms = 0
        BY <1>1 DEF Types
    <1>5. link.options.delay \in Nat /\ link.options.bt \in Nat
        BY <1>4, OptionsOK
    <1>6. delay \in Nat
        BY <1>5 DEF Ms
    <1>7. f + delay <= due /\ due < f + delay + Ms
        <2>1. f + delay \in Nat
            BY <1>2, <1>6
        <2>2. due = roundUp(f + delay)
            BY DEF timeToDeliver
        <2> HIDE DEF f, delay, due
        <2> QED  BY <2>1, <2>2, RoundUpOK
    <1>8. fate = "scheduled" => due - now <= (link.options.bt + link.options.delay) * Ms
        <2> SUFFICES ASSUME fate = "scheduled"
                     PROVE  due - now <= (link.options.bt + link.options.delay) * Ms
            OBVIOUS
        <2> DEFINE bt == link.options.bt * Ms
                   u == now + bt + delay
        <2>1. f - now <= bt
            <3>1. ~overflows(link, size)
                BY DEF Sent
            <3>2. ~(f - now > bt)
                BY <3>1, Zenon DEF overflows
            <3>3. bt \in Nat
                BY <1>5 DEF Ms
            <3> HIDE DEF f, bt
            <3> QED  BY <3>2, <3>3, <1>2, <1>4
        <2>2. u \in Nat /\ u % Ms = 0
            <3> HIDE DEF f, tx
            <3> QED  BY <1>4, <1>5, SMT DEF Ms
        <2>3. bt \in Nat /\ bt + delay = (link.options.bt + link.options.delay) * Ms
            BY <1>5 DEF Ms
        <2>4. due = roundUp(f + delay)
            BY DEF timeToDeliver
        <2> HIDE DEF f, due, delay, bt
        <2>5. f + delay <= u /\ f + delay \in Nat
            BY <2>1, <2>3, <1>2, <1>4, <1>6
        <2>6. due <= u
            <3> HIDE DEF u
            <3> QED  BY <2>2, <2>4, <2>5, RoundUpOK
        <2> QED  BY <2>3, <2>6, <1>2, <1>4, <1>6
    <1>9. \A k \in 1 .. Len(log) :
            /\ log[k].link \in Nat /\ log[k].link <= link.no
            /\ log[k].due \in Nat /\ log[k].work \in Nat
            /\ log[k].link = link.no /\ log[k].fate = "scheduled" =>
                next + delay - log[k].due > link.work - log[k].work - Ms
        BY <1>1, Fields DEF Busy, linkOf
    <1>10. Len(log) \in Nat /\ DOMAIN log = 1 .. Len(log)
        BY <1>1, Fields
    <1>11. /\ next2 \in Nat /\ link'.work \in Nat /\ next <= next2
           /\ next2 - link'.work >= next - link.work
        <2> DEFINE w == link.work
                   w2 == link'.work
        <2>1. /\ fate = "dropped" => next2 = next /\ w2 = w
              /\ fate # "dropped" => next2 = f /\ w2 = w + tx
            BY <1>3
        <2>2. next \in Nat /\ w \in Nat
            BY <1>4
        <2> HIDE DEF f, tx, next, next2, w, w2
        <2>3. CASE fate = "dropped"
            <3>1. next2 = next /\ w2 = w
                BY <2>1, <2>3
            <3> QED  BY <3>1, <2>2 DEF w, w2
        <2>4. CASE fate # "dropped"
            <3>1. next2 = f /\ w2 = w + tx
                BY <2>1, <2>4
            <3>2. next2 \in Nat /\ w2 \in Nat /\ next <= next2 /\ next2 - w2 >= next - w
                BY <3>1, <2>2, <1>2
            <3> QED  BY <3>2 DEF w, w2
        <2> QED  BY <2>3, <2>4
    <1>12. Ms = 1000
        BY DEF Ms
    <1> HIDE DEF size, x, tx, f, due, delay, next, next2
    <1>13. Busy'
        <2> SUFFICES ASSUME NEW k \in 1 .. new
                     PROVE  /\ log'[k].link <= link'.no
                            /\ log'[k].link = link'.no /\ log'[k].fate = "scheduled" =>
                                next2 + delay - log'[k].due
                                    > link'.work - log'[k].work - Ms
            BY <1>3, Zenon DEF Busy, linkOf, next2, delay
        <2>1. CASE k \in 1 .. Len(log)
            <3>1. log'[k] = log[k]
                BY <2>1, <1>3
            <3> DEFINE y == log[k]
                       d == y.due
                       wk == y.work
                       w == link.work
                       w2 == link'.work
            <3>2. /\ y.link <= link'.no /\ d \in Nat /\ wk \in Nat
                  /\ y.link = link'.no /\ y.fate = "scheduled" =>
                        next + delay - d > w - wk - Ms
                BY <2>1, <1>3, <1>9
            <3>3. /\ next \in Nat /\ next2 \in Nat /\ w \in Nat /\ w2 \in Nat
                  /\ next2 - w2 >= next - w
                BY <1>4, <1>11 DEF next
            <3>4. next + delay - d > w - wk - Ms => next2 + delay - d > w2 - wk - Ms
                <4>1. d \in Nat /\ wk \in Nat
                    BY <3>2
                <4> HIDE DEF d, wk, w, w2
                <4> QED  BY <4>1, <3>3, <1>6, <1>12
            <3> QED  BY <3>1, <3>2, <3>4, Zenon
        <2>2. CASE k = new
            <3>1. log'[k] = x
                BY <2>2, <1>3
            <3>2. log'[k].link = link.no /\ link.no <= link'.no
                BY <3>1, <1>3, <1>4
            <3>3. ASSUME fate = "scheduled"
                  PROVE  next2 + delay - due > link'.work - x.work - Ms
                <4>1. next2 = f /\ link'.work = x.work
                    BY <3>3, <1>3
                <4> QED  BY <4>1, <1>2, <1>6, <1>7, <1>11, <1>12
            <3> QED  BY <3>1, <3>2, <3>3, <1>3, Zenon
        <2> QED  BY <2>1, <2>2, <1>10
    <1>14. Paced'
        <2> SUFFICES ASSUME NEW j \in 1 .. new, log'[j].fate = "scheduled"
                     PROVE  /\ log'[j].due - log'[j].at
                                <= (log'[j].options.bt + log'[j].options.delay) * Ms
                            /\ \A i \in 1 .. j - 1 :
                                log'[i].fate = "scheduled" /\ log'[i].link = log'[j].link =>
                                    log'[j].due - log'[i].due
                                        > log'[j].work - log'[i].work - Ms
            BY <1>3, Zenon DEF Paced
        <2>1. CASE j \in 1 .. Len(log)
            <3>1. log'[j] = log[j] /\ \A i \in 1 .. j - 1 : log'[i] = log[i]
                BY <2>1, <1>3, <1>10
            <3>2. j \in DOMAIN log /\ log[j].fate = "scheduled"
                BY <2>1, <3>1, <1>10
            <3> QED  BY <3>1, <3>2, <1>1, Zenon DEF Paced
        <2>2. CASE j = new
            <3>1. log'[j] = x
                BY <2>2, <1>3
            <3>2. fate = "scheduled" /\ log'[j].due = due /\ log'[j].work = link.work + tx
                BY <3>1, <1>3
            <3>3. log'[j].due - log'[j].at
                    <= (log'[j].options.bt + log'[j].options.delay) * Ms
                BY <3>1, <3>2, <1>3, <1>8, Zenon
            <3>4. ASSUME NEW i \in 1 .. j - 1, log'[i].fate = "scheduled",
                         log'[i].link = log'[j].link
                  PROVE  log'[j].due - log'[i].due > log'[j].work - log'[i].work - Ms
                <4>1. i \in 1 .. Len(log) /\ log'[i] = log[i]
                    BY <2>2, <1>3, <1>10
                <4>2. next + delay - log[i].due > link.work - log[i].work - Ms
                    BY <4>1, <3>1, <3>4, <1>3, <1>9
                <4>3. log[i].due \in Nat /\ log[i].work \in Nat
                    BY <4>1, <1>9
                <4> DEFINE d == log[i].due
                           wi == log[i].work
                           w == link.work
                <4>4. next \in Nat /\ w \in Nat
                    BY <1>4 DEF next
                <4>5. next + tx <= f
                    BY <1>2 DEF next
                <4>6. due - d > w + tx - wi - Ms
                    <5>1. d \in Nat /\ wi \in Nat /\ next + delay - d > w - wi - Ms
                        BY <4>2, <4>3
                    <5>2. tx \in Nat /\ f \in Nat /\ due \in Nat
                        BY <1>2
                    <5> HIDE DEF d, wi, w
                    <5> QED  BY <5>1, <5>2, <4>4, <4>5, <1>6, <1>7, <1>12
                <4>7. /\ log'[i].due = d /\ log'[i].work = wi
                      /\ log'[j].due = due /\ log'[j].work = w + tx
                    BY <4>1, <3>2
                <4>8. d \in Nat /\ wi \in Nat /\ tx \in Nat /\ due \in Nat
                    BY <4>3, <1>2
                <4> HIDE DEF d, wi, w
                <4> QED  BY <4>4, <4>6, <4>7, <4>8, <1>12
            <3> QED  BY <3>3, <3>4
        <2> QED  BY <2>1, <2>2, <1>10
    <1> QED  BY <1>13, <1>14

\* The order: the new event comes after all those of its link, since none of them is
\* later.
LEMMA SentInOrder ==
    ASSUME LinkInv, NEW t \in Segments, Sent(t, "scheduled")
    PROVE  /\ queue' \in [events : Seq(Event)]
           /\ Sorted(queue.events)' /\ Pending' /\ QueuedInOrder' /\ LeftFirst'
PROOF
    <1> DEFINE size == sizeOf(t)
               due == timeToDeliver(link, size)
               new == Len(log) + 1
               e == [time |-> due, what |-> [no |-> new, datagram |-> datagramOf(t)]]
               q == queue.events
               r == queue'.events
    <1>1. Types /\ Sorted(q) /\ Pending /\ QueuedInOrder /\ LeftFirst /\ Busy
        BY DEF LinkInv
    <1>2. /\ q \in Seq(Event) /\ Len(q) \in Nat /\ Len(log) \in Nat
          /\ \A i \in 1 .. Len(q) : q[i].time \in Nat /\ queued(i) \in Nat
          /\ \A k \in 1 .. Len(log) : log[k].link \in Nat
        BY <1>1, Fields
    <1>3. due \in Nat /\ horizon <= due
        BY <1>1, FinishTimeOK
    <1>4. datagramOf(t) \in Seq(Bytes)
        BY DatagramOK
    <1>5. queue' = [queue EXCEPT !.events = addEvent(q, e)] /\ UNCHANGED <<departed, got>>
        BY DEF Sent
    <1>6. /\ Len(log') = new /\ log'[new].link = link.no /\ log'[new].seg = t
          /\ \A k \in 1 .. Len(log) : log'[k] = log[k]
          /\ link'.no = link.no /\ link' \in [no : Nat, options : EdgeOptions,
                                              nextSendTime : Nat, work : Nat]
          /\ link'.nextSendTime = finishTime(link, size)
          /\ link'.options = link.options
        BY <1>1, SentLog
    <1> HIDE DEF due
    <1>7. e \in Event /\ e.time = due /\ e.what.no = new /\ e.what.datagram = datagramOf(t)
        BY <1>2, <1>3, <1>4 DEF Event
    <1>8. r = addEvent(q, e)
        BY <1>1, <1>5 DEF Types
    <1> HIDE DEF e, q, r
    <1>9. /\ r \in Seq(Event) /\ Sorted(r)
          /\ \E p \in 1 .. Len(q) + 1 : Inserted(q, e, r, p)
        <2>1. \A x \in Event : x.time \in Int
            BY DEF Event
        <2> QED  BY <2>1, <1>1, <1>2, <1>7, <1>8, AddEventSorted
    <1>10. PICK p \in 1 .. Len(q) + 1 : Inserted(q, e, r, p)
        BY <1>9
    <1>11. /\ Len(r) = Len(q) + 1 /\ r[p] = e
           /\ \A i \in 1 .. p - 1 : r[i] = q[i]
           /\ \A i \in p .. Len(q) : due < q[i].time
        BY <1>7, <1>10 DEF Inserted
    <1>12. \A i \in p + 1 .. Len(q) + 1 :
                i - 1 \in p .. Len(q) /\ i - 1 \in 1 .. Len(q) /\ r[i] = q[i - 1]
        <2> SUFFICES ASSUME NEW i \in p + 1 .. Len(q) + 1
                     PROVE  i - 1 \in p .. Len(q) /\ i - 1 \in 1 .. Len(q) /\ r[i] = q[i - 1]
            OBVIOUS
        <2>1. i - 1 \in p .. Len(q) /\ i - 1 \in 1 .. Len(q) /\ (i - 1) + 1 = i
            BY <1>2
        <2>2. r[(i - 1) + 1] = q[i - 1]
            BY <2>1, <1>10 DEF Inserted
        <2> QED  BY <2>1, <2>2
    <1>13. horizon' = due
        BY <1>6 DEF horizon, due, timeToDeliver
    <1>14. queue' \in [events : Seq(Event)]
        BY <1>1, <1>5, <1>8, <1>9 DEF Types
    <1>15. Sorted(queue.events)'
        BY <1>9 DEF r
    \* The numbers and links of the events that were there already.
    <1>16. \A i \in 1 .. Len(q) :
            /\ queued(i) \in 1 .. Len(log) /\ queued(i) < new
            /\ q[i].what.no = queued(i)
            /\ q[i].what.datagram = datagramOf(log[queued(i)].seg)
            /\ log[queued(i)].link = link.no => q[i].time <= horizon
        BY <1>1, <1>2 DEF Pending, queued, linkOf, q
    <1>17. \A i \in p .. Len(q) : i \in 1 .. Len(q) /\ log[queued(i)].link # link.no
        <2> SUFFICES ASSUME NEW i \in p .. Len(q), log[queued(i)].link = link.no
                     PROVE  FALSE
            BY <1>2
        <2>1. i \in 1 .. Len(q)
            BY <1>2
        <2>2. q[i].time <= horizon /\ due < q[i].time
            BY <2>1, <1>11, <1>16
        <2>3. horizon \in Nat
            <3>1. /\ link.nextSendTime \in Nat /\ link.options \in EdgeOptions
                BY <1>1 DEF Types
            <3>2. link.nextSendTime + link.options.delay * Ms \in Nat
                BY <3>1, OptionsOK DEF Ms
            <3> QED  BY <3>2, RoundUpOK DEF horizon
        <2> QED  BY <2>1, <2>2, <2>3, <1>2, <1>3 DEF q
    <1>18. \A i \in 1 .. Len(q) + 1 : queued(i)' = r[i].what.no
        BY DEF queued, r
    <1>19. \A i \in 1 .. Len(q) : q[i].time \in Nat
        BY <1>2 DEF q
    <1>20. Pending'
        <2> SUFFICES ASSUME NEW i \in 1 .. Len(q) + 1
                     PROVE  /\ r[i].what.no \in 1 .. new
                            /\ r[i].what.datagram = datagramOf(log'[r[i].what.no].seg)
                            /\ log'[r[i].what.no].link = link.no => r[i].time <= due
            BY <1>6, <1>11, <1>13, <1>18 DEF Pending, linkOf, queued, r
        <2>1. CASE i = p
            BY <2>1, <1>2, <1>3, <1>6, <1>7, <1>11
        <2>2. CASE i \in 1 .. p - 1
            <3>1. r[i] = q[i] /\ i \in 1 .. Len(q)
                BY <2>2, <1>2, <1>11
            <3>2. queued(i) \in 1 .. Len(log) /\ log'[queued(i)] = log[queued(i)]
                BY <3>1, <1>6, <1>16
            <3>3. log[queued(i)].link = link.no => q[i].time <= due
                <4>1. q[i].time <= due
                    BY <2>2, <1>7, <1>10 DEF Inserted
                <4> QED  BY <4>1
            <3> QED  BY <3>1, <3>2, <3>3, <1>2, <1>16
        <2>3. CASE i \in p + 1 .. Len(q) + 1
            <3>1. r[i] = q[i - 1] /\ i - 1 \in p .. Len(q) /\ i - 1 \in 1 .. Len(q)
                BY <2>3, <1>12
            <3>2. /\ queued(i - 1) \in 1 .. Len(log)
                  /\ log'[queued(i - 1)] = log[queued(i - 1)]
                BY <3>1, <1>6, <1>16
            <3>3. log[queued(i - 1)].link # link.no
                BY <3>1, <1>17
            <3> QED  BY <3>1, <3>2, <3>3, <1>2, <1>16
        <2> QED  BY <2>1, <2>2, <2>3, <1>2
    \* An old event has its old place, or the one after it if it is of another link.
    <1>21. \A i \in 1 .. Len(q) + 1 : i # p =>
            \E k \in 1 .. Len(q) :
                /\ r[i] = q[k] /\ (i < p => k = i) /\ (i > p => k = i - 1)
                /\ log'[r[i].what.no].link = log[queued(k)].link
                /\ r[i].what.no = queued(k)
                /\ i > p => log[queued(k)].link # link.no
        <2> SUFFICES ASSUME NEW i \in 1 .. Len(q) + 1, i # p
                     PROVE  \E k \in 1 .. Len(q) :
                                /\ r[i] = q[k] /\ (i < p => k = i) /\ (i > p => k = i - 1)
                                /\ log'[r[i].what.no].link = log[queued(k)].link
                                /\ r[i].what.no = queued(k)
                                /\ i > p => log[queued(k)].link # link.no
            OBVIOUS
        <2>1. CASE i < p
            <3>1. i \in 1 .. Len(q) /\ r[i] = q[i]
                BY <2>1, <1>2, <1>11
            <3> QED  BY <3>1, <2>1, <1>2, <1>6, <1>16
        <2>2. CASE i > p
            <3>1. i - 1 \in 1 .. Len(q) /\ i - 1 \in p .. Len(q) /\ r[i] = q[i - 1]
                BY <2>2, <1>2, <1>12
            <3> QED  BY <3>1, <2>2, <1>2, <1>6, <1>16, <1>17
        <2> QED  BY <2>1, <2>2, <1>2
    <1>22. QueuedInOrder'
        <2> SUFFICES ASSUME NEW i \in 1 .. Len(q) + 1, NEW j \in 1 .. Len(q) + 1, i < j,
                            log'[r[i].what.no].link = log'[r[j].what.no].link
                     PROVE  r[i].what.no < r[j].what.no
            BY <1>11, <1>18 DEF QueuedInOrder, linkOf, queued, r
        <2>1. CASE i = p
            BY <2>1, <1>2, <1>6, <1>7, <1>11, <1>21
        <2>2. CASE j = p
            <3>1. PICK k \in 1 .. Len(q) : r[i].what.no = queued(k)
                BY <2>2, <1>2, <1>21
            <3> QED  BY <3>1, <2>2, <1>7, <1>11, <1>16
        <2>3. CASE i # p /\ j # p
            <3>1. PICK k \in 1 .. Len(q) :
                    /\ (i < p => k = i) /\ (i > p => k = i - 1)
                    /\ log'[r[i].what.no].link = log[queued(k)].link
                    /\ r[i].what.no = queued(k)
                BY <2>3, <1>21
            <3>2. PICK l \in 1 .. Len(q) :
                    /\ (j < p => l = j) /\ (j > p => l = j - 1)
                    /\ log'[r[j].what.no].link = log[queued(l)].link
                    /\ r[j].what.no = queued(l)
                BY <2>3, <1>21
            <3>3. k < l
                BY <3>1, <3>2, <2>3, <1>2
            <3> QED  BY <3>1, <3>2, <3>3, <1>1 DEF QueuedInOrder, linkOf, q
        <2> QED  BY <2>1, <2>2, <2>3
    <1>23. LeftFirst'
        <2> SUFFICES ASSUME NEW k \in 1 .. Len(departed)
                     PROVE  /\ departed[k] \in 1 .. new
                            /\ \A i \in 1 .. Len(q) + 1 :
                                log'[departed[k]].link = log'[r[i].what.no].link
                                    => departed[k] < r[i].what.no
            BY <1>1, <1>5, <1>6, <1>11, <1>18 DEF LeftFirst, linkOf, queued, r
        <2>1. departed[k] \in 1 .. Len(log) /\ log'[departed[k]] = log[departed[k]]
            BY <1>1, <1>6 DEF LeftFirst
        <2>2. ASSUME NEW i \in 1 .. Len(q) + 1,
                     log'[departed[k]].link = log'[r[i].what.no].link
              PROVE  departed[k] < r[i].what.no
            <3>1. CASE i = p
                BY <3>1, <2>1, <1>2, <1>7, <1>11
            <3>2. CASE i # p
                <4>1. PICK l \in 1 .. Len(q) :
                        /\ log'[r[i].what.no].link = log[queued(l)].link
                        /\ r[i].what.no = queued(l)
                    BY <3>2, <1>21
                <4> QED  BY <4>1, <2>1, <2>2, <1>1 DEF LeftFirst, linkOf, q
            <3> QED  BY <3>1, <3>2
        <2> QED  BY <2>1, <2>2, <1>2
    <1> QED  BY <1>14, <1>15, <1>20, <1>22, <1>23

\* A packet that is dropped or lost leaves the queue alone and brings nothing forward.
LEMMA SentNothing ==
    ASSUME LinkInv, NEW t \in Segments, NEW fate \in {"dropped", "lost"}, Sent(t, fate)
    PROVE  /\ queue' \in [events : Seq(Event)]
           /\ Sorted(queue.events)' /\ Pending' /\ QueuedInOrder' /\ LeftFirst'
PROOF
    <1> DEFINE q == queue.events
               new == Len(log) + 1
    <1>1. Types /\ Sorted(q) /\ Pending /\ QueuedInOrder /\ LeftFirst
        BY DEF LinkInv
    <1>2. queue' = queue /\ UNCHANGED <<departed, got>>
        BY DEF Sent
    <1>3. /\ Len(log') = new /\ Len(log) \in Nat
          /\ \A k \in 1 .. Len(log) : log'[k] = log[k]
          /\ link'.no = link.no /\ link'.options = link.options
        BY <1>1, SentLog, Fields
    <1>4. horizon <= horizon' /\ horizon \in Nat /\ horizon' \in Nat
        <2> DEFINE delay == link.options.delay * Ms
                   next == link.nextSendTime
                   next2 == link'.nextSendTime
        <2>1. next \in Nat /\ next2 \in Nat /\ next <= next2
            <3>1. next \in Nat
                BY <1>1 DEF Types
            <3>2. CASE fate = "dropped"
                <4>1. next2 = next
                    BY <3>2, <1>1, SentLog
                <4> QED  BY <4>1, <3>1
            <3>3. CASE fate # "dropped"
                <4> DEFINE f == finishTime(link, sizeOf(t))
                           tx == transmitTime(link, sizeOf(t))
                <4>1. next2 = f
                    BY <3>3, <1>1, SentLog
                <4>2. tx \in Nat /\ f \in Nat /\ next + tx <= f
                    BY <1>1, FinishTimeOK
                <4> HIDE DEF f, tx, next, next2
                <4> QED  BY <4>1, <4>2, <3>1
            <3> QED  BY <3>2, <3>3
        <2>2. delay \in Nat
            <3>1. link.options \in EdgeOptions
                BY <1>1 DEF Types
            <3> QED  BY <3>1, OptionsOK DEF Ms
        <2>3. horizon = roundUp(next + delay) /\ horizon' = roundUp(next2 + delay)
            BY <1>3 DEF horizon
        <2> HIDE DEF delay, next, next2
        <2>4. next + delay \in Nat /\ next2 + delay \in Nat /\ next + delay <= next2 + delay
            BY <2>1, <2>2
        <2> QED  BY <2>3, <2>4, RoundUpOK
    <1>5. queue' \in [events : Seq(Event)] /\ Sorted(queue.events)'
        BY <1>1, <1>2 DEF Types
    <1>6. \A i \in 1 .. Len(q) :
            /\ queued(i)' = queued(i) /\ queued(i) \in 1 .. Len(log) /\ queued(i) \in Nat
            /\ log'[queued(i)] = log[queued(i)] /\ q[i].time \in Nat
        BY <1>1, <1>2, <1>3, Fields DEF Pending, queued
    <1>7. Pending'
        <2> SUFFICES ASSUME NEW i \in 1 .. Len(q)
                     PROVE  /\ queued(i) \in 1 .. new
                            /\ q[i].what.datagram = datagramOf(log'[queued(i)].seg)
                            /\ log'[queued(i)].link = link.no => q[i].time <= horizon'
            BY <1>2, <1>3, <1>6 DEF Pending, linkOf
        <2>1. /\ q[i].what.datagram = datagramOf(log[queued(i)].seg)
              /\ log[queued(i)].link = link.no => q[i].time <= horizon
            BY <1>1 DEF Pending, linkOf
        <2> HIDE DEF q
        <2> QED  BY <2>1, <1>3, <1>4, <1>6
    <1>8. QueuedInOrder'
        BY <1>1, <1>2, <1>6 DEF QueuedInOrder, linkOf
    <1>9. LeftFirst'
        <2> SUFFICES ASSUME NEW k \in 1 .. Len(departed)
                     PROVE  /\ departed[k] \in 1 .. new
                            /\ \A i \in 1 .. Len(q) :
                                log'[departed[k]].link = log'[queued(i)].link
                                    => departed[k] < queued(i)
            BY <1>1, <1>2, <1>3, <1>6 DEF LeftFirst, linkOf
        <2>1. departed[k] \in 1 .. Len(log) /\ log'[departed[k]] = log[departed[k]]
            BY <1>1, <1>3 DEF LeftFirst
        <2> QED  BY <2>1, <1>1, <1>3, <1>6 DEF LeftFirst, linkOf
    <1> QED  BY <1>5, <1>7, <1>8, <1>9

LEMMA SendPktOK ==
    ASSUME LinkInv, NEW t \in Segments, sendPkt(t)
    PROVE  LinkInv'
PROOF
    <1>1. Types /\ LeftFirst /\ DepartsInOrder /\ Intact
        BY DEF LinkInv
    <1>2. PICK fate \in {"dropped", "lost", "scheduled"} : Sent(t, fate)
        BY <1>1, SendPktCases
    <1>3. UNCHANGED <<now, loop, departed, got>>
        BY <1>2 DEF Sent
    <1>4. /\ log' \in Seq(Entry)
          /\ \A k \in 1 .. Len(log) : log'[k] = log[k]
          /\ link' \in [no : Nat, options : EdgeOptions, nextSendTime : Nat, work : Nat]
        BY <1>1, <1>2, SentLog
    <1>5. Busy' /\ Paced'
        BY <1>2, SentPaced
    <1>6. /\ queue' \in [events : Seq(Event)]
          /\ Sorted(queue.events)' /\ Pending' /\ QueuedInOrder' /\ LeftFirst'
        <2>1. CASE fate = "scheduled"
            BY <2>1, <1>2, SentInOrder
        <2>2. CASE fate # "scheduled"
            <3>1. fate \in {"dropped", "lost"}
                BY <2>2
            <3> QED  BY <3>1, <1>2, SentNothing
        <2> QED  BY <2>1, <2>2
    <1>7. Types'
        BY <1>1, <1>3, <1>4, <1>6 DEF Types
    <1>8. /\ DOMAIN departed = 1 .. Len(departed) /\ DOMAIN got = 1 .. Len(got)
          /\ Len(got) = Len(departed)
          /\ \A k \in 1 .. Len(departed) : log'[departed[k]] = log[departed[k]]
        BY <1>1, <1>4, Fields DEF LeftFirst
    <1>9. DepartsInOrder'
        BY <1>1, <1>3, <1>8 DEF DepartsInOrder
    <1>10. Intact'
        BY <1>1, <1>3, <1>8 DEF Intact
    <1> QED  BY <1>5, <1>6, <1>7, <1>9, <1>10 DEF LinkInv

LEMMA NextOK ==
    ASSUME LinkInv, [Next]_vars
    PROVE  LinkInv'
PROOF
    <1>0. Types
        BY DEF LinkInv
    <1>1. CASE beginTurn
        <2>1. /\ UNCHANGED <<now, link, queue, log, departed, got>>
              /\ loop' = [at |-> "events", nowMicros |-> now]
            BY <1>1 DEF beginTurn
        <2> QED  BY <2>1, <1>0, IdleOK DEF Types
    <1>2. CASE eventsDone
        <2>1. /\ UNCHANGED <<now, link, queue, log, departed, got>>
              /\ loop' = [loop EXCEPT !.at = "input"]
            BY <1>2 DEF eventsDone
        <2> QED  BY <2>1, <1>0, IdleOK DEF Types
    <1>3. CASE physicalSend
        BY <1>3, PhysicalSendOK
    <1>4. ASSUME NEW t \in Segments, sendPkt(t)  PROVE  LinkInv'
        BY <1>4, SendPktOK
    <1>5. ASSUME NEW o \in EdgeOptions, addNeighbor(o)  PROVE  LinkInv'
        BY <1>5, AddNeighborOK
    <1>6. ASSUME NEW ms \in 0 .. MaxTime, wallClock(ms)  PROVE  LinkInv'
        <2>1. UNCHANGED <<loop, link, queue, log, departed, got>> /\ now' = ms * Ms
            BY <1>6 DEF wallClock
        <2>2. ms \in Nat
            BY LinkConstants
        <2>3. now' \in Nat /\ now' % Ms = 0
            BY <2>1, <2>2 DEF Ms
        <2> QED  BY <2>1, <2>3, <1>0, IdleOK DEF Types
    <1>7. CASE UNCHANGED vars
        BY <1>7, <1>0, IdleOK DEF vars, Types
    <1> QED  BY <1>1, <1>2, <1>3, <1>4, <1>5, <1>6, <1>7 DEF Next

-----------------------------------------------------------------------------
(* The theorems. *)

\* LinkInv holds always.
THEOREM LinkInvariant == Spec => []LinkInv
PROOF
    <1>1. Init => LinkInv
        BY InitOK
    <1>2. LinkInv /\ [Next]_vars => LinkInv'
        BY NextOK
    <1> QED  BY <1>1, <1>2, PTL DEF Spec

\* Types: a datagram has bytes only and fits what the receiver reads; the queue is
\* sorted.
THEOREM LinkTypes == Spec => []TypeOK
PROOF
    <1>1. LinkInv => TypeOK
        <2> SUFFICES ASSUME LinkInv  PROVE  TypeOK
            OBVIOUS
        <2>1. Types /\ Sorted(queue.events) /\ Pending
            BY DEF LinkInv
        <2>2. now \in Nat /\ loop.nowMicros \in Nat /\ loop.at \in {"input", "events"}
            BY <2>1 DEF Types
        <2>3. /\ Len(queue.events) \in Nat /\ DOMAIN queue.events = 1 .. Len(queue.events)
              /\ DOMAIN log = 1 .. Len(log)
            BY <2>1, Fields
        <2> SUFFICES ASSUME NEW i \in 1 .. Len(queue.events)
                     PROVE  LET d == queue.events[i].what.datagram
                            IN  /\ queue.events[i].what.no \in DOMAIN log
                                /\ Len(d) <= 131 /\ \A j \in DOMAIN d : d[j] \in Bytes
                                /\ i > 1 => queue.events[i - 1].time <= queue.events[i].time
            BY <2>2, <2>3 DEF TypeOK
        <2> DEFINE d == queue.events[i].what.datagram
        <2>4. queue.events[i].what.no \in DOMAIN log /\ d = datagramOf(log[queued(i)].seg)
            BY <2>1, <2>3 DEF Pending, queued
        <2>5. log[queued(i)].seg \in Segments
            BY <2>1, <2>3, <2>4, Fields DEF queued
        <2>6. Len(d) <= 131 /\ d \in Seq(Bytes)
            BY <2>4, <2>5, DatagramOK
        <2>7. \A j \in DOMAIN d : d[j] \in Bytes
            <3> HIDE DEF d
            <3> QED  BY <2>6
        <2>8. i > 1 => queue.events[i - 1].time <= queue.events[i].time
            BY <2>1, <2>3 DEF Sorted
        <2> QED  BY <2>4, <2>6, <2>7, <2>8
    <1> QED  BY <1>1, LinkInvariant, PTL

\* pack() and unpack(): the other end hands on what was sent, for every segment that
\* Transport's constructor accepts.
THEOREM ArrivesIntact == Spec => []Intact
PROOF
    <1>1. LinkInv => Intact
        BY DEF LinkInv
    <1> QED  BY <1>1, LinkInvariant, PTL

\* EmulatedLink::schedulePkt, the rounding and OrderedEventQueue: a link sends in
\* the order in which it was given, whatever its options and the clock.
THEOREM LinkSendsInOrder == Spec => []DepartsInOrder
PROOF
    <1>1. LinkInv => DepartsInOrder
        BY DEF LinkInv
    <1> QED  BY <1>1, LinkInvariant, PTL

\* EmulatedLink::schedulePkt: the bandwidth is never exceeded, and the buffer and
\* the delay bound what a packet waits.
THEOREM LinkPaced == Spec => []Paced
PROOF
    <1>1. LinkInv => Paced
        BY DEF LinkInv
    <1> QED  BY <1>1, LinkInvariant, PTL

=============================================================================
