----------------------- MODULE OrderedEventQueueProofs -----------------------
(***************************************************************************)
(* What OrderedEventQueue promises, for every queue and every event: it    *)
(* stays sorted, and an event goes after all those that are not later, so  *)
(* that events of the same time leave in the order in which they came.     *)
(***************************************************************************)
EXTENDS OrderedEventQueue, TLAPS, SequenceTheorems, WellFoundedInduction

\* The queue that the loops of simulator and emulator rely on.
Sorted(q) == \A i, j \in 1 .. Len(q) : i < j => q[i].time <= q[j].time

\* r is q with e put in at position p, between what is not later and what is.
Inserted(q, e, r, p) ==
    /\ Len(r) = Len(q) + 1
    /\ r[p] = e
    /\ \A i \in 1 .. p - 1 : r[i] = q[i] /\ q[i].time <= e.time
    /\ \A i \in p .. Len(q) : r[i + 1] = q[i] /\ e.time < q[i].time

\* A set of positions has a first one: where the loop of addEvent stops.
LEMMA FirstPosition ==
    ASSUME NEW S, S \subseteq Nat, S # {}
    PROVE  Min(S) \in S /\ \A y \in S : Min(S) <= y
PROOF
    <1> DEFINE R == OpToRel(<, Nat)
    <1>1. \A x, y \in Nat : x < y => <<x, y>> \in R
        BY Zenon DEF OpToRel
    <1>2. \E x \in S : \A y \in S : ~(<<y, x>> \in R)
        BY NatLessThanWellFounded, WFMin, Zenon
    <1> HIDE DEF R
    <1>3. PICK x \in S : \A y \in S : ~(<<y, x>> \in R)
        BY <1>2
    <1>4. ASSUME NEW y \in S  PROVE  x <= y
        <2>1. x \in Nat /\ y \in Nat
            OBVIOUS
        <2>2. ~(y < x)
            BY <2>1, <1>1, <1>3, Zenon
        <2> QED  BY <2>1, <2>2
    <1> QED  BY <1>4 DEF Min

\* What InsertAt returns, position by position.
LEMMA InsertAtElems ==
    ASSUME NEW T, NEW q \in Seq(T), NEW e \in T, NEW p \in 1 .. Len(q)
    PROVE  /\ InsertAt(q, p, e) \in Seq(T)
           /\ Len(InsertAt(q, p, e)) = Len(q) + 1
           /\ InsertAt(q, p, e)[p] = e
           /\ \A i \in 1 .. p - 1 : InsertAt(q, p, e)[i] = q[i]
           /\ \A i \in p .. Len(q) : InsertAt(q, p, e)[i + 1] = q[i]
PROOF
    <1> DEFINE a == SubSeq(q, 1, p - 1)
               b == SubSeq(q, p, Len(q))
               ae == a \o <<e>>
               r == ae \o b
    <1>0. Len(q) \in Nat /\ p \in Nat /\ 1 <= p /\ p <= Len(q)
        OBVIOUS
    <1>1. /\ a \in Seq(T)
          /\ Len(a) = p - 1
          /\ \A j \in 1 .. p - 1 : a[j] = q[j]
        BY <1>0, SubSeqProperties, LenProperties
    <1>2. /\ b \in Seq(T)
          /\ Len(b) = Len(q) - p + 1
        BY <1>0, SubSeqProperties, LenProperties
    <1>3. ASSUME NEW j \in 1 .. Len(q) - p + 1  PROVE  b[j] = q[p + j - 1]
        <2>1. \A k \in p .. Len(q) : q[k] \in T
            OBVIOUS
        <2> QED  BY <2>1, <1>0, SubSeqProperties, LenProperties
    <1> HIDE DEF a, b
    <1>4. /\ ae \in Seq(T)
          /\ Len(ae) = p
          /\ ae[p] = e
          /\ \A j \in 1 .. p - 1 : ae[j] = q[j]
        BY <1>0, <1>1
    <1> HIDE DEF ae
    <1>5. r \in Seq(T)
        BY <1>2, <1>4
    <1>6. Len(r) = Len(q) + 1
        BY <1>0, <1>2, <1>4
    <1>7. \A j \in 1 .. p : r[j] = ae[j]
        BY <1>0, <1>2, <1>4
    <1>8. ASSUME NEW i \in p .. Len(q)  PROVE  r[i + 1] = q[i]
        <2>1. r[i + 1] = b[i + 1 - p]
            BY <1>0, <1>2, <1>4
        <2> QED  BY <2>1, <1>3, <1>0
    <1>9. r[p] = e /\ \A j \in 1 .. p - 1 : r[j] = q[j]
        BY <1>0, <1>4, <1>7
    <1>10. InsertAt(q, p, e) = r
        BY DEF InsertAt, r, ae, a, b
    <1> HIDE DEF r
    <1> QED  BY <1>5, <1>6, <1>8, <1>9, <1>10

\* OrderedEventQueue::addEvent: the queue gets the event behind everything that is
\* not later, and nothing else in it moves; a sorted queue stays sorted.
THEOREM AddEventSorted ==
    ASSUME NEW T, NEW q \in Seq(T), NEW e \in T,
           \A x \in T : x.time \in Int,
           Sorted(q)
    PROVE  /\ addEvent(q, e) \in Seq(T)
           /\ Sorted(addEvent(q, e))
           /\ \E p \in 1 .. Len(q) + 1 : Inserted(q, e, addEvent(q, e), p)
PROOF
    <1> DEFINE later == {i \in DOMAIN q : e.time < q[i].time}
               r == addEvent(q, e)
    <1>0. /\ Len(q) \in Nat /\ DOMAIN q = 1 .. Len(q)
          /\ e.time \in Int
          /\ \A i \in 1 .. Len(q) : q[i] \in T /\ q[i].time \in Int
        OBVIOUS
    <1>1. r \in Seq(T) /\ \E p \in 1 .. Len(q) + 1 : Inserted(q, e, r, p)
        <2>1. CASE later = {}
            <3>1. r = Append(q, e)
                BY <2>1 DEF addEvent
            <3>2. \A i \in 1 .. Len(q) : q[i].time <= e.time
                BY <2>1, <1>0
            <3>3. r \in Seq(T) /\ Inserted(q, e, r, Len(q) + 1)
                BY <3>1, <3>2, <1>0 DEF Inserted
            <3> QED  BY <3>3, <1>0
        <2>2. CASE later # {}
            <3> DEFINE p == Min(later)
            <3>1. later \subseteq Nat
                BY <1>0
            <3>2. p \in later /\ \A y \in later : p <= y
                <4> HIDE DEF later
                <4> QED  BY <3>1, <2>2, FirstPosition
            <3>3. p \in 1 .. Len(q) /\ e.time < q[p].time
                BY <3>2, <1>0
            <3>4. r = InsertAt(q, p, e)
                BY <2>2 DEF addEvent
            <3>5. \A i \in 1 .. p - 1 : q[i].time <= e.time
                <4> SUFFICES ASSUME NEW i \in 1 .. p - 1  PROVE  q[i].time <= e.time
                    OBVIOUS
                <4>1. i \in 1 .. Len(q) /\ i < p /\ p \in Nat
                    BY <3>3, <1>0
                <4>2. i \notin later
                    <5> HIDE DEF later, p
                    <5>1. ASSUME i \in later  PROVE  FALSE
                        <6>1. p <= i
                            BY <5>1, <3>2
                        <6> QED  BY <6>1, <4>1
                    <5> QED  BY <5>1
                <4> QED  BY <4>1, <4>2, <1>0
            <3> HIDE DEF p, later
            <3>6. \A i \in p .. Len(q) : e.time < q[i].time
                <4> SUFFICES ASSUME NEW i \in p .. Len(q)  PROVE  e.time < q[i].time
                    OBVIOUS
                <4>1. q[p].time <= q[i].time
                    BY <3>3, <1>0 DEF Sorted
                <4> QED  BY <4>1, <3>3, <1>0
            <3> DEFINE ins == InsertAt(q, p, e)
            <3>7. /\ ins \in Seq(T)
                  /\ Len(ins) = Len(q) + 1
                  /\ ins[p] = e
                  /\ \A i \in 1 .. p - 1 : ins[i] = q[i]
                  /\ \A i \in p .. Len(q) : ins[i + 1] = q[i]
                BY <3>3, InsertAtElems
            <3>8. r = ins
                BY <3>4
            <3> HIDE DEF ins, r
            <3>9. Inserted(q, e, ins, p)
                BY <3>7, <3>5, <3>6 DEF Inserted
            <3> QED  BY <3>7, <3>8, <3>9, <3>3, <1>0
        <2> QED  BY <2>1, <2>2
    <1> HIDE DEF r
    <1>2. PICK p \in 1 .. Len(q) + 1 : Inserted(q, e, r, p)
        BY <1>1
    <1>3. Sorted(r)
        <2> SUFFICES ASSUME NEW i \in 1 .. Len(r), NEW j \in 1 .. Len(r), i < j
                     PROVE  r[i].time <= r[j].time
            BY DEF Sorted
        <2>0. Len(r) = Len(q) + 1
            BY <1>2 DEF Inserted
        <2>1. CASE j < p
            BY <2>1, <2>0, <1>2, <1>0 DEF Inserted, Sorted
        <2>2. CASE j = p
            BY <2>2, <2>0, <1>2, <1>0 DEF Inserted
        <2>3. CASE j > p /\ i < p
            <3>1. j - 1 \in p .. Len(q) /\ (j - 1) + 1 = j
                BY <2>0, <2>3, <1>0
            <3>2. r[j] = q[j - 1] /\ e.time < q[j - 1].time
                BY <3>1, <1>2 DEF Inserted
            <3>3. r[i] = q[i] /\ q[i].time <= e.time
                BY <2>3, <1>2, <1>0 DEF Inserted
            <3>4. i \in 1 .. Len(q) /\ j - 1 \in 1 .. Len(q)
                BY <2>0, <2>3, <3>1, <1>0
            <3> QED  BY <3>2, <3>3, <3>4, <1>0
        <2>4. CASE j > p /\ i = p
            <3>1. j - 1 \in p .. Len(q) /\ (j - 1) + 1 = j
                BY <2>0, <2>4, <1>0
            <3>2. r[j] = q[j - 1] /\ e.time < q[j - 1].time /\ r[i] = e
                BY <2>4, <3>1, <1>2 DEF Inserted
            <3> QED  BY <3>1, <3>2, <1>0
        <2>5. CASE i > p
            <3>1. /\ j - 1 \in p .. Len(q) /\ (j - 1) + 1 = j
                  /\ i - 1 \in p .. Len(q) /\ (i - 1) + 1 = i
                  /\ i - 1 < j - 1
                BY <2>0, <2>5, <1>0
            <3>2. r[j] = q[j - 1] /\ r[i] = q[i - 1]
                BY <3>1, <1>2 DEF Inserted
            <3>3. i - 1 \in 1 .. Len(q) /\ j - 1 \in 1 .. Len(q)
                BY <3>1, <1>0
            <3>4. q[i - 1].time <= q[j - 1].time
                BY <3>1, <3>3 DEF Sorted
            <3> QED  BY <3>2, <3>4
        <2> QED  BY <2>1, <2>2, <2>3, <2>4, <2>5, <1>0
    <1> QED  BY <1>1, <1>3 DEF r

\* Taking the first event, as the loops do: the rest moves up by one and is sorted.
LEMMA TailSorted ==
    ASSUME NEW T, NEW q \in Seq(T), q # <<>>, Sorted(q)
    PROVE  /\ Tail(q) \in Seq(T)
           /\ Len(Tail(q)) = Len(q) - 1
           /\ \A i \in 1 .. Len(q) - 1 : Tail(q)[i] = q[i + 1]
           /\ Sorted(Tail(q))
PROOF
    <1>1. /\ Tail(q) \in Seq(T)
          /\ Len(Tail(q)) = Len(q) - 1
          /\ \A i \in 1 .. Len(q) - 1 : Tail(q)[i] = q[i + 1]
        OBVIOUS
    <1> QED  BY <1>1 DEF Sorted

=============================================================================
