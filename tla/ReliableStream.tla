---------------------------- MODULE ReliableStream ----------------------------
(***************************************************************************)
(* What a connection promises its two applications, with no packets, no    *)
(* windows and no timers: each direction is a stream of bytes, numbered by *)
(* their position, that arrives in order and ends at most once, and an end *)
(* learns that the other has everything only when that is so.              *)
(***************************************************************************)
EXTENDS Naturals, Sequences

CONSTANTS
    Ends, Peer(_),
    Amount      \* Amount[e]: how many bytes the application of e has for the peer

VARIABLES
    sent,        \* sent[e]: how many bytes e has put into its stream
    delivered,   \* delivered[e]: how many bytes have arrived at e
    taken,       \* taken[e]: the bytes the application of e has read
    ended,       \* ended[e]: e has ended its stream
    notified,    \* notified[e]: e knows that the peer's stream has ended
    eof,         \* eof[e]: the application of e has read to the end
    finished     \* finished[e]: e knows that the peer has the whole stream

vars == <<sent, delivered, taken, ended, notified, eof, finished>>

Init ==
    /\ sent = [e \in Ends |-> 0]
    /\ delivered = [e \in Ends |-> 0]
    /\ taken = [e \in Ends |-> <<>>]
    /\ ended = [e \in Ends |-> FALSE]
    /\ notified = [e \in Ends |-> FALSE]
    /\ eof = [e \in Ends |-> FALSE]
    /\ finished = [e \in Ends |-> FALSE]

Put(e) ==
    /\ ~ended[e]
    /\ \E n \in sent[e] + 1 .. Amount[e] : sent' = [sent EXCEPT ![e] = n]
    /\ UNCHANGED <<delivered, taken, ended, notified, eof, finished>>

Deliver(e) ==
    /\ \E n \in delivered[e] + 1 .. sent[Peer(e)] :
            delivered' = [delivered EXCEPT ![e] = n]
    /\ UNCHANGED <<sent, taken, ended, notified, eof, finished>>

\* The application takes bytes that have arrived, in order, and may find that
\* there will be no more.
Take(e) ==
    /\ ~eof[e]
    /\ \E n \in Len(taken[e]) .. delivered[e] :
            /\ taken' = [taken EXCEPT ![e] = [k \in 1 .. n |-> k]]
            /\ eof' = [eof EXCEPT ![e] = notified[e] /\ n = sent[Peer(e)]]
    /\ UNCHANGED <<sent, delivered, ended, notified, finished>>

\* A stream ends once all of it has arrived.
End(e) ==
    /\ ~ended[e]
    /\ delivered[Peer(e)] = sent[e]
    /\ ended' = [ended EXCEPT ![e] = TRUE]
    /\ UNCHANGED <<sent, delivered, taken, notified, eof, finished>>

Notify(e) ==
    /\ ended[Peer(e)]
    /\ ~notified[e]
    /\ notified' = [notified EXCEPT ![e] = TRUE]
    /\ UNCHANGED <<sent, delivered, taken, ended, eof, finished>>

Finish(e) ==
    /\ notified[Peer(e)]
    /\ ~finished[e]
    /\ finished' = [finished EXCEPT ![e] = TRUE]
    /\ UNCHANGED <<sent, delivered, taken, ended, notified, eof>>

Next ==
    \E e \in Ends :
        Put(e) \/ Deliver(e) \/ Take(e) \/ End(e) \/ Notify(e) \/ Finish(e)

Spec == Init /\ [][Next]_vars

=============================================================================
