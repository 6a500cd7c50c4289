--------------------------- MODULE OrderedEventQueue ---------------------------
(***************************************************************************)
(* OrderedEventQueue, and addEventAtMicros of RuntimeManager, with which   *)
(* simulator and emulator fill theirs: `s` is any record with a field      *)
(* events, a sequence of [time, what].                                     *)
(***************************************************************************)
EXTENDS Integers, SequencesExt, FiniteSetsExt

addEvent_AtEnd(queue, event) == Append(queue, event)

addEvent_BeforeEqual(queue, event) ==
    LET later == {i \in DOMAIN queue : event.time <= queue[i].time}
    IN  IF later = {} THEN Append(queue, event)
                      ELSE InsertAt(queue, Min(later), event)

\* Before the first event that is later; after all those of the same time.
addEvent(queue, event) ==
    LET later == {i \in DOMAIN queue : event.time < queue[i].time}
    IN  IF later = {} THEN Append(queue, event)
                      ELSE InsertAt(queue, Min(later), event)

addEventAtMicros_DropsZero(s, time, what) ==
    IF time <= 0 THEN s
    ELSE [s EXCEPT !.events = addEvent(@, [time |-> time, what |-> what])]

addEventAtMicros(s, time, what) ==
    IF time < 0 THEN s
    ELSE [s EXCEPT !.events = addEvent(@, [time |-> time, what |-> what])]

=============================================================================
