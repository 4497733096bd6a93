---------------------------- MODULE InterruptQueue ----------------------------
(***************************************************************************)
(* The event queue of the core (r4300/interrupt.cpp), as operators on a    *)
(* machine record m with the fields                                        *)
(*   Count           the cycle counter, an integer of CountLimit values    *)
(*   Compare         the timer register                                    *)
(*   q               the queue, a sequence of [type, count]                *)
(*   next_interrupt  the Count at which a branch looks at the queue        *)
(*   SPECIAL_done    whether SPECIAL_INT was handled since Count wrapped   *)
(***************************************************************************)
EXTENDS Naturals, Sequences, SequencesExt

CONSTANTS
    CountLimit,     \* 2^32 in the code
    Recent          \* 0x10000000 in the code; longer than any delay of a device

ASSUME CountAssumption ==
    /\ CountLimit \in Nat /\ CountLimit % 2 = 0
    /\ Recent \in 1 .. (CountLimit \div 2 - 1)

\* 0x80000000
Half == CountLimit \div 2

Counts == 0 .. CountLimit - 1

\* An unsigned result of the width of Count.
Wrap(n) == n % CountLimit

\* a - b for two values of that width.
Minus(a, b) == Wrap(CountLimit + a - b)

EventTypes ==
    {"VI_INT", "COMPARE_INT", "CHECK_INT", "SI_INT", "PI_INT", "SPECIAL_INT", "AI_INT",
     "SP_INT", "DP_INT"}

Event(t, c) == [type |-> t, count |-> c]

-----------------------------------------------------------------------------
(* Mutants                                                                 *)

\* next_interrupt is not brought up to date.
remove_interrupt_event_stale(m) ==
    [m EXCEPT !.q = Tail(m.q),
              !.SPECIAL_done = @ \/ Head(m.q).type = "SPECIAL_INT"]

-----------------------------------------------------------------------------

\* Whether an event at evt1 comes before the event e2 of the queue.
before_event(m, evt1, e2) ==
    /\ Minus(evt1, m.Count) < Half
    /\ \/ /\ Minus(e2.count, m.Count) < Half
          /\ Minus(evt1, m.Count) < Minus(e2.count, m.Count)
       \/ /\ Minus(e2.count, m.Count) >= Half
          /\ \/ Minus(m.Count, e2.count) >= Recent
             \/ e2.type = "SPECIAL_INT" /\ m.SPECIAL_done

\* Where add_interrupt_event inserts: before the first event that the new one
\* precedes; SPECIAL_INT at the end.
place(m, type, count) ==
    IF type = "SPECIAL_INT" \/ \A i \in DOMAIN m.q : ~before_event(m, count, m.q[i])
    THEN Len(m.q) + 1
    ELSE CHOOSE i \in DOMAIN m.q :
            /\ before_event(m, count, m.q[i])
            /\ \A j \in 1 .. i - 1 : ~before_event(m, count, m.q[j])

\* add_interrupt_event_count; add_interrupt_event is at(m, delay).
\* next_interrupt changes only when the new event becomes the first. (The loop
\* that looks for equal counts after the place was found never iterates.)
add_interrupt_event_count(m, type, count) ==
    LET k == [m EXCEPT !.SPECIAL_done = @ /\ m.Count <= Half]
        p == place(k, type, count)
    IN  [k EXCEPT !.q = InsertAt(@, p, Event(type, count)),
                  !.next_interrupt = IF p = 1 THEN count ELSE @]

add_interrupt_event(m, type, delay) ==
    add_interrupt_event_count(m, type, Wrap(m.Count + delay))

\* What next_interrupt becomes when e is the first event.
due_of(m, e) ==
    IF e.count > m.Count \/ m.Count - e.count < Half THEN e.count ELSE 0

remove_interrupt_event(m) ==
    [m EXCEPT !.q = Tail(@),
              !.SPECIAL_done = @ \/ Head(m.q).type = "SPECIAL_INT",
              !.next_interrupt = IF Len(m.q) > 1 THEN due_of(m, m.q[2]) ELSE 0]

\* The places of the events of a type.
places(m, type) == {i \in DOMAIN m.q : m.q[i].type = type}

Queued(m, type) == places(m, type) # {}

\* The first place of a type (only where it is queued).
first(m, type) == CHOOSE i \in places(m, type) : \A j \in places(m, type) : i <= j

\* The code answers 0 for an event that is not queued, and for one at 0.
get_event(m, type) == IF Queued(m, type) THEN m.q[first(m, type)].count ELSE 0

\* next_interrupt stays as it is.
remove_event(m, type) ==
    IF Queued(m, type) THEN [m EXCEPT !.q = RemoveAt(@, first(m, type))] ELSE m

\* Mutant: SPECIAL_INT is not queued again.
translate_without_special(m, base) ==
    LET k == remove_event(remove_event(m, "COMPARE_INT"), "SPECIAL_INT")
        moved == [k EXCEPT !.q = [i \in DOMAIN k.q |->
                                    Event(k.q[i].type, Wrap(Minus(k.q[i].count, k.Count) + base))]]
    IN  add_interrupt_event_count(moved, "COMPARE_INT", m.Compare)

\* The game writes base to Count: the events keep their distance.
translate_event_queue(m, base) ==
    LET k == remove_event(remove_event(m, "COMPARE_INT"), "SPECIAL_INT")
        moved == [k EXCEPT !.q = [i \in DOMAIN k.q |->
                                    Event(k.q[i].type, Wrap(Minus(k.q[i].count, k.Count) + base))]]
    IN  add_interrupt_event_count(
            add_interrupt_event_count(moved, "COMPARE_INT", m.Compare), "SPECIAL_INT", 0)

\* load_eventqueue_infos inserts the saved events one by one, under the Count
\* of the machine that loads.
load_eventqueue_infos(m, saved) ==
    LET loaded[n \in 0 .. Len(saved)] ==
            IF n = 0 THEN [m EXCEPT !.q = << >>]
            ELSE add_interrupt_event_count(loaded[n - 1], saved[n].type, saved[n].count)
    IN  loaded[Len(saved)]

\* check_interrupt puts a CHECK_INT in front of the queue.
push_check(m) ==
    [m EXCEPT !.q = <<Event("CHECK_INT", m.Count)>> \o @, !.next_interrupt = m.Count]

-----------------------------------------------------------------------------
\* A branch looks at the queue: if (next_interrupt <= core_Count).
Noticed(m) == m.next_interrupt <= m.Count

\* An event whose time has come.
Due(m, e) == Minus(m.Count, e.count) < Half
=============================================================================
