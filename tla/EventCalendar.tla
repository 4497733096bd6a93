---------------------------- MODULE EventCalendar ----------------------------
(***************************************************************************)
(* What the event queue of the core promises to the devices: an agenda of  *)
(* future events on a clock that wraps. An event leaves the agenda only    *)
(* when its time has come, one per step and the earliest first; an event   *)
(* is entered for a time to come, or as the successor of the one that      *)
(* leaves; and the agenda can be kept and brought back. The promise ends   *)
(* when the clock wraps while somebody still waits to be served.           *)
(***************************************************************************)
EXTENDS Naturals, FiniteSets

CONSTANTS CountLimit, NotKept

VARIABLES now, agenda, kept, void

Since(t, u) == (CountLimit + t - u) % CountLimit

Passed(t, e) == Since(t, e.due) < CountLimit \div 2

Init ==
    /\ \A e \in agenda : ~Passed(now, e)
    /\ kept = NotKept
    /\ void = FALSE

Leaves(e) ==
    /\ Passed(now', e)
    /\ \A f \in agenda \ {e} :
            Passed(now', f) => Since(now', e.due) >= Since(now', f.due)

Entered(e) == ~Passed(now', e) \/ e.due = now'

Proceed ==
    LET gone == agenda \ agenda'
        new == agenda' \ agenda
    IN  /\ Cardinality(gone) <= 1
        /\ \A e \in gone : Leaves(e)
        /\ \A e \in new : Entered(e) \/ \E g \in gone : e.what = g.what

\* The agenda is kept or brought back in the middle of the entry of an event.
Keep ==
    /\ kept = NotKept
    /\ kept' = [now |-> now, agenda |-> agenda]
    /\ now' = now
    /\ agenda \subseteq agenda' /\ \A e \in agenda' \ agenda : Entered(e)

BringBack ==
    /\ kept # NotKept
    /\ now' = kept.now
    /\ kept.agenda \subseteq agenda' /\ \A e \in agenda' \ kept.agenda : Entered(e)
    /\ UNCHANGED kept

\* The clock is set: every entry keeps its distance, but for one that may leave
\* at that moment.
SetClock ==
    \E gone \in {{}} \cup {{e} : e \in agenda} :
        {[e EXCEPT !.due = (now' + Since(e.due, now)) % CountLimit] : e \in agenda \ gone}
            \subseteq agenda'

Next ==
    \/ void' = FALSE /\ void = FALSE /\ ((Proceed /\ UNCHANGED kept) \/ Keep \/ BringBack)
    \/ void' = TRUE /\ (void \/ now' < now \/ SetClock)

Spec == Init /\ [][Next]_<<now, agenda, kept, void>>
=============================================================================
