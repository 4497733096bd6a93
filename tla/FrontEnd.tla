------------------------------- MODULE FrontEnd -------------------------------
(***************************************************************************)
(* The front end's threads over its three services: the UI thread submits  *)
(* jobs and broadcasts, jobs broadcast from the threads of the pool, the   *)
(* callbacks of the main window run on the UI thread through its           *)
(* dispatcher, and each thread of a piano roll subscribes before its       *)
(* window is opened and unsubscribes when it is closed.                    *)
(***************************************************************************)
EXTENDS ThreadPool, Messenger, Dispatcher

CONSTANTS
    ui,
    Rolls,          \* the threads that show starts for the piano roll
    RollMessages,   \* what such a thread subscribes to, in its order
    Budgets         \* bounds, a set of records: how many jobs, broadcasts, piano rolls,
                    \* dialogs, changes of the settings and exceptions there may be

ASSUME ThreadsAssumption ==
    /\ Submitters = {ui}
    /\ Callers = Workers
    /\ BusThreads = Workers \cup {ui} \cup Rolls
    /\ Rolls \cap (Workers \cup {ui}) = {}
    /\ RollMessages \in Seq(Messages)

VARIABLES
    g_hwnd,         \* whether the piano roll's window handle is set
    rolls,          \* per thread of a piano roll: its stage and its unsubscribe_funcs
    left            \* what remains of the budget

rollVars == <<g_hwnd, rolls>>
vars == <<poolVars, busVars, dispatcherVars, rollVars, left>>

NoRoll == [stage |-> "none", unsubscribe_funcs |-> << >>]

Init ==
    /\ PoolInit
    /\ MessengerInit
    /\ DispatcherInit
    /\ g_hwnd = FALSE
    /\ rolls = [r \in Rolls |-> NoRoll]
    /\ left \in Budgets

Spend(what) == left[what] > 0 /\ left' = [left EXCEPT ![what] = @ - 1]

Elsewhere(t) == t \in Callers /\ call[t] # "none"

-----------------------------------------------------------------------------
(* The UI thread handles one thing at a time.                              *)

UiIdle == broadcasts[ui] = << >> /\ accepting[ui] = NoJob

UserSubmits(key) ==
    /\ UiIdle
    /\ Spend("jobs")
    /\ submit_task(ui, key)
    /\ UNCHANGED <<busVars, dispatcherVars, rollVars>>

UiEnqueues == enqueue(ui) /\ UNCHANGED <<busVars, dispatcherVars, rollVars, left>>

UiBroadcasts(m) ==
    /\ UiIdle
    /\ Spend("broadcasts")
    /\ broadcast(ui, m)
    /\ UNCHANGED <<poolVars, dispatcherVars, rollVars>>

UiDispatches ==
    /\ UiIdle
    /\ loop_executes \/ window_executes
    /\ UNCHANGED <<poolVars, busVars, rollVars, left>>

UserOpensOrCloses ==
    /\ UiIdle
    /\ IF modal THEN UNCHANGED left ELSE Spend("dialogs")
    /\ dialog_opens_or_closes
    /\ UNCHANGED <<poolVars, busVars, rollVars>>

UserChangesSettings ==
    /\ UiIdle
    /\ Spend("settings")
    /\ settings_change
    /\ UNCHANGED <<poolVars, busVars, rollVars>>

-----------------------------------------------------------------------------
(* The jobs                                                                *)

InFunc(w) == running[w] # NoJob /\ ~returned[w] /\ broadcasts[w] = << >> /\ ~Elsewhere(w)

WorkerTakes(w) == run_task(w) /\ UNCHANGED <<busVars, dispatcherVars, rollVars, left>>

JobBroadcasts(w, m) ==
    /\ InFunc(w)
    /\ Spend("broadcasts")
    /\ broadcast(w, m)
    /\ UNCHANGED <<poolVars, dispatcherVars, rollVars>>

JobEnds(w) ==
    /\ InFunc(w)
    /\ func_returns(w)
    /\ UNCHANGED <<busVars, dispatcherVars, rollVars, left>>

JobThrows(w) ==
    /\ InFunc(w)
    /\ Spend("exceptions")
    /\ func_throws(w)
    /\ UNCHANGED <<busVars, dispatcherVars, rollVars>>

KeyErased(w) == erase_key(w) /\ UNCHANGED <<busVars, dispatcherVars, rollVars, left>>

-----------------------------------------------------------------------------
(* Broadcasts                                                              *)

BusStep(t) ==
    /\ ~Elsewhere(t)
    /\ BroadcastStep(t)
    /\ UNCHANGED <<poolVars, dispatcherVars, rollVars, left>>

\* A callback of the main window is invoked on the UI thread; that of the piano
\* roll finds its window closed or redraws it.
Callback(t) ==
    /\ ~Elsewhere(t)
    /\ call_subscriber(t)
    /\ IF t \in Callers /\ Head(Innermost(t).rest) = 0
       THEN invoke(t) ELSE UNCHANGED dispatcherVars
    /\ UNCHANGED <<poolVars, rollVars, left>>

\* A callback on the UI thread broadcasts in turn (Statusbar.cpp does, when the
\* emulator is launched).
CallbackBroadcasts(m) ==
    /\ Broadcasting(ui, "calling")
    /\ Spend("broadcasts")
    /\ broadcast(ui, m)
    /\ UNCHANGED <<poolVars, dispatcherVars, rollVars>>

Invoked(t) ==
    /\ push(t) \/ m_execute_callback(t) \/ invoke_returns(t)
    /\ UNCHANGED <<poolVars, busVars, rollVars, left>>

-----------------------------------------------------------------------------
(* The piano roll                                                          *)

SetRoll(r, stage, funcs) ==
    rolls' = [rolls EXCEPT ![r] = [stage |-> stage, unsubscribe_funcs |-> funcs]]

\* show starts a thread unless g_hwnd is set, which the thread only does once it
\* has subscribed: shown twice in between, the piano roll has two threads.
show(r) ==
    /\ UiIdle
    /\ Spend("rolls")
    /\ ~g_hwnd
    /\ rolls[r].stage = "none"
    /\ r = CHOOSE free \in Rolls : rolls[free].stage = "none"
    /\ SetRoll(r, "subscribing", << >>)
    /\ UNCHANGED <<poolVars, busVars, dispatcherVars, g_hwnd>>

RollSubscribes(r) ==
    /\ rolls[r].stage = "subscribing"
    /\ Len(rolls[r].unsubscribe_funcs) < Len(RollMessages)
    /\ subscribe(r, RollMessages[Len(rolls[r].unsubscribe_funcs) + 1])
    /\ UNCHANGED <<poolVars, dispatcherVars, rollVars, left>>

RollUnsubscribes(r) ==
    /\ rolls[r].stage = "unsubscribing"
    /\ rolls[r].unsubscribe_funcs # << >>
    /\ unsubscribe(r, Head(rolls[r].unsubscribe_funcs))
    /\ UNCHANGED <<poolVars, dispatcherVars, rollVars, left>>

RollStep(r) == SubscribeStep(r) /\ UNCHANGED <<poolVars, dispatcherVars, rollVars, left>>

\* subscribe returns the function that unsubscribes; when that returns it is done with.
RollReturns(r) ==
    /\ subscription_ends(r)
    /\ SetRoll(r, rolls[r].stage,
               IF Unsubscribing(r) THEN Tail(rolls[r].unsubscribe_funcs)
               ELSE Append(rolls[r].unsubscribe_funcs, subscription[r].uid))
    /\ UNCHANGED <<poolVars, dispatcherVars, g_hwnd, left>>

\* DialogBox: WM_INITDIALOG
RollOpens(r) ==
    /\ rolls[r].stage = "subscribing"
    /\ Subscribing(r, "none")
    /\ Len(rolls[r].unsubscribe_funcs) = Len(RollMessages)
    /\ g_hwnd' = TRUE
    /\ SetRoll(r, "open", rolls[r].unsubscribe_funcs)
    /\ UNCHANGED <<poolVars, busVars, dispatcherVars, left>>

\* WM_DESTROY clears g_hwnd, whichever window it is.
UserClosesRoll(r) ==
    /\ rolls[r].stage = "open"
    /\ g_hwnd' = FALSE
    /\ SetRoll(r, "unsubscribing", rolls[r].unsubscribe_funcs)
    /\ UNCHANGED <<poolVars, busVars, dispatcherVars, left>>

RollEnds(r) ==
    /\ rolls[r].stage = "unsubscribing"
    /\ Subscribing(r, "none")
    /\ rolls[r].unsubscribe_funcs = << >>
    /\ SetRoll(r, "none", << >>)
    /\ UNCHANGED <<poolVars, busVars, dispatcherVars, g_hwnd, left>>

RollProceeds(r) ==
    \/ RollSubscribes(r) \/ RollUnsubscribes(r) \/ RollStep(r) \/ RollReturns(r)
    \/ RollOpens(r) \/ RollEnds(r)

Next ==
    \/ \E key \in Job : UserSubmits(key)
    \/ UiEnqueues
    \/ \E m \in Messages : UiBroadcasts(m) \/ CallbackBroadcasts(m)
    \/ UiDispatches
    \/ UserOpensOrCloses
    \/ UserChangesSettings
    \/ \E w \in Workers :
         \/ WorkerTakes(w) \/ JobEnds(w) \/ JobThrows(w) \/ KeyErased(w) \/ Invoked(w)
         \/ \E m \in Messages : JobBroadcasts(w, m)
    \/ \E t \in BusThreads : BusStep(t) \/ Callback(t)
    \/ \E r \in Rolls : show(r) \/ RollProceeds(r) \/ UserClosesRoll(r)

Spec == Init /\ [][Next]_vars

(***************************************************************************)
(* Every thread goes on with what it has begun; nothing is assumed of the  *)
(* user, of exceptions or of what a job or a callback broadcasts.          *)
(***************************************************************************)
Fairness ==
    /\ WF_vars(UiEnqueues)
    /\ WF_vars(UiDispatches)
    /\ \A w \in Workers : WF_vars(WorkerTakes(w) \/ JobEnds(w) \/ KeyErased(w) \/ Invoked(w))
    /\ \A t \in BusThreads : WF_vars(BusStep(t) \/ Callback(t))
    /\ \A r \in Rolls : WF_vars(RollProceeds(r))

FairSpec == Spec /\ Fairness

-----------------------------------------------------------------------------
(* Properties                                                              *)

\* From some moment on the UI thread no longer answers: it stays in a dialog, or
\* fast_dispatcher was switched off while a call waited and stays off.
UiHeld == <>[](modal \/ Stranded)

\* Every call of invoke returns, from either setting of fast_dispatcher and with
\* the setting changed at any moment: the answer of the message loop is never
\* lost, unless the UI thread no longer answers (the named UiHeld).
InvokeReturns ==
    UiHeld \/ \A t \in Callers : call[t] # "none" ~> call[t] = "none"

\* A keyed job that does not end with an exception gives its key back, so that
\* the command can be given again.
KeysReleased ==
    UiHeld \/ \A key \in Keys : key \in pending_keys ~> (key \notin pending_keys \/ key \in thrown)

\* Broadcasts and subscriptions, which wait for each other's counters, all get
\* through, nested ones and those of several piano rolls included
\* (wait_for_subscribe_end and wait_for_broadcast_end spin without a limit).
BusWaitsEnd ==
    UiHeld \/
    \A t \in BusThreads :
        /\ Broadcasting(t, "waiting") ~> ~Broadcasting(t, "waiting")
        /\ ~Subscribing(t, "none") ~> Subscribing(t, "none")

=============================================================================
