------------------------------ MODULE Dispatcher ------------------------------
(***************************************************************************)
(* The dispatcher of the main window (Dispatcher.cpp): invoke executes a   *)
(* function on the UI thread and waits for it.  With fast_dispatcher the   *)
(* two threads signal each other with auto-reset events that only the main *)
(* message loop looks at; otherwise invoke sends a window message, which   *)
(* the loop of a dialog handles as well (main_dispatcher_init, the message *)
(* loop and WM_EXECUTE_DISPATCHER of Main.cpp).                            *)
(***************************************************************************)
EXTENDS Naturals, Sequences, FiniteSets

CONSTANTS
    Callers,        \* threads other than the UI thread
    Nobody          \* the owner of m_mutex when it is free

ASSUME CallersAssumption == Nobody \notin Callers

VARIABLES
    m_mutex,
    m_queue,        \* the callers whose functions wait
    call,           \* per caller: how far its invoke is
    dispatcher_event, dispatcher_done_event,
    fast_dispatcher,
    modal           \* whether the UI thread is in the loop of a dialog

dispatcherVars ==
    <<m_mutex, m_queue, call, dispatcher_event, dispatcher_done_event, fast_dispatcher, modal>>

\* fast_dispatcher is as the configuration says; it is on by default.
DispatcherInit ==
    /\ m_mutex = Nobody
    /\ m_queue = << >>
    /\ call = [t \in Callers |-> "none"]
    /\ dispatcher_event = FALSE
    /\ dispatcher_done_event = FALSE
    /\ fast_dispatcher \in BOOLEAN
    /\ modal = FALSE

-----------------------------------------------------------------------------
(* Mutants                                                                 *)

\* The loop answers the event without executing the queue.
loop_answers_only ==
    /\ fast_dispatcher /\ ~modal /\ dispatcher_event
    /\ dispatcher_event' = FALSE
    /\ dispatcher_done_event' = TRUE
    /\ UNCHANGED <<m_mutex, m_queue, call, fast_dispatcher, modal>>

\* The loop forgets SetEvent(dispatcher_done_event).
loop_without_answer ==
    /\ fast_dispatcher /\ ~modal /\ dispatcher_event
    /\ dispatcher_event' = FALSE
    /\ m_queue' = << >>
    /\ UNCHANGED <<m_mutex, call, dispatcher_done_event, fast_dispatcher, modal>>

-----------------------------------------------------------------------------
(* invoke, on another thread than the UI thread                            *)

invoke(t) ==
    /\ call[t] = "none"
    /\ call' = [call EXCEPT ![t] = "invoked"]
    /\ UNCHANGED <<m_mutex, m_queue, dispatcher_event, dispatcher_done_event,
                   fast_dispatcher, modal>>

push(t) ==
    /\ call[t] = "invoked"
    /\ m_mutex = Nobody
    /\ m_mutex' = t
    /\ m_queue' = Append(m_queue, t)
    /\ call' = [call EXCEPT ![t] = "pushed"]
    /\ UNCHANGED <<dispatcher_event, dispatcher_done_event, fast_dispatcher, modal>>

\* m_execute_callback: SetEvent and WaitForSingleObject, or SendMessage
m_execute_callback(t) ==
    /\ call[t] = "pushed"
    /\ IF fast_dispatcher
       THEN dispatcher_event' = TRUE /\ call' = [call EXCEPT ![t] = "awaits_event"]
       ELSE call' = [call EXCEPT ![t] = "sent"] /\ UNCHANGED dispatcher_event
    /\ UNCHANGED <<m_mutex, m_queue, dispatcher_done_event, fast_dispatcher, modal>>

\* The wait is over: the event is reset, m_mutex is unlocked, invoke returns.
invoke_returns(t) ==
    /\ \/ call[t] = "awaits_event" /\ dispatcher_done_event /\ dispatcher_done_event' = FALSE
       \/ call[t] = "handled" /\ UNCHANGED dispatcher_done_event
    /\ call' = [call EXCEPT ![t] = "none"]
    /\ m_mutex' = IF m_mutex = t THEN Nobody ELSE m_mutex
    /\ UNCHANGED <<m_queue, dispatcher_event, fast_dispatcher, modal>>

-----------------------------------------------------------------------------
(* The UI thread                                                           *)

\* The main message loop sees dispatcher_event, executes the queue and answers.
loop_executes ==
    /\ fast_dispatcher /\ ~modal /\ dispatcher_event
    /\ dispatcher_event' = FALSE
    /\ m_queue' = << >>
    /\ dispatcher_done_event' = TRUE
    /\ UNCHANGED <<m_mutex, call, fast_dispatcher, modal>>

\* WM_EXECUTE_DISPATCHER, in whichever loop
window_executes ==
    \E t \in Callers :
        /\ call[t] = "sent"
        /\ m_queue' = << >>
        /\ call' = [call EXCEPT ![t] = "handled"]
        /\ UNCHANGED <<m_mutex, dispatcher_event, dispatcher_done_event, fast_dispatcher, modal>>

\* A dialog or a menu runs a loop of its own.
dialog_opens_or_closes ==
    /\ modal' = ~modal
    /\ UNCHANGED <<m_mutex, m_queue, call, dispatcher_event, dispatcher_done_event,
                   fast_dispatcher>>

\* The settings dialog changes fast_dispatcher.
settings_change ==
    /\ modal
    /\ fast_dispatcher' = ~fast_dispatcher
    /\ UNCHANGED <<m_mutex, m_queue, call, dispatcher_event, dispatcher_done_event, modal>>

-----------------------------------------------------------------------------
(* Properties                                                              *)

\* A call waits for an event that the message loop, with fast_dispatcher
\* switched off meanwhile, no longer looks at.
Stranded == ~fast_dispatcher /\ \E t \in Callers : call[t] = "awaits_event"


\* When invoke is about to return, its function has been executed: no answer of
\* the UI thread is taken for that of another call (m_mutex and the events).
InvokeIsSynchronous ==
    \A t \in Callers :
        call[t] = "handled" \/ (call[t] = "awaits_event" /\ dispatcher_done_event)
            => \A i \in 1 .. Len(m_queue) : m_queue[i] # t

=============================================================================
