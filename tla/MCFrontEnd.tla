----------------------------- MODULE MCFrontEnd -----------------------------
(* FrontEnd with a pool of two threads and up to two piano rolls.          *)
EXTENDS FrontEnd

Budget(jobs, exceptions, calls, pianoRolls, dialogs, settings) ==
    [jobs |-> jobs, exceptions |-> exceptions, broadcasts |-> calls,
     rolls |-> pianoRolls, dialogs |-> dialogs, settings |-> settings]

\* Commands given again and again; two jobs that dispatch to a UI thread that
\* opens the settings; a piano roll that comes and goes among broadcasts; the
\* piano roll shown twice.
Commands == Budget(4, 1, 0, 0, 0, 0)
Dispatching == Budget(2, 0, 2, 0, 1, 2)
PianoRoll == Budget(1, 0, 3, 1, 0, 0)
PianoRolls == Budget(0, 0, 1, 2, 0, 0)

MCBudgets == {Commands, Dispatching, PianoRoll, PianoRolls}

MCRollMessages == <<CHOOSE m \in Messages : TRUE>>

=============================================================================
