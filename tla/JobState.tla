------------------------------ MODULE JobState ------------------------------
(***************************************************************************)
(* The job state machine of src/src/context/state.rs: the states, the      *)
(* table of allowed transitions and the terminal states.  "Absent" stands  *)
(* for a job id that is not (yet) a key of ContextManager.contexts.        *)
(***************************************************************************)

JobStates ==
    {"Pending", "InProgress", "Completed", "Submitted",
     "Accepted", "Failed", "Stuck", "Cancelled"}

Absent == "Absent"

\* JobState::can_transition_to, one pair per arm of its matches!.
Transitions ==
    {<<"Pending", "InProgress">>, <<"Pending", "Cancelled">>,
     <<"InProgress", "Completed">>, <<"InProgress", "Failed">>,
     <<"InProgress", "Stuck">>, <<"InProgress", "Cancelled">>,
     <<"Completed", "Submitted">>, <<"Completed", "Failed">>,
     <<"Submitted", "Accepted">>, <<"Submitted", "Failed">>,
     <<"Stuck", "InProgress">>, <<"Stuck", "Failed">>, <<"Stuck", "Cancelled">>}

\* Mutants of can_transition_to: a completed job may be cancelled; a job in
\* progress may be started again.
CanTransitionLax(from, to) == <<from, to>> \in Transitions \cup {<<"Completed", "Cancelled">>}
CanTransitionRetry(from, to) == <<from, to>> \in Transitions \cup {<<"InProgress", "InProgress">>}

CanTransition(from, to) == <<from, to>> \in Transitions

\* JobState::is_terminal.  Completed is not terminal: it awaits submission.
Terminal == {"Accepted", "Failed", "Cancelled"}

\* JobState::is_active, for the jobs that exist.
Active == JobStates \ Terminal

=============================================================================
