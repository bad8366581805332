----------------------------- MODULE MCEvdPoll -----------------------------
(* Small instances of EvdPoll for TLC.                                     *)
EXTENDS EvdPoll, TLC

\* Sessions are interchangeable: only the unread initial value of cur tells them
\* apart.
Sessions == Permutations(Session)

\* Not more than one session asks for a condition at a time; every session can
\* be hung up.  Once descriptor 0 has been closed none asks, and the pipe gets 3.
OneAsks ==
  /\ Cardinality({s \in Session : cond_in[s] # {}}) <= 1
  /\ ~stdin => (\A s \in Session : cond_in[s] = {}) /\ interrupt_fd \in {0, 3}

\* Every thread leaves its thread default context alone: all sessions belong
\* to the default main context.
HomeDefault == [t \in Thread |-> Main]

\* Every thread has pushed a main context of its own.
HomeOwn == [t \in Thread |-> t]
=============================================================================
