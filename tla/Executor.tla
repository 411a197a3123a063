------------------------------ MODULE Executor ------------------------------
(***************************************************************************)
(* What ThreadPool promises: tasks that submit accepted are begun in the   *)
(* order they were accepted, each once, at most Parallelism at a time, and *)
(* all of them are run even if the pool is closed meanwhile; a closed pool *)
(* accepts no more.                                                        *)
(***************************************************************************)
EXTENDS Naturals, Sequences, FiniteSets

CONSTANTS Tasks, Parallelism

VARIABLES accepted,  \* the accepted tasks, in order
          begun,     \* how many of them have begun
          finished,  \* those that have ended
          refused,   \* tasks turned away
          closed

vars == <<accepted, begun, finished, refused, closed>>

Accepted == {accepted[i] : i \in 1..Len(accepted)}
Running == {accepted[i] : i \in 1..begun} \ finished

Init ==
    /\ accepted = << >>
    /\ begun = 0
    /\ finished = {}
    /\ refused = {}
    /\ closed = FALSE

Accept(t) ==
    /\ ~closed
    /\ t \notin Accepted \cup refused
    /\ accepted' = Append(accepted, t)
    /\ UNCHANGED <<begun, finished, refused, closed>>

Refuse(t) ==
    /\ closed
    /\ t \notin Accepted \cup refused
    /\ refused' = refused \cup {t}
    /\ UNCHANGED <<accepted, begun, finished, closed>>

Begin ==
    /\ begun < Len(accepted)
    /\ Cardinality(Running) < Parallelism
    /\ begun' = begun + 1
    /\ UNCHANGED <<accepted, finished, refused, closed>>

Finish ==
    /\ \E t \in Running : finished' = finished \cup {t}
    /\ UNCHANGED <<accepted, begun, refused, closed>>

Close == ~closed /\ closed' = TRUE /\ UNCHANGED <<accepted, begun, finished, refused>>

Next == (\E t \in Tasks : Accept(t) \/ Refuse(t)) \/ Begin \/ Finish \/ Close

Spec == Init /\ [][Next]_vars /\ WF_vars(Begin) /\ WF_vars(Finish)
=============================================================================
