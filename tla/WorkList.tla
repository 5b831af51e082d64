------------------------------ MODULE WorkList ------------------------------
(***************************************************************************)
(* What a task may rely on when it makes promises: the runtime executes    *)
(* them one at a time in the order in which they were made, each once, and *)
(* none that is not allowed; a call adds what it promises to the end.      *)
(***************************************************************************)
EXTENDS Naturals, Sequences

CONSTANT
    Call        \* the kind that runs code of the task, which may promise more

VARIABLES
    allowed,    \* the kinds that are executed, the same for a whole run
    todo,       \* promises to execute, in order
    done,       \* what was executed
    stopped     \* the task has failed

listVars == <<allowed, todo, done, stopped>>

\* The list t is the list s with more at its end.
Prolongs(s, t) == Len(s) <= Len(t) /\ SubSeq(t, 1, Len(s)) = s

ListInit ==
    /\ todo = <<Call>>
    /\ done = <<>>
    /\ stopped = FALSE

Run ==
    /\ ~stopped /\ todo # <<>> /\ Head(todo) \in allowed
    /\ done' = Append(done, Head(todo))
    /\ IF Head(todo) = Call THEN Prolongs(Tail(todo), todo') ELSE todo' = Tail(todo)
    /\ UNCHANGED stopped

Skip ==
    /\ ~stopped /\ todo # <<>> /\ Head(todo) \notin allowed
    /\ todo' = Tail(todo)
    /\ UNCHANGED <<done, stopped>>

Fail ==
    /\ ~stopped /\ todo # <<>> /\ Head(todo) = Call
    /\ stopped' = TRUE
    /\ UNCHANGED <<todo, done>>

ListNext == (Run \/ Skip \/ Fail) /\ UNCHANGED allowed

ListSpec == ListInit /\ [][ListNext]_listVars
=============================================================================
