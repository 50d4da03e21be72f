------------------------------- MODULE TaskPool -------------------------------
(***************************************************************************)
(* What the thread pool promises: the tasks that are submitted start in    *)
(* the order of their submission, each of them once, and a task is         *)
(* finished only after it has started.                                     *)
(***************************************************************************)
EXTENDS Naturals, Sequences

CONSTANT Tasks

VARIABLES queue, running, finished

vars == <<queue, running, finished>>

Init == queue = <<>> /\ running = {} /\ finished = {}

Queued == {queue[i] : i \in 1 .. Len(queue)}

Submit(t) ==
    /\ t \notin Queued \union running \union finished
    /\ queue' = Append(queue, t)
    /\ UNCHANGED <<running, finished>>

Start ==
    /\ queue # <<>>
    /\ queue' = Tail(queue)
    /\ running' = running \union {Head(queue)}
    /\ UNCHANGED finished

Finish(t) ==
    /\ t \in running
    /\ running' = running \ {t}
    /\ finished' = finished \union {t}
    /\ UNCHANGED queue

Next == Start \/ \E t \in Tasks : Submit(t) \/ Finish(t)

Spec == Init /\ [][Next]_vars

===============================================================================
