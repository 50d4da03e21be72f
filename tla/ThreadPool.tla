------------------------------ MODULE ThreadPool ------------------------------
(***************************************************************************)
(* TP::ThreadPool and TP::ThreadSafeQueue, through which every request and *)
(* every search thread queries the blockchain.                             *)
(*                                                                         *)
(* A caller binds a task to references into its own stack frame, pushes it *)
(* and waits for its future, either with get() or, when it drops the       *)
(* future, in ~TaskFuture.  Each section under m_mutex is one step: m_valid *)
(* and m_queue are used nowhere else.  m_done is read without the mutex.   *)
(* The pool is a member of CurrentBlockchainStatus, which every caller     *)
(* keeps alive, so it is destroyed only when nobody waits for a task.      *)
(***************************************************************************)
EXTENDS Naturals, Sequences, FiniteSets

CONSTANTS
    Workers,   \* the threads of the pool
    Tasks,     \* the tasks that are submitted, each by a caller of its own
    Explicit,  \* those whose caller calls get(); the others drop the future
    Nothing    \* no task

ASSUME PoolAssumption ==
    /\ IsFiniteSet(Workers) /\ Workers # {}
    /\ Explicit \subseteq Tasks
    /\ Nothing \notin Tasks

VARIABLES
    phase,       \* building, up, then the stages of destroy()
    m_done,      \* ThreadPool::m_done
    m_valid,     \* ThreadSafeQueue::m_valid
    m_queue,     \* ThreadSafeQueue::m_queue
    pc,          \* where each thread of the pool is
    task,        \* pTask of each thread
    caller,      \* idle, waiting for the future, answered
    outcome,     \* what the packaged_task has put into the future
    terminated   \* std::terminate was called

vars == <<phase, m_done, m_valid, m_queue, pc, task, caller, outcome,
          terminated>>

TypeOK ==
    /\ phase \in {"building", "up", "flagged", "invalid", "gone"}
    /\ m_done \in BOOLEAN /\ m_valid \in BOOLEAN /\ terminated \in BOOLEAN
    /\ m_queue \in Seq(Tasks)
    /\ pc \in [Workers -> {"unborn", "check", "pop", "wait", "run", "end"}]
    /\ task \in [Workers -> Tasks \union {Nothing}]
    /\ caller \in [Tasks -> {"idle", "waiting", "answered"}]
    /\ outcome \in [Tasks -> {"none", "value", "exception"}]

Init ==
    /\ phase = "building"
    /\ m_done = FALSE /\ m_valid = TRUE /\ m_queue = <<>>
    /\ pc = [w \in Workers |-> "unborn"]
    /\ task = [w \in Workers |-> Nothing]
    /\ caller = [t \in Tasks |-> "idle"]
    /\ outcome = [t \in Tasks |-> "none"]
    /\ terminated = FALSE

At(w, l) == pc[w] = l

Goto(w, l) == pc' = [pc EXCEPT ![w] = l]

Sleeping == {w \in Workers : At(w, "wait")}

-------------------------------------------------------------------------------
(***************************************************************************)
(* The constructor and destroy()                                           *)
(***************************************************************************)
Spawn(w) ==
    /\ phase = "building" /\ At(w, "unborn")
    /\ Goto(w, "check")
    /\ UNCHANGED <<phase, m_done, m_valid, m_queue, task, caller, outcome,
                   terminated>>

Built ==
    /\ phase = "building" /\ \A w \in Workers : ~At(w, "unborn")
    /\ phase' = "up"
    /\ UNCHANGED <<m_done, m_valid, m_queue, pc, task, caller, outcome,
                   terminated>>

\* The pool is destroyed, or one of its threads could not be created.
Destroy ==
    /\ \/ phase = "building" /\ \E w \in Workers : At(w, "unborn")
       \/ phase = "up" /\ \A t \in Tasks : caller[t] # "waiting"
    /\ m_done' = TRUE
    /\ phase' = "flagged"
    /\ UNCHANGED <<m_valid, m_queue, pc, task, caller, outcome, terminated>>

\* Seeded fault: nobody is notified that the queue has become invalid.
InvalidateQuietly ==
    /\ phase = "flagged"
    /\ m_valid' = FALSE
    /\ phase' = "invalid"
    /\ UNCHANGED <<m_done, m_queue, pc, task, caller, outcome, terminated>>

Invalidate ==
    /\ phase = "flagged"
    /\ m_valid' = FALSE
    /\ pc' = [w \in Workers |-> IF At(w, "wait") THEN "pop" ELSE pc[w]]
    /\ phase' = "invalid"
    /\ UNCHANGED <<m_done, m_queue, task, caller, outcome, terminated>>

\* The joins have returned; the queue goes with the pool.
Join ==
    /\ phase = "invalid"
    /\ \A w \in Workers : pc[w] \in {"unborn", "end"}
    /\ phase' = "gone"
    /\ UNCHANGED <<m_done, m_valid, m_queue, pc, task, caller, outcome,
                   terminated>>

-------------------------------------------------------------------------------
(***************************************************************************)
(* Callers                                                                 *)
(***************************************************************************)
NotifyOne ==
    \/ Sleeping = {} /\ UNCHANGED pc
    \/ \E w \in Sleeping : Goto(w, "pop")

\* Seeded fault: only the push onto an empty queue notifies.
SubmitToEmpty(t) ==
    /\ phase = "up" /\ caller[t] = "idle"
    /\ caller' = [caller EXCEPT ![t] = "waiting"]
    /\ m_queue' = Append(m_queue, t)
    /\ IF m_queue = <<>> THEN NotifyOne ELSE UNCHANGED pc
    /\ UNCHANGED <<phase, m_done, m_valid, task, outcome, terminated>>

\* submit() and the push of ThreadSafeQueue.
Submit(t) ==
    /\ phase = "up" /\ caller[t] = "idle"
    /\ caller' = [caller EXCEPT ![t] = "waiting"]
    /\ m_queue' = Append(m_queue, t)
    /\ NotifyOne
    /\ UNCHANGED <<phase, m_done, m_valid, task, outcome, terminated>>

\* Seeded fault: ~TaskFuture does not wait.
TakeResultEarly(t) ==
    /\ caller[t] = "waiting"
    /\ \/ outcome[t] # "none"
       \/ t \notin Explicit
    /\ caller' = [caller EXCEPT ![t] = "answered"]
    /\ UNCHANGED <<phase, m_done, m_valid, m_queue, pc, task, outcome,
                   terminated>>

\* Seeded fault: an exception of the task never reaches its future.
TakeResultIfValue(t) ==
    /\ caller[t] = "waiting" /\ outcome[t] = "value"
    /\ caller' = [caller EXCEPT ![t] = "answered"]
    /\ UNCHANGED <<phase, m_done, m_valid, m_queue, pc, task, outcome,
                   terminated>>

\* get() returns the value or throws; a future that was dropped is read by
\* ~TaskFuture, out of which no exception may come.
TakeResult(t) ==
    /\ caller[t] = "waiting" /\ outcome[t] # "none"
    /\ caller' = [caller EXCEPT ![t] = "answered"]
    /\ terminated' = (outcome[t] = "exception" /\ t \notin Explicit)
    /\ UNCHANGED <<phase, m_done, m_valid, m_queue, pc, task, outcome>>

-------------------------------------------------------------------------------
(***************************************************************************)
(* The threads of the pool                                                 *)
(***************************************************************************)
CheckDone(w) ==
    /\ At(w, "check")
    /\ Goto(w, IF m_done THEN "end" ELSE "pop")
    /\ UNCHANGED <<phase, m_done, m_valid, m_queue, task, caller, outcome,
                   terminated>>

\* Seeded fault: the task stays at the front of the queue.
WaitPopKeeps(w) ==
    /\ At(w, "pop") /\ m_valid /\ m_queue # <<>>
    /\ task' = [task EXCEPT ![w] = Head(m_queue)]
    /\ Goto(w, "run")
    /\ UNCHANGED <<phase, m_done, m_valid, m_queue, caller, outcome,
                   terminated>>

WaitPop(w) ==
    /\ At(w, "pop") /\ m_valid /\ m_queue # <<>>
    /\ m_queue' = Tail(m_queue)
    /\ task' = [task EXCEPT ![w] = Head(m_queue)]
    /\ Goto(w, "run")
    /\ UNCHANGED <<phase, m_done, m_valid, caller, outcome, terminated>>

Block(w) ==
    /\ At(w, "pop") /\ m_valid /\ m_queue = <<>>
    /\ Goto(w, "wait")
    /\ UNCHANGED <<phase, m_done, m_valid, m_queue, task, caller, outcome,
                   terminated>>

\* The queue is invalid: waitPop returns false.
GiveUp(w) ==
    /\ At(w, "pop") /\ ~m_valid
    /\ Goto(w, "check")
    /\ UNCHANGED <<phase, m_done, m_valid, m_queue, task, caller, outcome,
                   terminated>>

\* A condition variable may wake up for no reason.
WakeSpuriously(w) ==
    /\ At(w, "wait")
    /\ Goto(w, "pop")
    /\ UNCHANGED <<phase, m_done, m_valid, m_queue, task, caller, outcome,
                   terminated>>

\* execute(): the packaged_task keeps what the task returns or throws.
Execute(w) ==
    /\ At(w, "run")
    /\ \E r \in {"value", "exception"} :
          outcome' = [outcome EXCEPT ![task[w]] = r]
    /\ task' = [task EXCEPT ![w] = Nothing]
    /\ Goto(w, "check")
    /\ UNCHANGED <<phase, m_done, m_valid, m_queue, caller, terminated>>

Worker(w) ==
    CheckDone(w) \/ WaitPop(w) \/ Block(w) \/ GiveUp(w) \/ Execute(w)

Next ==
    /\ ~terminated
    /\ \/ Built \/ Destroy \/ Invalidate \/ Join
       \/ \E t \in Tasks : Submit(t) \/ TakeResult(t)
       \/ \E w \in Workers : Spawn(w) \/ Worker(w) \/ WakeSpuriously(w)

Spec == Init /\ [][Next]_vars

\* Threads and callers keep running; nobody has to submit or to destroy, and
\* no wake-up comes by itself.
Fairness ==
    /\ \A w \in Workers : WF_vars(~terminated /\ Worker(w))
    /\ \A t \in Tasks : WF_vars(~terminated /\ TakeResult(t))
    /\ WF_vars(~terminated /\ (Invalidate \/ Join))

FairSpec == Spec /\ Fairness

-------------------------------------------------------------------------------
(***************************************************************************)
(* Properties                                                              *)
(***************************************************************************)
Queued == {m_queue[i] : i \in 1 .. Len(m_queue)}

Running == {task[w] : w \in {v \in Workers : At(v, "run")}}

\* The pool is the one of TaskPool: the push, the wake-ups and the race of
\* the threads for the front of the queue let every task start once, in the
\* order of the submissions.
Pool ==
    INSTANCE TaskPool WITH
        queue    <- m_queue,
        running  <- Running,
        finished <- {t \in Tasks : outcome[t] # "none"}

PoolSpec == Pool!Spec

\* A task that is queued or running refers to the stack frame of its caller:
\* the caller is still there, also one that drops its future.
FramesAlive ==
    \A t \in Queued \union Running : caller[t] = "waiting"

\* notify_one is enough: while a thread sleeps, every task in the queue has a
\* thread of its own that is awake and on its way to it, whichever thread
\* each wake-up reached and whoever took the task it was meant for.
Awake == {w \in Workers : pc[w] \in {"check", "pop"}}

WorkConserving ==
    phase = "up" /\ Sleeping # {} => Len(m_queue) <= Cardinality(Awake)

\* Every caller gets the outcome of its task, unless an exception that nobody
\* takes ends the process first.
TasksAnswered ==
    \A t \in Tasks :
        caller[t] = "waiting" ~> caller[t] = "answered" \/ terminated

\* destroy() comes back: no thread sleeps through the end of the pool, also
\* when the constructor gives up half-way.
DestroyCompletes == phase = "flagged" ~> phase = "gone" \/ terminated

===============================================================================
