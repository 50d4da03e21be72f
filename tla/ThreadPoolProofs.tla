--------------------------- MODULE ThreadPoolProofs ---------------------------
(***************************************************************************)
(* Theorems about ThreadPool, for any number of threads and any tasks.     *)
(*                                                                         *)
(* Each task is in one place at a time: with its caller, in the queue, with *)
(* one thread, or done.  What the pool promises, and that no task outlives *)
(* the frame of its caller, follow from that.                              *)
(***************************************************************************)
EXTENDS ThreadPool, FiniteSetTheorems, SequenceTheorems, TLAPS

\* A task that has been submitted and has not run.
Pending(t) == caller[t] = "waiting" /\ outcome[t] = "none"

QueuedOnce ==
    \A i, j \in 1 .. Len(m_queue) : m_queue[i] = m_queue[j] => i = j

QueuedPending == \A i \in 1 .. Len(m_queue) : Pending(m_queue[i])

RunningPending ==
    \A w \in Workers :
        At(w, "run") =>
            /\ task[w] \in Tasks /\ Pending(task[w])
            /\ \A i \in 1 .. Len(m_queue) : m_queue[i] # task[w]

RunningOnce ==
    \A w, v \in Workers :
        At(w, "run") /\ At(v, "run") /\ task[w] = task[v] => w = v

IdleUnfinished == \A t \in Tasks : caller[t] = "idle" => outcome[t] = "none"

\* m_done and m_valid follow the phases of the pool.
PhaseOK ==
    /\ phase = "building" => m_queue = <<>>
    /\ phase \in {"building", "up"} => ~m_done /\ m_valid

Places ==
    /\ QueuedOnce /\ QueuedPending /\ RunningPending /\ RunningOnce
    /\ IdleUnfinished

IInv == TypeOK /\ PhaseOK /\ Places /\ WorkConserving

-------------------------------------------------------------------------------
(***************************************************************************)
(* Types                                                                   *)
(***************************************************************************)
LEMMA GotoTyped ==
    ASSUME TypeOK, NEW w, Goto(w, "check") \/ Goto(w, "pop")
                            \/ Goto(w, "wait") \/ Goto(w, "run")
                            \/ Goto(w, "end")
    PROVE  pc' \in [Workers ->
                      {"unborn", "check", "pop", "wait", "run", "end"}]
BY DEF TypeOK, Goto

LEMMA NotifyOneTyped ==
    ASSUME TypeOK, NotifyOne
    PROVE  pc' \in [Workers ->
                      {"unborn", "check", "pop", "wait", "run", "end"}]
<1>1. CASE UNCHANGED pc
  BY <1>1 DEF TypeOK
<1>2. CASE \E w \in Sleeping : Goto(w, "pop")
  BY <1>2, GotoTyped
<1> QED
  BY <1>1, <1>2 DEF NotifyOne

LEMMA LifeTyped ==
    ASSUME TypeOK, Built \/ Destroy \/ Invalidate \/ Join PROVE TypeOK'
<1>1. CASE Built
  BY <1>1 DEF Built, TypeOK
<1>2. CASE Destroy
  BY <1>2 DEF Destroy, TypeOK
<1>3. CASE Invalidate
  BY <1>3 DEF Invalidate, TypeOK
<1>4. CASE Join
  BY <1>4 DEF Join, TypeOK
<1> QED
  BY <1>1, <1>2, <1>3, <1>4

LEMMA CallerTyped ==
    ASSUME TypeOK, NEW t \in Tasks, Submit(t) \/ TakeResult(t) PROVE TypeOK'
<1>1. CASE Submit(t)
  <2>1. m_queue' \in Seq(Tasks)
    BY <1>1, AppendProperties DEF Submit, TypeOK
  <2>2. NotifyOne
    BY <1>1 DEF Submit
  <2> QED
    BY <1>1, <2>1, <2>2, NotifyOneTyped DEF Submit, TypeOK
<1>2. CASE TakeResult(t)
  BY <1>2 DEF TakeResult, TypeOK
<1> QED
  BY <1>1, <1>2

LEMMA WorkerTyped ==
    ASSUME TypeOK, RunningPending, NEW w \in Workers,
           Spawn(w) \/ Worker(w) \/ WakeSpuriously(w)
    PROVE  TypeOK'
<1>1. CASE Spawn(w) \/ CheckDone(w) \/ Block(w) \/ GiveUp(w)
             \/ WakeSpuriously(w)
  BY <1>1, GotoTyped
     DEF Spawn, CheckDone, Block, GiveUp, WakeSpuriously, TypeOK
<1>2. CASE WaitPop(w)
  <2>1. Head(m_queue) \in Tasks /\ Tail(m_queue) \in Seq(Tasks)
    BY <1>2, HeadTailProperties DEF WaitPop, TypeOK
  <2> QED
    BY <1>2, <2>1, GotoTyped DEF WaitPop, TypeOK
<1>3. CASE Execute(w)
  BY <1>3, GotoTyped DEF Execute, TypeOK
<1> QED
  BY <1>1, <1>2, <1>3 DEF Worker

LEMMA NextTyped ==
    ASSUME TypeOK, Places, [Next]_vars PROVE TypeOK'
<1>1. CASE Built \/ Destroy \/ Invalidate \/ Join
  BY <1>1, LifeTyped
<1>2. CASE \E t \in Tasks : Submit(t) \/ TakeResult(t)
  BY <1>2, CallerTyped
<1>3. CASE \E w \in Workers : Spawn(w) \/ Worker(w) \/ WakeSpuriously(w)
  BY <1>3, WorkerTyped DEF Places
<1>4. CASE UNCHANGED vars
  BY <1>4 DEF vars, TypeOK
<1> QED
  BY <1>1, <1>2, <1>3, <1>4 DEF Next

-------------------------------------------------------------------------------
(***************************************************************************)
(* Every task is in one place                                              *)
(***************************************************************************)
\* Threads that move without taking a task, or putting one down.
LEMMA MovesKeepPlaces ==
    ASSUME Places, UNCHANGED <<m_queue, task, caller, outcome>>,
           \A w \in Workers : pc'[w] = "run" => pc[w] = "run"
    PROVE  Places'
BY DEF Places, QueuedOnce, QueuedPending, RunningPending, RunningOnce,
       IdleUnfinished, Pending, At

\* The task that is submitted was with its caller.
LEMMA SubmitKeepsPlaces ==
    ASSUME TypeOK, Places, NEW t \in Tasks, Submit(t) PROVE Places'
<1>1. /\ Len(m_queue) \in Nat /\ Len(m_queue') = Len(m_queue) + 1
      /\ \A i \in 1 .. Len(m_queue) : m_queue'[i] = m_queue[i]
      /\ m_queue'[Len(m_queue) + 1] = t
  BY AppendProperties, LenProperties DEF Submit, TypeOK
<1>2. /\ caller[t] = "idle" /\ outcome[t] = "none" /\ outcome' = outcome
      /\ caller' = [caller EXCEPT ![t] = "waiting"] /\ task' = task
  BY DEF Submit, Places, IdleUnfinished
<1>3. \A u \in Tasks : Pending(u) => u # t /\ Pending(u)'
  BY <1>2 DEF TypeOK, Pending
<1>4. Pending(t)'
  BY <1>2 DEF TypeOK, Pending
<1>5. \A i \in 1 .. Len(m_queue) : m_queue[i] \in Tasks /\ m_queue[i] # t
  BY <1>3, ElementOfSeq DEF TypeOK, Places, QueuedPending
<1>6. QueuedOnce'
  BY <1>1, <1>5 DEF Places, QueuedOnce
<1>7. QueuedPending'
  BY <1>1, <1>3, <1>4, <1>5 DEF Places, QueuedPending
<1>8. \A w \in Workers : pc'[w] = "run" => pc[w] = "run"
  BY DEF Submit, NotifyOne, Goto, TypeOK
<1>9. RunningPending'
  BY <1>1, <1>2, <1>3, <1>8 DEF Places, RunningPending, At
<1>10. RunningOnce'
  BY <1>2, <1>8 DEF Places, RunningOnce, At
<1>11. IdleUnfinished'
  BY <1>2 DEF Places, IdleUnfinished, TypeOK
<1> QED
  BY <1>6, <1>7, <1>9, <1>10, <1>11 DEF Places

\* A caller whose task has run leaves nothing behind in the queue.
LEMMA TakeResultKeepsPlaces ==
    ASSUME TypeOK, Places, NEW t \in Tasks, TakeResult(t) PROVE Places'
<1>1. \A u \in Tasks : Pending(u) => Pending(u)'
  BY DEF TakeResult, Pending, TypeOK
<1>2. \A i \in 1 .. Len(m_queue) : m_queue[i] \in Tasks
  BY ElementOfSeq DEF TypeOK
<1>3. QueuedPending' /\ RunningPending'
  BY <1>1, <1>2
     DEF TakeResult, Places, QueuedPending, RunningPending, At
<1>4. IdleUnfinished'
  BY DEF TakeResult, Places, IdleUnfinished, TypeOK
<1> QED
  BY <1>3, <1>4 DEF TakeResult, Places, QueuedOnce, RunningOnce, At

\* The front of the queue moves to one thread.
LEMMA WaitPopKeepsPlaces ==
    ASSUME TypeOK, Places, NEW w \in Workers, WaitPop(w) PROVE Places'
<1>1. /\ Len(m_queue) \in Nat /\ Len(m_queue) > 0
      /\ Len(m_queue') = Len(m_queue) - 1
      /\ \A i \in 1 .. Len(m_queue') : m_queue'[i] = m_queue[i + 1]
  BY HeadTailProperties, LenProperties, EmptySeq DEF WaitPop, TypeOK
<1>2. /\ UNCHANGED <<caller, outcome>> /\ pc[w] = "pop"
      /\ task' = [task EXCEPT ![w] = m_queue[1]]
      /\ pc' = [pc EXCEPT ![w] = "run"]
  BY DEF WaitPop, At, Goto
<1>3. m_queue[1] \in Tasks /\ Pending(m_queue[1])
  BY <1>1, ElementOfSeq DEF TypeOK, Places, QueuedPending
<1>4. \A i \in 1 .. Len(m_queue') : m_queue'[i] # m_queue[1]
  BY <1>1 DEF Places, QueuedOnce
<1>5. QueuedOnce' /\ QueuedPending'
  BY <1>1, <1>2 DEF Places, QueuedOnce, QueuedPending, Pending
<1>6. \A v \in Workers : v # w => pc'[v] = pc[v] /\ task'[v] = task[v]
  BY <1>2 DEF TypeOK
<1>7. pc'[w] = "run" /\ task'[w] = m_queue[1]
  BY <1>2 DEF TypeOK
<1>8. RunningPending'
  <2> SUFFICES ASSUME NEW v \in Workers, pc'[v] = "run"
               PROVE  /\ task'[v] \in Tasks /\ Pending(task[v])'
                      /\ \A i \in 1 .. Len(m_queue') : m_queue'[i] # task'[v]
    BY DEF RunningPending, At
  <2>1. CASE v = w
    BY <1>2, <1>3, <1>4, <1>7, <2>1 DEF Pending
  <2>2. CASE v # w
    BY <1>1, <1>2, <1>6, <2>2 DEF Places, RunningPending, Pending, At
  <2> QED
    BY <2>1, <2>2
<1>9. \A v \in Workers : v # w /\ pc[v] = "run" => task[v] # m_queue[1]
  BY <1>1 DEF Places, RunningPending, At
<1>10. RunningOnce'
  BY <1>6, <1>7, <1>9 DEF Places, RunningOnce, At
<1> QED
  BY <1>2, <1>5, <1>8, <1>10 DEF Places, IdleUnfinished

\* A task that has run is with no other thread and not in the queue.
LEMMA ExecuteKeepsPlaces ==
    ASSUME TypeOK, Places, NEW w \in Workers, Execute(w) PROVE Places'
<1>1. PICK r \in {"value", "exception"} :
         outcome' = [outcome EXCEPT ![task[w]] = r]
  BY DEF Execute
<1>2. /\ UNCHANGED <<caller, m_queue>> /\ pc[w] = "run"
      /\ task' = [task EXCEPT ![w] = Nothing]
      /\ pc' = [pc EXCEPT ![w] = "check"]
  BY DEF Execute, At, Goto
<1>3. task[w] \in Tasks /\ Pending(task[w])
  BY <1>2 DEF Places, RunningPending, At
<1>4. \A u \in Tasks : u # task[w] /\ Pending(u) => Pending(u)'
  BY <1>1, <1>2 DEF Pending, TypeOK
<1>5. \A i \in 1 .. Len(m_queue) : m_queue[i] \in Tasks /\ m_queue[i] # task[w]
  BY <1>2, ElementOfSeq DEF TypeOK, Places, RunningPending, At
<1>6. QueuedOnce' /\ QueuedPending'
  BY <1>2, <1>4, <1>5 DEF Places, QueuedOnce, QueuedPending
<1>7. \A v \in Workers :
         pc'[v] = "run" =>
            v # w /\ pc[v] = "run" /\ task'[v] = task[v] /\ task[v] # task[w]
  BY <1>2 DEF TypeOK, Places, RunningOnce, At
<1>8. RunningPending'
  BY <1>2, <1>4, <1>7 DEF Places, RunningPending, At
<1>9. RunningOnce'
  BY <1>7 DEF Places, RunningOnce, At
<1>10. IdleUnfinished'
  BY <1>1, <1>2, <1>3 DEF Places, IdleUnfinished, Pending, TypeOK
<1> QED
  BY <1>6, <1>8, <1>9, <1>10 DEF Places

LEMMA NextKeepsPlaces ==
    ASSUME TypeOK, Places, [Next]_vars PROVE Places'
<1>1. CASE Built \/ Destroy \/ Join \/ UNCHANGED vars
  BY <1>1, MovesKeepPlaces DEF Built, Destroy, Join, vars
<1>2. CASE Invalidate
  BY <1>2, MovesKeepPlaces DEF Invalidate, At
<1>3. ASSUME NEW t \in Tasks, Submit(t) \/ TakeResult(t) PROVE Places'
  BY <1>3, SubmitKeepsPlaces, TakeResultKeepsPlaces
<1>4. ASSUME NEW w \in Workers, Spawn(w) \/ Worker(w) \/ WakeSpuriously(w)
      PROVE  Places'
  <2>1. CASE Spawn(w) \/ CheckDone(w) \/ Block(w) \/ GiveUp(w)
               \/ WakeSpuriously(w)
    <3>1. UNCHANGED <<m_queue, task, caller, outcome>>
      BY <2>1 DEF Spawn, CheckDone, Block, GiveUp, WakeSpuriously
    <3>2. \A v \in Workers : pc'[v] = "run" => pc[v] = "run"
      BY <2>1 DEF Spawn, CheckDone, Block, GiveUp, WakeSpuriously, Goto, TypeOK
    <3> QED
      BY <3>1, <3>2, MovesKeepPlaces
  <2>2. CASE WaitPop(w)
    BY <2>2, WaitPopKeepsPlaces
  <2>3. CASE Execute(w)
    BY <2>3, ExecuteKeepsPlaces
  <2> QED
    BY <1>4, <2>1, <2>2, <2>3 DEF Worker
<1> QED
  BY <1>1, <1>2, <1>3, <1>4 DEF Next

LEMMA NextKeepsPhase ==
    ASSUME TypeOK, PhaseOK, [Next]_vars PROVE PhaseOK'
<1>1. CASE Built \/ Destroy \/ Invalidate \/ Join
  BY <1>1 DEF Built, Destroy, Invalidate, Join, PhaseOK
<1>2. ASSUME NEW t \in Tasks, Submit(t) \/ TakeResult(t) PROVE PhaseOK'
  BY <1>2 DEF Submit, TakeResult, PhaseOK
<1>3. ASSUME NEW w \in Workers, Spawn(w) \/ Worker(w) \/ WakeSpuriously(w)
      PROVE  PhaseOK'
  <2>1. CASE WaitPop(w)
    BY <2>1 DEF WaitPop, PhaseOK
  <2>2. CASE Spawn(w) \/ CheckDone(w) \/ Block(w) \/ GiveUp(w) \/ Execute(w)
               \/ WakeSpuriously(w)
    BY <2>2 DEF Spawn, CheckDone, Block, GiveUp, Execute, WakeSpuriously,
                PhaseOK
  <2> QED
    BY <1>3, <2>1, <2>2 DEF Worker
<1>4. CASE UNCHANGED vars
  BY <1>4 DEF vars, PhaseOK
<1> QED
  BY <1>1, <1>2, <1>3, <1>4 DEF Next

-------------------------------------------------------------------------------
(***************************************************************************)
(* Wake-ups                                                                *)
(***************************************************************************)
LEMMA ThreadsFinite ==
    ASSUME NEW S \in SUBSET Workers
    PROVE  IsFiniteSet(S) /\ Cardinality(S) \in Nat
<1>1. IsFiniteSet(S)
  BY PoolAssumption, FS_Subset
<1> QED
  BY <1>1, FS_CardinalityType

\* No thread falls asleep and none takes up a task.
LEMMA AwakeGrows ==
    ASSUME WorkConserving, UNCHANGED <<m_queue, phase>>,
           Len(m_queue) \in Nat,
           Awake \subseteq Awake', Sleeping' \subseteq Sleeping
    PROVE  WorkConserving'
<1>1. Awake' \in SUBSET Workers /\ Awake \in SUBSET Awake'
  BY DEF Awake
<1>2. IsFiniteSet(Awake') /\ Cardinality(Awake') \in Nat
  BY <1>1, ThreadsFinite
<1>3. Cardinality(Awake) <= Cardinality(Awake')
  BY <1>1, <1>2, FS_Subset
<1>4. Cardinality(Awake) \in Nat
  BY <1>1, ThreadsFinite DEF Awake
<1> QED
  BY <1>2, <1>3, <1>4 DEF WorkConserving

LEMMA SubmitKeepsWork ==
    ASSUME TypeOK, WorkConserving, NEW t \in Tasks, Submit(t)
    PROVE  WorkConserving'
<1>1. Len(m_queue) \in Nat /\ Len(m_queue') = Len(m_queue) + 1
  BY AppendProperties, LenProperties DEF Submit, TypeOK
<1>2. CASE Sleeping = {} /\ UNCHANGED pc
  <2>1. Sleeping' = {}
    BY <1>2 DEF Sleeping, At
  <2> QED
    BY <2>1 DEF WorkConserving
<1>3. ASSUME NEW w \in Sleeping, Goto(w, "pop") PROVE WorkConserving'
  <2>1. w \notin Awake /\ Awake' = Awake \union {w}
    BY <1>3 DEF Awake, Sleeping, At, Goto, TypeOK
  <2>2. IsFiniteSet(Awake) /\ Cardinality(Awake) \in Nat
    BY ThreadsFinite DEF Awake
  <2>3. Cardinality(Awake') = Cardinality(Awake) + 1
    BY <2>1, <2>2, FS_AddElement
  <2>4. phase = "up" /\ Sleeping # {}
    BY <1>3 DEF Submit
  <2> QED
    BY <1>1, <2>2, <2>3, <2>4 DEF WorkConserving
<1> QED
  BY <1>2, <1>3 DEF Submit, NotifyOne

LEMMA WaitPopKeepsWork ==
    ASSUME TypeOK, WorkConserving, NEW w \in Workers, WaitPop(w)
    PROVE  WorkConserving'
<1>1. Len(m_queue) \in Nat /\ Len(m_queue') = Len(m_queue) - 1
  BY HeadTailProperties, LenProperties DEF WaitPop, TypeOK
<1>2. w \in Awake /\ Awake' = Awake \ {w} /\ Sleeping' = Sleeping
  BY DEF WaitPop, Awake, Sleeping, At, Goto, TypeOK
<1>3. IsFiniteSet(Awake) /\ Cardinality(Awake) \in Nat
  BY ThreadsFinite DEF Awake
<1>4. Cardinality(Awake') = Cardinality(Awake) - 1
  BY <1>2, <1>3, FS_RemoveElement
<1> QED
  BY <1>1, <1>2, <1>3, <1>4 DEF WorkConserving, WaitPop

\* An empty queue needs no thread.
LEMMA EmptyQueueConserves ==
    ASSUME m_queue' = <<>> PROVE WorkConserving'
<1>1. Awake' \in SUBSET Workers
  BY DEF Awake
<1>2. Cardinality(Awake') \in Nat
  BY <1>1, ThreadsFinite
<1>3. Len(m_queue') = 0
  BY EmptySeq
<1> QED
  BY <1>2, <1>3 DEF WorkConserving

LEMMA NextKeepsWork ==
    ASSUME TypeOK, PhaseOK, WorkConserving, [Next]_vars PROVE WorkConserving'
<1> Len(m_queue) \in Nat
  BY LenProperties DEF TypeOK
<1>1. CASE Built
  BY <1>1, EmptyQueueConserves DEF Built, PhaseOK
<1>2. CASE Destroy \/ Invalidate \/ Join
  BY <1>2 DEF Destroy, Invalidate, Join, WorkConserving
<1>3. ASSUME NEW t \in Tasks, Submit(t) \/ TakeResult(t) PROVE WorkConserving'
  <2>1. CASE TakeResult(t)
    BY <2>1, AwakeGrows DEF TakeResult, Awake, Sleeping, At
  <2> QED
    BY <1>3, <2>1, SubmitKeepsWork
<1>4. ASSUME NEW w \in Workers, Spawn(w) \/ Worker(w) \/ WakeSpuriously(w)
      PROVE  WorkConserving'
  <2>1. CASE Block(w) \/ Spawn(w)
    BY <2>1, EmptyQueueConserves DEF Block, Spawn, PhaseOK
  <2>2. CASE WaitPop(w)
    BY <2>2, WaitPopKeepsWork
  <2>3. CASE Execute(w) \/ WakeSpuriously(w)
    <3>1. Awake \subseteq Awake' /\ Sleeping' \subseteq Sleeping
      BY <2>3 DEF Execute, WakeSpuriously, Awake, Sleeping, At, Goto, TypeOK
    <3> QED
      BY <2>3, <3>1, AwakeGrows DEF Execute, WakeSpuriously
  <2>4. CASE (CheckDone(w) \/ GiveUp(w)) /\ phase = "up"
    <3>1. Awake \subseteq Awake' /\ Sleeping' \subseteq Sleeping
      BY <2>4 DEF CheckDone, GiveUp, PhaseOK, Awake, Sleeping, At, Goto, TypeOK
    <3> QED
      BY <2>4, <3>1, AwakeGrows DEF CheckDone, GiveUp
  <2>5. CASE (CheckDone(w) \/ GiveUp(w)) /\ phase # "up"
    BY <2>5 DEF CheckDone, GiveUp, WorkConserving
  <2> QED
    BY <1>4, <2>1, <2>2, <2>3, <2>4, <2>5 DEF Worker
<1>5. CASE UNCHANGED vars
  BY <1>5, AwakeGrows DEF vars, Awake, Sleeping, At
<1> QED
  BY <1>1, <1>2, <1>3, <1>4, <1>5 DEF Next

-------------------------------------------------------------------------------
(***************************************************************************)
(* Theorems                                                                *)
(***************************************************************************)
LEMMA InitEstablishes == Init => IInv
<1> SUFFICES ASSUME Init PROVE IInv
  OBVIOUS
<1>1. m_queue \in Seq(Tasks) /\ Len(m_queue) = 0
  BY EmptySeq DEF Init
<1>2. TypeOK /\ PhaseOK
  BY <1>1 DEF Init, TypeOK, PhaseOK
<1>3. Places
  BY <1>1 DEF Init, Places, QueuedOnce, QueuedPending, RunningPending,
              RunningOnce, IdleUnfinished, At
<1>4. WorkConserving
  BY DEF Init, WorkConserving
<1> QED
  BY <1>2, <1>3, <1>4 DEF IInv

\* The invariant behind the theorems, through submissions, wake-ups, a
\* constructor that fails and the end of the pool.
THEOREM Invariance == Spec => []IInv
<1>1. IInv /\ [Next]_vars => IInv'
  BY NextTyped, NextKeepsPlaces, NextKeepsPhase, NextKeepsWork DEF IInv
<1> QED
  BY <1>1, InitEstablishes, PTL DEF Spec

\* The queue holds tasks only and every thread and caller has its type.
THEOREM Typing == Spec => []TypeOK
<1>1. IInv => TypeOK
  BY DEF IInv
<1> QED
  BY <1>1, Invariance, PTL

\* No task is queued or running whose caller has left its stack frame.
THEOREM FramesStayAlive == Spec => []FramesAlive
<1>1. IInv => FramesAlive
  BY DEF IInv, Places, QueuedPending, RunningPending, Pending, FramesAlive,
         Queued, Running
<1> QED
  BY <1>1, Invariance, PTL

\* No wake-up is lost: while a thread of the pool sleeps there is a thread
\* awake for each task in the queue.
THEOREM NoLostWakeUp == Spec => []WorkConserving
<1>1. IInv => WorkConserving
  BY DEF IInv
<1> QED
  BY <1>1, Invariance, PTL

-------------------------------------------------------------------------------
Finished == {t \in Tasks : outcome[t] # "none"}

\* Steps that the abstract pool does not see.
LEMMA Hidden ==
    ASSUME UNCHANGED <<m_queue, task, outcome>>,
           \A w \in Workers : pc'[w] = "run" <=> pc[w] = "run"
    PROVE  UNCHANGED <<m_queue, Running, Finished>>
BY DEF Running, Finished, At

LEMMA SubmitRefines ==
    ASSUME IInv, NEW t \in Tasks, Submit(t) PROVE Pool!Submit(t)
<1>1. caller[t] = "idle" /\ outcome[t] = "none"
  BY DEF Submit, IInv, Places, IdleUnfinished
<1>2. t \notin {m_queue[i] : i \in 1 .. Len(m_queue)}
  BY <1>1 DEF IInv, Places, QueuedPending, Pending
<1>3. t \notin Running
  BY <1>1 DEF IInv, Places, RunningPending, Pending, Running
<1>4. \A w \in Workers : pc'[w] = "run" <=> pc[w] = "run"
  BY DEF Submit, NotifyOne, Goto, Sleeping, At, IInv, TypeOK
<1>5. UNCHANGED <<Running, Finished>>
  BY <1>4 DEF Submit, Running, Finished, At
<1> QED
  BY <1>1, <1>2, <1>3, <1>5
     DEF Submit, Pool!Submit, Pool!Queued, Finished

LEMMA WaitPopRefines ==
    ASSUME IInv, NEW w \in Workers, WaitPop(w) PROVE Pool!Start
<1>1. \A v \in Workers :
         v # w => (pc'[v] = pc[v] /\ task'[v] = task[v])
  BY DEF WaitPop, Goto, IInv, TypeOK
<1>2. pc[w] # "run" /\ pc'[w] = "run" /\ task'[w] = Head(m_queue)
  BY DEF WaitPop, Goto, At, IInv, TypeOK
<1>3. Running' = Running \union {Head(m_queue)}
  BY <1>1, <1>2 DEF Running, At
<1> QED
  BY <1>3 DEF WaitPop, Pool!Start

LEMMA ExecuteRefines ==
    ASSUME IInv, NEW w \in Workers, Execute(w)
    PROVE  \E t \in Tasks : Pool!Finish(t)
<1>1. PICK r \in {"value", "exception"} :
         outcome' = [outcome EXCEPT ![task[w]] = r]
  BY DEF Execute
<1>2. pc[w] = "run" /\ task[w] \in Tasks
  BY DEF Execute, At, IInv, Places, RunningPending
<1>3. \A v \in Workers :
         /\ pc'[v] = "run" <=> v # w /\ pc[v] = "run"
         /\ v # w => task'[v] = task[v]
  BY DEF Execute, Goto, IInv, TypeOK
<1>4. \A v \in Workers : v # w /\ pc[v] = "run" => task[v] # task[w]
  BY <1>2 DEF IInv, Places, RunningOnce, At
<1>5. Running' = Running \ {task[w]} /\ task[w] \in Running
  BY <1>2, <1>3, <1>4 DEF Running, At
<1>6. Finished' = Finished \union {task[w]}
  BY <1>1, <1>2 DEF Finished, IInv, TypeOK
<1>7. PICK t \in Tasks : t = task[w]
  BY <1>2
<1>8. Pool!Finish(t)
  BY <1>5, <1>6, <1>7 DEF Execute, Pool!Finish, Finished
<1> QED
  BY <1>8

\* The pool keeps the promise of TaskPool: each task starts once, in the order
\* of the submissions, and is finished after it has started.
THEOREM Refinement == Spec => PoolSpec
<1>1. Init => Pool!Init
  BY DEF Init, Pool!Init, Running, At
<1>2. IInv /\ [Next]_vars => [Pool!Next]_(Pool!vars)
  <2> SUFFICES ASSUME IInv, [Next]_vars
               PROVE  Pool!Next \/ UNCHANGED <<m_queue, Running, Finished>>
    BY DEF Pool!vars, Finished
  <2>1. CASE Built \/ Destroy \/ Join \/ UNCHANGED vars
    BY <2>1, Hidden DEF Built, Destroy, Join, vars
  <2>2. CASE Invalidate
    BY <2>2, Hidden DEF Invalidate, At
  <2>3. ASSUME NEW t \in Tasks, Submit(t) \/ TakeResult(t)
        PROVE  Pool!Next \/ UNCHANGED <<m_queue, Running, Finished>>
    <3>1. CASE Submit(t)
      BY <3>1, SubmitRefines DEF Pool!Next
    <3>2. CASE TakeResult(t)
      BY <3>2, Hidden DEF TakeResult
    <3> QED
      BY <2>3, <3>1, <3>2
  <2>4. ASSUME NEW w \in Workers, Spawn(w) \/ Worker(w) \/ WakeSpuriously(w)
        PROVE  Pool!Next \/ UNCHANGED <<m_queue, Running, Finished>>
    <3>1. CASE Spawn(w) \/ CheckDone(w) \/ Block(w) \/ GiveUp(w)
                 \/ WakeSpuriously(w)
      <4>1. \A v \in Workers : pc'[v] = "run" <=> pc[v] = "run"
        BY <3>1 DEF Spawn, CheckDone, Block, GiveUp, WakeSpuriously, Goto, At,
                    IInv, TypeOK
      <4>2. UNCHANGED <<m_queue, task, outcome>>
        BY <3>1 DEF Spawn, CheckDone, Block, GiveUp, WakeSpuriously
      <4> QED
        BY <4>1, <4>2, Hidden
    <3>2. CASE WaitPop(w)
      BY <3>2, WaitPopRefines DEF Pool!Next
    <3>3. CASE Execute(w)
      BY <3>3, ExecuteRefines DEF Pool!Next
    <3> QED
      BY <2>4, <3>1, <3>2, <3>3 DEF Worker
  <2> QED
    BY <2>1, <2>2, <2>3, <2>4 DEF Next
<1> QED
  BY <1>1, <1>2, Invariance, PTL DEF Spec, PoolSpec, Pool!Spec

===============================================================================
