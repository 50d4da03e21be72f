-------------------------- MODULE SearchThreadsProofs --------------------------
(***************************************************************************)
(* Theorems about SearchThreads, for any accounts, objects and handlers.   *)
(*                                                                         *)
(* The map and the objects agree: an entry is the object of a thread that  *)
(* was started for that account, and the only started object that is in no *)
(* entry is the one the monitor joins, for whose account nothing can start *)
(* because the monitor holds the mutex of the map.                         *)
(***************************************************************************)
EXTENDS SearchThreads, TLAPS

\* The thread of o was created and is not joined; it may have ended.
Started(o) == life[o] \in {"launched", "loop", "tail", "ended"}

\* The monitor holds the mutex of the map exactly while it walks the map.
MutexInv ==
    searching_threads_map_mtx
        = IF monitor \in {"visit", "destroy", "join"} THEN "monitor" ELSE Nobody

\* An entry is an object that was started for its address and is not destroyed.
EntriesStarted ==
    \A a \in Addresses :
        Absent(a) \/ /\ searching_threads[a] \in alive
                     /\ account[searching_threads[a]] = a
                     /\ Started(searching_threads[a])

\* A started object is in its entry unless the monitor is joining its thread.
StartedMapped ==
    \A o \in Objects :
        Started(o) =>
            /\ account[o] \in Addresses
            /\ \/ searching_threads[account[o]] = o
               \/ monitor = "join" /\ o = victim

\* The object being erased is in its entry until it is destroyed, and its
\* entry stays empty until the thread is joined.
VictimInv ==
    /\ monitor \notin {"destroy", "join"} => victim = Nobody
    /\ monitor = "destroy" =>
          /\ Started(victim) /\ victim \in alive
          /\ searching_threads[account[victim]] = victim
          /\ account[victim] \notin todo
    /\ monitor = "join" =>
          Started(victim) /\ victim \notin alive /\ Absent(account[victim])

\* What clean_search_thread_map has still to visit is in the map.
TodoMapped == \A a \in todo : ~Absent(a)

\* An object that a handler has built and not yet started is its own.
BuiltOwned ==
    \A w \in Workers :
        worker[w].at = "start" =>
            /\ life[worker[w].object] = "new"
            /\ worker[w].object \in alive
            /\ account[worker[w].object] = worker[w].address
            /\ \A v \in Workers :
                  worker[v].at = "start" /\ worker[v].object = worker[w].object
                      => v = w

MapInv ==
    /\ MutexInv /\ EntriesStarted /\ StartedMapped /\ VictimInv /\ TodoMapped
    /\ BuiltOwned

IInv == TypeOK /\ MapInv

-------------------------------------------------------------------------------
(***************************************************************************)
(* Types                                                                   *)
(***************************************************************************)
WorkerRecords == [at : WorkerStates, address : Addresses,
                  object : Objects \union {Nobody}]

LEMMA IdleTyped == Idle \in WorkerRecords /\ Idle.at = "idle"
BY SearchThreadsAssumption DEF Idle, WorkerRecords, WorkerStates

LEMMA InitTyped == Init => TypeOK
<1> SUFFICES ASSUME Init PROVE TypeOK
  OBVIOUS
<1>1. worker \in [Workers -> WorkerRecords]
  BY IdleTyped DEF Init
<1>2. \A w \in Workers : worker[w].at = "idle"
  BY IdleTyped DEF Init
<1>3. QED
  BY <1>1, <1>2 DEF Init, TypeOK, Lives, MonitorStates, WorkerRecords

\* A step of a search thread.
LEMMA ThreadTyped ==
    ASSUME TypeOK, NEW o \in Objects,
           \/ Begin(o) \/ TimeOut(o) \/ Leave(o) \/ Tail(o) \/ ReturnEarly(o)
           \/ ThreadMisuses(o) \/ PingExpires(o)
    PROVE  TypeOK'
<1>1. CASE Begin(o)
  BY <1>1 DEF TypeOK, Begin, ThreadAt, ThreadFrame, mapVars, monitorVars, Lives
<1>2. CASE TimeOut(o)
  BY <1>2 DEF TypeOK, TimeOut, ThreadAt, ThreadFrame, mapVars, monitorVars, Lives
<1>3. CASE Leave(o)
  BY <1>3 DEF TypeOK, Leave, ThreadAt, ThreadFrame, mapVars, monitorVars, Lives
<1>4. CASE Tail(o)
  BY <1>4 DEF TypeOK, Tail, ThreadAt, ThreadFrame, mapVars, monitorVars, Lives
<1>5. CASE ReturnEarly(o)
  BY <1>5 DEF TypeOK, ReturnEarly, ThreadAt, ThreadFrame, mapVars, monitorVars,
              Lives
<1>6. CASE ThreadMisuses(o)
  BY <1>6 DEF TypeOK, ThreadMisuses, mapVars, monitorVars, objectVars
<1>7. CASE PingExpires(o)
  BY <1>7 DEF TypeOK, PingExpires, ThreadFrame, mapVars, monitorVars
<1>8. QED
  BY <1>1, <1>2, <1>3, <1>4, <1>5, <1>6, <1>7

\* A step of a handler.
LEMMA HandlerTyped ==
    ASSUME TypeOK, NEW w \in Workers, Handler(w) \/ BuildFails(w)
    PROVE  TypeOK'
<1>1. CASE SearchThreadExist(w)
  BY <1>1, IdleTyped
  DEF TypeOK, SearchThreadExist, At, Go, Answer, mapVars, monitorVars,
      objectVars, WorkerRecords, WorkerStates
<1>2. CASE BuildTxSearch(w)
  <2>1. PICK o \in Objects :
          /\ life' = [life EXCEPT ![o] = "new"]
          /\ alive' = alive \union {o}
          /\ account' = [account EXCEPT ![o] = worker[w].address]
          /\ continue_search' = [continue_search EXCEPT ![o] = TRUE]
          /\ pinged' = [pinged EXCEPT ![o] = TRUE]
          /\ worker' = [worker EXCEPT ![w].at = "start", ![w].object = o]
    BY <1>2 DEF BuildTxSearch
  <2>a. /\ worker'[w].at = "start" /\ worker'[w].object = o
        /\ worker'[w].address = worker[w].address
        /\ worker'[w] \in WorkerRecords
    BY <2>1 DEF TypeOK, WorkerRecords, WorkerStates
  <2>b. \A v \in Workers : v # w => worker'[v] = worker[v]
    BY <2>1 DEF TypeOK
  <2>c. worker' = [v \in Workers |-> worker'[v]]
    BY <2>1 DEF TypeOK
  <2>2. /\ worker' \in [Workers -> WorkerRecords]
        /\ \A v \in Workers :
              worker'[v].at \in {"start", "using"}
                  => worker'[v].object \in Objects
    BY <2>a, <2>b, <2>c DEF TypeOK, WorkerRecords
  <2>3. QED
    BY <1>2, <2>1, <2>2
    DEF TypeOK, BuildTxSearch, mapVars, monitorVars, Lives, WorkerRecords
<1>3. CASE StartTxSearchThread(w)
  <2>1. worker[w].object \in Objects /\ worker[w].address \in Addresses
    BY <1>3 DEF TypeOK, StartTxSearchThread, At
  <2>0. /\ worker' \in [Workers -> WorkerRecords]
        /\ \A v \in Workers :
              worker'[v].at \in {"start", "using"}
                  => worker'[v].object \in Objects
    BY <1>3, IdleTyped
    DEF TypeOK, StartTxSearchThread, Answer, WorkerRecords
  <2>2. CASE Absent(worker[w].address)
    BY <1>3, <2>0, <2>1, <2>2
    DEF TypeOK, StartTxSearchThread, monitorVars, Lives, WorkerRecords
  <2>3. CASE ~Absent(worker[w].address)
    BY <1>3, <2>0, <2>1, <2>3
    DEF TypeOK, StartTxSearchThread, Release, monitorVars, Lives, WorkerRecords
  <2>4. QED
    BY <2>2, <2>3
<1>4. CASE GetSearchThread(w)
  BY <1>4, IdleTyped
  DEF TypeOK, GetSearchThread, At, Absent, Answer, mapVars, monitorVars,
      objectVars, WorkerRecords, WorkerStates
<1>5. CASE UseSearchThread(w)
  BY <1>5, IdleTyped
  DEF TypeOK, UseSearchThread, At, Answer, mapVars, monitorVars, objectVars,
      WorkerRecords
<1>6. CASE BuildFails(w)
  BY <1>6, IdleTyped
  DEF TypeOK, BuildFails, At, Answer, mapVars, monitorVars, objectVars,
      WorkerRecords
<1>7. QED
  BY <1>1, <1>2, <1>3, <1>4, <1>5, <1>6 DEF Handler

\* A request arrives.
LEMMA RequestTyped ==
    ASSUME TypeOK, NEW w \in Workers, NEW a \in Addresses,
           Login(w, a) \/ PingSearchThread(w, a) \/ FindTxsInMempool(w, a)
    PROVE  TypeOK'
<1>1. CASE Login(w, a)
  BY <1>1, IdleTyped
  DEF TypeOK, Login, Receive, mapVars, monitorVars, objectVars, WorkerRecords,
      WorkerStates
<1>2. CASE PingSearchThread(w, a)
  BY <1>2
  DEF TypeOK, PingSearchThread, Absent, mapVars, monitorVars
<1>3. CASE FindTxsInMempool(w, a)
  BY <1>3, IdleTyped
  DEF TypeOK, FindTxsInMempool, Receive, mapVars, monitorVars, objectVars,
      WorkerRecords, WorkerStates
<1>4. QED
  BY <1>1, <1>2, <1>3

\* A step of the monitor: what it visits is in the map.
LEMMA MonitorTyped ==
    ASSUME TypeOK, TodoMapped, Monitor
    PROVE  TypeOK'
<1>1. CASE MonitorRound
  BY <1>1 DEF TypeOK, MonitorRound, MonitorAt, mapVars, objectVars,
              MonitorStates
<1>2. CASE StopSearchThreads
  BY <1>2 DEF TypeOK, StopSearchThreads, MonitorAt, mapVars, MonitorStates
<1>3. CASE CleanSearchThreadMap
  BY <1>3 DEF TypeOK, CleanSearchThreadMap, MonitorAt, objectVars,
              MonitorStates
<1>4. ASSUME NEW a \in Addresses, VisitEntry(a) PROVE TypeOK'
  <2>1. searching_threads[a] \in Objects
    BY <1>4 DEF TypeOK, TodoMapped, Absent, VisitEntry
  <2>2. QED
    BY <1>4, <2>1 DEF TypeOK, VisitEntry, MonitorAt, mapVars, objectVars,
                      MonitorStates
<1>5. CASE DestroyTxSearch
  BY <1>5 DEF TypeOK, DestroyTxSearch, MonitorAt, MonitorStates
<1>6. CASE JoinThread
  BY <1>6 DEF TypeOK, JoinThread, MonitorAt, Release, mapVars, objectVars,
              MonitorStates, Lives
<1>7. CASE CleanDone
  BY <1>7 DEF TypeOK, CleanDone, MonitorAt, objectVars, MonitorStates
<1>8. QED
  BY <1>1, <1>2, <1>3, <1>4, <1>5, <1>6, <1>7 DEF Monitor

LEMMA StepTyped == TypeOK /\ TodoMapped /\ [Next]_vars => TypeOK'
<1> SUFFICES ASSUME TypeOK, TodoMapped, [Next]_vars PROVE TypeOK'
  OBVIOUS
<1>1. CASE StopService \/ Exit
  BY <1>1 DEF TypeOK, StopService, Exit, mapVars, objectVars, monitorVars
<1>2. CASE UNCHANGED vars
  BY <1>2 DEF TypeOK, vars, mapVars, objectVars, monitorVars
<1>3. QED
  BY <1>1, <1>2, ThreadTyped, HandlerTyped, RequestTyped, MonitorTyped DEF Next

-------------------------------------------------------------------------------
(***************************************************************************)
(* The map and the objects                                                 *)
(***************************************************************************)
LEMMA InitMapInv == Init => MapInv
BY IdleTyped, SearchThreadsAssumption
DEF Init, MapInv, MutexInv, EntriesStarted, StartedMapped, VictimInv,
    TodoMapped, BuiltOwned, Started, Absent

\* A step that leaves the map, its walk and the ownership of objects alone: a
\* thread that was started may go on, and no handler enters or leaves "start".
Quiet ==
    /\ UNCHANGED <<mapVars, account, alive, todo, victim>>
    /\ \/ monitor' = monitor
       \/ {monitor, monitor'} \subseteq {"round", "lock"}
    /\ \A o \in Objects : life'[o] = life[o] \/ (Started(o) /\ Started(o)')
    /\ \A w \in Workers :
          \/ worker'[w] = worker[w]
          \/ worker[w].at # "start" /\ worker'[w].at # "start"

LEMMA QuietKeeps ==
    ASSUME IInv, Quiet
    PROVE  MapInv'
<1> USE DEF IInv, MapInv
<1>1. MutexInv'
  BY DEF Quiet, MutexInv, mapVars
<1>2. EntriesStarted'
  BY DEF Quiet, EntriesStarted, Started, Absent, mapVars, TypeOK
<1>3. StartedMapped'
  BY DEF Quiet, StartedMapped, Started, mapVars
<1>4. VictimInv'
  BY DEF Quiet, VictimInv, Started, Absent, mapVars, TypeOK
<1>5. TodoMapped'
  BY DEF Quiet, TodoMapped, Absent, mapVars
<1>6. BuiltOwned'
  <2> SUFFICES ASSUME NEW w \in Workers, (worker[w].at = "start")'
               PROVE  /\ (life[worker[w].object] = "new")'
                      /\ (worker[w].object \in alive)'
                      /\ (account[worker[w].object] = worker[w].address)'
                      /\ \A v \in Workers :
                            (worker[v].at = "start"
                               /\ worker[v].object = worker[w].object)' => v = w
    BY DEF BuiltOwned
  <2>1. worker'[w] = worker[w] /\ worker[w].object \in Objects
    BY DEF Quiet, TypeOK
  <2>2. life[worker[w].object] = "new" /\ ~Started(worker[w].object)
    BY <2>1 DEF BuiltOwned, Started
  <2>3. \A v \in Workers :
          worker'[v].at = "start" => worker'[v] = worker[v]
    BY DEF Quiet
  <2>4. QED
    BY <2>1, <2>2, <2>3 DEF Quiet, BuiltOwned
<1>7. QED
  BY <1>1, <1>2, <1>3, <1>4, <1>5, <1>6

\* The search threads only move on.
LEMMA ThreadQuiet ==
    ASSUME TypeOK, NEW o \in Objects,
           \/ Begin(o) \/ TimeOut(o) \/ Leave(o) \/ Tail(o) \/ ReturnEarly(o)
           \/ ThreadMisuses(o) \/ PingExpires(o)
    PROVE  Quiet
<1>1. UNCHANGED <<mapVars, account, alive, worker, monitorVars>>
  BY DEF Begin, TimeOut, Leave, Tail, ReturnEarly, ThreadMisuses, PingExpires,
         ThreadFrame, objectVars
<1>2. \A p \in Objects : life'[p] = life[p] \/ (Started(p) /\ Started(p)')
  BY DEF Begin, TimeOut, Leave, Tail, ReturnEarly, ThreadMisuses, PingExpires,
         ThreadAt, Started, TypeOK, objectVars
<1>3. QED
  BY <1>1, <1>2 DEF Quiet, mapVars, monitorVars

\* Handlers that neither build nor start an object.
LEMMA RequestQuiet ==
    ASSUME TypeOK, NEW w \in Workers,
           \/ SearchThreadExist(w) \/ GetSearchThread(w) \/ UseSearchThread(w)
           \/ BuildFails(w)
           \/ \E a \in Addresses :
                 Login(w, a) \/ PingSearchThread(w, a) \/ FindTxsInMempool(w, a)
    PROVE  Quiet
<1>1. UNCHANGED <<mapVars, life, account, alive, monitorVars>>
  BY DEF SearchThreadExist, GetSearchThread, UseSearchThread, BuildFails, Login,
         PingSearchThread, FindTxsInMempool, Receive, objectVars
<1>2. \A v \in Workers :
        \/ worker'[v] = worker[v]
        \/ worker[v].at # "start" /\ worker'[v].at # "start"
  <2>1. CASE \/ SearchThreadExist(w) \/ GetSearchThread(w)
             \/ UseSearchThread(w) \/ BuildFails(w)
    BY <2>1, IdleTyped
    DEF SearchThreadExist, GetSearchThread, UseSearchThread, BuildFails, At, Go,
        Answer, TypeOK, WorkerRecords
  <2>2. CASE \E a \in Addresses :
               Login(w, a) \/ PingSearchThread(w, a) \/ FindTxsInMempool(w, a)
    <3>1. PICK a \in Addresses :
            Login(w, a) \/ PingSearchThread(w, a) \/ FindTxsInMempool(w, a)
      BY <2>2
    <3>2. worker[w].at = "idle"
      BY <3>1 DEF Login, PingSearchThread, FindTxsInMempool, Receive, At
    <3>3. \/ worker' = worker
          \/ \E s \in {"exist", "count"} :
                worker' = [worker EXCEPT ![w] = [Idle EXCEPT !.at = s,
                                                             !.address = a]]
      BY <3>1 DEF Login, PingSearchThread, FindTxsInMempool, Receive
    <3>4. \A s \in {"exist", "count"} :
            [Idle EXCEPT !.at = s, !.address = a].at = s
      BY IdleTyped DEF WorkerRecords
    <3>5. QED
      BY <3>2, <3>3, <3>4 DEF TypeOK
  <2>3. QED
    BY <2>1, <2>2
<1>3. QED
  BY <1>1, <1>2 DEF Quiet, mapVars, monitorVars

\* A new object belongs to the handler that built it, and to nobody else.
LEMMA BuildKeeps ==
    ASSUME IInv, NEW w \in Workers, BuildTxSearch(w)
    PROVE  MapInv'
<1> USE DEF IInv, MapInv
<1>1. PICK o \in Objects :
        /\ life[o] = "unused"
        /\ life' = [life EXCEPT ![o] = "new"]
        /\ alive' = alive \union {o}
        /\ account' = [account EXCEPT ![o] = worker[w].address]
        /\ worker' = [worker EXCEPT ![w].at = "start", ![w].object = o]
  BY DEF BuildTxSearch
<1>2. UNCHANGED <<mapVars, monitorVars>>
  BY DEF BuildTxSearch
<1>3. \A p \in Objects : Started(p) =>
        p # o /\ Started(p)' /\ account'[p] = account[p]
  BY <1>1 DEF Started, TypeOK
<1>4. \A p \in Objects : Started(p)' => Started(p)
  BY <1>1 DEF Started, TypeOK
<1>5. \A p \in Objects : p # o => (p \in alive' <=> p \in alive)
  BY <1>1
<1>6. MutexInv' /\ TodoMapped'
  BY <1>2 DEF MutexInv, TodoMapped, Absent, mapVars, monitorVars
<1>7. EntriesStarted'
  BY <1>2, <1>3, <1>5 DEF EntriesStarted, Absent, mapVars, TypeOK
<1>8. StartedMapped'
  BY <1>2, <1>3, <1>4 DEF StartedMapped, mapVars, monitorVars
<1>9. VictimInv'
  <2>1. Started(victim) /\ victim \in Objects =>
          /\ Started(victim)' /\ account'[victim] = account[victim]
          /\ victim \in alive' <=> victim \in alive
    BY <1>3, <1>5, <1>2 DEF monitorVars, Started
  <2>2. monitor \in {"destroy", "join"} => victim \in Objects
    BY DEF TypeOK
  <2>3. QED
    BY <2>1, <2>2, <1>2 DEF VictimInv, Absent, mapVars, monitorVars
<1>10. BuiltOwned'
  <2>1. /\ worker'[w].at = "start" /\ worker'[w].object = o
        /\ worker'[w].address = worker[w].address
    BY <1>1 DEF TypeOK
  <2>2. \A v \in Workers : v # w => worker'[v] = worker[v]
    BY <1>1 DEF TypeOK
  <2>3. /\ life'[o] = "new" /\ o \in alive'
        /\ account'[o] = worker[w].address
    BY <1>1 DEF TypeOK
  <2>4. \A v \in Workers :
          worker[v].at = "start" =>
              /\ worker[v].object \in Objects /\ worker[v].object # o
              /\ life'[worker[v].object] = life[worker[v].object]
              /\ account'[worker[v].object] = account[worker[v].object]
    BY <1>1 DEF TypeOK, BuiltOwned
  <2>5. QED
    BY <2>1, <2>2, <2>3, <2>4, <1>5 DEF BuiltOwned
<1>11. QED
  BY <1>6, <1>7, <1>8, <1>9, <1>10

\* What a handler in "start" does to the other handlers there: nothing.
LEMMA OthersOwn ==
    ASSUME IInv, NEW w \in Workers, worker[w].at = "start", Answer(w),
           \A o \in Objects :
               o # worker[w].object =>
                   /\ life'[o] = life[o] /\ account'[o] = account[o]
                   /\ o \in alive' <=> o \in alive
    PROVE  BuiltOwned'
<1>1. worker'[w].at = "idle"
  BY IdleTyped DEF Answer, IInv, TypeOK
<1>2. \A v \in Workers : v # w => worker'[v] = worker[v]
  BY DEF Answer, IInv, TypeOK
<1>3. \A v \in Workers :
        worker'[v].at = "start" =>
            /\ v # w /\ worker'[v] = worker[v]
            /\ worker[v].object \in Objects /\ worker[v].object # worker[w].object
  BY <1>1, <1>2 DEF IInv, MapInv, BuiltOwned, TypeOK
<1>4. QED
  BY <1>3 DEF IInv, MapInv, BuiltOwned

\* The map has no entry for the address, and because the mutex is free the
\* monitor is joining no thread either: the new thread is the only one.
LEMMA StartKeeps ==
    ASSUME IInv, NEW w \in Workers, StartTxSearchThread(w),
           Absent(worker[w].address)
    PROVE  MapInv'
<1> DEFINE a == worker[w].address
           o == worker[w].object
<1>1. /\ o \in Objects /\ a \in Addresses /\ worker[w].at = "start"
      /\ life[o] = "new" /\ o \in alive /\ account[o] = a
  BY DEF IInv, MapInv, BuiltOwned, TypeOK, StartTxSearchThread, At
<1>2. /\ searching_threads' = [searching_threads EXCEPT ![a] = o]
      /\ life' = [life EXCEPT ![o] = "launched"]
      /\ UNCHANGED <<account, alive, searching_threads_map_mtx, monitorVars>>
      /\ Answer(w) /\ searching_threads[a] = Nobody
  BY DEF StartTxSearchThread, Absent
<1>3. monitor \notin {"visit", "destroy", "join"} /\ victim = Nobody
  BY SearchThreadsAssumption
  DEF IInv, MapInv, MutexInv, VictimInv, StartTxSearchThread, MapMutexFree
<1>4. BuiltOwned'
  <2>1. \A p \in Objects : p # o => life'[p] = life[p]
    BY <1>1, <1>2 DEF IInv, TypeOK
  <2>2. QED
    BY <1>1, <1>2, <2>1, OthersOwn
<1> HIDE DEF a, o
<1>5. MutexInv' /\ VictimInv'
  BY <1>2, <1>3 DEF IInv, MapInv, MutexInv, VictimInv, monitorVars
<1>6. EntriesStarted'
  BY <1>1, <1>2 DEF IInv, MapInv, EntriesStarted, Started, Absent, TypeOK
<1>7. StartedMapped'
  <2>1. account'[o] = a /\ searching_threads'[a] = o
    BY <1>1, <1>2 DEF IInv, TypeOK
  <2>2. \A p \in Objects :
          p # o => life'[p] = life[p] /\ account'[p] = account[p]
    BY <1>1, <1>2 DEF IInv, TypeOK
  <2>3. \A p \in Objects :
          Started(p) => /\ account[p] \in Addresses
                        /\ searching_threads[account[p]] = p
                        /\ account[p] # a
    BY <1>2, <1>3, SearchThreadsAssumption
    DEF IInv, MapInv, StartedMapped, TypeOK
  <2>4. \A b \in Addresses : b # a => searching_threads'[b] = searching_threads[b]
    BY <1>2 DEF IInv, TypeOK
  <2>5. QED
    BY <1>1, <2>1, <2>2, <2>3, <2>4 DEF StartedMapped, Started
<1>8. TodoMapped'
  BY <1>1, <1>2, SearchThreadsAssumption
  DEF IInv, MapInv, TodoMapped, Absent, TypeOK, monitorVars
<1>9. QED
  BY <1>4, <1>5, <1>6, <1>7, <1>8 DEF MapInv

\* The address has an entry: the handler destroys the object it built.
LEMMA ReleaseKeeps ==
    ASSUME IInv, NEW w \in Workers, StartTxSearchThread(w),
           ~Absent(worker[w].address)
    PROVE  MapInv'
<1> DEFINE o == worker[w].object
<1>1. /\ o \in Objects /\ worker[w].at = "start"
      /\ life[o] = "new" /\ o \in alive
  BY DEF IInv, MapInv, BuiltOwned, TypeOK, StartTxSearchThread, At
<1>2. Release(o) /\ UNCHANGED <<mapVars, monitorVars>> /\ Answer(w)
  BY DEF StartTxSearchThread, mapVars
<1>3. BuiltOwned'
  <2>1. \A p \in Objects :
          p # o => /\ life'[p] = life[p] /\ account'[p] = account[p]
                   /\ p \in alive' <=> p \in alive
    BY <1>1, <1>2 DEF IInv, TypeOK, Release
  <2>2. QED
    BY <1>1, <1>2, <2>1, OthersOwn
<1> HIDE DEF o
<1>4. \A p \in Objects :
        /\ Started(p)' <=> Started(p)
        /\ Started(p) => account'[p] = account[p] /\ (p \in alive' <=> p \in alive)
  BY <1>1, <1>2 DEF IInv, TypeOK, Release, Started
<1>5. MutexInv' /\ TodoMapped'
  BY <1>2 DEF IInv, MapInv, MutexInv, TodoMapped, Absent, mapVars, monitorVars
<1>6. EntriesStarted'
  BY <1>2, <1>4 DEF IInv, MapInv, EntriesStarted, Absent, mapVars, TypeOK
<1>7. StartedMapped'
  BY <1>2, <1>4 DEF IInv, MapInv, StartedMapped, mapVars, monitorVars
<1>8. VictimInv'
  <2>1. monitor \in {"destroy", "join"} => victim \in Objects
    BY DEF IInv, TypeOK
  <2>2. victim' = victim /\ monitor' = monitor /\ todo' = todo
    BY <1>2 DEF monitorVars
  <2>3. monitor \in {"destroy", "join"} =>
          /\ Started(victim)' <=> Started(victim)
          /\ Started(victim) => /\ account'[victim] = account[victim]
                                /\ victim \in alive' <=> victim \in alive
    BY <2>1, <2>2, <1>4 DEF Started
  <2>4. QED
    BY <1>2, <2>2, <2>3 DEF IInv, MapInv, VictimInv, Absent, mapVars
<1>9. QED
  BY <1>3, <1>5, <1>6, <1>7, <1>8 DEF MapInv

\* The monitor takes the mutex and notes the entries, one it finds finished is
\* its victim, and it gives the mutex back when none is left.
LEMMA WalkKeeps ==
    ASSUME IInv,
           \/ CleanSearchThreadMap \/ CleanDone
           \/ \E a \in Addresses : VisitEntry(a)
    PROVE  MapInv'
<1> USE DEF IInv, MapInv
<1>1. UNCHANGED <<searching_threads, life, account, alive, worker>>
  BY DEF CleanSearchThreadMap, CleanDone, VisitEntry, mapVars, objectVars
<1>2. EntriesStarted' /\ BuiltOwned'
  BY <1>1 DEF EntriesStarted, BuiltOwned, Started, Absent
<1>3. monitor \notin {"destroy", "join"} /\ monitor' # "join" /\ victim = Nobody
  BY DEF CleanSearchThreadMap, CleanDone, VisitEntry, MonitorAt, VictimInv
<1>4. StartedMapped'
  BY <1>1, <1>3 DEF StartedMapped, Started
<1>5. CASE CleanSearchThreadMap
  BY <1>1, <1>2, <1>3, <1>4, <1>5
  DEF CleanSearchThreadMap, MonitorAt, MutexInv, VictimInv, TodoMapped, Absent
<1>6. CASE CleanDone
  BY <1>1, <1>2, <1>3, <1>4, <1>6
  DEF CleanDone, MonitorAt, MutexInv, VictimInv, TodoMapped, Absent
<1>7. ASSUME NEW a \in Addresses, VisitEntry(a)
      PROVE  MutexInv' /\ VictimInv' /\ TodoMapped'
  <2>1. /\ ~Absent(a) /\ searching_threads[a] \in alive
        /\ account[searching_threads[a]] = a /\ Started(searching_threads[a])
    BY <1>7 DEF VisitEntry, TodoMapped, EntriesStarted
  <2>2. todo' = todo \ {a} /\ monitor = "visit" /\ UNCHANGED mapVars
    BY <1>7 DEF VisitEntry
  <2>3. \/ monitor' = "destroy" /\ victim' = searching_threads[a]
        \/ monitor' = "visit" /\ victim' = victim
    BY <1>7 DEF VisitEntry, MonitorAt
  <2>4. MutexInv' /\ TodoMapped'
    BY <2>2, <2>3 DEF MutexInv, TodoMapped, Absent, mapVars
  <2>5. VictimInv'
    BY <1>1, <1>3, <2>1, <2>2, <2>3 DEF VictimInv, Started, Absent
  <2>6. QED
    BY <2>4, <2>5
<1>8. QED
  BY <1>2, <1>4, <1>5, <1>6, <1>7

\* The victim leaves its entry; the entry of another address is not its own.
LEMMA DestroyKeeps ==
    ASSUME IInv, DestroyTxSearch
    PROVE  MapInv'
<1> USE DEF IInv, MapInv
<1>1. /\ alive' = alive \ {victim}
      /\ searching_threads' =
           [a \in Addresses |-> IF searching_threads[a] = victim
                                THEN Nobody ELSE searching_threads[a]]
      /\ monitor = "destroy" /\ monitor' = "join"
      /\ UNCHANGED <<searching_threads_map_mtx, life, account, worker, todo,
                     victim>>
  BY DEF DestroyTxSearch, MonitorAt
<1>2. /\ victim \in Objects /\ Started(victim) /\ victim \in alive
      /\ searching_threads[account[victim]] = victim
      /\ account[victim] \notin todo /\ account[victim] \in Addresses
  BY <1>1 DEF VictimInv, TypeOK, StartedMapped
<1>3. \A a \in Addresses :
        searching_threads[a] = victim => a = account[victim]
  BY <1>2, SearchThreadsAssumption DEF EntriesStarted, Absent
<1>4. \A o \in Objects : Started(o)' <=> Started(o)
  BY <1>1 DEF Started
<1>5. MutexInv'
  BY <1>1 DEF MutexInv
<1>6. EntriesStarted'
  BY <1>1, <1>4 DEF EntriesStarted, Absent, TypeOK
<1>7. StartedMapped'
  BY <1>1, <1>2, <1>4 DEF StartedMapped
<1>8. VictimInv'
  BY <1>1, <1>2 DEF VictimInv, Started, Absent
<1>9. TodoMapped'
  BY <1>1, <1>2, <1>3 DEF TodoMapped, Absent, TypeOK
<1>10. BuiltOwned'
  <2>1. \A w \in Workers :
          worker[w].at = "start" => worker[w].object # victim
    BY <1>2 DEF BuiltOwned, Started
  <2>2. QED
    BY <1>1, <2>1 DEF BuiltOwned
<1>11. QED
  BY <1>5, <1>6, <1>7, <1>8, <1>9, <1>10

\* The victim's thread has ended, and its place can be used again.
LEMMA JoinKeeps ==
    ASSUME IInv, JoinThread
    PROVE  MapInv'
<1> USE DEF IInv, MapInv
<1>1. /\ life' = [life EXCEPT ![victim] = "unused"]
      /\ alive' = alive \ {victim}
      /\ account' = [account EXCEPT ![victim] = Nobody]
      /\ monitor = "join" /\ monitor' = "visit" /\ victim' = Nobody
      /\ UNCHANGED <<searching_threads, searching_threads_map_mtx, worker, todo>>
  BY DEF JoinThread, MonitorAt, Joined, Release, mapVars
<1>2. /\ victim \in Objects /\ Started(victim) /\ victim \notin alive
      /\ alive' = alive
  BY <1>1 DEF VictimInv, TypeOK
<1>3. \A o \in Objects :
        o # victim => life'[o] = life[o] /\ account'[o] = account[o]
  BY <1>1 DEF TypeOK
<1>4. life'[victim] = "unused"
  BY <1>1, <1>2 DEF TypeOK
<1>5. MutexInv' /\ VictimInv' /\ TodoMapped'
  BY <1>1 DEF MutexInv, VictimInv, TodoMapped, Absent
<1>6. EntriesStarted'
  <2>1. \A a \in Addresses : ~Absent(a) =>
          searching_threads[a] \in Objects /\ searching_threads[a] # victim
    BY <1>2 DEF EntriesStarted, TypeOK, Absent
  <2>2. QED
    BY <1>1, <1>2, <1>3, <2>1 DEF EntriesStarted, Started, Absent
<1>7. StartedMapped'
  BY <1>1, <1>3, <1>4 DEF StartedMapped, Started
<1>8. BuiltOwned'
  <2>1. \A w \in Workers :
          worker[w].at = "start" =>
              worker[w].object \in Objects /\ worker[w].object # victim
    BY <1>2 DEF BuiltOwned, TypeOK, Started
  <2>2. QED
    BY <1>1, <1>2, <1>3, <2>1 DEF BuiltOwned
<1>9. QED
  BY <1>5, <1>6, <1>7, <1>8

LEMMA StepKeeps == IInv /\ [Next]_vars => IInv'
<1> SUFFICES ASSUME IInv, [Next]_vars PROVE IInv'
  OBVIOUS
<1>1. TypeOK'
  BY StepTyped DEF IInv, MapInv
<1>2. CASE \E o \in Objects :
             \/ Begin(o) \/ TimeOut(o) \/ Leave(o) \/ Tail(o) \/ ReturnEarly(o)
             \/ ThreadMisuses(o) \/ PingExpires(o)
  BY <1>1, <1>2, ThreadQuiet, QuietKeeps DEF IInv
<1>3. ASSUME NEW w \in Workers,
             \/ Handler(w) \/ BuildFails(w)
             \/ \E a \in Addresses :
                   Login(w, a) \/ PingSearchThread(w, a) \/ FindTxsInMempool(w, a)
      PROVE  MapInv'
  BY <1>3, RequestQuiet, QuietKeeps, BuildKeeps, StartKeeps, ReleaseKeeps
  DEF IInv, Handler
<1>4. CASE MonitorRound \/ StopSearchThreads
  <2>1. Quiet
    BY <1>4 DEF MonitorRound, StopSearchThreads, MonitorAt, Quiet, mapVars,
                objectVars
  <2>2. QED
    BY <1>1, <2>1, QuietKeeps DEF IInv
<1>5. CASE StopService \/ Exit \/ UNCHANGED vars
  <2>1. Quiet
    BY <1>5 DEF StopService, Exit, Quiet, vars, mapVars, objectVars, monitorVars
  <2>2. QED
    BY <1>1, <2>1, QuietKeeps DEF IInv
<1>6. QED
  BY <1>1, <1>2, <1>3, <1>4, <1>5, WalkKeeps, DestroyKeeps, JoinKeeps
  DEF Next, Monitor, IInv

-------------------------------------------------------------------------------
(***************************************************************************)
(* Theorems                                                                *)
(***************************************************************************)
LEMMA Invariance == Spec => []IInv
<1>1. Init => IInv
  BY InitTyped, InitMapInv DEF IInv
<1>2. QED
  BY <1>1, StepKeeps, PTL DEF Spec

\* The variables keep their types; in particular a handler that starts or uses
\* an object, and the monitor that destroys or joins one, always have one.
THEOREM TypeCorrect == Spec => []TypeOK
BY Invariance, PTL DEF IInv

\* Two threads never search for the same account.  A second login may build a
\* second TxSearch, but start_tx_search_thread looks again under the mutex; and
\* the clean that unlinks an object joins its thread before it unlocks.
THEOREM NeverTwoThreads == Spec => []OneThreadPerAddress
<1>1. IInv => OneThreadPerAddress
  <2> SUFFICES ASSUME IInv, NEW o \in Objects, NEW p \in Objects,
                      Runs(o), Runs(p), account[o] = account[p]
               PROVE  o = p
    BY DEF OneThreadPerAddress
  <2>1. Started(o) /\ Started(p)
    BY DEF Runs, Started
  <2>2. \A q \in {o, p} : \/ searching_threads[account[q]] = q
                          \/ /\ monitor = "join" /\ q = victim
                             /\ searching_threads[account[q]] = Nobody
    BY <2>1 DEF IInv, MapInv, StartedMapped, VictimInv, Absent
  <2>3. QED
    BY <2>2, SearchThreadsAssumption
<1>2. QED
  BY <1>1, Invariance, PTL

\* A running thread is in the map or is being joined: ping, stop and clean
\* miss none, so shutdown leaves no thread behind.
THEOREM ThreadsAccountedFor == Spec => []NoStrayThread
<1>1. IInv => NoStrayThread
  BY DEF IInv, MapInv, StartedMapped, NoStrayThread, Runs, Started
<1>2. QED
  BY <1>1, Invariance, PTL

\* Whoever finds an object in the map under its mutex may use it: the clean
\* unlinks an object in the step that destroys it.
THEOREM MapIsSafe == Spec => []MappedObjectsAlive
<1>1. IInv => MappedObjectsAlive
  BY DEF IInv, MapInv, EntriesStarted, MappedObjectsAlive
<1>2. QED
  BY <1>1, Invariance, PTL

===============================================================================
