---------------------------- MODULE SearchThreads ----------------------------
(***************************************************************************)
(* The search threads of CurrentBlockchainStatus: the map from addresses   *)
(* to running TxSearch objects, who creates, uses and destroys them, and   *)
(* how the process shuts down.                                             *)
(*                                                                         *)
(*   - request handlers look an address up, build a TxSearch and start it, *)
(*     or use the object of a running thread;                              *)
(*   - each object runs TxSearch::operator() in a thread of its own;       *)
(*   - the monitor erases the objects whose thread has finished: the       *)
(*     destructor of ThreadRAII2 first destroys the TxSearch and then, in  *)
(*     its base class, joins the thread, all under                         *)
(*     searching_threads_map_mtx.                                          *)
(*                                                                         *)
(* Using a destroyed object is undefined behaviour.  The step that does it *)
(* sets misused, and nothing is claimed of what follows.                   *)
(***************************************************************************)
EXTENDS Naturals, FiniteSets

CONSTANTS
    Addresses,   \* the accounts
    Objects,     \* the places a TxSearch object may live in
    Workers,     \* the restbed workers
    Nobody,      \* holder of a free mutex, entry of an absent address
    MaxFaults    \* bound: early returns and failed constructors

ASSUME SearchThreadsAssumption ==
    /\ Addresses # {}
    /\ Nobody \notin Objects \union Workers \union {"monitor"}
    /\ "monitor" \notin Workers
    /\ MaxFaults \in Nat

VARIABLES
    searching_threads,          \* the map: an object, or Nobody, per address
    searching_threads_map_mtx,  \* who holds the mutex of the map
    getting_mempool_txs,        \* who holds the mutex of the mempool
    life,                       \* how far the thread of each object is
    account,                    \* the address each object searches for
    alive,                      \* the objects that are not destroyed
    continue_search,            \* TxSearch::continue_search
    searching_is_ongoing,       \* TxSearch::searching_is_ongoing
    pinged,                     \* last_ping_timestamp is recent enough
    worker,                     \* what each handler is doing
    monitor,                    \* program counter of monitor_blockchain
    todo,                       \* addresses clean_search_thread_map has left
    victim,                     \* the object it is erasing
    last,                       \* this is the clean of the stop branch
    main,                       \* how far main() is
    misused,                    \* who has used a destroyed object
    faults

mapVars     == <<searching_threads, searching_threads_map_mtx>>
objectVars  == <<life, account, alive, continue_search, searching_is_ongoing,
                 pinged>>
monitorVars == <<monitor, todo, victim, last>>
vars == <<mapVars, getting_mempool_txs, objectVars, worker, monitorVars, main,
          misused, faults>>

\* "new": constructed by a handler; "launched": the std::thread exists but
\* operator() has not begun; "tail": after searching_is_ongoing = false.
Lives == {"unused", "new", "launched", "loop", "tail", "ended"}

WorkerStates == {"idle", "exist", "build", "start", "count", "using"}

MonitorStates ==
    {"round", "lock", "visit", "destroy", "join", "done"}

TypeOK ==
    /\ searching_threads \in [Addresses -> Objects \union {Nobody}]
    /\ searching_threads_map_mtx \in {"monitor", Nobody}
    /\ getting_mempool_txs \in Workers \union {Nobody}
    /\ life \in [Objects -> Lives]
    /\ account \in [Objects -> Addresses \union {Nobody}]
    /\ alive \in SUBSET Objects
    /\ continue_search \in [Objects -> BOOLEAN]
    /\ searching_is_ongoing \in [Objects -> BOOLEAN]
    /\ pinged \in [Objects -> BOOLEAN]
    /\ worker \in [Workers -> [at : WorkerStates, address : Addresses,
                               object : Objects \union {Nobody}]]
    /\ \A w \in Workers :
          worker[w].at \in {"start", "using"} => worker[w].object \in Objects
    /\ monitor \in MonitorStates
    /\ todo \in SUBSET Addresses
    /\ victim \in Objects \union {Nobody}
    /\ monitor \in {"destroy", "join"} => victim \in Objects
    /\ last \in BOOLEAN
    /\ main \in {"serving", "stopping", "exited"}
    /\ misused \in {"no", "thread", "handler"}
    /\ faults \in Nat

Idle == [at |-> "idle", address |-> CHOOSE a \in Addresses : TRUE,
         object |-> Nobody]

Init ==
    /\ searching_threads = [a \in Addresses |-> Nobody]
    /\ searching_threads_map_mtx = Nobody /\ getting_mempool_txs = Nobody
    /\ life = [o \in Objects |-> "unused"] /\ alive = {}
    /\ account = [o \in Objects |-> Nobody]
    /\ continue_search = [o \in Objects |-> FALSE]
    /\ searching_is_ongoing = [o \in Objects |-> FALSE]
    /\ pinged = [o \in Objects |-> FALSE]
    /\ worker = [w \in Workers |-> Idle]
    /\ monitor = "round" /\ todo = {} /\ victim = Nobody /\ last = FALSE
    /\ main = "serving" /\ misused = "no" /\ faults = 0

\* The process runs and its memory is sound.
Running == main # "exited" /\ misused = "no"

MapMutexFree == searching_threads_map_mtx = Nobody

-------------------------------------------------------------------------------
(***************************************************************************)
(* The thread of object o.  Each of its steps reads or writes the object.  *)
(***************************************************************************)
ThreadAt(o, from, to) ==
    /\ Running /\ o \in alive
    /\ life[o] = from
    /\ life' = [life EXCEPT ![o] = to]

ThreadFrame ==
    UNCHANGED <<mapVars, getting_mempool_txs, account, alive, worker,
                monitorVars, main, misused>>

Begin(o) ==
    /\ ThreadAt(o, "launched", "loop")
    /\ searching_is_ongoing' = [searching_is_ongoing EXCEPT ![o] = TRUE]
    /\ pinged' = [pinged EXCEPT ![o] = TRUE]
    /\ UNCHANGED <<continue_search, faults>> /\ ThreadFrame

\* Nobody has pinged the thread for thread_search_life.
TimeOut(o) ==
    /\ ThreadAt(o, "loop", "loop")
    /\ ~pinged[o] /\ continue_search[o]
    /\ continue_search' = [continue_search EXCEPT ![o] = FALSE]
    /\ UNCHANGED <<searching_is_ongoing, pinged, faults>> /\ ThreadFrame

\* Seeded fault: searching_is_ongoing stays true.
LeaveSilently(o) ==
    /\ ThreadAt(o, "loop", "tail")
    /\ UNCHANGED <<continue_search, searching_is_ongoing, pinged, faults>>
    /\ ThreadFrame

\* The loop ends because continue_search is false or, when it is not, by an
\* exception, which operator() catches after the loop.
Leave(o) ==
    /\ ThreadAt(o, "loop", "tail")
    /\ searching_is_ongoing' = [searching_is_ongoing EXCEPT ![o] = FALSE]
    /\ UNCHANGED <<continue_search, pinged, faults>> /\ ThreadFrame

\* operator() ends with a call of stop().
Tail(o) ==
    /\ ThreadAt(o, "tail", "ended")
    /\ continue_search' = [continue_search EXCEPT ![o] = FALSE]
    /\ UNCHANGED <<searching_is_ongoing, pinged, faults>> /\ ThreadFrame

\* get_txs_in_blocks fails: operator() returns from inside its loop.
ReturnEarly(o) ==
    /\ faults < MaxFaults
    /\ ThreadAt(o, "loop", "ended")
    /\ faults' = faults + 1
    /\ UNCHANGED <<continue_search, searching_is_ongoing, pinged>>
    /\ ThreadFrame

\* The thread goes on although its object is destroyed.
ThreadMisuses(o) ==
    /\ Running /\ o \notin alive
    /\ life[o] \in {"launched", "loop", "tail"}
    /\ misused' = "thread"
    /\ UNCHANGED <<mapVars, getting_mempool_txs, objectVars, worker,
                   monitorVars, main, faults>>

PingExpires(o) ==
    /\ Running /\ pinged[o]
    /\ pinged' = [pinged EXCEPT ![o] = FALSE]
    /\ UNCHANGED <<life, continue_search, searching_is_ongoing, faults>>
    /\ ThreadFrame

\* What the thread does when it is scheduled and nothing throws.
Thread(o) ==
    \/ Begin(o) \/ TimeOut(o) \/ (~continue_search[o] /\ Leave(o)) \/ Tail(o)
    \/ ThreadMisuses(o)

-------------------------------------------------------------------------------
(***************************************************************************)
(* The handlers.  What they do under the mutex of the map is one step.     *)
(***************************************************************************)
At(w, state) == Running /\ worker[w].at = state

Go(w, state) == worker' = [worker EXCEPT ![w].at = state]

Answer(w) == worker' = [worker EXCEPT ![w] = Idle]

Receive(w, a, state) ==
    /\ At(w, "idle") /\ main = "serving"
    /\ worker' = [worker EXCEPT ![w] = [Idle EXCEPT !.at = state,
                                                    !.address = a]]
    /\ UNCHANGED <<mapVars, objectVars, monitorVars, main, misused, faults>>

\* login_and_start_search_thread, make_search_thread: the first look at the
\* map takes no mutex.
Login(w, a) == Receive(w, a, "exist") /\ UNCHANGED getting_mempool_txs

SearchThreadExist(w) ==
    /\ At(w, "exist")
    /\ IF searching_threads[worker[w].address] # Nobody
       THEN Answer(w)
       ELSE Go(w, "build")
    /\ UNCHANGED <<mapVars, getting_mempool_txs, objectVars, monitorVars, main,
                   misused, faults>>

\* make_unique<TxSearch>
BuildTxSearch(w) ==
    /\ At(w, "build")
    /\ \E o \in Objects :
          /\ life[o] = "unused"
          /\ life' = [life EXCEPT ![o] = "new"]
          /\ alive' = alive \union {o}
          /\ account' = [account EXCEPT ![o] = worker[w].address]
          /\ continue_search' = [continue_search EXCEPT ![o] = TRUE]
          /\ pinged' = [pinged EXCEPT ![o] = TRUE]
          /\ worker' = [worker EXCEPT ![w].at = "start", ![w].object = o]
    /\ UNCHANGED <<mapVars, getting_mempool_txs, searching_is_ongoing,
                   monitorVars, main, misused, faults>>

\* The constructor throws, as when MySQL cannot be reached.
BuildFails(w) ==
    /\ At(w, "build")
    /\ faults < MaxFaults
    /\ faults' = faults + 1
    /\ Answer(w)
    /\ UNCHANGED <<mapVars, getting_mempool_txs, objectVars, monitorVars, main,
                   misused>>

\* Object o, which no thread uses, is destroyed.
Release(o) ==
    /\ life' = [life EXCEPT ![o] = "unused"]
    /\ alive' = alive \ {o}
    /\ account' = [account EXCEPT ![o] = Nobody]
    /\ continue_search' = [continue_search EXCEPT ![o] = FALSE]
    /\ searching_is_ongoing' = [searching_is_ongoing EXCEPT ![o] = FALSE]
    /\ pinged' = [pinged EXCEPT ![o] = FALSE]

Absent(a) == searching_threads[a] = Nobody

StartTxSearchThread(w) ==
    LET a == worker[w].address
        o == worker[w].object IN
    /\ At(w, "start") /\ MapMutexFree
    /\ \/ /\ Absent(a)
          /\ searching_threads' = [searching_threads EXCEPT ![a] = o]
          /\ life' = [life EXCEPT ![o] = "launched"]
          /\ UNCHANGED <<account, alive, continue_search,
                         searching_is_ongoing, pinged>>
       \/ ~Absent(a) /\ Release(o) /\ UNCHANGED searching_threads
    /\ Answer(w)
    /\ UNCHANGED <<searching_threads_map_mtx, getting_mempool_txs, monitorVars,
                   main, misused, faults>>

\* ping_search_thread; the queries under the same mutex change nothing.
PingSearchThread(w, a) ==
    /\ At(w, "idle") /\ main = "serving" /\ MapMutexFree
    /\ ~Absent(a)
    /\ pinged' = [pinged EXCEPT ![searching_threads[a]] = TRUE]
    /\ UNCHANGED <<mapVars, getting_mempool_txs, life, account, alive,
                   continue_search, searching_is_ongoing, worker, monitorVars,
                   main, misused, faults>>

\* find_txs_in_mempool holds the mutex of the mempool, not that of the map.
FindTxsInMempool(w, a) ==
    /\ getting_mempool_txs = Nobody
    /\ getting_mempool_txs' = w
    /\ Receive(w, a, "count")

GetSearchThread(w) ==
    LET a == worker[w].address IN
    /\ At(w, "count")
    /\ \/ Absent(a) /\ Answer(w) /\ getting_mempool_txs' = Nobody
       \/ /\ ~Absent(a)
          /\ worker' = [worker EXCEPT ![w].at = "using",
                                      ![w].object = searching_threads[a]]
          /\ UNCHANGED getting_mempool_txs
    /\ UNCHANGED <<mapVars, objectVars, monitorVars, main, misused, faults>>

UseSearchThread(w) ==
    /\ At(w, "using")
    /\ \/ worker[w].object \in alive /\ UNCHANGED misused
       \/ worker[w].object \notin alive /\ misused' = "handler"
    /\ Answer(w)
    /\ getting_mempool_txs' = Nobody
    /\ UNCHANGED <<mapVars, objectVars, monitorVars, main, faults>>

Handler(w) ==
    \/ SearchThreadExist(w) \/ BuildTxSearch(w) \/ StartTxSearchThread(w)
    \/ GetSearchThread(w) \/ UseSearchThread(w)

-------------------------------------------------------------------------------
(***************************************************************************)
(* The monitor and main()                                                  *)
(***************************************************************************)
MonitorAt(from, to) ==
    /\ Running
    /\ monitor = from
    /\ monitor' = to

\* A round of the loop: height and mempool, under the mempool's mutex.
MonitorRound ==
    /\ MonitorAt("round", "lock")
    /\ main = "serving" /\ getting_mempool_txs = Nobody
    /\ UNCHANGED <<mapVars, getting_mempool_txs, objectVars, worker, todo,
                   victim, last, main, misused, faults>>

\* Seeded fault: the break of the stop branch is missing.
StopSearchThreadsAgain ==
    /\ MonitorAt("round", "lock")
    /\ main = "stopping" /\ MapMutexFree
    /\ continue_search' =
         [o \in Objects |-> /\ continue_search[o]
                            /\ \A a \in Addresses : searching_threads[a] # o]
    /\ UNCHANGED <<mapVars, getting_mempool_txs, life, account, alive,
                   searching_is_ongoing, pinged, worker, todo, victim, last,
                   main, misused, faults>>

\* stop_blockchain_monitor_loop is set: stop_search_threads.
StopSearchThreads ==
    /\ MonitorAt("round", "lock")
    /\ main = "stopping" /\ MapMutexFree
    /\ last' = TRUE
    /\ continue_search' =
         [o \in Objects |-> /\ continue_search[o]
                            /\ \A a \in Addresses : searching_threads[a] # o]
    /\ UNCHANGED <<mapVars, getting_mempool_txs, life, account, alive,
                   searching_is_ongoing, pinged, worker, todo, victim, main,
                   misused, faults>>

\* Seeded fault: clean_search_thread_map takes no mutex.
CleanUnlocked ==
    /\ MonitorAt("lock", "visit")
    /\ MapMutexFree
    /\ todo' = {a \in Addresses : ~Absent(a)}
    /\ UNCHANGED <<mapVars, getting_mempool_txs, objectVars, worker, victim,
                   last, main, misused, faults>>

CleanSearchThreadMap ==
    /\ MonitorAt("lock", "visit")
    /\ MapMutexFree
    /\ searching_threads_map_mtx' = "monitor"
    /\ todo' = {a \in Addresses : ~Absent(a)}
    /\ UNCHANGED <<searching_threads, getting_mempool_txs, objectVars, worker,
                   victim, last, main, misused, faults>>

\* Seeded fault: a thread that was pinged lately is kept.
FinishedUnpinged(o) == ~searching_is_ongoing[o] /\ ~pinged[o]

Finished(o) == ~searching_is_ongoing[o]

VisitEntry(a) ==
    /\ monitor = "visit" /\ a \in todo
    /\ IF Finished(searching_threads[a])
       THEN MonitorAt("visit", "destroy") /\ victim' = searching_threads[a]
       ELSE MonitorAt("visit", "visit") /\ UNCHANGED victim
    /\ todo' = todo \ {a}
    /\ UNCHANGED <<mapVars, getting_mempool_txs, objectVars, worker, last,
                   main, misused, faults>>

\* Seeded fault: the TxSearch is destroyed but its entry stays in the map.
DestroyOnly ==
    /\ MonitorAt("destroy", "join")
    /\ alive' = alive \ {victim}
    /\ UNCHANGED <<mapVars, getting_mempool_txs, life, account,
                   continue_search, searching_is_ongoing, pinged, worker, todo,
                   victim, last, main, misused, faults>>

\* erase: the entry is unlinked and the TxSearch destroyed, ...
DestroyTxSearch ==
    /\ MonitorAt("destroy", "join")
    /\ alive' = alive \ {victim}
    /\ searching_threads' =
         [a \in Addresses |-> IF searching_threads[a] = victim
                              THEN Nobody ELSE searching_threads[a]]
    /\ UNCHANGED <<searching_threads_map_mtx, getting_mempool_txs, life,
                   account, continue_search, searching_is_ongoing, pinged,
                   worker, todo, victim, last, main, misused, faults>>

\* Seeded fault: DtorAction::detach.
JoinedAlways(o) == TRUE

Joined(o) == life[o] = "ended"

\* ... then the thread is joined.
JoinThread ==
    /\ MonitorAt("join", "visit")
    /\ Joined(victim)
    /\ IF life[victim] = "ended"
       THEN Release(victim)
       ELSE UNCHANGED objectVars
    /\ victim' = Nobody
    /\ UNCHANGED <<mapVars, getting_mempool_txs, worker, todo, last, main,
                   misused, faults>>

\* Seeded fault: the mutex is not released.
CleanDoneLocked ==
    /\ MonitorAt("visit", IF last THEN "done" ELSE "round")
    /\ todo = {}
    /\ UNCHANGED <<mapVars, getting_mempool_txs, objectVars, worker, todo,
                   victim, last, main, misused, faults>>

CleanDone ==
    /\ MonitorAt("visit", IF last THEN "done" ELSE "round")
    /\ todo = {}
    /\ searching_threads_map_mtx' = Nobody
    /\ UNCHANGED <<searching_threads, getting_mempool_txs, objectVars, worker,
                   todo, victim, last, main, misused, faults>>

Monitor ==
    \/ MonitorRound \/ StopSearchThreads \/ CleanSearchThreadMap
    \/ \E a \in Addresses : VisitEntry(a)
    \/ DestroyTxSearch \/ JoinThread \/ CleanDone

\* A signal arrived: service.stop() and the join of restbed leave no handler
\* running, then the monitor is told to stop.
StopService ==
    /\ Running /\ main = "serving"
    /\ \A w \in Workers : At(w, "idle")
    /\ main' = "stopping"
    /\ UNCHANGED <<mapVars, getting_mempool_txs, objectVars, worker,
                   monitorVars, misused, faults>>

\* The monitor is joined and main() returns.
Exit ==
    /\ Running /\ main = "stopping"
    /\ monitor = "done"
    /\ main' = "exited"
    /\ UNCHANGED <<mapVars, getting_mempool_txs, objectVars, worker,
                   monitorVars, misused, faults>>

Next ==
    \/ \E o \in Objects :
          \/ Begin(o) \/ TimeOut(o) \/ Leave(o) \/ Tail(o) \/ ReturnEarly(o)
          \/ ThreadMisuses(o) \/ PingExpires(o)
    \/ \E w \in Workers :
          \/ Handler(w) \/ BuildFails(w)
          \/ \E a \in Addresses :
                Login(w, a) \/ PingSearchThread(w, a) \/ FindTxsInMempool(w, a)
    \/ Monitor \/ StopService \/ Exit

Spec == Init /\ [][Next]_vars

\* Threads, handlers, the monitor and main are operating system threads, and
\* std::mutex is assumed to serve every waiter in the end.
Fairness ==
    /\ \A o \in Objects : WF_vars(Thread(o))
    /\ \A w \in Workers : SF_vars(Handler(w))
    /\ SF_vars(Monitor)
    /\ WF_vars(Exit)

FairSpec == Spec /\ Fairness

-------------------------------------------------------------------------------
(***************************************************************************)
(* Properties                                                              *)
(***************************************************************************)
Runs(o) == life[o] \in {"launched", "loop", "tail"}

\* Two threads never search for the same account: a new one starts only when
\* the old one has been joined, so no two threads save the same rows.
OneThreadPerAddress ==
    \A o, p \in Objects :
        Runs(o) /\ Runs(p) /\ account[o] = account[p] => o = p

\* Every running thread is in the map, where ping, stop and clean find it, or
\* is the one the monitor is waiting for.
NoStrayThread ==
    \A o \in Objects :
        Runs(o) => o = victim \/ searching_threads[account[o]] = o

\* What a handler finds in the map under its mutex is an object that is not
\* destroyed, so the queries of get_address_info and the imports are safe.
MappedObjectsAlive ==
    MapMutexFree =>
        \A a \in Addresses : Absent(a) \/ searching_threads[a] \in alive

\* The properties below promise nothing once a destroyed object was used.
Unsound == misused # "no"

\* A thread that has finished, and cleared searching_is_ongoing, is joined
\* and erased, so it does not block the next login of its account for ever.
FinishedThreadsErased ==
    \A o \in Objects :
        life[o] = "ended" /\ ~searching_is_ongoing[o]
            ~> life[o] # "ended" \/ main = "exited" \/ Unsound

\* No handler waits for ever, although the monitor joins threads with the
\* mutex of the map held.
HandlersAnswered ==
    \A w \in Workers : worker[w].at # "idle" ~> worker[w].at = "idle" \/ Unsound

\* An account whose client keeps logging in is searched again and again, even
\* if a login is answered by a thread that has just finished.  (A thread that
\* returned early stays in the map, and the account is not searched again.)
PolledAccountSearched ==
    \A a \in Addresses :
        [](faults = 0) /\ ([]<><<\E w \in Workers : Login(w, a)>>_vars)
            => []<>(\E o \in Objects : account[o] = a /\ life[o] = "loop")

\* The process ends once it was asked to: the monitor leaves its loop and
\* waits for no thread that never ends.
ShutdownCompletes == main = "stopping" ~> main = "exited" \/ Unsound

\* TxSearch.h 50: searching_is_ongoing tells whether the loop has finished, so
\* an object that is erased because it is false is not used by its thread.
ErasedThreadIsFinished == misused # "thread"

===============================================================================
