------------------------------- MODULE TxSearch -------------------------------
(***************************************************************************)
(* One account of the light wallet backend, seen through the position from *)
(* which its blocks are scanned.  Three kinds of threads share it:         *)
(*                                                                         *)
(*   - the search thread of the account, TxSearch::operator(), which scans *)
(*     ranges of blocks and records how far it got;                        *)
(*   - the request handlers of OpenMoneroRequests, of which restbed runs   *)
(*     up to 50 at once (main.cpp), which log the account in, poll it and  *)
(*     move the position (import_wallet_request,                           *)
(*     import_recent_wallet_request, get_address_info);                    *)
(*   - the monitor of CurrentBlockchainStatus, which refreshes the cached  *)
(*     height and erases search threads that have finished.                *)
(*                                                                         *)
(* A step is what the code does between two accesses to shared state: the  *)
(* atomics of TxSearch, its copy of the account row (mutex access_acc),    *)
(* the row in MySQL, the map of search threads (mutex                      *)
(* searching_threads_map_mtx).  What is found in a scanned block is the    *)
(* subject of TxStorage; here a block is a height.                         *)
(***************************************************************************)
EXTENDS Integers, FiniteSets

CONSTANTS
    Handlers,      \* the restbed workers that serve this account
    Kinds,         \* the requests the clients send, a subset of AllKinds
    ImportFee,     \* bc_setup.import_fee; 0 makes imports free
    Lookahead,     \* bc_setup.blocks_search_lookahead
    MaxImport,     \* bc_setup.max_number_of_blocks_to_import
    RescanGap,     \* the 10 blocks of get_address_info
    FirstHeight,   \* the height of the chain when the account was created
    MaxHeight,     \* bound: the chain stops growing here
    MaxRequests,   \* bound: requests sent in one behaviour
    MaxPops,       \* bound: blocks popped by reorganisations
    MaxFaults      \* bound: failures of MySQL or of the blockchain, crashes

AllKinds == {"login", "info", "wallet", "recent"}

ASSUME ConstantsAssumption ==
    /\ Kinds \subseteq AllKinds
    /\ ImportFee \in Nat
    /\ Lookahead \in Nat \ {0}
    /\ MaxImport \in Nat
    /\ RescanGap \in Nat
    /\ FirstHeight \in Nat
    /\ MaxHeight \in Nat
    /\ MaxRequests \in Nat
    /\ MaxPops \in Nat
    /\ MaxFaults \in Nat

VARIABLES
    top,                        \* height of the last block of the chain
    current_height,             \* CurrentBlockchainStatus::current_height
    row,                        \* the account's row of table Accounts
    payment,                    \* the account's row of table Payments
    paid,                       \* the client has sent the import fee
    thread,                     \* program counter of the search thread
    continue_search,            \* TxSearch::continue_search
    searching_is_ongoing,       \* TxSearch::searching_is_ongoing
    searched_blk_no,            \* TxSearch::searched_blk_no
    searched_block_got_updated, \* TxSearch::searched_block_got_updated
    acc,                        \* TxSearch::acc, the thread's copy of the row
    pinged,                     \* last_ping_timestamp is recent enough
    h1, h2,                     \* locals of operator(): the range scanned
    request,                    \* the request each handler is serving
    base,                       \* history: scanned_block_height at creation
    scanned,                    \* history: heights whose block was scanned
    replaced,                   \* history: heights whose block was popped
                                \*   and not fetched again since
    imported,                   \* history: an import has reset the row
    requests, pops, faults      \* how much of each bound is used up

chainVars  == <<top, current_height, replaced, pops>>
dbVars     == <<row, payment, paid, imported>>
rangeVars  == <<h1, h2>>
posVars    == <<searched_blk_no, searched_block_got_updated>>
lifeVars   == <<thread, continue_search, searching_is_ongoing, pinged>>
threadVars == <<lifeVars, posVars, acc, rangeVars>>
vars == <<chainVars, dbVars, threadVars, request, base, scanned,
          requests, faults>>

(***************************************************************************)
(* Types                                                                   *)
(***************************************************************************)
Row == [scanned_block_height : Nat, start_height : Nat]

EmptyRow == [scanned_block_height |-> 0, start_height |-> 0]

\* Where the search thread is; "none" when no TxSearch object exists,
\* "launched" before operator() has begun and "ended" when it has returned but
\* the object is still in the map.
ThreadStates == {"none", "launched", "loop", "position", "blocks", "idle",
                 "txs", "scan", "save", "flag", "store", "clear", "leave",
                 "ended"}

HandlerStates == {"free", "start", "ping", "read", "height", "payment",
                  "check", "fulfil", "update", "set", "setflag", "acc"}

Request == [at : HandlerStates, kind : AllKinds, old : Row, new : Row, n : Nat]

Free == [at |-> "free", kind |-> "login", old |-> EmptyRow, new |-> EmptyRow,
         n |-> 0]

TypeOK ==
    /\ top \in Nat /\ current_height \in Nat
    /\ row \in Row /\ acc \in Row
    /\ payment \in {"none", "requested", "fulfilled"}
    /\ paid \in BOOLEAN /\ imported \in BOOLEAN
    /\ thread \in ThreadStates
    /\ continue_search \in BOOLEAN /\ searching_is_ongoing \in BOOLEAN
    /\ searched_blk_no \in Nat
    /\ searched_block_got_updated \in BOOLEAN
    /\ pinged \in BOOLEAN
    /\ h1 \in Nat /\ h2 \in Nat
    /\ request \in [Handlers -> Request]
    /\ base \in Nat
    /\ scanned \in SUBSET Nat /\ replaced \in SUBSET Nat
    /\ requests \in Nat /\ pops \in Nat /\ faults \in Nat

(***************************************************************************)
(* Mutexes.  set_searched_blk_no makes two stores while its caller holds   *)
(* searching_threads_map_mtx, so that mutex is taken exactly while some    *)
(* handler is between them.  The search thread holds access_acc from the   *)
(* update of the row to the end of the iteration.  Every other critical    *)
(* section is one step.                                                    *)
(***************************************************************************)
MapMutexFree == \A h \in Handlers : request[h].at # "setflag"

\* Seeded fault: the lock_guard of access_acc is declared outside the loop.
AccMutexFreeNever == thread \in {"none", "ended"}

AccMutexFree == thread \notin {"flag", "store", "clear"}

SearchThreadExists == thread # "none"

\* One of the MaxFaults failures happens in this step.
Fault ==
    /\ faults < MaxFaults
    /\ faults' = faults + 1

(***************************************************************************)
(* The account has been created: create_account stores the current height, *)
(* or 0 for a wallet generated elsewhere when imports are free.            *)
(***************************************************************************)
CreatedAt ==
    IF ImportFee = 0 THEN {0, FirstHeight} ELSE {FirstHeight}

Init ==
    /\ base \in CreatedAt
    /\ top = FirstHeight /\ current_height = FirstHeight
    /\ row = [scanned_block_height |-> base, start_height |-> base]
    /\ payment = "none" /\ paid = FALSE /\ imported = FALSE
    /\ thread = "none"
    /\ continue_search = FALSE /\ searching_is_ongoing = FALSE
    /\ searched_blk_no = 0 /\ searched_block_got_updated = FALSE
    /\ acc = EmptyRow /\ pinged = FALSE
    /\ h1 = 0 /\ h2 = 0
    /\ request = [h \in Handlers |-> Free]
    /\ scanned = {} /\ replaced = {}
    /\ requests = 0 /\ pops = 0 /\ faults = 0

-------------------------------------------------------------------------------
(***************************************************************************)
(* The chain and the monitor                                               *)
(***************************************************************************)
MineBlock ==
    /\ top < MaxHeight
    /\ top' = top + 1
    /\ UNCHANGED <<current_height, replaced, pops, dbVars, threadVars,
                   request, base, scanned, requests, faults>>

\* A reorganisation drops the top block; its height is mined again later.
PopBlock ==
    /\ pops < MaxPops /\ top > 0
    /\ top' = top - 1 /\ pops' = pops + 1
    /\ replaced' = replaced \union {top}
    /\ UNCHANGED <<current_height, dbVars, threadVars, request, base, scanned,
                   requests, faults>>

\* A failed rpc leaves current_height as it is, which is a stuttering step.
UpdateCurrentHeight ==
    /\ current_height' = top
    /\ UNCHANGED <<top, replaced, pops, dbVars, threadVars, request, base,
                   scanned, requests, faults>>

\* The object of a thread that does not search any more leaves the map.  (An
\* object that is erased before its thread has begun is in SearchThreads.)
NoThread ==
    /\ thread' = "none"
    /\ continue_search' = FALSE /\ searching_is_ongoing' = FALSE
    /\ searched_blk_no' = 0 /\ searched_block_got_updated' = FALSE
    /\ acc' = EmptyRow /\ pinged' = FALSE
    /\ h1' = 0 /\ h2' = 0

CleanSearchThread ==
    /\ MapMutexFree
    /\ thread = "ended" /\ ~searching_is_ongoing
    /\ NoThread
    /\ UNCHANGED <<chainVars, dbVars, request, base, scanned, requests,
                   faults>>

-------------------------------------------------------------------------------
(***************************************************************************)
(* The search thread: TxSearch::operator()                                 *)
(***************************************************************************)
Goto(from, to) ==
    /\ thread = from
    /\ thread' = to

\* The last block of the range that starts at block first.
RangeEnd(first, last) ==
    IF first + Lookahead - 1 < last THEN first + Lookahead - 1 ELSE last

\* The locals of one iteration go out of scope.
EndIteration == h1' = 0 /\ h2' = 0

BeginSearch ==
    /\ Goto("launched", "loop")
    /\ searching_is_ongoing' = TRUE /\ pinged' = TRUE
    /\ UNCHANGED <<chainVars, dbVars, continue_search, posVars, acc, rangeVars,
                   request, base, scanned, requests, faults>>

\* while (continue_search) { last_block_height = current_height; ...
EnterLoop ==
    /\ continue_search
    /\ Goto("loop", "position")
    /\ h2' = current_height
    /\ UNCHANGED <<chainVars, dbVars, continue_search, searching_is_ongoing,
                   pinged, posVars, acc, h1, request, base, scanned, requests,
                   faults>>

LeaveLoop ==
    /\ ~continue_search
    /\ Goto("loop", "leave")
    /\ UNCHANGED <<chainVars, dbVars, continue_search, searching_is_ongoing,
                   pinged, posVars, acc, rangeVars, request, base, scanned,
                   requests, faults>>

ReadPosition ==
    /\ Goto("position", "blocks")
    /\ h1' = searched_blk_no
    /\ h2' = RangeEnd(searched_blk_no, h2)
    /\ UNCHANGED <<chainVars, dbVars, continue_search, searching_is_ongoing,
                   pinged, posVars, acc, request, base, scanned, requests,
                   faults>>

\* get_blocks_range returns every block of the range: h2 is on the chain.
FetchBlocks ==
    /\ Goto("blocks", "txs")
    /\ h1 <= h2 /\ h2 <= top
    /\ replaced' = replaced \ (h1 .. h2)
    /\ UNCHANGED <<top, current_height, pops, dbVars, continue_search,
                   searching_is_ongoing, pinged, posVars, acc, rangeVars,
                   request, base, scanned, requests, faults>>

\* No block: the thread waits when it is ahead of the chain, and stops when
\* the range asks for blocks that a reorganisation has dropped.
NoBlocks ==
    /\ Goto("blocks", "idle")
    /\ h1 > h2 \/ h2 > top
    /\ continue_search' = (continue_search /\ h1 > h2)
    /\ UNCHANGED <<chainVars, dbVars, searching_is_ongoing, pinged, posVars,
                   acc, rangeVars, request, base, scanned, requests, faults>>

\* Seeded fault: the search thread ignores thread_search_life.
WakeUpForever ==
    /\ Goto("idle", "loop") /\ EndIteration
    /\ UNCHANGED <<chainVars, dbVars, continue_search, searching_is_ongoing,
                   pinged, posVars, acc, request, base, scanned, requests,
                   faults>>

\* After the sleep a thread that nobody has pinged lately stops.
WakeUp ==
    /\ Goto("idle", "loop") /\ EndIteration
    /\ continue_search' = (continue_search /\ pinged)
    /\ UNCHANGED <<chainVars, dbVars, searching_is_ongoing, pinged, posVars,
                   acc, request, base, scanned, requests, faults>>

\* A block of the range in hand has been dropped from the chain: FetchBlocks
\* took the range out of replaced, so its heights came in by a later pop.
RangePopped == (h1 .. h2) \intersect replaced # {}

\* get_txs_in_blocks reads every transaction of the blocks in hand, the
\* coinbase too, which a dropped block takes out of the database with it.
GetTxs ==
    /\ Goto("txs", "scan")
    /\ ~RangePopped
    /\ UNCHANGED <<chainVars, dbVars, continue_search, searching_is_ongoing,
                   pinged, posVars, acc, rangeVars, request, base, scanned,
                   requests, faults>>

\* get_txs_in_blocks fails: return, straight out of operator() and past the
\* store that resets searching_is_ongoing.
MissTransactions ==
    /\ Goto("txs", "ended")
    /\ \/ RangePopped /\ UNCHANGED faults
       \/ Fault
    /\ UNCHANGED <<chainVars, dbVars, continue_search, searching_is_ongoing,
                   pinged, posVars, acc, rangeVars, request, base, scanned,
                   requests>>

\* An exception while a block is examined is caught after the loop: a failed
\* statement, or the output indices of a transaction that was dropped.
ScanThrows ==
    /\ Goto("scan", "leave")
    /\ \/ RangePopped /\ UNCHANGED faults
       \/ Fault
    /\ UNCHANGED <<chainVars, dbVars, continue_search, searching_is_ongoing,
                   pinged, posVars, acc, rangeVars, request, base, scanned,
                   requests>>

\* A block that is dropped from now on may hold nothing of the account, so
\* the scan need not notice.
ScanBlocks ==
    /\ Goto("scan", "save")
    /\ scanned' = scanned \union (h1 .. h2)
    /\ UNCHANGED <<chainVars, dbVars, continue_search, searching_is_ongoing,
                   pinged, posVars, acc, rangeVars, request, base, requests,
                   faults>>

\* MySqlAccounts::update writes every column of the row.  It reports success
\* only when MySQL changed the row, so rewriting equal heights may be either
\* (the timestamp of the last block, not modelled, may differ).
RowUpdated(new) ==
    /\ row' = new
    /\ UNCHANGED faults

RowNotUpdated(new) ==
    /\ UNCHANGED row
    /\ \/ row = new /\ UNCHANGED faults
       \/ Fault

SavePosition ==
    LET new == [acc EXCEPT !.scanned_block_height = h2] IN
    /\ Goto("save", "flag")
    /\ \/ RowUpdated(new) /\ acc' = new
       \/ RowNotUpdated(new) /\ UNCHANGED acc
    /\ UNCHANGED <<chainVars, payment, paid, imported, continue_search,
                   searching_is_ongoing, pinged, posVars, rangeVars, request,
                   base, scanned, requests>>

TestUpdatedFlag ==
    /\ Goto("flag", IF searched_block_got_updated THEN "clear" ELSE "store")
    /\ UNCHANGED <<chainVars, dbVars, continue_search, searching_is_ongoing,
                   pinged, posVars, acc, rangeVars, request, base, scanned,
                   requests, faults>>

\* Seeded fault: the next range starts one block too late.
StorePositionTooFar ==
    /\ Goto("store", "clear")
    /\ searched_blk_no' = h2 + 2
    /\ UNCHANGED <<chainVars, dbVars, continue_search, searching_is_ongoing,
                   pinged, searched_block_got_updated, acc, rangeVars, request,
                   base, scanned, requests, faults>>

StorePosition ==
    /\ Goto("store", "clear")
    /\ searched_blk_no' = h2 + 1
    /\ UNCHANGED <<chainVars, dbVars, continue_search, searching_is_ongoing,
                   pinged, searched_block_got_updated, acc, rangeVars, request,
                   base, scanned, requests, faults>>

\* Seeded fault: the flag is not reset.
KeepUpdatedFlag ==
    /\ Goto("clear", "loop") /\ EndIteration
    /\ UNCHANGED <<chainVars, dbVars, continue_search, searching_is_ongoing,
                   pinged, posVars, acc, request, base, scanned, requests,
                   faults>>

ClearUpdatedFlag ==
    /\ Goto("clear", "loop") /\ EndIteration
    /\ searched_block_got_updated' = FALSE
    /\ UNCHANGED <<chainVars, dbVars, continue_search, searching_is_ongoing,
                   pinged, searched_blk_no, acc, request, base, scanned,
                   requests, faults>>

EndThread ==
    /\ Goto("leave", "ended")
    /\ searching_is_ongoing' = FALSE /\ continue_search' = FALSE
    /\ UNCHANGED <<chainVars, dbVars, pinged, posVars, acc, rangeVars, request,
                   base, scanned, requests, faults>>

SearchThread ==
    \/ BeginSearch \/ EnterLoop \/ LeaveLoop \/ ReadPosition
    \/ FetchBlocks \/ NoBlocks \/ WakeUp \/ GetTxs \/ MissTransactions
    \/ ScanBlocks \/ ScanThrows \/ SavePosition \/ TestUpdatedFlag
    \/ StorePosition \/ ClearUpdatedFlag \/ EndThread

-------------------------------------------------------------------------------
(***************************************************************************)
(* The request handlers.  request[h].old is the row the handler selected,  *)
(* request[h].new the row it is about to write.                            *)
(***************************************************************************)
At(h, state) == request[h].at = state

Finish(h) == request' = [request EXCEPT ![h] = Free]

Proceed(h, state) == request' = [request EXCEPT ![h].at = state]

\* Every handler starts by selecting the row of the account.
SelectAccount(h, kind, n, state) ==
    /\ At(h, "free") /\ kind \in Kinds
    /\ requests < MaxRequests
    /\ requests' = requests + 1
    /\ request' = [request EXCEPT ![h] =
                     [at |-> state, kind |-> kind, old |-> row,
                      new |-> EmptyRow, n |-> n]]
    /\ UNCHANGED <<chainVars, dbVars, threadVars, base, scanned, faults>>

Login(h) == SelectAccount(h, "login", 0, "start")

GetAddressInfo(h) == SelectAccount(h, "info", 0, "start")

ImportWalletRequest(h) ==
    SelectAccount(h, "wallet", 0, IF ImportFee = 0 THEN "update" ELSE "payment")

ImportRecentWalletRequest(h, n) == SelectAccount(h, "recent", n, "height")

\* Seeded fault: a new thread takes scanned_block_height for scanned.
FirstSearchedNext(account) == account.scanned_block_height + 1

\* The constructor of TxSearch starts again at the last saved block.
FirstSearched(account) == account.scanned_block_height

\* login_and_start_search_thread: a thread starts from the selected row
\* unless the map already holds one; the constructor may throw.
StartSearchThread(h) ==
    /\ At(h, "start") /\ MapMutexFree
    /\ \/ /\ ~SearchThreadExists
          /\ thread' = "launched"
          /\ continue_search' = TRUE /\ searching_is_ongoing' = FALSE
          /\ acc' = request[h].old
          /\ searched_blk_no' = FirstSearched(request[h].old)
          /\ searched_block_got_updated' = FALSE
          /\ pinged' = TRUE
          /\ UNCHANGED <<rangeVars, faults>>
       \/ SearchThreadExists /\ UNCHANGED <<threadVars, faults>>
    /\ IF request[h].kind = "info" THEN Proceed(h, "ping") ELSE Finish(h)
    /\ UNCHANGED <<chainVars, dbVars, base, scanned, requests>>

StartFails(h) ==
    /\ At(h, "start") /\ ~SearchThreadExists
    /\ Fault
    /\ Finish(h)
    /\ UNCHANGED <<chainVars, dbVars, threadVars, base, scanned, requests>>

\* get_address_info pings the thread, reads its position, and moves it back
\* to the selected row when it is too far ahead of it.
PingSearchThread(h) ==
    /\ At(h, "ping") /\ MapMutexFree
    /\ pinged' = (pinged \/ SearchThreadExists)
    /\ Proceed(h, "read")
    /\ UNCHANGED <<chainVars, dbVars, thread, continue_search,
                   searching_is_ongoing, posVars, acc, rangeVars, base,
                   scanned, requests, faults>>

TooFarAhead(h) ==
    searched_blk_no > request[h].old.scanned_block_height + RescanGap

CompareSearchedBlk(h) ==
    /\ At(h, "read") /\ MapMutexFree
    /\ IF SearchThreadExists /\ TooFarAhead(h)
       THEN request' = [request EXCEPT ![h].at = "set", ![h].new = request[h].old]
       ELSE Finish(h)
    /\ UNCHANGED <<chainVars, dbVars, threadVars, base, scanned, requests,
                   faults>>

\* import_recent_wallet_request: the row it will write, for n blocks.
MinOf(a, b) == IF a < b THEN a ELSE b

BlocksToImport(n) == MinOf(MinOf(n, MaxImport), current_height)

RecentFrom(old) ==
    IF ImportFee = 0 THEN current_height ELSE old.scanned_block_height

RecentRow(old, n) ==
    [old EXCEPT !.scanned_block_height = RecentFrom(old) - n]

\* Seeded fault: the comparison that keeps the height from wrapping is lost.
ReadHeightUnchecked(h) ==
    /\ At(h, "height")
    /\ request' = [request EXCEPT
                     ![h].at = "update",
                     ![h].new = RecentRow(request[h].old,
                                          BlocksToImport(request[h].n))]
    /\ UNCHANGED <<chainVars, dbVars, threadVars, base, scanned, requests,
                   faults>>

ReadHeight(h) ==
    LET n == BlocksToImport(request[h].n) IN
    /\ At(h, "height")
    /\ IF request[h].old.scanned_block_height < n
       THEN Finish(h)
       ELSE request' = [request EXCEPT
                          ![h].at = "update",
                          ![h].new = RecentRow(request[h].old, n)]
    /\ UNCHANGED <<chainVars, dbVars, threadVars, base, scanned, requests,
                   faults>>

\* import_wallet_request with a fee: the first request creates the payment
\* record, later ones look for the payment.
SelectPayment(h) ==
    /\ At(h, "payment")
    /\ \/ payment = "none" /\ payment' = "requested" /\ Finish(h)
          /\ UNCHANGED faults
       \/ payment = "none" /\ UNCHANGED payment /\ Finish(h) /\ Fault
       \/ payment = "requested" /\ UNCHANGED <<payment, faults>>
          /\ Proceed(h, "check")
       \/ payment = "fulfilled" /\ UNCHANGED <<payment, faults>> /\ Finish(h)
    /\ UNCHANGED <<chainVars, row, paid, imported, threadVars, base, scanned,
                   requests>>

\* search_if_payment_made sees the pool and the last blocks only, so it may
\* miss a payment that was made.
SearchIfPaymentMade(h) ==
    /\ At(h, "check")
    /\ \/ paid /\ Proceed(h, "fulfil")
       \/ Finish(h)
    /\ UNCHANGED <<chainVars, dbVars, threadVars, base, scanned, requests,
                   faults>>

\* Seeded fault: only the search thread is told, and the row is left to it.
FulfilPaymentTellThread(h) ==
    /\ At(h, "fulfil")
    /\ \/ payment' = "fulfilled" /\ Proceed(h, "set") /\ UNCHANGED faults
       \/ UNCHANGED payment /\ Finish(h) /\ Fault
    /\ UNCHANGED <<chainVars, row, paid, imported, threadVars, base, scanned,
                   requests>>

FulfilPayment(h) ==
    /\ At(h, "fulfil")
    /\ \/ payment' = "fulfilled" /\ Proceed(h, "update") /\ UNCHANGED faults
       \/ /\ \/ payment = "fulfilled" /\ UNCHANGED faults
             \/ Fault
          /\ UNCHANGED payment
          /\ Finish(h)
    /\ UNCHANGED <<chainVars, row, paid, imported, threadVars, base, scanned,
                   requests>>

\* Both imports write the row, move the position of the search thread and
\* then replace the thread's copy of the row; the first failure ends them.
UpdateRow(h) ==
    /\ At(h, "update")
    /\ \/ RowUpdated(request[h].new) /\ Proceed(h, "set")
          /\ imported' = (imported \/ request[h].kind = "wallet")
       \/ RowNotUpdated(request[h].new) /\ Finish(h) /\ UNCHANGED imported
    /\ UNCHANGED <<chainVars, payment, paid, threadVars, base, scanned,
                   requests>>

\* set_new_searched_blk_no, which calls TxSearch::set_searched_blk_no: the
\* position is stored first and the flag that protects it second.
SetSearchedBlkNo(h) ==
    /\ At(h, "set") /\ MapMutexFree
    /\ \/ /\ SearchThreadExists
          /\ searched_blk_no' = request[h].new.scanned_block_height
          /\ Proceed(h, "setflag")
       \/ ~SearchThreadExists /\ UNCHANGED searched_blk_no /\ Finish(h)
    /\ UNCHANGED <<chainVars, dbVars, lifeVars, searched_block_got_updated,
                   acc, rangeVars, base, scanned, requests, faults>>

SetUpdatedFlag(h) ==
    /\ At(h, "setflag")
    /\ searched_block_got_updated' = TRUE
    /\ IF request[h].kind = "info" THEN Finish(h) ELSE Proceed(h, "acc")
    /\ UNCHANGED <<chainVars, dbVars, lifeVars, searched_blk_no, acc,
                   rangeVars, base, scanned, requests, faults>>

UpdateAcc(h) ==
    /\ At(h, "acc") /\ MapMutexFree
    /\ \/ SearchThreadExists /\ AccMutexFree /\ acc' = request[h].new
       \/ ~SearchThreadExists /\ UNCHANGED acc
    /\ Finish(h)
    /\ UNCHANGED <<chainVars, dbVars, lifeVars, posVars, rangeVars, base,
                   scanned, requests, faults>>

HandlerStep(h) ==
    \/ StartSearchThread(h) \/ PingSearchThread(h) \/ CompareSearchedBlk(h)
    \/ ReadHeight(h) \/ SelectPayment(h) \/ SearchIfPaymentMade(h)
    \/ FulfilPayment(h) \/ UpdateRow(h) \/ SetSearchedBlkNo(h)
    \/ SetUpdatedFlag(h) \/ UpdateAcc(h)

NewRequest(h) ==
    \/ Login(h) \/ GetAddressInfo(h) \/ ImportWalletRequest(h)
    \/ \E n \in 1 .. MaxImport : ImportRecentWalletRequest(h, n)

-------------------------------------------------------------------------------
(***************************************************************************)
(* Clients, time and crashes                                               *)
(***************************************************************************)
\* The client pays the import fee it was asked for.
Pay ==
    /\ payment # "none" /\ ~paid
    /\ paid' = TRUE
    /\ UNCHANGED <<chainVars, row, payment, imported, threadVars, request,
                   base, scanned, requests, faults>>

\* thread_search_life has passed since the last ping.
PingExpires ==
    /\ pinged
    /\ pinged' = FALSE
    /\ UNCHANGED <<chainVars, dbVars, thread, continue_search,
                   searching_is_ongoing, posVars, acc, rangeVars, request,
                   base, scanned, requests, faults>>

\* The process dies and is started again: only the database survives, and
\* current_height, which the constructor of CurrentBlockchainStatus does not
\* initialise, holds any value until the first refresh.
Crash ==
    /\ SearchThreadExists \/ \E h \in Handlers : ~At(h, "free")
    /\ Fault
    /\ NoThread
    /\ request' = [h \in Handlers |-> Free]
    /\ current_height' \in 0 .. MaxHeight
    /\ UNCHANGED <<top, replaced, pops, dbVars, base, scanned, requests>>

Next ==
    \/ MineBlock \/ PopBlock \/ UpdateCurrentHeight \/ CleanSearchThread
    \/ SearchThread
    \/ \E h \in Handlers : NewRequest(h) \/ HandlerStep(h) \/ StartFails(h)
    \/ Pay \/ PingExpires \/ Crash

Spec == Init /\ [][Next]_vars

\* The search thread and the handlers are operating system threads, and the
\* monitor's loop refreshes the height and cleans the map in every round.
Fairness ==
    /\ WF_vars(SearchThread)
    /\ \A h \in Handlers : WF_vars(HandlerStep(h))
    /\ WF_vars(UpdateCurrentHeight)
    /\ WF_vars(CleanSearchThread)

FairSpec == Spec /\ Fairness

-------------------------------------------------------------------------------
(***************************************************************************)
(* Properties                                                              *)
(***************************************************************************)
\* Every block from the height at which the account was created up to, not
\* including, height p has been scanned.
ScannedBelow(p) == base .. (p - 1) \subseteq scanned

\* No block is skipped: everything below the position of the search thread,
\* and below the scanned_block_height from which a new thread would start
\* after a crash, a timeout or a restart, has been scanned at least once,
\* whatever imports and polls were interleaved with the thread's own stores.
NoBlockSkipped ==
    /\ SearchThreadExists => ScannedBelow(searched_blk_no)
    /\ ScannedBelow(row.scanned_block_height)

\* The account implements the ledger of ScanLedger: each step of a thread, a
\* handler or the chain scans without leaving a hole, moves a position to a
\* place below which everything is scanned, or changes neither.
Ledger ==
    INSTANCE ScanLedger WITH
        position <- IF SearchThreadExists THEN searched_blk_no
                                          ELSE row.scanned_block_height,
        saved    <- row.scanned_block_height

LedgerSpec == Ledger!Spec

\* Once the chain and the requests calm down, the search thread gets past the
\* last block or operator() has returned: a position set by an import never
\* leaves it scanning the same range for ever.
CatchesUp ==
    <>[](searched_blk_no > top \/ thread \in {"none", "ended"})

\* operator() has returned at TxSearch.cpp 164, which leaves
\* searching_is_ongoing set: the monitor never erases such an object.
ReturnedEarly == thread = "ended" /\ searching_is_ongoing

\* A search thread that is not pinged any more ends and leaves the map, so
\* an abandoned wallet does not keep a thread.  The one exception is a thread
\* that returned early, for which a block has to be dropped between the two
\* reads of the blockchain, or one of them has to fail.
AbandonedThreadEnds ==
    <>[](~pinged) =>
        <>[](thread = "none" \/ (ReturnedEarly /\ pops + faults > 0))

\* Every request is answered: no handler waits for ever for the map mutex or
\* for the access_acc mutex that the search thread keeps while it stores.
RequestsAnswered == \A h \in Handlers : []<>At(h, "free")

\* TxSearch.cpp 625-627: the search thread never overwrites a position that a
\* request stored after the thread read the start of its range.
NewPositionKept ==
    [][thread = "store" /\ thread' = "clear" => searched_blk_no = h1]_vars

\* MySqlAccounts.cpp 533: a block that comes back after a reorganisation is
\* scanned again, so no block of the chain below the position is a
\* replacement that the thread has not seen.
ReplacedBlocksRescanned ==
    SearchThreadExists =>
        \A b \in replaced : b <= top => b >= searched_blk_no

\* Without a failure or a crash between the two updates, an account whose
\* payment is fulfilled has been imported or a handler is importing it,
\* although two handlers may find the same payment at once and although an
\* update that changes nothing counts as a failure.
FulfilledMeansImported ==
    payment = "fulfilled" /\ faults = 0 =>
        imported \/ \E h \in Handlers : At(h, "update")

===============================================================================
