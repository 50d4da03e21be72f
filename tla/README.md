# Verification of the BitTube light wallet backend

This directory holds TLA+ specifications of the light wallet backend in
`src/src/` (the OpenMonero server for BitTube), TLC configurations that check
them on small instances, and TLAPS proofs of their main properties.

## The system

The backend scans the blockchain on behalf of wallets that gave it an address
and a view key. It is one C++ process with a MySQL database, a read only
blockchain database (LMDB), and a daemon it calls by RPC.

| part | state | operations | code |
| --- | --- | --- | --- |
| search position | `searched_blk_no`, `searched_block_got_updated`, `acc`, the `Accounts` row | the loop of `TxSearch::operator()`, imports, polls | `TxSearch.cpp`, `OpenMoneroRequests.cpp` |
| search threads | `searching_threads`, a map from address to thread, guarded by `searching_threads_map_mtx` | start, ping, query, clean, stop | `CurrentBlockchainStatus.cpp` 787-1185, `ThreadRAII.h` |
| monitor | `current_height`, `mempool_txs`, `is_running`, `stop_blockchain_monitor_loop` | refresh the height and the pool, clean the map, stop | `CurrentBlockchainStatus.cpp` 29-110, 589-640 |
| transaction storage | tables `Transactions`, `Outputs`, `Inputs`, the cache `known_outputs_keys` | store what a block holds, one MySQL transaction per blockchain transaction; spendability check | `TxSearch.cpp` 193-603, `MySqlAccounts.cpp` |
| accounts | table `Accounts` | login, create, select, update | `OpenMoneroRequests.cpp` 42-163, 2172-2465 |
| import payments | table `Payments` | request, look for the payment, fulfil, reset the account | `OpenMoneroRequests.cpp` 1069-1527, `CurrentBlockchainStatus.cpp` 650-747 |
| memory pool | `mempool_txs`, a copy of the daemon's pool | refresh, balances, submit, confirm, look for a payment | `CurrentBlockchainStatus.cpp` 589-780, 925-1010, `OpenMoneroRequests.cpp` 230-470, 968-1063, 1905-2043 |
| spending | none of its own | unspent outputs, decoys | `OpenMoneroRequests.cpp` 605-966, `RandomOutputs.cpp`, `TxUnlockChecker.cpp` |
| shutdown | `exit` flag of `main.cpp` | stop the service, join the monitor | `main.cpp` |
| pool of worker threads | the queue of tasks | every blockchain query is submitted and awaited | `ext/ThreadPool.hpp`, `ext/ThreadSafeQueue.hpp` |

Three kinds of threads run: up to 50 restbed workers (`main.cpp` 266), one
monitor, and one search thread per logged in account. They meet in the map of
search threads and its mutex, in the atomics and the `access_acc` mutex of each
`TxSearch`, and in MySQL, where every `XmrAccount` row is read, kept and written
back whole (`MySqlAccounts::update`, 376-397) without a version.

### What is hard, and what makes each part correct

- **Search position.** A position moves by three routes: the thread stores
  `h2 + 1`, an import or a poll stores an older height, and a new thread starts
  at the saved row. The routes share two atomics that are tested and set in
  separate steps, and a row that each side caches. Correct means: whatever the
  interleaving, no block between the creation of the account and the position,
  or the saved height, is left unscanned; the thread catches up with the chain;
  abandoned threads end; no handler waits for ever.
- **Search threads.** Objects are built without a lock, started and used under
  the mutex of the map, and destroyed by the monitor, which joins with the mutex
  held. Correct means: one thread per account, none lost, no destroyed object
  used, no handler or shutdown blocked for ever.
- **Transaction storage.** Rows of an earlier scan are deleted in one MySQL
  transaction and written in another; deletes cascade; requests delete and mark
  rows they selected earlier; the cache of outputs decides which inputs are
  recognised. Correct means: what was passed is stored with its outputs and
  inputs, also after a crash or a rescan; inputs never dangle; orphans go away.
- **Accounts.** A request selects, inserts and selects again, and `select` reports
  a failed statement as a missing row; only the unique keys of the tables stand
  between two clients. Correct means: a thread scans with the key the account was
  created with, a login that succeeds has such a thread, nobody is admitted with
  another key, the owner is in the end.
- **Import payments.** Payment and reset are two updates; the payment is looked for
  in the pool and the last ten blocks. Correct means: a paid account is imported,
  a payment in sight is found, and an account has one payment address.
- **Memory pool.** The tables, the copy of the pool and the blockchain are read one
  after the other while each changes. Correct means: what an answer may get wrong
  is temporary and never a transaction reported as sent that is not.
- **Spending.** The height is cached, the histogram of outputs is older than the
  keys that are looked up. Correct means: outputs are offered from exactly the
  block that may spend them, decoys are distinct and have keys, the search ends.
- **Thread pool.** Tasks refer to the stack of their caller, threads sleep on one
  condition variable. Correct means: no task outlives its caller, none is lost
  or run twice, no wake-up is lost, the pool can be destroyed.

`PROJECT.json` lists the hazards line by line, with the properties that would
catch each going wrong.

## Modules

| module | what it is |
| --- | --- |
| `TxSearch` | one account: search thread, handlers, monitor, chain, crashes; properties of the position |
| `ScanLedger` | abstract specification: blocks are scanned without a hole, positions stay in the completely scanned part |
| `TxSearchProofs` | theorems about `TxSearch`, with proofs |
| `SearchThreads` | the map of search threads, its users, the monitor and `main()` |
| `SearchThreadsProofs` | theorems about `SearchThreads`, with proofs |
| `TxStorage` | the tables of one account, the thread that fills them, the spendability check |
| `TxStorageProofs` | theorems about `TxStorage`, with proofs |
| `Accounts` | creation of an account and of its payment record, the view key, the start of its thread |
| `AccountsProofs` | theorems about `Accounts`, with proofs |
| `Mempool` | the daemon's pool, its copy, and the requests that combine it with tables and blockchain |
| `MempoolProofs` | theorems about `Mempool`, with proofs |
| `Spending` | `get_unspent_outs` with `TxUnlockChecker`, `get_random_outs` with `RandomOutputs` |
| `SpendingProofs` | theorems about `Spending`, with proofs |
| `ThreadPool` | queue, threads, futures and destruction of the pool |
| `TaskPool` | abstract specification: each task starts once, in order |
| `ThreadPoolProofs` | theorems about `ThreadPool`, with proofs |
| `MCTxSearch`, `MCSearchThreads`, `MCTxStorage`, `MCMempool`, `MCSpending` | symmetry sets and constant values for TLC |

Where modules meet, one takes from the other what it abstracts: `TxStorage` and
`Mempool` take the search position from `TxSearch`, which takes from `Accounts`
that there is one account and from `SearchThreads` that it has one thread. All
take a query of the blockchain as one step, which `ThreadPool` justifies: the
caller waits until its task has run once.

Definitions that begin with the comment "Seeded fault" are variants of the
definition that follows them, each with one plausible mistake. No specification
uses them; they show that the properties can fail.

### TxSearch

A step is what the code does between two accesses to shared state. The variables
`searched_blk_no`, `searched_block_got_updated`, `continue_search`,
`searching_is_ongoing`, `acc`, `current_height` are the members of that name;
`row` and `payment` are the rows of `Accounts` and `Payments`; `h1`, `h2` are the
locals of `operator()`; `pinged` says that `last_ping_timestamp` is younger than
`thread_search_life`. `base`, `scanned`, `replaced` and `imported` are history
variables.

`thread` is the place in `operator()`: `loop` (line 87), `position` (94), `blocks`
(99), `idle` (117), `txs` (156), `scan` (168-603), `save` (605-622), `flag` (628), `store`
(629), `clear` (631), `leave` (650), `ended`; `launched` is the time before the
function begins. The blocks of a range and their transactions are two reads of
the blockchain. If a block of the range is popped in between (`RangePopped`) the
second one fails, and `operator()` either returns at line 164, with
`searching_is_ongoing` still set (`MissTransactions`), or throws (`ScanThrows`). A read
that fails by itself does the same and counts as a fault. `request[h].at` is the place in the handler of worker `h`:
every handler selects the row (`SelectAccount`), then goes through
`StartSearchThread`, `PingSearchThread` and `CompareSearchedBlk`
(`get_address_info`), or `ReadHeight`, `SelectPayment`, `SearchIfPaymentMade`,
`FulfilPayment`, `UpdateRow`, `SetSearchedBlkNo`, `SetUpdatedFlag`, `UpdateAcc`
(imports). `set_searched_blk_no` is two steps because its two stores are; the
mutex of the map is held between them. `access_acc` is held while `thread` is
`flag`, `store` or `clear`.

`MySqlAccounts::update` succeeds only if MySQL counts one changed row, so an
update to an equal row may succeed or fail (`RowNotUpdated`). Other failures, of
MySQL, the blockchain or the process, are counted by `faults`. `Crash` keeps the
tables only; the constructor of `CurrentBlockchainStatus` does not initialise
`current_height`, so after a restart it has any value until the first refresh.

### SearchThreads

`searching_threads` maps an address to an object of `Objects` or to `Nobody`.
`life[o]` tells how far the thread of `o` is, `alive` which objects are not
destroyed. A handler that logs in looks the address up without the mutex
(`SearchThreadExist`), builds an object and starts it under the mutex, or
destroys it when another handler was faster. `find_txs_in_mempool` looks up and
uses an object with only `getting_mempool_txs` held. The monitor refreshes, then
visits every entry with the mutex held; `erase` is two steps, `DestroyTxSearch`
and `JoinThread`, in the order of the destructors of `ThreadRAII2` and
`ThreadRAII`.

Using a destroyed object is undefined behaviour. The step that does it records
the culprit in `misused` and nothing happens afterwards, so safety properties are
checked up to that point and liveness properties allow it (`Unsound`).

`StopService` waits for idle workers because `restbed_service.join()` does.
Since every `TxSearch` holds a shared pointer to the status object, the map is
not destroyed when `main()` returns, and nobody joins the threads left in it.

### TxStorage

`chain` is a sequence of blocks with at most one transaction of the account
each, `transactions`, `outputs`, `inputs` are the tables, `known` the cache
`known_outputs_keys`. `DeleteExistingTx` is a step of its own because it commits
on its own connection; `StoreTx` is the MySQL transaction. A failed select looks
like an empty result, and the thread ignores it in two places
(`StatementFails`, counted by `skips`): `PopulateKnownOutputs` starts a thread with
an empty cache (`blind`), and `StoreTx` commits a transaction without the inputs
whose output was not found. `GetTxs` is the second read of the blockchain, after
that of the blocks; `MissTxs` is its failure, because a block in hand was popped
(`gone`) or by itself, after which the thread is `returned`: no other is started
before the process is. `PassOverTx` is the
`continue` after an insert of no rows. A spendability check selects rows
(`SelectTxs`), judges them one at a time (`CheckTx`) and sends a statement for
each (`ApplyVerdict`); `fresh` tells which selected rows still have the id that
was selected. An import is two steps, the row and the thread's position. The
monitor's height is taken to be the real one and the unlock time to be a height.

### Accounts

One address and any number of clients, which send view keys of their own. Each
step is one statement or one look at the map. `request[h].pc` follows `login`
(`select`, `create`, `insert`, `start`, `launch`), `get_address_info` and the other
polls (`start`, `launch`) and `import_wallet_request` (`select` to `insert`,
`make`, `launch`, `payment`, `insertpayment`). `request[h].viewkey` is the key in
the account object, which is empty in a row that was selected. An insert that
failed may have been carried out. `thread` is the key of the thread in the map;
`Erase` stands for its end and the monitor's clean. `static_viewkey` is the static
variable in `TxSearch::get_viewkey`, with which a ping compares the key it was
sent: the first ping of the process sets it, for this account (`Ping`) or for
another (`PingElsewhere`), and only a restart clears it. The heights of the row are
left to `TxSearch`.

### Mempool

`chain` and `pool` belong to the daemon and change at any time: transactions
arrive, are mined, return from a popped block or are evicted. A round of the
monitor is `UpdateCurrentHeight`, `ListPool`, `ReadMeta`, `Swap`, of which the first
three may fail. `SelectTxs`, `CheckRows` and `AddMempoolTxs` are `get_address_txs`: rows
selected, rows deleted by the spendability check, sums with the pool; the rows
may be deleted by the search thread in between (`lost`), and then the check gives
up. `Total` is the sum in unsigned arithmetic modulo `Word`. `submit_raw_tx` looks
for key images in the copy and then asks the daemon, `confirm_tx_sent` looks in
the blockchain and then in the copy, `search_if_payment_made` takes the pool
first, then `current_height` and the blocks below it. A transaction stands for
its outputs to the account. Left out are reads of a block or its transactions
that fail although the block is there (`CurrentBlockchainStatus.cpp` 679-691) and a
call of the daemon that fails or loses its reply (`RPCCalls.cpp` 59-69): the client
is then told "not found" or "rejected", of which the properties claim nothing.

### Spending

The transactions have each kind of unlock time: none, a height, a height before
the output has its age, a time. `offered` is what `get_unspent_outs` sent last.
`get_random_outs` is a sequence of steps per amount and draw: a random index is
any that the floating point product can give, including the one that is then
decremented and wraps when there are no outputs. A key that is looked up in vain
stays `uninitialised` and is sent.

### ThreadPool

A section under `m_mutex` is one step, `m_done` is read without it. A caller
pushes its task and waits, with `get()` or in `~TaskFuture`; an exception in the
latter ends the process (`terminated`). Waiting for the condition variable is
`Block`, a notification moves one sleeper, any one, to `pop`, and sleepers wake for
no reason. `Destroy` happens when no caller waits, because each keeps the object
alive that owns the pool, or in the constructor when a thread cannot be created.

## Runs

| run | bounds | result |
| --- | --- | --- |
| `txsearch_paid` | 2 workers, 3 requests of all kinds, heights up to 2, 1 failure or crash | `TypeOK`, `NoBlockSkipped`, `FulfilledMeansImported`, `LedgerSpec` hold |
| `txsearch_live` | 1 worker, 3 requests, 1 popped block, no other failure, fairness | `CatchesUp`, `AbandonedThreadEnds`, `RequestsAnswered` hold |
| `txsearch_overwrite` | 1 worker, fee 0 | `NewPositionKept` violated |
| `txsearch_reorg` | 1 worker, 1 popped block | `ReplacedBlocksRescanned` violated |
| `threads` | 1 account, 3 objects, 2 workers, 1 failure, fairness | `OneThreadPerAddress`, `NoStrayThread`, `MappedObjectsAlive`, `FinishedThreadsErased`, `HandlersAnswered`, `PolledAccountSearched`, `ShutdownCompletes` hold |
| `threads_erased` | 1 account, 2 objects, 1 worker | `ErasedThreadIsFinished` violated |
| `storage` | a payment and the transaction that spends it, heights up to 3, 1 each of crash or exception, import, pop, ignored failure of a statement, fairness | `ScannedTxsStored`, `KnownOutputsCached`, `InputsBacked`, `EventuallyStored`, `OrphansResolved` hold |
| `storage_lost` | the same with 1 import and 1 crash | `RescanRepopulates` violated |
| `accounts` | 2 handlers, 2 keys, 2 payment ids, 2 failed statements or crashes, fairness | `ThreadHasKeyOfAccount`, `SuccessHasThread`, `OnePaymentAddress`, `OwnerIsAnswered`, `OwnerAdmitted` hold |
| `mempool` | 3 transactions, heights up to 2, 1 popped block, eviction, import or failure, 1 handler, fairness | `CountedOnce`, `MissingMeansMined`, `SubmittedIsInNetwork`, `PaymentMissedOnlyIfBuried`, `TotalsConverge`, `RefusalsEnd` hold |
| `spending` | 4 kinds of unlock time, 2 amounts of up to 2 outputs, rings of up to 3, 3 trials, 1 popped block or failed lookup, fairness | `OfferedIsSpendable`, `SpendableIsOffered`, `DecoysDistinct`, `DecoysHaveKeys`, `SearchEnds` hold |
| `threadpool` | 3 threads, 4 callers, 1 of which drops its future, fairness | `FramesAlive`, `WorkConserving`, `PoolSpec`, `TasksAnswered`, `DestroyCompletes` hold |

`ScannedTxsStored` and `EventuallyStored` are stated for behaviours in which no
transaction is lost for one of the three reasons named by `Undisturbed`: findings
2 and 4, and a failed statement that the thread passed over (the `continue` of
`PassOverTx`, the select for the cache, the lookup of a spent output). Each reason
alone is in the runs. `KnownOutputsCached` is stated for a thread whose first select
did not fail. `EventuallyStored` and `AbandonedThreadEnds` have one more exception, a
thread that returned early at line 164: the first then holds again after a
restart, the second allows such a thread to stay in the map. `CatchesUp` counts a
thread as stopped when it has left `operator()`, whatever `searching_is_ongoing`
says. `OwnerIsAnswered` speaks of pings only if this account was pinged first.
`FulfilledMeansImported` is stated for behaviours without a failure; with one
between the two updates a fulfilled payment is not imported.

**Why the bounds are enough.** A race on the position needs the thread, one
request that moves it and one that has selected an older row: two workers and
three requests. The constants 10 (`RescanGap`), the lookahead and the import
limit are 1 or 2, so that every comparison goes both ways within three blocks.
Two workers race to build an object for one account while the monitor erases
another; an account needs three objects at once: one in the map, or being
joined, and one that each of two workers has built. Accounts meet only in the
mutex of the map and in the order in which the monitor visits its entries. A
payment and its spending are the shortest chain in which a deleted row takes
another with it; heights up to 3 let a range end between them and let rows become
old. Two clients with different keys and one payment id each are all that meet
at a unique key. In `Mempool` the three transactions are a payment, one that
spends it, and one that spends the same output again; handlers meet only in rows
that one deletes and another has selected, which the search thread does as well.
The chain of the `mempool` run is too short for a payment to be buried deeper
than `PaymentDepth`; it reaches the other exception of
`PaymentMissedOnlyIfBuried`, a chain that is shorter than the search is deep. Three
threads and four tasks are enough for a wake-up to reach a thread that finds its
task taken while others sleep. The theorems below hold for all values of the
constants.

**Deadlock** is not checked: requests, blocks and failures are limited by the
bounds, and the process exits, so behaviours end. The liveness properties say
that what must not stop does not.

**Fairness.** Search threads, workers and the monitor are operating system
threads that are scheduled in the end (weak fairness). The monitor's loop
refreshes the height and cleans the map in each of its rounds. In
`SearchThreads` waits for a mutex are steps that others may disable again, so
handlers and the monitor have strong fairness: `std::mutex` is assumed not to
starve a waiter, which the time the monitor sleeps between rounds makes true in
practice. In `TxStorage` a thread that threw is started again, one that returned
early is not, and requests keep coming, because a wallet polls as long as it is
open. In `Accounts`, `Mempool`,
`Spending` and `ThreadPool` the threads of the program and the monitor have weak
fairness; in `Spending` also the poll of a wallet for its outputs. Fairness of `ThreadPool` gives no wake-up: a sleeper moves only when it is
notified. No fairness is assumed for blocks,
requests, failures or time-outs.

**Symmetry.** Workers, accounts and objects are interchangeable in the safety
runs. Runs with liveness properties use no symmetry.

## Findings

Each violated property above quotes a comment of the code; `PROJECT.json` gives
the quotation and the line.

1. The test of `searched_block_got_updated` does not protect a position stored
   after it; the import is lost until the next restart or poll
   (`NewPositionKept`). No block is skipped by this: what is lost is a rescan.
2. Blocks that replace scanned ones are not scanned (`ReplacedBlocksRescanned`).
3. The monitor may destroy an object under a thread that has not begun or not
   returned (`ErasedThreadIsFinished`).
4. A failure while rescanning loses a stored transaction (`RescanRepopulates`).

The following is in the models, or was read on the way, without a run of its own.

- With free imports `import_recent_wallet_request` moves an account that is still
  behind forward over blocks that are never scanned.
- A payment is recorded as fulfilled before the account is reset; a failure in
  between takes the payment without an import.
- A row is tested for age before it is looked up in the blockchain, so an orphan
  that was never asked for while young becomes spendable.
- `find_txs_in_mempool` may use an object while the monitor destroys it
  (`UseSearchThread` with `misused`).
- After `get_txs_in_blocks` fails, for which a popped block is enough, the account
  keeps a dead thread that is never erased and nothing is scanned until the
  process is restarted (`ReturnEarly`, `MissTransactions`, `MissTxs`).
- When the select in `populate_known_outputs` fails the thread runs with an empty
  cache and recognises no spending of earlier outputs; when `output_exists` fails
  the input is dropped and its transaction is committed without it.
- The static variable in `TxSearch::get_viewkey` (line 959) makes the key of the
  account that was pinged first the one that pings of all accounts need: an
  owner of another account is refused, and the first account's key is accepted.
- `search_thread_exist` reads the map without its mutex; the models take the read
  as one step.
- When `main()` returns, search threads have been told to stop but may still run.
- `create_only` is answered before the view key is compared, and `new_address` is
  true for a login that lost the race to create the account. An import creates
  an account as one generated locally, the default of `create_account`.
- A balance may wrap below zero, or miss a transaction for a round, when a row is
  stored, or a block mined, between the reads it combines; `TotalsConverge` says
  that this passes.
- An unlock time that is not 0 and comes before the age of the output makes
  `TxUnlockChecker` call it unlocked (`AgeImplied`).
- A request for one decoy of an amount without unlocked outputs gets the wrapped
  index and a key that was never set. A request for too many decoys is answered
  and then served all the same (`closed` is 2).
- `~TaskFuture` calls `get()`, and an exception of the task ends the process
  (`TakeResult`).

## Proofs

`TxSearchProofs` proves, for any set of handlers, any heights, fee, lookahead
and bounds, from `ConstantsAssumption` only:

- `Typing`: `Spec => []TypeOK`. The part that matters is that heights stay
  natural numbers: the subtraction in `RecentRow` is safe because of the test
  in `ReadHeight` and, when the fee is zero, because `n` is at most the same
  reading of `current_height`.
- `NoBlockIsSkipped`: `RecentSafe => (Spec => []NoBlockSkipped)`, where
  `RecentSafe` says that imports cost a fee or that no recent import is
  requested. Without it the property is false: see the first of the observations
  above.
- `Refinement`: `RecentSafe => (Spec => LedgerSpec)`. The position of the
  ledger is that of the thread, or the saved height when there is no thread.
- `PaidIsImported`: `FirstHeight > 0 => (Spec => []FulfilledMeansImported)`. An
  account that was created at height 0 with the whole chain to scan has nothing
  to import, and the update that resets it changes no row and counts as failed.

`NoBlockSkipped` is not inductive: a handler holds a row it selected earlier and
the thread holds a range it computed earlier, and both write them back. `IInv`
adds that every such copy (`h1`, `h2 + 1` once the range is scanned, the row
selected and the row to be written of each request) lies in the completely
scanned part. That part only grows, so a stale copy stays good; this is why
the unprotected writes of finding 1 lose a rescan and never skip a block.
Positions smaller than a good one are good (`ScannedBelowSmaller`), which covers
imports. Each of `EnvironmentComplete`, `SearchThreadComplete` and
`HandlerComplete` has one step per action.

`AccountsProofs` proves, for any handlers, keys, payment ids, fee and bounds, from
`AccountsAssumption` only: `Typing`, `ThreadKey` (`ThreadHasKeyOfAccount`),
`AnsweredWithThread` (`SuccessHasThread`), `PaymentAddress` (`OnePaymentAddress`),
`StaticKeyInvariance` and `OwnersOnly` (`OwnerIsAnswered`). None of the invariants is inductive alone: a
handler launches a thread, or answers, long after it compared the key. `Knowing`
says what each request relies on at each place: the row it keeps is the one in
the table, a key it keeps is that of the account, and from `payment` on its own
key has been compared. The key of an account never changes once it exists, so
facts once learnt stay true (`KnowingKept`); `StepKeeps` lifts this to a step of one
handler, and each action has a lemma of its own. Pings rely on something else
and have an invariant of their own, `PingInv`: a static view key that this account
set is the account's key, because it was taken from its thread, and a ping that
succeeded sent the static key. `Moved` says what a step of a handler may do to its
request, in particular that a login is answered with success only when a thread
is in the map; with `ThreadHasKeyOfAccount` that gives `AnsweredWithThread`.

`ThreadPoolProofs` proves, for any finite set of threads and any tasks, from
`PoolAssumption` only: `Typing`, `FramesStayAlive` (`FramesAlive`), `NoLostWakeUp`
(`WorkConserving`) and `Refinement` (`PoolSpec`). The invariant `Places` says that
each task is with its idle caller, once in the queue, with one thread, or done;
without it an abstract step could start a task again. `WorkConserving` is
inductive given `PhaseOK`: a submission adds one task and, if anyone sleeps, one
thread that is awake; a thread takes a task with it when it leaves the queue, and
falls asleep only over an empty one.

`PaidIsImported` rests on `ImportInv`: until the import happens, the row and every
copy of it (the thread's and each handler's) still have the `start_height` of the
creation, so the reset changes the row and MySQL counts it.

`SearchThreadsProofs` proves, for any accounts, objects and handlers, from
`SearchThreadsAssumption` only: `TypeCorrect`, `NeverTwoThreads`
(`OneThreadPerAddress`), `ThreadsAccountedFor` (`NoStrayThread`) and `MapIsSafe`
(`MappedObjectsAlive`). `MapInv` ties the map to the objects: an entry is an object
started for that address and not destroyed (`EntriesStarted`), and a started
object is in its entry unless the monitor joins its thread (`StartedMapped`).
`VictimInv` says that the entry of that thread stays empty meanwhile, which
needs `MutexInv`: the monitor holds the mutex, so nobody starts another.
`BuiltOwned` is needed because handlers build objects before they take the mutex.

`TxStorageProofs` proves, for any transactions, chain and lookahead, from
`StorageAssumption` only: `TypeCorrect`, `NoSpendingMissed`
(`KnownOutputsCached`), `ForeignKeysHold` (`InputsBacked`) and
`NothingPassedIsLost` (`ScannedTxsStored`). The assumption says that each
transaction creates or spends an output of the account, which is what
`operator()` looks for before it stores one. The last theorem is the hard one. A
rescan deletes a transaction with the inputs that refer to its outputs, so for a
while a stored transaction is not complete. It is above the block that the
thread examines next, because a transaction is mined after those it spends
(`SpentLater`) and once (`MinedOnce`); `PassedStored` therefore claims only what is
below that block. `BatchCurrent` says that the blocks in hand are those of the
chain, `SavedStored` that what a new thread would not scan is stored. A failed
select ends both claims: a thread that started with an empty cache is `blind`, and
every statement that the thread ignored counts in `skips`, so the proofs carry
"no skip so far" through the steps that read the cache.

`MempoolProofs` proves, for any transactions, any number of handlers and any
height, from `MempoolAssumption` only: `TypeCorrect`, `NothingCountedTwice`
(`CountedOnce`), `MissedOnlyWhenMined` (`MissingMeansMined`),
`ReportedIsSubmitted` (`SubmittedIsInNetwork`) and the action property
`PaymentFound` (`PaymentMissedOnlyIfBuried`), whose deep case the `mempool` run
does not reach. `RoundInv` is about the order in which a round reads: the copy
was listed after `current_height`, so nothing in it was mined up to that height,
and the rows come from blocks up to it. `CopyInv` says that what a copy has lost
was mined. `RequestOK` says what each request has learnt so far: a
payment that `search_if_payment_made` could see is in its copy of the pool or in a
block up to the height it goes by.

`SpendingProofs` proves, for any outputs, requests, counts and number of trials,
from `SpendingAssumption` only: `TypeCorrect`, `OfferedStaysSpendable`
(`OfferedIsSpendable`), `DecoysAreDistinct` (`DecoysDistinct`) and `DecoysAreKeyed`
(`DecoysHaveKeys`). The assumption says that heights stay below
`CRYPTONOTE_MAX_BLOCK_NUMBER` by more than the spendable age;
otherwise a height stored by the search thread would be read as a time.
`HeightInv` says that the cached height was reached, and heights that only
grow keep an output spendable. `SeenInv` says that `seen_indices` are the indices of the
list that grows, with as many elements, so the loop's test of the size of the set
is one of the length of the list; `ListsInv` says that this list is distinct,
within the histogram and keyed up to the lookup in progress, and that earlier
lists are complete. `HistogramInv` says that without a popped block the chain
keeps what the histogram counted, so the lookup of an index finds an output.

Each of these invariants `IInv` was checked by TLC before it was proved, on the
constants of the runs or close to them.

Only model checked: the liveness properties, which this prover cannot treat.
Every invariant and every action property of a passing run is proved. The bounds
on failures, blocks and requests are constants of any size in the theorems.

## Not modelled, and the plan

Not modelled: the front end, configuration, formatting and parsing, the RPC and
MySQL connections (pure I/O; their failures appear as failed steps), and
`xmregcore`, whose source is not in the repository and whose use is taken as
external. `get_tx` changes nothing and formats one transaction; `get_address_info`
sums the tables in one pass and is modelled for the position it sets. The
delivery of signals to `main()` is not modelled: a second signal that interrupts
the thread holding the mutex of `ExitHandler` blocks it, which a single thread
does to itself. The vendored libraries under `ext/` other than the thread pool are
not part of the program's own logic.

What could be added: an abstract specification of the map of search threads that
`SearchThreads` is shown to implement, and what a table row keeps from one step to
the next as further action properties.
