------------------------------- MODULE Mempool -------------------------------
(***************************************************************************)
(* The memory pool of the daemon, the copy of it that the monitor keeps,   *)
(* and the requests that combine the copy with the blockchain or with the  *)
(* tables: get_address_txs, submit_raw_tx, confirm_tx_sent and the search  *)
(* for the payment of an import.                                           *)
(*                                                                         *)
(* Each round of the monitor refreshes current_height and then the copy.   *)
(* The search thread of the one account stores transactions of blocks up   *)
(* to current_height; its position is the subject of TxSearch, its rows of *)
(* TxStorage.  A transaction stands for its outputs to the account, a      *)
(* block holds at most one, and all rows are too young to be spendable.    *)
(***************************************************************************)
EXTENDS Integers, Sequences, FiniteSets, FiniteSetsExt

CONSTANTS
    Handlers,      \* threads of the web server
    Txs,           \* the transactions of the network that matter here
    Nothing,       \* a block without one
    Received,      \* Received[t]: what t pays to the account
    Ring,          \* Ring[t]: those whose output is a ring member of t
    KeyImages,     \* KeyImages[t]: the key images of its inputs
    Fee,           \* the transaction that pays for an import
    PaymentDepth,  \* how many blocks back search_if_payment_made looks
    Word,          \* 2^64
    MaxHeight,     \* bound: the height of the chain
    MaxTroubles    \* bound: popped blocks, evictions, imports and failures

ASSUME MempoolAssumption ==
    /\ Nothing \notin Txs /\ Fee \in Txs
    /\ Received \in [Txs -> Nat] /\ Ring \in [Txs -> SUBSET Txs]
    /\ PaymentDepth \in Nat /\ Word \in Nat \ {0}
    /\ MaxHeight \in Nat /\ MaxTroubles \in Nat

VARIABLES
    chain,           \* the blocks, from height 0
    pool,            \* the memory pool of the daemon
    monitor,         \* where the monitor is in its round
    current_height,  \* CurrentBlockchainStatus::current_height
    mempool_txs,     \* CurrentBlockchainStatus::mempool_txs
    local,           \* local_mempool_txs of read_mempool
    lastRead,        \* whether the last read_mempool succeeded
    stored,          \* the transactions that are in the tables
    position,        \* TxSearch::searched_blk_no
    storing,         \* the transaction whose rows it is replacing
    request,         \* the request that each handler serves
    pops,            \* blocks popped by reorganisations so far
    evictions,       \* transactions that the daemon has dropped so far
    rescans,         \* imports so far
    faults           \* failed calls of the daemon so far

chainVars   == <<chain, pool>>
monitorVars == <<monitor, current_height, mempool_txs, local, lastRead>>
threadVars  == <<stored, position, storing>>
boundVars   == <<pops, evictions, rescans, faults>>
vars == <<chainVars, monitorVars, threadVars, request, boundVars>>

Free ==
    [pc |-> "free", kind |-> "none", tx |-> Nothing, rows |-> {},
     lost |-> {}, pool |-> {}, sent |-> {}, seen |-> FALSE,
     height |-> 0, answer |-> "none"]

TypeOK ==
    /\ chain \in Seq(Txs \union {Nothing})
    /\ pool \subseteq Txs /\ mempool_txs \subseteq Txs /\ local \subseteq Txs
    /\ stored \subseteq Txs
    /\ monitor \in {"height", "list", "meta", "swap"}
    /\ lastRead \in {"ok", "failed"}
    /\ current_height \in Nat /\ position \in Nat
    /\ storing \in Txs \union {Nothing}
    /\ pops \in Nat /\ evictions \in Nat /\ rescans \in Nat /\ faults \in Nat
    /\ request \in
         [Handlers ->
            [pc     : {"free", "check", "pool", "commit", "height",
                       "blocks", "answered"},
             kind   : {"none", "txs", "submit", "confirm", "payment"},
             tx     : Txs \union {Nothing},
             rows   : SUBSET Txs,
             lost   : SUBSET Txs,
             pool   : SUBSET Txs,
             sent   : SUBSET (Txs \X Txs),
             seen   : BOOLEAN,
             height : Nat,
             answer : {"none", "gaveup", "total", "zero", "exception",
                       "accepted", "refused", "rejected", "found",
                       "missing"}]]

Init ==
    /\ chain = <<Nothing>> /\ pool = {}
    /\ monitor = "height" /\ current_height = 0
    /\ mempool_txs = {} /\ local = {} /\ lastRead = "ok"
    /\ stored = {} /\ position = 0 /\ storing = Nothing
    /\ request = [h \in Handlers |-> Free]
    /\ pops = 0 /\ evictions = 0 /\ rescans = 0 /\ faults = 0

-------------------------------------------------------------------------------
(***************************************************************************)
(* The daemon                                                              *)
(***************************************************************************)
Top == Len(chain) - 1

Block(h) == chain[h + 1]

OnChain(t) == \E h \in 0 .. Top : Block(h) = t

HeightOf(t) == CHOOSE h \in 0 .. Top : Block(h) = t

Conflict(t, u) == t # u /\ KeyImages[t] \intersect KeyImages[u] # {}

\* The daemon takes a transaction that it has not got, that spends nothing
\* twice and whose ring members are in the blockchain.
Acceptable(t) ==
    /\ t \notin pool /\ ~OnChain(t)
    /\ \A u \in Txs : Conflict(t, u) => u \notin pool /\ ~OnChain(u)
    /\ \A o \in Ring[t] : OnChain(o)

Arrive(t) ==
    /\ Acceptable(t)
    /\ pool' = pool \union {t}
    /\ UNCHANGED <<chain, monitorVars, threadVars, request, boundVars>>

Mine(b) ==
    /\ Top < MaxHeight
    /\ chain' = Append(chain, b)
    /\ pool' = pool \ {b}
    /\ UNCHANGED <<monitorVars, threadVars, request, boundVars>>

MoreTrouble == pops + evictions + rescans + faults < MaxTroubles

\* The transaction of a popped block returns to the pool; nothing in the pool
\* or above depends on it.
Pop ==
    LET b == Block(Top) IN
    /\ MoreTrouble /\ Top > 0
    /\ \A t \in pool : b \notin Ring[t]
    /\ pops' = pops + 1
    /\ chain' = SubSeq(chain, 1, Len(chain) - 1)
    /\ pool' = IF b = Nothing THEN pool ELSE pool \union {b}
    /\ UNCHANGED <<monitorVars, threadVars, request, evictions, rescans,
                   faults>>

Evict(t) ==
    /\ MoreTrouble /\ t \in pool
    /\ evictions' = evictions + 1
    /\ pool' = pool \ {t}
    /\ UNCHANGED <<chain, monitorVars, threadVars, request, pops, rescans,
                   faults>>

-------------------------------------------------------------------------------
(***************************************************************************)
(* The monitor                                                             *)
(***************************************************************************)
UpdateCurrentHeight ==
    /\ monitor = "height"
    /\ monitor' = "list"
    /\ current_height' = Top
    /\ UNCHANGED <<chainVars, mempool_txs, local, lastRead, threadVars,
                   request, boundVars>>

HeightFails ==
    /\ monitor = "height" /\ MoreTrouble
    /\ faults' = faults + 1
    /\ monitor' = "list"
    /\ UNCHANGED <<chainVars, current_height, mempool_txs, local, lastRead,
                   threadVars, request, pops, evictions, rescans>>

\* read_mempool lists the pool, ...
ListPool ==
    /\ monitor = "list"
    /\ monitor' = "meta"
    /\ local' = pool
    /\ UNCHANGED <<chainVars, current_height, mempool_txs, lastRead,
                   threadVars, request, boundVars>>

\* Seeded fault: the copy is filled in place.
PoolFailsEmptied ==
    /\ monitor = "list" /\ MoreTrouble
    /\ faults' = faults + 1
    /\ monitor' = "height" /\ lastRead' = "failed"
    /\ mempool_txs' = {}
    /\ UNCHANGED <<chainVars, current_height, local, threadVars, request,
                   pops, evictions, rescans>>

\* A failure leaves the copy as it was.
PoolFails ==
    /\ monitor = "list" /\ MoreTrouble
    /\ faults' = faults + 1
    /\ monitor' = "height" /\ lastRead' = "failed"
    /\ UNCHANGED <<chainVars, current_height, mempool_txs, local, threadVars,
                   request, pops, evictions, rescans>>

\* ... looks up each transaction again, which fails for one that has left,
ReadMeta ==
    /\ monitor = "meta"
    /\ IF local \subseteq pool
       THEN monitor' = "swap" /\ UNCHANGED <<local, lastRead>>
       ELSE monitor' = "height" /\ local' = {} /\ lastRead' = "failed"
    /\ UNCHANGED <<chainVars, current_height, mempool_txs, threadVars, request,
                   boundVars>>

\* Seeded fault: the new transactions are added to the old ones.
SwapMerges ==
    /\ monitor = "swap"
    /\ monitor' = "height"
    /\ mempool_txs' = mempool_txs \union local /\ local' = {}
    /\ lastRead' = "ok"
    /\ UNCHANGED <<chainVars, current_height, threadVars, request, boundVars>>

\* ... and replaces the copy.
Swap ==
    /\ monitor = "swap"
    /\ monitor' = "height"
    /\ mempool_txs' = local /\ local' = {}
    /\ lastRead' = "ok"
    /\ UNCHANGED <<chainVars, current_height, threadVars, request, boundVars>>

Monitor == UpdateCurrentHeight \/ ListPool \/ ReadMeta \/ Swap

-------------------------------------------------------------------------------
(***************************************************************************)
(* The search thread                                                       *)
(***************************************************************************)
Ours(b) == b # Nothing /\ (Received[b] > 0 \/ Ring[b] # {})

\* The request of g once the rows of ts are deleted: it may have selected some.
Losing(g, ts) ==
    IF request[g].pc = "check"
    THEN [request[g] EXCEPT !.lost = @ \union (request[g].rows \intersect ts)]
    ELSE request[g]

\* Seeded fault: the thread scans up to the top of the chain.
Scannable == position <= Top

\* get_blocks_range fails beyond the top.
InReach == position <= current_height /\ position <= Top

SkipBlock ==
    /\ storing = Nothing /\ InReach
    /\ ~Ours(Block(position))
    /\ position' = position + 1
    /\ UNCHANGED <<chainVars, monitorVars, stored, storing, request, boundVars>>

DeleteExistingTx ==
    LET t == Block(position) IN
    /\ storing = Nothing /\ InReach
    /\ Ours(t)
    /\ storing' = t
    /\ stored' = stored \ {t}
    /\ request' = [h \in Handlers |-> Losing(h, {t} \intersect stored)]
    /\ UNCHANGED <<chainVars, monitorVars, position, boundVars>>

\* The thread throws when the transaction has left the blockchain, and the
\* next one starts where this one stood.
StoreTx ==
    /\ storing # Nothing
    /\ storing' = Nothing
    /\ IF OnChain(storing)
       THEN stored' = stored \union {storing} /\ position' = position + 1
       ELSE UNCHANGED <<stored, position>>
    /\ UNCHANGED <<chainVars, monitorVars, request, boundVars>>

SearchThread == SkipBlock \/ DeleteExistingTx \/ StoreTx

\* An import: the thread starts again from the first block.
Rescan ==
    /\ storing = Nothing /\ MoreTrouble
    /\ rescans' = rescans + 1
    /\ position' = 0
    /\ UNCHANGED <<chainVars, monitorVars, stored, storing, request, pops,
                   evictions, faults>>

-------------------------------------------------------------------------------
(***************************************************************************)
(* get_address_txs                                                         *)
(***************************************************************************)
At(h, l) == request[h].pc = l

Step(h, r) ==
    /\ request' = [request EXCEPT ![h] = r]
    /\ UNCHANGED <<chainVars, monitorVars, threadVars, boundVars>>

Answer(h, a) ==
    Step(h, [request[h] EXCEPT !.pc = "answered", !.pool = {}, !.height = 0,
                              !.answer = a])

SelectTxs(h) ==
    /\ At(h, "free")
    /\ Step(h, [Free EXCEPT !.pc = "check", !.kind = "txs", !.rows = stored])

\* The spendability check deletes the rows of transactions that left the
\* blockchain, ...
CheckRows(h) ==
    LET gone == {t \in request[h].rows : ~OnChain(t)} IN
    /\ At(h, "check")
    /\ gone \intersect request[h].lost = {}
    /\ stored' = stored \ gone
    /\ request' = [g \in Handlers |->
                     IF g = h THEN [request[h] EXCEPT !.pc = "pool",
                                                      !.rows = @ \ gone,
                                                      !.lost = {}]
                              ELSE Losing(g, gone)]
    /\ UNCHANGED <<chainVars, monitorVars, position, storing, boundVars>>

\* ... and gives up over a row that it has to change and that is gone: the
\* sums keep the number 0 they were initialised with.
CheckGivesUp(h) ==
    /\ At(h, "check") /\ request[h].lost # {}
    /\ Step(h, [request[h] EXCEPT !.pc = "pool", !.rows = {},
                                  !.lost = {}, !.answer = "gaveup"])

\* TxSearch::find_txs_in_mempool: the spent outputs it finds in the table.
Found == {p \in mempool_txs \X stored : p[2] \in Ring[p[1]]}

FoundInPool ==
    {t \in mempool_txs : Received[t] > 0 \/ \E o \in Txs : <<t, o>> \in Found}

\* Seeded fault: what the pool spends is not subtracted.
AddMempoolTxsUnspent(h) ==
    /\ At(h, "pool") /\ request[h].kind = "txs"
    /\ Step(h, [request[h] EXCEPT
                  !.pc = "answered", !.pool = FoundInPool,
                  !.answer = IF @ # "gaveup" THEN "total"
                             ELSE IF FoundInPool = {} THEN "zero"
                             ELSE "exception"])

\* Without a transaction in the pool the sums are sent as they are; with one,
\* a sum that is not a string makes get<string>() throw.
AddMempoolTxs(h) ==
    /\ At(h, "pool") /\ request[h].kind = "txs"
    /\ Step(h, [request[h] EXCEPT
                  !.pc = "answered", !.pool = FoundInPool, !.sent = Found,
                  !.answer = IF @ # "gaveup" THEN "total"
                             ELSE IF FoundInPool = {} THEN "zero"
                             ELSE "exception"])

-------------------------------------------------------------------------------
(***************************************************************************)
(* submit_raw_tx, confirm_tx_sent and search_if_payment_made               *)
(***************************************************************************)
\* find_key_images_in_mempool, on the copy.
KeyImageInMempool(t) ==
    \E u \in mempool_txs : KeyImages[t] \intersect KeyImages[u] # {}

\* A client of the account submits a transaction that spends its outputs.
SubmitRawTx(h, t) ==
    /\ At(h, "free") /\ Ring[t] # {}
    /\ Step(h, IF KeyImageInMempool(t)
               THEN [Free EXCEPT !.kind = "submit", !.tx = t,
                                 !.pc = "answered", !.answer = "refused"]
               ELSE [Free EXCEPT !.kind = "submit", !.tx = t,
                                 !.pc = "commit"])

\* Seeded fault: the answer does not depend on what the daemon said.
CommitTxUnchecked(h) ==
    LET t == request[h].tx IN
    /\ At(h, "commit")
    /\ pool' = IF Acceptable(t) THEN pool \union {t} ELSE pool
    /\ request' = [request EXCEPT ![h].pc = "answered",
                                  ![h].answer = "accepted"]
    /\ UNCHANGED <<chain, monitorVars, threadVars, boundVars>>

\* commit_tx: the daemon takes the transaction, may say so too of one that it
\* has already, or rejects it.
CommitTx(h) ==
    LET t == request[h].tx IN
    /\ At(h, "commit")
    /\ \/ /\ Acceptable(t) \/ t \in pool
          /\ pool' = pool \union {t}
          /\ request' = [request EXCEPT ![h].pc = "answered",
                                        ![h].answer = "accepted"]
       \/ /\ ~Acceptable(t)
          /\ request' = [request EXCEPT ![h].pc = "answered",
                                        ![h].answer = "rejected"]
          /\ UNCHANGED pool
    /\ UNCHANGED <<chain, monitorVars, threadVars, boundVars>>

\* confirm_tx_sent for the recipient of t: first the blockchain, ...
ConfirmTxSent(h, t) ==
    /\ At(h, "free") /\ Received[t] > 0
    /\ Step(h, IF OnChain(t)
               THEN [Free EXCEPT !.kind = "confirm", !.tx = t,
                                 !.pc = "answered", !.answer = "found"]
               ELSE [Free EXCEPT !.kind = "confirm", !.tx = t, !.pc = "pool",
                                 !.seen = (t \in mempool_txs)])

\* ... then the copy of the pool.
ConfirmInPool(h) ==
    /\ At(h, "pool") /\ request[h].kind = "confirm"
    /\ Answer(h, IF request[h].tx \in mempool_txs THEN "found" ELSE "missing")

\* search_if_payment_made copies the copy, ...  seen: the payment is there or
\* in one of the last blocks.
SearchPayment(h) ==
    /\ At(h, "free")
    /\ Step(h, [Free EXCEPT
                  !.kind = "payment", !.pc = "height", !.pool = mempool_txs,
                  !.seen = \/ Fee \in mempool_txs
                           \/ OnChain(Fee) /\ HeightOf(Fee) <= current_height])

\* ... then reads the height, ...
PaymentHeight(h) ==
    /\ At(h, "height")
    /\ Step(h, [request[h] EXCEPT !.pc = "blocks", !.height = current_height])

\* Seeded fault: the last block is left out.
PaymentBlocksShort(top) == (top - PaymentDepth) % Word .. top - 1

\* The subtraction wraps while the chain is short.
PaymentBlocks(top) == (top - PaymentDepth) % Word .. top

\* ... and then the blocks.  One that is not there ends the search, whatever
\* the pool holds.
SearchBlocks(h) ==
    LET blocks == PaymentBlocks(request[h].height) IN
    /\ At(h, "blocks")
    /\ Answer(h, IF /\ \A i \in blocks : i <= Top
                    /\ \/ Fee \in request[h].pool
                       \/ \E i \in blocks : Block(i) = Fee
                 THEN "found" ELSE "missing")

Finish(h) == At(h, "answered") /\ Step(h, Free)

NewRequest(h) ==
    \/ SelectTxs(h) \/ SearchPayment(h)
    \/ \E t \in Txs : SubmitRawTx(h, t) \/ ConfirmTxSent(h, t)

HandlerStep(h) ==
    \/ CheckRows(h) \/ CheckGivesUp(h) \/ AddMempoolTxs(h)
    \/ CommitTx(h) \/ ConfirmInPool(h) \/ PaymentHeight(h)
    \/ SearchBlocks(h) \/ Finish(h)

Next ==
    \/ \E t \in Txs : Arrive(t) \/ Evict(t)
    \/ \E b \in pool \union {Nothing} : Mine(b)
    \/ Pop \/ Monitor \/ HeightFails \/ PoolFails
    \/ SearchThread \/ Rescan
    \/ \E h \in Handlers : NewRequest(h) \/ HandlerStep(h)

Spec == Init /\ [][Next]_vars

\* The monitor, the search thread and the handlers are threads of their own;
\* nothing is assumed of the network and of the clients.
Fairness ==
    /\ WF_vars(Monitor) /\ WF_vars(SearchThread)
    /\ \A h \in Handlers : WF_vars(HandlerStep(h))

FairSpec == Spec /\ Fairness

-------------------------------------------------------------------------------
(***************************************************************************)
(* Properties                                                              *)
(***************************************************************************)
Sum(ts) == MapThenSumSet(LAMBDA t : Received[t], ts)

SumSent(ps) == MapThenSumSet(LAMBDA p : Received[p[2]], ps)

\* The sum that get_address_txs sends, in unsigned arithmetic.
Total(r) == (Sum(r.rows) + Sum(r.pool) - SumSent(r.sent)) % Word

\* What the account has received, less what the pool is about to spend.
TrueTotal ==
    LET confirmed == {t \in Txs : OnChain(t)}
        spent == {p \in pool \X confirmed : p[2] \in Ring[p[1]]}
    IN  (Sum(confirmed \union pool) - SumSent(spent)) % Word

\* Between two rounds of the monitor no transaction is both in the tables and
\* in the copy of the pool, so none is counted twice: rows come from blocks up
\* to current_height, and the copy was listed after that height was read.
CountedOnce ==
    monitor = "height" /\ lastRead = "ok" /\ pops = 0
        => stored \intersect mempool_txs = {}

\* A transaction that the copy held when confirm_tx_sent began is reported
\* missing only if it was mined between the two lookups, so that the client
\* finds it when it asks again.
MissingMeansMined ==
    \A h \in Handlers :
        LET r == request[h] IN
        (r.kind = "confirm" /\ r.answer = "missing" /\ r.seen
           /\ pops = 0 /\ evictions = 0)
            => OnChain(r.tx)

\* A payment that could be seen when the search began is missed only while the
\* chain is shorter than the search is deep, or if it is buried deeper.
PaymentMissedOnlyIfBuried ==
    [][\A h \in Handlers :
         (At(h, "blocks") /\ request'[h].answer = "missing"
            /\ request[h].seen /\ pops = 0 /\ evictions = 0)
           => \/ request[h].height < PaymentDepth
              \/ OnChain(Fee) /\ HeightOf(Fee) + PaymentDepth < request[h].height
      ]_vars

\* A client is told that its transaction was submitted only if the network has
\* it: of two that spend the same output, whichever passed the check on the
\* copy, one is reported as failed.
SubmittedIsInNetwork ==
    \A h \in Handlers :
        LET r == request[h] IN
        r.answer = "accepted" /\ evictions = 0 =>
            /\ r.tx \in pool \/ OnChain(r.tx)
            /\ \A u \in Txs :
                  Conflict(r.tx, u) => u \notin pool /\ ~OnChain(u)

\* In the end, with no reorganisation, get_address_txs sends the right total,
\* whatever rescans, failed refreshes and transactions on their way did.
TotalsConverge ==
    <>[](pops = 0 =>
           \A h \in Handlers :
              LET r == request[h] IN
              r.kind = "txs" /\ At(h, "answered")
                  => r.answer = "total" /\ Total(r) = TrueTotal)

\* A transaction that the daemon would take is not refused for ever because of
\* one that has left the pool.
RefusalsEnd ==
    \A t \in Txs :
        <>[]Acceptable(t) =>
            <>[](\A h \in Handlers :
                   ~(request[h].tx = t /\ request[h].answer = "refused"))

===============================================================================
