---------------------------- MODULE MempoolProofs ----------------------------
(***************************************************************************)
(* Theorems about Mempool, for any transactions, any number of handlers    *)
(* and any height.                                                         *)
(*                                                                         *)
(* The daemon keeps its pool and its chain apart and free of conflicts.    *)
(* The rest is about what a copy of the pool that is taken after a height  *)
(* says of the blocks up to that height, and of the pool some time later.  *)
(***************************************************************************)
EXTENDS Mempool, SequenceTheorems, TLAPS

-------------------------------------------------------------------------------
(***************************************************************************)
(* The invariants                                                          *)
(***************************************************************************)
InNetwork(t) == t \in pool \/ OnChain(t)

\* A transaction is mined once, and is then no longer in the pool.
ChainInv ==
    /\ Len(chain) >= 1
    /\ \A i, j \in 1 .. Len(chain) :
          chain[i] = chain[j] /\ chain[i] # Nothing => i = j
    /\ \A t \in pool : ~OnChain(t)

NoConflicts ==
    \A t, u \in Txs : InNetwork(t) /\ InNetwork(u) => ~Conflict(t, u)

\* The transaction is in a block up to the height h.
UpTo(t, h) == \E i \in 1 .. Len(chain) : i <= h + 1 /\ chain[i] = t

\* Without a reorganisation the rows come from blocks up to the cached height,
\* and the copy of the pool has nothing of them: it was listed later.
RoundInv ==
    pops = 0 =>
        /\ current_height <= Top
        /\ \A t \in stored \union ({storing} \ {Nothing}) : UpTo(t, current_height)
        /\ monitor \in {"meta", "swap"} =>
              \A t \in local : ~UpTo(t, current_height)
        /\ monitor = "height" /\ lastRead = "ok" =>
              \A t \in mempool_txs : ~UpTo(t, current_height)

\* What the copy holds, and what was listed, the network has; a transaction
\* of the copy that was not listed again was mined.
CopyInv ==
    pops = 0 /\ evictions = 0 =>
        /\ \A t \in mempool_txs \union local : InNetwork(t)
        /\ monitor \in {"meta", "swap"} =>
              \A t \in mempool_txs : t \in local \/ OnChain(t)

\* Which requests are where.
Shape(r) ==
    /\ r.answer \in {"none", "gaveup"} \/ r.pc = "answered"
    /\ r.pc = "check" => r.kind = "txs"
    /\ r.pc = "commit" => r.kind = "submit" /\ r.tx \in Txs
    /\ r.pc \in {"height", "blocks"} => r.kind = "payment"
    /\ r.kind = "confirm" => r.pc \in {"pool", "answered"} /\ r.tx \in Txs
    /\ r.answer = "accepted" => r.tx \in Txs

\* What a request for an answer about the network has seen.
Submitted(r) == r.answer = "accepted" /\ evictions = 0 => InNetwork(r.tx)

Confirming(r) ==
    r.kind = "confirm" /\ r.seen /\ pops = 0 /\ evictions = 0 =>
        /\ r.pc = "pool" => r.tx \in mempool_txs \/ OnChain(r.tx)
        /\ r.answer = "missing" => OnChain(r.tx)

Searching(r) ==
    pops = 0 =>
        /\ r.pc = "height" /\ r.seen => Fee \in r.pool \/ UpTo(Fee, current_height)
        /\ r.pc = "blocks" => r.height <= Top
        /\ r.pc = "blocks" /\ r.seen => Fee \in r.pool \/ UpTo(Fee, r.height)

RequestOK(r) == Shape(r) /\ Submitted(r) /\ Confirming(r) /\ Searching(r)

IInv ==
    /\ TypeOK /\ ChainInv /\ NoConflicts /\ RoundInv /\ CopyInv
    /\ \A h \in Handlers : RequestOK(request[h])

-------------------------------------------------------------------------------
(***************************************************************************)
(* Types                                                                   *)
(***************************************************************************)
USE DEF chainVars, monitorVars, threadVars, boundVars

Requests ==
    [pc     : {"free", "check", "pool", "commit", "height", "blocks", "answered"},
     kind   : {"none", "txs", "submit", "confirm", "payment"},
     tx     : Txs \union {Nothing},
     rows   : SUBSET Txs,
     lost   : SUBSET Txs,
     pool   : SUBSET Txs,
     sent   : SUBSET (Txs \X Txs),
     seen   : BOOLEAN,
     height : Nat,
     answer : {"none", "gaveup", "total", "zero", "exception", "accepted",
               "refused", "rejected", "found", "missing"}]

LEMMA FreeTyped == Free \in Requests
BY DEF Free, Requests

LEMMA ChainTyped ==
    ASSUME TypeOK
    PROVE  /\ Len(chain) \in Nat
           /\ \A i \in 1 .. Len(chain) : chain[i] \in Txs \union {Nothing}
BY LenProperties, ElementOfSeq DEF TypeOK

LEMMA Appended ==
    ASSUME TypeOK, NEW b \in Txs \union {Nothing}, chain' = Append(chain, b)
    PROVE  /\ chain' \in Seq(Txs \union {Nothing})
           /\ Len(chain') = Len(chain) + 1 /\ chain'[Len(chain) + 1] = b
           /\ \A i \in 1 .. Len(chain) : chain'[i] = chain[i]
BY AppendProperties DEF TypeOK

LEMMA Shortened ==
    ASSUME TypeOK, Len(chain) >= 1, chain' = SubSeq(chain, 1, Len(chain) - 1)
    PROVE  /\ chain' \in Seq(Txs \union {Nothing})
           /\ Len(chain') = Len(chain) - 1
           /\ \A i \in 1 .. Len(chain) - 1 : chain'[i] = chain[i]
<1>1. /\ Len(chain) \in Nat
      /\ \A i \in 1 .. Len(chain) - 1 : chain[i] \in Txs \union {Nothing}
  BY ChainTyped
<1>2. /\ chain' \in Seq(Txs \union {Nothing})
      /\ Len(chain') = IF 1 <= Len(chain) - 1 THEN Len(chain) - 1 - 1 + 1 ELSE 0
      /\ \A i \in 1 .. Len(chain) - 1 - 1 + 1 : chain'[i] = chain[1 + i - 1]
  BY <1>1, SubSeqProperties
<1>3. Len(chain') = Len(chain) - 1
  <2>1. \A n \in Nat : n >= 1 => (IF 1 <= n - 1 THEN n - 1 - 1 + 1 ELSE 0) = n - 1
    OBVIOUS
  <2>2. QED
    BY <1>1, <1>2, <2>1, Zenon
<1>4. ASSUME NEW i \in 1 .. Len(chain) - 1 PROVE chain'[i] = chain[i]
  <2>1. i \in 1 .. Len(chain) - 1 - 1 + 1 /\ 1 + i - 1 = i
    BY <1>1
  <2>2. QED
    BY <1>2, <2>1
<1>5. QED
  BY <1>2, <1>3, <1>4

LEMMA Shift ==
    ASSUME NEW S, NEW c \in Seq(S), NEW t
    PROVE  (\E h \in 0 .. Len(c) - 1 : c[h + 1] = t)
              <=> (\E i \in 1 .. Len(c) : c[i] = t)
<1>1. Len(c) \in Nat
  BY LenProperties
<1>2. ASSUME NEW h \in 0 .. Len(c) - 1, c[h + 1] = t
      PROVE  \E i \in 1 .. Len(c) : c[i] = t
  <2>1. h + 1 \in 1 .. Len(c)
    BY <1>1
  <2>2. QED
    BY <1>2, <2>1
<1>3. ASSUME NEW i \in 1 .. Len(c), c[i] = t
      PROVE  \E h \in 0 .. Len(c) - 1 : c[h + 1] = t
  <2>1. i - 1 \in 0 .. Len(c) - 1 /\ (i - 1) + 1 = i
    BY <1>1
  <2>2. QED
    BY <1>3, <2>1
<1>4. QED
  BY <1>2, <1>3

\* The handlers' steps that change nothing but the requests.
Reading(h) ==
    \/ SelectTxs(h) \/ CheckGivesUp(h) \/ AddMempoolTxs(h)
    \/ (\E t \in Txs : SubmitRawTx(h, t) \/ ConfirmTxSent(h, t))
    \/ ConfirmInPool(h) \/ SearchPayment(h) \/ PaymentHeight(h)
    \/ SearchBlocks(h) \/ Finish(h)

LEMMA NextCases ==
    ASSUME [Next]_vars
    PROVE  \/ UNCHANGED vars
           \/ (\E t \in Txs : Arrive(t) \/ Evict(t))
           \/ (\E b \in pool \union {Nothing} : Mine(b))
           \/ Pop \/ Monitor \/ HeightFails \/ PoolFails \/ SearchThread \/ Rescan
           \/ (\E h \in Handlers : Reading(h) \/ CheckRows(h) \/ CommitTx(h))
BY DEF Next, NewRequest, HandlerStep, Reading

LEMMA ReadingLeaves ==
    ASSUME NEW h \in Handlers, Reading(h)
    PROVE  UNCHANGED <<chainVars, monitorVars, threadVars, boundVars>>
BY DEF Reading, SelectTxs, CheckGivesUp, AddMempoolTxs, SubmitRawTx, ConfirmTxSent,
       ConfirmInPool, SearchPayment, PaymentHeight, SearchBlocks, Finish, Answer,
       Step

\* What a handler makes of its request.
LEMMA Replied ==
    ASSUME TypeOK, NEW h \in Handlers, NEW r, Step(h, r)
    PROVE  /\ request'[h] = r
           /\ \A g \in Handlers : g # h => request'[g] = request[g]
           /\ r \in Requests => request' \in [Handlers -> Requests]
BY DEF Step, TypeOK, Requests

LEMMA StepTyped ==
    ASSUME TypeOK, NEW h \in Handlers, Reading(h)
    PROVE  request' \in [Handlers -> Requests]
<1>1. request[h] \in Requests
  BY DEF TypeOK, Requests
<1>2. CASE SelectTxs(h)
  <2>1. [Free EXCEPT !.pc = "check", !.kind = "txs", !.rows = stored] \in Requests
    BY FreeTyped DEF Requests, TypeOK
  <2>2. QED
    BY <1>2, <2>1, Replied DEF SelectTxs
<1>3. CASE CheckGivesUp(h)
  <2>1. [request[h] EXCEPT !.pc = "pool", !.rows = {}, !.lost = {},
                           !.answer = "gaveup"] \in Requests
    BY <1>1 DEF Requests
  <2>2. QED
    BY <1>3, <2>1, Replied DEF CheckGivesUp
<1>4. CASE AddMempoolTxs(h)
  <2>1. Found \in SUBSET (Txs \X Txs) /\ FoundInPool \in SUBSET Txs
    BY DEF Found, FoundInPool, TypeOK
  <2>2. [request[h] EXCEPT
           !.pc = "answered", !.pool = FoundInPool, !.sent = Found,
           !.answer = IF @ # "gaveup" THEN "total"
                      ELSE IF FoundInPool = {} THEN "zero"
                      ELSE "exception"] \in Requests
    BY <1>1, <2>1 DEF Requests
  <2>3. QED
    BY <1>4, <2>2, Replied DEF AddMempoolTxs
<1>5. ASSUME NEW t \in Txs, SubmitRawTx(h, t) PROVE request' \in [Handlers -> Requests]
  <2>1. /\ [Free EXCEPT !.kind = "submit", !.tx = t, !.pc = "answered",
                        !.answer = "refused"] \in Requests
        /\ [Free EXCEPT !.kind = "submit", !.tx = t, !.pc = "commit"] \in Requests
    BY FreeTyped DEF Requests
  <2>2. QED
    BY <1>5, <2>1, Replied DEF SubmitRawTx
<1>6. ASSUME NEW t \in Txs, ConfirmTxSent(h, t) PROVE request' \in [Handlers -> Requests]
  <2> DEFINE s == t \in mempool_txs
  <2>1. s \in BOOLEAN
    OBVIOUS
  <2>2. OnChain(t) => Step(h, [Free EXCEPT !.kind = "confirm", !.tx = t,
                                           !.pc = "answered", !.answer = "found"])
    BY <1>6 DEF ConfirmTxSent
  <2>3. ~OnChain(t) => Step(h, [Free EXCEPT !.kind = "confirm", !.tx = t,
                                            !.pc = "pool", !.seen = s])
    BY <1>6 DEF ConfirmTxSent
  <2> HIDE DEF s
  <2>4. /\ [Free EXCEPT !.kind = "confirm", !.tx = t, !.pc = "answered",
                        !.answer = "found"] \in Requests
        /\ [Free EXCEPT !.kind = "confirm", !.tx = t, !.pc = "pool",
                        !.seen = s] \in Requests
    BY <2>1, FreeTyped DEF Requests
  <2>5. QED
    BY <2>2, <2>3, <2>4, Replied
<1>7. ASSUME NEW a \in {"found", "missing"}, Answer(h, a)
      PROVE  request' \in [Handlers -> Requests]
  <2>1. [request[h] EXCEPT !.pc = "answered", !.pool = {}, !.height = 0,
                           !.answer = a] \in Requests
    BY <1>1, <1>7 DEF Requests
  <2>2. QED
    BY <1>7, <2>1, Replied DEF Answer
<1>8. CASE ConfirmInPool(h) \/ SearchBlocks(h)
  BY <1>7, <1>8 DEF ConfirmInPool, SearchBlocks
<1>9. CASE SearchPayment(h)
  <2> DEFINE s == \/ Fee \in mempool_txs
                  \/ (OnChain(Fee) /\ HeightOf(Fee) <= current_height)
  <2>1. s \in BOOLEAN
    OBVIOUS
  <2> HIDE DEF s
  <2>2. [Free EXCEPT !.kind = "payment", !.pc = "height", !.pool = mempool_txs,
                     !.seen = s] \in Requests
    BY <2>1, FreeTyped DEF Requests, TypeOK
  <2>3. Step(h, [Free EXCEPT !.kind = "payment", !.pc = "height",
                             !.pool = mempool_txs, !.seen = s])
    BY <1>9 DEF SearchPayment, s
  <2>4. QED
    BY <2>2, <2>3, Replied
<1>10. CASE PaymentHeight(h)
  <2>1. [request[h] EXCEPT !.pc = "blocks", !.height = current_height] \in Requests
    BY <1>1 DEF Requests, TypeOK
  <2>2. QED
    BY <1>10, <2>1, Replied DEF PaymentHeight
<1>11. CASE Finish(h)
  BY <1>11, FreeTyped, Replied DEF Finish
<1>12. QED
  BY <1>2, <1>3, <1>4, <1>5, <1>6, <1>8, <1>9, <1>10, <1>11 DEF Reading

\* A request that may have lost rows differs in nothing else.
LEMMA LosingTyped ==
    ASSUME TypeOK, NEW g \in Handlers, NEW ts \in SUBSET Txs
    PROVE  /\ Losing(g, ts) \in Requests
           /\ Losing(g, ts) = [request[g] EXCEPT !.lost = Losing(g, ts).lost]
<1>1. request[g] \in Requests
  BY DEF TypeOK, Requests
<1>2. request[g].lost \union (request[g].rows \intersect ts) \in SUBSET Txs
  BY <1>1 DEF Requests
<1>3. QED
  BY <1>1, <1>2 DEF Losing, Requests

LEMMA CommittedTyped ==
    ASSUME TypeOK, NEW h \in Handlers, CommitTx(h)
    PROVE  \E a \in {"accepted", "rejected"} :
              /\ request' = [request EXCEPT ![h] =
                               [request[h] EXCEPT !.pc = "answered", !.answer = a]]
              /\ [request[h] EXCEPT !.pc = "answered", !.answer = a] \in Requests
              /\ a = "accepted" =>
                    /\ Acceptable(request[h].tx) \/ request[h].tx \in pool
                    /\ pool' = pool \union {request[h].tx}
              /\ a = "rejected" => UNCHANGED pool
              /\ UNCHANGED <<chain, monitorVars, threadVars, boundVars>>
<1>1. request[h] \in Requests /\ request \in [Handlers -> Requests]
  BY DEF TypeOK, Requests
<1>2. ASSUME NEW a \in {"accepted", "rejected"},
             request' = [request EXCEPT ![h].pc = "answered", ![h].answer = a]
      PROVE  /\ request' = [request EXCEPT ![h] =
                              [request[h] EXCEPT !.pc = "answered", !.answer = a]]
             /\ [request[h] EXCEPT !.pc = "answered", !.answer = a] \in Requests
  BY <1>1, <1>2 DEF Requests
<1>3. CASE request' = [request EXCEPT ![h].pc = "answered",
                                      ![h].answer = "accepted"]
           /\ (Acceptable(request[h].tx) \/ request[h].tx \in pool)
           /\ pool' = pool \union {request[h].tx}
  BY <1>2, <1>3 DEF CommitTx
<1>4. CASE request' = [request EXCEPT ![h].pc = "answered",
                                      ![h].answer = "rejected"]
           /\ UNCHANGED pool
  BY <1>2, <1>4 DEF CommitTx
<1>5. QED
  BY <1>3, <1>4 DEF CommitTx

LEMMA TypesKept ==
    ASSUME TypeOK, ChainInv, \A h \in Handlers : Shape(request[h]), [Next]_vars
    PROVE  TypeOK'
<1>0. Len(chain) \in Nat
  BY ChainTyped
<1>1. CASE UNCHANGED vars
  BY <1>1 DEF vars, TypeOK
<1>2. CASE \E t \in Txs : Arrive(t) \/ Evict(t)
  BY <1>2 DEF Arrive, Evict, TypeOK
<1>3. CASE \E b \in pool \union {Nothing} : Mine(b)
  <2>1. PICK b \in Txs \union {Nothing} : Mine(b)
    BY <1>3 DEF TypeOK
  <2>2. chain' \in Seq(Txs \union {Nothing})
    BY <2>1, Appended DEF Mine
  <2>3. QED
    BY <2>1, <2>2 DEF Mine, TypeOK
<1>4. CASE Pop
  <2>1. chain' \in Seq(Txs \union {Nothing})
    BY <1>4, Shortened DEF Pop, ChainInv
  <2>2. Block(Top) \in Txs \union {Nothing}
    BY <1>0, <1>4, ChainTyped DEF Pop, Block, Top
  <2>3. QED
    BY <1>4, <2>1, <2>2 DEF Pop, TypeOK
<1>5. CASE Monitor \/ HeightFails \/ PoolFails
  <2>1. Top \in Nat
    BY <1>0 DEF ChainInv, Top
  <2>2. CASE HeightFails \/ PoolFails
    BY <2>2 DEF HeightFails, PoolFails, TypeOK
  <2>3. CASE Monitor
    BY <2>1, <2>3 DEF Monitor, UpdateCurrentHeight, ListPool, ReadMeta, Swap, TypeOK
  <2>4. QED
    BY <1>5, <2>2, <2>3
<1>6. CASE SearchThread \/ Rescan
  <2>1. CASE SkipBlock \/ StoreTx \/ Rescan
    BY <2>1 DEF SkipBlock, StoreTx, Rescan, TypeOK
  <2>2. CASE DeleteExistingTx
    <3>1. PICK t \in Txs : t = Block(position)
      BY <1>0, <2>2, ChainTyped DEF DeleteExistingTx, InReach, Ours, Block, Top, TypeOK
    <3>2. {t} \intersect stored \in SUBSET Txs
      OBVIOUS
    <3>3. request' = [g \in Handlers |-> Losing(g, {t} \intersect stored)]
      BY <2>2, <3>1 DEF DeleteExistingTx
    <3>4. request' \in [Handlers -> Requests]
      BY <3>2, <3>3, LosingTyped
    <3>5. QED
      BY <2>2, <3>1, <3>4 DEF DeleteExistingTx, TypeOK, Requests
  <2>3. QED
    BY <1>6, <2>1, <2>2 DEF SearchThread
<1>7. ASSUME NEW h \in Handlers, Reading(h) PROVE TypeOK'
  BY <1>7, ReadingLeaves, StepTyped DEF TypeOK, Requests
<1>8. ASSUME NEW h \in Handlers, CheckRows(h) PROVE TypeOK'
  <2> DEFINE gone == {t \in request[h].rows : ~OnChain(t)}
             r == [request[h] EXCEPT !.pc = "pool", !.rows = @ \ gone, !.lost = {}]
  <2>1. request[h] \in Requests
    BY DEF TypeOK, Requests
  <2>2. gone \in SUBSET Txs
    BY <2>1 DEF Requests
  <2>3. /\ request' = [g \in Handlers |-> IF g = h THEN r ELSE Losing(g, gone)]
        /\ stored' = stored \ gone
        /\ UNCHANGED <<chainVars, monitorVars, position, storing, boundVars>>
    BY <1>8 DEF CheckRows
  <2> HIDE DEF gone
  <2>4. r \in Requests
    BY <2>1, <2>2 DEF Requests
  <2> HIDE DEF r
  <2>5. request' \in [Handlers -> Requests]
    BY <2>2, <2>3, <2>4, LosingTyped
  <2>6. QED
    BY <2>3, <2>5 DEF TypeOK, Requests
<1>9. ASSUME NEW h \in Handlers, CommitTx(h) PROVE TypeOK'
  <2>1. PICK a \in {"accepted", "rejected"} :
              /\ request' = [request EXCEPT ![h] =
                               [request[h] EXCEPT !.pc = "answered", !.answer = a]]
              /\ [request[h] EXCEPT !.pc = "answered", !.answer = a] \in Requests
              /\ a = "accepted" => pool' = pool \union {request[h].tx}
              /\ a = "rejected" => UNCHANGED pool
              /\ UNCHANGED <<chain, monitorVars, threadVars, boundVars>>
    BY <1>9, CommittedTyped
  <2>2. request[h].tx \in Txs
    BY <1>9 DEF CommitTx, At, Shape
  <2>3. request' \in [Handlers -> Requests] /\ pool' \subseteq Txs
    BY <2>1, <2>2 DEF TypeOK, Requests
  <2>4. QED
    BY <2>1, <2>3 DEF TypeOK, Requests
<1>10. QED
  BY <1>1, <1>2, <1>3, <1>4, <1>5, <1>6, <1>7, <1>8, <1>9, NextCases

-------------------------------------------------------------------------------
(***************************************************************************)
(* The pool and the chain of the daemon                                    *)
(***************************************************************************)
\* The ways in which the pool or the chain changes.
LEMMA NetworkCases ==
    ASSUME TypeOK, \A h \in Handlers : Shape(request[h]), [Next]_vars
    PROVE  \/ UNCHANGED chainVars
           \/ (\E t \in Txs : /\ Acceptable(t) /\ pool' = pool \union {t}
                              /\ UNCHANGED <<chain, boundVars>>)
           \/ (\E t \in Txs : Evict(t))
           \/ (\E b \in pool \union {Nothing} : Mine(b))
           \/ Pop
<1>1. ASSUME NEW h \in Handlers, CommitTx(h)
      PROVE  \/ UNCHANGED chainVars
             \/ (\E t \in Txs : /\ Acceptable(t) /\ pool' = pool \union {t}
                                /\ UNCHANGED <<chain, boundVars>>)
  <2>1. request[h].tx \in Txs
    BY <1>1 DEF CommitTx, At, Shape
  <2>2. QED
    BY <1>1, <2>1 DEF CommitTx
<1>2. CASE UNCHANGED vars
  BY <1>2 DEF vars
<1>3. CASE \E t \in Txs : Arrive(t)
  BY <1>3 DEF Arrive
<1>4. CASE Monitor \/ HeightFails \/ PoolFails \/ SearchThread \/ Rescan
  BY <1>4 DEF Monitor, UpdateCurrentHeight, ListPool, ReadMeta, Swap, HeightFails,
              PoolFails, SearchThread, SkipBlock, DeleteExistingTx, StoreTx, Rescan
<1>5. CASE \E h \in Handlers : Reading(h) \/ CheckRows(h)
  BY <1>5, ReadingLeaves DEF CheckRows
<1>6. QED
  BY <1>1, <1>2, <1>3, <1>4, <1>5, NextCases

\* The counters count what they are named for.
LEMMA Counted ==
    ASSUME TypeOK, [Next]_vars
    PROVE  /\ IF Pop THEN pops' = pops + 1 ELSE UNCHANGED pops
           /\ IF \E t \in Txs : Evict(t) THEN evictions' = evictions + 1
                                        ELSE UNCHANGED evictions
<1>1. Pop => pops' = pops + 1 /\ UNCHANGED evictions
  BY DEF Pop
<1>2. (\E t \in Txs : Evict(t)) => evictions' = evictions + 1 /\ UNCHANGED pops
  BY DEF Evict
<1>3. CASE ~Pop /\ ~(\E t \in Txs : Evict(t))
  <2>1. UNCHANGED <<pops, evictions>>
    <3>1. CASE UNCHANGED vars
      BY <3>1 DEF vars
    <3>2. CASE \E t \in Txs : Arrive(t)
      BY <3>2 DEF Arrive
    <3>3. CASE \E b \in pool \union {Nothing} : Mine(b)
      BY <3>3 DEF Mine
    <3>4. CASE Monitor \/ HeightFails \/ PoolFails
      BY <3>4 DEF Monitor, UpdateCurrentHeight, ListPool, ReadMeta, Swap,
                  HeightFails, PoolFails
    <3>5. CASE SearchThread \/ Rescan
      BY <3>5 DEF SearchThread, SkipBlock, DeleteExistingTx, StoreTx, Rescan
    <3>6. CASE \E h \in Handlers : Reading(h) \/ CheckRows(h) \/ CommitTx(h)
      BY <3>6, ReadingLeaves DEF CheckRows, CommitTx
    <3>7. QED
      BY <1>3, <3>1, <3>2, <3>3, <3>4, <3>5, <3>6, NextCases
  <2>2. QED
    BY <1>3, <2>1
<1>4. \A n \in Nat : n + 1 # n
  OBVIOUS
<1>5. pops \in Nat /\ evictions \in Nat
  BY DEF TypeOK
<1>6. QED
  BY <1>1, <1>2, <1>3, <1>4, <1>5, Zenon

\* Only Pop shortens the chain, and it counts.
LEMMA ChainGrows ==
    ASSUME TypeOK, \A h \in Handlers : Shape(request[h]), [Next]_vars, pops' = 0
    PROVE  /\ pops = 0 /\ Len(chain) \in Nat /\ Len(chain') \in Nat
           /\ Len(chain) <= Len(chain')
           /\ \A i \in 1 .. Len(chain) : chain'[i] = chain[i]
           /\ \A t : OnChain(t) => OnChain(t)'
<1>1. Len(chain) \in Nat
  BY ChainTyped
<1>2. pops = 0 /\ ~Pop
  BY Counted DEF TypeOK
<1>3. CASE \E b \in pool \union {Nothing} : Mine(b)
  <2>1. PICK b \in Txs \union {Nothing} : chain' = Append(chain, b)
    BY <1>3 DEF Mine, TypeOK
  <2>2. /\ Len(chain') = Len(chain) + 1
        /\ \A i \in 1 .. Len(chain) : chain'[i] = chain[i]
    BY <2>1, Appended
  <2>3. ASSUME NEW t, OnChain(t) PROVE OnChain(t)'
    <3>1. PICK h \in 0 .. Top : Block(h) = t
      BY <2>3 DEF OnChain
    <3>2. h \in 0 .. Len(chain') - 1 /\ chain'[h + 1] = t
      BY <1>1, <2>2, <3>1 DEF Block, Top
    <3>3. QED
      BY <3>2 DEF OnChain, Top, Block
  <2>4. QED
    BY <1>1, <1>2, <2>2, <2>3
<1>4. CASE UNCHANGED chain
  BY <1>1, <1>2, <1>4 DEF OnChain, Block, Top
<1>5. QED
  BY <1>2, <1>3, <1>4, NetworkCases DEF Evict

\* What a step takes off the chain or out of the pool is in the other, except
\* for an eviction, and what is new was acceptable.
LEMMA NetworkStep ==
    ASSUME TypeOK, ChainInv, \A h \in Handlers : Shape(request[h]), [Next]_vars
    PROVE  /\ ChainInv'
           /\ \A t \in Txs : InNetwork(t) /\ ~Evict(t) => InNetwork(t)'
           /\ \A t, u \in Txs : InNetwork(t)' /\ ~InNetwork(t) =>
                 /\ Acceptable(t)
                 /\ InNetwork(u)' /\ u # t => InNetwork(u)
<1>1. Len(chain) \in Nat /\ Len(chain) >= 1
  BY ChainTyped DEF ChainInv
<1>2. TypeOK'
  BY TypesKept
<1>3. \A t : /\ OnChain(t) <=> \E i \in 1 .. Len(chain) : chain[i] = t
             /\ OnChain(t)' <=> \E i \in 1 .. Len(chain') : chain'[i] = t
  <2>1. chain \in Seq(Txs \union {Nothing}) /\ chain' \in Seq(Txs \union {Nothing})
    BY <1>2 DEF TypeOK
  <2>2. QED
    BY <2>1, Shift DEF OnChain, Block, Top
<1>4. CASE UNCHANGED chainVars
  <2>1. \A t : OnChain(t)' <=> OnChain(t)
    BY <1>3, <1>4
  <2>2. QED
    BY <1>4, <2>1 DEF ChainInv, InNetwork
<1>5. CASE \E t \in Txs : /\ Acceptable(t) /\ pool' = pool \union {t}
                          /\ UNCHANGED <<chain, boundVars>>
  <2>1. PICK t \in Txs : /\ Acceptable(t) /\ pool' = pool \union {t}
                         /\ UNCHANGED chain
    BY <1>5
  <2>2. \A u : OnChain(u)' <=> OnChain(u)
    BY <1>3, <2>1
  <2>3. QED
    BY <2>1, <2>2 DEF ChainInv, InNetwork, Acceptable
<1>6. CASE \E t \in Txs : Evict(t)
  <2>1. PICK t \in Txs : Evict(t) /\ pool' = pool \ {t} /\ UNCHANGED chain
    BY <1>6 DEF Evict
  <2>2. \A u : OnChain(u)' <=> OnChain(u)
    BY <1>3, <2>1
  <2>3. QED
    BY <2>1, <2>2 DEF ChainInv, InNetwork
<1>7. CASE \E b \in pool \union {Nothing} : Mine(b)
  <2>1. PICK b \in pool \union {Nothing} : Mine(b)
    BY <1>7
  <2>2. b \in Txs \union {Nothing} /\ pool' = pool \ {b} /\ chain' = Append(chain, b)
    BY <2>1 DEF Mine, TypeOK
  <2>3. /\ Len(chain') = Len(chain) + 1 /\ chain'[Len(chain) + 1] = b
        /\ \A i \in 1 .. Len(chain) : chain'[i] = chain[i]
    BY <2>2, Appended
  <2>4. \A t : OnChain(t)' <=> OnChain(t) \/ t = b
    BY <1>1, <1>3, <2>3
  <2>5. b # Nothing => \A i \in 1 .. Len(chain) : chain[i] # b
    BY <1>3, <2>1 DEF ChainInv
  <2>6. ChainInv'
    <3>1. ASSUME NEW i \in 1 .. Len(chain'), NEW j \in 1 .. Len(chain'),
                 chain'[i] = chain'[j], chain'[i] # Nothing
          PROVE  i = j
      BY <1>1, <2>3, <2>5, <3>1 DEF ChainInv
    <3>2. QED
      BY <1>1, <2>2, <2>3, <2>4, <3>1 DEF ChainInv
  <2>7. QED
    BY <2>1, <2>2, <2>4, <2>6, MempoolAssumption DEF InNetwork
<1>8. CASE Pop
  <2>1. PICK b : b = Block(Top)
    OBVIOUS
  <2>2. /\ chain' = SubSeq(chain, 1, Len(chain) - 1) /\ Top > 0
        /\ pool' = IF b = Nothing THEN pool ELSE pool \union {b}
        /\ b = chain[Len(chain)]
    BY <1>1, <1>8, <2>1 DEF Pop, Block, Top
  <2>3. /\ Len(chain') = Len(chain) - 1 /\ Len(chain) >= 2
        /\ \A i \in 1 .. Len(chain) - 1 : chain'[i] = chain[i]
    BY <1>1, <2>2, Shortened DEF Top
  <2>4. \A t : OnChain(t) <=> OnChain(t)' \/ t = b
    BY <1>1, <1>3, <2>2, <2>3
  <2>5. b # Nothing => ~OnChain(b)'
    <3>1. \A i \in 1 .. Len(chain) - 1 : b # Nothing => chain[i] # b
      BY <1>1, <2>2 DEF ChainInv
    <3>2. QED
      BY <1>3, <2>3, <3>1
  <2>6. ChainInv'
    BY <1>1, <2>2, <2>3, <2>4, <2>5 DEF ChainInv
  <2>7. QED
    BY <2>2, <2>4, <2>6, MempoolAssumption DEF InNetwork
<1>9. QED
  BY <1>4, <1>5, <1>6, <1>7, <1>8, NetworkCases

LEMMA NoConflictsKept ==
    ASSUME TypeOK, ChainInv, NoConflicts, \A h \in Handlers : Shape(request[h]),
           [Next]_vars
    PROVE  NoConflicts'
<1>1. SUFFICES ASSUME NEW t \in Txs, NEW u \in Txs, InNetwork(t)', InNetwork(u)',
                      Conflict(t, u)
               PROVE  FALSE
  BY DEF NoConflicts, Conflict
<1>2. t # u /\ Conflict(u, t)
  BY <1>1 DEF Conflict
<1>3. CASE InNetwork(t) /\ InNetwork(u)
  BY <1>1, <1>3 DEF NoConflicts
<1>4. CASE ~InNetwork(t)
  BY <1>1, <1>2, <1>4, NetworkStep DEF Acceptable, InNetwork
<1>5. CASE ~InNetwork(u)
  BY <1>1, <1>2, <1>5, NetworkStep DEF Acceptable, InNetwork
<1>6. QED
  BY <1>3, <1>4, <1>5

\* A transaction leaves the network only by an eviction, and it counts.
LEMMA NetworkGrows ==
    ASSUME TypeOK, ChainInv, \A h \in Handlers : Shape(request[h]), [Next]_vars,
           evictions' = 0
    PROVE  evictions = 0 /\ \A t \in Txs : InNetwork(t) => InNetwork(t)'
<1>1. evictions = 0 /\ \A t \in Txs : ~Evict(t)
  BY Counted DEF TypeOK
<1>2. QED
  BY <1>1, NetworkStep

-------------------------------------------------------------------------------
(***************************************************************************)
(* The copy of the pool                                                    *)
(***************************************************************************)
\* The blocks up to a height stay what they are.
LEMMA UpToStep ==
    ASSUME TypeOK, \A h \in Handlers : Shape(request[h]), [Next]_vars, pops' = 0,
           NEW t, NEW h \in Nat
    PROVE  /\ UpTo(t, h) => UpTo(t, h)'
           /\ h <= Top /\ UpTo(t, h)' => UpTo(t, h)
<1>1. /\ Len(chain) \in Nat /\ Len(chain') \in Nat /\ Len(chain) <= Len(chain')
      /\ \A i \in 1 .. Len(chain) : chain'[i] = chain[i]
  BY ChainGrows
<1>2. QED
  BY <1>1 DEF UpTo, Top

LEMMA UpToOnChain ==
    ASSUME TypeOK, NEW t
    PROVE  /\ \A h \in Nat : UpTo(t, h) => OnChain(t)
           /\ OnChain(t) => UpTo(t, Top)
<1>1. chain \in Seq(Txs \union {Nothing}) /\ Len(chain) \in Nat
  BY ChainTyped DEF TypeOK
<1>2. OnChain(t) <=> \E i \in 1 .. Len(chain) : chain[i] = t
  BY <1>1, Shift DEF OnChain, Block, Top
<1>3. QED
  BY <1>1, <1>2 DEF UpTo, Top

\* The rows, between two readings of the height.
LEMMA RowsUpTo ==
    ASSUME TypeOK, \A h \in Handlers : Shape(request[h]), [Next]_vars, pops' = 0,
           RoundInv, NEW c \in Nat, c = current_height,
           NEW t \in stored' \union ({storing'} \ {Nothing})
    PROVE  UpTo(t, c)'
<1>1. pops = 0 /\ Len(chain) \in Nat
  BY ChainGrows
<1>2. CASE t \in stored \union ({storing} \ {Nothing})
  BY <1>1, <1>2, UpToStep DEF RoundInv
<1>3. CASE t \notin stored \union ({storing} \ {Nothing})
  <2>1. CASE DeleteExistingTx
    <3>1. t = Block(position) /\ InReach /\ position \in Nat
      BY <1>3, <2>1 DEF DeleteExistingTx, TypeOK
    <3>2. position + 1 \in 1 .. Len(chain) /\ position + 1 <= c + 1
          /\ chain[position + 1] = t
      BY <1>1, <3>1 DEF InReach, Block, Top
    <3>3. UpTo(t, c)
      BY <3>2 DEF UpTo
    <3>4. QED
      BY <3>3, UpToStep
  <2>2. stored' \subseteq stored \union ({storing} \ {Nothing})
        /\ (storing' = storing \/ storing' = Nothing \/ DeleteExistingTx)
    <3>1. CASE UNCHANGED vars
      BY <3>1 DEF vars
    <3>2. CASE \/ (\E u \in Txs : Arrive(u) \/ Evict(u)) \/ Pop
               \/ (\E b \in pool \union {Nothing} : Mine(b))
      BY <3>2 DEF Arrive, Evict, Pop, Mine
    <3>3. CASE Monitor \/ HeightFails \/ PoolFails
      BY <3>3 DEF Monitor, UpdateCurrentHeight, ListPool, ReadMeta, Swap,
                  HeightFails, PoolFails
    <3>4. CASE SearchThread \/ Rescan
      BY <3>4 DEF SearchThread, SkipBlock, DeleteExistingTx, StoreTx, Rescan
    <3>5. CASE \E h \in Handlers : Reading(h) \/ CheckRows(h) \/ CommitTx(h)
      BY <3>5, ReadingLeaves DEF CheckRows, CommitTx
    <3>6. QED
      BY <3>1, <3>2, <3>3, <3>4, <3>5, NextCases
  <2>3. QED
    BY <1>3, <2>1, <2>2
<1>4. QED
  BY <1>2, <1>3

LEMMA MonitorLeft ==
    ASSUME [Next]_vars, ~Monitor, ~HeightFails, ~PoolFails
    PROVE  UNCHANGED monitorVars
<1>1. CASE UNCHANGED vars
  BY <1>1 DEF vars
<1>2. CASE \/ (\E u \in Txs : Arrive(u) \/ Evict(u)) \/ Pop
           \/ (\E b \in pool \union {Nothing} : Mine(b))
  BY <1>2 DEF Arrive, Evict, Pop, Mine
<1>3. CASE SearchThread \/ Rescan
  BY <1>3 DEF SearchThread, SkipBlock, DeleteExistingTx, StoreTx, Rescan
<1>4. CASE \E h \in Handlers : Reading(h) \/ CheckRows(h) \/ CommitTx(h)
  BY <1>4, ReadingLeaves DEF CheckRows, CommitTx
<1>5. QED
  BY <1>1, <1>2, <1>3, <1>4, NextCases

LEMMA RoundKept ==
    ASSUME TypeOK, ChainInv, \A h \in Handlers : Shape(request[h]), RoundInv,
           [Next]_vars
    PROVE  RoundInv'
<1> SUFFICES ASSUME pops' = 0
             PROVE  /\ current_height' <= Top'
                    /\ \A t \in stored' \union ({storing'} \ {Nothing}) :
                          UpTo(t, current_height)'
                    /\ monitor' \in {"meta", "swap"} =>
                          \A t \in local' : ~UpTo(t, current_height)'
                    /\ monitor' = "height" /\ lastRead' = "ok" =>
                          \A t \in mempool_txs' : ~UpTo(t, current_height)'
  BY DEF RoundInv
<1>1. /\ pops = 0 /\ Len(chain) \in Nat /\ Len(chain') \in Nat
      /\ Len(chain) <= Len(chain') /\ Len(chain) >= 1
  BY ChainGrows DEF ChainInv
<1>2. PICK c \in Nat : c = current_height
  BY DEF TypeOK
<1>3. c <= Top /\ \A t \in stored' \union ({storing'} \ {Nothing}) : UpTo(t, c)'
  BY <1>1, <1>2, RowsUpTo DEF RoundInv
<1>4. CASE UpdateCurrentHeight
  <2>1. /\ current_height' = Top /\ monitor' = "list" /\ UNCHANGED <<chain, stored, storing>>
    BY <1>4 DEF UpdateCurrentHeight
  <2>2. \A t : UpTo(t, c)' => UpTo(t, current_height)'
    BY <1>1, <1>2, <1>3, <2>1 DEF UpTo, Top
  <2>3. current_height' <= Top'
    BY <1>1, <2>1 DEF Top
  <2>4. QED
    BY <1>3, <2>1, <2>2, <2>3
<1>5. CASE UNCHANGED current_height
  <2>1. current_height' = c /\ c <= Top'
    BY <1>1, <1>2, <1>3, <1>5 DEF Top
  <2>2. \A t : UpTo(t, current_height)' <=> UpTo(t, c)'
    BY <2>1 DEF UpTo
  <2>3. \A t : UpTo(t, c)' => UpTo(t, c)
    BY <1>3, UpToStep
  <2>4. /\ monitor \in {"meta", "swap"} => \A t \in local : ~UpTo(t, c)
        /\ monitor = "height" /\ lastRead = "ok" => \A t \in mempool_txs : ~UpTo(t, c)
    BY <1>1, <1>2 DEF RoundInv
  <2>5. monitor' \in {"meta", "swap"} => \A t \in local' : ~UpTo(t, c)'
    <3>1. CASE ListPool
      <4>1. local' = pool
        BY <3>1 DEF ListPool
      <4>2. \A t \in pool : ~UpTo(t, c)
        BY UpToOnChain DEF ChainInv
      <4>3. QED
        BY <2>3, <4>1, <4>2
    <3>2. CASE ~ListPool
      <4>1. monitor' \in {"meta", "swap"} => monitor \in {"meta", "swap"} /\ UNCHANGED local
        BY <3>2, MonitorLeft
        DEF Monitor, UpdateCurrentHeight, ReadMeta, Swap, HeightFails, PoolFails
      <4>2. QED
        BY <2>3, <2>4, <4>1
    <3>3. QED
      BY <3>1, <3>2
  <2>6. monitor' = "height" /\ lastRead' = "ok" => \A t \in mempool_txs' : ~UpTo(t, c)'
    <3>1. CASE Swap
      <4>1. monitor = "swap" /\ mempool_txs' = local
        BY <3>1 DEF Swap
      <4>2. QED
        BY <2>3, <2>4, <4>1
    <3>2. CASE ~Swap
      <4>1. monitor' = "height" /\ lastRead' = "ok" =>
                monitor = "height" /\ lastRead = "ok" /\ UNCHANGED mempool_txs
        BY <3>2, MonitorLeft
        DEF Monitor, UpdateCurrentHeight, ListPool, ReadMeta, HeightFails, PoolFails
      <4>2. QED
        BY <2>3, <2>4, <4>1
    <3>3. QED
      BY <3>1, <3>2
  <2>7. QED
    BY <1>3, <2>1, <2>2, <2>5, <2>6
<1>6. UpdateCurrentHeight \/ UNCHANGED current_height
  BY MonitorLeft DEF Monitor, ListPool, ReadMeta, Swap, HeightFails, PoolFails
<1>7. QED
  BY <1>4, <1>5, <1>6

LEMMA CopyKept ==
    ASSUME TypeOK, ChainInv, \A h \in Handlers : Shape(request[h]), CopyInv,
           [Next]_vars
    PROVE  CopyInv'
<1> SUFFICES ASSUME pops' = 0, evictions' = 0
             PROVE  /\ \A t \in mempool_txs' \union local' : InNetwork(t)'
                    /\ monitor' \in {"meta", "swap"} =>
                          \A t \in mempool_txs' : t \in local' \/ OnChain(t)'
  BY DEF CopyInv
<1>1. /\ pops = 0 /\ evictions = 0
      /\ \A t \in Txs : InNetwork(t) => InNetwork(t)'
      /\ \A t : OnChain(t) => OnChain(t)'
  BY ChainGrows, NetworkGrows
<1>2. /\ \A t \in mempool_txs \union local : t \in Txs /\ InNetwork(t)
      /\ monitor \in {"meta", "swap"} =>
            \A t \in mempool_txs : t \in local \/ OnChain(t)
  BY <1>1 DEF CopyInv, TypeOK
<1>3. CASE ListPool
  <2>1. local' = pool /\ UNCHANGED <<chainVars, mempool_txs>>
    BY <1>3 DEF ListPool
  <2>2. \A t \in pool : t \in Txs /\ InNetwork(t)
    BY DEF InNetwork, TypeOK
  <2>3. QED
    BY <1>1, <1>2, <2>1, <2>2 DEF InNetwork
<1>4. CASE Swap
  <2>1. mempool_txs' = local /\ local' = {} /\ monitor' = "height"
    BY <1>4 DEF Swap
  <2>2. QED
    BY <1>1, <1>2, <2>1
<1>5. CASE ~ListPool /\ ~Swap
  <2>1. /\ UNCHANGED mempool_txs /\ local' \subseteq local
        /\ monitor' \in {"meta", "swap"} =>
              monitor \in {"meta", "swap"} /\ UNCHANGED local
    BY <1>5, MonitorLeft
    DEF Monitor, UpdateCurrentHeight, ReadMeta, HeightFails, PoolFails
  <2>2. QED
    BY <1>1, <1>2, <2>1
<1>6. QED
  BY <1>3, <1>4, <1>5

-------------------------------------------------------------------------------
(***************************************************************************)
(* The requests                                                            *)
(***************************************************************************)
\* What holds of a request goes on holding while others move.
LEMMA RequestStands ==
    ASSUME TypeOK, ChainInv, \A h \in Handlers : Shape(request[h]), RoundInv,
           CopyInv, [Next]_vars, NEW r \in Requests, RequestOK(r)
    PROVE  RequestOK(r)'
<1>1. Shape(r)'
  BY DEF RequestOK, Shape
<1>2. Submitted(r)'
  <2>1. SUFFICES ASSUME r.answer = "accepted", evictions' = 0
                 PROVE  InNetwork(r.tx)'
    BY DEF Submitted, InNetwork, OnChain, Block, Top
  <2>2. PICK t \in Txs : t = r.tx
    BY <2>1 DEF RequestOK, Shape
  <2>3. InNetwork(t)
    BY <2>1, <2>2, NetworkGrows DEF RequestOK, Submitted
  <2>4. InNetwork(t)'
    BY <2>1, <2>3, NetworkGrows
  <2>5. QED
    BY <2>2, <2>4
<1>3. Confirming(r)'
  <2>1. SUFFICES ASSUME r.kind = "confirm", r.seen, pops' = 0, evictions' = 0
                 PROVE  /\ r.pc = "pool" => r.tx \in mempool_txs' \/ OnChain(r.tx)'
                        /\ r.answer = "missing" => OnChain(r.tx)'
    BY DEF Confirming
  <2>2. /\ pops = 0 /\ evictions = 0 /\ \A t : OnChain(t) => OnChain(t)'
    BY <2>1, ChainGrows, NetworkGrows
  <2>3. PICK t : t = r.tx
    OBVIOUS
  <2>4. /\ r.pc = "pool" => t \in mempool_txs \/ OnChain(t)
        /\ r.answer = "missing" => OnChain(t)
    BY <2>1, <2>2, <2>3 DEF RequestOK, Confirming
  <2>5. CASE Swap
    <3>1. monitor = "swap" /\ mempool_txs' = local
      BY <2>5 DEF Swap
    <3>2. t \in mempool_txs => t \in local \/ OnChain(t)
      BY <2>2, <3>1 DEF CopyInv
    <3>3. QED
      BY <2>2, <2>3, <2>4, <3>1, <3>2
  <2>6. CASE ~Swap
    <3>1. UNCHANGED mempool_txs
      BY <2>6, MonitorLeft
      DEF Monitor, UpdateCurrentHeight, ListPool, ReadMeta, HeightFails, PoolFails
    <3>2. QED
      BY <2>2, <2>3, <2>4, <3>1
  <2>7. QED
    BY <2>5, <2>6
<1>4. Searching(r)'
  <2>1. SUFFICES ASSUME pops' = 0
                 PROVE  /\ r.pc = "height" /\ r.seen =>
                              Fee \in r.pool \/ UpTo(Fee, current_height)'
                        /\ r.pc = "blocks" => r.height <= Top'
                        /\ r.pc = "blocks" /\ r.seen =>
                              Fee \in r.pool \/ UpTo(Fee, r.height)'
    BY DEF Searching
  <2>2. /\ pops = 0 /\ Len(chain) \in Nat /\ Len(chain') \in Nat
        /\ Len(chain) <= Len(chain')
    BY <2>1, ChainGrows
  <2>3. PICK c \in Nat : c = current_height
    BY DEF TypeOK
  <2>4. PICK n \in Nat : n = r.height
    BY DEF Requests
  <2>5. UpTo(Fee, c) => UpTo(Fee, current_height)'
    <3>1. current_height' \in Nat /\ c <= current_height'
      <4>1. c <= Top
        BY <2>2, <2>3 DEF RoundInv
      <4>2. CASE UpdateCurrentHeight
        BY <2>2, <2>3, <4>1, <4>2 DEF UpdateCurrentHeight, Top
      <4>3. CASE ~UpdateCurrentHeight
        <5>1. UNCHANGED current_height
          BY <4>3, MonitorLeft DEF Monitor, ListPool, ReadMeta, Swap, HeightFails,
                                   PoolFails
        <5>2. QED
          BY <2>3, <5>1
      <4>4. QED
        BY <4>2, <4>3
    <3>2. UpTo(Fee, c) => UpTo(Fee, c)'
      BY <2>1, UpToStep
    <3>3. ASSUME UpTo(Fee, c)' PROVE UpTo(Fee, current_height)'
      <4>1. PICK i \in 1 .. Len(chain') : i <= c + 1 /\ chain'[i] = Fee
        BY <3>3 DEF UpTo
      <4>2. i <= current_height' + 1
        <5>1. \A a, b, d \in Nat : a <= b + 1 /\ b <= d => a <= d + 1
          OBVIOUS
        <5>2. i \in Nat
          BY <2>2, <4>1
        <5>3. QED
          BY <3>1, <4>1, <5>1, <5>2, Zenon
      <4>3. QED
        BY <4>1, <4>2 DEF UpTo
    <3>4. QED
      BY <3>2, <3>3
  <2>6. UpTo(Fee, n) => UpTo(Fee, n)'
    BY <2>1, UpToStep
  <2>7. /\ r.pc = "height" /\ r.seen => Fee \in r.pool \/ UpTo(Fee, c)
        /\ r.pc = "blocks" => n <= Top
        /\ r.pc = "blocks" /\ r.seen => Fee \in r.pool \/ UpTo(Fee, n)
    BY <2>2, <2>3, <2>4 DEF RequestOK, Searching
  <2>8. n <= Top => n <= Top'
    BY <2>2 DEF Top
  <2>9. QED
    BY <2>4, <2>5, <2>6, <2>7, <2>8
<1>5. QED
  BY <1>1, <1>2, <1>3, <1>4 DEF RequestOK

\* A request that has just begun or moved on.
LEMMA RequestMoves ==
    ASSUME IInv, NEW h \in Handlers, Reading(h), NEW r, r = request'[h]
    PROVE  RequestOK(r)
<1> DEFINE q == request[h]
<1>1. TypeOK /\ q \in Requests /\ RequestOK(q)
  BY DEF IInv, TypeOK, Requests
<1>2. current_height \in Nat /\ (pops = 0 => current_height <= Top)
  BY DEF IInv, TypeOK, RoundInv
<1>3. Shape(q)
  BY <1>1 DEF RequestOK
<1>4. CASE SelectTxs(h)
  <2>1. r = [Free EXCEPT !.pc = "check", !.kind = "txs", !.rows = stored]
    BY <1>1, <1>4, Replied DEF SelectTxs
  <2>2. QED
    BY <2>1 DEF Free, RequestOK, Shape, Submitted, Confirming, Searching
<1>5. CASE CheckGivesUp(h)
  <2>1. /\ r = [q EXCEPT !.pc = "pool", !.rows = {}, !.lost = {}, !.answer = "gaveup"]
        /\ q.kind = "txs"
    BY <1>1, <1>3, <1>5, Replied DEF CheckGivesUp, At, Shape
  <2>2. r.pc = "pool" /\ r.kind = "txs" /\ r.answer = "gaveup"
    BY <1>1, <2>1 DEF Requests
  <2>3. QED
    BY <2>2 DEF RequestOK, Shape, Submitted, Confirming, Searching
<1>6. CASE AddMempoolTxs(h)
  <2>1. PICK a \in {"total", "zero", "exception"} :
          r = [q EXCEPT !.pc = "answered", !.pool = FoundInPool, !.sent = Found,
                        !.answer = a]
    BY <1>1, <1>6, Replied DEF AddMempoolTxs
  <2>2. q.kind = "txs"
    BY <1>6 DEF AddMempoolTxs
  <2>3. r.pc = "answered" /\ r.kind = "txs" /\ r.answer = a
    BY <1>1, <2>1, <2>2 DEF Requests
  <2>4. QED
    BY <2>3 DEF RequestOK, Shape, Submitted, Confirming, Searching
<1>7. ASSUME NEW t \in Txs, SubmitRawTx(h, t) PROVE RequestOK(r)
  <2>1. \/ r = [Free EXCEPT !.kind = "submit", !.tx = t, !.pc = "answered",
                            !.answer = "refused"]
        \/ r = [Free EXCEPT !.kind = "submit", !.tx = t, !.pc = "commit"]
    BY <1>1, <1>7, Replied DEF SubmitRawTx
  <2>2. QED
    BY <2>1 DEF Free, RequestOK, Shape, Submitted, Confirming, Searching
<1>8. ASSUME NEW t \in Txs, ConfirmTxSent(h, t) PROVE RequestOK(r)
  <2>1. \/ r = [Free EXCEPT !.kind = "confirm", !.tx = t, !.pc = "answered",
                            !.answer = "found"]
        \/ r = [Free EXCEPT !.kind = "confirm", !.tx = t, !.pc = "pool",
                            !.seen = (t \in mempool_txs)]
    BY <1>1, <1>8, Replied DEF ConfirmTxSent
  <2>2. /\ r.kind = "confirm" /\ r.tx = t
        /\ \/ r.pc = "answered" /\ r.answer = "found"
           \/ r.pc = "pool" /\ r.answer = "none" /\ (r.seen => t \in mempool_txs)
    BY <2>1 DEF Free
  <2>3. QED
    BY <2>2 DEF RequestOK, Shape, Submitted, Confirming, Searching
<1>9. CASE ConfirmInPool(h)
  <2>1. PICK a \in {"found", "missing"} :
          /\ r = [q EXCEPT !.pc = "answered", !.pool = {}, !.height = 0, !.answer = a]
          /\ a = "missing" => q.tx \notin mempool_txs
    BY <1>1, <1>9, Replied DEF ConfirmInPool, Answer
  <2>2. q.kind = "confirm" /\ q.pc = "pool"
    BY <1>9 DEF ConfirmInPool, At
  <2>3. /\ r.kind = "confirm" /\ r.pc = "answered" /\ r.answer = a
        /\ r.tx = q.tx /\ r.seen = q.seen
    BY <1>1, <2>1, <2>2 DEF Requests
  <2>4. QED
    BY <1>1, <1>3, <2>1, <2>2, <2>3
    DEF RequestOK, Shape, Submitted, Confirming, Searching
<1>10. CASE SearchPayment(h)
  <2> DEFINE s == \/ Fee \in mempool_txs
                  \/ (OnChain(Fee) /\ HeightOf(Fee) <= current_height)
  <2>1. r = [Free EXCEPT !.kind = "payment", !.pc = "height", !.pool = mempool_txs,
                         !.seen = s]
    BY <1>1, <1>10, Replied DEF SearchPayment
  <2>2. s => Fee \in mempool_txs \/ UpTo(Fee, current_height)
    <3>1. SUFFICES ASSUME OnChain(Fee), HeightOf(Fee) <= current_height
                   PROVE  UpTo(Fee, current_height)
      OBVIOUS
    <3>2. Len(chain) \in Nat
      BY <1>1, ChainTyped
    <3>3. HeightOf(Fee) \in 0 .. Top /\ Block(HeightOf(Fee)) = Fee
      BY <3>1 DEF OnChain, HeightOf
    <3>4. HeightOf(Fee) + 1 \in 1 .. Len(chain)
      BY <3>2, <3>3 DEF Top
    <3>5. HeightOf(Fee) + 1 <= current_height + 1
      BY <1>2, <3>1, <3>3
    <3>6. QED
      BY <3>3, <3>4, <3>5 DEF UpTo, Block
  <2> HIDE DEF s
  <2>3. /\ r.kind = "payment" /\ r.pc = "height" /\ r.pool = mempool_txs
        /\ r.seen = s /\ r.answer = "none"
    BY <2>1 DEF Free
  <2>4. QED
    BY <2>2, <2>3 DEF RequestOK, Shape, Submitted, Confirming, Searching
<1>11. CASE PaymentHeight(h)
  <2>1. r = [q EXCEPT !.pc = "blocks", !.height = current_height] /\ q.pc = "height"
    BY <1>1, <1>11, Replied DEF PaymentHeight, At
  <2>2. /\ r.pc = "blocks" /\ r.height = current_height /\ r.kind = q.kind
        /\ r.pool = q.pool /\ r.seen = q.seen /\ r.answer = q.answer
    BY <1>1, <2>1 DEF Requests
  <2>3. q.kind = "payment" /\ q.answer \in {"none", "gaveup"}
    BY <1>3, <2>1 DEF Shape
  <2>4. Searching(r)
    BY <1>1, <1>2, <2>1, <2>2 DEF RequestOK, Searching
  <2>5. QED
    BY <2>2, <2>3, <2>4 DEF RequestOK, Shape, Submitted, Confirming
<1>12. CASE SearchBlocks(h)
  <2>1. PICK a \in {"found", "missing"} :
          r = [q EXCEPT !.pc = "answered", !.pool = {}, !.height = 0, !.answer = a]
    BY <1>1, <1>12, Replied DEF SearchBlocks, Answer
  <2>2. q.kind = "payment"
    BY <1>3, <1>12 DEF SearchBlocks, At, Shape
  <2>3. r.kind = "payment" /\ r.pc = "answered" /\ r.answer = a
    BY <1>1, <2>1, <2>2 DEF Requests
  <2>4. QED
    BY <2>3 DEF RequestOK, Shape, Submitted, Confirming, Searching
<1>13. CASE Finish(h)
  <2>1. r = Free
    BY <1>1, <1>13, Replied DEF Finish
  <2>2. QED
    BY <2>1 DEF Free, RequestOK, Shape, Submitted, Confirming, Searching
<1>14. QED
  BY <1>4, <1>5, <1>6, <1>7, <1>8, <1>9, <1>10, <1>11, <1>12, <1>13 DEF Reading

\* Nothing is said of the rows that a request has lost.
LEMMA LosingKeeps ==
    ASSUME NEW r \in Requests, NEW x, RequestOK(r)
    PROVE  RequestOK([r EXCEPT !.lost = x])
<1> DEFINE q == [r EXCEPT !.lost = x]
<1>1. /\ q.pc = r.pc /\ q.kind = r.kind /\ q.tx = r.tx /\ q.answer = r.answer
      /\ q.seen = r.seen /\ q.pool = r.pool /\ q.height = r.height
  BY DEF Requests
<1> HIDE DEF q
<1>2. Shape(q)
  BY <1>1 DEF RequestOK, Shape
<1>3. Submitted(q)
  BY <1>1 DEF RequestOK, Submitted
<1>4. Confirming(q)
  BY <1>1 DEF RequestOK, Confirming
<1>5. Searching(q)
  BY <1>1 DEF RequestOK, Searching
<1>6. RequestOK(q)
  BY <1>2, <1>3, <1>4, <1>5 DEF RequestOK
<1>7. QED
  BY <1>6 DEF q

LEMMA RequestsKept ==
    ASSUME IInv, [Next]_vars, NEW g \in Handlers
    PROVE  RequestOK(request[g])'
<1>1. /\ TypeOK /\ ChainInv /\ RoundInv /\ CopyInv
      /\ \A h \in Handlers : Shape(request[h])
      /\ request \in [Handlers -> Requests]
      /\ \A h \in Handlers : request[h] \in Requests /\ RequestOK(request[h])
  BY DEF IInv, RequestOK, TypeOK, Requests
<1>2. TypeOK' /\ request' \in [Handlers -> Requests]
  BY <1>1, TypesKept DEF TypeOK, Requests
<1>3. PICK r \in Requests : r = request'[g]
  BY <1>2
\* It is enough that the new record was all right before the step.
<1>4. SUFFICES RequestOK(r)'
  BY <1>3 DEF RequestOK, Shape, Submitted, Confirming, Searching, InNetwork, OnChain,
              UpTo, Block, Top
<1>5. ASSUME RequestOK(r) PROVE RequestOK(r)'
  BY <1>1, <1>5, RequestStands
<1>6. CASE r = request[g]
  BY <1>1, <1>5, <1>6
<1>7. ASSUME NEW ts \in SUBSET Txs, r = Losing(g, ts) PROVE RequestOK(r)'
  <2>1. r = [request[g] EXCEPT !.lost = Losing(g, ts).lost]
    BY <1>1, <1>7, LosingTyped
  <2>2. RequestOK(r)
    BY <1>1, <2>1, LosingKeeps
  <2>3. QED
    BY <1>5, <2>2
<1>8. ASSUME NEW h \in Handlers, Reading(h) PROVE RequestOK(r)'
  <2>1. CASE h = g
    BY <1>3, <1>5, <1>8, <2>1, RequestMoves
  <2>2. CASE h # g
    <3>1. r = request[g]
      BY <1>1, <1>3, <1>8, <2>2
      DEF Reading, SelectTxs, CheckGivesUp, AddMempoolTxs, SubmitRawTx, ConfirmTxSent,
          ConfirmInPool, SearchPayment, PaymentHeight, SearchBlocks, Finish, Answer,
          Step
    <3>2. QED
      BY <1>6, <3>1
  <2>3. QED
    BY <2>1, <2>2
<1>9. ASSUME NEW h \in Handlers, CheckRows(h) PROVE RequestOK(r)'
  <2> DEFINE gone == {t \in request[h].rows : ~OnChain(t)}
  <2>1. gone \in SUBSET Txs
    BY <1>1 DEF Requests
  <2>2. /\ request' = [i \in Handlers |->
                         IF i = h THEN [request[h] EXCEPT !.pc = "pool",
                                                          !.rows = @ \ gone,
                                                          !.lost = {}]
                                  ELSE Losing(i, gone)]
        /\ request[h].pc = "check"
    BY <1>9 DEF CheckRows, At
  <2> HIDE DEF gone
  <2>3. CASE h # g
    BY <1>3, <1>7, <2>1, <2>2, <2>3
  <2>4. CASE h = g
    <3>1. request[h].kind = "txs" /\ request[h].answer \in {"none", "gaveup"}
      BY <1>1, <2>2 DEF Shape
    <3>2. r.pc = "pool" /\ r.kind = "txs" /\ r.answer \in {"none", "gaveup"}
      BY <1>1, <1>3, <2>2, <2>4, <3>1 DEF Requests
    <3>3. RequestOK(r)
      BY <3>2 DEF RequestOK, Shape, Submitted, Confirming, Searching
    <3>4. QED
      BY <1>5, <3>3
  <2>5. QED
    BY <2>3, <2>4
<1>10. ASSUME NEW h \in Handlers, CommitTx(h) PROVE RequestOK(r)'
  <2>1. PICK a \in {"accepted", "rejected"} :
          /\ request' = [request EXCEPT ![h] =
                           [request[h] EXCEPT !.pc = "answered", !.answer = a]]
          /\ a = "accepted" => pool' = pool \union {request[h].tx}
    BY <1>1, <1>10, CommittedTyped
  <2>2. request[h].kind = "submit" /\ request[h].tx \in Txs
    BY <1>1, <1>10 DEF CommitTx, At, Shape
  <2>3. CASE h # g
    BY <1>1, <1>3, <1>6, <2>1, <2>3
  <2>4. CASE h = g
    <3>1. /\ r.pc = "answered" /\ r.kind = "submit" /\ r.answer = a
          /\ r.tx = request[h].tx
      BY <1>1, <1>3, <2>1, <2>2, <2>4 DEF Requests
    <3>2. Shape(r)' /\ Confirming(r)' /\ Searching(r)'
      BY <2>2, <3>1 DEF Shape, Confirming, Searching
    <3>3. Submitted(r)'
      BY <2>1, <3>1 DEF Submitted, InNetwork
    <3>4. QED
      BY <3>2, <3>3 DEF RequestOK
  <2>5. QED
    BY <2>3, <2>4
<1>11. CASE UNCHANGED vars
  BY <1>3, <1>6, <1>11 DEF vars
<1>12. CASE \/ (\E t \in Txs : Arrive(t) \/ Evict(t)) \/ Pop
            \/ (\E b \in pool \union {Nothing} : Mine(b))
  BY <1>3, <1>6, <1>12 DEF Arrive, Evict, Pop, Mine
<1>13. CASE Monitor \/ HeightFails \/ PoolFails
  BY <1>3, <1>6, <1>13 DEF Monitor, UpdateCurrentHeight, ListPool, ReadMeta, Swap,
                           HeightFails, PoolFails
<1>14. CASE SkipBlock \/ StoreTx \/ Rescan
  BY <1>3, <1>6, <1>14 DEF SkipBlock, StoreTx, Rescan
<1>15. CASE DeleteExistingTx
  <2>1. {Block(position)} \intersect stored \in SUBSET Txs
    BY <1>1 DEF TypeOK
  <2>2. r = Losing(g, {Block(position)} \intersect stored)
    BY <1>3, <1>15 DEF DeleteExistingTx
  <2>3. QED
    BY <1>7, <2>1, <2>2
<1>16. QED
  BY <1>8, <1>9, <1>10, <1>11, <1>12, <1>13, <1>14, <1>15, NextCases DEF SearchThread

-------------------------------------------------------------------------------
(***************************************************************************)
(* The theorems                                                            *)
(***************************************************************************)
LEMMA InitInv == Init => IInv
<1> SUFFICES ASSUME Init PROVE IInv
  OBVIOUS
<1>1. chain = <<Nothing>> /\ Len(chain) = 1 /\ chain[1] = Nothing
  BY DEF Init
<1>2. TypeOK
  <2>1. chain \in Seq(Txs \union {Nothing})
    BY <1>1
  <2>2. request \in [Handlers -> Requests]
    BY FreeTyped DEF Init
  <2>3. QED
    BY <2>1, <2>2 DEF Init, TypeOK, Requests
<1>3. \A t : OnChain(t) <=> t = Nothing
  BY <1>1 DEF OnChain, Block, Top
<1>4. ChainInv
  BY <1>1 DEF Init, ChainInv
<1>5. NoConflicts
  BY <1>3, MempoolAssumption DEF Init, NoConflicts, InNetwork
<1>6. RoundInv /\ CopyInv
  BY <1>1 DEF Init, RoundInv, CopyInv, Top
<1>7. RequestOK(Free)
  BY DEF Free, RequestOK, Shape, Submitted, Confirming, Searching
<1>8. QED
  BY <1>2, <1>4, <1>5, <1>6, <1>7 DEF IInv, Init

LEMMA NextInv == IInv /\ [Next]_vars => IInv'
<1> SUFFICES ASSUME IInv, [Next]_vars PROVE IInv'
  OBVIOUS
<1>1. /\ TypeOK /\ ChainInv /\ NoConflicts /\ RoundInv /\ CopyInv
      /\ \A h \in Handlers : Shape(request[h])
  BY DEF IInv, RequestOK
<1>2. TypeOK' /\ ChainInv' /\ NoConflicts'
  BY <1>1, TypesKept, NetworkStep, NoConflictsKept
<1>3. RoundInv' /\ CopyInv'
  BY <1>1, RoundKept, CopyKept
<1>4. \A h \in Handlers : RequestOK(request[h])'
  BY RequestsKept
<1>5. QED
  BY <1>2, <1>3, <1>4 DEF IInv

\* The inductive invariant holds however the daemon, the monitor, the search
\* thread and the handlers take turns.
THEOREM Invariance == Spec => []IInv
<1>1. QED
  BY InitInv, NextInv, PTL DEF Spec

\* The chain, the copies, the tables and the requests keep their types.
THEOREM TypeCorrect == Spec => []TypeOK
<1>1. IInv => TypeOK
  BY DEF IInv
<1>2. QED
  BY <1>1, Invariance, PTL

\* Between two rounds of the monitor get_address_txs counts nothing twice: the
\* rows come from blocks up to current_height, and the copy, which was listed
\* later, has none of them.
THEOREM NothingCountedTwice == Spec => []CountedOnce
<1>1. IInv => CountedOnce
  BY DEF IInv, RoundInv, CountedOnce
<1>2. QED
  BY <1>1, Invariance, PTL

\* confirm_tx_sent, which looks at the blockchain before it looks at the copy,
\* misses between the two only what was mined.
THEOREM MissedOnlyWhenMined == Spec => []MissingMeansMined
<1>1. IInv => MissingMeansMined
  BY DEF IInv, RequestOK, Confirming, MissingMeansMined
<1>2. QED
  BY <1>1, Invariance, PTL

\* Whatever the copy told submit_raw_tx, what it reports as submitted is in the
\* network, and nothing that conflicts with it is.
THEOREM ReportedIsSubmitted == Spec => []SubmittedIsInNetwork
<1>1. ASSUME IInv PROVE SubmittedIsInNetwork
  <2>1. SUFFICES ASSUME NEW h \in Handlers, request[h].answer = "accepted",
                        evictions = 0
                 PROVE  /\ InNetwork(request[h].tx)
                        /\ \A u \in Txs :
                              Conflict(request[h].tx, u) => ~InNetwork(u)
    BY DEF SubmittedIsInNetwork, InNetwork
  <2>2. request[h].tx \in Txs /\ InNetwork(request[h].tx)
    BY <1>1, <2>1 DEF IInv, RequestOK, Shape, Submitted
  <2>3. QED
    BY <1>1, <2>2 DEF IInv, NoConflicts
<1>2. QED
  BY <1>1, Invariance, PTL

\* Only its last step answers a search for a payment.
LEMMA SearchAnswers ==
    ASSUME IInv, [Next]_vars, NEW h \in Handlers, At(h, "blocks"),
           request'[h].answer # request[h].answer
    PROVE  SearchBlocks(h)
<1>1. TypeOK /\ request \in [Handlers -> Requests] /\ request[h].pc = "blocks"
  BY DEF IInv, TypeOK, Requests, At
<1>2. request[h].kind = "payment"
  BY <1>1 DEF IInv, RequestOK, Shape
<1>3. request'[h] # request[h]
  OBVIOUS
<1>4. \A ts : Losing(h, ts) = request[h]
  BY <1>1 DEF Losing
<1>5. CASE UNCHANGED vars
  BY <1>3, <1>5 DEF vars
<1>6. CASE \/ (\E t \in Txs : Arrive(t) \/ Evict(t)) \/ Pop
           \/ (\E b \in pool \union {Nothing} : Mine(b))
  BY <1>3, <1>6 DEF Arrive, Evict, Pop, Mine
<1>7. CASE Monitor \/ HeightFails \/ PoolFails
  BY <1>3, <1>7 DEF Monitor, UpdateCurrentHeight, ListPool, ReadMeta, Swap,
                    HeightFails, PoolFails
<1>8. CASE SkipBlock \/ StoreTx \/ Rescan
  BY <1>3, <1>8 DEF SkipBlock, StoreTx, Rescan
<1>9. CASE DeleteExistingTx
  BY <1>3, <1>4, <1>9 DEF DeleteExistingTx
<1>10. ASSUME NEW g \in Handlers, g # h,
              Reading(g) \/ CheckRows(g) \/ CommitTx(g)
       PROVE  FALSE
  <2>1. CASE Reading(g)
    BY <1>1, <1>3, <1>10, <2>1
    DEF Reading, SelectTxs, CheckGivesUp, AddMempoolTxs, SubmitRawTx, ConfirmTxSent,
        ConfirmInPool, SearchPayment, PaymentHeight, SearchBlocks, Finish, Answer,
        Step
  <2>2. CASE CheckRows(g)
    BY <1>3, <1>4, <1>10, <2>2 DEF CheckRows
  <2>3. CASE CommitTx(g)
    <3>1. PICK a \in {"accepted", "rejected"} :
            request' = [request EXCEPT ![g] =
                          [request[g] EXCEPT !.pc = "answered", !.answer = a]]
      BY <1>1, <2>3, CommittedTyped
    <3>2. QED
      BY <1>1, <1>3, <1>10, <3>1
  <2>4. QED
    BY <1>10, <2>1, <2>2, <2>3
<1>11. CASE Reading(h) \/ CheckRows(h) \/ CommitTx(h)
  BY <1>1, <1>2, <1>11
  DEF Reading, SelectTxs, CheckGivesUp, AddMempoolTxs, SubmitRawTx, ConfirmTxSent,
      ConfirmInPool, SearchPayment, PaymentHeight, Finish, CheckRows, CommitTx, At
<1>12. QED
  BY <1>5, <1>6, <1>7, <1>8, <1>9, <1>10, <1>11, NextCases DEF SearchThread

\* The lowest block of the search; it is not above the height less the depth,
\* also where the subtraction has wrapped.
LEMMA FirstSearched ==
    ASSUME NEW n \in Nat, n >= PaymentDepth
    PROVE  /\ (n - PaymentDepth) % Word \in Nat
           /\ (n - PaymentDepth) % Word <= n - PaymentDepth
<1>1. PICK a \in Nat : a = n - PaymentDepth
  BY MempoolAssumption
<1>2. Word \in Nat \ {0}
  BY MempoolAssumption
<1>3. a % Word \in Nat /\ a % Word <= a
  BY <1>2
<1>4. QED
  BY <1>1, <1>3

LEMMA HeightOfUnique ==
    ASSUME TypeOK, ChainInv, NEW t \in Txs, NEW j \in 1 .. Len(chain), chain[j] = t
    PROVE  OnChain(t) /\ HeightOf(t) = j - 1
<1>1. Len(chain) \in Nat /\ t # Nothing
  BY ChainTyped, MempoolAssumption
<1>2. j - 1 \in 0 .. Top /\ (j - 1) + 1 = j
  BY <1>1 DEF Top
<1>3. Block(j - 1) = t
  BY <1>2 DEF Block
<1>4. OnChain(t)
  BY <1>2, <1>3 DEF OnChain
<1>5. HeightOf(t) \in 0 .. Top /\ Block(HeightOf(t)) = t
  BY <1>4 DEF OnChain, HeightOf
<1>6. HeightOf(t) + 1 \in 1 .. Len(chain) /\ chain[HeightOf(t) + 1] = t
  BY <1>1, <1>5 DEF Top, Block
<1>7. HeightOf(t) + 1 = j
  BY <1>1, <1>6 DEF ChainInv
<1>8. QED
  BY <1>4, <1>5, <1>7 DEF Top

\* search_if_payment_made misses a payment that was in the copy or in a block
\* below the cached height only if the chain is short or the payment is buried,
\* whatever arrives or is mined while it searches.
THEOREM PaymentFound == Spec => PaymentMissedOnlyIfBuried
<1>1. ASSUME IInv, [Next]_vars, NEW h \in Handlers, At(h, "blocks"),
             request'[h].answer = "missing", request[h].seen, pops = 0
      PROVE  \/ request[h].height < PaymentDepth
             \/ OnChain(Fee) /\ HeightOf(Fee) + PaymentDepth < request[h].height
  <2>1. /\ TypeOK /\ ChainInv /\ RequestOK(request[h]) /\ request[h] \in Requests
    BY <1>1 DEF IInv, TypeOK, Requests
  <2>2. PICK n \in Nat : n = request[h].height
    BY <2>1 DEF Requests
  <2>3. /\ n <= Top /\ (Fee \in request[h].pool \/ UpTo(Fee, n))
    BY <1>1, <2>1, <2>2 DEF RequestOK, Searching, At
  <2>4. SearchBlocks(h)
    <3>1. request[h].answer \in {"none", "gaveup"}
      BY <1>1, <2>1 DEF RequestOK, Shape, At
    <3>2. QED
      BY <1>1, <3>1, SearchAnswers
  <2>5. SUFFICES ASSUME n >= PaymentDepth
                 PROVE  OnChain(Fee) /\ HeightOf(Fee) + PaymentDepth < n
    BY <2>2, MempoolAssumption
  <2>6. PICK lo \in Nat : lo = (n - PaymentDepth) % Word
    BY <2>5, FirstSearched
  <2>7. lo <= n - PaymentDepth
    BY <2>5, <2>6, FirstSearched
  <2>8. Len(chain) \in Nat
    BY <2>1, ChainTyped
  <2>9. ~(/\ \A i \in lo .. n : i <= Top
          /\ Fee \in request[h].pool \/ \E i \in lo .. n : Block(i) = Fee)
    <3>1. PICK a \in {"found", "missing"} :
            /\ request'[h] = [request[h] EXCEPT !.pc = "answered", !.pool = {},
                                                !.height = 0, !.answer = a]
            /\ a = IF /\ \A i \in lo .. n : i <= Top
                      /\ Fee \in request[h].pool \/ \E i \in lo .. n : Block(i) = Fee
                   THEN "found" ELSE "missing"
      BY <2>1, <2>2, <2>4, <2>6, Replied DEF SearchBlocks, Answer, PaymentBlocks
    <3>2. request'[h].answer = a
      BY <2>1, <3>1 DEF Requests
    <3>3. QED
      BY <1>1, <3>1, <3>2
  <2>10. /\ Fee \notin request[h].pool
         /\ \A i \in lo .. n : Block(i) # Fee
    BY <2>3, <2>8, <2>9 DEF Top
  <2>11. PICK j \in 1 .. Len(chain) : j <= n + 1 /\ chain[j] = Fee
    BY <2>3, <2>10 DEF UpTo
  <2>12. OnChain(Fee) /\ HeightOf(Fee) = j - 1
    BY <2>1, <2>11, HeightOfUnique, MempoolAssumption
  <2>13. j - 1 < lo
    <3>1. SUFFICES ASSUME j - 1 >= lo PROVE FALSE
      BY <2>8
    <3>2. j - 1 \in lo .. n /\ (j - 1) + 1 = j
      BY <2>8, <2>11, <3>1
    <3>3. Block(j - 1) = Fee
      BY <2>11, <3>2 DEF Block
    <3>4. QED
      BY <2>10, <3>2, <3>3
  <2>14. QED
    BY <2>7, <2>8, <2>12, <2>13, MempoolAssumption
<1>2. ASSUME IInv, [Next]_vars
      PROVE  [\A h \in Handlers :
                (At(h, "blocks") /\ request'[h].answer = "missing"
                   /\ request[h].seen /\ pops = 0 /\ evictions = 0)
                  => \/ request[h].height < PaymentDepth
                     \/ OnChain(Fee) /\ HeightOf(Fee) + PaymentDepth < request[h].height
             ]_vars
  BY <1>1, <1>2
<1>3. QED
  BY <1>2, Invariance, PTL DEF Spec, PaymentMissedOnlyIfBuried

===============================================================================
