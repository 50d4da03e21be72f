--------------------------- MODULE TxStorageProofs ---------------------------
(***************************************************************************)
(* Theorems about TxStorage, for any transactions, any chain and any       *)
(* lengths of the ranges.                                                  *)
(*                                                                         *)
(* What the thread has passed stays stored because a rescan goes through   *)
(* the blocks in order: when it deletes a transaction the cascade removes  *)
(* only inputs of later ones, and when it stores one again every output    *)
(* that it spends is in the table and in the cache.                        *)
(***************************************************************************)
EXTENDS TxStorage, SequenceTheorems, TLAPS

-------------------------------------------------------------------------------
(***************************************************************************)
(* The invariants                                                          *)
(***************************************************************************)
Scanning == thread \in {"txs", "scan", "store", "advance"}

\* The thread has a transaction in hand, an empty cache was counted, a verdict
\* names a transaction, and what nobody has deleted since it was selected is in
\* the table.
WorkInv ==
    /\ saved >= 1 /\ position >= 1 /\ (Scanning => last >= 1)
    /\ thread = "store" =>
          batch # <<>> /\ This.tx \in Txs /\ identified = Identified
    /\ blind => skips # 0
    /\ \/ verdict = NoVerdict
       \/ verdict.act \in {"mark", "delete"} /\ verdict.tx \in Txs
    /\ \A t \in fresh : transactions[t] # Nothing

\* A transaction is mined once, and after those whose outputs it spends.
MinedOnce ==
    \A i, j \in 1 .. Len(chain) :
        chain[i] = chain[j] /\ chain[i] # Nothing => i = j

SpentLater ==
    \A j \in 1 .. Len(chain) :
        chain[j] # Nothing =>
            \A o \in Spends[chain[j]] :
                \E i \in 1 .. j - 1 : chain[i] # Nothing /\ o \in Creates[chain[i]]

\* Without a reorganisation a row keeps its number in the blockchain, and no
\* spendability check deletes anything.
RowCurrent(r, t) ==
    r # Nothing => OnChain(t) /\ r.blockchain_tx_id = BlockchainTxId(t)

RowsCurrent ==
    pops = 0 =>
        /\ \A t \in Txs : RowCurrent(transactions[t], t) /\ RowCurrent(list[t], t)
        /\ verdict.act # "delete"

\* The height of the block that the thread examines next.
NextHeight == last + 1 - Len(batch)

\* The blocks that are left are the last ones of the range, as they are on the
\* chain.
BatchCurrent ==
    pops = 0 /\ Scanning =>
        /\ last <= Len(chain) /\ NextHeight >= 1
        /\ thread = "advance" => batch = <<>>
        /\ \A k \in 1 .. Len(batch) :
              /\ batch[k].height = NextHeight + k - 1
              /\ batch[k].tx = chain[NextHeight + k - 1]

\* Everything below the position, and below the next block of the range, is
\* stored; the range lies above the position.
PassedStored ==
    Undisturbed =>
        /\ thread # "none" => /\ position \in 1 .. Len(chain) + 1
                              /\ StoredBelow(position)
        /\ Scanning => position <= NextHeight /\ StoredBelow(NextHeight)

\* The thread has not saved the end of its range yet.
Reading == {"loop", "txs", "scan", "store", "returned"}

\* What a thread that starts again will not scan is stored: the saved height
\* is behind the thread, until it saves, unless an import moved it, and then it
\* counts for nothing as long as the thread lives.
SavedStored ==
    Undisturbed =>
        /\ saved \in 1 .. Len(chain) + 1
        /\ thread = "none" /\ crashes = 0 => saved = 1
        /\ imports = 0 =>
              /\ ~updated /\ ~importing
              /\ thread = "none" => StoredBelow(saved)
              /\ thread \in Reading => saved <= position
              /\ thread = "advance" => saved = last

IInv ==
    /\ TypeOK /\ WorkInv /\ MinedOnce /\ SpentLater /\ RowsCurrent
    /\ BatchCurrent /\ PassedStored /\ SavedStored
    /\ KnownOutputsCached /\ InputsBacked

-------------------------------------------------------------------------------
(***************************************************************************)
(* Types, the cache and the foreign keys                                   *)
(***************************************************************************)
USE DEF threadVars, tableVars, checkVars, boundVars, ThreadStates

Blocks == [tx : Txs \union {Nothing}, height : Nat]

\* What holds of the tables whatever happens.
TableInv == TypeOK /\ WorkInv /\ KnownOutputsCached /\ InputsBacked

LEMMA BatchTyped ==
    ASSUME TypeOK, batch # <<>>
    PROVE  /\ This \in Blocks /\ This = batch[1] /\ This.height \in Nat
           /\ Tail(batch) \in Seq(Blocks)
           /\ Len(Tail(batch)) = Len(batch) - 1 /\ Len(batch) \in Nat \ {0}
           /\ \A k \in 1 .. Len(batch) - 1 : Tail(batch)[k] = batch[k + 1]
<1>1. batch \in Seq(Blocks)
  BY DEF TypeOK, Blocks
<1>2. Head(batch) \in Blocks
  BY <1>1, HeadTailProperties
<1>3. Head(batch) = batch[1]
  BY <1>1
<1>4. /\ Tail(batch) \in Seq(Blocks)
      /\ Len(Tail(batch)) = Len(batch) - 1
      /\ \A k \in 1 .. Len(Tail(batch)) : Tail(batch)[k] = batch[k + 1]
  BY <1>1, HeadTailProperties
<1>5. Len(batch) \in Nat \ {0}
  BY <1>1, EmptySeq
<1>6. QED
  BY <1>2, <1>3, <1>4, <1>5 DEF This, Blocks

\* The ON DELETE CASCADE of the foreign keys.
LEMMA DeleteKeeps ==
    ASSUME TypeOK, InputsBacked, NEW t \in Txs, DeleteTx(t),
           \A u \in fresh : transactions[u] # Nothing
    PROVE  /\ transactions' \in [Txs -> Row \union {Nothing}]
           /\ outputs' \subseteq outputs /\ inputs' \subseteq inputs
           /\ fresh' \subseteq fresh
           /\ \A u \in fresh' : transactions'[u] # Nothing
           /\ InputsBacked'
<1>1. /\ transactions' = [transactions EXCEPT ![t] = Nothing]
      /\ outputs' = outputs \ Creates[t]
      /\ inputs' = {in \in inputs : in[1] # t /\ in[2] \notin Creates[t]}
      /\ fresh' = fresh \ {t}
  BY DEF DeleteTx
<1>2. \A u \in Txs : u # t => transactions'[u] = transactions[u]
  BY <1>1 DEF TypeOK
<1>3. transactions' \in [Txs -> Row \union {Nothing}]
  BY <1>1 DEF TypeOK
<1>4. \A in \in inputs : in[1] \in Txs
  BY DEF TypeOK
<1>5. InputsBacked'
  BY <1>1, <1>2, <1>4 DEF InputsBacked
<1>6. \A u \in fresh' : transactions'[u] # Nothing
  BY <1>1, <1>2 DEF TypeOK
<1>7. QED
  BY <1>1, <1>3, <1>5, <1>6

LEMMA NoBatch == <<>> \in Seq(Blocks) /\ Len(<<>>) = 0
BY EmptySeq

LEMMA NoVerdictTyped ==
    NoVerdict \in [act : {"none", "mark", "delete"}, tx : Txs \union {Nothing}]
BY DEF NoVerdict

LEMMA InitTables == Init => TableInv
<1> SUFFICES ASSUME Init PROVE TableInv
  OBVIOUS
<1>1. chain \in Seq(Txs \union {Nothing}) /\ batch \in Seq(Blocks)
  BY EmptySeq DEF Init
<1>2. TypeOK
  BY <1>1, NoVerdictTyped DEF Init, TypeOK, NoRows, Blocks
<1>3. QED
  BY <1>2 DEF Init, TableInv, WorkInv, KnownOutputsCached, InputsBacked, Scanning

\* The steps that leave the tables, the thread's work and the check alone.
LEMMA OutsideTables ==
    ASSUME TableInv,
           \/ \E b \in Txs \union {Nothing} : MineBlock(b)
           \/ PopBlock \/ ResetRow \/ ResetPosition \/ UNCHANGED vars
    PROVE  TableInv'
<1> USE DEF TableInv
<1>1. /\ UNCHANGED <<thread, batch, last, identified, known, blind, skips, tableVars,
                     checkVars, fresh>>
  BY DEF MineBlock, PopBlock, ResetRow, ResetPosition, vars
<1>2. WorkInv' /\ KnownOutputsCached' /\ InputsBacked'
  <2>1. (saved >= 1 /\ position >= 1)'
    BY DEF MineBlock, PopBlock, ResetRow, ResetPosition, vars, WorkInv, TypeOK
  <2>2. QED
    BY <1>1, <2>1 DEF WorkInv, KnownOutputsCached, InputsBacked, This, Identified, Scanning
<1>3. chain' \in Seq(Txs \union {Nothing})
  <2>1. CASE \E b \in Txs \union {Nothing} : MineBlock(b)
    BY <2>1, AppendProperties DEF MineBlock, TypeOK
  <2>2. CASE PopBlock
    <3>1. Len(chain) \in Nat /\ \A i \in 1 .. Len(chain) - 1 :
                                  chain[i] \in Txs \union {Nothing}
      BY LenProperties, ElementOfSeq DEF TypeOK
    <3>2. QED
      BY <2>2, <3>1, SubSeqProperties DEF PopBlock
  <2>3. QED
    BY <2>1, <2>2 DEF ResetRow, ResetPosition, vars, TypeOK
<1>4. /\ saved' \in Nat /\ position' \in Nat
      /\ updated' \in BOOLEAN /\ importing' \in BOOLEAN
      /\ pops' \in Nat /\ imports' \in Nat /\ crashes' \in Nat /\ skips' \in Nat
  <2>1. CASE \E b \in Txs \union {Nothing} : MineBlock(b)
    BY <2>1 DEF MineBlock, TypeOK
  <2>2. CASE PopBlock
    BY <2>2 DEF PopBlock, TypeOK
  <2>3. CASE ResetRow
    BY <2>3 DEF ResetRow, TypeOK
  <2>4. CASE ResetPosition
    <3>1. updated' \in BOOLEAN /\ importing' \in BOOLEAN
      BY <2>4, Zenon DEF ResetPosition, TypeOK
    <3>2. position' \in Nat
      BY <2>4 DEF ResetPosition, TypeOK
    <3>3. QED
      BY <2>4, <3>1, <3>2 DEF ResetPosition, TypeOK
  <2>5. CASE UNCHANGED vars
    BY <2>5 DEF vars, TypeOK
  <2>6. QED
    BY <2>1, <2>2, <2>3, <2>4, <2>5
<1>5. gone' \in BOOLEAN
  <2>1. CASE PopBlock
    BY <2>1, Zenon DEF PopBlock
  <2>2. CASE UNCHANGED gone
    BY <2>2 DEF TypeOK
  <2>3. QED
    BY <2>1, <2>2 DEF MineBlock, ResetRow, ResetPosition, vars
<1>6. TypeOK'
  BY <1>1, <1>3, <1>4, <1>5 DEF TypeOK
<1>7. QED
  BY <1>2, <1>6

\* The range of FetchBlocks, which ends on the chain.
LEMMA FetchedBatch ==
    ASSUME TypeOK, WorkInv, FetchBlocks
    PROVE  /\ batch' \in Seq(Blocks) /\ last' \in Nat
           /\ Len(batch') = last' + 1 - position
           /\ position <= last' /\ last' <= Len(chain)
           /\ \A k \in 1 .. Len(batch') :
                 /\ batch'[k].tx = chain[position + k - 1]
                 /\ batch'[k].height = position + k - 1
<1> DEFINE n == RangeEnd + 1 - position
           block(k) == [tx |-> chain[position + k - 1],
                        height |-> position + k - 1]
<1>1. Len(chain) \in Nat /\ position \in Nat \ {0}
  BY LenProperties DEF TypeOK, WorkInv
<1>2. /\ RangeEnd \in Nat /\ position <= RangeEnd /\ RangeEnd <= Len(chain)
      /\ n \in Nat
  BY <1>1, StorageAssumption DEF RangeEnd, FetchBlocks
<1>3. batch' = [k \in 1 .. n |-> block(k)] /\ last' = RangeEnd
  BY DEF FetchBlocks
<1>4. ASSUME NEW k \in 1 .. n PROVE block(k) \in Blocks
  <2>1. position + k - 1 \in 1 .. Len(chain)
    BY <1>1, <1>2
  <2>2. chain[position + k - 1] \in Txs \union {Nothing}
    BY <2>1, ElementOfSeq DEF TypeOK
  <2>3. QED
    BY <2>1, <2>2, <1>1 DEF Blocks
<1>5. batch' \in [1 .. n -> Blocks]
  BY <1>3, <1>4
<1> HIDE DEF n
<1>6. batch' \in Seq(Blocks) /\ Len(batch') = n
  BY <1>2, <1>5
<1>7. QED
  BY <1>1, <1>2, <1>3, <1>6 DEF n

\* A step of the thread that writes no table.
LEMMA ReadingTables ==
    ASSUME TableInv,
           \/ StartThread \/ FetchBlocks \/ GetTxs \/ MissTxs \/ SkipTx
           \/ SavePosition \/ Advance \/ TxGone \/ ThreadThrows \/ PassOverTx
    PROVE  TableInv'
<1> USE DEF TableInv
<1>1. UNCHANGED <<chain, tableVars, checkVars, fresh, importing>>
  BY DEF StartThread, FetchBlocks, GetTxs, MissTxs, SkipTx, SavePosition, Advance,
         TxGone, ThreadThrows, PassOverTx
<1>2. InputsBacked'
  BY <1>1 DEF InputsBacked
<1>3. batch' \in Seq(Blocks) /\ last' \in Nat /\ (Scanning' => last' >= 1)
  <2>1. CASE FetchBlocks
    BY <2>1, FetchedBatch DEF TypeOK, WorkInv
  <2>2. CASE SkipTx
    BY <2>2, BatchTyped DEF SkipTx, TypeOK, WorkInv, Scanning
  <2>3. CASE PassOverTx
    BY <2>3, BatchTyped DEF PassOverTx, TypeOK, WorkInv, Scanning
  <2>4. CASE TxGone \/ ThreadThrows
    <3>1. batch' = <<>> /\ last' = 0 /\ thread' = "none"
      BY <2>4 DEF TxGone, ThreadThrows, StopThread
    <3>2. batch' \in Seq(Blocks)
      BY <3>1, NoBatch
    <3>3. QED
      BY <3>1, <3>2 DEF Scanning
  <2>5. CASE StartThread \/ GetTxs \/ SavePosition \/ Advance
    BY <2>5 DEF StartThread, GetTxs, SavePosition, Advance, TypeOK, Blocks, WorkInv,
                Scanning
  <2>6. CASE MissTxs
    <3>1. batch' = <<>> /\ last' = 0 /\ thread' = "returned"
      BY <2>6 DEF MissTxs
    <3>2. batch' \in Seq(Blocks)
      BY <3>1, NoBatch
    <3>3. QED
      BY <3>1, <3>2 DEF Scanning
  <2>7. QED
    BY <2>1, <2>2, <2>3, <2>4, <2>5, <2>6
<1>4. /\ saved' \in Nat /\ position' \in Nat /\ saved' >= 1 /\ position' >= 1
      /\ thread' \in ThreadStates
      /\ pops' \in Nat /\ imports' \in Nat /\ crashes' \in Nat /\ skips' \in Nat
      /\ skips' >= skips
  BY DEF StartThread, FetchBlocks, GetTxs, MissTxs, SkipTx, SavePosition, Advance,
         TxGone, ThreadThrows, PassOverTx, StopThread, PopulateKnownOutputs,
         StatementFails, TypeOK, WorkInv, Scanning
<1>a. blind' \in BOOLEAN /\ gone' \in BOOLEAN /\ (blind' => skips' # 0)
  <2>1. CASE StartThread
    <3>1. CASE blind' = FALSE /\ UNCHANGED gone
      BY <3>1, Zenon DEF TypeOK
    <3>2. CASE blind' = TRUE /\ skips' = skips + 1 /\ UNCHANGED gone
      BY <3>2 DEF TypeOK
    <3>3. QED
      BY <2>1, <3>1, <3>2 DEF StartThread, PopulateKnownOutputs, StatementFails
  <2>2. CASE \/ FetchBlocks \/ GetTxs \/ MissTxs \/ SkipTx
             \/ SavePosition \/ Advance \/ PassOverTx
    <3>1. (UNCHANGED gone \/ gone' = FALSE) /\ UNCHANGED blind
      BY <2>2 DEF FetchBlocks, GetTxs, MissTxs, SkipTx, SavePosition, Advance,
                  PassOverTx
    <3>2. gone' \in BOOLEAN
      BY <3>1, Zenon DEF TypeOK
    <3>3. blind' => skips' # 0
      BY <1>4, <3>1 DEF WorkInv, TypeOK
    <3>4. QED
      BY <3>1, <3>2, <3>3 DEF TypeOK
  <2>3. CASE TxGone \/ ThreadThrows
    BY <2>3, Zenon DEF TxGone, ThreadThrows, StopThread
  <2>4. QED
    BY <2>1, <2>2, <2>3
<1>5. updated' \in BOOLEAN
  BY DEF StartThread, FetchBlocks, GetTxs, MissTxs, SkipTx, SavePosition, Advance,
         TxGone, ThreadThrows, PassOverTx, StopThread, TypeOK
<1>6. identified' \subseteq Outputs /\ known' \subseteq Outputs
  <2>1. CASE PassOverTx
    BY <2>1, StorageAssumption DEF PassOverTx, TypeOK, WorkInv
  <2>2. QED
    BY <2>1 DEF StartThread, FetchBlocks, GetTxs, MissTxs, SkipTx, SavePosition, Advance,
         TxGone, ThreadThrows, StopThread, PopulateKnownOutputs, TypeOK
<1>7. TypeOK'
  BY <1>1, <1>3, <1>4, <1>5, <1>6, <1>a DEF TypeOK, Blocks
<1>8. KnownOutputsCached'
  BY <1>1 DEF StartThread, FetchBlocks, GetTxs, MissTxs, SkipTx, SavePosition, Advance,
         TxGone, ThreadThrows, PassOverTx, StopThread, PopulateKnownOutputs,
         KnownOutputsCached
<1>9. thread' # "store"
  BY DEF StartThread, FetchBlocks, GetTxs, MissTxs, SkipTx, SavePosition, Advance,
         TxGone, ThreadThrows, PassOverTx, StopThread
<1>10. WorkInv'
  BY <1>1, <1>3, <1>4, <1>9, <1>a DEF WorkInv
<1>11. QED
  BY <1>2, <1>7, <1>8, <1>10

\* The rows of an earlier scan are deleted.
LEMMA DeleteTables ==
    ASSUME TableInv, DeleteExistingTx
    PROVE  TableInv'
<1> USE DEF TableInv
<1>1. This \in Blocks /\ This.tx \in Txs
  BY BatchTyped DEF DeleteExistingTx, Ours, Blocks
<1>2. /\ DeleteTx(This.tx) /\ thread' = "store" /\ batch # <<>>
      /\ thread = "scan" /\ identified' = Identified
      /\ UNCHANGED <<chain, saved, position, updated, batch, last, known, blind,
                     gone, checkVars, importing, boundVars>>
  BY DEF DeleteExistingTx
<1>3. PICK t \in Txs : t = This.tx
  BY <1>1
<1>4. DeleteTx(t)
  BY <1>2, <1>3
<1>5. /\ transactions' \in [Txs -> Row \union {Nothing}]
      /\ outputs' \subseteq outputs /\ inputs' \subseteq inputs
      /\ fresh' \subseteq fresh
      /\ \A u \in fresh' : transactions'[u] # Nothing
      /\ InputsBacked'
  BY <1>4, DeleteKeeps DEF WorkInv
<1>6. identified' \subseteq Outputs
  BY <1>2 DEF Identified, TypeOK
<1>7. TypeOK'
  BY <1>2, <1>5, <1>6 DEF TypeOK
<1>8. WorkInv' /\ KnownOutputsCached'
  BY <1>1, <1>2, <1>5 DEF WorkInv, KnownOutputsCached, Scanning, This, Identified
<1>9. QED
  BY <1>5, <1>7, <1>8

\* The inputs that StoreTx stores; only a counted failure makes them fewer.
LEMMA StoredInputs ==
    ASSUME TypeOK, StoreTx
    PROVE  /\ skips' \in Nat /\ skips <= skips'
           /\ \E found \in SUBSET Found :
                 /\ StoreRows(This.tx, found)
                 /\ skips' = 0 => found = Found
BY DEF StoreTx, StatementFails, TypeOK

\* The row that StoreTx inserts is one, and it replaces none by nothing.
LEMMA StoreGrows ==
    ASSUME TableInv, StoreTx, NEW found \in SUBSET Found,
           StoreRows(This.tx, found)
    PROVE  /\ This.tx \in Txs /\ batch # <<>>
           /\ transactions' \in [Txs -> Row \union {Nothing}]
           /\ \A u \in Txs :
                 transactions[u] # Nothing => transactions'[u] # Nothing
           /\ \/ transactions'[This.tx] # Nothing
              \/ found = {} /\ Creates[This.tx] = {}
<1> DEFINE t == This.tx
           r == [height |-> This.height, blockchain_tx_id |-> BlockchainTxId(t),
                 spendable |-> IsTxUnlocked(This.height)]
<1>1. t \in Txs /\ batch # <<>> /\ This.height \in Nat
  BY BatchTyped DEF StoreTx, TableInv, WorkInv
<1>2. BlockchainTxId(t) \in Nat
  <2>1. OnChain(t) => (CHOOSE i \in HeightsOf(t) : TRUE) \in HeightsOf(t)
    BY DEF OnChain
  <2>2. HeightsOf(t) \subseteq Nat
    BY DEF HeightsOf
  <2>3. QED
    BY <2>1, <2>2 DEF BlockchainTxId
<1>3. r \in Row
  BY <1>1, <1>2 DEF Row, IsTxUnlocked
<1>4. r # Nothing
  BY <1>3, StorageAssumption
<1>5. \/ UNCHANGED transactions /\ found = {} /\ Creates[t] = {}
      \/ transactions' = [transactions EXCEPT ![t] = r]
  BY DEF StoreRows
<1> HIDE DEF t, r
<1>6. QED
  BY <1>1, <1>3, <1>4, <1>5 DEF TableInv, TypeOK, t

\* The new rows are committed together.
LEMMA StoreTables ==
    ASSUME TableInv, StoreTx
    PROVE  TableInv'
<1> USE DEF TableInv
<1> DEFINE t == This.tx
<1>0. PICK found \in SUBSET Found : StoreRows(t, found)
  BY StoredInputs
<1>1. /\ t \in Txs /\ batch # <<>>
      /\ transactions' \in [Txs -> Row \union {Nothing}]
      /\ \A u \in Txs : transactions[u] # Nothing => transactions'[u] # Nothing
      /\ found # {} => transactions'[t] # Nothing
  BY <1>0, StoreGrows
<1>2. /\ thread = "store" /\ thread' = "scan" /\ batch' = Tail(batch)
      /\ identified' = {} /\ known' = known \union Creates[t]
      /\ outputs' = outputs \union Creates[t]
      /\ inputs' = inputs \union {<<t, o>> : o \in found}
      /\ UNCHANGED <<chain, saved, position, updated, last, blind, gone, checkVars,
                     fresh, importing, pops, imports, crashes>>
  BY <1>0 DEF StoreTx, StoreRows
<1>a. skips' \in Nat /\ skips <= skips'
  BY StoredInputs
<1> HIDE DEF t
<1>3. Creates[t] \subseteq Outputs /\ found \subseteq outputs
      /\ found \subseteq Outputs
  BY <1>0, <1>1, StorageAssumption DEF Found, TypeOK
<1>4. batch' \in Seq(Blocks)
  BY <1>1, <1>2, BatchTyped
<1>5. inputs' \subseteq Txs \X Outputs
  BY <1>1, <1>2, <1>3 DEF TypeOK
<1>6. TypeOK'
  BY <1>1, <1>2, <1>3, <1>4, <1>5, <1>a DEF TypeOK, Blocks
<1>7. WorkInv' /\ KnownOutputsCached'
  BY <1>1, <1>2, <1>a DEF WorkInv, KnownOutputsCached, TypeOK, Scanning
<1>8. InputsBacked'
  <2> SUFFICES ASSUME NEW in \in inputs'
               PROVE  transactions'[in[1]] # Nothing /\ in[2] \in outputs'
    BY DEF InputsBacked
  <2>1. CASE in \in inputs
    BY <1>1, <1>2, <2>1 DEF InputsBacked, TypeOK
  <2>2. CASE in \in {<<t, o>> : o \in found}
    BY <1>1, <1>2, <1>3, <2>2
  <2>3. QED
    BY <1>2, <2>1, <2>2
<1>9. QED
  BY <1>6, <1>7, <1>8

\* The spendability check and a crash.
LEMMA CheckTables ==
    ASSUME TableInv,
           SelectTxs \/ (\E t \in Txs : CheckTx(t)) \/ ApplyVerdict \/ Crash
    PROVE  TableInv'
<1> USE DEF TableInv
<1>1. CASE SelectTxs
  BY <1>1 DEF SelectTxs, TypeOK, WorkInv, KnownOutputsCached, InputsBacked,
              This, Identified, Scanning
<1>2. ASSUME NEW t \in Txs, CheckTx(t) PROVE TableInv'
  <2>1. UNCHANGED <<chain, saved, threadVars, tableVars, fresh, importing,
                    boundVars>>
    BY <1>2 DEF CheckTx
  <2>2. list' \in [Txs -> Row \union {Nothing}]
    BY <1>2 DEF CheckTx, Unlisted, TypeOK
  <2>3. \/ verdict' = verdict
        \/ verdict'.act \in {"mark", "delete"} /\ verdict'.tx = t
           /\ verdict' = [act |-> verdict'.act, tx |-> t]
    BY <1>2 DEF CheckTx, Judge
  <2>4. TypeOK'
    BY <2>1, <2>2, <2>3 DEF TypeOK
  <2>5. QED
    BY <2>1, <2>3, <2>4 DEF WorkInv, KnownOutputsCached, InputsBacked, This, Identified,
                            Scanning
<1>3. CASE ApplyVerdict
  <2>1. /\ verdict.tx \in Txs /\ verdict' = NoVerdict
        /\ UNCHANGED <<chain, saved, threadVars, importing, boundVars>>
    BY <1>3 DEF ApplyVerdict, WorkInv
  <2>2. PICK t \in Txs : t = verdict.tx
    BY <2>1
  <2>3. list' \in [Txs -> Row \union {Nothing}]
    BY <1>3, <2>1 DEF ApplyVerdict, Unlisted, NoRows, TypeOK
  <2>4. CASE UNCHANGED <<tableVars, fresh>>
    BY <2>1, <2>3, <2>4, NoVerdictTyped
    DEF TypeOK, WorkInv, KnownOutputsCached, InputsBacked, This, Identified, Scanning
  <2>5. CASE DeleteTx(t)
    <3>1. /\ transactions' \in [Txs -> Row \union {Nothing}]
          /\ outputs' \subseteq outputs /\ inputs' \subseteq inputs
          /\ fresh' \subseteq fresh
          /\ \A u \in fresh' : transactions'[u] # Nothing
          /\ InputsBacked'
      BY <2>5, DeleteKeeps DEF WorkInv
    <3>2. TypeOK'
      BY <2>1, <2>3, <3>1, NoVerdictTyped DEF TypeOK
    <3>3. QED
      BY <2>1, <3>1, <3>2 DEF WorkInv, KnownOutputsCached, This, Identified, Scanning
  <2>6. CASE /\ t \in fresh
             /\ transactions' = [transactions EXCEPT ![t].spendable = TRUE]
             /\ UNCHANGED <<outputs, inputs, fresh>>
    <3>1. transactions[t] \in Row
      BY <2>6 DEF TypeOK, WorkInv
    <3>2. [transactions[t] EXCEPT !.spendable = TRUE] \in Row
      BY <3>1 DEF Row
    <3>3. /\ transactions' \in [Txs -> Row \union {Nothing}]
          /\ \A u \in Txs : transactions[u] # Nothing => transactions'[u] # Nothing
      BY <2>6, <3>2, StorageAssumption DEF TypeOK
    <3>4. TypeOK'
      BY <2>1, <2>3, <2>6, <3>3, NoVerdictTyped DEF TypeOK
    <3>5. QED
      BY <2>1, <2>6, <3>3, <3>4
      DEF WorkInv, KnownOutputsCached, InputsBacked, This, Identified, Scanning, TypeOK
  <2>7. QED
    BY <1>3, <2>2, <2>4, <2>5, <2>6 DEF ApplyVerdict
<1>4. CASE Crash
  <2>1. TypeOK'
    <3>1. batch' = <<>>
      BY <1>4 DEF Crash, StopThread
    <3>2. batch' \in Seq(Blocks)
      BY <3>1, NoBatch
    <3>3. /\ list' \in [Txs -> Row \union {Nothing}]
          /\ verdict' \in [act : {"none", "mark", "delete"},
                            tx : Txs \union {Nothing}]
      BY <1>4, NoVerdictTyped DEF Crash, NoRows
    <3>4. /\ updated' \in BOOLEAN /\ importing' \in BOOLEAN
          /\ blind' \in BOOLEAN /\ gone' \in BOOLEAN
      BY <1>4, Zenon DEF Crash, StopThread
    <3>a. last' \in Nat /\ position' \in Nat /\ crashes' \in Nat
      BY <1>4 DEF Crash, StopThread, TypeOK
    <3>5. QED
      BY <1>4, <3>2, <3>3, <3>4, <3>a DEF Crash, StopThread, TypeOK, Blocks
  <2>2. QED
    BY <1>4, <2>1 DEF Crash, StopThread, WorkInv, KnownOutputsCached,
                      InputsBacked, Scanning
<1>5. QED
  BY <1>1, <1>2, <1>3, <1>4

LEMMA TablesKept == TableInv /\ [Next]_vars => TableInv'
BY OutsideTables, ReadingTables, DeleteTables, StoreTables, CheckTables
DEF Next, SearchThread

-------------------------------------------------------------------------------
(***************************************************************************)
(* The chain and the numbers of the rows                                   *)
(***************************************************************************)
ChainInv == MinedOnce /\ SpentLater

LEMMA ChainTyped ==
    ASSUME TypeOK
    PROVE  /\ Len(chain) \in Nat
           /\ \A i \in 1 .. Len(chain) : chain[i] \in Txs \union {Nothing}
BY LenProperties, ElementOfSeq DEF TypeOK

\* The chain after a block.
LEMMA Mined ==
    ASSUME TypeOK, NEW b \in Txs \union {Nothing}, MineBlock(b)
    PROVE  /\ Len(chain') = Len(chain) + 1
           /\ \A i \in 1 .. Len(chain) : chain'[i] = chain[i]
           /\ chain'[Len(chain) + 1] = b
BY AppendProperties DEF TypeOK, MineBlock

\* The chain after a reorganisation.
LEMMA Popped ==
    ASSUME TypeOK, PopBlock
    PROVE  /\ Len(chain') \in Nat /\ Len(chain') <= Len(chain)
           /\ \A i \in 1 .. Len(chain') : chain'[i] = chain[i]
<1>1. Len(chain) \in Nat \ {0}
  BY EmptySeq DEF TypeOK, PopBlock
<1>2. \A i \in 1 .. Len(chain) - 1 : chain[i] \in Txs \union {Nothing}
  BY <1>1, ChainTyped
<1>3. /\ Len(chain') = IF 1 <= Len(chain) - 1 THEN Len(chain) - 1 - 1 + 1 ELSE 0
      /\ \A i \in 1 .. Len(chain) - 1 - 1 + 1 : chain'[i] = chain[1 + i - 1]
  BY <1>1, <1>2, SubSeqProperties DEF PopBlock
<1>4. QED
  BY <1>1, <1>3

LEMMA ChainKept ==
    ASSUME TypeOK, ChainInv, [Next]_vars
    PROVE  ChainInv'
<1>0. Len(chain) \in Nat
  BY ChainTyped
<1>1. ASSUME NEW b \in Txs \union {Nothing}, MineBlock(b) PROVE ChainInv'
  <2>1. /\ Len(chain') = Len(chain) + 1
        /\ \A i \in 1 .. Len(chain) : chain'[i] = chain[i]
        /\ chain'[Len(chain) + 1] = b
    BY <1>1, Mined
  <2>2. b # Nothing =>
          /\ \A i \in 1 .. Len(chain) : chain[i] # b
          /\ \A o \in Spends[b] : \E i \in 1 .. Len(chain) :
                chain[i] # Nothing /\ o \in Creates[chain[i]]
    <3> SUFFICES ASSUME b # Nothing
                 PROVE  /\ \A i \in 1 .. Len(chain) : chain[i] # b
                        /\ \A o \in Spends[b] : \E i \in 1 .. Len(chain) :
                              chain[i] # Nothing /\ o \in Creates[chain[i]]
      OBVIOUS
    <3>1. ~OnChain(b) /\ Spends[b] \subseteq OnChainOutputs
      BY <1>1 DEF MineBlock
    <3>2. \A i \in 1 .. Len(chain) : chain[i] # b
      BY <3>1 DEF OnChain, HeightsOf
    <3>3. ASSUME NEW o \in Spends[b]
          PROVE  \E i \in 1 .. Len(chain) :
                    chain[i] # Nothing /\ o \in Creates[chain[i]]
      <4>1. PICK u \in Txs : OnChain(u) /\ o \in Creates[u]
        BY <3>1 DEF OnChainOutputs
      <4>2. QED
        BY <4>1, StorageAssumption DEF OnChain, HeightsOf
    <3>4. QED
      BY <3>2, <3>3
  <2>3. MinedOnce'
    BY <1>0, <2>1, <2>2 DEF ChainInv, MinedOnce
  <2>4. SpentLater'
    <3> SUFFICES ASSUME NEW j \in 1 .. Len(chain'), chain'[j] # Nothing,
                        NEW o \in Spends[chain'[j]]
                 PROVE  \E i \in 1 .. j - 1 :
                           chain'[i] # Nothing /\ o \in Creates[chain'[i]]
      BY DEF SpentLater
    <3>1. CASE j = Len(chain) + 1
      BY <1>0, <2>1, <2>2, <3>1
    <3>2. CASE j \in 1 .. Len(chain)
      <4>1. PICK i \in 1 .. j - 1 : chain[i] # Nothing /\ o \in Creates[chain[i]]
        BY <2>1, <3>2 DEF ChainInv, SpentLater
      <4>2. i \in 1 .. Len(chain)
        BY <1>0, <3>2
      <4>3. QED
        BY <2>1, <4>1, <4>2
    <3>3. QED
      BY <1>0, <2>1, <3>1, <3>2
  <2>5. QED
    BY <2>3, <2>4 DEF ChainInv
<1>2. CASE PopBlock
  <2>1. /\ Len(chain') \in Nat /\ Len(chain') <= Len(chain)
        /\ \A i \in 1 .. Len(chain') : chain'[i] = chain[i]
    BY <1>2, Popped
  <2>2. MinedOnce'
    BY <1>0, <2>1 DEF ChainInv, MinedOnce
  <2>3. SpentLater'
    <3> SUFFICES ASSUME NEW j \in 1 .. Len(chain'), chain'[j] # Nothing,
                        NEW o \in Spends[chain'[j]]
                 PROVE  \E i \in 1 .. j - 1 :
                           chain'[i] # Nothing /\ o \in Creates[chain'[i]]
      BY DEF SpentLater
    <3>0. j \in 1 .. Len(chain) /\ chain'[j] = chain[j]
      BY <1>0, <2>1
    <3>1. PICK i \in 1 .. j - 1 : chain[i] # Nothing /\ o \in Creates[chain[i]]
      BY <3>0 DEF ChainInv, SpentLater
    <3>2. i \in 1 .. Len(chain')
      BY <2>1
    <3>3. QED
      BY <2>1, <3>1, <3>2
  <2>4. QED
    BY <2>2, <2>3 DEF ChainInv
<1>3. CASE UNCHANGED chain
  BY <1>3 DEF ChainInv, MinedOnce, SpentLater
<1>4. QED
  <2>1. CASE UNCHANGED vars
    BY <1>3, <2>1 DEF vars
  <2>2. CASE \/ StartThread \/ SearchThread \/ PassOverTx \/ ThreadThrows
             \/ ResetRow \/ ResetPosition \/ SelectTxs
             \/ (\E t \in Txs : CheckTx(t)) \/ ApplyVerdict \/ Crash
    BY <1>3, <2>2
    DEF StartThread, SearchThread, PassOverTx, ThreadThrows, ResetRow,
        ResetPosition, SelectTxs, CheckTx, ApplyVerdict, Crash, FetchBlocks, GetTxs, MissTxs,
        SkipTx, DeleteExistingTx, StoreTx, TxGone, SavePosition, Advance
  <2>3. QED
    BY <1>1, <1>2, <2>1, <2>2 DEF Next

\* As long as no block is popped, a transaction keeps its number.
LEMMA NumberKept ==
    ASSUME TypeOK, NEW t \in Txs, OnChain(t),
           UNCHANGED chain \/ \E b \in Txs \union {Nothing} : MineBlock(b)
    PROVE  OnChain(t)' /\ BlockchainTxId(t)' = BlockchainTxId(t)
<1>1. HeightsOf(t)' = HeightsOf(t)
  <2>1. CASE UNCHANGED chain
    BY <2>1 DEF HeightsOf
  <2>2. ASSUME NEW b \in Txs \union {Nothing}, MineBlock(b)
        PROVE  HeightsOf(t)' = HeightsOf(t)
    <3>1. b # t
      BY <2>2 DEF MineBlock
    <3>2. QED
      <4>1. /\ Len(chain') = Len(chain) + 1 /\ Len(chain) \in Nat
            /\ \A i \in 1 .. Len(chain) : chain'[i] = chain[i]
            /\ chain'[Len(chain) + 1] # t
        BY <2>2, <3>1, Mined, ChainTyped
      <4>2. {i \in 1 .. Len(chain') : chain'[i] = t}
              = {i \in 1 .. Len(chain) : chain[i] = t}
        BY <4>1
      <4>3. QED
        BY <4>2 DEF HeightsOf
  <2>3. QED
    BY <2>1, <2>2
<1>2. QED
  BY <1>1 DEF OnChain, BlockchainTxId

\* What a step can do to a row: delete it, keep its number, or store it with
\* the number that its transaction has.
LEMMA RowStep ==
    ASSUME TableInv, [Next]_vars, NEW t \in Txs
    PROVE  \/ transactions'[t] = Nothing
           \/ /\ transactions[t] # Nothing
              /\ transactions'[t].blockchain_tx_id
                    = transactions[t].blockchain_tx_id
           \/ OnChain(t) /\ transactions'[t].blockchain_tx_id = BlockchainTxId(t)
<1> USE DEF TableInv
<1>1. CASE UNCHANGED transactions
  BY <1>1
<1>2. CASE DeleteExistingTx
  <2>1. This.tx \in Txs
    BY <1>2, BatchTyped DEF DeleteExistingTx, Ours, Blocks
  <2>2. QED
    BY <1>2, <2>1 DEF DeleteExistingTx, DeleteTx, TypeOK
<1>3. CASE StoreTx
  <2>1. This.tx \in Txs
    BY <1>3 DEF StoreTx, WorkInv
  <2>2. PICK found \in SUBSET Found : StoreRows(This.tx, found)
    BY <1>3, StoredInputs
  <2>3. OnChain(This.tx)
    BY <1>3 DEF StoreTx
  <2>4. QED
    BY <2>1, <2>2, <2>3 DEF StoreRows, TypeOK
<1>4. CASE ApplyVerdict
  <2>1. verdict.tx \in Txs
    BY <1>4 DEF ApplyVerdict, WorkInv
  <2>2. CASE DeleteTx(verdict.tx)
    BY <2>1, <2>2 DEF DeleteTx, TypeOK
  <2>3. CASE /\ verdict.tx \in fresh
             /\ transactions' = [transactions EXCEPT ![verdict.tx].spendable = TRUE]
    <3>1. transactions[verdict.tx] \in Row
      BY <2>3, <2>1 DEF WorkInv, TypeOK
    <3>2. [transactions[verdict.tx] EXCEPT !.spendable = TRUE].blockchain_tx_id
            = transactions[verdict.tx].blockchain_tx_id
      BY <3>1 DEF Row
    <3>3. QED
      BY <2>1, <2>3, <3>1, <3>2, StorageAssumption DEF TypeOK
  <2>4. QED
    BY <1>1, <1>4, <2>2, <2>3 DEF ApplyVerdict
<1>5. QED
  <2>1. CASE UNCHANGED vars
    BY <1>1, <2>1 DEF vars
  <2>2. CASE \/ \E b \in Txs \union {Nothing} : MineBlock(b)
             \/ PopBlock \/ StartThread \/ PassOverTx \/ ThreadThrows
             \/ ResetRow \/ ResetPosition \/ SelectTxs
             \/ (\E u \in Txs : CheckTx(u)) \/ Crash
             \/ FetchBlocks \/ GetTxs \/ MissTxs \/ SkipTx \/ TxGone \/ SavePosition \/ Advance
    BY <1>1, <2>2
    DEF MineBlock, PopBlock, StartThread, PassOverTx, ThreadThrows, ResetRow,
        ResetPosition, SelectTxs, CheckTx, Crash, FetchBlocks, GetTxs, MissTxs, SkipTx, TxGone,
        SavePosition, Advance
  <2>3. QED
    BY <1>2, <1>3, <1>4, <2>1, <2>2 DEF Next, SearchThread

\* What a step can do to what a check has selected, and to its verdict.
LEMMA ListStep ==
    ASSUME TableInv, RowsCurrent, pops = 0, [Next]_vars
    PROVE  /\ \A t \in Txs : list'[t] \in {Nothing, list[t], transactions[t]}
           /\ verdict'.act # "delete"
<1> USE DEF TableInv
<1>0. verdict.act # "delete" /\ NoVerdict.act # "delete"
  BY DEF RowsCurrent, NoVerdict
<1>1. CASE UNCHANGED <<list, verdict>>
  BY <1>0, <1>1
<1>2. CASE SelectTxs
  BY <1>0, <1>2 DEF SelectTxs
<1>3. ASSUME NEW t \in Txs, CheckTx(t)
      PROVE  /\ \A u \in Txs : list'[u] \in {Nothing, list[u]}
             /\ verdict'.act # "delete"
  <2>1. BlockchainTxId(t) = list[t].blockchain_tx_id
    BY <1>3 DEF CheckTx, RowsCurrent, RowCurrent
  <2>2. Judge(t) # "delete"
    BY <2>1 DEF Judge
  <2>3. QED
    BY <1>0, <1>3, <2>2 DEF CheckTx, Unlisted, TypeOK
<1>4. CASE ApplyVerdict \/ Crash
  BY <1>0, <1>4 DEF ApplyVerdict, Crash, Unlisted, NoRows, TypeOK, WorkInv
<1>5. QED
  <2>1. CASE UNCHANGED vars
    BY <1>1, <2>1 DEF vars
  <2>2. CASE \/ \E b \in Txs \union {Nothing} : MineBlock(b)
             \/ PopBlock \/ StartThread \/ PassOverTx \/ ThreadThrows
             \/ ResetRow \/ ResetPosition \/ SearchThread
    BY <1>1, <2>2
    DEF MineBlock, PopBlock, StartThread, PassOverTx, ThreadThrows, ResetRow,
        ResetPosition, SearchThread, FetchBlocks, GetTxs, MissTxs, SkipTx, DeleteExistingTx,
        StoreTx, TxGone, SavePosition, Advance
  <2>3. QED
    BY <1>2, <1>3, <1>4, <2>1, <2>2 DEF Next

\* Only PopBlock shortens the chain, and it counts.
LEMMA ChainStep ==
    ASSUME TypeOK, [Next]_vars
    PROVE  pops' = 0 => /\ pops = 0
                        /\ \/ UNCHANGED chain
                           \/ \E b \in Txs \union {Nothing} : MineBlock(b)
<1>1. CASE UNCHANGED vars
  BY <1>1 DEF vars
<1>2. CASE \E b \in Txs \union {Nothing} : MineBlock(b)
  BY <1>2 DEF MineBlock
<1>3. CASE PopBlock
  BY <1>3 DEF PopBlock, TypeOK
<1>4. CASE \/ StartThread \/ PassOverTx \/ ThreadThrows
           \/ ResetRow \/ ResetPosition \/ SearchThread \/ SelectTxs
           \/ (\E t \in Txs : CheckTx(t)) \/ ApplyVerdict \/ Crash
  BY <1>4
  DEF StartThread, PassOverTx, ThreadThrows, ResetRow, ResetPosition,
      SearchThread, FetchBlocks, GetTxs, MissTxs, SkipTx, DeleteExistingTx, StoreTx, TxGone,
      SavePosition, Advance, SelectTxs, CheckTx, ApplyVerdict, Crash
<1>5. QED
  BY <1>1, <1>2, <1>3, <1>4 DEF Next

LEMMA RowsKept ==
    ASSUME TableInv, RowsCurrent, [Next]_vars
    PROVE  RowsCurrent'
<1> SUFFICES ASSUME pops' = 0
             PROVE  /\ \A t \in Txs : /\ RowCurrent(transactions[t], t)'
                                     /\ RowCurrent(list[t], t)'
                    /\ verdict'.act # "delete"
  BY DEF RowsCurrent
<1>1. /\ pops = 0
      /\ \/ UNCHANGED chain
         \/ \E b \in Txs \union {Nothing} : MineBlock(b)
  BY ChainStep DEF TableInv
<1>2. ASSUME NEW t \in Txs
      PROVE  RowCurrent(transactions[t], t)' /\ RowCurrent(list[t], t)'
  <2>1. RowCurrent(transactions[t], t) /\ RowCurrent(list[t], t)
    BY <1>1 DEF RowsCurrent
  <2>2. OnChain(t) => OnChain(t)' /\ BlockchainTxId(t)' = BlockchainTxId(t)
    BY <1>1, NumberKept DEF TableInv
  <2>3. RowCurrent(transactions[t], t)'
    BY <2>1, <2>2, RowStep DEF RowCurrent
  <2>4. RowCurrent(list[t], t)'
    BY <1>1, <2>1, <2>2, ListStep DEF RowCurrent
  <2>5. QED
    BY <2>3, <2>4
<1>3. QED
  BY <1>1, <1>2, ListStep

-------------------------------------------------------------------------------
(***************************************************************************)
(* The range of the thread                                                 *)
(***************************************************************************)
\* The thread is through with the first block of its range.
LEMMA NextBlock ==
    ASSUME TypeOK, BatchCurrent, Scanning, pops = 0, batch # <<>>,
           batch' = Tail(batch), UNCHANGED <<chain, last>>
    PROVE  /\ NextHeight' = NextHeight + 1 /\ NextHeight \in 1 .. Len(chain)
           /\ This.height = NextHeight /\ This.tx = chain[NextHeight]
           /\ last <= Len(chain)
           /\ \A k \in 1 .. Len(batch') :
                 /\ batch'[k].height = NextHeight' + k - 1
                 /\ batch'[k].tx = chain[NextHeight' + k - 1]
<1>1. /\ This = batch[1] /\ Len(batch') = Len(batch) - 1 /\ Len(batch) \in Nat \ {0}
      /\ \A k \in 1 .. Len(batch) - 1 : batch'[k] = batch[k + 1]
  BY BatchTyped
<1>2. last \in Nat /\ Len(chain) \in Nat
  BY ChainTyped DEF TypeOK
<1>3. /\ last <= Len(chain) /\ NextHeight >= 1
      /\ \A k \in 1 .. Len(batch) :
            /\ batch[k].height = NextHeight + k - 1
            /\ batch[k].tx = chain[NextHeight + k - 1]
  BY DEF BatchCurrent
<1>4. NextHeight' = NextHeight + 1 /\ NextHeight \in 1 .. Len(chain)
  BY <1>1, <1>2, <1>3 DEF NextHeight
<1>5. This.height = NextHeight /\ This.tx = chain[NextHeight]
  BY <1>1, <1>3, <1>4
<1>6. ASSUME NEW k \in 1 .. Len(batch')
      PROVE  /\ batch'[k].height = NextHeight' + k - 1
             /\ batch'[k].tx = chain[NextHeight' + k - 1]
  <2>1. k + 1 \in 1 .. Len(batch) /\ batch'[k] = batch[k + 1]
    BY <1>1
  <2>2. /\ batch[k + 1].height = NextHeight + (k + 1) - 1
        /\ batch[k + 1].tx = chain[NextHeight + (k + 1) - 1]
    BY <1>3, <2>1
  <2>3. NextHeight + (k + 1) - 1 = NextHeight' + k - 1
    BY <1>4
  <2>4. QED
    BY <2>1, <2>2, <2>3
<1>7. QED
  BY <1>3, <1>4, <1>5, <1>6

LEMMA BatchKept ==
    ASSUME TableInv, BatchCurrent, [Next]_vars
    PROVE  BatchCurrent'
<1> SUFFICES ASSUME pops' = 0, Scanning'
             PROVE  /\ last' <= Len(chain') /\ NextHeight' >= 1
                    /\ thread' = "advance" => batch' = <<>>
                    /\ \A k \in 1 .. Len(batch') :
                          /\ batch'[k].height = NextHeight' + k - 1
                          /\ batch'[k].tx = chain'[NextHeight' + k - 1]
  BY DEF BatchCurrent
<1>1. /\ pops = 0
      /\ \/ UNCHANGED chain
         \/ \E b \in Txs \union {Nothing} : MineBlock(b)
  BY ChainStep DEF TableInv
<1>2. Len(chain) \in Nat /\ last \in Nat /\ Len(batch) \in Nat
  BY ChainTyped, LenProperties DEF TableInv, TypeOK
<1>3. CASE UNCHANGED <<thread, batch, last>>
  <2>1. /\ Len(chain) <= Len(chain') /\ Len(chain') \in Nat
        /\ \A i \in 1 .. Len(chain) : chain'[i] = chain[i]
    BY <1>1, <1>2, Mined DEF TableInv
  <2>2. Scanning /\ NextHeight' = NextHeight
    BY <1>3 DEF Scanning, NextHeight
  <2>3. \A k \in 1 .. Len(batch) : NextHeight + k - 1 \in 1 .. Len(chain)
    BY <1>1, <1>2, <2>2 DEF BatchCurrent, NextHeight
  <2>4. QED
    BY <1>1, <1>2, <1>3, <2>1, <2>2, <2>3 DEF BatchCurrent
<1>4. CASE FetchBlocks
  <2>1. UNCHANGED chain /\ thread' = "txs"
    BY <1>4 DEF FetchBlocks
  <2>2. /\ Len(batch') = last' + 1 - position /\ last' \in Nat
        /\ position <= last' /\ last' <= Len(chain)
        /\ \A k \in 1 .. Len(batch') :
              /\ batch'[k].tx = chain[position + k - 1]
              /\ batch'[k].height = position + k - 1
    BY <1>4, FetchedBatch DEF TableInv
  <2>3. position \in Nat /\ position >= 1
    BY DEF TableInv, TypeOK, WorkInv
  <2>4. NextHeight' = position
    <3>1. last' \in Nat /\ Len(batch') = last' + 1 - position
      BY <2>2
    <3>2. \A n \in Nat, p \in Nat : n + 1 - (n + 1 - p) = p
      OBVIOUS
    <3>3. NextHeight' = last' + 1 - Len(batch')
      BY DEF NextHeight
    <3>4. QED
      BY <2>3, <3>1, <3>2, <3>3, Zenon
  <2>5. QED
    BY <2>1, <2>2, <2>3, <2>4
<1>5. CASE SkipTx \/ StoreTx \/ PassOverTx
  <2>1. /\ batch' = Tail(batch) /\ UNCHANGED <<chain, last>> /\ thread' = "scan"
        /\ batch # <<>> /\ Scanning
    BY <1>5 DEF SkipTx, StoreTx, PassOverTx, TableInv, WorkInv, Scanning
  <2>2. QED
    BY <1>1, <1>2, <2>1, NextBlock DEF TableInv
<1>6. CASE GetTxs \/ DeleteExistingTx \/ SavePosition
  <2>1. /\ UNCHANGED <<chain, batch, last>> /\ thread \in {"txs", "scan"}
        /\ thread' = "advance" => batch = <<>>
    BY <1>6 DEF GetTxs, DeleteExistingTx, SavePosition
  <2>2. QED
    BY <1>1, <2>1 DEF BatchCurrent, NextHeight, Scanning
<1>7. CASE StartThread \/ MissTxs \/ TxGone \/ ThreadThrows \/ Advance \/ Crash
  BY <1>7 DEF StartThread, MissTxs, TxGone, ThreadThrows, Advance, Crash,
              StopThread, Scanning
<1>8. QED
  <2>1. CASE UNCHANGED vars
    BY <1>3, <2>1 DEF vars
  <2>2. CASE \/ \E b \in Txs \union {Nothing} : MineBlock(b)
             \/ PopBlock \/ ResetRow \/ ResetPosition \/ SelectTxs
             \/ (\E t \in Txs : CheckTx(t)) \/ ApplyVerdict
    BY <1>3, <2>2 DEF MineBlock, PopBlock, ResetRow, ResetPosition, SelectTxs,
                      CheckTx, ApplyVerdict
  <2>3. QED
    BY <1>4, <1>5, <1>6, <1>7, <2>1, <2>2 DEF Next, SearchThread

-------------------------------------------------------------------------------
(***************************************************************************)
(* What was passed stays stored                                            *)
(***************************************************************************)
\* Rows that only grow in number keep what is stored.
LEMMA StoredGrows ==
    ASSUME NEW t \in Txs, Stored(t),
           transactions[t] # Nothing => transactions'[t] # Nothing,
           outputs \subseteq outputs', inputs \subseteq inputs'
    PROVE  Stored(t)'
BY DEF Stored

\* The rescan of a block deletes nothing of the blocks below: the outputs of
\* its transaction are spent by later ones only.
LEMMA DeleteSparesEarlier ==
    ASSUME TypeOK, ChainInv, NEW n \in 1 .. Len(chain), chain[n] \in Txs,
           DeleteTx(chain[n]), UNCHANGED chain,
           NEW i \in 1 .. Len(chain), i < n, chain[i] # Nothing, Stored(chain[i])
    PROVE  Stored(chain[i])'
<1> DEFINE t == chain[n]
           u == chain[i]
<1>1. u \in Txs /\ u # t /\ Len(chain) \in Nat
  BY ChainTyped DEF ChainInv, MinedOnce
<1>2. Creates[u] \intersect Creates[t] = {}
  BY <1>1, StorageAssumption
<1>3. ASSUME NEW o \in Spends[u] PROVE o \notin Creates[t]
  <2>1. PICK j \in 1 .. i - 1 : chain[j] # Nothing /\ o \in Creates[chain[j]]
    BY DEF ChainInv, SpentLater
  <2>2. j \in 1 .. Len(chain) /\ j # n
    BY <1>1
  <2>3. chain[j] \in Txs /\ chain[j] # t
    BY <2>1, <2>2, ChainTyped DEF ChainInv, MinedOnce
  <2>4. QED
    BY <2>1, <2>3, StorageAssumption
<1>4. /\ transactions' = [transactions EXCEPT ![t] = Nothing]
      /\ outputs' = outputs \ Creates[t]
      /\ inputs' = {in \in inputs : in[1] # t /\ in[2] \notin Creates[t]}
  BY DEF DeleteTx
<1>5. chain'[i] = u
  OBVIOUS
<1> HIDE DEF t, u
<1>6. transactions'[u] # Nothing /\ Creates[u] \subseteq outputs'
  BY <1>1, <1>2, <1>4 DEF Stored, u, TypeOK
<1>7. \A o \in Spends[u] : <<u, o>> \in inputs'
  BY <1>1, <1>3, <1>4 DEF Stored, u
<1>8. QED
  BY <1>5, <1>6, <1>7 DEF Stored

\* Everything below height h stays stored, also when the next block is scanned.
LEMMA StoredStep ==
    ASSUME TableInv, ChainInv, RowsCurrent, BatchCurrent, [Next]_vars, pops' = 0,
           NEW h \in Nat, h <= Len(chain) + 1, StoredBelow(h),
           DeleteExistingTx => h <= NextHeight
    PROVE  StoredBelow(h)'
<1>1. /\ pops = 0
      /\ \/ UNCHANGED chain
         \/ \E b \in Txs \union {Nothing} : MineBlock(b)
  BY ChainStep DEF TableInv
<1>2. Len(chain) \in Nat /\ \A i \in 1 .. Len(chain) : chain[i] \in Txs \union {Nothing}
  BY ChainTyped DEF TableInv
<1>3. CASE DeleteExistingTx
  <2>1. /\ batch # <<>> /\ Scanning /\ thread = "scan" /\ UNCHANGED chain
        /\ DeleteTx(This.tx) /\ This.tx \in Txs
    BY <1>3, BatchTyped DEF DeleteExistingTx, Scanning, TableInv, Ours, Blocks
  <2>2. NextHeight \in 1 .. Len(chain) /\ This.tx = chain[NextHeight]
    BY <1>1, <1>2, <2>1, BatchTyped, LenProperties
    DEF BatchCurrent, NextHeight, TableInv, TypeOK
  <2>3. QED
    BY <1>2, <1>3, <2>1, <2>2, DeleteSparesEarlier DEF StoredBelow, TableInv
<1>4. CASE ~DeleteExistingTx
  <2>1. /\ \A t \in Txs : transactions[t] # Nothing => transactions'[t] # Nothing
        /\ outputs \subseteq outputs' /\ inputs \subseteq inputs'
    <3>1. CASE UNCHANGED tableVars
      BY <3>1
    <3>2. CASE StoreTx
      <4>1. PICK found \in SUBSET Found : StoreRows(This.tx, found)
        BY <3>2, StoredInputs DEF TableInv
      <4>2. QED
        BY <3>2, <4>1, StoreGrows DEF StoreRows
    <3>3. CASE ApplyVerdict
      <4>1. verdict.tx \in Txs /\ verdict.act # "delete"
        BY <1>1, <3>3 DEF ApplyVerdict, TableInv, WorkInv, RowsCurrent
      <4>2. CASE /\ transactions' =
                      [transactions EXCEPT ![verdict.tx].spendable = TRUE]
                 /\ verdict.tx \in fresh /\ UNCHANGED <<outputs, inputs>>
        <5>1. transactions[verdict.tx] \in Row
          BY <4>1, <4>2 DEF TableInv, WorkInv, TypeOK
        <5>2. [transactions[verdict.tx] EXCEPT !.spendable = TRUE] \in Row
          BY <5>1 DEF Row
        <5>3. QED
          BY <4>1, <4>2, <5>2, StorageAssumption DEF TableInv, TypeOK
      <4>3. QED
        BY <3>1, <3>3, <4>1, <4>2 DEF ApplyVerdict
    <3>4. QED
      <4>1. CASE UNCHANGED vars
        BY <3>1, <4>1 DEF vars
      <4>2. CASE \/ \E b \in Txs \union {Nothing} : MineBlock(b)
                 \/ PopBlock \/ StartThread \/ PassOverTx \/ ThreadThrows
                 \/ ResetRow \/ ResetPosition \/ SelectTxs
                 \/ (\E u \in Txs : CheckTx(u)) \/ Crash
                 \/ FetchBlocks \/ GetTxs \/ MissTxs \/ SkipTx \/ TxGone \/ SavePosition \/ Advance
        BY <3>1, <4>2
        DEF MineBlock, PopBlock, StartThread, PassOverTx, ThreadThrows, ResetRow,
            ResetPosition, SelectTxs, CheckTx, Crash, FetchBlocks, GetTxs, MissTxs, SkipTx, TxGone,
            SavePosition, Advance
      <4>3. QED
        BY <1>4, <3>2, <3>3, <4>1, <4>2 DEF Next, SearchThread
  <2>2. \A i \in 1 .. Len(chain') : i < h => i \in 1 .. Len(chain) /\ chain'[i] = chain[i]
    BY <1>1, <1>2, Mined DEF TableInv
  <2>3. QED
    BY <1>2, <2>1, <2>2, StoredGrows, StorageAssumption DEF StoredBelow
<1>5. QED
  BY <1>3, <1>4

\* Everything below the next block is stored, and with it every output that
\* its transaction spends: the thread knows them and finds them.
LEMMA SpentAreFound ==
    ASSUME TableInv, ChainInv, thread # "none", ~blind,
           NEW n \in 1 .. Len(chain), StoredBelow(n), chain[n] # Nothing
    PROVE  Spends[chain[n]] \subseteq outputs /\ Spends[chain[n]] \subseteq known
<1>1. ASSUME NEW o \in Spends[chain[n]] PROVE o \in outputs
  <2>1. PICK i \in 1 .. n - 1 : chain[i] # Nothing /\ o \in Creates[chain[i]]
    BY DEF ChainInv, SpentLater
  <2>2. i \in 1 .. Len(chain) /\ i < n
    BY ChainTyped DEF TableInv
  <2>3. QED
    BY <2>1, <2>2 DEF StoredBelow, Stored
<1>2. QED
  BY <1>1 DEF TableInv, KnownOutputsCached

\* The block at hand is stored, or has nothing to store, when the thread is
\* through with it; one that is not stored is deleted at most for a while.
LEMMA BlockPassed ==
    ASSUME TableInv, ChainInv, BatchCurrent, pops = 0, skips' = 0, Scanning,
           SkipTx \/ StoreTx, NEW n \in Nat, n = NextHeight, StoredBelow(n)
    PROVE  chain[n] # Nothing => Stored(chain[n])'
<1>1. batch # <<>> /\ batch' = Tail(batch) /\ UNCHANGED <<chain, last>>
  BY DEF SkipTx, StoreTx, TableInv, WorkInv
<1>2. /\ n \in 1 .. Len(chain) /\ This.tx = chain[n]
      /\ thread # "none"
  BY <1>1, NextBlock DEF TableInv, Scanning
<1>3. SUFFICES ASSUME chain[n] # Nothing
               PROVE  Stored(chain[n])'
  OBVIOUS
<1>4. PICK t \in Txs : t = This.tx
  BY <1>2, <1>3, ChainTyped DEF TableInv
<1>a. ~blind
  BY StoredInputs DEF SkipTx, TableInv, WorkInv, TypeOK
<1>5. Spends[t] \subseteq outputs /\ Spends[t] \subseteq known
  BY <1>2, <1>3, <1>4, <1>a, SpentAreFound
<1>6. CASE SkipTx
  <2>1. Creates[t] = {} /\ Spends[t] \intersect known = {}
    BY <1>4, <1>6, StorageAssumption DEF SkipTx, Ours, Identified
  <2>2. QED
    BY <1>5, <2>1, StorageAssumption
<1>7. CASE StoreTx
  <2>0. StoreRows(This.tx, Found)
    BY <1>7, StoredInputs DEF TableInv
  <2>1. Found = Spends[t]
    BY <1>4, <1>5, <1>7 DEF StoreTx, Found, Identified, TableInv, WorkInv
  <2>2. transactions'[t] # Nothing
    BY <1>4, <1>7, <2>0, <2>1, StoreGrows, StorageAssumption
  <2>3. /\ outputs' = outputs \union Creates[t]
        /\ inputs' = inputs \union {<<t, o>> : o \in Found}
    BY <1>4, <2>0 DEF StoreRows
  <2>4. Stored(t)'
    BY <2>1, <2>2, <2>3 DEF Stored
  <2>5. chain'[n] = t
    BY <1>1, <1>2, <1>4
  <2>6. QED
    BY <2>4, <2>5 DEF Stored
<1>8. QED
  BY <1>6, <1>7

LEMMA BelowLess ==
    ASSUME TypeOK, NEW h \in Nat, StoredBelow(h), NEW g \in Nat, g <= h
    PROVE  StoredBelow(g)
BY ChainTyped DEF StoredBelow

\* What disturbs once, disturbs for ever: the counters only grow.
LEMMA StaysDisturbed ==
    ASSUME TypeOK, [Next]_vars, Undisturbed'
    PROVE  /\ Undisturbed /\ pops = 0 /\ pops' = 0 /\ skips' = 0
           /\ imports' = 0 => imports = 0
           /\ crashes' = 0 => crashes = 0
           /\ ~PassOverTx
           /\ (ThreadThrows \/ Crash) => imports = 0
           /\ ResetRow => crashes = 0
<1>1. /\ pops <= pops' /\ imports <= imports' /\ crashes <= crashes'
      /\ skips <= skips'
      /\ PassOverTx => skips' # 0
      /\ (ThreadThrows \/ Crash) => crashes' # 0 /\ UNCHANGED imports
      /\ ResetRow => imports' # 0 /\ UNCHANGED crashes
  <2>1. CASE UNCHANGED vars
    BY <2>1 DEF vars, TypeOK, PassOverTx, ThreadThrows, Crash, ResetRow
  <2>2. CASE \/ \E b \in Txs \union {Nothing} : MineBlock(b)
             \/ PopBlock \/ StartThread \/ PassOverTx \/ ThreadThrows
             \/ ResetRow \/ ResetPosition \/ SelectTxs
             \/ (\E u \in Txs : CheckTx(u)) \/ ApplyVerdict \/ Crash
    BY <2>2 DEF MineBlock, PopBlock, StartThread, PassOverTx, ThreadThrows,
                ResetRow, ResetPosition, SelectTxs, CheckTx, ApplyVerdict, Crash,
                PopulateKnownOutputs, StatementFails, TypeOK
  <2>3. CASE SearchThread
    BY <2>3 DEF SearchThread, FetchBlocks, GetTxs, MissTxs, SkipTx, DeleteExistingTx, StoreTx,
                StatementFails, TxGone, SavePosition, Advance, PassOverTx,
                ThreadThrows, Crash, ResetRow, TypeOK
  <2>4. QED
    BY <2>1, <2>2, <2>3 DEF Next
<1>2. QED
  BY <1>1 DEF Undisturbed, TypeOK

\* The next block of the range is on the chain as long as the chain only grows,
\* so the transaction in hand is never gone.
LEMMA HeightTyped ==
    ASSUME TypeOK, BatchCurrent, pops = 0, Scanning
    PROVE  /\ NextHeight \in 1 .. Len(chain) + 1
           /\ batch = <<>> => NextHeight = last + 1
<1>1. Len(chain) \in Nat /\ last \in Nat /\ Len(batch) \in Nat
  BY ChainTyped, LenProperties DEF TypeOK
<1>2. batch = <<>> => Len(batch) = 0
  BY NoBatch
<1>3. QED
  BY <1>1, <1>2 DEF BatchCurrent, NextHeight

LEMMA NeverGone ==
    ASSUME TableInv, BatchCurrent, pops = 0
    PROVE  ~TxGone
<1> SUFFICES ASSUME TxGone PROVE FALSE
  OBVIOUS
<1>1. thread = "store" /\ ~OnChain(This.tx) /\ batch # <<>> /\ Scanning
  BY DEF TxGone, TableInv, WorkInv, Scanning
<1>2. This = batch[1] /\ Len(batch) \in Nat \ {0}
  BY <1>1, BatchTyped DEF TableInv
<1>3. Len(chain) \in Nat /\ last \in Nat /\ NextHeight \in 1 .. Len(chain)
  BY <1>1, <1>2, ChainTyped DEF TableInv, TypeOK, BatchCurrent, NextHeight
<1>4. This.tx = chain[NextHeight]
  BY <1>1, <1>2, <1>3 DEF BatchCurrent
<1>5. QED
  BY <1>1, <1>3, <1>4 DEF OnChain, HeightsOf

\* When the thread is through with a block, everything up to it is stored.
LEMMA UpToPassed ==
    ASSUME TableInv, ChainInv, RowsCurrent, BatchCurrent, [Next]_vars, pops = 0,
           pops' = 0, skips' = 0, Scanning, SkipTx \/ StoreTx,
           StoredBelow(NextHeight)
    PROVE  /\ NextHeight' = NextHeight + 1 /\ NextHeight \in 1 .. Len(chain)
           /\ StoredBelow(NextHeight)'
<1>1. /\ batch # <<>> /\ batch' = Tail(batch) /\ UNCHANGED <<chain, last>>
      /\ ~DeleteExistingTx
  BY DEF SkipTx, StoreTx, TableInv, WorkInv, DeleteExistingTx
<1>2. NextHeight' = NextHeight + 1 /\ NextHeight \in 1 .. Len(chain)
  BY <1>1, NextBlock DEF TableInv
<1>3. PICK n \in Nat : n = NextHeight
  BY <1>2
<1>4. Len(chain) \in Nat /\ n <= Len(chain) /\ StoredBelow(n)
  BY <1>2, <1>3, ChainTyped DEF TableInv
<1>5. StoredBelow(n)'
  BY <1>1, <1>4, StoredStep
<1>6. chain[n] # Nothing => Stored(chain[n])'
  BY <1>3, <1>4, BlockPassed
<1>7. StoredBelow(n + 1)'
  BY <1>1, <1>4, <1>5, <1>6 DEF StoredBelow
<1>8. QED
  BY <1>2, <1>3, <1>7 DEF StoredBelow

\* Everything below a height that the thread has passed stays stored.
LEMMA PassedKept ==
    ASSUME TableInv, ChainInv, RowsCurrent, BatchCurrent, PassedStored,
           SavedStored, [Next]_vars
    PROVE  PassedStored'
<1> SUFFICES ASSUME Undisturbed'
             PROVE  /\ thread' # "none" =>
                          position' \in 1 .. Len(chain') + 1 /\ StoredBelow(position)'
                    /\ Scanning' => position' <= NextHeight' /\ StoredBelow(NextHeight)'
  BY DEF PassedStored
<1>1. /\ Undisturbed /\ pops = 0 /\ pops' = 0 /\ skips' = 0 /\ ~PassOverTx
  BY StaysDisturbed DEF TableInv
<1>2. /\ Len(chain) \in Nat /\ Len(chain') \in Nat /\ Len(chain) <= Len(chain')
  BY <1>1, ChainStep, ChainTyped, Mined DEF TableInv
<1>3. Scanning => /\ NextHeight \in 1 .. Len(chain) + 1
                  /\ batch = <<>> => NextHeight = last + 1
                  /\ position <= NextHeight /\ StoredBelow(NextHeight)
                  /\ thread = "advance" => batch = <<>>
  BY <1>1, HeightTyped DEF TableInv, PassedStored, BatchCurrent
<1>4. thread # "none" => position \in 1 .. Len(chain) + 1 /\ StoredBelow(position)
  BY <1>1 DEF PassedStored
<1>5. Scanning => thread # "none"
  BY DEF Scanning
\* The two heights below which everything stays stored.
<1>6. thread # "none" => \A p \in Nat : p = position => StoredBelow(p)'
  <2> SUFFICES ASSUME thread # "none", NEW p \in Nat, p = position
               PROVE  StoredBelow(p)'
    OBVIOUS
  <2>1. p <= Len(chain) + 1 /\ StoredBelow(p)
    BY <1>2, <1>4
  <2>2. DeleteExistingTx => p <= NextHeight
    BY <1>3 DEF DeleteExistingTx, Scanning
  <2>3. QED
    BY <1>1, <2>1, <2>2, StoredStep
<1>7. Scanning => \A n \in Nat : n = NextHeight => StoredBelow(n)'
  <2> SUFFICES ASSUME Scanning, NEW n \in Nat, n = NextHeight
               PROVE  StoredBelow(n)'
    OBVIOUS
  <2>1. n <= Len(chain) + 1 /\ StoredBelow(n)
    BY <1>2, <1>3
  <2>2. QED
    BY <1>1, <2>1, StoredStep
<1>8. position \in Nat
  BY DEF TableInv, TypeOK
<1>9. CASE UNCHANGED <<position, thread, batch, last>>
  <2>1. Scanning' = Scanning /\ NextHeight' = NextHeight
    BY <1>9 DEF Scanning, NextHeight
  <2>2. thread # "none" => StoredBelow(position)'
    BY <1>6, <1>8, <1>9 DEF StoredBelow
  <2>3. Scanning => StoredBelow(NextHeight)'
    BY <1>2, <1>3, <1>7, <2>1 DEF StoredBelow
  <2>4. QED
    BY <1>2, <1>3, <1>4, <1>9, <2>1, <2>2, <2>3
<1>10. CASE StartThread
  <2>1. thread = "none" /\ thread' = "loop" /\ position' = saved /\ UNCHANGED chain
        /\ ~DeleteExistingTx
    BY <1>10 DEF StartThread, DeleteExistingTx
  <2>2. saved \in 1 .. Len(chain) + 1 /\ saved \in Nat
    BY <1>1, <1>2 DEF SavedStored
  <2>3. StoredBelow(saved)
    <3>1. CASE imports = 0
      BY <1>1, <2>1, <3>1 DEF SavedStored
    <3>2. CASE imports # 0
      <4>1. saved = 1
        BY <1>1, <2>1, <3>2 DEF SavedStored, Undisturbed
      <4>2. QED
        BY <4>1 DEF StoredBelow
    <3>3. QED
      BY <3>1, <3>2
  <2>4. PICK p \in Nat : p = saved
    BY <2>2
  <2>5. StoredBelow(p)'
    BY <1>1, <1>2, <2>1, <2>2, <2>3, <2>4, StoredStep
  <2>6. StoredBelow(position)'
    BY <2>1, <2>4, <2>5 DEF StoredBelow
  <2>7. QED
    BY <2>1, <2>2, <2>6 DEF Scanning
<1>11. CASE FetchBlocks
  <2>1. /\ thread = "loop" /\ thread' = "txs" /\ UNCHANGED <<chain, position>>
    BY <1>11 DEF FetchBlocks
  <2>2. Len(batch') = last' + 1 - position /\ last' \in Nat
    BY <1>11, FetchedBatch DEF TableInv
  <2>3. NextHeight' = position
    <3>1. \A n \in Nat, p \in Nat : n + 1 - (n + 1 - p) = p
      OBVIOUS
    <3>2. NextHeight' = last' + 1 - Len(batch')
      BY DEF NextHeight
    <3>3. QED
      BY <1>8, <2>2, <3>1, <3>2, Zenon
  <2>4. StoredBelow(position)' /\ StoredBelow(NextHeight)'
    BY <1>6, <1>8, <2>1, <2>3 DEF StoredBelow
  <2>5. QED
    BY <1>4, <1>8, <2>1, <2>3, <2>4
<1>12. CASE SkipTx \/ StoreTx
  <2>1. /\ Scanning /\ thread' = "scan" /\ UNCHANGED <<chain, position>>
    BY <1>12 DEF SkipTx, StoreTx, Scanning
  <2>2. NextHeight' = NextHeight + 1 /\ StoredBelow(NextHeight)'
    BY <1>1, <1>3, <1>12, <2>1, UpToPassed
  <2>3. StoredBelow(position)'
    BY <1>5, <1>6, <1>8, <2>1 DEF StoredBelow
  <2>4. QED
    BY <1>3, <1>4, <1>5, <1>8, <2>1, <2>2, <2>3
<1>13. CASE GetTxs \/ DeleteExistingTx \/ SavePosition
  <2>1. /\ Scanning /\ thread # "none" /\ UNCHANGED <<chain, position, batch, last>>
    BY <1>13 DEF GetTxs, DeleteExistingTx, SavePosition, Scanning
  <2>2. NextHeight' = NextHeight
    BY <2>1 DEF NextHeight
  <2>3. StoredBelow(position)'
    BY <1>6, <1>8, <2>1 DEF StoredBelow
  <2>4. StoredBelow(NextHeight)'
    BY <1>2, <1>3, <1>7, <2>1, <2>2 DEF StoredBelow
  <2>5. QED
    BY <1>3, <1>4, <2>1, <2>2, <2>3, <2>4
<1>14. CASE Advance
  <2>1. /\ Scanning /\ thread # "none" /\ thread' = "loop" /\ batch = <<>>
        /\ UNCHANGED chain
        /\ position' = position \/ position' = NextHeight
    BY <1>3, <1>14 DEF Advance, Scanning
  <2>2. position' \in 1 .. Len(chain) + 1
    BY <1>3, <1>4, <2>1
  <2>3. StoredBelow(position)'
    BY <1>2, <1>3, <1>6, <1>7, <1>8, <2>1 DEF StoredBelow
  <2>4. QED
    BY <2>1, <2>2, <2>3 DEF Scanning
<1>15. CASE ResetPosition /\ thread # "none"
  <2>1. position' = 1 /\ UNCHANGED <<chain, thread, batch, last>>
    BY <1>15 DEF ResetPosition
  <2>2. Scanning' = Scanning /\ NextHeight' = NextHeight
    BY <2>1 DEF Scanning, NextHeight
  <2>3. StoredBelow(position)'
    BY <2>1 DEF StoredBelow
  <2>4. Scanning => StoredBelow(NextHeight)'
    BY <1>2, <1>3, <1>7, <2>2 DEF StoredBelow
  <2>5. QED
    BY <1>2, <1>3, <2>1, <2>2, <2>3, <2>4
<1>16. CASE TxGone \/ ThreadThrows \/ Crash
  BY <1>16 DEF TxGone, ThreadThrows, Crash, StopThread, Scanning
<1>17. CASE MissTxs
  <2>1. /\ thread # "none" /\ thread' = "returned" /\ UNCHANGED <<chain, position>>
    BY <1>17 DEF MissTxs
  <2>2. StoredBelow(position)'
    BY <1>6, <1>8, <2>1 DEF StoredBelow
  <2>3. QED
    BY <1>4, <2>1, <2>2 DEF Scanning
<1>18. QED
  <2>1. CASE UNCHANGED vars
    BY <1>9, <2>1 DEF vars
  <2>2. CASE \/ \E b \in Txs \union {Nothing} : MineBlock(b)
             \/ PopBlock \/ ResetRow \/ SelectTxs
             \/ (\E t \in Txs : CheckTx(t)) \/ ApplyVerdict
             \/ (ResetPosition /\ thread = "none")
    BY <1>9, <2>2 DEF MineBlock, PopBlock, ResetRow, ResetPosition, SelectTxs,
                      CheckTx, ApplyVerdict
  <2>3. QED
    BY <1>1, <1>10, <1>11, <1>12, <1>13, <1>14, <1>15, <1>16, <1>17,
       <2>1, <2>2
    DEF Next, SearchThread

\* What a restart would not scan again stays stored.
LEMMA SavedKept ==
    ASSUME TableInv, ChainInv, RowsCurrent, BatchCurrent, PassedStored,
           SavedStored, [Next]_vars
    PROVE  SavedStored'
<1> SUFFICES ASSUME Undisturbed'
             PROVE  /\ saved' \in 1 .. Len(chain') + 1
                    /\ thread' = "none" /\ crashes' = 0 => saved' = 1
                    /\ imports' = 0 =>
                          /\ ~updated' /\ ~importing'
                          /\ thread' = "none" => StoredBelow(saved)'
                          /\ thread' \in Reading => saved' <= position'
                          /\ thread' = "advance" => saved' = last'
  BY DEF SavedStored
<1>1. /\ Undisturbed /\ pops = 0 /\ pops' = 0 /\ ~PassOverTx
      /\ imports' = 0 => imports = 0
      /\ crashes' = 0 => crashes = 0
      /\ (ThreadThrows \/ Crash) => imports = 0
      /\ ResetRow => crashes = 0
  BY StaysDisturbed DEF TableInv
<1>2. /\ Len(chain) \in Nat /\ Len(chain') \in Nat /\ Len(chain) <= Len(chain')
      /\ saved \in Nat /\ position \in Nat /\ last \in Nat
      /\ imports \in Nat /\ crashes \in Nat
  BY <1>1, ChainStep, ChainTyped, Mined DEF TableInv, TypeOK
<1>3. /\ saved \in 1 .. Len(chain) + 1
      /\ thread = "none" /\ crashes = 0 => saved = 1
      /\ imports = 0 => /\ ~updated /\ ~importing
                        /\ thread = "none" => StoredBelow(saved)
                        /\ thread \in Reading => saved <= position
                        /\ thread = "advance" => saved = last
  BY <1>1 DEF SavedStored
\* Everything below the saved height is stored as long as no import came.
<1>4. ASSUME imports = 0, ~DeleteExistingTx PROVE \A p \in Nat : p = saved => StoredBelow(p)'
  <2>1. StoredBelow(saved)
    <3>1. CASE thread = "none"
      BY <1>3, <1>4, <3>1
    <3>2. CASE thread \in Reading
      BY <1>1, <1>2, <1>3, <1>4, <3>2, BelowLess DEF PassedStored, TableInv
    <3>3. CASE thread = "advance"
      <4>1. Scanning /\ batch = <<>>
        BY <1>1, <3>3 DEF Scanning, BatchCurrent
      <4>2. NextHeight = last + 1 /\ StoredBelow(NextHeight)
        BY <1>1, <4>1, HeightTyped DEF PassedStored, TableInv
      <4>3. QED
        BY <1>2, <1>3, <1>4, <3>3, <4>2, BelowLess DEF TableInv
    <3>4. QED
      BY <3>1, <3>2, <3>3 DEF TableInv, TypeOK, Reading
  <2>2. QED
    BY <1>1, <1>2, <1>3, <1>4, <2>1, StoredStep
<1>5. CASE /\ UNCHANGED <<saved, position, updated, thread, last, importing>>
           /\ ~DeleteExistingTx
  <2>1. imports' = 0 /\ thread' = "none" => StoredBelow(saved)'
    BY <1>1, <1>2, <1>4, <1>5 DEF StoredBelow
  <2>2. QED
    BY <1>1, <1>2, <1>3, <1>5, <2>1
<1>6. CASE \/ StartThread \/ FetchBlocks \/ GetTxs \/ MissTxs \/ SkipTx
           \/ DeleteExistingTx \/ StoreTx
  <2>1. /\ thread' \in Reading /\ UNCHANGED <<chain, saved, importing>>
        /\ thread # "none" => UNCHANGED <<position, updated>>
        /\ thread \in Reading \union {"none"}
        /\ thread = "none" => position' = saved /\ ~updated'
    BY <1>6 DEF StartThread, FetchBlocks, GetTxs, MissTxs, SkipTx, DeleteExistingTx, StoreTx,
                Reading
  <2>2. QED
    BY <1>1, <1>2, <1>3, <2>1 DEF Reading
<1>7. CASE SavePosition
  <2>1. /\ thread = "scan" /\ thread' = "advance" /\ saved' = last
        /\ UNCHANGED <<chain, last, updated, importing>>
    BY <1>7 DEF SavePosition
  <2>2. last >= 1 /\ last <= Len(chain)
    BY <1>1, <2>1 DEF TableInv, WorkInv, BatchCurrent, Scanning
  <2>3. QED
    BY <1>1, <1>2, <1>3, <2>1, <2>2 DEF Reading
<1>8. CASE Advance
  <2>1. /\ thread = "advance" /\ thread' = "loop" /\ ~updated'
        /\ position' = IF updated THEN position ELSE last + 1
        /\ UNCHANGED <<chain, saved, importing>>
    BY <1>8 DEF Advance
  <2>2. QED
    BY <1>1, <1>2, <1>3, <2>1
<1>9. CASE ThreadThrows \/ Crash
  <2>1. /\ thread' = "none" /\ ~updated' /\ UNCHANGED <<chain, saved>>
        /\ importing' => importing
        /\ crashes' # 0 /\ ~DeleteExistingTx
    BY <1>2, <1>9 DEF ThreadThrows, Crash, StopThread, DeleteExistingTx
  <2>2. StoredBelow(saved)'
    BY <1>1, <1>2, <1>4, <1>9, <2>1 DEF StoredBelow
  <2>3. QED
    BY <1>1, <1>2, <1>3, <1>9, <2>1, <2>2 DEF Reading
<1>10. CASE ResetRow
  BY <1>1, <1>2, <1>10 DEF ResetRow
<1>11. CASE ResetPosition
  <2>1. importing /\ UNCHANGED <<chain, saved, thread, imports, crashes>>
    BY <1>11 DEF ResetPosition
  <2>2. QED
    BY <1>1, <1>2, <1>3, <2>1
<1>12. ~TxGone
  BY <1>1, NeverGone
<1>13. QED
  <2>1. CASE UNCHANGED vars
    BY <1>5, <2>1 DEF vars, DeleteExistingTx
  <2>2. CASE \/ \E b \in Txs \union {Nothing} : MineBlock(b)
             \/ PopBlock \/ SelectTxs \/ (\E t \in Txs : CheckTx(t))
             \/ ApplyVerdict
    BY <1>5, <2>2 DEF MineBlock, PopBlock, SelectTxs, CheckTx, ApplyVerdict,
                      DeleteExistingTx
  <2>3. QED
    BY <1>1, <1>6, <1>7, <1>8, <1>9, <1>10, <1>11, <1>12, <2>1, <2>2
    DEF Next, SearchThread

-------------------------------------------------------------------------------
(***************************************************************************)
(* The theorems                                                            *)
(***************************************************************************)
LEMMA InitInv == Init => IInv
<1> SUFFICES ASSUME Init PROVE IInv
  OBVIOUS
<1>1. TableInv
  BY InitTables
<1>2. Len(chain) = 0 /\ thread = "none" /\ saved = 1
  BY EmptySeq DEF Init
<1>3. MinedOnce /\ SpentLater /\ BatchCurrent
  BY <1>2 DEF MinedOnce, SpentLater, BatchCurrent, Scanning
<1>4. RowsCurrent
  BY DEF Init, RowsCurrent, RowCurrent, NoRows, NoVerdict
<1>5. StoredBelow(saved)
  BY <1>2 DEF StoredBelow
<1>6. PassedStored /\ SavedStored
  BY <1>2, <1>5 DEF Init, PassedStored, SavedStored, Scanning
<1>7. QED
  BY <1>1, <1>3, <1>4, <1>6 DEF IInv, TableInv

LEMMA NextInv == IInv /\ [Next]_vars => IInv'
<1> SUFFICES ASSUME IInv, [Next]_vars PROVE IInv'
  OBVIOUS
<1>1. TableInv /\ ChainInv /\ RowsCurrent /\ BatchCurrent /\ PassedStored /\ SavedStored
  BY DEF IInv, TableInv, ChainInv
<1>2. TableInv'
  BY <1>1, TablesKept
<1>3. ChainInv'
  BY <1>1, ChainKept DEF TableInv
<1>4. RowsCurrent' /\ BatchCurrent'
  BY <1>1, RowsKept, BatchKept
<1>5. PassedStored' /\ SavedStored'
  BY <1>1, PassedKept, SavedKept
<1>6. QED
  BY <1>2, <1>3, <1>4, <1>5 DEF IInv, TableInv, ChainInv

\* The inductive invariant holds whatever the thread, the imports, the
\* spendability checks, the chain and the failures do.
THEOREM Invariance == Spec => []IInv
<1>1. QED
  BY InitInv, NextInv, PTL DEF Spec

\* Rows, batches, verdicts and heights keep their types through every
\* interleaving of the thread, the imports, the checks and the failures.
THEOREM TypeCorrect == Spec => []TypeOK
<1>1. IInv => TypeOK
  BY DEF IInv
<1>2. QED
  BY <1>1, Invariance, PTL

\* The cache of a thread whose first select did not fail covers table Outputs,
\* whatever requests and earlier scans deleted.
THEOREM NoSpendingMissed == Spec => []KnownOutputsCached
<1>1. IInv => KnownOutputsCached
  BY DEF IInv
<1>2. QED
  BY <1>1, Invariance, PTL

\* No input is left behind by a delete and its cascade.
THEOREM ForeignKeysHold == Spec => []InputsBacked
<1>1. IInv => InputsBacked
  BY DEF IInv
<1>2. QED
  BY <1>1, Invariance, PTL

\* For any chain and any ranges: without a reorganisation and a failed statement
\* that the thread passed over, no crash, exception, early return or rescan
\* loses a transaction that the thread passed.
THEOREM NothingPassedIsLost == Spec => []ScannedTxsStored
<1>1. ASSUME IInv, Undisturbed
      PROVE  StoredBelow(IF thread = "none" \/ saved < position THEN saved
                                                               ELSE position)
  <2>1. saved \in Nat /\ position \in Nat
    BY <1>1 DEF IInv, TypeOK
  <2>2. CASE thread = "none"
    <3>1. imports = 0 => StoredBelow(saved)
      BY <1>1, <2>2 DEF IInv, SavedStored
    <3>2. imports # 0 => saved = 1
      BY <1>1, <2>2 DEF IInv, SavedStored, Undisturbed
    <3>3. QED
      BY <2>2, <3>1, <3>2 DEF StoredBelow
  <2>3. CASE thread # "none"
    <3>1. StoredBelow(position)
      BY <1>1, <2>3 DEF IInv, PassedStored
    <3>2. saved < position => StoredBelow(saved)
      BY <1>1, <2>1, <3>1, BelowLess DEF IInv
    <3>3. QED
      BY <2>3, <3>1, <3>2
  <2>4. QED
    BY <2>2, <2>3
<1>2. IInv => ScannedTxsStored
  BY <1>1 DEF ScannedTxsStored
<1>3. QED
  BY <1>2, Invariance, PTL

===============================================================================
