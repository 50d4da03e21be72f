------------------------------ MODULE TxStorage ------------------------------
(***************************************************************************)
(* What the search thread of one account stores in MySQL, and what the     *)
(* spendability check of the requests does to it.                          *)
(*                                                                         *)
(* The thread scans a range of blocks, transaction by transaction.  For a  *)
(* transaction of the account it deletes the rows of an earlier scan, on a *)
(* connection of its own that commits at once, and writes the new rows in  *)
(* a MySQL transaction on another connection.  Deleting a transaction      *)
(* deletes its outputs and every input that refers to either (ON DELETE    *)
(* CASCADE).  After the range it saves the last height.                    *)
(*                                                                         *)
(* A block holds at most one transaction of the account, and each of the   *)
(* account's outputs is created by one transaction.  A select or an insert *)
(* that fails is reported like one that finds or changes nothing, and the  *)
(* thread goes on without the rows.  The handshake between                 *)
(* imports and the thread is the subject of TxSearch; here its stores are  *)
(* one step, and the height cached by the monitor is the real one.         *)
(***************************************************************************)
EXTENDS Integers, Sequences, FiniteSets

CONSTANTS
    Txs,           \* the transactions that concern the account
    Outputs,       \* the account's outputs
    Creates,       \* Creates[t]: the outputs that t pays to the account
    Spends,        \* Spends[t]: the outputs among the ring members of t
    Nothing,       \* a block without such a transaction, an absent row
    SpendableAge,  \* CRYPTONOTE_DEFAULT_TX_SPENDABLE_AGE
    Lookahead,     \* bc_setup.blocks_search_lookahead
    MaxHeight,     \* bound: the height of the chain
    MaxPops,       \* bound: blocks popped by reorganisations
    MaxImports,    \* bound: import requests
    MaxCrashes,    \* bound: crashes of the process, exceptions of the thread
    MaxSkips       \* bound: failed statements that the thread passes over

\* A row of table Transactions.
Row == [height : Nat, blockchain_tx_id : Nat, spendable : BOOLEAN]

ASSUME StorageAssumption ==
    /\ Nothing \notin Txs \union Row
    /\ Creates \in [Txs -> SUBSET Outputs]
    /\ Spends \in [Txs -> SUBSET Outputs]
    /\ \A t \in Txs : Creates[t] \union Spends[t] # {}
    /\ \A t, u \in Txs : t # u => Creates[t] \intersect Creates[u] = {}
    /\ SpendableAge \in Nat \ {0} /\ Lookahead \in Nat \ {0}
    /\ MaxHeight \in Nat /\ MaxPops \in Nat /\ MaxImports \in Nat
    /\ MaxCrashes \in Nat /\ MaxSkips \in Nat

VARIABLES
    chain,         \* the blocks, from height 1
    saved,         \* Accounts.scanned_block_height
    position,      \* TxSearch::searched_blk_no
    updated,       \* TxSearch::searched_block_got_updated
    thread,        \* program counter of the search thread
    batch,         \* the blocks of its range that it has not examined
    last,          \* h2, the last height of its range
    identified,    \* the inputs it identified in the first of them
    known,         \* TxSearch::known_outputs_keys
    blind,         \* history: the select that fills known has failed
    gone,          \* a block that the thread has in hand was popped before
                   \*   it read the transactions
    transactions,  \* table Transactions
    outputs,       \* table Outputs
    inputs,        \* table Inputs: pairs of a transaction and an output
    list,          \* the rows that a spendability check has selected
    fresh,         \* those of them that nobody has deleted since
    verdict,       \* what it is about to do to one of them
    importing,     \* an import has reset the row and not yet the thread
    pops, imports, crashes, skips

tableVars  == <<transactions, outputs, inputs>>
threadVars == <<position, updated, thread, batch, last, identified, known,
                blind, gone>>
checkVars  == <<list, verdict>>
boundVars  == <<pops, imports, crashes, skips>>
vars == <<chain, saved, threadVars, tableVars, checkVars, fresh, importing,
          boundVars>>

NoRows == [t \in Txs |-> Nothing]

\* Where the search thread is; "returned" when operator() has returned with
\* searching_is_ongoing set, so that the object stays in the map for good.
ThreadStates ==
    {"none", "loop", "txs", "scan", "store", "advance", "returned"}

NoVerdict == [act |-> "none", tx |-> Nothing]

TypeOK ==
    /\ chain \in Seq(Txs \union {Nothing})
    /\ saved \in Nat /\ position \in Nat /\ last \in Nat
    /\ updated \in BOOLEAN /\ importing \in BOOLEAN
    /\ blind \in BOOLEAN /\ gone \in BOOLEAN
    /\ thread \in ThreadStates
    /\ batch \in Seq([tx : Txs \union {Nothing}, height : Nat])
    /\ identified \subseteq Outputs /\ known \subseteq Outputs
    /\ transactions \in [Txs -> Row \union {Nothing}]
    /\ outputs \subseteq Outputs
    /\ inputs \subseteq Txs \X Outputs
    /\ list \in [Txs -> Row \union {Nothing}]
    /\ fresh \subseteq Txs
    /\ verdict \in [act : {"none", "mark", "delete"}, tx : Txs \union {Nothing}]
    /\ pops \in Nat /\ imports \in Nat /\ crashes \in Nat /\ skips \in Nat

Init ==
    /\ chain = <<>> /\ saved = 1
    /\ position = 1 /\ updated = FALSE /\ thread = "none" /\ batch = <<>>
    /\ last = 0 /\ identified = {} /\ known = {}
    /\ blind = FALSE /\ gone = FALSE
    /\ transactions = NoRows /\ outputs = {} /\ inputs = {}
    /\ list = NoRows /\ fresh = {} /\ verdict = NoVerdict
    /\ importing = FALSE
    /\ pops = 0 /\ imports = 0 /\ crashes = 0 /\ skips = 0

-------------------------------------------------------------------------------
(***************************************************************************)
(* The chain                                                               *)
(***************************************************************************)
HeightsOf(t) == {i \in 1 .. Len(chain) : chain[i] = t}

OnChain(t) == HeightsOf(t) # {}

\* tx_exist: the number of the transaction in the blockchain database, which
\* grows with the height; 0 when it is not there.
BlockchainTxId(t) ==
    IF OnChain(t) THEN CHOOSE i \in HeightsOf(t) : TRUE ELSE 0

OnChainOutputs == UNION {Creates[t] : t \in {u \in Txs : OnChain(u)}}

MineBlock(b) ==
    /\ Len(chain) < MaxHeight
    /\ b \in Txs => ~OnChain(b) /\ Spends[b] \subseteq OnChainOutputs
    /\ chain' = Append(chain, b)
    /\ UNCHANGED <<saved, threadVars, tableVars, checkVars, fresh, importing,
                   boundVars>>

PopBlock ==
    /\ pops < MaxPops /\ chain # <<>>
    /\ pops' = pops + 1
    /\ chain' = SubSeq(chain, 1, Len(chain) - 1)
    /\ gone' = (gone \/ (thread = "txs" /\ Len(chain) <= last))
    /\ UNCHANGED <<saved, position, updated, thread, batch, last, identified,
                   known, blind, tableVars, checkVars, fresh, importing,
                   imports, crashes, skips>>

\* TxUnlockChecker::is_unlocked for the unlock time that the thread gives a
\* transaction without one; CRYPTONOTE_LOCKED_TX_ALLOWED_DELTA_BLOCKS is 1.
IsTxUnlocked(height) == Len(chain) + 1 >= height + SpendableAge

-------------------------------------------------------------------------------
(***************************************************************************)
(* The tables                                                              *)
(***************************************************************************)
\* Seeded fault: the keys of table Inputs do not cascade from Outputs.
DeleteTxNoCascade(t) ==
    /\ transactions' = [transactions EXCEPT ![t] = Nothing]
    /\ outputs' = outputs \ Creates[t]
    /\ inputs' = {in \in inputs : in[1] # t}
    /\ fresh' = fresh \ {t}

DeleteTx(t) ==
    /\ transactions' = [transactions EXCEPT ![t] = Nothing]
    /\ outputs' = outputs \ Creates[t]
    /\ inputs' = {in \in inputs : in[1] # t /\ in[2] \notin Creates[t]}
    /\ fresh' = fresh \ {t}

-------------------------------------------------------------------------------
(***************************************************************************)
(* The search thread                                                       *)
(***************************************************************************)
\* A statement fails and the thread takes it for one without result.
StatementFails ==
    /\ skips < MaxSkips
    /\ skips' = skips + 1

\* Seeded fault: the cache of known outputs starts empty.
PopulateNothing ==
    /\ known' = {} /\ blind' = FALSE /\ UNCHANGED skips

\* The result of the select is not looked at: when it fails, the cache stays
\* empty and the thread starts all the same.
PopulateKnownOutputs ==
    \/ known' = outputs /\ blind' = FALSE /\ UNCHANGED skips
    \/ outputs # {} /\ StatementFails /\ known' = {} /\ blind' = TRUE

\* The account logs in: a new thread starts at the saved height.
StartThread ==
    /\ thread = "none"
    /\ thread' = "loop"
    /\ position' = saved /\ updated' = FALSE
    /\ PopulateKnownOutputs
    /\ UNCHANGED <<chain, saved, batch, last, identified, gone, tableVars,
                   checkVars, fresh, importing, pops, imports, crashes>>

RangeEnd ==
    IF position + Lookahead - 1 < Len(chain) THEN position + Lookahead - 1
                                             ELSE Len(chain)

FetchBlocks ==
    /\ thread = "loop" /\ position <= Len(chain)
    /\ thread' = "txs"
    /\ last' = RangeEnd
    /\ batch' = [k \in 1 .. RangeEnd + 1 - position |->
                   [tx |-> chain[position + k - 1],
                    height |-> position + k - 1]]
    /\ UNCHANGED <<chain, saved, position, updated, identified, known, blind,
                   gone, tableVars, checkVars, fresh, importing, boundVars>>

\* get_txs_in_blocks reads every transaction of the blocks in hand, the
\* coinbase too, which a popped block takes out of the database with it.
GetTxs ==
    /\ thread = "txs" /\ ~gone
    /\ thread' = "scan"
    /\ UNCHANGED <<chain, saved, position, updated, batch, last, identified,
                   known, blind, gone, tableVars, checkVars, fresh, importing,
                   boundVars>>

\* It fails, because a block is gone or the blockchain cannot be read: return,
\* straight out of operator().  From here on only a restart of the process
\* brings the account a new thread.
MissTxs ==
    /\ thread = "txs"
    /\ \/ gone /\ UNCHANGED crashes
       \/ crashes < MaxCrashes /\ crashes' = crashes + 1
    /\ thread' = "returned"
    /\ batch' = <<>> /\ last' = 0 /\ gone' = FALSE
    /\ UNCHANGED <<chain, saved, position, updated, identified, known, blind,
                   tableVars, checkVars, fresh, importing, pops, imports,
                   skips>>

This == Head(batch)

Identified == Spends[This.tx] \intersect known

Ours ==
    This.tx # Nothing /\ (Creates[This.tx] # {} \/ Identified # {})

SkipTx ==
    /\ thread = "scan" /\ batch # <<>> /\ ~Ours
    /\ batch' = Tail(batch)
    /\ UNCHANGED <<chain, saved, position, updated, thread, last, identified,
                   known, blind, gone, tableVars, checkVars, fresh, importing, boundVars>>

DeleteExistingTx ==
    /\ thread = "scan" /\ batch # <<>> /\ Ours
    /\ thread' = "store"
    /\ identified' = Identified
    /\ DeleteTx(This.tx)
    /\ UNCHANGED <<chain, saved, position, updated, batch, last, known, blind,
                   gone, checkVars, importing, boundVars>>

\* The inputs whose output is in the table.
Found == identified \intersect outputs

\* The rows of the transaction are committed together, with the inputs whose
\* output was looked up; a failed lookup is taken for an output that is not in
\* the table.  A transaction that turns out to concern no output of the
\* account leaves no row.
StoreRows(t, found) ==
    /\ IF Creates[t] = {} /\ found = {}
       THEN UNCHANGED transactions
       ELSE transactions' = [transactions EXCEPT ![t] =
                               [height |-> This.height,
                                blockchain_tx_id |-> BlockchainTxId(t),
                                spendable |-> IsTxUnlocked(This.height)]]
    /\ outputs' = outputs \union Creates[t]
    /\ inputs' = inputs \union {<<t, o>> : o \in found}

StoreTx ==
    /\ thread = "store" /\ OnChain(This.tx)
    /\ thread' = "scan" /\ batch' = Tail(batch) /\ identified' = {}
    /\ known' = known \union Creates[This.tx]
    /\ \/ StoreRows(This.tx, Found) /\ UNCHANGED skips
       \/ /\ StatementFails
          /\ \E found \in SUBSET Found \ {Found} : StoreRows(This.tx, found)
    /\ UNCHANGED <<chain, saved, position, updated, last, blind, gone,
                   checkVars, fresh, importing, pops, imports, crashes>>

\* No row of its outputs, or of its inputs, was inserted: the transaction is
\* rolled back and passed over.
PassOverTx ==
    /\ thread = "store" /\ OnChain(This.tx)
    /\ Creates[This.tx] # {} \/ Found # {}
    /\ StatementFails
    /\ thread' = "scan" /\ batch' = Tail(batch) /\ identified' = {}
    /\ known' = known \union Creates[This.tx]
    /\ UNCHANGED <<chain, saved, position, updated, last, blind, gone,
                   tableVars, checkVars, fresh, importing, pops, imports,
                   crashes>>

StopThread ==
    /\ thread' = "none" /\ position' = 1 /\ updated' = FALSE
    /\ batch' = <<>> /\ last' = 0 /\ identified' = {} /\ known' = {}
    /\ blind' = FALSE /\ gone' = FALSE

\* The block was popped meanwhile: tx_exist fails and the thread throws.
TxGone ==
    /\ thread = "store" /\ ~OnChain(This.tx)
    /\ StopThread
    /\ UNCHANGED <<chain, saved, tableVars, checkVars, fresh, importing,
                   boundVars>>

ThreadThrows ==
    /\ thread \in {"scan", "store"} /\ crashes < MaxCrashes
    /\ crashes' = crashes + 1
    /\ StopThread
    /\ UNCHANGED <<chain, saved, tableVars, checkVars, fresh, importing, pops,
                   imports, skips>>

\* Seeded fault: the height is saved before the range is stored.
SavePositionEarly ==
    /\ thread = "scan"
    /\ thread' = IF batch = <<>> THEN "advance" ELSE "scan"
    /\ saved' = last
    /\ UNCHANGED <<chain, position, updated, batch, last, identified, known,
                   blind, gone, tableVars, checkVars, fresh, importing, boundVars>>

SavePosition ==
    /\ thread = "scan" /\ batch = <<>>
    /\ thread' = "advance"
    /\ saved' = last
    /\ UNCHANGED <<chain, position, updated, batch, last, identified, known,
                   blind, gone, tableVars, checkVars, fresh, importing, boundVars>>

Advance ==
    /\ thread = "advance"
    /\ thread' = "loop"
    /\ position' = IF updated THEN position ELSE last + 1
    /\ updated' = FALSE /\ last' = 0
    /\ UNCHANGED <<chain, saved, batch, identified, known, blind, gone, tableVars,
                   checkVars, fresh, importing, boundVars>>

SearchThread ==
    \/ FetchBlocks \/ GetTxs \/ MissTxs \/ SkipTx \/ DeleteExistingTx \/ StoreTx \/ TxGone
    \/ SavePosition \/ Advance

-------------------------------------------------------------------------------
(***************************************************************************)
(* Imports, the spendability check and crashes                             *)
(***************************************************************************)
ResetRow ==
    /\ ~importing /\ imports < MaxImports
    /\ imports' = imports + 1
    /\ importing' = TRUE
    /\ saved' = 1
    /\ UNCHANGED <<chain, threadVars, tableVars, checkVars, fresh, pops,
                   crashes, skips>>

ResetPosition ==
    /\ importing
    /\ importing' = FALSE
    /\ IF thread = "none"
       THEN UNCHANGED <<position, updated>>
       ELSE position' = 1 /\ updated' = TRUE
    /\ UNCHANGED <<chain, saved, thread, batch, last, identified, known, blind,
                   gone, tableVars, checkVars, fresh, boundVars>>

\* get_address_txs and get_address_info select the rows of the account ...
SelectTxs ==
    /\ list = NoRows /\ transactions # NoRows
    /\ list' = transactions
    /\ fresh' = {t \in Txs : transactions[t] # Nothing}
    /\ UNCHANGED <<chain, saved, threadVars, tableVars, verdict, importing,
                   boundVars>>

Unlisted(t) == list' = [list EXCEPT ![t] = Nothing]

\* Seeded fault: a row whose number in the blockchain changed is kept.
JudgeMarkOnly(t) ==
    IF IsTxUnlocked(list[t].height) THEN "mark" ELSE "none"

\* ... and decide what to do with each: one that is old enough is marked, a
\* younger one is deleted if its number in the blockchain has changed.
Judge(t) ==
    IF list[t].spendable THEN "none"
    ELSE IF IsTxUnlocked(list[t].height) THEN "mark"
    ELSE IF BlockchainTxId(t) # list[t].blockchain_tx_id THEN "delete"
    ELSE "none"

CheckTx(t) ==
    /\ verdict = NoVerdict /\ list[t] # Nothing
    /\ \/ Judge(t) = "none" /\ Unlisted(t) /\ UNCHANGED verdict
       \/ Judge(t) # "none" /\ UNCHANGED list
          /\ verdict' = [act |-> Judge(t), tx |-> t]
    /\ UNCHANGED <<chain, saved, threadVars, tableVars, fresh, importing,
                   boundVars>>

\* The statement names the row by its id; when the row is gone it changes
\* nothing, and the request gives up.
ApplyVerdict ==
    LET t == verdict.tx IN
    /\ verdict # NoVerdict
    /\ verdict' = NoVerdict
    /\ \/ t \notin fresh /\ list' = NoRows /\ UNCHANGED <<tableVars, fresh>>
       \/ t \in fresh /\ verdict.act = "delete" /\ Unlisted(t) /\ DeleteTx(t)
       \/ t \in fresh /\ verdict.act = "mark" /\ Unlisted(t)
          /\ transactions' = [transactions EXCEPT ![t].spendable = TRUE]
          /\ UNCHANGED <<outputs, inputs, fresh>>
    /\ UNCHANGED <<chain, saved, threadVars, importing, boundVars>>

Crash ==
    /\ crashes < MaxCrashes
    /\ crashes' = crashes + 1
    /\ StopThread
    /\ list' = NoRows /\ fresh' = {} /\ verdict' = NoVerdict
    /\ importing' = FALSE
    /\ UNCHANGED <<chain, saved, tableVars, pops, imports, skips>>

Next ==
    \/ \E b \in Txs \union {Nothing} : MineBlock(b)
    \/ PopBlock \/ StartThread \/ SearchThread \/ PassOverTx \/ ThreadThrows
    \/ ResetRow \/ ResetPosition
    \/ SelectTxs \/ (\E t \in Txs : CheckTx(t)) \/ ApplyVerdict
    \/ Crash

Spec == Init /\ [][Next]_vars

\* The thread and the handlers are operating system threads, and the client
\* keeps polling, which starts a thread when the map holds none; the object of
\* a thread that returned early is still there.
Fairness ==
    /\ WF_vars(StartThread) /\ WF_vars(SearchThread)
    /\ WF_vars(ResetPosition)
    /\ WF_vars(SelectTxs) /\ WF_vars(ApplyVerdict)
    /\ \A t \in Txs : WF_vars(CheckTx(t))

FairSpec == Spec /\ Fairness

-------------------------------------------------------------------------------
(***************************************************************************)
(* Properties                                                              *)
(***************************************************************************)
\* The tables hold transaction t, its outputs and its inputs.
Stored(t) ==
    /\ transactions[t] # Nothing
    /\ Creates[t] \subseteq outputs
    /\ \A o \in Spends[t] : <<t, o>> \in inputs

StoredBelow(h) ==
    \A i \in 1 .. Len(chain) : i < h /\ chain[i] # Nothing => Stored(chain[i])

\* Three things may lose a transaction or one of its rows: a reorganisation
\* (see TxSearch), a failed statement that the thread passed over (the insert
\* of the rows, the select that fills the cache, the lookup of a spent
\* output), and a failure while an import rescans.
Undisturbed == pops = 0 /\ skips = 0 /\ (imports = 0 \/ crashes = 0)

\* Whatever the thread has passed and will not scan again is in the tables
\* with all its outputs and inputs: an exception or a crash between the delete
\* and the commit of a transaction, or between two transactions, loses none
\* of them, and neither does a rescan, which deletes and cascades as it goes.
ScannedTxsStored ==
    Undisturbed =>
        StoredBelow(IF thread = "none" \/ saved < position THEN saved
                                                          ELSE position)

\* TxSearch.cpp 278: a scan removes the rows of a transaction only to
\* populate them again, also when the process dies on the way.
RescanRepopulates ==
    \A t \in Txs :
        thread = "store" /\ This.tx = t ~> Stored(t) \/ ~OnChain(t)

\* The thread knows every output in the table, so it misses no spending, also
\* after a restart or while a request deletes rows, unless the select that
\* filled its cache failed, of which populate_known_outputs takes no notice.
KnownOutputsCached == thread # "none" /\ ~blind => outputs \subseteq known

\* Every input refers to a transaction and an output that are in the tables,
\* so no balance counts the spending of an output it does not count.
InputsBacked ==
    \A in \in inputs : transactions[in[1]] # Nothing /\ in[2] \in outputs

\* In the end every transaction of the chain is in the tables, however often
\* the thread threw or the process died on the way; but not when operator()
\* returned early and the process was not restarted.
EventuallyStored ==
    <>[](Undisturbed => StoredBelow(Len(chain) + 1) \/ thread = "returned")

\* A row of a transaction that left the chain while young does not stay as a
\* locked one: it is deleted, replaced or, once old enough, marked.
OrphansResolved ==
    \A t \in Txs :
        (transactions[t] # Nothing /\ ~OnChain(t))
            ~> (transactions[t] = Nothing \/ OnChain(t)
                  \/ transactions[t].spendable)

===============================================================================
