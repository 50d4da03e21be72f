------------------------------ MODULE Spending ------------------------------
(***************************************************************************)
(* What a wallet asks for before it spends: get_unspent_outs, which leaves *)
(* out locked outputs (TxUnlockChecker), and get_random_outs, which looks  *)
(* for decoys (RandomOutputs).  The chain may grow and shrink between any  *)
(* two calls that these requests make.                                     *)
(***************************************************************************)
EXTENDS Integers, Sequences, FiniteSets

CONSTANTS
    Txs,             \* transactions that pay the account
    Height,          \* Height[t]: the block of t
    UnlockTime,      \* UnlockTime[t]: its unlock time, 0 if it has none
    SpendableAge,    \* CRYPTONOTE_DEFAULT_TX_SPENDABLE_AGE
    MaxBlockNumber,  \* CRYPTONOTE_MAX_BLOCK_NUMBER
    V2Height,        \* TxUnlockChecker::get_v2height
    LeewayV1, LeewayV2,
    Amounts,         \* the amounts of outputs that serve as decoys
    Requests,        \* the sequences of amounts that clients ask for
    Missing,         \* no entry in the histogram
    Counts,          \* what clients ask for
    MaxRingSize,     \* 41
    MaxTrials,       \* RandomOutputs::max_no_of_trials
    Word,            \* 2^64
    MaxTop, MaxClock, MaxOuts, MaxTroubles  \* bounds

ASSUME SpendingAssumption ==
    /\ Height \in [Txs -> Nat] /\ UnlockTime \in [Txs -> Nat]
    /\ \A n \in {SpendableAge, MaxBlockNumber, LeewayV1, LeewayV2, V2Height,
                 MaxRingSize, MaxTrials, MaxTop, MaxClock, MaxOuts, MaxTroubles} :
          n \in Nat
    /\ MaxTop + SpendableAge < MaxBlockNumber
    /\ Word \in Nat /\ Word > MaxOuts + 1
    /\ Counts \subseteq Nat /\ Requests \subseteq Seq(Amounts)
    /\ Missing \notin Nat

VARIABLES
    top,             \* the height of the last block
    clock,           \* the time of day
    outs,            \* outs[a]: the outputs of amount a on the chain
    current_height,  \* CurrentBlockchainStatus::current_height
    troubles,        \* blocks popped and lookups failed so far
    offered,         \* the transactions in the answer of get_unspent_outs
    pc,              \* where get_random_outs is
    count,           \* outs_count
    amounts,         \* the amounts asked for
    histogram,       \* unlocked_instances of each amount
    seen,            \* seen_indices
    trial_i,
    found,           \* found_outputs, the last one still growing
    closed           \* how often the session was closed

chainVars == <<top, clock, outs, current_height, troubles>>
decoyVars == <<pc, count, amounts, histogram, seen, trial_i, found, closed>>
vars == <<chainVars, offered, decoyVars>>

Keys == {"key", "uninitialised"}

TypeOK ==
    /\ {top, clock, current_height, troubles, trial_i, closed, count} \subseteq Nat
    /\ outs \in [Amounts -> Nat]
    /\ offered \subseteq Txs
    /\ pc \in {"free", "parse", "histogram", "amount", "draw", "key", "found",
               "failed", "sent", "done"}
    /\ amounts \in Seq(Amounts)
    /\ histogram \in [Amounts -> Nat \union {Missing}]
    /\ seen \subseteq 0 .. Word - 1
    /\ found \in Seq(Seq([index : 0 .. Word - 1, key : Keys]))

NoHistogram == [a \in Amounts |-> Missing]

Init ==
    /\ top = 0 /\ clock = MaxBlockNumber
    /\ outs \in [Amounts -> 0 .. MaxOuts]
    /\ current_height = top /\ troubles = 0 /\ offered = {}
    /\ pc = "free" /\ count = 0 /\ amounts = <<>> /\ histogram = NoHistogram
    /\ seen = {} /\ trial_i = 0 /\ found = <<>> /\ closed = 0

-------------------------------------------------------------------------------
(***************************************************************************)
(* The chain, the time and the monitor                                     *)
(***************************************************************************)
MineBlock(a) ==
    /\ top < MaxTop /\ outs[a] < MaxOuts
    /\ top' = top + 1
    /\ outs' = [outs EXCEPT ![a] = @ + 1]
    /\ UNCHANGED <<clock, current_height, troubles, offered, decoyVars>>

Trouble == troubles < MaxTroubles /\ troubles' = troubles + 1

PopBlock(a) ==
    /\ top > 0 /\ outs[a] > 0 /\ Trouble
    /\ top' = top - 1
    /\ outs' = [outs EXCEPT ![a] = @ - 1]
    /\ UNCHANGED <<clock, current_height, offered, decoyVars>>

Tick ==
    /\ clock < MaxBlockNumber + MaxClock
    /\ clock' = clock + 1
    /\ UNCHANGED <<top, outs, current_height, troubles, offered, decoyVars>>

UpdateCurrentHeight ==
    /\ current_height' = top
    /\ UNCHANGED <<top, clock, outs, troubles, offered, decoyVars>>

-------------------------------------------------------------------------------
(***************************************************************************)
(* get_unspent_outs                                                        *)
(***************************************************************************)
\* What the search thread stores as unlock_time.
StoredUnlockTime(t) ==
    IF UnlockTime[t] = 0 THEN Height[t] + SpendableAge ELSE UnlockTime[t]

Leeway(height) == IF height < V2Height THEN LeewayV1 ELSE LeewayV2

\* Seeded fault: one block too early.
IsUnlockedEarly(unlock_time, height) ==
    IF unlock_time < MaxBlockNumber
    THEN current_height + 2 >= unlock_time
    ELSE clock + Leeway(height) >= unlock_time

\* Seeded fault: one block too late.
IsUnlockedLate(unlock_time, height) ==
    IF unlock_time < MaxBlockNumber
    THEN current_height >= unlock_time
    ELSE clock + Leeway(height) >= unlock_time

IsUnlocked(unlock_time, height) ==
    IF unlock_time < MaxBlockNumber
    THEN current_height + 1 >= unlock_time
    ELSE clock + Leeway(height) >= unlock_time

\* The rows are those of blocks that were scanned, up to the cached height.
GetUnspentOuts ==
    /\ offered' = {t \in Txs : /\ Height[t] <= current_height
                               /\ IsUnlocked(StoredUnlockTime(t), Height[t])}
    /\ UNCHANGED <<chainVars, decoyVars>>

-------------------------------------------------------------------------------
(***************************************************************************)
(* get_random_outs                                                         *)
(***************************************************************************)
GetRandomOuts(n, as) ==
    /\ pc = "free"
    /\ pc' = "parse"
    /\ count' = n /\ amounts' = as
    /\ UNCHANGED <<chainVars, offered, histogram, seen, trial_i, found, closed>>

\* A ring that is too large is answered with an error, and then looked for.
\* An amount that is not a number ends the request.
ParseAmounts ==
    LET answered == IF count > MaxRingSize THEN closed + 1 ELSE closed IN
    /\ pc = "parse"
    /\ \/ pc' = "histogram" /\ closed' = answered
       \/ pc' = "done" /\ closed' = answered + 1
    /\ UNCHANGED <<chainVars, offered, count, amounts, histogram, seen,
                   trial_i, found>>

\* The daemon leaves out amounts with fewer outputs than min_count, and tells
\* how many of the others are unlocked.
OutputHistogram ==
    /\ pc = "histogram"
    /\ \/ /\ pc' = "amount"
          /\ \E unlocked \in [Amounts -> 0 .. MaxOuts] :
                /\ \A a \in Amounts : unlocked[a] <= outs[a]
                /\ histogram' = [a \in Amounts |->
                                   IF outs[a] < count THEN Missing
                                                      ELSE unlocked[a]]
       \/ pc' = "failed" /\ UNCHANGED histogram
    /\ UNCHANGED <<chainVars, offered, count, amounts, seen, trial_i, found,
                   closed>>

\* The next amount: its entry is looked up, and its search begins.
NextAmount ==
    /\ pc = "amount"
    /\ seen' = {} /\ trial_i' = 0
    /\ IF Len(found) = Len(amounts) THEN pc' = "found" /\ UNCHANGED found
       ELSE IF histogram[amounts[Len(found) + 1]] = Missing
       THEN pc' = "failed" /\ UNCHANGED found
       ELSE pc' = "draw" /\ found' = Append(found, <<>>)
    /\ UNCHANGED <<chainVars, offered, count, amounts, histogram, closed>>

Amount == amounts[Len(found)]

NumOuts == histogram[Amount]

\* Seeded fault: the index is not decremented.
RandomIndicesBeyond == 0 .. NumOuts

\* The product of a fraction below 1 and num_outs may be rounded up to it.
\* The decrement wraps if there are no outputs.
RandomIndices ==
    {IF i = NumOuts THEN (i - 1) % Word ELSE i : i \in 0 .. NumOuts}

TakeIndex(i) ==
    /\ pc' = "key" /\ seen' = seen \union {i}
    /\ found' = [found EXCEPT ![Len(found)] =
                   Append(@, [index |-> i, key |-> "uninitialised"])]

\* Seeded fault: an index that was seen is not a trial.
DrawUntilNew ==
    /\ pc = "draw"
    /\ IF Cardinality(seen) >= count
       THEN pc' = "amount" /\ UNCHANGED <<seen, trial_i, found>>
       ELSE \E i \in RandomIndices :
              IF i \in seen THEN UNCHANGED <<pc, seen, trial_i, found>>
              ELSE TakeIndex(i) /\ trial_i' = trial_i + 1
    /\ UNCHANGED <<chainVars, offered, count, amounts, histogram, closed>>

\* Seeded fault: the same index may be taken twice.
DrawAny ==
    /\ pc = "draw"
    /\ IF Len(found[Len(found)]) >= count
       THEN pc' = "amount" /\ UNCHANGED <<seen, found>>
       ELSE \E i \in RandomIndices : TakeIndex(i)
    /\ UNCHANGED <<chainVars, offered, count, amounts, histogram, closed,
                   trial_i>>

\* A round of the loop up to the lookup of the key.
Draw ==
    /\ pc = "draw"
    /\ \/ /\ Cardinality(seen) >= count
          /\ pc' = "amount" /\ UNCHANGED <<seen, trial_i, found>>
       \/ /\ Cardinality(seen) < count /\ trial_i > MaxTrials
          /\ pc' = "failed" /\ UNCHANGED <<seen, trial_i, found>>
       \/ /\ Cardinality(seen) < count /\ trial_i <= MaxTrials
          /\ trial_i' = trial_i + 1
          /\ \E i \in RandomIndices :
                IF i \in seen THEN UNCHANGED <<pc, seen, found>>
                              ELSE TakeIndex(i)
    /\ UNCHANGED <<chainVars, offered, count, amounts, histogram, closed>>

Last == found[Len(found)]

SetKey == found' = [found EXCEPT ![Len(found)][Len(Last)].key = "key"]

\* A key that cannot be read is logged, and the output is sent all the same.
LookUpKey ==
    /\ pc = "key"
    /\ pc' = "draw"
    /\ \/ Last[Len(Last)].index < outs[Amount] /\ SetKey /\ UNCHANGED troubles
       \/ Last[Len(Last)].index >= outs[Amount] /\ UNCHANGED <<found, troubles>>
       \/ Trouble /\ UNCHANGED found
    /\ UNCHANGED <<top, clock, outs, current_height, offered, count, amounts,
                   histogram, seen, trial_i, closed>>

\* Both ends of find_random_outputs are answered.
AnswerRandomOuts ==
    /\ pc \in {"found", "failed"}
    /\ pc' = IF pc = "found" THEN "sent" ELSE "done"
    /\ closed' = closed + 1
    /\ UNCHANGED <<chainVars, offered, count, amounts, histogram, seen,
                   trial_i, found>>

Finish ==
    /\ pc \in {"sent", "done"}
    /\ pc' = "free" /\ count' = 0 /\ amounts' = <<>>
    /\ histogram' = NoHistogram /\ seen' = {} /\ trial_i' = 0
    /\ found' = <<>> /\ closed' = 0
    /\ UNCHANGED <<chainVars, offered>>

RandomOuts ==
    \/ ParseAmounts \/ OutputHistogram \/ NextAmount \/ Draw \/ LookUpKey
    \/ AnswerRandomOuts \/ Finish

Next ==
    \/ \E a \in Amounts : MineBlock(a) \/ PopBlock(a)
    \/ Tick \/ UpdateCurrentHeight \/ GetUnspentOuts
    \/ \E n \in Counts, as \in Requests : GetRandomOuts(n, as)
    \/ RandomOuts

Spec == Init /\ [][Next]_vars

\* The handler and the monitor are threads of their own, and a wallet keeps
\* asking for its outputs.
FairSpec ==
    /\ Spec
    /\ WF_vars(RandomOuts) /\ WF_vars(UpdateCurrentHeight)
    /\ WF_vars(GetUnspentOuts)

-------------------------------------------------------------------------------
(***************************************************************************)
(* Properties                                                              *)
(***************************************************************************)
\* The rule of the network for the next block: the unlock time has come and
\* the output has its age.
Spendable(t) ==
    /\ Height[t] + SpendableAge <= top + 1
    /\ IF UnlockTime[t] < MaxBlockNumber
       THEN top + 1 >= UnlockTime[t]
       ELSE clock + Leeway(Height[t]) >= UnlockTime[t]

\* TxUnlockChecker does not look at the age, which matters if the unlock time
\* is not 0 and comes before the output has its age.
AgeImplied(t) ==
    \/ UnlockTime[t] = 0
    \/ UnlockTime[t] \in Height[t] + SpendableAge .. MaxBlockNumber - 1

\* An output that was offered can be spent in the next block, then and ever
\* after, although the height that decided it is a cached one.
OfferedIsSpendable ==
    troubles = 0 => \A t \in offered : AgeImplied(t) => Spendable(t)

\* An output that can be spent is offered in the end, to the block.
SpendableIsOffered == \A t \in Txs : <>[]Spendable(t) => <>[](t \in offered)

\* The decoys that are sent are as many as were asked for of each amount, all
\* different and below the number of outputs of the histogram; the wrapped
\* index of an amount without unlocked outputs gets through only alone.
DecoysDistinct ==
    pc = "sent" =>
        /\ Len(found) = Len(amounts)
        /\ \A k \in DOMAIN found :
              /\ Len(found[k]) = count
              /\ \A i, j \in DOMAIN found[k] :
                    i # j => found[k][i].index # found[k][j].index
              /\ \A i \in DOMAIN found[k] :
                    \/ found[k][i].index < histogram[amounts[k]]
                    \/ count = 1 /\ histogram[amounts[k]] = 0

\* Every decoy that is sent has its key, unless a block was popped between
\* the histogram and the lookup, a lookup failed, or no output is unlocked.
DecoysHaveKeys ==
    pc = "sent" /\ troubles = 0 =>
        \A k \in DOMAIN found, i \in 1 .. count :
            found[k][i].key = "key" \/ histogram[amounts[k]] = 0

\* Every search for decoys ends, also when there are fewer outputs than were
\* asked for, or none.
SearchEnds == []<>(pc = "free")

===============================================================================
