--------------------------- MODULE SpendingProofs ---------------------------
(***************************************************************************)
(* Theorems about Spending, for any outputs, any requests and any number   *)
(* of trials.                                                              *)
(***************************************************************************)
EXTENDS Spending, SequenceTheorems, FiniteSetTheorems, TLAPS

-------------------------------------------------------------------------------
(***************************************************************************)
(* The invariants                                                          *)
(***************************************************************************)
\* Without a popped block the cached height is a height that was reached.
HeightInv == top <= MaxTop /\ (troubles = 0 => current_height <= top)

\* The histogram counts outputs, and without a popped block they stay.
HistogramInv ==
    \A a \in Amounts :
        histogram[a] # Missing =>
            /\ histogram[a] <= MaxOuts
            /\ troubles = 0 => histogram[a] <= outs[a]

\* The outputs found for an amount with n unlocked outputs: no more than were
\* asked for, all different, and below n unless there are none.
Drawn(list, n) ==
    /\ n \in Nat /\ n <= MaxOuts /\ Len(list) <= count
    /\ \A i, j \in 1 .. Len(list) : list[i].index = list[j].index => i = j
    /\ \A i \in 1 .. Len(list) :
          list[i].index < n \/ (n = 0 /\ list[i].index = Word - 1)

\* The first m of them have their keys.
Keyed(list, n, m) ==
    troubles = 0 /\ n # 0 => \A i \in 1 .. m : list[i].key = "key"

\* A list that is complete.
Complete(list, n) == Drawn(list, n) /\ Len(list) = count /\ Keyed(list, n, Len(list))

\* The lists that are complete, and the one that grows.
ListsInv ==
    pc \in {"amount", "draw", "key", "found", "sent"} =>
        /\ Len(found) <= Len(amounts)
        /\ pc \in {"found", "sent"} => Len(found) = Len(amounts)
        /\ \A k \in 1 .. Len(found) :
              pc \in {"amount", "found", "sent"} \/ k # Len(found) =>
                  Complete(found[k], histogram[amounts[k]])
        /\ pc \in {"draw", "key"} => Drawn(Last, NumOuts)
        /\ pc = "draw" => Keyed(Last, NumOuts, Len(Last))
        /\ pc = "key" => Keyed(Last, NumOuts, Len(Last) - 1)

Indices(list) == {list[i].index : i \in 1 .. Len(list)}

\* The indices seen are those of the list that grows.
SeenInv ==
    /\ pc \in {"draw", "key"} =>
          /\ Len(found) >= 1
          /\ IsFiniteSet(seen) /\ Cardinality(seen) = Len(Last)
          /\ seen = Indices(Last)
    /\ pc = "key" => Len(Last) >= 1
    /\ pc \in {"free", "parse", "histogram"} => found = <<>>

IInv ==
    /\ TypeOK /\ HeightInv /\ OfferedIsSpendable /\ HistogramInv /\ ListsInv
    /\ SeenInv

-------------------------------------------------------------------------------
(***************************************************************************)
(* Lists of decoys                                                         *)
(***************************************************************************)
USE DEF chainVars, decoyVars

Decoy == [index : 0 .. Word - 1, key : Keys]

LEMMA FoundTyped ==
    ASSUME TypeOK
    PROVE  /\ Len(found) \in Nat /\ Len(amounts) \in Nat
           /\ \A k \in 1 .. Len(found) :
                 /\ found[k] \in Seq(Decoy) /\ Len(found[k]) \in Nat
                 /\ \A i \in 1 .. Len(found[k]) :
                       found[k][i] \in Decoy /\ found[k][i].index \in 0 .. Word - 1
           /\ \A k \in 1 .. Len(amounts) : amounts[k] \in Amounts
<1>1. found \in Seq(Seq(Decoy)) /\ amounts \in Seq(Amounts)
  BY DEF TypeOK, Decoy
<1>2. Len(found) \in Nat /\ Len(amounts) \in Nat
  BY <1>1, LenProperties
<1>3. \A k \in 1 .. Len(amounts) : amounts[k] \in Amounts
  BY <1>1, ElementOfSeq
<1>4. ASSUME NEW k \in 1 .. Len(found)
      PROVE  /\ found[k] \in Seq(Decoy) /\ Len(found[k]) \in Nat
             /\ \A i \in 1 .. Len(found[k]) :
                   found[k][i] \in Decoy /\ found[k][i].index \in 0 .. Word - 1
  <2>1. found[k] \in Seq(Decoy)
    BY <1>1, ElementOfSeq
  <2>2. Len(found[k]) \in Nat /\ \A i \in 1 .. Len(found[k]) : found[k][i] \in Decoy
    BY <2>1, LenProperties, ElementOfSeq
  <2>3. QED
    BY <2>1, <2>2 DEF Decoy
<1>5. QED
  BY <1>2, <1>3, <1>4

\* found_outputs once a decoy is put at the end of its last list.
LEMMA Taken ==
    ASSUME TypeOK, Len(found) >= 1, NEW i \in 0 .. Word - 1, TakeIndex(i)
    PROVE  /\ found' \in Seq(Seq(Decoy)) /\ Len(found') = Len(found)
           /\ \A k \in 1 .. Len(found) : k # Len(found) => found'[k] = found[k]
           /\ Len(found'[Len(found)]) = Len(Last) + 1
           /\ \A j \in 1 .. Len(Last) : found'[Len(found)][j] = Last[j]
           /\ found'[Len(found)][Len(Last) + 1].index = i
<1> DEFINE n == Len(found)
           d == [index |-> i, key |-> "uninitialised"]
           new == Append(Last, d)
<1>1. /\ found \in Seq(Seq(Decoy)) /\ n \in 1 .. Len(found) /\ Last \in Seq(Decoy)
      /\ n \in Nat
  BY FoundTyped DEF TypeOK, Decoy, Last
<1>2. d \in Decoy
  BY DEF Decoy, Keys
<1>3. /\ new \in Seq(Decoy) /\ Len(new) = Len(Last) + 1
      /\ \A j \in 1 .. Len(Last) : new[j] = Last[j]
      /\ new[Len(Last) + 1] = d
  BY <1>1, <1>2, AppendProperties
<1>4. found' = [found EXCEPT ![n] = new]
  BY DEF TakeIndex, Last
<1>5. d.index = i
  OBVIOUS
<1> HIDE DEF new, d
<1>6. /\ found' \in Seq(Seq(Decoy)) /\ Len(found') = Len(found) /\ found'[n] = new
      /\ \A k \in 1 .. Len(found) : k # n => found'[k] = found[k]
  BY <1>1, <1>3, <1>4, ExceptSeq
<1>7. QED
  BY <1>3, <1>5, <1>6

\* found_outputs once the key of its last decoy is read.
LEMMA KeyRead ==
    ASSUME TypeOK, Len(found) >= 1, Len(Last) >= 1, SetKey
    PROVE  /\ found' \in Seq(Seq(Decoy)) /\ Len(found') = Len(found)
           /\ \A k \in 1 .. Len(found) : k # Len(found) => found'[k] = found[k]
           /\ Len(found'[Len(found)]) = Len(Last)
           /\ \A j \in 1 .. Len(Last) :
                 /\ found'[Len(found)][j].index = Last[j].index
                 /\ j # Len(Last) => found'[Len(found)][j].key = Last[j].key
           /\ found'[Len(found)][Len(Last)].key = "key"
<1> DEFINE n == Len(found)
           m == Len(Last)
           d == [Last[m] EXCEPT !.key = "key"]
           new == [Last EXCEPT ![m] = d]
<1>1. /\ found \in Seq(Seq(Decoy)) /\ n \in 1 .. Len(found) /\ Last \in Seq(Decoy)
      /\ m \in 1 .. Len(Last) /\ Last[m] \in Decoy
  <2>1. found \in Seq(Seq(Decoy)) /\ n \in 1 .. Len(found)
    BY FoundTyped DEF TypeOK, Decoy
  <2>2. Last \in Seq(Decoy) /\ m \in Nat
    BY <2>1, FoundTyped DEF Last
  <2>3. m \in 1 .. Len(Last)
    BY <2>2
  <2>4. QED
    BY <2>1, <2>2, <2>3, ElementOfSeq
<1>2. d \in Decoy /\ d.index = Last[m].index /\ d.key = "key"
  BY <1>1 DEF Decoy, Keys
<1>3. found' = [found EXCEPT ![n] = new]
  BY <1>1 DEF SetKey, Last
<1> HIDE DEF d
<1>4. /\ new \in Seq(Decoy) /\ Len(new) = Len(Last) /\ new[m] = d
      /\ \A k \in 1 .. Len(Last) : k # m => new[k] = Last[k]
  BY <1>1, <1>2, ExceptSeq
<1> HIDE DEF new
<1>5. /\ found' \in Seq(Seq(Decoy)) /\ Len(found') = Len(found) /\ found'[n] = new
      /\ \A k \in 1 .. Len(found) : k # n => found'[k] = found[k]
  BY <1>1, <1>3, <1>4, ExceptSeq
<1>6. QED
  BY <1>2, <1>4, <1>5

\* An index that is drawn is below the number of unlocked outputs; the
\* decrement wraps if there are none.
LEMMA IndexDrawn ==
    ASSUME NumOuts \in Nat, NumOuts <= MaxOuts, NEW i \in RandomIndices
    PROVE  /\ i \in 0 .. Word - 1
           /\ i < NumOuts \/ (NumOuts = 0 /\ i = Word - 1)
<1>1. PICK n \in Nat : n = NumOuts
  OBVIOUS
<1>2. PICK j \in 0 .. n : i = IF j = n THEN (j - 1) % Word ELSE j
  BY <1>1 DEF RandomIndices
<1>3. Word \in Nat /\ Word > n + 1 /\ MaxOuts \in Nat
  BY <1>1, SpendingAssumption
<1>4. CASE n = 0
  <2>1. (0 - 1) % Word = Word - 1
    BY <1>3
  <2>2. QED
    BY <1>1, <1>2, <1>3, <1>4, <2>1
<1>5. CASE n # 0
  <2>1. (n - 1) % Word = n - 1
    BY <1>3, <1>5
  <2>2. QED
    BY <1>1, <1>2, <1>3, <1>5, <2>1
<1>6. QED
  BY <1>4, <1>5

-------------------------------------------------------------------------------
(***************************************************************************)
(* The chain, the histogram and get_unspent_outs                           *)
(***************************************************************************)
\* The steps of the chain, of the time, of the monitor and of the wallet.
Outside ==
    \/ \E a \in Amounts : MineBlock(a) \/ PopBlock(a)
    \/ Tick \/ UpdateCurrentHeight \/ GetUnspentOuts

\* Only the histogram, the draws and the lookups of one request are left.
LEMMA NextCases ==
    ASSUME [Next]_vars
    PROVE  \/ UNCHANGED vars \/ Outside
           \/ (\E n \in Counts, as \in Requests : GetRandomOuts(n, as))
           \/ ParseAmounts \/ OutputHistogram \/ NextAmount \/ Draw \/ LookUpKey
           \/ AnswerRandomOuts \/ Finish
BY DEF Next, Outside, RandomOuts

LEMMA OutsideLeaves ==
    ASSUME Outside
    PROVE  UNCHANGED decoyVars
BY DEF Outside, MineBlock, PopBlock, Tick, UpdateCurrentHeight, GetUnspentOuts

\* What a request for decoys can do to the chain: count a lookup that failed.
LEMMA ChainLeft ==
    ASSUME [Next]_vars, ~Outside
    PROVE  UNCHANGED <<top, clock, outs, current_height, offered>>
<1>1. CASE UNCHANGED vars
  BY <1>1 DEF vars
<1>2. CASE \/ (\E n \in Counts, as \in Requests : GetRandomOuts(n, as))
           \/ ParseAmounts \/ OutputHistogram \/ NextAmount \/ Draw \/ LookUpKey
           \/ AnswerRandomOuts \/ Finish
  BY <1>2 DEF GetRandomOuts, ParseAmounts, OutputHistogram, NextAmount, Draw,
              LookUpKey, AnswerRandomOuts, Finish
<1>3. QED
  BY <1>1, <1>2, NextCases

LEMMA TroublesGrow ==
    ASSUME TypeOK, [Next]_vars
    PROVE  /\ troubles \in Nat /\ troubles' \in Nat /\ troubles <= troubles'
           /\ (\E a \in Amounts : PopBlock(a)) => troubles' # 0
<1>1. troubles \in Nat
  BY DEF TypeOK
<1>2. ASSUME Trouble PROVE troubles' = troubles + 1
  BY <1>2 DEF Trouble
<1>3. CASE \E a \in Amounts : PopBlock(a)
  BY <1>1, <1>2, <1>3 DEF PopBlock
<1>4. CASE UNCHANGED troubles
  BY <1>1, <1>3, <1>4
<1>5. CASE LookUpKey
  BY <1>1, <1>2, <1>3, <1>4, <1>5 DEF LookUpKey
<1>6. CASE \/ (\E a \in Amounts : MineBlock(a)) \/ Tick \/ UpdateCurrentHeight
           \/ GetUnspentOuts \/ UNCHANGED vars
  BY <1>4, <1>6 DEF MineBlock, Tick, UpdateCurrentHeight, GetUnspentOuts, vars
<1>7. CASE \/ (\E n \in Counts, as \in Requests : GetRandomOuts(n, as))
           \/ ParseAmounts \/ OutputHistogram \/ NextAmount \/ Draw
           \/ AnswerRandomOuts \/ Finish
  BY <1>4, <1>7 DEF GetRandomOuts, ParseAmounts, OutputHistogram, NextAmount, Draw,
                    AnswerRandomOuts, Finish
<1>8. QED
  BY <1>3, <1>5, <1>6, <1>7, NextCases DEF Outside

\* TypeOK, part by part.
Numbers ==
    /\ top \in Nat /\ clock \in Nat /\ current_height \in Nat /\ troubles \in Nat
    /\ trial_i \in Nat /\ closed \in Nat /\ count \in Nat

Parts ==
    /\ Numbers
    /\ outs \in [Amounts -> Nat] /\ offered \subseteq Txs
    /\ pc \in {"free", "parse", "histogram", "amount", "draw", "key", "found",
               "failed", "sent", "done"}
    /\ amounts \in Seq(Amounts)
    /\ histogram \in [Amounts -> Nat \union {Missing}]
    /\ seen \subseteq 0 .. Word - 1
    /\ found \in Seq(Seq(Decoy))

LEMMA TypeParts == (TypeOK <=> Parts) /\ (TypeOK' <=> Parts')
BY DEF TypeOK, Numbers, Decoy, Parts

\* The number of unlocked outputs of the amount at hand.
LEMMA NumOutsTyped ==
    ASSUME TypeOK, ListsInv, SeenInv, pc \in {"draw", "key"}
    PROVE  /\ Len(found) \in 1 .. Len(amounts) /\ Len(found) \in Nat
           /\ Len(found) \in 1 .. Len(found)
           /\ Amount \in Amounts /\ NumOuts \in Nat /\ NumOuts <= MaxOuts
           /\ NumOuts = histogram[amounts[Len(found)]] /\ Drawn(Last, NumOuts)
           /\ Last \in Seq(Decoy) /\ Len(Last) \in Nat
<1>1. /\ Len(found) \in Nat /\ Len(amounts) \in Nat /\ Len(found) >= 1
      /\ Len(found) <= Len(amounts)
  BY FoundTyped DEF ListsInv, SeenInv
<1>2. Len(found) \in 1 .. Len(amounts) /\ Len(found) \in 1 .. Len(found)
  BY <1>1
<1>3. Drawn(Last, NumOuts)
  BY <1>2 DEF ListsInv, Last, NumOuts, Amount
<1>4. QED
  BY <1>1, <1>2, <1>3, FoundTyped DEF Drawn, Last, NumOuts, Amount

LEMMA TypesKept ==
    ASSUME TypeOK, HeightInv, HistogramInv, ListsInv, SeenInv, [Next]_vars
    PROVE  TypeOK'
<1> SUFFICES Parts'
  BY TypeParts
<1>1. Parts
  BY TypeParts
<1>2. troubles' \in Nat
  BY TroublesGrow
<1>3. CASE UNCHANGED vars
  BY <1>1, <1>3 DEF vars, Numbers, Parts
<1>4. CASE Outside
  <2>1. outs' \in [Amounts -> Nat]
    <3>1. ASSUME NEW a \in Amounts, MineBlock(a) \/ PopBlock(a)
          PROVE  outs' \in [Amounts -> Nat]
      <4>1. outs[a] \in Nat
        BY <1>1 DEF Parts
      <4>2. outs' = [outs EXCEPT ![a] = outs[a] + 1]
            \/ (outs' = [outs EXCEPT ![a] = outs[a] - 1] /\ outs[a] > 0)
        BY <3>1 DEF MineBlock, PopBlock
      <4>3. QED
        BY <1>1, <4>1, <4>2 DEF Parts
    <3>2. QED
      BY <1>1, <1>4, <3>1 DEF Outside, Tick, UpdateCurrentHeight, GetUnspentOuts, Parts
  <2>2. top' \in Nat
    BY <1>1, <1>4 DEF Outside, MineBlock, PopBlock, Tick, UpdateCurrentHeight,
                      GetUnspentOuts, Numbers, Parts
  <2>3. clock' \in Nat /\ current_height' \in Nat
    BY <1>1, <1>4 DEF Outside, MineBlock, PopBlock, Tick, UpdateCurrentHeight,
                      GetUnspentOuts, Numbers, Parts
  <2>4. offered' \subseteq Txs
    BY <1>1, <1>4 DEF Outside, MineBlock, PopBlock, Tick, UpdateCurrentHeight,
                      GetUnspentOuts, Numbers, Parts
  <2>5. QED
    BY <1>1, <1>2, <1>4, <2>1, <2>2, <2>3, <2>4, OutsideLeaves DEF Numbers, Parts
<1>5. CASE ~Outside
  <2>1. UNCHANGED <<top, clock, outs, current_height, offered>>
    BY <1>5, ChainLeft
  <2>2. ASSUME NEW n \in Counts, NEW as \in Requests, GetRandomOuts(n, as)
        PROVE  Parts'
    <3>1. n \in Nat /\ as \in Seq(Amounts)
      BY SpendingAssumption
    <3>2. QED
      BY <1>1, <1>2, <2>1, <2>2, <3>1 DEF GetRandomOuts, Numbers, Parts
  <2>3. CASE ParseAmounts \/ AnswerRandomOuts
    <3>1. /\ closed' \in Nat /\ pc' \in {"histogram", "done", "sent"}
          /\ UNCHANGED <<count, amounts, histogram, seen, trial_i, found>>
      BY <1>1, <2>3 DEF ParseAmounts, AnswerRandomOuts, Numbers, Parts
    <3>2. QED
      BY <1>1, <1>2, <2>1, <3>1 DEF Numbers, Parts
  <2>4. CASE OutputHistogram
    <3>1. histogram' \in [Amounts -> Nat \union {Missing}]
      <4>1. CASE UNCHANGED histogram
        BY <1>1, <4>1 DEF Parts
      <4>2. CASE \E u \in [Amounts -> 0 .. MaxOuts] :
                   histogram' = [a \in Amounts |->
                                   IF outs[a] < count THEN Missing ELSE u[a]]
        BY <4>2, SpendingAssumption
      <4>3. QED
        BY <2>4, <4>1, <4>2 DEF OutputHistogram
    <3>2. QED
      BY <1>1, <1>2, <2>1, <2>4, <3>1 DEF OutputHistogram, Numbers, Parts
  <2>5. CASE NextAmount
    <3>1. <<>> \in Seq(Decoy)
      BY EmptySeq
    <3>2. found' \in Seq(Seq(Decoy))
      <4>1. found \in Seq(Seq(Decoy))
        BY <1>1 DEF Parts
      <4>2. Append(found, <<>>) \in Seq(Seq(Decoy))
        BY <3>1, <4>1, AppendProperties
      <4>3. UNCHANGED found \/ found' = Append(found, <<>>)
        BY <2>5 DEF NextAmount
      <4>4. QED
        BY <4>1, <4>2, <4>3
    <3>3. QED
      BY <1>1, <1>2, <2>1, <2>5, <3>2 DEF NextAmount, Numbers, Parts
  <2>6. CASE Draw
    <3>1. /\ pc = "draw" /\ UNCHANGED <<count, amounts, histogram, closed>>
          /\ trial_i' \in Nat
      BY <1>1, <2>6 DEF Draw, Numbers, Parts
    <3>2. CASE UNCHANGED <<seen, found>> /\ pc' \in {"amount", "failed", "draw"}
      BY <1>1, <1>2, <2>1, <3>1, <3>2 DEF Numbers, Parts
    <3>3. ASSUME NEW i \in RandomIndices, TakeIndex(i) PROVE Parts'
      <4>1. i \in 0 .. Word - 1 /\ Len(found) >= 1
        BY <3>1, IndexDrawn, NumOutsTyped
      <4>2. found' \in Seq(Seq(Decoy))
        BY <3>3, <4>1, Taken
      <4>3. pc' = "key" /\ seen' \subseteq 0 .. Word - 1
        BY <1>1, <3>3, <4>1 DEF TakeIndex, Parts
      <4>4. QED
        BY <1>1, <1>2, <2>1, <3>1, <4>2, <4>3 DEF Numbers, Parts
    <3>4. QED
      BY <2>6, <3>1, <3>2, <3>3 DEF Draw
  <2>7. CASE LookUpKey
    <3>1. found' \in Seq(Seq(Decoy))
      <4>1. CASE SetKey
        BY <2>7, <4>1, KeyRead DEF LookUpKey, SeenInv
      <4>2. QED
        BY <1>1, <2>7, <4>1 DEF LookUpKey, Parts
    <3>2. QED
      BY <1>1, <1>2, <2>1, <2>7, <3>1 DEF LookUpKey, Numbers, Parts
  <2>8. CASE Finish
    <3>1. found' = <<>> /\ amounts' = <<>>
      BY <2>8 DEF Finish
    <3>2. found' \in Seq(Seq(Decoy)) /\ amounts' \in Seq(Amounts)
      BY <3>1, EmptySeq
    <3>3. QED
      BY <1>1, <1>2, <2>1, <2>8, <3>2 DEF Finish, NoHistogram, Numbers, Parts
  <2>9. QED
    BY <1>3, <1>5, <2>2, <2>3, <2>4, <2>5, <2>6, <2>7, <2>8, NextCases
<1>6. QED
  BY <1>4, <1>5

LEMMA HeightKept ==
    ASSUME TypeOK, HeightInv, [Next]_vars
    PROVE  HeightInv'
<1>1. Numbers /\ troubles' \in Nat /\ troubles <= troubles'
  BY TypeParts, TroublesGrow DEF Parts
<1>2. MaxTop \in Nat
  BY SpendingAssumption
<1>3. ASSUME NEW a \in Amounts, PopBlock(a) PROVE HeightInv'
  <2>1. troubles' # 0
    BY <1>3, TroublesGrow
  <2>2. top' = top - 1
    BY <1>3 DEF PopBlock
  <2>3. QED
    BY <1>1, <1>2, <2>1, <2>2 DEF HeightInv, Numbers
<1>4. ASSUME NEW a \in Amounts, MineBlock(a) PROVE HeightInv'
  BY <1>1, <1>2, <1>4 DEF HeightInv, MineBlock, Numbers
<1>5. CASE Tick \/ UpdateCurrentHeight \/ GetUnspentOuts
  BY <1>1, <1>2, <1>5 DEF HeightInv, Tick, UpdateCurrentHeight, GetUnspentOuts, Numbers
<1>6. CASE ~Outside
  <2>1. UNCHANGED <<top, current_height>>
    BY <1>6, ChainLeft
  <2>2. QED
    BY <1>1, <2>1 DEF HeightInv, Numbers
<1>7. QED
  BY <1>3, <1>4, <1>5, <1>6 DEF Outside

\* The rule of TxUnlockChecker at the cached height implies the network's rule
\* at the real one, for an output whose unlock time covers its age.
LEMMA UnlockedIsSpendable ==
    ASSUME TypeOK, HeightInv, troubles = 0, NEW t \in Txs, AgeImplied(t),
           Height[t] <= current_height, IsUnlocked(StoredUnlockTime(t), Height[t])
    PROVE  Spendable(t)
<1>1. /\ top \in Nat /\ current_height \in Nat /\ clock \in Nat
      /\ current_height <= top /\ top <= MaxTop
  BY TypeParts DEF Parts, Numbers, HeightInv
<1>2. /\ Height[t] \in Nat /\ UnlockTime[t] \in Nat /\ SpendableAge \in Nat
      /\ MaxTop \in Nat /\ MaxBlockNumber \in Nat
      /\ MaxTop + SpendableAge < MaxBlockNumber
  BY SpendingAssumption
<1>3. CASE UnlockTime[t] = 0
  <2>1. Height[t] + SpendableAge < MaxBlockNumber
    BY <1>1, <1>2
  <2>2. current_height + 1 >= Height[t] + SpendableAge
    BY <1>2, <1>3, <2>1 DEF IsUnlocked, StoredUnlockTime
  <2>3. QED
    BY <1>1, <1>2, <1>3, <2>2 DEF Spendable
<1>4. CASE UnlockTime[t] # 0
  <2>1. UnlockTime[t] >= Height[t] + SpendableAge /\ UnlockTime[t] < MaxBlockNumber
    BY <1>2, <1>4 DEF AgeImplied
  <2>2. current_height + 1 >= UnlockTime[t]
    BY <1>2, <1>4, <2>1 DEF IsUnlocked, StoredUnlockTime
  <2>3. QED
    BY <1>1, <1>2, <2>1, <2>2 DEF Spendable
<1>5. QED
  BY <1>3, <1>4

\* An output that can be spent stays one while the chain only grows.
LEMMA StaysSpendable ==
    ASSUME TypeOK, HeightInv, NEW t \in Txs, AgeImplied(t), Spendable(t),
           top' \in Nat, top <= top'
    PROVE  Spendable(t)'
<1>1. /\ Height[t] \in Nat /\ UnlockTime[t] \in Nat /\ SpendableAge \in Nat
      /\ MaxTop \in Nat /\ MaxBlockNumber \in Nat
      /\ MaxTop + SpendableAge < MaxBlockNumber /\ top \in Nat
  BY SpendingAssumption, TypeParts DEF Parts, Numbers
<1>2. UnlockTime[t] < MaxBlockNumber
  BY <1>1 DEF AgeImplied
<1>3. QED
  BY <1>1, <1>2 DEF Spendable

LEMMA OfferedKept ==
    ASSUME TypeOK, HeightInv, OfferedIsSpendable, [Next]_vars
    PROVE  OfferedIsSpendable'
<1> SUFFICES ASSUME troubles' = 0, NEW t \in offered', AgeImplied(t)
             PROVE  Spendable(t)'
  BY DEF OfferedIsSpendable, AgeImplied
<1>1. /\ Numbers /\ offered \subseteq Txs /\ troubles = 0
      /\ \A a \in Amounts : ~PopBlock(a)
  <2>1. Numbers /\ offered \subseteq Txs
    BY TypeParts DEF Parts
  <2>2. QED
    BY <2>1, TroublesGrow DEF Numbers
<1>2. CASE GetUnspentOuts
  <2>1. /\ t \in Txs /\ Height[t] <= current_height
        /\ IsUnlocked(StoredUnlockTime(t), Height[t]) /\ UNCHANGED <<top, clock>>
    BY <1>2 DEF GetUnspentOuts
  <2>2. Spendable(t)
    BY <1>1, <2>1, UnlockedIsSpendable
  <2>3. QED
    BY <2>1, <2>2 DEF Spendable, Leeway
<1>3. CASE ~GetUnspentOuts
  <2>1. UNCHANGED offered /\ top' \in Nat /\ top <= top'
    <3>1. CASE ~Outside
      BY <1>1, <3>1, ChainLeft DEF Numbers
    <3>2. CASE Outside
      BY <1>1, <1>3, <3>2 DEF Outside, MineBlock, Tick, UpdateCurrentHeight, Numbers
    <3>3. QED
      BY <3>1, <3>2
  <2>2. t \in Txs /\ Spendable(t)
    BY <1>1, <2>1 DEF OfferedIsSpendable
  <2>3. QED
    BY <2>1, <2>2, StaysSpendable
<1>4. QED
  BY <1>2, <1>3

LEMMA HistogramKept ==
    ASSUME TypeOK, HistogramInv, [Next]_vars
    PROVE  HistogramInv'
<1>1. /\ Parts /\ troubles' \in Nat /\ troubles <= troubles' /\ MaxOuts \in Nat
  BY TypeParts, TroublesGrow, SpendingAssumption
<1>2. SUFFICES ASSUME NEW a \in Amounts, histogram'[a] # Missing
               PROVE  /\ histogram'[a] <= MaxOuts
                      /\ troubles' = 0 => histogram'[a] <= outs'[a]
  BY DEF HistogramInv
<1>3. CASE Outside
  <2>1. UNCHANGED histogram
    BY <1>3, OutsideLeaves
  <2>2. histogram[a] \in Nat /\ outs[a] \in Nat
    BY <1>1, <1>2, <2>1 DEF Parts
  <2>3. troubles' = 0 => outs'[a] \in Nat /\ outs[a] <= outs'[a]
    <3>1. ASSUME troubles' = 0 PROVE \A b \in Amounts : ~PopBlock(b)
      BY <3>1, TroublesGrow
    <3>2. ASSUME NEW b \in Amounts, MineBlock(b) PROVE outs'[a] \in Nat /\ outs[a] <= outs'[a]
      BY <1>1, <2>2, <3>2 DEF MineBlock, Parts
    <3>3. QED
      BY <1>3, <2>2, <3>1, <3>2 DEF Outside, Tick, UpdateCurrentHeight, GetUnspentOuts
  <2>4. QED
    BY <1>1, <1>2, <2>1, <2>2, <2>3 DEF HistogramInv, Parts, Numbers
<1>4. CASE ~Outside
  <2>1. UNCHANGED outs
    BY <1>4, ChainLeft
  <2>2. CASE UNCHANGED histogram
    BY <1>1, <1>2, <2>1, <2>2 DEF HistogramInv, Parts, Numbers
  <2>3. ASSUME NEW u \in [Amounts -> 0 .. MaxOuts],
               \A b \in Amounts : u[b] <= outs[b],
               histogram' = [b \in Amounts |->
                               IF outs[b] < count THEN Missing ELSE u[b]]
        PROVE  /\ histogram'[a] <= MaxOuts
               /\ troubles' = 0 => histogram'[a] <= outs'[a]
    <3>1. histogram'[a] = u[a]
      BY <1>2, <2>3
    <3>2. QED
      BY <1>1, <2>1, <2>3, <3>1
  <2>4. CASE Finish
    BY <1>2, <2>4 DEF Finish, NoHistogram
  <2>5. CASE OutputHistogram
    BY <2>2, <2>3, <2>5 DEF OutputHistogram
  <2>6. QED
    <3>1. CASE UNCHANGED vars
      BY <2>2, <3>1 DEF vars
    <3>2. CASE \/ (\E n \in Counts, as \in Requests : GetRandomOuts(n, as))
               \/ ParseAmounts \/ NextAmount \/ Draw \/ LookUpKey \/ AnswerRandomOuts
      BY <2>2, <3>2 DEF GetRandomOuts, ParseAmounts, NextAmount, Draw, LookUpKey,
                        AnswerRandomOuts
    <3>3. QED
      BY <1>4, <2>4, <2>5, <3>1, <3>2, NextCases
<1>5. QED
  BY <1>3, <1>4

-------------------------------------------------------------------------------
(***************************************************************************)
(* get_random_outs                                                         *)
(***************************************************************************)
\* A list that is left alone stays as good as it was.
LEMMA ListStays ==
    ASSUME TypeOK, [Next]_vars, UNCHANGED count, NEW l, NEW n
    PROVE  /\ Drawn(l, n) => Drawn(l, n)'
           /\ \A m : Keyed(l, n, m) => Keyed(l, n, m)'
           /\ Complete(l, n) => Complete(l, n)'
<1>1. troubles' = 0 => troubles = 0
  BY TroublesGrow
<1>2. QED
  BY <1>1 DEF Drawn, Keyed, Complete

LEMMA OldLists ==
    ASSUME TypeOK, [Next]_vars, UNCHANGED <<count, amounts, histogram>>, NEW k,
           found'[k] = found[k], Complete(found[k], histogram[amounts[k]])
    PROVE  Complete(found[k], histogram[amounts[k]])'
<1>1. PICK l, n : l = found[k] /\ n = histogram[amounts[k]]
  OBVIOUS
<1>2. Complete(l, n)'
  BY <1>1, ListStays
<1>3. l = found'[k] /\ n = histogram'[amounts'[k]]
  BY <1>1
<1>4. QED
  BY <1>2, <1>3 DEF Complete, Drawn, Keyed

\* A request whose lists do not move.
LEMMA ListsLeft ==
    ASSUME TypeOK, ListsInv, [Next]_vars,
           UNCHANGED <<count, amounts, histogram, found>>,
           UNCHANGED pc \/ (pc = "found" /\ pc' = "sent")
    PROVE  ListsInv'
<1> SUFFICES ASSUME pc' \in {"amount", "draw", "key", "found", "sent"}
             PROVE  ListsInv'
  BY DEF ListsInv
<1>1. pc \in {"amount", "draw", "key", "found", "sent"}
  OBVIOUS
<1>2. ASSUME NEW k \in 1 .. Len(found'),
             pc' \in {"amount", "found", "sent"} \/ k # Len(found')
      PROVE  Complete(found[k], histogram[amounts[k]])'
  <2>1. Complete(found[k], histogram[amounts[k]])
    BY <1>1, <1>2 DEF ListsInv
  <2>2. QED
    BY <2>1, OldLists
<1>3. PICK l, n, m : l = Last /\ n = NumOuts /\ m = Len(Last)
  OBVIOUS
<1>4. Last' = l /\ NumOuts' = n /\ Len(Last)' = m
  BY <1>3 DEF Last, NumOuts, Amount
<1>5. pc' \in {"draw", "key"} => Drawn(Last, NumOuts)'
  <2>1. pc' \in {"draw", "key"} => Drawn(l, n)'
    BY <1>1, <1>3, ListStays DEF ListsInv
  <2>2. QED
    BY <1>4, <2>1 DEF Drawn
<1>6. pc' = "draw" => Keyed(Last, NumOuts, Len(Last))'
  <2>1. pc' = "draw" => Keyed(l, n, m)'
    BY <1>1, <1>3, ListStays DEF ListsInv
  <2>2. QED
    BY <1>4, <2>1 DEF Keyed
<1>7. pc' = "key" => Keyed(Last, NumOuts, Len(Last) - 1)'
  <2>1. pc' = "key" => Keyed(l, n, m - 1)'
    BY <1>1, <1>3, ListStays DEF ListsInv
  <2>2. QED
    BY <1>4, <2>1 DEF Keyed
<1>8. QED
  BY <1>1, <1>2, <1>5, <1>6, <1>7 DEF ListsInv

LEMMA EmptyList ==
    ASSUME NEW n \in Nat, n <= MaxOuts, count' \in Nat
    PROVE  Drawn(<<>>, n)' /\ Keyed(<<>>, n, Len(<<>>))'
<1>1. Len(<<>>) = 0
  BY EmptySeq
<1>2. QED
  BY <1>1 DEF Drawn, Keyed

\* The search for the next amount begins, or all are found.
LEMMA NextAmountLists ==
    ASSUME TypeOK, HistogramInv, ListsInv, NextAmount, [Next]_vars
    PROVE  ListsInv' /\ SeenInv'
<1>1. /\ Len(found) \in Nat /\ Len(amounts) \in Nat /\ pc = "amount"
      /\ UNCHANGED <<count, amounts, histogram>> /\ seen' = {}
      /\ Len(found) <= Len(amounts) /\ found \in Seq(Seq(Decoy)) /\ count' \in Nat
  BY FoundTyped, TypeParts DEF NextAmount, ListsInv, Parts, Numbers
<1>2. \A k \in 1 .. Len(found) : Complete(found[k], histogram[amounts[k]])
  BY <1>1 DEF ListsInv
<1>3. CASE pc' = "found" /\ UNCHANGED found /\ Len(found) = Len(amounts)
  <2>1. \A k \in 1 .. Len(found) : Complete(found[k], histogram[amounts[k]])'
    BY <1>1, <1>2, <1>3, OldLists
  <2>2. QED
    BY <1>1, <1>3, <2>1 DEF ListsInv, SeenInv
<1>4. CASE pc' = "failed"
  BY <1>4 DEF ListsInv, SeenInv
<1>5. CASE /\ pc' = "draw" /\ found' = Append(found, <<>>)
           /\ Len(found) # Len(amounts)
           /\ histogram[amounts[Len(found) + 1]] # Missing
  <2>1. /\ Len(found') = Len(found) + 1 /\ found'[Len(found) + 1] = <<>>
        /\ \A k \in 1 .. Len(found) : found'[k] = found[k]
    <3>1. <<>> \in Seq(Decoy)
      BY EmptySeq
    <3>2. QED
      BY <1>1, <1>5, <3>1, AppendProperties
  <2>2. Len(found') <= Len(amounts') /\ Len(found') - 1 = Len(found)
    BY <1>1, <1>5, <2>1
  <2>3. \A k \in 1 .. Len(found') :
           k # Len(found') => Complete(found[k], histogram[amounts[k]])'
    BY <1>1, <1>2, <2>1, OldLists
  <2>4. amounts[Len(found) + 1] \in Amounts
    BY <1>1, <1>5, FoundTyped
  <2>5. PICK n \in Nat : n = histogram[amounts[Len(found) + 1]] /\ n <= MaxOuts
    BY <1>5, <2>4, TypeParts DEF Parts, HistogramInv
  <2>6. Last' = <<>> /\ NumOuts' = n /\ Len(Last)' = 0
    <3>1. Last' = <<>> /\ NumOuts' = n
      BY <1>1, <2>1, <2>5 DEF Last, NumOuts, Amount
    <3>2. QED
      BY <3>1, EmptySeq
  <2>7. Drawn(Last, NumOuts)' /\ Keyed(Last, NumOuts, Len(Last))'
    BY <1>1, <2>5, <2>6, EmptyList DEF Drawn, Keyed
  <2>8. ListsInv'
    BY <1>5, <2>2, <2>3, <2>7 DEF ListsInv
  <2>9. SeenInv'
    <3>1. IsFiniteSet({}) /\ Cardinality({}) = 0
      BY FS_EmptySet
    <3>2. Indices(Last)' = {}
      BY <2>6 DEF Indices
    <3>3. QED
      BY <1>1, <1>5, <2>1, <2>6, <3>1, <3>2 DEF SeenInv
  <2>10. QED
    BY <2>8, <2>9
<1>6. QED
  BY <1>3, <1>4, <1>5 DEF NextAmount

\* The state of the list that grows, in the words of the two lemmas below.
LEMMA Growing ==
    ASSUME TypeOK, ListsInv, SeenInv, pc \in {"draw", "key"}
    PROVE  /\ Len(found) \in Nat /\ Len(found) >= 1 /\ Len(found) <= Len(amounts)
           /\ Len(Last) \in Nat /\ \A j \in 1 .. Len(Last) : Last[j].index \in 0 .. Word - 1
           /\ \A k \in 1 .. Len(found) :
                 k # Len(found) => Complete(found[k], histogram[amounts[k]])
           /\ Drawn(Last, NumOuts) /\ NumOuts = histogram[amounts[Len(found)]]
           /\ IsFiniteSet(seen) /\ Cardinality(seen) = Len(Last)
           /\ seen = Indices(Last)
           /\ count \in Nat
<1>1. /\ Len(found) \in Nat /\ Len(found) \in 1 .. Len(found)
      /\ Len(found) >= 1 /\ Len(found) <= Len(amounts)
      /\ Len(Last) \in Nat /\ Drawn(Last, NumOuts)
      /\ NumOuts = histogram[amounts[Len(found)]]
  BY NumOutsTyped DEF ListsInv, SeenInv
<1>2. \A j \in 1 .. Len(Last) : Last[j].index \in 0 .. Word - 1
  BY <1>1, FoundTyped DEF Last
<1>3. QED
  BY <1>1, <1>2, TypeParts DEF ListsInv, SeenInv, Parts, Numbers

\* A new index joins the list.
LEMMA TakeLists ==
    ASSUME TypeOK, ListsInv, SeenInv, [Next]_vars, pc = "draw",
           NEW i \in RandomIndices, i \notin seen, TakeIndex(i),
           Cardinality(seen) < count,
           UNCHANGED <<troubles, count, amounts, histogram>>
    PROVE  ListsInv' /\ SeenInv'
<1>0. PICK l : l = Last
  OBVIOUS
<1>1. PICK n \in Nat, m \in Nat, c \in Nat :
         /\ n = Len(found) /\ m = Len(Last) /\ l = Last /\ c = NumOuts /\ c <= MaxOuts
  BY <1>0, Growing DEF Drawn
<1>2. /\ n >= 1 /\ n <= Len(amounts)
      /\ \A k \in 1 .. n : k # n => Complete(found[k], histogram[amounts[k]])
      /\ Drawn(l, c) /\ c = histogram[amounts[n]] /\ count \in Nat
      /\ IsFiniteSet(seen) /\ Cardinality(seen) = m /\ m = Len(l)
      /\ seen = Indices(l)
  BY <1>1, Growing
<1>3. i \in 0 .. Word - 1 /\ (i < c \/ (c = 0 /\ i = Word - 1))
  BY <1>1, IndexDrawn
<1>4. /\ Len(found') = n /\ Len(found'[n]) = m + 1
      /\ \A k \in 1 .. n : k # n => found'[k] = found[k]
      /\ \A j \in 1 .. m : found'[n][j] = l[j]
      /\ found'[n][m + 1].index = i
  BY <1>1, <1>2, <1>3, Taken
<1>5. PICK w : w = found'[n]
  OBVIOUS
<1>6. /\ Last' = w /\ NumOuts' = c /\ Len(Last)' = m + 1 /\ pc' = "key"
      /\ seen' = seen \union {i}
  BY <1>2, <1>4, <1>5 DEF Last, NumOuts, Amount, TakeIndex
<1>7. Len(w) = m + 1 /\ w[m + 1].index = i /\ \A j \in 1 .. m : w[j] = l[j]
  BY <1>4, <1>5
<1>8. \A j \in 1 .. m : l[j].index # i
  BY <1>2 DEF Indices
<1>9. Drawn(w, c)' /\ Indices(w) = Indices(l) \union {i}
  <2>1. PICK q \in Nat : q = count' /\ m < q
    BY <1>2
  <2>2. /\ m + 1 <= q /\ m + 1 \in 1 .. m + 1
        /\ \A j \in 1 .. m : j \in 1 .. m + 1
        /\ \A j \in 1 .. m + 1 : j = m + 1 \/ j \in 1 .. m
    BY <2>1
  <2>3. /\ \A j, k \in 1 .. m : l[j].index = l[k].index => j = k
        /\ \A j \in 1 .. m : l[j].index < c \/ (c = 0 /\ l[j].index = Word - 1)
    BY <1>2 DEF Drawn
  <2>4. \A j, k \in 1 .. m + 1 : w[j].index = w[k].index => j = k
    BY <1>7, <1>8, <2>2, <2>3, Zenon
  <2>5. \A j \in 1 .. m + 1 : w[j].index < c \/ (c = 0 /\ w[j].index = Word - 1)
    BY <1>3, <1>7, <2>2, <2>3, Zenon
  <2>6. \A x \in Indices(w) : x \in Indices(l) \union {i}
    BY <1>2, <1>7, <2>2 DEF Indices
  <2>7. \A x \in Indices(l) \union {i} : x \in Indices(w)
    BY <1>2, <1>7, <2>2 DEF Indices
  <2>8. Drawn(w, c)'
    BY <1>1, <1>7, <2>1, <2>2, <2>4, <2>5 DEF Drawn
  <2>9. QED
    BY <2>6, <2>7, <2>8
<1>10. Keyed(w, c, m)'
  <2>1. Keyed(l, c, m)
    BY <1>1 DEF ListsInv
  <2>2. QED
    BY <1>7, <2>1 DEF Keyed
<1>11. \A k \in 1 .. n : k # n => Complete(found[k], histogram[amounts[k]])'
  BY <1>2, <1>4, OldLists
<1>12. ListsInv'
  <2>1. (m + 1) - 1 = m
    OBVIOUS
  <2>2. Drawn(Last, NumOuts)' /\ Keyed(Last, NumOuts, Len(Last) - 1)'
    BY <1>6, <1>9, <1>10, <2>1 DEF Drawn, Keyed
  <2>3. QED
    BY <1>2, <1>4, <1>6, <1>11, <2>2 DEF ListsInv
<1>13. SeenInv'
  <2>1. IsFiniteSet(seen') /\ Cardinality(seen') = m + 1
    <3>1. i \notin seen /\ IsFiniteSet(seen)
      BY <1>2
    <3>2. /\ IsFiniteSet(seen \union {i})
          /\ Cardinality(seen \union {i}) = Cardinality(seen) + 1
      BY <3>1, FS_AddElement
    <3>3. QED
      BY <1>2, <1>6, <3>2
  <2>2. seen' = Indices(Last)'
    BY <1>2, <1>6, <1>9
  <2>3. m + 1 >= 1
    OBVIOUS
  <2>4. QED
    BY <1>2, <1>4, <1>6, <2>1, <2>2, <2>3 DEF SeenInv
<1>14. QED
  BY <1>12, <1>13

LEMMA DrawLists ==
    ASSUME TypeOK, ListsInv, SeenInv, Draw, [Next]_vars
    PROVE  ListsInv' /\ SeenInv'
<1>1. /\ pc = "draw" /\ UNCHANGED <<troubles, count, amounts, histogram>>
  BY DEF Draw
<1>2. CASE Cardinality(seen) >= count /\ pc' = "amount" /\ UNCHANGED <<seen, found>>
  <2>1. ASSUME NEW k \in 1 .. Len(found) PROVE Complete(found[k], histogram[amounts[k]])
    <3>1. CASE k # Len(found)
      BY <1>1, <3>1, Growing
    <3>2. CASE k = Len(found)
      <4>1. Len(Last) = count
        BY <1>1, <1>2, Growing DEF Drawn
      <4>2. Complete(Last, NumOuts)
        BY <1>1, <4>1, Growing DEF Complete, ListsInv
      <4>3. QED
        BY <1>1, <3>2, <4>2, Growing DEF Last
    <3>3. QED
      BY <3>1, <3>2
  <2>2. \A k \in 1 .. Len(found') : Complete(found[k], histogram[amounts[k]])'
    BY <1>1, <1>2, <2>1, OldLists
  <2>3. QED
    BY <1>1, <1>2, <2>2 DEF ListsInv, SeenInv
<1>3. CASE pc' = "failed"
  BY <1>3 DEF ListsInv, SeenInv
<1>4. CASE UNCHANGED <<pc, seen, found>>
  BY <1>1, <1>4, ListsLeft DEF SeenInv, Last
<1>5. ASSUME NEW i \in RandomIndices, i \notin seen, TakeIndex(i),
             Cardinality(seen) < count
      PROVE  ListsInv' /\ SeenInv'
  BY <1>1, <1>5, TakeLists
<1>6. QED
  BY <1>2, <1>3, <1>4, <1>5 DEF Draw

\* The key is read, or logged as missing.
LEMMA LookUpLists ==
    ASSUME TypeOK, HistogramInv, ListsInv, SeenInv, LookUpKey, [Next]_vars
    PROVE  ListsInv' /\ SeenInv'
<1>0. PICK l : l = Last /\ pc \in {"draw", "key"}
  BY DEF LookUpKey
<1>1. PICK n \in Nat, m \in Nat, c \in Nat :
         n = Len(found) /\ m = Len(Last) /\ l = Last /\ c = NumOuts
  BY <1>0, Growing DEF Drawn
<1>2. /\ pc = "key" /\ pc' = "draw" /\ m >= 1
      /\ UNCHANGED <<outs, count, amounts, histogram, seen>>
  BY <1>1 DEF LookUpKey, SeenInv
<1>3. /\ n \in Nat /\ n >= 1 /\ n <= Len(amounts) /\ m \in Nat
      /\ \A k \in 1 .. n : k # n => Complete(found[k], histogram[amounts[k]])
      /\ Drawn(l, c) /\ c = histogram[amounts[n]]
      /\ IsFiniteSet(seen) /\ Cardinality(seen) = m /\ m = Len(l)
      /\ seen = Indices(l)
  BY <1>1, <1>2, Growing
<1>4. Keyed(l, c, m - 1) /\ m \in 1 .. m
  BY <1>1, <1>2, <1>3 DEF ListsInv
\* What the new list has in common with the old one, and its last key.
<1>5. /\ Len(found') = n /\ Len(found'[n]) = m
      /\ \A k \in 1 .. n : k # n => found'[k] = found[k]
      /\ \A j \in 1 .. m : /\ found'[n][j].index = l[j].index
                           /\ j # m => found'[n][j].key = l[j].key
  <2>1. CASE SetKey
    BY <1>1, <1>2, <1>3, <2>1, KeyRead
  <2>2. CASE UNCHANGED found
    BY <1>1, <1>3, <2>2 DEF Last
  <2>3. QED
    BY <2>1, <2>2 DEF LookUpKey
<1>6. troubles' = 0 /\ c # 0 => found'[n][m].key = "key" /\ troubles = 0
  <2>1. SUFFICES ASSUME troubles' = 0, c # 0
                 PROVE  found'[n][m].key = "key" /\ troubles = 0
    OBVIOUS
  <2>2. troubles = 0 /\ ~Trouble
    BY <2>1, TroublesGrow DEF Trouble
  <2>3. Amount \in Amounts /\ c = histogram[Amount] /\ c \in Nat
    BY <1>1, <1>2, NumOutsTyped DEF NumOuts
  <2>4. c <= outs[Amount]
    BY <2>2, <2>3, SpendingAssumption DEF HistogramInv
  <2>5. l[m].index < c
    BY <1>3, <1>4, <2>1 DEF Drawn
  <2>6. l[m].index \in Nat /\ outs[Amount] \in Nat
    <3>1. l[m].index \in 0 .. Word - 1
      BY <1>1, <1>2, <1>4, Growing
    <3>2. QED
      BY <2>3, <3>1, TypeParts, SpendingAssumption DEF Parts
  <2>7. l[m].index < outs[Amount]
    BY <2>3, <2>4, <2>5, <2>6
  <2>8. SetKey
    BY <1>1, <2>2, <2>6, <2>7 DEF LookUpKey
  <2>9. QED
    BY <1>1, <1>2, <1>3, <2>2, <2>8, KeyRead
<1>7. PICK w : w = found'[n]
  OBVIOUS
<1>8. Last' = w /\ NumOuts' = c /\ Len(Last)' = m /\ Len(w) = m
  BY <1>2, <1>3, <1>5, <1>7 DEF Last, NumOuts, Amount
<1>9. Drawn(w, c)'
  <2>1. \A j \in 1 .. m : w[j].index = l[j].index
    BY <1>5, <1>7
  <2>2. QED
    BY <1>2, <1>3, <1>8, <2>1 DEF Drawn
<1>10. Keyed(w, c, m)'
  <2>1. SUFFICES ASSUME troubles' = 0, c # 0, NEW j \in 1 .. m PROVE w[j].key = "key"
    BY DEF Keyed
  <2>2. CASE j = m
    BY <1>6, <1>7, <2>1, <2>2
  <2>3. CASE j # m
    <3>1. j \in 1 .. m - 1
      BY <2>1, <2>3
    <3>2. l[j].key = "key"
      BY <1>4, <1>6, <2>1, <3>1 DEF Keyed
    <3>3. QED
      BY <1>5, <1>7, <2>3, <3>2
  <2>4. QED
    BY <2>2, <2>3
<1>11. \A k \in 1 .. n : k # n => Complete(found[k], histogram[amounts[k]])'
  BY <1>2, <1>3, <1>5, OldLists
<1>12. ListsInv'
  <2>1. Drawn(Last, NumOuts)' /\ Keyed(Last, NumOuts, Len(Last))'
    BY <1>8, <1>9, <1>10 DEF Drawn, Keyed
  <2>2. QED
    BY <1>2, <1>3, <1>5, <1>11, <2>1 DEF ListsInv
<1>13. SeenInv'
  <2>1. seen' = Indices(w)
    <3>1. \A j \in 1 .. m : w[j].index = l[j].index
      BY <1>5, <1>7
    <3>2. QED
      BY <1>2, <1>3, <1>8, <3>1 DEF Indices
  <2>2. QED
    BY <1>2, <1>3, <1>5, <1>8, <2>1 DEF SeenInv
<1>14. QED
  BY <1>12, <1>13

\* The rest of the request: it has no list yet, or it has all of them.
LEMMA ListsKept ==
    ASSUME TypeOK, HistogramInv, ListsInv, SeenInv, [Next]_vars
    PROVE  ListsInv' /\ SeenInv'
<1>1. CASE UNCHANGED vars \/ Outside
  <2>1. UNCHANGED decoyVars
    BY <1>1, OutsideLeaves DEF vars
  <2>2. ListsInv'
    BY <2>1, ListsLeft
  <2>3. QED
    BY <2>1, <2>2 DEF SeenInv, Last
<1>2. CASE \E n \in Counts, as \in Requests : GetRandomOuts(n, as)
  BY <1>2 DEF GetRandomOuts, ListsInv, SeenInv
<1>3. CASE ParseAmounts
  BY <1>3 DEF ParseAmounts, ListsInv, SeenInv
<1>4. CASE OutputHistogram
  <2>1. found' = <<>> /\ UNCHANGED amounts /\ pc' \in {"amount", "failed"}
    BY <1>4 DEF OutputHistogram, SeenInv
  <2>2. Len(found') = 0 /\ Len(amounts') \in Nat
    BY <2>1, FoundTyped, EmptySeq
  <2>3. QED
    BY <2>1, <2>2 DEF ListsInv, SeenInv
<1>5. CASE NextAmount
  BY <1>5, NextAmountLists
<1>6. CASE Draw
  BY <1>6, DrawLists
<1>7. CASE LookUpKey
  BY <1>7, LookUpLists
<1>8. CASE AnswerRandomOuts
  <2>1. /\ UNCHANGED <<count, amounts, histogram, found>>
        /\ (pc = "found" /\ pc' = "sent") \/ pc' = "done"
    BY <1>8 DEF AnswerRandomOuts
  <2>2. CASE pc = "found" /\ pc' = "sent"
    BY <2>1, <2>2, ListsLeft DEF SeenInv
  <2>3. CASE pc' = "done"
    BY <2>3 DEF ListsInv, SeenInv
  <2>4. QED
    BY <2>1, <2>2, <2>3
<1>9. CASE Finish
  BY <1>9 DEF Finish, ListsInv, SeenInv
<1>10. QED
  BY <1>1, <1>2, <1>3, <1>4, <1>5, <1>6, <1>7, <1>8, <1>9, NextCases

-------------------------------------------------------------------------------
(***************************************************************************)
(* Theorems                                                                *)
(***************************************************************************)
LEMMA InitInv == Init => IInv
<1> SUFFICES ASSUME Init PROVE IInv
  OBVIOUS
<1>1. /\ MaxOuts \in Nat /\ MaxTop \in Nat /\ MaxBlockNumber \in Nat
  BY SpendingAssumption
<1>2. /\ Numbers /\ outs \in [Amounts -> Nat] /\ offered = {} /\ pc = "free"
      /\ histogram = NoHistogram /\ seen = {} /\ top = 0 /\ current_height = 0
  BY <1>1 DEF Init, Numbers
<1>3. amounts \in Seq(Amounts) /\ found \in Seq(Seq(Decoy)) /\ found = <<>>
  BY EmptySeq DEF Init
<1>4. TypeOK
  BY <1>2, <1>3, TypeParts DEF Parts, NoHistogram
<1>5. HeightInv /\ OfferedIsSpendable /\ HistogramInv
  BY <1>1, <1>2 DEF HeightInv, OfferedIsSpendable, HistogramInv, NoHistogram
<1>6. ListsInv /\ SeenInv
  BY <1>2, <1>3 DEF ListsInv, SeenInv
<1>7. QED
  BY <1>4, <1>5, <1>6 DEF IInv

LEMMA NextInv == IInv /\ [Next]_vars => IInv'
<1> SUFFICES ASSUME IInv, [Next]_vars PROVE IInv'
  OBVIOUS
<1>1. /\ TypeOK /\ HeightInv /\ OfferedIsSpendable /\ HistogramInv /\ ListsInv
      /\ SeenInv
  BY DEF IInv
<1>2. TypeOK' /\ HeightInv' /\ OfferedIsSpendable' /\ HistogramInv'
  BY <1>1, TypesKept, HeightKept, OfferedKept, HistogramKept
<1>3. ListsInv' /\ SeenInv'
  BY <1>1, ListsKept
<1>4. QED
  BY <1>2, <1>3 DEF IInv

\* The inductive invariant holds in every state that get_unspent_outs,
\* get_random_outs, the monitor and the chain can reach together.
THEOREM Invariance == Spec => []IInv
<1>1. QED
  BY InitInv, NextInv, PTL DEF Spec

\* The variables keep their types; an index that wrapped is below 2^64.
THEOREM TypeCorrect == Spec => []TypeOK
<1>1. IInv => TypeOK
  BY DEF IInv
<1>2. QED
  BY <1>1, Invariance, PTL

\* What get_unspent_outs offered, going by a cached height, can be spent in the
\* next block and stays spendable for as long as no block is popped.
THEOREM OfferedStaysSpendable == Spec => []OfferedIsSpendable
<1>1. IInv => OfferedIsSpendable
  BY DEF IInv
<1>2. QED
  BY <1>1, Invariance, PTL

\* get_random_outs answers with as many decoys of each amount as were asked
\* for, all different and below the number of unlocked outputs, however the
\* indices are drawn; the index that wrapped can only be sent alone.
THEOREM DecoysAreDistinct == Spec => []DecoysDistinct
<1>1. ASSUME IInv PROVE DecoysDistinct
  <2>1. SUFFICES ASSUME pc = "sent" PROVE DecoysDistinct
    BY DEF DecoysDistinct
  <2>2. /\ TypeOK /\ found \in Seq(Seq(Decoy)) /\ Len(found) = Len(amounts)
        /\ \A k \in 1 .. Len(found) : Complete(found[k], histogram[amounts[k]])
    BY <1>1, <2>1, TypeParts DEF IInv, ListsInv, Parts
  <2>3. DOMAIN found = 1 .. Len(found)
    BY <2>2, LenProperties
  <2>4. ASSUME NEW k \in 1 .. Len(found)
        PROVE  /\ Len(found[k]) = count
               /\ \A i, j \in DOMAIN found[k] :
                     i # j => found[k][i].index # found[k][j].index
               /\ \A i \in DOMAIN found[k] :
                     \/ found[k][i].index < histogram[amounts[k]]
                     \/ count = 1 /\ histogram[amounts[k]] = 0
    <3>1. PICK l, n : l = found[k] /\ n = histogram[amounts[k]]
      OBVIOUS
    <3>2. PICK c \in Nat : c = count
      BY <2>2, TypeParts DEF Parts, Numbers
    <3>3. /\ DOMAIN l = 1 .. c /\ Len(l) = c /\ Drawn(l, n) /\ n \in Nat
      <4>1. l \in Seq(Decoy) /\ Complete(l, n)
        BY <2>2, <3>1, FoundTyped
      <4>2. QED
        BY <3>2, <4>1, LenProperties DEF Complete, Drawn
    <3>4. \A i \in 1 .. c : l[i].index \in Nat
      BY <2>2, <3>1, <3>3, FoundTyped
    <3>5. /\ \A i, j \in 1 .. c : l[i].index = l[j].index => i = j
          /\ \A i \in 1 .. c : l[i].index < n \/ (n = 0 /\ l[i].index = Word - 1)
      BY <3>3 DEF Drawn
    <3>6. ASSUME NEW i \in 1 .. c, n = 0 PROVE c = 1
      <4>1. \A j \in 1 .. c : l[j].index = Word - 1
        BY <3>4, <3>5, <3>6
      <4>2. 1 \in 1 .. c /\ c \in 1 .. c
        OBVIOUS
      <4>3. QED
        BY <3>5, <4>1, <4>2
    <3>7. QED
      BY <3>1, <3>2, <3>3, <3>5, <3>6
  <2>5. QED
    BY <2>2, <2>3, <2>4 DEF DecoysDistinct
<1>2. QED
  BY <1>1, Invariance, PTL

\* Every decoy that get_random_outs sends has its key, although the keys are
\* looked up after the histogram was counted, unless a block was popped, a
\* lookup failed or the histogram counted no unlocked output.
THEOREM DecoysAreKeyed == Spec => []DecoysHaveKeys
<1>1. ASSUME IInv PROVE DecoysHaveKeys
  <2>1. SUFFICES ASSUME pc = "sent", troubles = 0,
                        NEW k \in DOMAIN found, NEW i \in 1 .. count,
                        histogram[amounts[k]] # 0
                 PROVE  found[k][i].key = "key"
    BY DEF DecoysHaveKeys
  <2>2. found \in Seq(Seq(Decoy))
    BY <1>1, TypeParts DEF IInv, Parts
  <2>3. k \in 1 .. Len(found)
    BY <2>1, <2>2, LenProperties
  <2>4. Complete(found[k], histogram[amounts[k]])
    BY <1>1, <2>1, <2>3 DEF IInv, ListsInv
  <2>5. QED
    BY <2>1, <2>4 DEF Complete, Keyed
<1>2. QED
  BY <1>1, Invariance, PTL

=============================================================================
