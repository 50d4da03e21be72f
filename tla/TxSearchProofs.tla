---------------------------- MODULE TxSearchProofs ----------------------------
(***************************************************************************)
(* TxSearch: types, the absence of skipped blocks and the refinement of    *)
(* ScanLedger, for every number of handlers, every height and every bound. *)
(***************************************************************************)
EXTENDS TxSearch, TLAPS

\* What the refinement and NoBlockSkipped need of the configuration: with free
\* imports import_recent_wallet_request may move the position forward.
RecentSafe == ImportFee > 0 \/ "recent" \notin Kinds

(***************************************************************************)
(* The inductive invariant.  A position is only ever copied: into h1, into *)
(* the row a handler selects and from there into the position again, so    *)
(* each of the copies must lie in the completely scanned part.             *)
(***************************************************************************)
RangeComplete ==
    /\ ScannedBelow(h1)
    /\ thread \in {"save", "flag", "store"} => ScannedBelow(h2 + 1)

RequestComplete(h) ==
    /\ ScannedBelow(request[h].old.scanned_block_height)
    /\ ScannedBelow(request[h].new.scanned_block_height)
    /\ At(h, "height") => "recent" \in Kinds

IInv ==
    /\ TypeOK
    /\ ScannedBelow(searched_blk_no)
    /\ ScannedBelow(row.scanned_block_height)
    /\ RangeComplete
    /\ \A h \in Handlers : RequestComplete(h)

-------------------------------------------------------------------------------
USE DEF chainVars, dbVars, rangeVars, posVars, lifeVars, threadVars

\* The three ways in which a handler changes its request.
LEMMA FreeType == Free \in Request
BY DEF Free, Request, HandlerStates, AllKinds, Row, EmptyRow

LEMMA FinishType ==
    ASSUME TypeOK, NEW h \in Handlers, Finish(h)
    PROVE  request' \in [Handlers -> Request]
BY FreeType DEF Finish, TypeOK

LEMMA ProceedType ==
    ASSUME TypeOK, NEW h \in Handlers, NEW state \in HandlerStates,
           Proceed(h, state)
    PROVE  request' \in [Handlers -> Request]
BY DEF Proceed, TypeOK, Request

LEMMA SelectType ==
    ASSUME TypeOK, NEW h \in Handlers, NEW kind, NEW n \in Nat,
           NEW state \in HandlerStates, SelectAccount(h, kind, n, state)
    PROVE  TypeOK'
<1>1. [at |-> state, kind |-> kind, old |-> row, new |-> EmptyRow, n |-> n]
        \in Request
  BY ConstantsAssumption DEF SelectAccount, TypeOK, Request, Row, EmptyRow
<1>2. request' \in [Handlers -> Request]
  BY <1>1 DEF SelectAccount, TypeOK
<1>3. QED
  BY <1>2 DEF SelectAccount, TypeOK

\* The chain, the monitor and the clients keep the types.
LEMMA EnvironmentTypes ==
    ASSUME TypeOK,
           MineBlock \/ PopBlock \/ UpdateCurrentHeight \/ CleanSearchThread
             \/ Pay \/ PingExpires \/ Crash
    PROVE  TypeOK'
<1> USE ConstantsAssumption DEF TypeOK
<1>1. CASE MineBlock  BY <1>1 DEF MineBlock
<1>2. CASE PopBlock  BY <1>2 DEF PopBlock
<1>3. CASE UpdateCurrentHeight  BY <1>3 DEF UpdateCurrentHeight
<1>4. CASE CleanSearchThread
  BY <1>4 DEF CleanSearchThread, NoThread, Row, EmptyRow, ThreadStates
<1>5. CASE Pay  BY <1>5 DEF Pay
<1>6. CASE PingExpires  BY <1>6 DEF PingExpires
<1>7. CASE Crash
  <2>1. request' \in [Handlers -> Request]
    BY <1>7, FreeType DEF Crash
  <2>2. acc' \in Row /\ faults' \in Nat /\ thread' \in ThreadStates
    BY <1>7 DEF Crash, NoThread, Fault, Row, EmptyRow, ThreadStates
  <2>3. current_height' \in Nat
    BY <1>7 DEF Crash
  <2>4. QED
    BY <1>7, <2>1, <2>2, <2>3 DEF Crash, NoThread
<1>8. QED  BY <1>1, <1>2, <1>3, <1>4, <1>5, <1>6, <1>7

\* The search thread keeps the types: a range never ends below 0.
LEMMA SearchThreadTypes ==
    ASSUME TypeOK, SearchThread
    PROVE  TypeOK'
<1> USE ConstantsAssumption DEF TypeOK, Goto, ThreadStates
<1>1. CASE EnterLoop  BY <1>1 DEF EnterLoop
<1>2. CASE LeaveLoop  BY <1>2 DEF LeaveLoop
<1>3. CASE ReadPosition  BY <1>3 DEF ReadPosition, RangeEnd
<1>4. CASE FetchBlocks  BY <1>4 DEF FetchBlocks
<1>5. CASE NoBlocks  BY <1>5 DEF NoBlocks
<1>6. CASE WakeUp  BY <1>6 DEF WakeUp, EndIteration
<1>7. CASE ScanBlocks  BY <1>7 DEF ScanBlocks
<1>8. CASE SavePosition
  BY <1>8 DEF SavePosition, RowUpdated, RowNotUpdated, Fault, Row
<1>9. CASE TestUpdatedFlag  BY <1>9 DEF TestUpdatedFlag
<1>10. CASE StorePosition  BY <1>10 DEF StorePosition
<1>11. CASE ClearUpdatedFlag  BY <1>11 DEF ClearUpdatedFlag, EndIteration
<1>12. CASE EndThread  BY <1>12 DEF EndThread
<1>13. CASE MissTransactions  BY <1>13 DEF MissTransactions, Fault
<1>14. CASE ScanThrows  BY <1>14 DEF ScanThrows, Fault
<1>15. CASE BeginSearch  BY <1>15 DEF BeginSearch
<1>16. CASE GetTxs  BY <1>16 DEF GetTxs
<1>17. QED
  BY <1>1, <1>2, <1>3, <1>4, <1>5, <1>6, <1>7, <1>8, <1>9, <1>10, <1>11,
     <1>12, <1>13, <1>14, <1>15, <1>16 DEF SearchThread

\* The handlers keep the types: the height an import of recent blocks writes
\* does not wrap below 0, with a fee and without.
LEMMA HandlerTypes ==
    ASSUME TypeOK, NEW h \in Handlers,
           NewRequest(h) \/ HandlerStep(h) \/ StartFails(h)
    PROVE  TypeOK'
<1> USE ConstantsAssumption
<1>1. CASE NewRequest(h)
  <2>1. CASE Login(h)
    BY <2>1, SelectType DEF Login, HandlerStates
  <2>2. CASE GetAddressInfo(h)
    BY <2>2, SelectType DEF GetAddressInfo, HandlerStates
  <2>3. CASE ImportWalletRequest(h)
    BY <2>3, SelectType DEF ImportWalletRequest, HandlerStates
  <2>4. ASSUME NEW n \in 1 .. MaxImport, ImportRecentWalletRequest(h, n)
        PROVE  TypeOK'
    BY <2>4, SelectType DEF ImportRecentWalletRequest, HandlerStates
  <2>5. QED  BY <1>1, <2>1, <2>2, <2>3, <2>4 DEF NewRequest
<1>2. CASE StartSearchThread(h)
  <2>1. request' \in [Handlers -> Request]
    BY <1>2, FinishType, ProceedType DEF StartSearchThread, HandlerStates
  <2>2. request[h].old \in Row /\ request[h].old.scanned_block_height \in Nat
    BY DEF TypeOK, Request, Row
  <2>3. CASE SearchThreadExists
    BY <1>2, <2>1, <2>3 DEF StartSearchThread, TypeOK
  <2>4. CASE ~SearchThreadExists
    BY <1>2, <2>1, <2>2, <2>4 DEF StartSearchThread, FirstSearched, TypeOK,
                                  ThreadStates
  <2>5. QED  BY <2>3, <2>4
<1>3. CASE PingSearchThread(h)
  <2>1. request' \in [Handlers -> Request]
    BY <1>3, ProceedType DEF PingSearchThread, HandlerStates
  <2>2. QED  BY <1>3, <2>1 DEF PingSearchThread, TypeOK
<1>4. CASE CompareSearchedBlk(h)
  <2>1. request' \in [Handlers -> Request]
    BY <1>4, FinishType DEF CompareSearchedBlk, TypeOK, Request, HandlerStates
  <2>2. QED  BY <1>4, <2>1 DEF CompareSearchedBlk, TypeOK
<1>5. CASE ReadHeight(h)
  <2> DEFINE n == BlocksToImport(request[h].n)
  <2>1. n \in Nat /\ n <= current_height
    BY DEF BlocksToImport, MinOf, TypeOK, Request
  <2>2. CASE request[h].old.scanned_block_height < n
    BY <1>5, <2>2, FinishType DEF ReadHeight, TypeOK
  <2>3. CASE ~(request[h].old.scanned_block_height < n)
    <3>1. RecentRow(request[h].old, n) \in Row
      BY <2>1, <2>3 DEF RecentRow, RecentFrom, TypeOK, Request, Row
    <3>2. request' = [request EXCEPT ![h].at = "update",
                        ![h].new = RecentRow(request[h].old, n)]
      BY <1>5, <2>3 DEF ReadHeight
    <3>3. request' \in [Handlers -> Request]
      BY <3>1, <3>2 DEF TypeOK, Request, HandlerStates
    <3>4. QED  BY <1>5, <3>3 DEF ReadHeight, TypeOK
  <2>4. QED  BY <2>2, <2>3
<1>6. CASE SelectPayment(h)
  <2>1. request' \in [Handlers -> Request]
    BY <1>6, FinishType, ProceedType DEF SelectPayment, HandlerStates
  <2>2. QED  BY <1>6, <2>1 DEF SelectPayment, TypeOK, Fault
<1>7. CASE SearchIfPaymentMade(h)
  <2>1. request' \in [Handlers -> Request]
    BY <1>7, FinishType, ProceedType DEF SearchIfPaymentMade, HandlerStates
  <2>2. QED  BY <1>7, <2>1 DEF SearchIfPaymentMade, TypeOK
<1>8. CASE FulfilPayment(h)
  <2>1. request' \in [Handlers -> Request]
    BY <1>8, FinishType, ProceedType DEF FulfilPayment, HandlerStates
  <2>2. payment' \in {"requested", "fulfilled", "none"} /\ faults' \in Nat
    BY <1>8 DEF FulfilPayment, TypeOK, Fault
  <2>3. QED  BY <1>8, <2>1, <2>2 DEF FulfilPayment, TypeOK
<1>9. CASE UpdateRow(h)
  <2>1. request' \in [Handlers -> Request]
    BY <1>9, FinishType, ProceedType DEF UpdateRow, HandlerStates
  <2>2. request[h].new \in Row
    BY DEF TypeOK, Request
  <2>3. row' \in Row /\ faults' \in Nat
    BY <1>9, <2>2 DEF UpdateRow, RowUpdated, RowNotUpdated, Fault, TypeOK
  <2>4. imported' \in BOOLEAN
    BY <1>9 DEF UpdateRow, TypeOK
  <2>5. QED
    BY <1>9, <2>1, <2>3, <2>4 DEF UpdateRow, TypeOK
<1>10. CASE SetSearchedBlkNo(h)
  <2>1. request' \in [Handlers -> Request]
    BY <1>10, FinishType, ProceedType DEF SetSearchedBlkNo, HandlerStates
  <2>2. QED  BY <1>10, <2>1 DEF SetSearchedBlkNo, TypeOK, Request, Row
<1>11. CASE SetUpdatedFlag(h)
  <2>1. request' \in [Handlers -> Request]
    BY <1>11, FinishType, ProceedType DEF SetUpdatedFlag, HandlerStates
  <2>2. QED  BY <1>11, <2>1 DEF SetUpdatedFlag, TypeOK
<1>12. CASE UpdateAcc(h)
  <2>1. request' \in [Handlers -> Request]
    BY <1>12, FinishType DEF UpdateAcc
  <2>2. QED  BY <1>12, <2>1 DEF UpdateAcc, TypeOK, Request
<1>13. CASE StartFails(h)
  <2>1. request' \in [Handlers -> Request]
    BY <1>13, FinishType DEF StartFails
  <2>2. QED  BY <1>13, <2>1 DEF StartFails, TypeOK, Fault
<1>14. QED
  BY <1>1, <1>2, <1>3, <1>4, <1>5, <1>6, <1>7, <1>8, <1>9, <1>10, <1>11,
     <1>12, <1>13 DEF HandlerStep

\* Types hold in every state of the account: TxSearch's fields, the database
\* rows and the requests in flight.
THEOREM Typing == Spec => []TypeOK
<1>1. Init => TypeOK
  <2> SUFFICES ASSUME Init PROVE TypeOK
    OBVIOUS
  <2>1. request \in [Handlers -> Request]
    BY FreeType DEF Init
  <2>2. base \in Nat
    BY ConstantsAssumption DEF Init, CreatedAt
  <2>3. row \in Row /\ acc \in Row
    BY <2>2 DEF Init, Row, EmptyRow
  <2>4. QED
    BY <2>1, <2>2, <2>3, ConstantsAssumption DEF Init, TypeOK, ThreadStates
<1>2. TypeOK /\ [Next]_vars => TypeOK'
  <2>1. ASSUME TypeOK, UNCHANGED vars  PROVE TypeOK'
    BY <2>1 DEF vars, TypeOK
  <2>2. ASSUME TypeOK, Next  PROVE TypeOK'
    BY <2>2, EnvironmentTypes, SearchThreadTypes, HandlerTypes DEF Next
  <2>3. QED  BY <2>1, <2>2
<1>3. QED  BY <1>1, <1>2, PTL DEF Spec

-------------------------------------------------------------------------------
(***************************************************************************)
(* No block is skipped                                                     *)
(***************************************************************************)
\* A complete range only grows, and everything below a height that lies in
\* the complete part is complete too.
LEMMA ScannedBelowSmaller ==
    ASSUME NEW p \in Nat, NEW q \in Nat, q <= p, base \in Nat,
           ScannedBelow(p)
    PROVE  ScannedBelow(q)
BY DEF ScannedBelow

\* Height 0 is a complete position of every account.
LEMMA ScannedBelowZero ==
    ASSUME base \in Nat
    PROVE  ScannedBelow(0)
BY DEF ScannedBelow

\* A step that scans no block and leaves the requests alone keeps them
\* complete.
LEMMA SameRequests ==
    ASSUME IInv, UNCHANGED <<base, scanned, request>>
    PROVE  (\A h \in Handlers : RequestComplete(h))'
BY DEF IInv, RequestComplete, ScannedBelow, At

LEMMA EnvironmentComplete ==
    ASSUME IInv, TypeOK',
           MineBlock \/ PopBlock \/ UpdateCurrentHeight \/ CleanSearchThread
             \/ Pay \/ PingExpires \/ Crash
    PROVE  IInv'
<1>0. base \in Nat
  BY DEF IInv, TypeOK
<1> USE DEF IInv, RangeComplete, ScannedBelow
<1>1. CASE MineBlock  BY <1>1, SameRequests DEF MineBlock
<1>2. CASE PopBlock  BY <1>2, SameRequests DEF PopBlock
<1>3. CASE UpdateCurrentHeight
  BY <1>3, SameRequests DEF UpdateCurrentHeight
<1>4. CASE CleanSearchThread
  BY <1>0, <1>4, SameRequests DEF CleanSearchThread, NoThread
<1>5. CASE Pay  BY <1>5, SameRequests DEF Pay
<1>6. CASE PingExpires  BY <1>6, SameRequests DEF PingExpires
<1>7. CASE Crash
  <2>1. (\A h \in Handlers : RequestComplete(h))'
    BY <1>0, <1>7 DEF Crash, RequestComplete, At, Free, EmptyRow
  <2>2. QED  BY <1>0, <1>7, <2>1 DEF Crash, NoThread
<1>8. QED  BY <1>1, <1>2, <1>3, <1>4, <1>5, <1>6, <1>7

LEMMA SearchThreadComplete ==
    ASSUME IInv, TypeOK', SearchThread
    PROVE  IInv'
<1>0. base \in Nat /\ h1 \in Nat /\ h2 \in Nat
  BY DEF IInv, TypeOK
<1> USE DEF IInv, RangeComplete, ScannedBelow, Goto
<1>1. CASE EnterLoop  BY <1>1, SameRequests DEF EnterLoop
<1>2. CASE LeaveLoop  BY <1>2, SameRequests DEF LeaveLoop
<1>3. CASE ReadPosition  BY <1>3, SameRequests DEF ReadPosition
<1>4. CASE FetchBlocks  BY <1>4, SameRequests DEF FetchBlocks
<1>5. CASE NoBlocks  BY <1>5, SameRequests DEF NoBlocks
<1>6. CASE WakeUp  BY <1>0, <1>6, SameRequests DEF WakeUp, EndIteration
<1>7. CASE ScanBlocks
  <2>1. scanned \subseteq scanned' /\ h1 .. h2 \subseteq scanned'
    BY <1>7 DEF ScanBlocks
  <2>2. base .. (h2 + 1 - 1) \subseteq scanned'
    BY <1>0, <2>1
  <2>3. (\A h \in Handlers : RequestComplete(h))'
    BY <1>7, <2>1 DEF ScanBlocks, RequestComplete, At
  <2>4. UNCHANGED <<base, searched_blk_no, row, h1, h2>>
    BY <1>7 DEF ScanBlocks
  <2>5. /\ ScannedBelow(searched_blk_no)'
        /\ ScannedBelow(row.scanned_block_height)'
        /\ ScannedBelow(h1)'
    BY <2>1, <2>4
  <2>6. ScannedBelow(h2 + 1)'
    BY <1>0, <2>2, <2>4
  <2>7. QED  BY <2>3, <2>5, <2>6
<1>8. CASE SavePosition
  <2>1. row' = row \/ row'.scanned_block_height = h2
    BY <1>8 DEF SavePosition, RowUpdated, RowNotUpdated, TypeOK, Row
  <2>2. ScannedBelow(h2)
    BY <1>0, <1>8 DEF SavePosition
  <2>3. QED
    BY <1>8, <2>1, <2>2, SameRequests DEF SavePosition
<1>9. CASE TestUpdatedFlag  BY <1>9, SameRequests DEF TestUpdatedFlag
<1>10. CASE StorePosition
  <2>1. ScannedBelow(h2 + 1)
    BY <1>10 DEF StorePosition
  <2>2. searched_blk_no' = h2 + 1 /\ UNCHANGED <<base, scanned>>
    BY <1>10 DEF StorePosition
  <2>3. ScannedBelow(searched_blk_no)'
    BY <2>1, <2>2
  <2>4. QED  BY <1>10, <2>3, SameRequests DEF StorePosition
<1>11. CASE ClearUpdatedFlag
  BY <1>0, <1>11, SameRequests DEF ClearUpdatedFlag, EndIteration
<1>12. CASE EndThread  BY <1>12, SameRequests DEF EndThread
<1>13. CASE MissTransactions  BY <1>13, SameRequests DEF MissTransactions
<1>14. CASE ScanThrows  BY <1>14, SameRequests DEF ScanThrows
<1>15. CASE BeginSearch  BY <1>15, SameRequests DEF BeginSearch
<1>16. CASE GetTxs  BY <1>16, SameRequests DEF GetTxs
<1>17. QED
  BY <1>1, <1>2, <1>3, <1>4, <1>5, <1>6, <1>7, <1>8, <1>9, <1>10, <1>11,
     <1>12, <1>13, <1>14, <1>15, <1>16 DEF SearchThread

\* The requests of a handler that ends or goes on with the rows it has.
LEMMA FinishComplete ==
    ASSUME IInv, NEW h \in Handlers, Finish(h), UNCHANGED <<base, scanned>>
    PROVE  (\A k \in Handlers : RequestComplete(k))'
BY DEF IInv, TypeOK, RequestComplete, ScannedBelow, At, Finish, Free, EmptyRow

LEMMA ProceedComplete ==
    ASSUME IInv, NEW h \in Handlers, NEW state, state # "height",
           Proceed(h, state), UNCHANGED <<base, scanned>>
    PROVE  (\A k \in Handlers : RequestComplete(k))'
BY DEF IInv, TypeOK, Request, RequestComplete, ScannedBelow, At, Proceed

LEMMA SelectComplete ==
    ASSUME IInv, TypeOK', NEW h \in Handlers, NEW kind, NEW n, NEW state,
           SelectAccount(h, kind, n, state),
           state = "height" => kind = "recent"
    PROVE  IInv'
<1>1. (\A k \in Handlers : RequestComplete(k))'
  BY DEF IInv, TypeOK, Request, RequestComplete, ScannedBelow, At,
         SelectAccount, EmptyRow
<1>2. QED
  BY <1>1 DEF IInv, RangeComplete, ScannedBelow, SelectAccount

LEMMA HandlerComplete ==
    ASSUME RecentSafe, IInv, TypeOK', NEW h \in Handlers,
           NewRequest(h) \/ HandlerStep(h) \/ StartFails(h)
    PROVE  IInv'
<1>0. /\ base \in Nat
      /\ request[h] \in Request
      /\ ScannedBelow(request[h].old.scanned_block_height)
      /\ ScannedBelow(request[h].new.scanned_block_height)
      /\ At(h, "height") => "recent" \in Kinds
  BY DEF IInv, TypeOK, RequestComplete
<1>1. CASE NewRequest(h)
  <2>1. CASE Login(h)  BY <2>1, SelectComplete DEF Login
  <2>2. CASE GetAddressInfo(h)  BY <2>2, SelectComplete DEF GetAddressInfo
  <2>3. CASE ImportWalletRequest(h)
    BY <2>3, SelectComplete DEF ImportWalletRequest
  <2>4. ASSUME NEW n \in 1 .. MaxImport, ImportRecentWalletRequest(h, n)
        PROVE  IInv'
    BY <2>4, SelectComplete DEF ImportRecentWalletRequest
  <2>5. QED  BY <1>1, <2>1, <2>2, <2>3, <2>4 DEF NewRequest
<1> DEFINE Rest == /\ UNCHANGED <<base, scanned>>
                   /\ (\A k \in Handlers : RequestComplete(k))'
<1>2. CASE StartSearchThread(h)
  <2>1. Rest  BY <1>2, FinishComplete, ProceedComplete DEF StartSearchThread
  <2>2. CASE SearchThreadExists
    BY <1>2, <2>1, <2>2 DEF StartSearchThread, IInv, RangeComplete,
                            ScannedBelow
  <2>3. CASE ~SearchThreadExists
    BY <1>0, <1>2, <2>1, <2>3 DEF StartSearchThread, FirstSearched, IInv,
                                  RangeComplete,
                                  ScannedBelow
  <2>4. QED  BY <2>2, <2>3
<1>3. CASE PingSearchThread(h)
  <2>1. Rest  BY <1>3, ProceedComplete DEF PingSearchThread
  <2>2. QED
    BY <1>3, <2>1 DEF PingSearchThread, IInv, RangeComplete, ScannedBelow
<1>4. CASE CompareSearchedBlk(h)
  <2>1. CASE SearchThreadExists /\ TooFarAhead(h)
    <3>1. request' = [request EXCEPT ![h].at = "set",
                                     ![h].new = request[h].old]
      BY <1>4, <2>1 DEF CompareSearchedBlk
    <3>2. (\A k \in Handlers : RequestComplete(k))'
      BY <1>0, <1>4, <3>1 DEF CompareSearchedBlk, IInv, TypeOK, Request,
                              RequestComplete, ScannedBelow, At
    <3>3. QED
      BY <1>4, <3>2 DEF CompareSearchedBlk, IInv, RangeComplete, ScannedBelow
  <2>2. CASE ~(SearchThreadExists /\ TooFarAhead(h))
    <3>1. Rest  BY <1>4, <2>2, FinishComplete DEF CompareSearchedBlk
    <3>2. QED
      BY <1>4, <3>1 DEF CompareSearchedBlk, IInv, RangeComplete, ScannedBelow
  <2>3. QED  BY <2>1, <2>2
<1>5. CASE ReadHeight(h)
  <2> DEFINE n == BlocksToImport(request[h].n)
  <2>1. n \in Nat
    BY ConstantsAssumption
    DEF BlocksToImport, MinOf, IInv, TypeOK, Request
  <2>2. CASE request[h].old.scanned_block_height < n
    <3>1. Rest  BY <1>5, <2>2, FinishComplete DEF ReadHeight
    <3>2. QED
      BY <1>5, <3>1 DEF ReadHeight, IInv, RangeComplete, ScannedBelow
  <2>3. CASE ~(request[h].old.scanned_block_height < n)
    <3> DEFINE new == RecentRow(request[h].old, n)
    <3>1. ImportFee # 0
      BY <1>0, <1>5, ConstantsAssumption DEF ReadHeight, RecentSafe
    <3>2. /\ new.scanned_block_height \in Nat
          /\ new.scanned_block_height <= request[h].old.scanned_block_height
      BY <1>0, <2>1, <2>3, <3>1 DEF RecentRow, RecentFrom, Request, Row
    <3>3. ScannedBelow(new.scanned_block_height)
      BY <1>0, <3>2, ScannedBelowSmaller DEF Request, Row
    <3>4. request' = [request EXCEPT ![h].at = "update", ![h].new = new]
      BY <1>5, <2>3 DEF ReadHeight
    <3> HIDE DEF new
    <3>5. (\A k \in Handlers : RequestComplete(k))'
      BY <1>0, <1>5, <3>3, <3>4 DEF ReadHeight, IInv, TypeOK, Request,
                                    RequestComplete, ScannedBelow, At
    <3>6. QED
      BY <1>5, <3>5 DEF ReadHeight, IInv, RangeComplete, ScannedBelow
  <2>4. QED  BY <2>2, <2>3
<1>6. CASE SelectPayment(h)
  <2>1. Rest  BY <1>6, FinishComplete, ProceedComplete DEF SelectPayment
  <2>2. QED
    BY <1>6, <2>1 DEF SelectPayment, IInv, RangeComplete, ScannedBelow
<1>7. CASE SearchIfPaymentMade(h)
  <2>1. Rest
    BY <1>7, FinishComplete, ProceedComplete DEF SearchIfPaymentMade
  <2>2. QED
    BY <1>7, <2>1 DEF SearchIfPaymentMade, IInv, RangeComplete, ScannedBelow
<1>8. CASE FulfilPayment(h)
  <2>1. Rest  BY <1>8, FinishComplete, ProceedComplete DEF FulfilPayment
  <2>2. QED
    BY <1>8, <2>1 DEF FulfilPayment, IInv, RangeComplete, ScannedBelow
<1>9. CASE UpdateRow(h)
  <2>1. Rest  BY <1>9, FinishComplete, ProceedComplete DEF UpdateRow
  <2>2. row' = row \/ row' = request[h].new
    BY <1>9 DEF UpdateRow, RowUpdated, RowNotUpdated
  <2>3. QED
    BY <1>0, <1>9, <2>1, <2>2 DEF UpdateRow, IInv, RangeComplete, ScannedBelow
<1>10. CASE SetSearchedBlkNo(h)
  <2>1. Rest  BY <1>10, FinishComplete, ProceedComplete DEF SetSearchedBlkNo
  <2>2. \/ searched_blk_no' = searched_blk_no
        \/ searched_blk_no' = request[h].new.scanned_block_height
    BY <1>10 DEF SetSearchedBlkNo
  <2>3. QED
    BY <1>0, <1>10, <2>1, <2>2
    DEF SetSearchedBlkNo, IInv, RangeComplete, ScannedBelow
<1>11. CASE SetUpdatedFlag(h)
  <2>1. Rest  BY <1>11, FinishComplete, ProceedComplete DEF SetUpdatedFlag
  <2>2. QED
    BY <1>11, <2>1 DEF SetUpdatedFlag, IInv, RangeComplete, ScannedBelow
<1>12. CASE UpdateAcc(h)
  <2>1. Rest  BY <1>12, FinishComplete DEF UpdateAcc
  <2>2. QED
    BY <1>12, <2>1 DEF UpdateAcc, IInv, RangeComplete, ScannedBelow
<1>13. CASE StartFails(h)
  <2>1. Rest  BY <1>13, FinishComplete DEF StartFails
  <2>2. QED
    BY <1>13, <2>1 DEF StartFails, IInv, RangeComplete, ScannedBelow
<1>14. QED
  BY <1>1, <1>2, <1>3, <1>4, <1>5, <1>6, <1>7, <1>8, <1>9, <1>10, <1>11,
     <1>12, <1>13 DEF HandlerStep

\* IInv is an inductive invariant of every configuration in which imports are
\* paid for or recent imports are not offered.
THEOREM Invariance == RecentSafe => (Spec => []IInv)
<1> SUFFICES ASSUME RecentSafe PROVE Spec => []IInv
  OBVIOUS
<1>1. ASSUME Init, TypeOK PROVE IInv
  <2>1. \A h \in Handlers : RequestComplete(h)
    BY <1>1 DEF Init, TypeOK, RequestComplete, ScannedBelow, At, Free, EmptyRow
  <2>2. ScannedBelow(row.scanned_block_height)
    BY <1>1 DEF Init, TypeOK, ScannedBelow
  <2>3. ScannedBelow(searched_blk_no) /\ RangeComplete
    BY <1>1 DEF Init, TypeOK, ScannedBelow, RangeComplete
  <2>4. QED  BY <1>1, <2>1, <2>2, <2>3 DEF IInv
<1>2. ASSUME IInv, TypeOK', [Next]_vars PROVE IInv'
  <2>1. CASE UNCHANGED vars
    BY <1>2, <2>1 DEF vars, IInv, RangeComplete, RequestComplete,
                      ScannedBelow, At
  <2>2. CASE Next
    BY <1>2, <2>2, EnvironmentComplete, SearchThreadComplete, HandlerComplete
    DEF Next
  <2>3. QED  BY <1>2, <2>1, <2>2
<1>3. QED  BY <1>1, <1>2, Typing, PTL DEF Spec

\* No block is skipped below the position of the search thread or below the
\* saved height, whatever the interleaving of imports, polls, reorganisations,
\* database failures and crashes.
THEOREM NoBlockIsSkipped == RecentSafe => (Spec => []NoBlockSkipped)
<1> SUFFICES ASSUME RecentSafe PROVE Spec => []NoBlockSkipped
  OBVIOUS
<1>1. IInv => NoBlockSkipped
  BY DEF IInv, NoBlockSkipped
<1>2. QED  BY <1>1, Invariance, PTL

-------------------------------------------------------------------------------
(***************************************************************************)
(* Refinement                                                              *)
(***************************************************************************)
\* Only the search thread scans, and only in ScanBlocks.
LEMMA OnlyScanBlocksScans ==
    ASSUME [Next]_vars
    PROVE  ScanBlocks \/ UNCHANGED <<base, scanned>>
<1>1. CASE UNCHANGED vars  BY <1>1 DEF vars
<1>2. CASE MineBlock \/ PopBlock \/ UpdateCurrentHeight \/ CleanSearchThread
  BY <1>2 DEF MineBlock, PopBlock, UpdateCurrentHeight, CleanSearchThread
<1>3. CASE SearchThread
  BY <1>3 DEF SearchThread, BeginSearch, EnterLoop,
     LeaveLoop, ReadPosition, FetchBlocks, NoBlocks, WakeUp, SavePosition,
     TestUpdatedFlag, StorePosition, ClearUpdatedFlag, EndThread,
     GetTxs, MissTransactions, ScanThrows
<1>4. ASSUME NEW h \in Handlers,
             NewRequest(h) \/ HandlerStep(h) \/ StartFails(h)
      PROVE  UNCHANGED <<base, scanned>>
  BY <1>4 DEF NewRequest, HandlerStep, StartFails, Login, GetAddressInfo,
     ImportWalletRequest, ImportRecentWalletRequest, SelectAccount,
     StartSearchThread, PingSearchThread, CompareSearchedBlk, ReadHeight,
     SelectPayment, SearchIfPaymentMade, FulfilPayment, UpdateRow,
     SetSearchedBlkNo, SetUpdatedFlag, UpdateAcc
<1>5. CASE Pay \/ PingExpires \/ Crash
  BY <1>5 DEF Pay, PingExpires, Crash
<1>6. QED  BY <1>1, <1>2, <1>3, <1>4, <1>5 DEF Next

\* The account implements ScanLedger, so a reader of the ledger need not know
\* of threads, handlers or mutexes.
THEOREM Refinement == RecentSafe => (Spec => LedgerSpec)
<1> SUFFICES ASSUME RecentSafe PROVE Spec => LedgerSpec
  OBVIOUS
<1>1. Init /\ IInv => Ledger!Init
  BY DEF Init, IInv, TypeOK, Ledger!Init, SearchThreadExists
<1>2. ASSUME IInv, IInv', [Next]_vars
      PROVE  [Ledger!Next]_(Ledger!ledger)
  <2>1. CASE UNCHANGED <<base, scanned>>
    <3>1. Ledger!Move
      BY <1>2, <2>1 DEF Ledger!Move, Ledger!Complete, IInv, ScannedBelow,
                        SearchThreadExists
    <3>2. QED  BY <3>1 DEF Ledger!Next
  <2>2. CASE ScanBlocks
    <3>1. base \in Nat /\ h1 \in Nat /\ h2 \in Nat /\ scanned \subseteq Nat
      BY <1>2 DEF IInv, TypeOK
    <3>2. base .. (h1 - 1) \subseteq scanned
      BY <1>2 DEF IInv, RangeComplete, ScannedBelow
    <3>3. scanned' = scanned \union (h1 .. h2)
      BY <2>2 DEF ScanBlocks
    <3>4. ASSUME NEW b \in scanned' \ scanned, b > base
          PROVE  b - 1 \in scanned'
      <4>1. b \in h1 .. h2  BY <3>3, <3>4
      <4>2. CASE b = h1
        BY <3>1, <3>2, <3>3, <3>4, <4>2
      <4>3. CASE b > h1
        BY <3>1, <3>3, <4>1, <4>3
      <4>4. QED  BY <3>1, <4>1, <4>2, <4>3
    <3>5. /\ UNCHANGED <<base, searched_blk_no, row>>
          /\ SearchThreadExists' = SearchThreadExists
      BY <2>2 DEF ScanBlocks, Goto, SearchThreadExists
    <3>6. Ledger!Scan
      BY <3>3, <3>4, <3>5 DEF Ledger!Scan
    <3>7. QED  BY <3>6 DEF Ledger!Next
  <2>3. QED  BY <1>2, <2>1, <2>2, OnlyScanBlocksScans
<1>3. QED
  BY <1>1, <1>2, Invariance, PTL DEF Spec, LedgerSpec, Ledger!Spec

-------------------------------------------------------------------------------
(***************************************************************************)
(* Paid imports                                                            *)
(*                                                                         *)
(* The update of an import fails without a fault only when it changes      *)
(* nothing, that is when the row has start_height 0 already.  Until the    *)
(* import no copy of the row has: each copy still has the start_height of  *)
(* the creation, and an account with a fee was not created at height 0.    *)
(***************************************************************************)
Imports == {"payment", "check", "fulfil", "update"}

\* What is known of request r of an account created at b; done if an import
\* has reset the row.
Importing(r, b, done) ==
    /\ r.at \in {"payment", "check", "fulfil"} =>
          r.kind = "wallet" /\ ImportFee # 0
    /\ r.at \in Imports /\ r.kind = "wallet" => r.new = EmptyRow
    /\ r.at \in {"set", "setflag", "acc"} /\ r.kind = "wallet" => done
    /\ r.at \in {"update", "set", "setflag", "acc"} /\ r.kind # "wallet" =>
          r.new.start_height = r.old.start_height
    /\ r.at # "free" => done \/ r.old.start_height = b
    /\ r.at \in {"ping", "read"} => r.kind = "info"
    /\ r.at = "height" => r.kind = "recent"

\* A handler is about to reset the row for a payment it has just fulfilled.
ImportPending ==
    \E h \in Handlers : At(h, "update") /\ request[h].kind = "wallet"

ImportInv ==
    /\ base = 0 => ImportFee = 0
    /\ payment = "fulfilled" => ImportFee # 0
    /\ imported \/ row.start_height = base
    /\ imported \/ thread = "none" \/ acc.start_height = base
    /\ \A h \in Handlers : Importing(request[h], base, imported)
    /\ payment = "fulfilled" /\ faults = 0 => imported \/ ImportPending

\* A step that changes no row but may drop the search thread's copy.
LEMMA ImportFramed ==
    ASSUME ImportInv, UNCHANGED <<base, row, payment, imported, request>>,
           \/ thread' = "none"
           \/ acc' = acc /\ (thread = "none" => thread' = "none"),
           faults' = 0 => faults = 0
    PROVE  ImportInv'
BY DEF ImportInv, ImportPending, At

LEMMA EnvironmentImports ==
    ASSUME TypeOK, ImportInv,
           MineBlock \/ PopBlock \/ UpdateCurrentHeight \/ CleanSearchThread
             \/ Pay \/ PingExpires \/ Crash
    PROVE  ImportInv'
<1>1. CASE MineBlock \/ PopBlock \/ UpdateCurrentHeight \/ Pay \/ PingExpires
  BY <1>1, ImportFramed
  DEF MineBlock, PopBlock, UpdateCurrentHeight, Pay, PingExpires
<1>2. CASE CleanSearchThread
  BY <1>2, ImportFramed DEF CleanSearchThread, NoThread
<1>3. CASE Crash
  <2>1. faults' # 0 /\ thread' = "none" /\ UNCHANGED <<row, payment, imported, base>>
    BY <1>3 DEF Crash, Fault, NoThread, TypeOK
  <2>2. \A h \in Handlers : Importing(request'[h], base', imported')
    BY <1>3 DEF Crash, Importing, Imports, Free
  <2>3. QED
    BY <2>1, <2>2 DEF ImportInv
<1>4. QED
  BY <1>1, <1>2, <1>3

LEMMA SearchThreadImports ==
    ASSUME TypeOK, ImportInv, SearchThread
    PROVE  ImportInv'
<1>1. CASE SavePosition
  <2>1. UNCHANGED <<base, payment, imported, request>>
    BY <1>1 DEF SavePosition
  <2>2. thread # "none" /\ (faults' = 0 => faults = 0)
    BY <1>1 DEF SavePosition, Goto, RowUpdated, RowNotUpdated, Fault, TypeOK
  <2>3. acc'.start_height = acc.start_height
    BY <1>1 DEF SavePosition, RowUpdated, RowNotUpdated, TypeOK, Row
  <2>4. row'.start_height \in {row.start_height, acc.start_height}
    BY <1>1 DEF SavePosition, RowUpdated, RowNotUpdated, TypeOK, Row
  <2>5. QED
    BY <2>1, <2>2, <2>3, <2>4 DEF ImportInv, ImportPending, At
<1>2. CASE MissTransactions \/ ScanThrows
  BY <1>2, ImportFramed DEF MissTransactions, ScanThrows, Fault, Goto, TypeOK
<1>3. CASE SearchThread /\ ~(SavePosition \/ MissTransactions \/ ScanThrows)
  BY <1>3, ImportFramed
  DEF SearchThread, BeginSearch, EnterLoop, LeaveLoop, ReadPosition,
      FetchBlocks, NoBlocks, WakeUp, GetTxs, ScanBlocks, TestUpdatedFlag, StorePosition,
      ClearUpdatedFlag, EndThread, Goto
<1>4. QED
  BY <1>1, <1>2, <1>3

\* The other handlers are not disturbed by a step of handler h.
LEMMA OthersImporting ==
    ASSUME ImportInv, NEW h \in Handlers, base' = base, imported => imported',
           \A k \in Handlers : k # h => request'[k] = request[k],
           Importing(request'[h], base', imported')
    PROVE  \A k \in Handlers : Importing(request'[k], base', imported')
BY DEF ImportInv, Importing

\* A handler that is not about to update the row leaves the payment alone.
LEMMA HandlerFramed ==
    ASSUME ImportInv, NEW h \in Handlers, ~At(h, "update"),
           UNCHANGED <<base, row, payment, imported>>,
           imported \/ thread' = "none" \/ acc'.start_height = base,
           \A k \in Handlers : k # h => request'[k] = request[k],
           Importing(request'[h], base', imported'),
           faults' = 0 => faults = 0
    PROVE  ImportInv'
<1>1. \A k \in Handlers : Importing(request'[k], base', imported')
  BY OthersImporting
<1>2. ImportPending => ImportPending'
  BY DEF ImportPending, At
<1>3. QED
  BY <1>1, <1>2 DEF ImportInv

\* The steps that end a request or move it on.
LEMMA FinishImporting ==
    ASSUME TypeOK, NEW h \in Handlers, Finish(h), NEW b, NEW done
    PROVE  /\ \A k \in Handlers : k # h => request'[k] = request[k]
           /\ Importing(request'[h], b, done)
BY DEF TypeOK, Finish, Free, Importing, Imports

LEMMA ProceedOthers ==
    ASSUME TypeOK, NEW h \in Handlers, NEW state, Proceed(h, state)
    PROVE  /\ \A k \in Handlers : k # h => request'[k] = request[k]
           /\ request'[h].at = state /\ request'[h].kind = request[h].kind
           /\ request'[h].old = request[h].old
           /\ request'[h].new = request[h].new
BY DEF TypeOK, Request, Proceed

LEMMA SelectImporting ==
    ASSUME TypeOK, ImportInv, NEW h \in Handlers, NewRequest(h)
    PROVE  ImportInv'
<1>1. PICK kind, n, state :
        /\ SelectAccount(h, kind, n, state)
        /\ \/ kind \in {"login", "info"} /\ state = "start"
           \/ kind = "wallet" /\ state = "update"
           \/ kind = "wallet" /\ state = "payment" /\ ImportFee # 0
           \/ kind = "recent" /\ state = "height"
  BY DEF NewRequest, Login, GetAddressInfo, ImportWalletRequest,
         ImportRecentWalletRequest
<1>2. request'[h] = [at |-> state, kind |-> kind, old |-> row,
                     new |-> EmptyRow, n |-> n]
  BY <1>1 DEF SelectAccount, TypeOK
<1>3. \A k \in Handlers : k # h => request'[k] = request[k]
  BY <1>1 DEF SelectAccount, TypeOK
<1>4. UNCHANGED <<base, row, payment, imported, acc, thread, faults>>
  BY <1>1 DEF SelectAccount
<1>5. Importing(request'[h], base', imported')
  BY <1>1, <1>2, <1>4 DEF Importing, Imports, ImportInv
<1>6. ~At(h, "update")
  BY <1>1 DEF SelectAccount, At
<1>7. QED
  BY <1>3, <1>4, <1>5, <1>6, HandlerFramed DEF ImportInv

LEMMA HandlerImports ==
    ASSUME TypeOK, ImportInv, NEW h \in Handlers, HandlerStep(h) \/ StartFails(h)
    PROVE  ImportInv'
<1> DEFINE Others == \A k \in Handlers : k # h => request'[k] = request[k]
           Mine == Importing(request'[h], base', imported')
<1>0. Importing(request[h], base, imported) /\ request[h] \in Request
  BY DEF ImportInv, TypeOK
<1>1. CASE StartSearchThread(h)
  <2>1. UNCHANGED <<base, row, payment, imported, faults>> /\ At(h, "start")
    BY <1>1 DEF StartSearchThread
  <2>2. Others /\ Mine
    BY <1>0, <1>1, <2>1, FinishImporting, ProceedOthers
    DEF StartSearchThread, Importing, Imports, At
  <2>3. imported \/ thread' = "none" \/ acc'.start_height = base
    BY <1>0, <1>1, <2>1 DEF StartSearchThread, SearchThreadExists, Importing,
                            ImportInv, At
  <2>4. QED
    BY <2>1, <2>2, <2>3, HandlerFramed DEF At
<1>2. CASE PingSearchThread(h)
  <2>1. UNCHANGED <<base, row, payment, imported, faults, thread, acc>>
        /\ At(h, "ping") /\ Proceed(h, "read")
    BY <1>2 DEF PingSearchThread
  <2>2. Others /\ Mine
    BY <1>0, <2>1, ProceedOthers DEF Importing, Imports, At
  <2>3. QED
    BY <2>1, <2>2, HandlerFramed DEF At, ImportInv
<1>3. CASE CompareSearchedBlk(h)
  <2>1. UNCHANGED <<base, row, payment, imported, faults, thread, acc>>
        /\ At(h, "read")
    BY <1>3 DEF CompareSearchedBlk
  <2>2. CASE Finish(h)
    BY <2>1, <2>2, FinishImporting, HandlerFramed DEF At, ImportInv
  <2>3. CASE request' = [request EXCEPT ![h].at = "set",
                                        ![h].new = request[h].old]
    <3>1. /\ Others /\ request'[h].at = "set"
          /\ request'[h].kind = request[h].kind
          /\ request'[h].old = request[h].old /\ request'[h].new = request[h].old
      BY <2>3 DEF TypeOK, Request
    <3>2. Mine
      BY <1>0, <2>1, <3>1 DEF Importing, Imports, At
    <3>3. QED
      BY <2>1, <3>1, <3>2, HandlerFramed DEF At, ImportInv
  <2>4. QED
    BY <1>3, <2>2, <2>3 DEF CompareSearchedBlk
<1>4. CASE ReadHeight(h)
  <2>1. UNCHANGED <<base, row, payment, imported, faults, thread, acc>>
        /\ At(h, "height")
    BY <1>4 DEF ReadHeight
  <2>2. CASE Finish(h)
    BY <2>1, <2>2, FinishImporting, HandlerFramed DEF At, ImportInv
  <2>3. CASE \E n : request' = [request EXCEPT ![h].at = "update",
                                  ![h].new = RecentRow(request[h].old, n)]
    <3>1. PICK n : request' = [request EXCEPT ![h].at = "update",
                                 ![h].new = RecentRow(request[h].old, n)]
      BY <2>3
    <3>2. /\ Others /\ request'[h].at = "update"
          /\ request'[h].kind = request[h].kind
          /\ request'[h].old = request[h].old
          /\ request'[h].new = RecentRow(request[h].old, n)
      BY <3>1 DEF TypeOK, Request
    <3>3. RecentRow(request[h].old, n).start_height = request[h].old.start_height
      BY <1>0 DEF RecentRow, Request, Row
    <3>4. Mine
      BY <1>0, <2>1, <3>2, <3>3 DEF Importing, Imports, At
    <3>5. QED
      BY <2>1, <3>2, <3>4, HandlerFramed DEF At, ImportInv
  <2>4. QED
    BY <1>4, <2>2, <2>3 DEF ReadHeight
<1>5. CASE SelectPayment(h)
  <2>1. UNCHANGED <<base, row, imported, thread, acc>> /\ At(h, "payment")
    BY <1>5 DEF SelectPayment
  <2>2. /\ payment' = "fulfilled" => payment = "fulfilled"
        /\ faults' = 0 => faults = 0
        /\ Finish(h) \/ Proceed(h, "check")
    BY <1>5 DEF SelectPayment, Fault, TypeOK
  <2>3. Others /\ Mine
    BY <1>0, <2>1, <2>2, FinishImporting, ProceedOthers DEF Importing, Imports, At
  <2>4. ImportPending => ImportPending'
    BY <2>1, <2>3 DEF ImportPending, At
  <2>5. QED
    BY <2>1, <2>2, <2>3, <2>4, OthersImporting DEF ImportInv
<1>6. CASE SearchIfPaymentMade(h)
  <2>1. UNCHANGED <<base, row, payment, imported, faults, thread, acc>>
        /\ At(h, "check") /\ (Finish(h) \/ Proceed(h, "fulfil"))
    BY <1>6 DEF SearchIfPaymentMade
  <2>2. Others /\ Mine
    BY <1>0, <2>1, FinishImporting, ProceedOthers DEF Importing, Imports, At
  <2>3. QED
    BY <2>1, <2>2, HandlerFramed DEF At, ImportInv
<1>7. CASE FulfilPayment(h)
  <2>1. UNCHANGED <<base, row, imported, thread, acc>> /\ At(h, "fulfil")
    BY <1>7 DEF FulfilPayment
  <2>2. CASE payment' = "fulfilled" /\ Proceed(h, "update") /\ UNCHANGED faults
    <3>1. /\ Others /\ Mine
          /\ request'[h].at = "update" /\ request'[h].kind = "wallet"
          /\ ImportFee # 0
      BY <1>0, <2>1, <2>2, ProceedOthers DEF Importing, Imports, At
    <3>2. ImportPending'
      BY <3>1 DEF ImportPending, At
    <3>3. QED
      BY <2>1, <3>1, <3>2, OthersImporting DEF ImportInv
  <2>3. CASE UNCHANGED payment /\ Finish(h) /\ (faults' = 0 => faults = 0)
    BY <2>1, <2>3, FinishImporting, HandlerFramed DEF At, ImportInv
  <2>4. QED
    BY <1>7, <2>2, <2>3 DEF FulfilPayment, Fault, TypeOK
<1>8. CASE UpdateRow(h)
  <2>1. UNCHANGED <<base, payment, thread, acc>> /\ At(h, "update")
    BY <1>8 DEF UpdateRow
  <2>2. CASE /\ RowUpdated(request[h].new) /\ Proceed(h, "set")
             /\ imported' = (imported \/ request[h].kind = "wallet")
    <3>0. /\ Proceed(h, "set") /\ base' = base /\ request[h].at = "update"
          /\ imported => imported'
          /\ request[h].kind = "wallet" => imported'
      BY <2>1, <2>2 DEF At
    <3>1. Others /\ Mine
      BY <1>0, <3>0, ProceedOthers DEF Importing, Imports
    <3>2. imported' \/ row'.start_height = base
      BY <1>0, <2>1, <2>2 DEF RowUpdated, Importing, At
    <3>3. ImportPending => imported' \/ ImportPending'
      BY <2>2, <3>1 DEF ImportPending, At
    <3>4. UNCHANGED faults
      BY <2>2 DEF RowUpdated
    <3>5. QED
      BY <2>1, <2>2, <3>1, <3>2, <3>3, <3>4, OthersImporting DEF ImportInv
  <2>3. CASE RowNotUpdated(request[h].new) /\ Finish(h) /\ UNCHANGED imported
    <3>1. Others /\ Mine
      BY <2>3, FinishImporting
    <3>2. UNCHANGED row /\ (faults' = 0 => faults = 0 /\ row = request[h].new)
      BY <2>3 DEF RowNotUpdated, Fault, TypeOK
    <3>3. ASSUME payment = "fulfilled", faults' = 0, ~imported
          PROVE  request[h].kind # "wallet"
      <4>1. row.start_height # 0
        BY <3>3 DEF ImportInv
      <4>2. row = request[h].new
        BY <3>2, <3>3
      <4>3. QED
        BY <1>0, <2>1, <4>1, <4>2 DEF Importing, Imports, At, EmptyRow
    <3>4. payment' = "fulfilled" /\ faults' = 0 => imported' \/ ImportPending'
      BY <2>1, <2>3, <3>1, <3>2, <3>3 DEF ImportInv, ImportPending, At
    <3>5. QED
      BY <2>1, <2>3, <3>1, <3>2, <3>4, OthersImporting DEF ImportInv
  <2>4. QED
    BY <1>8, <2>2, <2>3 DEF UpdateRow
<1>9. CASE SetSearchedBlkNo(h) \/ SetUpdatedFlag(h)
  <2>1. /\ UNCHANGED <<base, row, payment, imported, faults, thread, acc>>
        /\ \/ At(h, "set") /\ (Finish(h) \/ Proceed(h, "setflag"))
           \/ At(h, "setflag") /\ (Finish(h) \/ Proceed(h, "acc"))
    BY <1>9 DEF SetSearchedBlkNo, SetUpdatedFlag
  <2>2. Others /\ Mine
    BY <1>0, <2>1, FinishImporting, ProceedOthers DEF Importing, Imports, At
  <2>3. QED
    BY <2>1, <2>2, HandlerFramed DEF At, ImportInv
<1>10. CASE UpdateAcc(h)
  <2>1. UNCHANGED <<base, row, payment, imported, faults, thread>>
        /\ At(h, "acc") /\ Finish(h)
    BY <1>10 DEF UpdateAcc
  <2>2. imported \/ thread' = "none" \/ acc'.start_height = base
    BY <1>0, <1>10, <2>1 DEF UpdateAcc, Importing, ImportInv, At
  <2>3. QED
    BY <2>1, <2>2, FinishImporting, HandlerFramed DEF At
<1>11. CASE StartFails(h)
  <2>1. UNCHANGED <<base, row, payment, imported, thread, acc>>
        /\ At(h, "start") /\ Finish(h) /\ faults' # 0
    BY <1>11 DEF StartFails, Fault, TypeOK
  <2>2. QED
    BY <2>1, FinishImporting, HandlerFramed DEF At, ImportInv
<1>12. QED
  BY <1>1, <1>2, <1>3, <1>4, <1>5, <1>6, <1>7, <1>8, <1>9, <1>10, <1>11
  DEF HandlerStep

\* A fulfilled payment has been answered with the import or is about to be,
\* unless something failed in between: two handlers that find the same payment
\* do not spoil each other's import.  The chain had more than its first block
\* when the account was created.
THEOREM PaidIsImported == FirstHeight > 0 => (Spec => []FulfilledMeansImported)
<1> SUFFICES ASSUME FirstHeight > 0 PROVE Spec => []FulfilledMeansImported
  OBVIOUS
<1>1. Init => ImportInv
  BY ConstantsAssumption
  DEF Init, ImportInv, CreatedAt, Importing, Imports, Free
<1>2. TypeOK /\ ImportInv /\ [Next]_vars => ImportInv'
  <2> SUFFICES ASSUME TypeOK, ImportInv, [Next]_vars PROVE ImportInv'
    OBVIOUS
  <2>1. CASE UNCHANGED vars
    BY <2>1, ImportFramed DEF vars
  <2>2. QED
    BY <2>1, EnvironmentImports, SearchThreadImports, SelectImporting,
       HandlerImports DEF Next
<1>3. ImportInv => FulfilledMeansImported
  BY DEF ImportInv, ImportPending, FulfilledMeansImported
<1>4. QED
  BY <1>1, <1>2, <1>3, Typing, PTL DEF Spec

===============================================================================
