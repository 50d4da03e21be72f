---------------------------- MODULE AccountsProofs ----------------------------
(***************************************************************************)
(* Theorems about Accounts, for any clients, keys, payment ids and fee.    *)
(*                                                                         *)
(* A handler acts on what it selected some statements ago.  That is safe   *)
(* because the key of an account never changes once it exists, so that     *)
(* whatever a handler has learnt from its row remains true of the table.   *)
(***************************************************************************)
EXTENDS Accounts, FiniteSetTheorems, TLAPS

\* The request r sent the key with which the account row was created.
Admitted(r, row) == row # Nothing /\ row.viewkey_hash = r.key

\* What a handler with request r may rely on, if row is the account.
Knowing(r, row) ==
    /\ r.acc # Nothing => row = r.acc
    /\ r.viewkey # Nothing => row # Nothing /\ row.viewkey_hash = r.viewkey
    /\ r.pc \in {"make", "launch"} => r.acc # Nothing
    /\ r.pc \in {"make", "payment"} => r.kind = "wallet"
    /\ r.pc = "launch" => r.viewkey # Nothing
    /\ r.pc \in {"payment", "insertpayment"} => Admitted(r, row)
    /\ r.pc = "launch" /\ r.kind # "wallet" => Admitted(r, row)
    /\ r.pc \in {"select", "create", "insert"}
          => r.kind \in {"wallet", "login", "create"} /\ r.key # Nothing
    /\ r.answer \in {"success", "pay"} /\ r.kind \notin {"create", "ping"}
          => Admitted(r, row)

Known == \A h \in Handlers : Knowing(request[h], account)

\* At most one payment record, and clients were told of no other.
OneRecord ==
    /\ payments = {} \/ \E id \in PaymentIds : payments = {id}
    /\ told \subseteq payments

IInv == TypeOK /\ Known /\ ThreadHasKeyOfAccount /\ OneRecord

-------------------------------------------------------------------------------
\* What was learnt of an account remains true, and nothing was learnt before
\* there was one.
LEMMA KnowingKept ==
    ASSUME NEW r \in Requests, NEW row, NEW next,
           Knowing(r, row), row # Nothing => next = row
    PROVE  Knowing(r, next)
BY DEF Knowing, Admitted

\* A step of one handler to a request that relies on nothing false.
LEMMA StepKeeps ==
    ASSUME TypeOK, Known, NEW h \in Handlers, NEW r \in Requests,
           Step(h, r), Knowing(r, account'),
           account # Nothing => account' = account
    PROVE  request' \in [Handlers -> Requests] /\ Known'
<1>1. request' = [request EXCEPT ![h] = r] /\ request \in [Handlers -> Requests]
  BY DEF Step, TypeOK
<1>2. request' \in [Handlers -> Requests]
  BY <1>1
<1>3. ASSUME NEW g \in Handlers PROVE Knowing(request'[g], account')
  <2>1. CASE g = h
    <3>1. request'[g] = r
      BY <1>1, <2>1
    <3> QED
      BY <3>1
  <2>2. CASE g # h
    <3>1. request'[g] = request[g] /\ request[g] \in Requests
      BY <1>1, <2>2
    <3>2. Knowing(request[g], account)
      BY DEF Known
    <3>3. Knowing(request[g], account')
      BY <3>1, <3>2, KnowingKept
    <3> QED
      BY <3>1, <3>3
  <2> QED
    BY <2>1, <2>2
<1> QED
  BY <1>2, <1>3 DEF Known

LEMMA FreeGood == Free \in Requests /\ \A row : Knowing(Free, row)
BY DEF Free, Requests, Knowing, Admitted

\* An answer relies on nothing but the admission it may grant.
LEMMA AnswerGood ==
    ASSUME TypeOK, Known, NEW h \in Handlers,
           NEW a \in {"success", "pay", "error"}, Answer(h, a),
           account # Nothing => account' = account,
           \/ a = "error" \/ request[h].kind = "create"
           \/ Admitted(request[h], account')
    PROVE  request' \in [Handlers -> Requests] /\ Known'
<1> DEFINE r == [Free EXCEPT !.pc = "answered", !.answer = a,
                             !.kind = request[h].kind, !.key = request[h].key]
<1>1. request[h] \in Requests
  BY DEF TypeOK
<1>2. r \in Requests /\ Knowing(r, account')
  BY <1>1 DEF Free, Requests, Knowing, Admitted
<1>3. Step(h, r)
  BY DEF Answer
<1> HIDE DEF r
<1> QED
  BY <1>2, <1>3, StepKeeps

-------------------------------------------------------------------------------
LEMMA InitEstablishes == Init => IInv
<1> SUFFICES ASSUME Init PROVE IInv
  OBVIOUS
<1>1. TypeOK
  BY FreeGood, AccountsAssumption DEF Init, TypeOK
<1>2. Known
  BY FreeGood DEF Init, Known
<1> QED
  BY <1>1, <1>2 DEF Init, IInv, ThreadHasKeyOfAccount, OneRecord

\* What is left to show of a step that changes only a request and faults.
LEMMA Framed ==
    ASSUME IInv, request' \in [Handlers -> Requests], Known',
           UNCHANGED <<tables, thread, static_viewkey, told>>,
           Fault \/ UNCHANGED faults
    PROVE  IInv'
<1>1. faults' \in Nat
  BY DEF IInv, TypeOK, Fault
<1> QED
  BY <1>1 DEF IInv, TypeOK, tables, ThreadHasKeyOfAccount, OneRecord

LEMMA NewRequestKeeps ==
    ASSUME IInv, NEW h \in Handlers, NewRequest(h) PROVE IInv'
<1>1. PICK kind \in {"login", "create", "info", "wallet"}, key \in Keys :
         Step(h, [Free EXCEPT !.kind = kind, !.key = key,
                              !.pc = IF kind = "info" THEN "start"
                                                      ELSE "select"])
  BY DEF NewRequest
<1> DEFINE r == [Free EXCEPT !.kind = kind, !.key = key,
                             !.pc = IF kind = "info" THEN "start" ELSE "select"]
<1>2. r \in Requests /\ Knowing(r, account)
  BY AccountsAssumption DEF Free, Requests, Knowing, Admitted
<1>3. Step(h, r)
  BY <1>1
<1>4. account' = account
  BY DEF NewRequest, tables
<1> HIDE DEF r
<1>5. request' \in [Handlers -> Requests] /\ Known'
  BY <1>2, <1>3, <1>4, StepKeeps DEF IInv
<1> QED
  BY <1>5, Framed DEF NewRequest

LEMMA GetViewkeyTyped ==
    ASSUME TypeOK, thread # Nothing, GetViewkey
    PROVE  static_viewkey' \in StaticKeys
<1>1. thread \in Keys /\ TRUE \in BOOLEAN
  BY DEF TypeOK
<1>2. [key |-> thread, own |-> TRUE] \in StaticKeys
  BY <1>1 DEF StaticKeys
<1> QED
  BY <1>2 DEF GetViewkey, TypeOK

LEMMA PingKeeps ==
    ASSUME IInv, NEW h \in Handlers, Ping(h) PROVE IInv'
<1>1. PICK key \in Keys, answer \in {"success", "error"} :
         Step(h, [Free EXCEPT !.kind = "ping", !.key = key,
                              !.pc = "answered", !.answer = answer])
  BY DEF Ping
<1> DEFINE r == [Free EXCEPT !.kind = "ping", !.key = key,
                             !.pc = "answered", !.answer = answer]
<1>2. r \in Requests /\ Knowing(r, account)
  BY DEF Free, Requests, Knowing, Admitted
<1>3. Step(h, r)
  BY <1>1
<1>4. account' = account
  BY DEF Ping, tables
<1> HIDE DEF r
<1>5. request' \in [Handlers -> Requests] /\ Known'
  BY <1>2, <1>3, <1>4, StepKeeps DEF IInv
<1>6. static_viewkey' \in StaticKeys \union {Nothing}
  <2>1. UNCHANGED static_viewkey \/ (thread # Nothing /\ GetViewkey)
    BY DEF Ping
  <2> QED
    BY <2>1, GetViewkeyTyped DEF IInv, TypeOK
<1> QED
  BY <1>5, <1>6 DEF Ping, tables, IInv, TypeOK, ThreadHasKeyOfAccount, OneRecord

\* Going on to another step, with what the handler has to know there.
LEMMA ProceedGood ==
    ASSUME TypeOK, Known, NEW h \in Handlers, NEW l, Proceed(h, l),
           account # Nothing => account' = account,
           \/ l = "start"
           \/ l = "create" /\ At(h, "select")
           \/ l = "insert" /\ At(h, "create")
           \/ /\ l = "launch" /\ request[h].kind = "wallet"
              /\ request[h].acc # Nothing /\ request[h].viewkey # Nothing
           \/ /\ l \in {"payment", "insertpayment"}
              /\ Admitted(request[h], account) /\ request[h].kind = "wallet"
    PROVE  request' \in [Handlers -> Requests] /\ Known'
<1> DEFINE r == [request[h] EXCEPT !.pc = l]
<1>1. request[h] \in Requests /\ Knowing(request[h], account)
  BY DEF TypeOK, Known
<1>2. r \in Requests
  BY <1>1 DEF Requests
<1>3. Knowing(r, account)
  BY <1>1 DEF Requests, Knowing, Admitted, At
<1>4. Step(h, r)
  BY DEF Proceed
<1> HIDE DEF r
<1>5. Knowing(r, account')
  BY <1>2, <1>3, KnowingKept
<1> QED
  BY <1>2, <1>4, <1>5, StepKeeps

LEMMA SelectAccountKeeps ==
    ASSUME IInv, NEW h \in Handlers, SelectAccount(h) PROVE IInv'
<1>1. TypeOK /\ Known /\ account' = account
  BY DEF IInv, SelectAccount, tables
<1>2. request[h].kind \in {"wallet", "login", "create"}
  BY <1>1 DEF SelectAccount, At, Known, Knowing
<1>3. PICK row \in {account, Nothing} :
         /\ Selected(row)
         /\ \/ row = Nothing /\ Proceed(h, "create")
            \/ /\ row # Nothing /\ ~Owns(h, row)
               /\ IF request[h].kind = "wallet" THEN Answer(h, "error")
                                                ELSE Proceed(h, "create")
            \/ /\ row # Nothing /\ Owns(h, row)
               /\ CASE request[h].kind = "wallet" -> Proceed(h, "payment")
                    [] request[h].kind = "login"  -> Proceed(h, "start")
                    [] request[h].kind = "create" -> Answer(h, "success")
  BY DEF SelectAccount
<1>4. row # Nothing /\ Owns(h, row) => Admitted(request[h], account)
  BY <1>3 DEF Owns, Admitted
<1>5. \/ Proceed(h, "create") \/ Answer(h, "error") \/ Proceed(h, "start")
      \/ /\ Proceed(h, "payment") /\ Admitted(request[h], account)
         /\ request[h].kind = "wallet"
      \/ Answer(h, "success") /\ request[h].kind = "create"
  <2>1. CASE request[h].kind = "wallet"
    BY <1>3, <1>4, <2>1
  <2>2. CASE request[h].kind = "login"
    BY <1>3, <2>2
  <2>3. CASE request[h].kind = "create"
    BY <1>3, <2>3
  <2> QED
    BY <1>2, <2>1, <2>2, <2>3
<1>6. request' \in [Handlers -> Requests] /\ Known'
  <2>1. CASE Proceed(h, "create")
    BY <1>1, <2>1, ProceedGood DEF SelectAccount
  <2>2. CASE Answer(h, "error")
    BY <1>1, <2>2, AnswerGood
  <2>3. CASE Proceed(h, "start")
    BY <1>1, <2>3, ProceedGood
  <2>4. CASE /\ Proceed(h, "payment") /\ Admitted(request[h], account)
             /\ request[h].kind = "wallet"
    BY <1>1, <2>4, ProceedGood
  <2>5. CASE Answer(h, "success") /\ request[h].kind = "create"
    BY <1>1, <2>5, AnswerGood
  <2> QED
    BY <1>5, <2>1, <2>2, <2>3, <2>4, <2>5
<1>7. Fault \/ UNCHANGED faults
  BY <1>3 DEF Selected
<1> QED
  BY <1>6, <1>7, Framed DEF SelectAccount

\* The account that create_account returns is the one in the table.
LEMMA CreatedGood ==
    ASSUME TypeOK, Known, NEW h \in Handlers, NEW acc \in Rows,
           NEW viewkey \in Keys \union {Nothing}, Created(h, acc, viewkey),
           request[h].kind \in {"wallet", "login", "create"},
           account' = acc, account # Nothing => account' = account,
           viewkey # Nothing => viewkey = acc.viewkey_hash
    PROVE  request' \in [Handlers -> Requests] /\ Known'
<1>1. CASE request[h].kind = "wallet"
  <2> DEFINE r == [request[h] EXCEPT !.pc = "make", !.acc = acc,
                                     !.viewkey = viewkey]
  <2>1. Step(h, r)
    BY <1>1 DEF Created
  <2>2. request[h] \in Requests /\ Knowing(request[h], account)
    BY DEF TypeOK, Known
  <2>3. r \in Requests
    BY <2>2 DEF Requests
  <2>4. acc # Nothing
    BY AccountsAssumption
  <2>5. Knowing(r, account')
    BY <1>1, <2>2, <2>4 DEF Requests, Knowing, Admitted
  <2> HIDE DEF r
  <2> QED
    BY <2>1, <2>3, <2>5, StepKeeps
<1>2. CASE request[h].kind = "login"
  <2>1. Proceed(h, "start")
    BY <1>2 DEF Created
  <2> QED
    BY <2>1, ProceedGood
<1>3. CASE request[h].kind = "create"
  <2>1. Answer(h, "success")
    BY <1>3 DEF Created
  <2> QED
    BY <1>3, <2>1, AnswerGood
<1> QED
  BY <1>1, <1>2, <1>3

LEMMA CreateAccountKeeps ==
    ASSUME IInv, NEW h \in Handlers, CreateAccount(h) PROVE IInv'
<1>1. TypeOK /\ Known /\ account' = account
  BY DEF IInv, CreateAccount, tables
<1>2. request[h].kind \in {"wallet", "login", "create"}
  BY <1>1 DEF CreateAccount, At, Known, Knowing
<1>3. PICK row \in {account, Nothing} :
         /\ Selected(row)
         /\ \/ row # Nothing /\ Created(h, row, Nothing)
            \/ row = Nothing /\ Proceed(h, "insert")
  BY DEF CreateAccount
<1>4. request' \in [Handlers -> Requests] /\ Known'
  <2>1. CASE row # Nothing /\ Created(h, row, Nothing)
    <3>1. row = account /\ account \in Rows
      BY <1>1, <2>1 DEF TypeOK
    <3> QED
      BY <1>1, <1>2, <2>1, <3>1, CreatedGood
  <2>2. CASE Proceed(h, "insert")
    BY <1>1, <2>2, ProceedGood DEF CreateAccount
  <2> QED
    BY <1>3, <2>1, <2>2
<1>5. Fault \/ UNCHANGED faults
  BY <1>3 DEF Selected
<1> QED
  BY <1>4, <1>5, Framed DEF CreateAccount

\* The unique key of the address: a row is inserted only if there is none.
LEMMA InsertKeepsAccount ==
    ASSUME NEW h \in Handlers, Insert(h)
    PROVE  account # Nothing => account' = account
BY DEF Insert

LEMMA InsertKeeps ==
    ASSUME IInv, NEW h \in Handlers, Insert(h) PROVE IInv'
<1>1. TypeOK /\ Known
  BY DEF IInv
<1>2. request[h].kind \in {"wallet", "login", "create"}
  BY <1>1 DEF Insert, At, Known, Knowing
<1>3. account # Nothing => account' = account
  BY InsertKeepsAccount
<1>4. request' \in [Handlers -> Requests] /\ Known'
  <2>1. CASE account' = NewRow(h) /\ Created(h, NewRow(h), request[h].key)
    <3>1. request[h] \in Requests
      BY <1>1 DEF TypeOK
    <3>2. request[h].key \in Keys
      BY <1>1, <3>1 DEF Insert, At, Known, Knowing, Requests
    <3>3. NewRow(h) \in Rows /\ NewRow(h).viewkey_hash = request[h].key
      BY <3>1, <3>2 DEF NewRow, Rows, Requests
    <3> QED
      BY <1>1, <1>2, <1>3, <2>1, <3>2, <3>3, CreatedGood
  <2>2. CASE Answer(h, "error")
    BY <1>1, <1>3, <2>2, AnswerGood
  <2> QED
    BY <2>1, <2>2 DEF Insert
<1>5. account' \in Rows \union {Nothing}
  <2>1. NewRow(h) \in Rows
    BY <1>1 DEF Insert, At, Known, Knowing, TypeOK, NewRow, Rows, Requests
  <2> QED
    BY <1>1, <2>1 DEF Insert, TypeOK
<1>6. faults' \in Nat
  BY <1>1 DEF Insert, Fault, TypeOK
<1>7. ThreadHasKeyOfAccount'
  BY <1>3 DEF IInv, ThreadHasKeyOfAccount, Insert
<1> QED
  BY <1>4, <1>5, <1>6, <1>7 DEF IInv, TypeOK, OneRecord, Insert

-------------------------------------------------------------------------------
\* The end of select_account compares the key with the row it has.
LEMMA CheckKeyGood ==
    ASSUME TypeOK, Known, NEW h \in Handlers, CheckKey(h), account' = account,
           request[h].pc \in {"make", "launch"}, request[h].kind = "wallet"
    PROVE  request' \in [Handlers -> Requests] /\ Known'
<1>1. request[h].acc # Nothing /\ account = request[h].acc
  BY DEF Known, Knowing
<1>2. CASE Owns(h, request[h].acc) /\ Proceed(h, "payment")
  <2>1. Admitted(request[h], account)
    BY <1>1, <1>2 DEF Owns, Admitted
  <2> QED
    BY <1>2, <2>1, ProceedGood
<1>3. CASE Answer(h, "error")
  BY <1>3, AnswerGood
<1> QED
  BY <1>2, <1>3 DEF CheckKey

LEMMA MakeSearchThreadKeeps ==
    ASSUME IInv, NEW h \in Handlers, MakeSearchThread(h) PROVE IInv'
<1>1. TypeOK /\ Known /\ account' = account /\ request[h].pc = "make"
  BY DEF IInv, MakeSearchThread, tables, At
<1>2. request' \in [Handlers -> Requests] /\ Known'
  <2> request[h].acc # Nothing /\ request[h].kind = "wallet"
    BY <1>1 DEF Known, Knowing
  <2>1. CASE CheckKey(h)
    BY <1>1, <2>1, CheckKeyGood
  <2>2. CASE Answer(h, "error")
    BY <1>1, <2>2, AnswerGood
  <2>3. CASE request[h].viewkey # Nothing /\ Proceed(h, "launch")
    BY <1>1, <2>3, ProceedGood
  <2> QED
    BY <2>1, <2>2, <2>3 DEF MakeSearchThread
<1>3. Fault \/ UNCHANGED faults
  BY DEF MakeSearchThread
<1> QED
  BY <1>2, <1>3, Framed DEF MakeSearchThread

LEMMA LoginAndStartKeeps ==
    ASSUME IInv, NEW h \in Handlers, LoginAndStart(h) PROVE IInv'
<1>1. TypeOK /\ Known /\ account' = account
  BY DEF IInv, LoginAndStart, tables
<1> DEFINE r == [request[h] EXCEPT !.pc = "launch", !.acc = account,
                                   !.viewkey = request[h].key]
<1>2. /\ Fault \/ UNCHANGED faults
      /\ \/ Answer(h, "error")
         \/ /\ account # Nothing /\ Owns(h, account)
            /\ Answer(h, "success") \/ Step(h, r)
  BY DEF LoginAndStart, Selected
<1>3. request' \in [Handlers -> Requests] /\ Known'
  <2>1. CASE Answer(h, "error")
    BY <1>1, <2>1, AnswerGood
  <2>2. CASE account # Nothing /\ Owns(h, account) /\ Answer(h, "success")
    BY <1>1, <2>2, AnswerGood DEF Owns, Admitted
  <2>3. CASE account # Nothing /\ Owns(h, account) /\ Step(h, r)
    <3>1. request[h] \in Requests /\ Knowing(request[h], account)
      BY <1>1 DEF TypeOK, Known
    <3>2. r \in Requests
      BY <1>1, <3>1 DEF Requests, TypeOK
    <3>3. request[h].key # Nothing
      BY <2>3, AccountsAssumption, <1>1 DEF Owns, TypeOK, Rows
    <3>4. Knowing(r, account)
      BY <2>3, <3>1, <3>3 DEF Requests, Knowing, Admitted, Owns
    <3> HIDE DEF r
    <3> QED
      BY <1>1, <2>3, <3>2, <3>4, StepKeeps
  <2> QED
    BY <1>2, <2>1, <2>2, <2>3
<1> QED
  BY <1>2, <1>3, Framed DEF LoginAndStart

LEMMA LaunchKeeps ==
    ASSUME IInv, NEW h \in Handlers, Launch(h) PROVE IInv'
<1>1. TypeOK /\ Known /\ account' = account /\ request[h].pc = "launch"
  BY DEF IInv, Launch, tables, At
<1>2. request' \in [Handlers -> Requests] /\ Known'
  <2>1. CASE request[h].kind = "wallet" /\ CheckKey(h)
    BY <1>1, <2>1, CheckKeyGood
  <2>2. CASE request[h].kind # "wallet" /\ Answer(h, "success")
    <3>1. Admitted(request[h], account)
      BY <1>1, <2>2 DEF Known, Knowing
    <3> QED
      BY <1>1, <2>2, <3>1, AnswerGood
  <2> QED
    BY <2>1, <2>2 DEF Launch
<1>3. request[h].viewkey \in Keys \union {Nothing}
  BY <1>1 DEF TypeOK, Requests
<1>4. request[h].viewkey # Nothing =>
         account # Nothing /\ account.viewkey_hash = request[h].viewkey
  BY <1>1 DEF Known, Knowing
<1>5. thread' \in Keys \union {Nothing} /\ ThreadHasKeyOfAccount'
  BY <1>1, <1>3, <1>4 DEF Launch, IInv, TypeOK, ThreadHasKeyOfAccount
<1> QED
  BY <1>2, <1>5 DEF IInv, TypeOK, OneRecord, Launch, tables

LEMMA SelectPaymentKeeps ==
    ASSUME IInv, NEW h \in Handlers, SelectPayment(h) PROVE IInv'
<1>1. TypeOK /\ Known /\ account' = account /\ request[h].pc = "payment"
  BY DEF IInv, SelectPayment, tables, At
<1>2. Admitted(request[h], account) /\ request[h].kind = "wallet"
  BY <1>1 DEF Known, Knowing
<1>3. /\ Fault \/ UNCHANGED faults
      /\ \/ Answer(h, "error") \/ Answer(h, "success") \/ Answer(h, "pay")
         \/ Proceed(h, "insertpayment")
      /\ told' \in {told, told \union payments}
  BY DEF SelectPayment
<1>4. request' \in [Handlers -> Requests] /\ Known'
  <2>1. CASE Answer(h, "error")
    BY <1>1, <2>1, AnswerGood
  <2>2. CASE Answer(h, "success")
    BY <1>1, <1>2, <2>2, AnswerGood
  <2>3. CASE Answer(h, "pay")
    BY <1>1, <1>2, <2>3, AnswerGood
  <2>4. CASE Proceed(h, "insertpayment")
    BY <1>1, <1>2, <2>4, ProceedGood
  <2> QED
    BY <1>3, <2>1, <2>2, <2>3, <2>4
<1>5. faults' \in Nat
  BY <1>1, <1>3 DEF Fault, TypeOK
<1>6. OneRecord' /\ told' \subseteq PaymentIds
  BY <1>1, <1>3 DEF SelectPayment, tables, IInv, OneRecord, TypeOK
<1> QED
  BY <1>4, <1>5, <1>6 DEF IInv, TypeOK, ThreadHasKeyOfAccount, SelectPayment,
                          tables

\* The unique key of the account: a record is inserted only if there is none.
LEMMA InsertPaymentKeeps ==
    ASSUME IInv, NEW h \in Handlers, InsertPayment(h) PROVE IInv'
<1>1. TypeOK /\ Known /\ account' = account
        /\ request[h].pc = "insertpayment"
  BY DEF IInv, InsertPayment, At
<1>2. Admitted(request[h], account)
  BY <1>1 DEF Known, Knowing
<1>3. Answer(h, "pay") \/ Answer(h, "error")
  BY DEF InsertPayment
<1>4. request' \in [Handlers -> Requests] /\ Known'
  BY <1>1, <1>2, <1>3, AnswerGood
<1>5. faults' \in Nat
  BY <1>1 DEF InsertPayment, Fault, TypeOK
<1>6. OneRecord'
  <2>1. CASE payments = {} /\ \E id \in PaymentIds :
                payments' = {id} /\ told' = told \union {id}
    BY <2>1 DEF IInv, OneRecord
  <2>2. CASE UNCHANGED <<payments, told>>
    BY <2>2 DEF IInv, OneRecord
  <2>3. CASE /\ payments = {} /\ UNCHANGED told
             /\ payments' \in {{}} \union {{id} : id \in PaymentIds}
    BY <2>3 DEF IInv, OneRecord
  <2> QED
    BY <2>1, <2>2, <2>3 DEF InsertPayment
<1>7. payments' \subseteq PaymentIds /\ told' \subseteq PaymentIds
  BY <1>6 DEF OneRecord
<1> QED
  BY <1>4, <1>5, <1>6, <1>7
     DEF IInv, TypeOK, ThreadHasKeyOfAccount, InsertPayment

LEMMA FinishKeeps ==
    ASSUME IInv, NEW h \in Handlers, Finish(h) PROVE IInv'
<1>1. account' = account /\ Step(h, Free)
  BY DEF Finish, tables
<1>2. request' \in [Handlers -> Requests] /\ Known'
  BY <1>1, FreeGood, StepKeeps DEF IInv
<1> QED
  BY <1>2, Framed DEF Finish

LEMMA EnvironmentKeeps ==
    ASSUME IInv, PingElsewhere \/ Erase \/ Crash PROVE IInv'
<1>1. CASE Erase
  BY <1>1 DEF Erase, tables, IInv, TypeOK, Known, ThreadHasKeyOfAccount,
              OneRecord
<1>2. CASE PingElsewhere
  <2>1. \A key \in Keys : [key |-> key, own |-> FALSE] \in StaticKeys
    BY DEF StaticKeys
  <2>2. static_viewkey' \in StaticKeys
    BY <1>2, <2>1 DEF PingElsewhere
  <2> QED
    BY <1>2, <2>2 DEF PingElsewhere, tables, IInv, TypeOK, Known,
                      ThreadHasKeyOfAccount, OneRecord
<1>3. CASE Crash
  <2>1. request' \in [Handlers -> Requests] /\ Known'
    BY <1>3, FreeGood DEF Crash, Known
  <2>2. faults' \in Nat
    BY <1>3 DEF Crash, Fault, IInv, TypeOK
  <2> QED
    BY <1>3, <2>1, <2>2 DEF Crash, tables, IInv, TypeOK,
                            ThreadHasKeyOfAccount, OneRecord
<1> QED
  BY <1>1, <1>2, <1>3

\* The invariant behind the theorems: whatever clients, failed statements and
\* crashes do, every handler relies on true facts.
THEOREM Invariance == Spec => []IInv
<1>1. Init => IInv
  BY InitEstablishes
<1>2. IInv /\ [Next]_vars => IInv'
  <2> SUFFICES ASSUME IInv, [Next]_vars PROVE IInv'
    OBVIOUS
  <2>1. ASSUME NEW h \in Handlers, NewRequest(h) \/ Ping(h) \/ HandlerStep(h)
        PROVE  IInv'
    BY <2>1, NewRequestKeeps, PingKeeps, SelectAccountKeeps,
       CreateAccountKeeps, InsertKeeps, MakeSearchThreadKeeps,
       LoginAndStartKeeps, LaunchKeeps, SelectPaymentKeeps,
       InsertPaymentKeeps, FinishKeeps DEF HandlerStep
  <2>2. CASE PingElsewhere \/ Erase \/ Crash
    BY <2>2, EnvironmentKeeps
  <2>3. CASE UNCHANGED vars
    BY <2>3 DEF vars, tables, IInv, TypeOK, Known, ThreadHasKeyOfAccount,
                OneRecord
  <2> QED
    BY <2>1, <2>2, <2>3 DEF Next
<1> QED
  BY <1>1, <1>2, PTL DEF Spec

\* Rows, requests and the static view key have their types, whatever requests
\* are on their way and whatever fails.
THEOREM Typing == Spec => []TypeOK
<1>1. IInv => TypeOK
  BY DEF IInv
<1> QED
  BY <1>1, Invariance, PTL

\* No search thread scans with a key other than that of its account.
THEOREM ThreadKey == Spec => []ThreadHasKeyOfAccount
<1>1. IInv => ThreadHasKeyOfAccount
  BY DEF IInv
<1> QED
  BY <1>1, Invariance, PTL

\* All clients of an account are sent to the one address in the table.
THEOREM PaymentAddress == Spec => []OnePaymentAddress
<1>1. IInv => OnePaymentAddress
  <2> SUFFICES ASSUME IInv PROVE OnePaymentAddress
    OBVIOUS
  <2>1. told = {} \/ \E id \in PaymentIds : told = {id}
    BY DEF IInv, OneRecord
  <2>2. Cardinality({}) = 0 /\ \A id : Cardinality({id}) = 1
    BY FS_EmptySet, FS_Singleton, Zenon
  <2>3. Cardinality(told) = 0 \/ Cardinality(told) = 1
    BY <2>1, <2>2, Zenon
  <2> QED
    BY <2>3 DEF IInv, OneRecord, OnePaymentAddress
<1> QED
  BY <1>1, Invariance, PTL

-------------------------------------------------------------------------------
(***************************************************************************)
(* Pings rely on the static view key, not on the row of the account.       *)
(***************************************************************************)
\* A ping is answered at once; a success is owed to the static view key kept.
Pinged(r, kept) ==
    r.kind = "ping" =>
        /\ r.pc = "answered"
        /\ r.answer # "error" => kept # Nothing /\ kept.key = r.key

\* The key that this account's own ping has set is that of the account.
OwnStatic ==
    PingedFirst => account # Nothing /\ static_viewkey.key = account.viewkey_hash

PingInv == OwnStatic /\ \A h \in Handlers : Pinged(request[h], static_viewkey)

\* Where a handler goes when it answers or proceeds.
LEMMA AnswerSets ==
    ASSUME TypeOK, NEW h \in Handlers, NEW a, Answer(h, a)
    PROVE  /\ request'[h].kind = request[h].kind /\ request'[h].answer = a
           /\ \A g \in Handlers \ {h} : request'[g] = request[g]
BY DEF Answer, Step, TypeOK, Free

LEMMA ProceedSets ==
    ASSUME TypeOK, NEW h \in Handlers, NEW l, Proceed(h, l)
    PROVE  /\ request'[h].kind = request[h].kind /\ request'[h].pc = l
           /\ \A g \in Handlers \ {h} : request'[g] = request[g]
BY DEF Proceed, Step, TypeOK, Requests

\* What h may become: its request goes on, or is answered; a login or a poll
\* is answered with success only when a thread is in the map.
Moved(h) ==
    /\ request'[h].kind = request[h].kind
    /\ (/\ request'[h].pc = "answered" /\ request'[h].answer = "success"
        /\ request'[h].kind \in {"login", "info"}) => thread' # Nothing
    /\ \A g \in Handlers \ {h} : request'[g] = request[g]

LEMMA CreatedMoves ==
    ASSUME TypeOK, NEW h \in Handlers, NEW acc, NEW viewkey,
           Created(h, acc, viewkey),
           request[h].kind \in {"wallet", "login", "create"}
    PROVE  Moved(h)
<1>1. CASE request[h].kind = "wallet"
  <2>1. Step(h, [request[h] EXCEPT !.pc = "make", !.acc = acc,
                                   !.viewkey = viewkey])
    BY <1>1 DEF Created
  <2> QED
    BY <1>1, <2>1 DEF Step, TypeOK, Requests, Moved
<1>2. CASE request[h].kind = "login"
  <2>1. Proceed(h, "start")
    BY <1>2 DEF Created
  <2> QED
    BY <2>1, ProceedSets DEF Moved
<1>3. CASE request[h].kind = "create"
  <2>1. Answer(h, "success")
    BY <1>3 DEF Created
  <2> QED
    BY <1>3, <2>1, AnswerSets DEF Moved
<1> QED
  BY <1>1, <1>2, <1>3

\* The statements of select_account, create_account and the payment record.
LEMMA StatementMoves ==
    ASSUME IInv, NEW h \in Handlers,
           \/ SelectAccount(h) \/ CreateAccount(h) \/ Insert(h)
           \/ SelectPayment(h) \/ InsertPayment(h)
    PROVE  Moved(h) /\ ~At(h, "answered")
<1>1. TypeOK /\ Knowing(request[h], account)
  BY DEF IInv, Known
<1>2. CASE SelectAccount(h)
  <2>1. request[h].kind \in {"wallet", "login", "create"}
    BY <1>1, <1>2 DEF SelectAccount, At, Knowing
  <2>2. \/ Proceed(h, "create") \/ Proceed(h, "start") \/ Proceed(h, "payment")
        \/ Answer(h, "error")
        \/ Answer(h, "success") /\ request[h].kind = "create"
    <3>1. CASE request[h].kind = "wallet"
      BY <1>2, <3>1 DEF SelectAccount
    <3>2. CASE request[h].kind = "login"
      BY <1>2, <3>2 DEF SelectAccount
    <3>3. CASE request[h].kind = "create"
      BY <1>2, <3>3 DEF SelectAccount
    <3> QED
      BY <2>1, <3>1, <3>2, <3>3
  <2>3. Moved(h)
    BY <1>1, <2>2, AnswerSets, ProceedSets DEF Moved
  <2> QED
    BY <1>2, <2>3 DEF SelectAccount, At
<1>3. CASE CreateAccount(h)
  <2>1. request[h].kind \in {"wallet", "login", "create"}
    BY <1>1, <1>3 DEF CreateAccount, At, Knowing
  <2>2. \/ \E row \in {account, Nothing} : Created(h, row, Nothing)
        \/ Proceed(h, "insert")
    BY <1>3 DEF CreateAccount
  <2>3. Moved(h)
    BY <1>1, <2>1, <2>2, CreatedMoves, ProceedSets DEF Moved
  <2> QED
    BY <1>3, <2>3 DEF CreateAccount, At
<1>4. CASE Insert(h)
  <2>1. request[h].kind \in {"wallet", "login", "create"}
    BY <1>1, <1>4 DEF Insert, At, Knowing
  <2>2. Created(h, NewRow(h), request[h].key) \/ Answer(h, "error")
    BY <1>4 DEF Insert
  <2>3. Moved(h)
    BY <1>1, <2>1, <2>2, CreatedMoves, AnswerSets DEF Moved
  <2> QED
    BY <1>4, <2>3 DEF Insert, At
<1>5. CASE SelectPayment(h)
  <2>1. request[h].kind = "wallet"
    BY <1>1, <1>5 DEF SelectPayment, At, Knowing
  <2>2. \/ Proceed(h, "insertpayment")
        \/ \E a \in {"success", "pay", "error"} : Answer(h, a)
    BY <1>5 DEF SelectPayment
  <2>3. Moved(h)
    BY <1>1, <2>1, <2>2, AnswerSets, ProceedSets DEF Moved
  <2> QED
    BY <1>5, <2>3 DEF SelectPayment, At
<1>6. CASE InsertPayment(h)
  <2>1. Answer(h, "pay") \/ Answer(h, "error")
    BY <1>6 DEF InsertPayment
  <2>2. Moved(h)
    BY <1>1, <2>1, AnswerSets DEF Moved
  <2> QED
    BY <1>6, <2>2 DEF InsertPayment, At
<1> QED
  BY <1>2, <1>3, <1>4, <1>5, <1>6

\* The steps that build a search thread.  A success of login_and_start needs a
\* thread that is there, or follows start_tx_search_thread with a key.
LEMMA ThreadMoves ==
    ASSUME IInv, NEW h \in Handlers,
           MakeSearchThread(h) \/ LoginAndStart(h) \/ Launch(h)
    PROVE  Moved(h) /\ ~At(h, "answered")
<1>1. TypeOK /\ Knowing(request[h], account)
  BY DEF IInv, Known
<1>2. CASE MakeSearchThread(h)
  <2>1. \/ Proceed(h, "launch") \/ Proceed(h, "payment") \/ Answer(h, "error")
    BY <1>2 DEF MakeSearchThread, CheckKey
  <2>2. Moved(h)
    BY <1>1, <2>1, AnswerSets, ProceedSets DEF Moved
  <2> QED
    BY <1>2, <2>2 DEF MakeSearchThread, At
<1>3. CASE LoginAndStart(h)
  <2>1. \/ Answer(h, "error")
        \/ Answer(h, "success") /\ thread # Nothing
        \/ \E row \in {account, Nothing} :
              Step(h, [request[h] EXCEPT !.pc = "launch", !.acc = row,
                                         !.viewkey = request[h].key])
    BY <1>3 DEF LoginAndStart
  <2>2. thread' = thread
    BY <1>3 DEF LoginAndStart
  <2>3. Moved(h)
    <3>1. CASE Answer(h, "error") \/ (Answer(h, "success") /\ thread # Nothing)
      BY <1>1, <2>2, <3>1, AnswerSets DEF Moved
    <3>2. ASSUME NEW row \in {account, Nothing},
                 Step(h, [request[h] EXCEPT !.pc = "launch", !.acc = row,
                                            !.viewkey = request[h].key])
          PROVE  Moved(h)
      BY <1>1, <3>2 DEF Step, TypeOK, Requests, Moved
    <3> QED
      BY <2>1, <3>1, <3>2
  <2> QED
    BY <1>3, <2>3 DEF LoginAndStart, At
<1>4. CASE Launch(h)
  <2>1. thread' # Nothing
    BY <1>1, <1>4 DEF Launch, At, Knowing
  <2>2. \/ Proceed(h, "payment") \/ Answer(h, "error") \/ Answer(h, "success")
    BY <1>4 DEF Launch, CheckKey
  <2>3. Moved(h)
    BY <1>1, <2>1, <2>2, AnswerSets, ProceedSets DEF Moved
  <2> QED
    BY <1>4, <2>3 DEF Launch, At
<1> QED
  BY <1>2, <1>3, <1>4

\* Where the static view key and the key of the account stay, so does what a
\* ping relies on.
LEMMA OwnStaticKept ==
    ASSUME OwnStatic, static_viewkey' = static_viewkey,
           account # Nothing => account' = account
    PROVE  OwnStatic'
BY DEF OwnStatic, PingedFirst

LEMMA HandlerKeepsPings ==
    ASSUME IInv, PingInv, NEW h \in Handlers, HandlerStep(h)
    PROVE  PingInv'
<1>1. static_viewkey' = static_viewkey
  BY DEF HandlerStep, SelectAccount, CreateAccount, Insert, MakeSearchThread,
         LoginAndStart, Launch, SelectPayment, InsertPayment, Finish
<1>2. account # Nothing => account' = account
  BY InsertKeepsAccount
     DEF HandlerStep, SelectAccount, CreateAccount, MakeSearchThread,
         LoginAndStart, Launch, SelectPayment, InsertPayment, Finish, tables
<1>3. \/ Moved(h) /\ ~At(h, "answered")
      \/ Step(h, Free)
  BY StatementMoves, ThreadMoves DEF HandlerStep, Finish
<1>4. ASSUME NEW g \in Handlers PROVE Pinged(request'[g], static_viewkey)
  <2>1. Pinged(request[g], static_viewkey)
    BY DEF PingInv
  <2>2. CASE Moved(h) /\ ~At(h, "answered")
    BY <2>1, <2>2 DEF Moved, Pinged, At
  <2>3. CASE Step(h, Free)
    BY <2>1, <2>3 DEF Step, Free, Pinged, IInv, TypeOK
  <2> QED
    BY <1>3, <2>2, <2>3
<1>5. OwnStatic'
  BY <1>1, <1>2, OwnStaticKept DEF PingInv
<1> QED
  BY <1>1, <1>4, <1>5 DEF PingInv

\* A ping that sets the static view key takes it from this account's thread,
\* which scans with the key of the account.
LEMMA PingKeepsPings ==
    ASSUME IInv, PingInv, NEW h \in Handlers, Ping(h)
    PROVE  PingInv'
<1>1. PICK key \in Keys, answer \in {"success", "error"} :
         /\ \/ thread = Nothing /\ answer = "error" /\ UNCHANGED static_viewkey
            \/ /\ thread # Nothing /\ GetViewkey
               /\ (answer = "success") = (static_viewkey'.key = key)
         /\ Step(h, [Free EXCEPT !.kind = "ping", !.key = key,
                                 !.pc = "answered", !.answer = answer])
  BY DEF Ping
<1>2. account' = account
  BY DEF Ping, tables
<1>3. ASSUME static_viewkey' = static_viewkey PROVE OwnStatic'
  BY <1>2, <1>3, OwnStaticKept DEF PingInv
<1>4. ASSUME GetViewkey, thread # Nothing
      PROVE  static_viewkey' # Nothing /\ OwnStatic'
  <2>1. static_viewkey' # Nothing
    BY <1>4, GetViewkeyTyped, AccountsAssumption DEF IInv
  <2>2. CASE static_viewkey = Nothing
    <3>1. static_viewkey'.key = thread
      BY <1>4, <2>2 DEF GetViewkey
    <3> QED
      BY <1>2, <1>4, <2>1, <3>1 DEF OwnStatic, IInv, ThreadHasKeyOfAccount
  <2>3. CASE static_viewkey # Nothing
    BY <1>2, <1>4, <2>1, <2>3, OwnStaticKept DEF GetViewkey, PingInv
  <2> QED
    BY <2>1, <2>2, <2>3
<1>5. OwnStatic'
  BY <1>1, <1>3, <1>4
<1>6. ASSUME NEW g \in Handlers PROVE Pinged(request'[g], static_viewkey')
  <2>1. CASE g = h
    <3>1. /\ request'[g].pc = "answered" /\ request'[g].answer = answer
          /\ request'[g].key = key
      BY <1>1, <2>1 DEF Step, Free, IInv, TypeOK
    <3> QED
      BY <1>1, <1>4, <3>1 DEF Pinged
  <2>2. CASE g # h
    <3>1. request'[g] = request[g]
      BY <1>1, <2>2 DEF Step, IInv, TypeOK
    <3>2. static_viewkey # Nothing => static_viewkey' = static_viewkey
      BY <1>1 DEF GetViewkey
    <3> QED
      BY <3>1, <3>2 DEF PingInv, Pinged
  <2> QED
    BY <2>1, <2>2
<1> QED
  BY <1>5, <1>6 DEF PingInv

LEMMA OtherStepsKeepPings ==
    ASSUME IInv, PingInv,
           \/ \E h \in Handlers : NewRequest(h)
           \/ PingElsewhere \/ Erase \/ Crash \/ UNCHANGED vars
    PROVE  PingInv'
<1>1. ASSUME NEW h \in Handlers, NewRequest(h) PROVE PingInv'
  <2>1. PICK kind \in {"login", "create", "info", "wallet"}, key \in Keys :
           Step(h, [Free EXCEPT !.kind = kind, !.key = key,
                                !.pc = IF kind = "info" THEN "start"
                                                        ELSE "select"])
    BY <1>1 DEF NewRequest
  <2>2. static_viewkey' = static_viewkey /\ account' = account
    BY <1>1 DEF NewRequest, tables
  <2>3. ASSUME NEW g \in Handlers PROVE Pinged(request'[g], static_viewkey)
    <3>1. request'[g] = request[g] \/ request'[g].kind # "ping"
      BY <2>1 DEF Step, Free, IInv, TypeOK
    <3> QED
      BY <3>1 DEF PingInv, Pinged
  <2>4. OwnStatic'
    BY <2>2, OwnStaticKept DEF PingInv
  <2> QED
    BY <2>2, <2>3, <2>4 DEF PingInv
<1>2. CASE PingElsewhere
  <2>1. PICK key \in Keys : static_viewkey' = [key |-> key, own |-> FALSE]
    BY <1>2 DEF PingElsewhere
  <2>2. ~static_viewkey'.own
    BY <2>1
  <2>3. OwnStatic'
    BY <2>2 DEF OwnStatic, PingedFirst
  <2>4. static_viewkey = Nothing /\ request' = request
    BY <1>2 DEF PingElsewhere
  <2> QED
    BY <2>3, <2>4 DEF PingInv, Pinged
<1>3. CASE Erase \/ UNCHANGED vars
  <2>1. UNCHANGED <<account, static_viewkey, request>>
    BY <1>3 DEF Erase, vars, tables
  <2> QED
    BY <2>1, OwnStaticKept DEF PingInv
<1>4. CASE Crash
  BY <1>4 DEF Crash, Free, PingInv, OwnStatic, PingedFirst, Pinged
<1> QED
  BY <1>1, <1>2, <1>3, <1>4

\* The static view key that an account's own ping has set is the key of that
\* account, and no ping succeeds with a key other than the static one.
THEOREM StaticKeyInvariance == Spec => []PingInv
<1>1. Init => PingInv
  BY DEF Init, Free, PingInv, OwnStatic, PingedFirst, Pinged
<1>2. IInv /\ PingInv /\ [Next]_vars => PingInv'
  <2> SUFFICES ASSUME IInv, PingInv, [Next]_vars PROVE PingInv'
    OBVIOUS
  <2> QED
    BY HandlerKeepsPings, PingKeepsPings, OtherStepsKeepPings DEF Next
<1> QED
  BY <1>1, <1>2, Invariance, PTL DEF Spec

\* Only the key that the account was created with is admitted: by every login,
\* poll and import, and by pings where the static of get_viewkey is its own.
THEOREM OwnersOnly == Spec => []OwnerIsAnswered
<1>1. IInv /\ PingInv => OwnerIsAnswered
  <2> SUFFICES ASSUME IInv, PingInv, NEW h \in Handlers,
                      request[h].answer \in {"success", "pay"},
                      request[h].kind # "create",
                      request[h].kind = "ping" => PingedFirst
               PROVE  account # Nothing /\ Owns(h, account)
    BY DEF OwnerIsAnswered
  <2>1. CASE request[h].kind # "ping"
    BY <2>1 DEF IInv, Known, Knowing, Admitted, Owns
  <2>2. CASE request[h].kind = "ping"
    BY <2>2 DEF PingInv, OwnStatic, Pinged, Owns
  <2> QED
    BY <2>1, <2>2
<1> QED
  BY <1>1, Invariance, StaticKeyInvariance, PTL

\* A login or a poll that succeeds leaves the client with a search thread that
\* scans with the client's key, whoever built it and whatever was erased while
\* the request was on its way.
THEOREM AnsweredWithThread == Spec => SuccessHasThread
<1> DEFINE Answered(h) ==
        (/\ ~At(h, "answered") /\ request'[h].pc = "answered"
         /\ request'[h].answer = "success"
         /\ request'[h].kind \in {"login", "info"})
            => thread' = request'[h].key
<1>1. IInv /\ IInv' /\ [Next]_vars => [\A h \in Handlers : Answered(h)]_vars
  <2> SUFFICES ASSUME IInv, IInv', Next, NEW h \in Handlers,
                      ~At(h, "answered"), request'[h].pc = "answered",
                      request'[h].answer = "success",
                      request'[h].kind \in {"login", "info"}
               PROVE  thread' = request'[h].key
    OBVIOUS
  <2>1. thread' # Nothing
    <3>1. ASSUME NEW g \in Handlers, HandlerStep(g) PROVE thread' # Nothing
      <4>1. CASE Finish(g)
        BY <4>1 DEF Finish, Step, Free, At, IInv, TypeOK
      <4>2. CASE Moved(g)
        BY <4>2 DEF Moved, At
      <4> QED
        BY <3>1, <4>1, <4>2, StatementMoves, ThreadMoves DEF HandlerStep
    <3>2. ASSUME NEW g \in Handlers, NewRequest(g) \/ Ping(g) PROVE FALSE
      BY <3>2 DEF NewRequest, Ping, Step, Free, At, IInv, TypeOK
    <3>3. CASE PingElsewhere \/ Erase \/ Crash
      BY <3>3 DEF PingElsewhere, Erase, Crash, Free, At
    <3> QED
      BY <3>1, <3>2, <3>3 DEF Next
  <2>2. Admitted(request'[h], account')
    BY DEF IInv, Known, Knowing
  <2> QED
    BY <2>1, <2>2 DEF IInv, ThreadHasKeyOfAccount, Admitted
<1> QED
  BY <1>1, Invariance, PTL DEF Spec, SuccessHasThread

===============================================================================
