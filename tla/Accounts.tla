------------------------------ MODULE Accounts ------------------------------
(***************************************************************************)
(* The creation of an account and of its payment record, the check of the  *)
(* view key and the start of the search thread, for one address and any    *)
(* number of clients: login, ping, get_address_info (get_address_txs and   *)
(* get_unspent_outs log in the same way) and import_wallet_request.        *)
(*                                                                         *)
(* A step is one statement of MySQL or one look at the map of threads.     *)
(* MySqlAccounts::select says false both when there is no row and when the *)
(* statement fails; the tables' unique keys decide what happens then.      *)
(***************************************************************************)
EXTENDS Integers, FiniteSets

CONSTANTS
    Handlers,    \* threads of the web server
    Keys,        \* view keys that clients send for the address
    PaymentIds,  \* random payment ids
    Nothing,     \* no row, no key, no thread
    ImportFee,   \* bc_setup.import_fee
    MaxFaults    \* bound: failed statements, failed constructors and crashes

\* A row of Accounts.  The table has a hash of the view key; the heights of the
\* row, which scans and imports change, are the subject of TxSearch.
Rows == [viewkey_hash : Keys]

\* A view key that get_viewkey keeps; own if a thread of this address gave it.
StaticKeys == [key : Keys, own : BOOLEAN]

ASSUME AccountsAssumption ==
    /\ Nothing \notin Keys \union Rows \union StaticKeys
    /\ ImportFee \in Nat /\ MaxFaults \in Nat

VARIABLES
    account,         \* the row of Accounts
    payments,        \* the payment ids of the account's rows in Payments
    thread,          \* the view key of the search thread in the map
    static_viewkey,  \* the static string in TxSearch::get_viewkey
    request,         \* the request that each handler serves
    told,            \* history: payment ids that were sent to clients
    faults           \* failures so far

tables == <<account, payments>>
vars == <<tables, thread, static_viewkey, request, told, faults>>

Requests ==
    [pc      : {"free", "select", "create", "insert", "make", "start",
                "launch", "payment", "insertpayment", "answered"},
     kind    : {"none", "login", "create", "ping", "info", "wallet"},
     key     : Keys \union {Nothing},
     acc     : Rows \union {Nothing},
     viewkey : Keys \union {Nothing},
     answer  : {"none", "success", "pay", "error"}]

Free ==
    [pc |-> "free", kind |-> "none", key |-> Nothing, acc |-> Nothing,
     viewkey |-> Nothing, answer |-> "none"]

TypeOK ==
    /\ account \in Rows \union {Nothing}
    /\ payments \subseteq PaymentIds /\ told \subseteq PaymentIds
    /\ thread \in Keys \union {Nothing}
    /\ static_viewkey \in StaticKeys \union {Nothing}
    /\ faults \in Nat
    /\ request \in [Handlers -> Requests]

Init ==
    /\ account = Nothing /\ payments = {} /\ thread = Nothing
    /\ static_viewkey = Nothing
    /\ request = [h \in Handlers |-> Free]
    /\ told = {} /\ faults = 0

-------------------------------------------------------------------------------
At(h, l) == request[h].pc = l

Fault == faults < MaxFaults /\ faults' = faults + 1

Step(h, r) == request' = [request EXCEPT ![h] = r]

Proceed(h, l) == Step(h, [request[h] EXCEPT !.pc = l])

Answer(h, a) == Step(h, [Free EXCEPT !.pc = "answered", !.answer = a,
                                     !.kind = request[h].kind,
                                     !.key = request[h].key])

\* What MySqlAccounts::select gives: the row, or nothing if it fails.
Selected(row) ==
    \/ row = account /\ UNCHANGED faults
    \/ row = Nothing /\ account # Nothing /\ Fault

Owns(h, row) == row.viewkey_hash = request[h].key

\* A request with its parameters.  create is a login with create_only.
NewRequest(h) ==
    /\ At(h, "free")
    /\ \E kind \in {"login", "create", "info", "wallet"}, key \in Keys :
          Step(h, [Free EXCEPT !.kind = kind, !.key = key,
                               !.pc = IF kind = "info" THEN "start"
                                                       ELSE "select"])
    /\ UNCHANGED <<tables, thread, static_viewkey, told, faults>>

\* get_viewkey keeps its result in a static variable of the function, which
\* the first call in the process sets and every thread returns from then on.
GetViewkey ==
    static_viewkey' = IF static_viewkey = Nothing
                      THEN [key |-> thread, own |-> TRUE] ELSE static_viewkey

\* ping asks search_thread_exist, which compares the key with get_viewkey, and
\* then pings the thread; the two looks at the map are one step.
Ping(h) ==
    /\ At(h, "free")
    /\ \E key \in Keys, answer \in {"success", "error"} :
          /\ \/ thread = Nothing /\ answer = "error" /\ UNCHANGED static_viewkey
             \/ /\ thread # Nothing /\ GetViewkey
                /\ (answer = "success") = (static_viewkey'.key = key)
          /\ Step(h, [Free EXCEPT !.kind = "ping", !.key = key,
                                  !.pc = "answered", !.answer = answer])
    /\ UNCHANGED <<tables, thread, told, faults>>

\* The first ping of the process is for an account of another address.
PingElsewhere ==
    /\ static_viewkey = Nothing
    /\ \E key \in Keys : static_viewkey' = [key |-> key, own |-> FALSE]
    /\ UNCHANGED <<tables, thread, request, told, faults>>

-------------------------------------------------------------------------------
(***************************************************************************)
(* select_account and create_account                                       *)
(***************************************************************************)
\* A login creates the account also when the key does not match, an import
\* only when there is no row.
SelectAccount(h) ==
    /\ At(h, "select")
    /\ \E row \in {account, Nothing} :
          /\ Selected(row)
          /\ \/ row = Nothing /\ Proceed(h, "create")
             \/ /\ row # Nothing /\ ~Owns(h, row)
                /\ IF request[h].kind = "wallet" THEN Answer(h, "error")
                                                 ELSE Proceed(h, "create")
             \/ /\ row # Nothing /\ Owns(h, row)
                /\ CASE request[h].kind = "wallet" -> Proceed(h, "payment")
                     [] request[h].kind = "login"  -> Proceed(h, "start")
                     [] request[h].kind = "create" -> Answer(h, "success")
    /\ UNCHANGED <<tables, thread, static_viewkey, told>>

\* What follows create_account, which returned acc and the key in it.
Created(h, acc, viewkey) ==
    CASE request[h].kind = "wallet" ->
            Step(h, [request[h] EXCEPT !.pc = "make", !.acc = acc,
                                       !.viewkey = viewkey])
      [] request[h].kind = "login"  -> Proceed(h, "start")
      [] request[h].kind = "create" -> Answer(h, "success")

\* Seeded fault: the key of the request is put into a row that was found.
CreateAccountSetsKey(h) ==
    /\ At(h, "create")
    /\ \E row \in {account, Nothing} :
          /\ Selected(row)
          /\ \/ row # Nothing /\ Created(h, row, request[h].key)
             \/ row = Nothing /\ Proceed(h, "insert")
    /\ UNCHANGED <<tables, thread, static_viewkey, told>>

\* A row that another request created is returned whatever its key, and
\* without one, since the table has only the hash.
CreateAccount(h) ==
    /\ At(h, "create")
    /\ \E row \in {account, Nothing} :
          /\ Selected(row)
          /\ \/ row # Nothing /\ Created(h, row, Nothing)
             \/ row = Nothing /\ Proceed(h, "insert")
    /\ UNCHANGED <<tables, thread, static_viewkey, told>>

NewRow(h) == [viewkey_hash |-> request[h].key]

\* UNIQUE KEY address: the insert fails if there is a row by now.  When the
\* connection is lost it may have been carried out all the same.
Insert(h) ==
    /\ At(h, "insert")
    /\ \/ /\ account = Nothing /\ UNCHANGED faults
          /\ account' = NewRow(h)
          /\ Created(h, NewRow(h), request[h].key)
       \/ account # Nothing /\ Answer(h, "error") /\ UNCHANGED <<account, faults>>
       \/ /\ account = Nothing /\ Fault
          /\ account' \in {Nothing, NewRow(h)}
          /\ Answer(h, "error")
    /\ UNCHANGED <<payments, thread, static_viewkey, told>>

-------------------------------------------------------------------------------
(***************************************************************************)
(* The search thread                                                       *)
(***************************************************************************)
\* select_account compares the key last.
CheckKey(h) ==
    IF Owns(h, request[h].acc) THEN Proceed(h, "payment")
                               ELSE Answer(h, "error")

\* make_search_thread: the constructor of TxSearch throws over an empty key.
MakeSearchThread(h) ==
    /\ At(h, "make")
    /\ \/ thread # Nothing /\ CheckKey(h) /\ UNCHANGED faults
       \/ /\ thread = Nothing /\ request[h].viewkey = Nothing
          /\ Answer(h, "error") /\ UNCHANGED faults
       \/ /\ thread = Nothing /\ request[h].viewkey # Nothing
          /\ \/ Proceed(h, "launch") /\ UNCHANGED faults
             \/ Answer(h, "error") /\ Fault
    /\ UNCHANGED <<tables, thread, static_viewkey, told>>

\* Seeded fault: the hash is not compared with that of the row.
LoginAndStartUnchecked(h) ==
    /\ At(h, "start")
    /\ IF account # Nothing /\ thread # Nothing
       THEN Answer(h, "success") ELSE Answer(h, "error")
    /\ UNCHANGED <<tables, thread, static_viewkey, told, faults>>

\* login_and_start_search_thread selects the row once more, compares the key
\* and builds a TxSearch if there is none in the map.
LoginAndStart(h) ==
    /\ At(h, "start")
    /\ \E row \in {account, Nothing} :
          \/ Selected(row) /\ row = Nothing /\ Answer(h, "error")
          \/ Selected(row) /\ row # Nothing /\ ~Owns(h, row)
             /\ Answer(h, "error")
          \/ /\ Selected(row) /\ row # Nothing /\ Owns(h, row)
             /\ IF thread # Nothing
                THEN Answer(h, "success")
                ELSE Step(h, [request[h] EXCEPT !.pc = "launch", !.acc = row,
                                                !.viewkey = request[h].key])
          \/ /\ row = account /\ row # Nothing /\ thread = Nothing
             /\ Owns(h, row) /\ Answer(h, "error") /\ Fault
    /\ UNCHANGED <<tables, thread, static_viewkey, told>>

\* start_tx_search_thread keeps a thread that another request has started.
Launch(h) ==
    /\ At(h, "launch")
    /\ thread' = IF thread = Nothing THEN request[h].viewkey ELSE thread
    /\ IF request[h].kind = "wallet" THEN CheckKey(h) ELSE Answer(h, "success")
    /\ UNCHANGED <<tables, static_viewkey, told, faults>>

\* The thread ends and the monitor removes it from the map.
Erase ==
    /\ thread # Nothing
    /\ thread' = Nothing
    /\ UNCHANGED <<tables, static_viewkey, request, told, faults>>

-------------------------------------------------------------------------------
(***************************************************************************)
(* The payment record of import_wallet_request                             *)
(***************************************************************************)
\* A free import goes on as in TxSearch.  Without a record the request makes
\* one; it also does so when the select fails.
SelectPayment(h) ==
    /\ At(h, "payment")
    /\ IF ImportFee = 0
       THEN Answer(h, "success") /\ UNCHANGED <<told, faults>>
       ELSE \/ /\ (payments = {} /\ UNCHANGED faults) \/ Fault
               /\ Proceed(h, "insertpayment") /\ UNCHANGED told
            \/ /\ payments # {} /\ UNCHANGED faults
               /\ IF Cardinality(payments) > 1
                  THEN Answer(h, "error") /\ UNCHANGED told
                  ELSE Answer(h, "pay") /\ told' = told \union payments
    /\ UNCHANGED <<tables, thread, static_viewkey>>

\* Seeded fault: the account is not a unique key.
InsertPaymentAgain(h) ==
    /\ At(h, "insertpayment")
    /\ \E id \in PaymentIds \ payments :
          payments' = payments \union {id} /\ told' = told \union {id}
    /\ Answer(h, "pay")
    /\ UNCHANGED <<account, thread, static_viewkey, faults>>

\* UNIQUE KEY account_id: the insert fails if there is a record by now.
InsertPayment(h) ==
    /\ At(h, "insertpayment")
    /\ \/ /\ payments = {} /\ UNCHANGED faults
          /\ \E id \in PaymentIds : payments' = {id} /\ told' = told \union {id}
          /\ Answer(h, "pay")
       \/ /\ payments # {} /\ Answer(h, "error")
          /\ UNCHANGED <<payments, told, faults>>
       \/ /\ payments = {} /\ Fault
          /\ payments' \in {{}} \union {{id} : id \in PaymentIds}
          /\ Answer(h, "error") /\ UNCHANGED told
    /\ UNCHANGED <<account, thread, static_viewkey>>

Finish(h) ==
    /\ At(h, "answered")
    /\ Step(h, Free)
    /\ UNCHANGED <<tables, thread, static_viewkey, told, faults>>

-------------------------------------------------------------------------------
\* Only the tables survive.
Crash ==
    /\ Fault
    /\ thread' = Nothing
    /\ request' = [h \in Handlers |-> Free]
    /\ static_viewkey' = Nothing
    /\ UNCHANGED <<tables, told>>

HandlerStep(h) ==
    \/ SelectAccount(h) \/ CreateAccount(h) \/ Insert(h)
    \/ MakeSearchThread(h) \/ LoginAndStart(h) \/ Launch(h)
    \/ SelectPayment(h) \/ InsertPayment(h) \/ Finish(h)

Next ==
    \/ \E h \in Handlers : NewRequest(h) \/ Ping(h) \/ HandlerStep(h)
    \/ PingElsewhere \/ Erase \/ Crash

Spec == Init /\ [][Next]_vars

\* The handlers are threads; clients, time and failures are free.
FairSpec == Spec /\ \A h \in Handlers : WF_vars(HandlerStep(h))

-------------------------------------------------------------------------------
(***************************************************************************)
(* Properties                                                              *)
(***************************************************************************)
\* A search thread scans with the view key that the account was created with:
\* whichever request built it, and although create_account returns a row of
\* another key to a login or an import that lost the race.
ThreadHasKeyOfAccount ==
    thread # Nothing => account # Nothing /\ thread = account.viewkey_hash

\* When a login or a poll is answered with success, a search thread is in the
\* map and scans with the key that the client sent, although another request
\* may have built it, and although the thread that was there when the key was
\* compared may have been erased before this request put its own into the map.
SuccessHasThread ==
    [][\A h \in Handlers :
          (/\ ~At(h, "answered") /\ request'[h].pc = "answered"
           /\ request'[h].answer = "success"
           /\ request'[h].kind \in {"login", "info"})
              => thread' = request'[h].key]_vars

\* All clients of the account are asked to pay to the same address, the one
\* in the table, whatever requests and failed statements were on their way.
OnePaymentAddress == told \subseteq payments /\ Cardinality(told) <= 1

\* The pings of this process are compared with the key of this account: the
\* first one was for it.
PingedFirst == static_viewkey # Nothing /\ static_viewkey.own

\* Except for create_only, which is answered before the key is compared, a
\* request succeeds only with the key that the account was created with.  Of
\* pings that holds only for the account that was pinged first: the static of
\* TxSearch.cpp 959 makes its key the one that pings of all accounts need.
OwnerIsAnswered ==
    \A h \in Handlers :
        (/\ request[h].answer \in {"success", "pay"}
         /\ request[h].kind # "create"
         /\ request[h].kind = "ping" => PingedFirst)
            => account # Nothing /\ Owns(h, account)

\* A client with the right key may be refused because of another request at
\* the same time or of a failure, but not for ever: in the end its logins,
\* polls and imports succeed.
OwnerAdmitted ==
    <>[](\A h \in Handlers :
            (/\ request[h].answer = "error" /\ request[h].kind # "ping"
             /\ account # Nothing)
                => ~Owns(h, account))

===============================================================================
