------------------------------ MODULE Payments ------------------------------
(***************************************************************************)
(* Payments, transfers and trade settlements of banking-service: the        *)
(* verification of a payment, and the database transaction that moves its   *)
(* money.                                                                    *)
(*                                                                          *)
(* Rows are read without a lock and written back as absolute values, under  *)
(* PostgreSQL's READ COMMITTED: what a transaction has read may be stale    *)
(* when it commits.  A row it has updated is locked until its end.  Calls   *)
(* take their steps in any order.                                           *)
(*                                                                          *)
(* The processor moves Balance and AvailableBalance by the same amounts:    *)
(* one number, the available balance, stands for both.                      *)
(***************************************************************************)
EXTENDS Integers, FiniteSets, Functions

CONSTANTS
    PayAccounts, \* account numbers of this bank
    Foreign,     \* stands for the account numbers of other banks
    Txs,         \* transactions, each made by one request
    Deal,        \* what each of them asks for
    PayOpening,  \* balances at the start
    DailyLimit,  \* DailyLimit of every account
    MaxTries,    \* wrong codes that cancel a payment, 3 in the code
    Calls,       \* requests served at a time
    MaxSent      \* bound on the interbank payments started for one transaction

\* "payment": verified with a code; "direct": CreatePaymentWithoutVerification;
\* "transfer": between accounts of one client; "settlement": a trade.
\* bankIn and bankOut are the bank's accounts a conversion goes through.
Kinds == {"payment", "direct", "transfer", "settlement"}
Deals == [kind : Kinds, payer : PayAccounts, recipient : PayAccounts \cup {Foreign},
          start : Nat, end : Nat, convert : BOOLEAN, bankIn : PayAccounts, bankOut : PayAccounts]

\* Only a payment goes to another bank, in the payer's currency.
LeavesBank(d) == d.recipient = Foreign => d.kind \in {"payment", "direct"} /\ ~d.convert

\* A conversion goes from the payer's currency, bankIn's, to that of the
\* recipient, bankOut's, and they differ.
ChangesCurrency(d) == d.convert => {d.payer, d.bankIn} \cap {d.recipient, d.bankOut} = {}

NoTx == "no transaction"

PaymentsAssumption ==
    /\ NoTx \notin Txs /\ Deal \in [Txs -> Deals] /\ Foreign \notin PayAccounts
    /\ PayOpening \in [PayAccounts -> Nat] /\ DailyLimit \in Nat
    /\ MaxTries \in Nat /\ MaxSent \in Nat /\ IsFiniteSet(Txs)
    /\ \A t \in Txs : LeavesBank(Deal[t]) /\ ChangesCurrency(Deal[t])

VARIABLES
    payBalance, \* available balance of each account
    status,     \* status of each transaction, "none" before it exists
    attempts,   \* FailedAttempts of its payment
    call,       \* where each request is
    twoPhase,   \* interbank payments started for a transaction, not yet reported
    moved,      \* history: how often a transaction has moved its money
    sent,       \* history: how often it has been started at interbank-service
    overlapped, \* history: transactions two requests have worked at together
    clash       \* history: accounts two open database transactions have both read

ghosts  == <<moved, sent, overlapped, clash>>
payVars == <<payBalance, status, attempts, call, twoPhase, ghosts>>

TxStatuses == {"none", "processing", "completed", "rejected"}
Places   == {"idle", "verify", "cancel", "process", "send", "refuse", "begin", "check",
             "row", "update", "write"}

\* seen: the balances read; rows: accounts of the conversion still to be read;
\* at: the one just read; locked: the ones updated; tries: FailedAttempts read.
Idle == [at |-> "idle", tx |-> NoTx, tries |-> 0, seen |-> <<>>, rows |-> {}, row |-> {},
         locked |-> {}]

PayTypeOK ==
    /\ payBalance \in [PayAccounts -> Int]
    /\ status \in [Txs -> TxStatuses] /\ attempts \in [Txs -> Nat]
    /\ DOMAIN call = Calls
    /\ \A c \in Calls :
         /\ call[c].at \in Places /\ call[c].tx \in Txs \cup {NoTx}
         /\ call[c].rows \cup call[c].row \cup call[c].locked \cup DOMAIN call[c].seen
              \subseteq PayAccounts
    /\ twoPhase \in [Txs -> Nat] /\ sent \in [Txs -> Nat] /\ moved \in [Txs -> Nat]
    /\ overlapped \subseteq Txs /\ clash \subseteq PayAccounts

PaymentsInit ==
    /\ payBalance = PayOpening
    /\ status = [t \in Txs |-> "none"] /\ attempts = [t \in Txs |-> 0]
    /\ call = [c \in Calls |-> Idle]
    /\ twoPhase = [t \in Txs |-> 0] /\ sent = [t \in Txs |-> 0] /\ moved = [t \in Txs |-> 0]
    /\ overlapped = {} /\ clash = {}

-----------------------------------------------------------------------------
(* Helpers *)

Kind(t) == Deal[t].kind
IsForeign(t) == Deal[t].recipient = Foreign
At(c, place) == call[c].at = place
Goto(c, place) == call' = [call EXCEPT ![c].at = place]
Return(c) == call' = [call EXCEPT ![c] = Idle]

\* The request c starts to work at t; another may be at it.
Enter(c, t, place) ==
    /\ At(c, "idle")
    /\ call' = [call EXCEPT ![c] = [Idle EXCEPT !.at = place, !.tx = t, !.tries = attempts[t]]]
    /\ overlapped' = IF \E d \in Calls : call[d].tx = t THEN overlapped \cup {t} ELSE overlapped

BankLegs(t) == IF Deal[t].convert THEN {Deal[t].bankIn, Deal[t].bankOut} ELSE {}
Touched(t)  == {Deal[t].payer, Deal[t].recipient} \cup BankLegs(t)

\* What the transaction t adds to the balance of a.
Delta(t, a) ==
    (IF a = Deal[t].recipient THEN Deal[t].end ELSE 0)
      - (IF a = Deal[t].payer THEN Deal[t].start ELSE 0)
      + (IF Deal[t].convert /\ a = Deal[t].bankIn THEN Deal[t].start ELSE 0)
      - (IF Deal[t].convert /\ a = Deal[t].bankOut THEN Deal[t].end ELSE 0)

\* DailySpending is read, and written back as it was read: it stays 0.
DailySpending == 0
WithinLimit(t) == DailySpending + Deal[t].start <= DailyLimit
CanPay(t) == payBalance[Deal[t].payer] >= Deal[t].start

-----------------------------------------------------------------------------
(* Creation *)

CreatePayment(t) ==
    /\ Kind(t) = "payment" /\ status[t] = "none" /\ CanPay(t) /\ WithinLimit(t)
    /\ status' = [status EXCEPT ![t] = "processing"]
    /\ UNCHANGED <<payBalance, attempts, call, twoPhase, ghosts>>

\* CreatePaymentWithoutVerification, and a settlement, whose transaction is
\* created and committed before it is processed.
CreateAndProcess(c, t) ==
    /\ status[t] = "none"
    /\ \/ Kind(t) = "direct" /\ CanPay(t) /\ WithinLimit(t) /\ Enter(c, t, "process")
       \/ Kind(t) = "settlement" /\ Enter(c, t, "begin")
    /\ status' = [status EXCEPT ![t] = "processing"]
    /\ UNCHANGED <<payBalance, attempts, twoPhase, moved, sent, clash>>

\* A transfer creates its transaction in the database transaction that executes
\* it: nobody sees it before the commit.
ExecuteTransfer(c, t) ==
    /\ Kind(t) = "transfer" /\ status[t] = "none" /\ ~\E d \in Calls : call[d].tx = t
    /\ CanPay(t) /\ Enter(c, t, "check")
    /\ UNCHANGED <<payBalance, status, attempts, twoPhase, moved, sent, clash>>

-----------------------------------------------------------------------------
(* Verification *)

\* Mutant: a payment that is over may be verified again.
VerifyAnyStatus(c, t) ==
    /\ Kind(t) = "payment" /\ status[t] # "none" /\ Enter(c, t, "verify")
    /\ UNCHANGED <<payBalance, status, attempts, twoPhase, moved, sent, clash>>

Verify(c, t) ==
    /\ Kind(t) = "payment" /\ status[t] = "processing"
    /\ Enter(c, t, "verify")
    /\ UNCHANGED <<payBalance, status, attempts, twoPhase, moved, sent, clash>>

RightCode(c) ==
    /\ At(c, "verify") /\ Goto(c, "process")
    /\ UNCHANGED <<payBalance, status, attempts, twoPhase, ghosts>>

\* FailedAttempts is written from what was read with the payment.
WrongCode(c) ==
    LET t == call[c].tx  tries == call[c].tries + 1 IN
    /\ At(c, "verify")
    /\ attempts' = [attempts EXCEPT ![t] = tries]
    /\ IF tries >= MaxTries THEN Goto(c, "cancel") ELSE Return(c)
    /\ UNCHANGED <<payBalance, status, twoPhase, ghosts>>

\* The status is written over whatever it has become in the meantime: after
\* too many wrong codes, or when interbank-service has refused.
RejectTx(c) ==
    /\ At(c, "cancel") \/ At(c, "refuse")
    /\ status' = [status EXCEPT ![call[c].tx] = "rejected"]
    /\ Return(c)
    /\ UNCHANGED <<payBalance, attempts, twoPhase, ghosts>>

-----------------------------------------------------------------------------
(* Processing *)

Process(c) ==
    LET t == call[c].tx IN
    /\ At(c, "process")
    /\ IF ~IsForeign(t) THEN Goto(c, "begin")
       ELSE IF status[t] = "processing" THEN Goto(c, "send")
       ELSE Return(c)
    /\ UNCHANGED <<payBalance, status, attempts, twoPhase, ghosts>>

Opened(c) == call[c].at \in {"row", "update", "write"}
Reading(C) == UNION {Touched(call[d].tx) : d \in {c \in C : Opened(c)}}

\* InitiatePayment: interbank-service starts a payment of its own every time it
\* is asked, and has the payer's money reserved.  A refusal is definite; an
\* answer that is lost leaves open whether a payment was started.
SendInterbank(c, started, answered) ==
    LET t == call[c].tx IN
    /\ At(c, "send") /\ sent[t] < MaxSent
    /\ IF started
       THEN /\ CanPay(t)
            /\ twoPhase' = [twoPhase EXCEPT ![t] = @ + 1]
            /\ sent' = [sent EXCEPT ![t] = @ + 1]
            /\ payBalance' = [payBalance EXCEPT ![Deal[t].payer] = @ - Deal[t].start]
            /\ clash' = clash \cup (Reading(Calls) \cap {Deal[t].payer})
       ELSE UNCHANGED <<twoPhase, sent, payBalance, clash>>
    /\ IF answered /\ ~started THEN Goto(c, "refuse") ELSE Return(c)
    /\ UNCHANGED <<status, attempts, moved, overlapped>>

\* interbank-service reports how a payment it was given has ended; what was
\* reserved has been debited, or is available again.
FinalizeInterbankPayment(t, success) ==
    /\ twoPhase[t] > 0
    /\ twoPhase' = [twoPhase EXCEPT ![t] = @ - 1]
    /\ IF success
       THEN moved' = [moved EXCEPT ![t] = @ + 1] /\ UNCHANGED <<payBalance, clash>>
       ELSE /\ payBalance' = [payBalance EXCEPT ![Deal[t].payer] = @ + Deal[t].start]
            /\ clash' = clash \cup (Reading(Calls) \cap {Deal[t].payer})
            /\ UNCHANGED moved
    /\ status' = IF status[t] # "processing" THEN status
                 ELSE [status EXCEPT ![t] = IF success THEN "completed" ELSE "rejected"]
    /\ UNCHANGED <<attempts, call, sent, overlapped>>

BeginTx(c) ==
    /\ At(c, "begin")
    /\ IF status[call[c].tx] = "processing" THEN Goto(c, "check") ELSE Return(c)
    /\ UNCHANGED <<payBalance, status, attempts, twoPhase, ghosts>>

\* Mutant: nobody looks whether the bank has the currency it pays out.
FundablePayerOnly(t) ==
    /\ CanPay(t) /\ Deal[t].payer # Deal[t].recipient
    /\ Kind(t) # "settlement" => WithinLimit(t)

\* The accounts are read and the payer is checked.  A conversion reads each
\* account again before it writes it.
Fundable(t) ==
    /\ CanPay(t) /\ Deal[t].payer # Deal[t].recipient
    /\ Kind(t) # "settlement" => WithinLimit(t)
    /\ Deal[t].convert => payBalance[Deal[t].bankOut] >= Deal[t].end

CheckAccounts(c) ==
    LET t == call[c].tx IN
    /\ At(c, "check")
    /\ IF ~Fundable(t) THEN Return(c) /\ UNCHANGED clash
       ELSE /\ call' = [call EXCEPT
                 ![c].at = IF Deal[t].convert THEN "row" ELSE "write",
                 ![c].rows = IF Deal[t].convert THEN Touched(t) ELSE {},
                 ![c].seen = IF Deal[t].convert THEN <<>> ELSE [a \in Touched(t) |-> payBalance[a]]]
            /\ clash' = clash \cup (Touched(t) \cap Reading(Calls \ {c}))
    /\ UNCHANGED <<payBalance, status, attempts, twoPhase, moved, sent, overlapped>>

ReadRow(c, a) ==
    /\ At(c, "row") /\ a \in call[c].rows
    /\ call' = [call EXCEPT ![c].at = "update", ![c].row = {a}, ![c].rows = @ \ {a},
                  ![c].seen = [b \in {a} \cup DOMAIN @ |-> IF b = a THEN payBalance[a] ELSE @[b]]]
    /\ UNCHANGED <<payBalance, status, attempts, twoPhase, ghosts>>

\* An update waits for the end of a transaction that has updated the row.
Free(c, rows) == \A d \in Calls \ {c} : call[d].locked \cap rows = {}

UpdateRow(c) ==
    /\ At(c, "update") /\ Free(c, call[c].row)
    /\ call' = [call EXCEPT ![c].at = IF call[c].rows = {} THEN "write" ELSE "row",
                  ![c].locked = @ \cup call[c].row, ![c].row = {}]
    /\ UNCHANGED <<payBalance, status, attempts, twoPhase, ghosts>>

\* The rows are written, the transaction is completed and all of it committed.
CommitTx(c) ==
    LET t == call[c].tx  seen == call[c].seen IN
    /\ At(c, "write") /\ Free(c, DOMAIN seen)
    /\ payBalance' = [a \in PayAccounts |->
                     IF a \in DOMAIN seen THEN seen[a] + Delta(t, a) ELSE payBalance[a]]
    /\ status' = [status EXCEPT ![t] = "completed"]
    /\ moved' = [moved EXCEPT ![t] = @ + 1]
    /\ Return(c)
    /\ UNCHANGED <<attempts, twoPhase, sent, overlapped, clash>>

\* An error, or a deadlock between row locks, rolls the transaction back.
Abort(c) ==
    /\ At(c, "begin") \/ At(c, "check") \/ Opened(c)
    /\ Return(c)
    /\ UNCHANGED <<payBalance, status, attempts, twoPhase, ghosts>>

PaymentsNext ==
    \/ \E t \in Txs : CreatePayment(t)
    \/ \E t \in Txs, success \in BOOLEAN : FinalizeInterbankPayment(t, success)
    \/ \E c \in Calls, t \in Txs :
         CreateAndProcess(c, t) \/ ExecuteTransfer(c, t) \/ Verify(c, t)
    \/ \E c \in Calls :
         \/ RightCode(c) \/ WrongCode(c) \/ RejectTx(c) \/ Process(c)
         \/ BeginTx(c) \/ CheckAccounts(c) \/ UpdateRow(c) \/ CommitTx(c) \/ Abort(c)
    \/ \E c \in Calls, started \in BOOLEAN, answered \in BOOLEAN :
         SendInterbank(c, started, answered)
    \/ \E c \in Calls, a \in PayAccounts : ReadRow(c, a)

PaymentsSpec == PaymentsInit /\ [][PaymentsNext]_payVars

-----------------------------------------------------------------------------
(* Properties *)

\* A local payment, transfer or settlement moves its money exactly when it is
\* completed, and once, unless two requests worked at it at the same time: no
\* retry, late verification or wrong code after the fact moves it again or
\* hides that it was moved.
MovedOnce ==
    \A t \in Txs : ~IsForeign(t) /\ t \notin overlapped =>
        moved[t] = IF status[t] = "completed" THEN 1 ELSE 0

\* Every account that no two open transactions have read together holds its
\* opening balance and what the executed transactions moved, counted once per
\* execution and less what interbank-service has reserved, and is not overdrawn.
BooksBalance ==
    \A a \in PayAccounts \ clash :
      /\ payBalance[a] >= 0
      /\ payBalance[a] = PayOpening[a] + SumFunctionOnSet(
           [t \in Txs |-> moved[t] * Delta(t, a)
              - IF Deal[t].payer = a THEN twoPhase[t] * Deal[t].start ELSE 0], Txs)

\* An interbank payment is started once however often it is verified.  The code
\* does not see to it: the transaction stays processing until the outcome is
\* reported, and a second verification starts a second payment.
ForeignSentOnce == \A t \in Txs : sent[t] <= 1
=============================================================================
