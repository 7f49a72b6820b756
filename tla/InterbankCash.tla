---------------------------- MODULE InterbankCash ----------------------------
(***************************************************************************)
(* The cash postings of banking-service, through which interbank-service    *)
(* reserves, settles and frees money of this bank's accounts.               *)
(*                                                                          *)
(* Prepare, Commit and Rollback each run in one database transaction that   *)
(* reads the posting, then the account, and writes both; neither read locks *)
(* its row, so a repeated message can overlap the first one.                *)
(***************************************************************************)
EXTENDS Integers, FiniteSets, Functions

CONSTANTS
    Postings,        \* posting ids
    CashAccounts,
    Currencies,
    Currency,        \* currency of each account
    Active,          \* accounts whose status is Active
    Clients,
    ClientOf,        \* the client each account belongs to
    BankAccounts,    \* account of the bank for a currency
    PrepareRequests, \* what Prepare may be asked for
    Rates,           \* values an exchange of one unit may have
    CashOpening,     \* balances at the start
    CashCalls        \* requests served at a time

NoAccount == "no account"
NoPosting == "no posting"

\* A request names an account, or a client, or the bank ("EMPLOYEE") as party.
\* A negative amount leaves the account.  initiator: the payment that started
\* the exchange has a transaction of its own (BankingTxID).
RequestSet == [account : CashAccounts \cup {NoAccount}, party : Clients \cup {"EMPLOYEE", "nobody"},
               currency : Currencies, amount : Int, initiator : BOOLEAN]

CashAssumption ==
    /\ PrepareRequests \subseteq RequestSet
    /\ \A r \in PrepareRequests : r.amount # 0
    /\ Currency \in [CashAccounts -> Currencies] /\ Active \subseteq CashAccounts
    /\ ClientOf \in [CashAccounts -> Clients \cup {"EMPLOYEE"}]
    /\ BankAccounts \in [Currencies -> CashAccounts \cup {NoAccount}]
    /\ Rates \subseteq Nat \ {0} /\ CashOpening \in [CashAccounts -> Nat]
    /\ NoAccount \notin CashAccounts /\ NoPosting \notin Postings /\ IsFiniteSet(Postings)

VARIABLES
    posting,       \* the rows of interbank_cash_postings
    cashBalance,
    cashAvailable,
    request,       \* where each request is, and what it has read
    settled,       \* history: how often a posting has moved the balance
    recorded,      \* history: payment records written for a posting
    repeated,      \* history: postings two requests have worked at together
    cashClash      \* history: accounts two open transactions have both read

cashVars == <<posting, cashBalance, cashAvailable, request, settled, recorded, repeated, cashClash>>

PostingStatuses == {"NONE", "PREPARED", "COMMITTED", "ROLLED_BACK"}
NoRow == [status |-> "NONE", account |-> NoAccount, amount |-> 0]

IdleRequest == [at |-> "idle", op |-> "Prepare", id |-> NoPosting, read |-> NoRow,
         account |-> NoAccount, balance |-> 0, available |-> 0]

CashTypeOK ==
    /\ \A k \in Postings :
         /\ posting[k].status \in PostingStatuses
         /\ (posting[k].status = "NONE") = (posting[k].account = NoAccount)
    /\ cashBalance \in [CashAccounts -> Int] /\ cashAvailable \in [CashAccounts -> Int]
    /\ \A c \in CashCalls :
         /\ request[c].at \in {"idle", "posting", "account"}
         /\ (request[c].at = "idle") = (request[c].id = NoPosting)
         /\ (request[c].at = "account") = (request[c].account \in CashAccounts)
    /\ settled \in [Postings -> Nat] /\ recorded \in [Postings -> Nat]
    /\ repeated \subseteq Postings /\ cashClash \subseteq CashAccounts

CashPostingsInit ==
    /\ posting = [k \in Postings |-> NoRow]
    /\ cashBalance = CashOpening /\ cashAvailable = CashOpening
    /\ request = [c \in CashCalls |-> IdleRequest]
    /\ settled = [k \in Postings |-> 0] /\ recorded = [k \in Postings |-> 0]
    /\ repeated = {} /\ cashClash = {}

-----------------------------------------------------------------------------
(* The choice of an account *)

Tiers(r) ==
    LET mine == {a \in Active : ClientOf[a] = r.party} IN
    <<{a \in mine : Currency[a] = r.currency}, {a \in mine : Currency[a] = "RSD"}, mine>>

\* The accounts a request may resolve to: the database returns the accounts of
\* a client in no particular order.
Resolve(r) ==
    IF r.account # NoAccount THEN {r.account} \cap CashAccounts
    ELSE IF r.party = "EMPLOYEE" THEN {BankAccounts[r.currency]} \cap CashAccounts
    ELSE LET tiers == Tiers(r)
             found == {i \in 1 .. 3 : tiers[i] # {}}
         IN IF found = {} THEN {} ELSE tiers[CHOOSE i \in found : \A j \in found : i <= j]

\* The amount in the account's own currency, frozen when the posting is made.
Resolved(r, a, rate) == IF Currency[a] = r.currency THEN r.amount ELSE r.amount * rate

-----------------------------------------------------------------------------
(* The transactions *)

RequestAt(c, place) == request[c].at = place
ReturnRequest(c)    == request' = [request EXCEPT ![c] = IdleRequest]
Repeats(row, r) == row.request = r

ReadPosting(c, k, op) ==
    /\ RequestAt(c, "idle")
    /\ request' = [request EXCEPT ![c] =
         [IdleRequest EXCEPT !.at = "posting", !.op = op, !.id = k, !.read = posting[k]]]
    /\ repeated' = IF \E d \in CashCalls : request[d].id = k
                     THEN repeated \cup {k} ELSE repeated
    /\ UNCHANGED <<posting, cashBalance, cashAvailable, settled, recorded, cashClash>>

\* Nothing to do, or nothing that may be done: the posting stays as it is.
NothingToDo(row, op) ==
    CASE op = "Commit"   -> row.status \in {"NONE", "ROLLED_BACK"}
      [] op = "Rollback" -> row.status \in {"NONE", "COMMITTED"}
      [] OTHER           -> FALSE

ReadAccount(c, a) ==
    LET row == request[c].read IN
    /\ RequestAt(c, "posting") /\ ~NothingToDo(row, request[c].op)
    /\ row.status # "NONE" => a = row.account
    /\ request' = [request EXCEPT ![c].at = "account", ![c].account = a,
                     ![c].balance = cashBalance[a], ![c].available = cashAvailable[a]]
    /\ cashClash' = IF \E d \in CashCalls \ {c} : request[d].account = a
                THEN cashClash \cup {a} ELSE cashClash
    /\ UNCHANGED <<posting, cashBalance, cashAvailable, settled, recorded, repeated>>

\* The columns of the account are written as they were read, and changed.
WriteAccount(c, change, availableChange) ==
    LET a == request[c].account IN
    /\ cashBalance' = [cashBalance EXCEPT ![a] = request[c].balance + change]
    /\ cashAvailable' = [cashAvailable EXCEPT ![a] = request[c].available + availableChange]

WritePosting(c, row, newStatus) ==
    posting' = [posting EXCEPT ![request[c].id] = [row EXCEPT !.status = newStatus]]

Outgoing(amount) == IF amount < 0 THEN -amount ELSE 0

\* A new posting: its primary key makes the insert fail if another request has
\* inserted it since.
PrepareNew(c, r, rate) ==
    LET a == request[c].account
        amount == Resolved(r, a, rate)
        row == [status |-> "PREPARED", account |-> a, amount |-> amount, request |-> r] IN
    /\ RequestAt(c, "account") /\ request[c].op = "Prepare" /\ request[c].read.status = "NONE"
    /\ a \in Resolve(r) /\ request[c].available >= Outgoing(amount)
    /\ posting[request[c].id].status = "NONE"
    /\ posting' = [posting EXCEPT ![request[c].id] = row]
    /\ IF amount < 0 THEN WriteAccount(c, 0, amount) ELSE UNCHANGED <<cashBalance, cashAvailable>>
    /\ ReturnRequest(c) /\ UNCHANGED <<settled, recorded, repeated, cashClash>>

\* Mutant: the posting is prepared again without reserving its amount again.
PrepareAgainUnreserved(c, r) ==
    LET row == request[c].read IN
    /\ RequestAt(c, "account") /\ request[c].op = "Prepare" /\ row.status = "ROLLED_BACK"
    /\ Repeats(row, r) /\ WritePosting(c, row, "PREPARED") /\ ReturnRequest(c)
    /\ UNCHANGED <<cashBalance, cashAvailable, settled, recorded, repeated, cashClash>>

\* The posting of an attempt that was rolled back is reserved again, with the
\* amount and the account it was made for.
PrepareAgain(c, r) ==
    LET row == request[c].read IN
    /\ RequestAt(c, "account") /\ request[c].op = "Prepare" /\ row.status = "ROLLED_BACK"
    /\ Repeats(row, r) /\ request[c].available >= Outgoing(row.amount)
    /\ IF row.amount < 0 THEN WriteAccount(c, 0, row.amount)
       ELSE UNCHANGED <<cashBalance, cashAvailable>>
    /\ WritePosting(c, row, "PREPARED")
    /\ ReturnRequest(c) /\ UNCHANGED <<settled, recorded, repeated, cashClash>>

\* Mutant: a repeated COMMIT is executed again.
CommitAgain(c) ==
    LET row == request[c].read  k == request[c].id IN
    /\ RequestAt(c, "account") /\ request[c].op = "Commit"
    /\ WriteAccount(c, row.amount, IF row.amount < 0 THEN 0 ELSE row.amount)
    /\ WritePosting(c, row, "COMMITTED")
    /\ settled' = [settled EXCEPT ![k] = @ + 1]
    /\ recorded' = [recorded EXCEPT ![k] = IF row.request.initiator THEN @ ELSE @ + 1]
    /\ ReturnRequest(c) /\ UNCHANGED <<repeated, cashClash>>

CommitPosting(c) ==
    LET row == request[c].read  k == request[c].id IN
    /\ RequestAt(c, "account") /\ request[c].op = "Commit" /\ row.status = "PREPARED"
    /\ request[c].balance >= Outgoing(row.amount)
    /\ WriteAccount(c, row.amount, IF row.amount < 0 THEN 0 ELSE row.amount)
    /\ WritePosting(c, row, "COMMITTED")
    /\ settled' = [settled EXCEPT ![k] = @ + 1]
    /\ recorded' = [recorded EXCEPT ![k] = IF row.request.initiator THEN @ ELSE @ + 1]
    /\ ReturnRequest(c) /\ UNCHANGED <<repeated, cashClash>>

RollbackPosting(c) ==
    LET row == request[c].read IN
    /\ RequestAt(c, "account") /\ request[c].op = "Rollback" /\ row.status = "PREPARED"
    /\ IF row.amount < 0 THEN WriteAccount(c, 0, -row.amount)
       ELSE UNCHANGED <<cashBalance, cashAvailable>>
    /\ WritePosting(c, row, "ROLLED_BACK")
    /\ ReturnRequest(c) /\ UNCHANGED <<settled, recorded, repeated, cashClash>>

\* The status that is asked for: the row is saved as it was read.
SaveUnchanged(c) ==
    LET row == request[c].read IN
    /\ RequestAt(c, "account")
    /\ <<request[c].op, row.status>> \in {<<"Commit", "COMMITTED">>, <<"Rollback", "ROLLED_BACK">>}
    /\ WritePosting(c, row, row.status)
    /\ ReturnRequest(c)
    /\ UNCHANGED <<cashBalance, cashAvailable, settled, recorded, repeated, cashClash>>

\* A refusal, an idempotent repeat of Prepare or an error ends the request and
\* changes nothing.
EndRequest(c) ==
    /\ ~RequestAt(c, "idle")
    /\ ReturnRequest(c)
    /\ UNCHANGED <<posting, cashBalance, cashAvailable, settled, recorded, repeated, cashClash>>

CashPostingsNext ==
    \E c \in CashCalls :
      \/ \E k \in Postings, op \in {"Prepare", "Commit", "Rollback"} : ReadPosting(c, k, op)
      \/ \E a \in CashAccounts : ReadAccount(c, a)
      \/ \E r \in PrepareRequests, rate \in Rates : PrepareNew(c, r, rate)
      \/ \E r \in PrepareRequests : PrepareAgain(c, r)
      \/ CommitPosting(c) \/ RollbackPosting(c) \/ SaveUnchanged(c) \/ EndRequest(c)

CashPostingsSpec == CashPostingsInit /\ [][CashPostingsNext]_cashVars

-----------------------------------------------------------------------------
(* Properties *)

\* A posting that no two requests worked at together moves the balance exactly
\* when it is COMMITTED, once, and leaves one record in the payment history
\* (none for the payment that started the exchange), however often COMMIT and
\* ROLLBACK are repeated, in whatever order.
SettledOnce ==
    \A k \in Postings \ repeated :
      /\ settled[k] = IF posting[k].status = "COMMITTED" THEN 1 ELSE 0
      /\ recorded[k] = IF settled[k] = 0 \/ posting[k].request.initiator THEN 0 ELSE 1

Sum(f(_)) == SumFunctionOnSet([k \in Postings |-> f(k)], Postings)
HeldBy(k, a) == IF posting[k].account = a /\ posting[k].status = "PREPARED"
              THEN Outgoing(posting[k].amount) ELSE 0

\* Every account no two open transactions have read together holds its opening
\* balance and the settled postings, and as much less is available as prepared
\* postings hold: a rate that moves between the phases does not matter, and a
\* posting reserved again after a rollback holds its amount once.
HoldsArePrepared ==
    \A a \in CashAccounts \ cashClash :
      (\A k \in repeated : posting[k].account # a) =>
        /\ cashBalance[a] = CashOpening[a] + Sum(LAMBDA k : IF posting[k].account = a
                                          THEN settled[k] * posting[k].amount ELSE 0)
        /\ cashAvailable[a] = cashBalance[a] - Sum(LAMBDA k : HeldBy(k, a))
        /\ cashAvailable[a] >= 0
==============================================================================
