-------------------------------- MODULE Loans --------------------------------
(***************************************************************************)
(* Loans of banking-service: employees approve and reject requests, and the *)
(* scheduler collects the instalments, month by month, from the client's    *)
(* account.                                                                 *)
(*                                                                          *)
(* A request is read before the transaction that approves it, and saved     *)
(* outside of that transaction; the scheduler works through a batch of      *)
(* instalments read together, each with a copy of its loan.  Moving the     *)
(* money is one step here: how transactions on one account overlap is the   *)
(* subject of Payments.  No loan has a variable rate (approval sets         *)
(* IsVariableRate to false), so AdjustVariableRates finds none to adjust.   *)
(***************************************************************************)
EXTENDS Naturals, FiniteSets

CONSTANTS
    LoanRequests, \* loan requests, each also the loan made of it
    Employees,    \* calls of ApproveLoanRequest and RejectLoanRequest at a time
    Period,       \* RepaymentPeriod, the number of instalments
    MaxFunds      \* bound on the client's account, in instalments

LoansAssumption == Period \in Nat \ {0} /\ MaxFunds \in Nat

Numbers      == 1 .. Period
Installments == LoanRequests \X Numbers

VARIABLES
    loanRequest, \* status of each LoanRequest
    loan,        \* status and PaidInstallments of the loan of a request
    installment, \* status of each instalment
    due,         \* instalments of a loan whose due date has come
    funds,       \* instalments the client's account can pay
    employee,    \* where each employee's call is
    batch,       \* instalments the scheduler has read, with its copy of them
    payout,      \* history: how often the money of a loan was paid out
    taken,       \* history: how often the money of an instalment was taken
    contested,   \* history: requests two calls have worked at together
    unsaved,     \* history: requests whose approval failed after it was saved
    stale        \* history: loans of which a batch held two copies, or whose
                 \* payment was reported as failed although it was committed

history  == <<payout, taken, contested, unsaved, stale>>
loanVars == <<loanRequest, loan, installment, due, funds, employee, batch, history>>

RequestStatuses     == {"NONE", "PENDING", "APPROVED", "REJECTED"}
InstallmentStatuses == {"PENDING", "PAID", "UNPAID", "RETRYING"}
IdleEmployee == [at |-> "idle", id |-> "none"]

\* A copy: the status of an instalment and the count of its loan, as they were read.
Copies == [status : InstallmentStatuses, paid : 0 .. Period]

LoanTypeOK ==
    /\ loanRequest \in [LoanRequests -> RequestStatuses]
    /\ loan \in [LoanRequests -> [status : {"NONE", "ACTIVE", "COMPLETED"}, paid : Nat]]
    /\ installment \in [Installments -> InstallmentStatuses]
    /\ due \in [LoanRequests -> 0 .. Period] /\ funds \in [LoanRequests -> 0 .. MaxFunds]
    /\ \A e \in Employees :
         employee[e].at \in {"idle", "approve", "saved", "reject"}
    /\ batch.todo \subseteq Installments
    /\ \A i \in batch.todo : batch.copy[i] \in [status : InstallmentStatuses, paid : Nat]
    /\ payout \in [LoanRequests -> Nat] /\ taken \in [Installments -> Nat]
    /\ contested \cup unsaved \cup stale \subseteq LoanRequests

NoBatch == [kind |-> "retry", todo |-> {}, copy |-> <<>>]

LoansInit ==
    /\ loanRequest = [q \in LoanRequests |-> "NONE"]
    /\ loan = [q \in LoanRequests |-> [status |-> "NONE", paid |-> 0]]
    /\ installment = [i \in Installments |-> "PENDING"]
    /\ due = [q \in LoanRequests |-> 0] /\ funds = [q \in LoanRequests |-> 0]
    /\ employee = [e \in Employees |-> IdleEmployee] /\ batch = NoBatch
    /\ payout = [q \in LoanRequests |-> 0] /\ taken = [i \in Installments |-> 0]
    /\ contested = {} /\ unsaved = {} /\ stale = {}

-----------------------------------------------------------------------------
(* Requests *)

SubmitLoanRequest(q) ==
    /\ loanRequest[q] = "NONE"
    /\ loanRequest' = [loanRequest EXCEPT ![q] = "PENDING"]
    /\ UNCHANGED <<loan, installment, due, funds, employee, batch, history>>

\* Both calls read the request first, and work with what they have read.
ReadRequest(e, q, place) ==
    /\ employee[e] = IdleEmployee /\ loanRequest[q] = "PENDING"
    /\ employee' = [employee EXCEPT ![e] = [at |-> place, id |-> q]]
    /\ contested' = IF \E f \in Employees : employee[f].id = q
                     THEN contested \cup {q} ELSE contested
    /\ UNCHANGED <<loanRequest, loan, installment, due, funds, batch, payout, taken, unsaved,
                   stale>>

\* The request is saved through a connection of its own: approved for
\* everybody, before the transaction around it is committed.
SaveApproved(e) ==
    /\ employee[e].at = "approve"
    /\ loanRequest' = [loanRequest EXCEPT ![employee[e].id] = "APPROVED"]
    /\ employee' = [employee EXCEPT ![e].at = "saved"]
    /\ UNCHANGED <<loan, installment, due, funds, batch, history>>

\* Mutant: no unique index on the request of a loan.
CommitApprovalUnindexed(e) ==
    LET q == employee[e].id IN
    /\ employee[e].at = "saved"
    /\ loan' = [loan EXCEPT ![q].status = "ACTIVE"]
    /\ payout' = [payout EXCEPT ![q] = @ + 1]
    /\ employee' = [employee EXCEPT ![e] = IdleEmployee]
    /\ UNCHANGED <<loanRequest, installment, due, funds, batch, taken, contested, unsaved, stale>>

\* The transaction: the bank pays the client, and the loan and its instalments
\* are created.  One loan for a request: a unique index refuses another.
CommitApproval(e) ==
    LET q == employee[e].id IN
    /\ employee[e].at = "saved" /\ loan[q].status = "NONE"
    /\ loan' = [loan EXCEPT ![q].status = "ACTIVE"]
    /\ payout' = [payout EXCEPT ![q] = @ + 1]
    /\ employee' = [employee EXCEPT ![e] = IdleEmployee]
    /\ UNCHANGED <<loanRequest, installment, due, funds, batch, taken, contested, unsaved, stale>>

\* The bank lacks the money, the index refuses, or the database fails.
AbortApproval(e) ==
    /\ employee[e].at \in {"approve", "saved"}
    /\ unsaved' = IF employee[e].at = "saved" THEN unsaved \cup {employee[e].id} ELSE unsaved
    /\ employee' = [employee EXCEPT ![e] = IdleEmployee]
    /\ UNCHANGED <<loanRequest, loan, installment, due, funds, batch, payout, taken, contested,
                   stale>>

\* The client is fetched and told by e-mail between the read and the write.
RejectLoanRequest(e, userServiceAnswers) ==
    /\ employee[e].at = "reject"
    /\ loanRequest' = IF userServiceAnswers
                  THEN [loanRequest EXCEPT ![employee[e].id] = "REJECTED"] ELSE loanRequest
    /\ employee' = [employee EXCEPT ![e] = IdleEmployee]
    /\ UNCHANGED <<loan, installment, due, funds, batch, history>>

-----------------------------------------------------------------------------
(* Instalments *)

Month(q) ==
    /\ loan[q].status # "NONE" /\ due[q] < Period
    /\ due' = [due EXCEPT ![q] = @ + 1]
    /\ UNCHANGED <<loanRequest, loan, installment, funds, employee, batch, history>>

\* The client moves money in and out of the account.
ClientMovesMoney(q, amount) ==
    /\ loan[q].status # "NONE"
    /\ funds' = [funds EXCEPT ![q] = amount]
    /\ UNCHANGED <<loanRequest, loan, installment, due, employee, batch, history>>

IsDue(i) == loan[i[1]].status # "NONE" /\ i[2] <= due[i[1]] /\ installment[i] = "PENDING"
Retrying == {i \in Installments : installment[i] = "RETRYING"}

Read(kind, S) ==
    /\ batch.todo = {}
    /\ batch' = [kind |-> kind, todo |-> S,
                 copy |-> [i \in S |-> [status |-> installment[i], paid |-> loan[i[1]].paid]]]
    /\ stale' = stale \cup {q \in LoanRequests : Cardinality({i \in S : i[1] = q}) > 1}
    /\ UNCHANGED <<loanRequest, loan, installment, due, funds, employee, payout, taken,
                   contested, unsaved>>

\* Once a day first the due instalments, then those whose retry time has come.
ProcessDueInstallments ==
    batch.kind = "retry" /\ Read("due", {i \in Installments : IsDue(i)})
ProcessRetryInstallments(S) ==
    batch.kind = "due" /\ S \subseteq Retrying /\ Read("retry", S)

Finished(i) == batch' = [batch EXCEPT !.todo = @ \ {i}]

\* Mutant: the last instalment does not complete the loan.
LoanAfterOffByOne(i) ==
    LET paid == batch.copy[i].paid + 1 IN
    [status |-> IF paid > Period THEN "COMPLETED" ELSE "ACTIVE", paid |-> paid]

\* What onInstallmentPaid makes of the batch's copy of the loan.
LoanAfter(i) ==
    LET paid == batch.copy[i].paid + 1 IN
    [status |-> IF paid >= Period THEN "COMPLETED" ELSE "ACTIVE", paid |-> paid]

Take(i) ==
    /\ i \in batch.todo /\ funds[i[1]] > 0
    /\ funds' = [funds EXCEPT ![i[1]] = @ - 1]
    /\ taken' = [taken EXCEPT ![i] = @ + 1]
    /\ loan' = [loan EXCEPT ![i[1]] = LoanAfter(i)]

PayInstallment(i) ==
    /\ Take(i) /\ installment' = [installment EXCEPT ![i] = "PAID"] /\ Finished(i)
    /\ UNCHANGED <<loanRequest, due, employee, payout, contested, unsaved, stale>>

\* onInstallmentFailed on an instalment that was read as retrying, or not.
AfterFailure(status) == IF status = "RETRYING" THEN "UNPAID" ELSE "RETRYING"

PaymentFails(i) ==
    /\ i \in batch.todo
    /\ installment' = [installment EXCEPT ![i] = AfterFailure(batch.copy[i].status)]
    /\ Finished(i)
    /\ UNCHANGED <<loanRequest, loan, due, funds, employee, history>>

\* The transaction is rolled back after onInstallmentPaid: the copy refers to a
\* transaction that is gone, its foreign key refuses the save, and the
\* instalment stays as it was.
PaymentRolledBack(i) ==
    /\ i \in batch.todo /\ funds[i[1]] > 0
    /\ Finished(i)
    /\ UNCHANGED <<loanRequest, loan, installment, due, funds, employee, history>>

\* The commit takes effect and reports an error: the copy, now PAID, is made
\* RETRYING.
CommitReportsError(i) ==
    /\ Take(i)
    /\ installment' = [installment EXCEPT ![i] = AfterFailure("PAID")] /\ Finished(i)
    /\ stale' = stale \cup {i[1]}
    /\ UNCHANGED <<loanRequest, due, employee, payout, contested, unsaved>>

\* A restart begins the day's work again.
Restart ==
    /\ batch.todo # {} /\ batch' = NoBatch
    /\ UNCHANGED <<loanRequest, loan, installment, due, funds, employee, history>>

LoansNext ==
    \/ \E q \in LoanRequests : SubmitLoanRequest(q) \/ Month(q)
    \/ \E q \in LoanRequests, amount \in 0 .. MaxFunds : ClientMovesMoney(q, amount)
    \/ \E e \in Employees, q \in LoanRequests, place \in {"approve", "reject"} :
         ReadRequest(e, q, place)
    \/ \E e \in Employees : SaveApproved(e) \/ CommitApproval(e) \/ AbortApproval(e)
    \/ \E e \in Employees, answers \in BOOLEAN : RejectLoanRequest(e, answers)
    \/ ProcessDueInstallments
    \/ \E S \in SUBSET Retrying : ProcessRetryInstallments(S)
    \/ \E i \in Installments :
         PayInstallment(i) \/ PaymentFails(i) \/ PaymentRolledBack(i) \/ CommitReportsError(i)
    \/ Restart

LoansSpec == LoansInit /\ [][LoansNext]_loanVars

-----------------------------------------------------------------------------
(* Properties *)

Approving(q) == \E e \in Employees : employee[e] = [at |-> "saved", id |-> q]

\* The money of a loan is paid out once, with the loan, whoever approves the
\* request at the same time; and unless two calls overlapped, the request says
\* whether there is a loan, but for an approval that failed after its save.
PaidOutOnce ==
    \A q \in LoanRequests :
      /\ payout[q] = IF loan[q].status = "NONE" THEN 0 ELSE 1
      /\ q \notin contested =>
           /\ loan[q].status # "NONE" => loanRequest[q] = "APPROVED"
           /\ loanRequest[q] = "APPROVED" =>
                loan[q].status # "NONE" \/ Approving(q) \/ q \in unsaved

Paid(q) == {n \in Numbers : installment[<<q, n>>] = "PAID"}

\* The money of an instalment is taken once, when it becomes PAID; the loan
\* counts its paid instalments, and is completed with the last of them.  The
\* exception are loans of which a batch held two copies (the count of one is
\* lost) and payments committed and reported as failed (they are taken again).
InstallmentsCounted ==
    \A q \in LoanRequests \ stale :
      /\ \A n \in Numbers : taken[<<q, n>>] = IF n \in Paid(q) THEN 1 ELSE 0
      /\ loan[q].paid = Cardinality(Paid(q))
      /\ loan[q].status = "COMPLETED" <=> Paid(q) = Numbers
==============================================================================
