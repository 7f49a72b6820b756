------------------------------ MODULE OtcSaga ------------------------------
(***************************************************************************)
(* Exercise of an OTC option contract: the saga of trading-service          *)
(* (OtcDealProcessingService) over the escrow of banking-service (OtcFunds).*)
(*                                                                          *)
(* The saga row of a contract is driven by runners: HTTP requests that      *)
(* exercise the contract, and the background worker.  A runner takes the    *)
(* in-process mutex of the execution, then repeats: load the row, perform   *)
(* the step the row names, store the outcome.  A step that calls banking is *)
(* two actions here, the call and the transaction that stores its outcome,  *)
(* so that a crash, a cancelled request or another actor may come between   *)
(* them.  A database transaction of trading-service is one action: the rows *)
(* it reads to decide are read FOR UPDATE.  Order fills and the publishing  *)
(* of shares touch the same ownership rows without a lock: they read a row, *)
(* and later write back what they read, whatever the saga did in between.   *)
(***************************************************************************)
EXTENDS OtcFunds

CONSTANTS
    Contracts,        \* OTC option contracts, all on one stock
    Users,            \* clients that own shares of that stock
    BuyerOf, SellerOf,            \* parties of each contract
    BuyerAccount, SellerAccount,  \* their accounts
    Price,            \* Price[c]: Amount * StrikePriceRSD
    Quantity,         \* Quantity[c]: shares the contract is about
    OpeningShares,    \* shares each user owns at the start
    OpeningReserved,  \* and how many of them the contracts reserve
    MaxShares,        \* bound: users stop buying shares at this number
    MaxAccesses,      \* bound: how often users trade or publish while contracts run
    Requesters,       \* concurrent HTTP requests
    Worker,           \* the goroutine started by Start
    NoRunner,         \* nobody holds the mutex
    MaxAttempts,      \* bound: how often a failed exercise is tried anew
    CommitAckLost     \* TRUE: a database COMMIT may succeed and yet report an
                      \* error, because the connection broke at that moment

Runners == Requesters \cup {Worker}

ASSUME SagaAssumption ==
    /\ IsFiniteSet(Contracts) /\ Contracts # {}
    /\ MaxAttempts \in Nat
    /\ Keys = Contracts \X (1 .. MaxAttempts)
    /\ BuyerOf \in [Contracts -> Users]
    /\ SellerOf \in [Contracts -> Users]
    /\ BuyerAccount \in [Contracts -> Accounts]
    /\ SellerAccount \in [Contracts -> Accounts]
    /\ \A c \in Contracts : BuyerAccount[c] # SellerAccount[c] /\ BuyerOf[c] # SellerOf[c]
    /\ Price \in [Contracts -> Amounts]
    /\ Quantity \in [Contracts -> Nat \ {0}]
    /\ OpeningShares \in [Users -> Nat]
    /\ OpeningReserved \in [Users -> Nat]
    /\ \A u \in Users : OpeningReserved[u] = SumFunctionOnSet([c \in Contracts |->
          IF SellerOf[c] = u THEN Quantity[c] ELSE 0], Contracts)
    /\ MaxAccesses \in Nat
    /\ Worker \notin Requesters /\ NoRunner \notin Runners
    /\ CommitAckLost \in BOOLEAN

VARIABLES
    contract,     \* OtcOptionContract.Status
    due,          \* the settlement date of the contract has passed
    shareRes,     \* OtcShareReservation.Status
    shares,       \* AssetOwnership.Amount of each user
    public,       \* AssetOwnership.PublicAmount
    reserved,     \* AssetOwnership.ReservedAmount
    saga,         \* the otc_execution_sagas row of each contract
    copy,         \* the ownership row as a fill or a publishing request read it
    accesses,     \* how many such copies were taken
    traded,       \* history: shares each user gained, less those lost, by fills
    lostMoves,    \* history: settlements a stale write took out of Amount again,
    lostFrees,    \* and ended reservations it put back into ReservedAmount
    lock,         \* execLocks: which runner holds the mutex of an execution
    pc,           \* where each runner is
    job,          \* the contract a runner works on
    view,         \* the saga row as the runner loaded it
    answer        \* what the runner's last call returned to it

contractVars == <<contract, due, shareRes>>
copyVars     == <<copy, accesses, traded, lostMoves, lostFrees>>
shareVars    == <<shares, public, reserved, copy, accesses,
                  traded, lostMoves, lostFrees>>
runnerVars   == <<lock, pc, job, view, answer>>
sagaVars     == <<contractVars, shareVars, saga, runnerVars>>
vars         == <<fundsVars, sagaVars>>

Steps == {"INIT", "FUNDS_RESERVED", "SHARES_CONFIRMED", "FUNDS_COMMITTED",
          "OWNERSHIP_TRANSFERRED", "COMPLETED"}

LiveStatuses     == {"IN_PROGRESS", "COMPENSATING"}
TerminalStatuses == {"COMPLETED", "FAILED"}

\* The row.  "attempt" stands for the execution key, which is fresh for every
\* attempt; "backoff" for a NextRetryAt that lies in the future.
SagaRows == [step : Steps, status : LiveStatuses \cup TerminalStatuses \cup {"NONE"},
             attempt : 0 .. MaxAttempts, backoff : BOOLEAN]

NoSaga == [step |-> "INIT", status |-> "NONE", attempt |-> 0, backoff |-> FALSE]

\* "ended" is history: the contracts whose reservation had ended when the row
\* was read.
Copies == [held : BOOLEAN, shares : Int, public : Int, reserved : Int,
           ended : SUBSET Contracts]

NoCopy == [held |-> FALSE, shares |-> 0, public |-> 0, reserved |-> 0, ended |-> {}]

Key(c, row) == <<c, row.attempt>>

Places == {"idle", "lock", "load", "F1", "F1done", "F2", "F2done", "F3", "F3done",
           "F4", "F4done", "F5", "C1", "C1done", "C3", "C3done"}

TypeOK ==
    /\ FundsTypeOK
    /\ contract \in [Contracts -> {"ACTIVE", "EXERCISED", "EXPIRED"}]
    /\ due \in [Contracts -> BOOLEAN]
    /\ shareRes \in [Contracts -> {"ACTIVE", "CONSUMED", "RELEASED"}]
    /\ shares \in [Users -> Int]
    /\ public \in [Users -> Int]
    /\ reserved \in [Users -> Int]
    /\ copy \in [Users -> Copies]
    /\ accesses \in 0 .. MaxAccesses
    /\ traded \in [Users -> Int]
    /\ lostMoves \in [Users -> SUBSET Contracts]
    /\ lostFrees \in [Users -> SUBSET Contracts]
    /\ saga \in [Contracts -> SagaRows]
    /\ lock \in [Contracts -> Runners \cup {NoRunner}]
    /\ pc \in [Runners -> Places]
    /\ job \in [Runners -> Contracts]
    /\ view \in [Runners -> SagaRows]
    /\ answer \in [Runners -> Replies]

ReservedFor(u) == SumFunctionOnSet([c \in Contracts |->
    IF SellerOf[c] = u /\ shareRes[c] = "ACTIVE" THEN Quantity[c] ELSE 0], Contracts)

Ended    == {c \in Contracts : shareRes[c] # "ACTIVE"}
Consumed == {c \in Contracts : shareRes[c] = "CONSUMED"}

\* FinalizeAgreement has activated every contract and reserved its shares; every
\* user has an ownership row of the stock.
Init ==
    /\ FundsInit
    /\ contract = [c \in Contracts |-> "ACTIVE"]
    /\ due = [c \in Contracts |-> FALSE]
    /\ shareRes = [c \in Contracts |-> "ACTIVE"]
    /\ shares = OpeningShares
    /\ public = OpeningShares
    /\ reserved = OpeningReserved
    /\ copy = [u \in Users |-> NoCopy]
    /\ accesses = 0
    /\ traded = [u \in Users |-> 0]
    /\ lostMoves = [u \in Users |-> {}]
    /\ lostFrees = [u \in Users |-> {}]
    /\ saga = [c \in Contracts |-> NoSaga]
    /\ lock = [c \in Contracts |-> NoRunner]
    /\ pc = [r \in Runners |-> "idle"]
    /\ job = [r \in Runners |-> CHOOSE c \in Contracts : TRUE]
    /\ view = [r \in Runners |-> NoSaga]
    /\ answer = [r \in Runners |-> "ok"]

-----------------------------------------------------------------------------
(* Rows and runners: helpers *)

AtLeastZero(n) == IF n >= 0 THEN n ELSE 0

\* Each of these is a transaction that reloads the row and leaves it alone
\* when it is already terminal, however stale the caller's view of it is.
Store(c, row) ==
    saga' = IF saga[c].status \in TerminalStatuses THEN saga
            ELSE [saga EXCEPT ![c] = row]

AdvanceExecution(c, step) ==
    Store(c, [saga[c] EXCEPT !.step = step, !.status = "IN_PROGRESS", !.backoff = FALSE])

ScheduleRetry(c, step) ==
    Store(c, [saga[c] EXCEPT !.step = step, !.status = "IN_PROGRESS", !.backoff = TRUE])

ScheduleCompensating(c, step) ==
    Store(c, [saga[c] EXCEPT !.step = step, !.status = "COMPENSATING", !.backoff = TRUE])

BeginCompensation(c, step) ==
    Store(c, [saga[c] EXCEPT !.step = step, !.status = "COMPENSATING", !.backoff = FALSE])

MarkFailed(c, step) ==
    Store(c, [saga[c] EXCEPT !.step = step, !.status = "FAILED", !.backoff = FALSE])

GoTo(r, place) ==
    /\ pc' = [pc EXCEPT ![r] = place]
    /\ UNCHANGED <<lock, job, view>>

Proceed(r, place) == GoTo(r, place) /\ UNCHANGED answer

\* Mutant of Leave: an early return that skips the Unlock.
LeaveLocked(r) ==
    /\ pc' = [pc EXCEPT ![r] = "idle"]
    /\ view' = [view EXCEPT ![r] = NoSaga]
    /\ answer' = [answer EXCEPT ![r] = "ok"]
    /\ UNCHANGED <<job, lock>>

\* processExecution returns: the deferred Unlock frees the mutex.
Leave(r) ==
    /\ pc' = [pc EXCEPT ![r] = "idle"]
    /\ lock' = IF lock[job[r]] = r THEN [lock EXCEPT ![job[r]] = NoRunner] ELSE lock
    /\ view' = [view EXCEPT ![r] = NoSaga]
    /\ answer' = [answer EXCEPT ![r] = "ok"]
    /\ UNCHANGED job

\* Runner r made a call to banking and received this answer.
Answered(r, reply, place) ==
    /\ answer' = [answer EXCEPT ![r] = reply]
    /\ GoTo(r, place)
    /\ UNCHANGED <<contractVars, shareVars, saga>>

-----------------------------------------------------------------------------
(* The contract and the seller's shares *)

ShouldExpire(c) == contract[c] = "ACTIVE" /\ due[c]

\* Mutant of Expire: the share reservation is freed and not saved.
ExpireKeepsReservation(c) ==
    /\ contract' = [contract EXCEPT ![c] = "EXPIRED"]
    /\ reserved' = [reserved EXCEPT ![SellerOf[c]] = AtLeastZero(@ - Quantity[c])]
    /\ UNCHANGED <<shareRes, due, shares, public, copyVars>>

\* expireLockedContract
Expire(c) ==
    /\ contract' = [contract EXCEPT ![c] = "EXPIRED"]
    /\ IF shareRes[c] = "ACTIVE"
       THEN /\ shareRes' = [shareRes EXCEPT ![c] = "RELEASED"]
            /\ reserved' = [reserved EXCEPT ![SellerOf[c]] = AtLeastZero(@ - Quantity[c])]
       ELSE UNCHANGED <<shareRes, reserved>>
    /\ UNCHANGED <<due, shares, public, copyVars>>

\* validateContractForExecution and the check of the share reservation
Exercisable(c) == contract[c] = "ACTIVE" /\ ~due[c] /\ shareRes[c] = "ACTIVE"

\* Mutant of SellerCanSettle: the reservation is taken for the shares.
SellerHasReserved(c) == reserved[SellerOf[c]] >= Quantity[c]

\* ensureSellerCapacityForSettlement: enough for this contract and, after it,
\* for every other active reservation of the same seller.
SellerCanSettle(c) ==
    /\ shares[SellerOf[c]] >= Quantity[c]
    /\ shares[SellerOf[c]] - Quantity[c] >= ReservedFor(SellerOf[c]) - Quantity[c]

MoveShares(c) ==
    LET seller == SellerOf[c]
    IN  /\ shares' = [shares EXCEPT ![seller] = @ - Quantity[c],
                                    ![BuyerOf[c]] = @ + Quantity[c]]
        /\ public' = [public EXCEPT ![seller] = AtLeastZero(@ - Quantity[c])]
        /\ reserved' = [reserved EXCEPT ![seller] = AtLeastZero(@ - Quantity[c])]
        /\ UNCHANGED copyVars

-----------------------------------------------------------------------------
(* Entering and leaving processExecution *)

\* A saga that is on its way is resumed, and its backoff dropped.
ResumeSaga(r, c) ==
    /\ saga[c].status \in LiveStatuses
    /\ saga' = [saga EXCEPT ![c].backoff = FALSE]
    /\ pc' = [pc EXCEPT ![r] = "lock"]
    /\ job' = [job EXCEPT ![r] = c]
    /\ UNCHANGED <<contractVars, shareVars, lock, view, answer>>

\* No saga, or a failed one: a fresh row, or the same row under a new key.
StartSaga(r, c) ==
    /\ saga[c].status \in {"NONE", "FAILED"}
    /\ Exercisable(c)
    /\ saga[c].attempt < MaxAttempts
    /\ saga' = [saga EXCEPT ![c] =
         [step |-> "INIT", status |-> "IN_PROGRESS",
          attempt |-> saga[c].attempt + 1, backoff |-> FALSE]]
    /\ pc' = [pc EXCEPT ![r] = "lock"]
    /\ job' = [job EXCEPT ![r] = c]
    /\ UNCHANGED <<contractVars, shareVars, lock, view, answer>>

\* The request finds the contract past its date: it expires it and fails.
ExpireOnRequest(c) ==
    /\ saga[c].status \in {"NONE", "FAILED"}
    /\ ShouldExpire(c)
    /\ Expire(c)
    /\ UNCHANGED <<saga, runnerVars>>

EnsureExecutionSaga(r, c) ==
    /\ pc[r] = "idle"
    /\ ResumeSaga(r, c) \/ StartSaga(r, c) \/ ExpireOnRequest(c)
    /\ UNCHANGED fundsVars

\* ProcessPendingExecutions: the worker takes a row whose retry is due.
PickPending(c) ==
    /\ pc[Worker] = "idle"
    /\ saga[c].status \in LiveStatuses
    /\ ~saga[c].backoff
    /\ pc' = [pc EXCEPT ![Worker] = "lock"]
    /\ job' = [job EXCEPT ![Worker] = c]
    /\ UNCHANGED <<fundsVars, contractVars, shareVars, saga, lock, view, answer>>

\* Mutant of AcquireLock: TryLock, with its result ignored.
AcquireWithoutMutex(r) ==
    /\ pc[r] = "lock"
    /\ lock' = [lock EXCEPT ![job[r]] = r]
    /\ pc' = [pc EXCEPT ![r] = "load"]
    /\ UNCHANGED <<fundsVars, contractVars, shareVars, saga, job, view, answer>>

AcquireLock(r) ==
    /\ pc[r] = "lock"
    /\ lock[job[r]] = NoRunner
    /\ lock' = [lock EXCEPT ![job[r]] = r]
    /\ pc' = [pc EXCEPT ![r] = "load"]
    /\ UNCHANGED <<fundsVars, contractVars, shareVars, saga, job, view, answer>>

\* What the row makes a runner do.  A row that compensates at any other step
\* has nothing to undo and goes straight to markFailed.
Place(row) ==
    CASE row.status = "COMPENSATING" /\ row.step = "FUNDS_RESERVED"       -> "C1"
      [] row.status = "COMPENSATING" /\ row.step = "FUNDS_COMMITTED"      -> "C3"
      [] row.status = "COMPENSATING" /\ row.step \notin {"FUNDS_RESERVED", "FUNDS_COMMITTED"}
                                                                          -> "C1done"
      [] row.status = "IN_PROGRESS" /\ row.step = "INIT"                  -> "F1"
      [] row.status = "IN_PROGRESS" /\ row.step = "FUNDS_RESERVED"        -> "F2"
      [] row.status = "IN_PROGRESS" /\ row.step = "SHARES_CONFIRMED"      -> "F3"
      [] row.status = "IN_PROGRESS" /\ row.step = "FUNDS_COMMITTED"       -> "F4"
      [] row.status = "IN_PROGRESS" /\ row.step = "OWNERSHIP_TRANSFERRED" -> "F5"
      [] OTHER                                                            -> "idle"

\* Head of the loop of processExecution: return, compensate or go forward.
LoadExecution(r) ==
    LET row == saga[job[r]]
    IN  /\ pc[r] = "load"
        /\ IF row.backoff \/ Place(row) = "idle"
           THEN Leave(r)
           ELSE /\ view' = [view EXCEPT ![r] = row]
                /\ pc' = [pc EXCEPT ![r] = Place(row)]
                /\ answer' = [answer EXCEPT ![r] = "ok"]
                /\ UNCHANGED <<lock, job>>
        /\ UNCHANGED <<fundsVars, contractVars, shareVars, saga>>

-----------------------------------------------------------------------------
(* F1: reserve the buyer's funds *)

TermsOf(c) == [buyer |-> BuyerAccount[c], seller |-> SellerAccount[c], amount |-> Price[c]]

ReserveFunds(r) ==
    /\ pc[r] = "F1"
    /\ \E reply \in Replies :
         /\ Reserve(Key(job[r], view[r]), TermsOf(job[r]), reply)
         /\ Answered(r, reply, "F1done")

\* Mutant of FinishReserve: an unclear answer is taken for a refusal.
FinishReserveGivesUp(r) ==
    LET c == job[r]
    IN  /\ pc[r] = "F1done"
        /\ IF answer[r] = "ok" THEN AdvanceExecution(c, "FUNDS_RESERVED")
                               ELSE MarkFailed(c, view[r].step)
        /\ Proceed(r, "load")
        /\ UNCHANGED <<fundsVars, contractVars, shareVars>>

FinishReserve(r) ==
    LET c == job[r]
    IN  /\ pc[r] = "F1done"
        /\ CASE answer[r] = "ok"      -> AdvanceExecution(c, "FUNDS_RESERVED")
             [] answer[r] = "refused" -> MarkFailed(c, view[r].step)
             [] answer[r] = "error"   -> ScheduleRetry(c, view[r].step)
        /\ Proceed(r, "load")
        /\ UNCHANGED <<fundsVars, contractVars, shareVars>>

-----------------------------------------------------------------------------
(* F2: confirm that the seller still has the shares *)

\* The transaction saves the row as the runner loaded it, with the new step.
SaveView(r, step) ==
    saga' = [saga EXCEPT ![job[r]] =
               [view[r] EXCEPT !.step = step, !.status = "IN_PROGRESS", !.backoff = FALSE]]

ConfirmShares(r) ==
    LET c == job[r]
    IN  /\ pc[r] = "F2"
        /\ \/ /\ ShouldExpire(c)
              /\ Expire(c)
              /\ Proceed(r, "C1")
              /\ UNCHANGED saga
           \/ /\ ~ShouldExpire(c)
              /\ ~(Exercisable(c) /\ SellerCanSettle(c))
              /\ Proceed(r, "C1")
              /\ UNCHANGED <<contractVars, shareVars, saga>>
           \/ /\ Exercisable(c) /\ SellerCanSettle(c)
              /\ SaveView(r, "SHARES_CONFIRMED")
              /\ Proceed(r, "load")
              /\ UNCHANGED <<contractVars, shareVars>>
        /\ UNCHANGED fundsVars

RetryConfirm(r) ==
    /\ pc[r] = "F2done"
    /\ ScheduleRetry(job[r], view[r].step)
    /\ Proceed(r, "load")
    /\ UNCHANGED <<fundsVars, contractVars, shareVars>>

-----------------------------------------------------------------------------
(* F3: commit the funds *)

CommitFunds(r) ==
    /\ pc[r] = "F3"
    /\ \E reply \in Replies :
         Commit(Key(job[r], view[r]), reply) /\ Answered(r, reply, "F3done")

\* Mutant of FinishCommit: an unclear answer is taken for a commit.
FinishCommitTrusts(r) ==
    LET c == job[r]
    IN  /\ pc[r] = "F3done"
        /\ IF answer[r] = "refused"
           THEN Proceed(r, "C1") /\ UNCHANGED saga
           ELSE AdvanceExecution(c, "FUNDS_COMMITTED") /\ Proceed(r, "load")
        /\ UNCHANGED <<fundsVars, contractVars, shareVars>>

FinishCommit(r) ==
    LET c == job[r]
    IN  /\ pc[r] = "F3done"
        /\ \/ /\ answer[r] = "ok"
              /\ AdvanceExecution(c, "FUNDS_COMMITTED")
              /\ Proceed(r, "load")
           \/ /\ answer[r] = "refused"
              /\ Proceed(r, "C1")
              /\ UNCHANGED saga
           \/ /\ answer[r] = "error"
              /\ ScheduleRetry(c, view[r].step)
              /\ Proceed(r, "load")
        /\ UNCHANGED <<fundsVars, contractVars, shareVars>>

-----------------------------------------------------------------------------
(* F4: move the shares, mark the contract exercised; then F5 *)

\* Shares, contract, share reservation and saga row change in one transaction.
Settle(r) ==
    LET c == job[r]
    IN  /\ Exercisable(c) /\ SellerCanSettle(c)
        /\ MoveShares(c)
        /\ contract' = [contract EXCEPT ![c] = "EXERCISED"]
        /\ shareRes' = [shareRes EXCEPT ![c] = "CONSUMED"]
        /\ SaveView(r, "OWNERSHIP_TRANSFERRED")
        /\ UNCHANGED <<fundsVars, due>>

TransferOwnership(r) ==
    LET c == job[r]
    IN  /\ pc[r] = "F4"
        /\ \/ Settle(r) /\ Proceed(r, "load")
           \/ /\ ShouldExpire(c)
              /\ Expire(c)
              /\ Proceed(r, "F4done")
              /\ UNCHANGED <<fundsVars, saga>>
           \/ /\ ~ShouldExpire(c)
              /\ ~(Exercisable(c) /\ SellerCanSettle(c))
              /\ Proceed(r, "F4done")
              /\ UNCHANGED <<fundsVars, contractVars, shareVars, saga>>

\* Any error of F4 starts the compensation; the run goes on with it at once.
CompensateTransfer(r) ==
    /\ pc[r] = "F4done"
    /\ BeginCompensation(job[r], "FUNDS_COMMITTED")
    /\ Proceed(r, "load")
    /\ UNCHANGED <<fundsVars, contractVars, shareVars>>

\* completeExecution looks at the row's status alone.
CompleteExecution(r) ==
    LET c == job[r]
    IN  /\ pc[r] = "F5"
        /\ saga' = IF saga[c].status = "COMPLETED" THEN saga
                   ELSE [saga EXCEPT ![c].step = "COMPLETED", ![c].status = "COMPLETED",
                                     ![c].backoff = FALSE]
        /\ Proceed(r, "load")
        /\ UNCHANGED <<fundsVars, contractVars, shareVars>>

-----------------------------------------------------------------------------
(* C1 and C3: the compensators *)

ReleaseFunds(r) ==
    /\ pc[r] = "C1"
    /\ \E reply \in Replies :
         Release(Key(job[r], view[r]), reply) /\ Answered(r, reply, "C1done")

RefundFunds(r) ==
    /\ pc[r] = "C3"
    /\ \E reply \in Replies :
         Refund(Key(job[r], view[r]), reply) /\ Answered(r, reply, "C3done")

\* Mutant of FinishCompensation: FAILED whether or not the compensator worked.
FinishCompensationAnyway(r) ==
    LET c    == job[r]
        step == IF pc[r] = "C3done" THEN "FUNDS_COMMITTED" ELSE "FUNDS_RESERVED"
    IN  /\ pc[r] \in {"C1done", "C3done"}
        /\ MarkFailed(c, step)
        /\ IF view[r].status = "COMPENSATING" THEN Leave(r) ELSE Proceed(r, "load")
        /\ UNCHANGED <<fundsVars, contractVars, shareVars>>

\* handleCompensation ends the run; releaseAndFail returns into the loop.  A
\* compensator that fails for whatever reason is tried again, forever.
FinishCompensation(r) ==
    LET c    == job[r]
        step == IF pc[r] = "C3done" THEN "FUNDS_COMMITTED"
                ELSE IF view[r].status = "COMPENSATING" THEN view[r].step
                ELSE "FUNDS_RESERVED"
    IN  /\ pc[r] \in {"C1done", "C3done"}
        /\ IF answer[r] = "ok" THEN MarkFailed(c, step) ELSE ScheduleCompensating(c, step)
        /\ IF view[r].status = "COMPENSATING" THEN Leave(r) ELSE Proceed(r, "load")
        /\ UNCHANGED <<fundsVars, contractVars, shareVars>>

-----------------------------------------------------------------------------
(* The clock, the expiry job, and everyone else *)

SettlementDatePasses(c) ==
    /\ ~due[c]
    /\ due' = [due EXCEPT ![c] = TRUE]
    /\ UNCHANGED <<fundsVars, contract, shareRes, shareVars, saga, runnerVars>>

RetryDelayPasses(c) ==
    /\ saga[c].backoff
    /\ saga' = [saga EXCEPT ![c].backoff = FALSE]
    /\ UNCHANGED <<fundsVars, contractVars, shareVars, runnerVars>>

ExpireContract(c) ==
    /\ ShouldExpire(c)
    /\ Expire(c)
    /\ UNCHANGED <<fundsVars, saga, runnerVars>>

\* updateAssetOwnership, the exercise of a stock option and PublishAsset read
\* the ownership row without a lock, each in no transaction with its write.
\* One of them at a time holds a copy of a user's row; those of two users, and
\* everything the saga does, interleave with it.
FindOwnership(u) ==
    /\ ~copy[u].held
    /\ accesses < MaxAccesses
    /\ accesses' = accesses + 1
    /\ copy' = [copy EXCEPT ![u] = [held |-> TRUE, shares |-> shares[u], public |-> public[u],
                                     reserved |-> reserved[u], ended |-> Ended]]
    /\ UNCHANGED <<fundsVars, contractVars, shares, public, reserved,
                   traded, lostMoves, lostFrees, saga, runnerVars>>

\* The write puts back the published and the reserved shares that were read.
PutBack(u, published) ==
    /\ copy[u].held
    /\ public' = [public EXCEPT ![u] = published]
    /\ reserved' = [reserved EXCEPT ![u] = copy[u].reserved]
    /\ lostFrees' = [lostFrees EXCEPT ![u] = @ \cup (Ended \ copy[u].ended)]
    /\ copy' = [copy EXCEPT ![u] = NoCopy]
    /\ UNCHANGED <<fundsVars, contractVars, accesses, saga, runnerVars>>

\* Upsert after a fill of one share more or less than the copy shows.  A sale
\* looks at the amount of the copy, never at the shares contracts have reserved.
UpsertOwnership(u) ==
    /\ \E d \in {-1, 1} :
         /\ copy[u].shares + d \in 0 .. (IF d = 1 THEN MaxShares ELSE copy[u].shares)
         /\ shares' = [shares EXCEPT ![u] = copy[u].shares + d]
         /\ traded' = [traded EXCEPT ![u] = @ + d]
    /\ lostMoves' = [lostMoves EXCEPT ![u] = @ \cup (Consumed \ copy[u].ended)]
    /\ PutBack(u, copy[u].public)

\* PublishAsset: more published shares, as many as the copy shows to be free.
UpdateOTCFields(u) ==
    /\ \E n \in {0, 1} :
         /\ copy[u].public + n <= copy[u].shares - copy[u].reserved
         /\ PutBack(u, copy[u].public + n)
    /\ UNCHANGED <<shares, traded, lostMoves>>

\* The request fails, or finds too few shares: nothing is written.
DropOwnership(u) ==
    /\ copy[u].held
    /\ copy' = [copy EXCEPT ![u] = NoCopy]
    /\ UNCHANGED <<fundsVars, contractVars, shares, public, reserved, accesses,
                   traded, lostMoves, lostFrees, saga, runnerVars>>

OwnershipAccess(u) ==
    FindOwnership(u) \/ UpsertOwnership(u) \/ UpdateOTCFields(u) \/ DropOwnership(u)

AccountActivity(a) ==
    /\ Withdraw(a) \/ Deposit(a)
    /\ UNCHANGED sagaVars

-----------------------------------------------------------------------------
(* What can break *)

\* The runner stops where it is: the process crashed, the request was
\* cancelled, a transaction failed and its error was returned, or the run has
\* used up its maxExecutionStepsPerRun.  What is stored stays stored; the
\* mutex does not survive.
Abort(r) ==
    /\ pc[r] # "idle"
    /\ Leave(r)
    /\ UNCHANGED <<fundsVars, contractVars, shareVars, saga>>

\* A call times out or its connection breaks: it never arrived, or banking did
\* its work and the answer is lost.  The client sees an error it will retry.
CallFails(r) ==
    LET key == Key(job[r], view[r])
    IN  \/ /\ pc[r] = "F1"
           /\ \/ UNCHANGED fundsVars
              \/ \E reply \in Replies : Reserve(key, TermsOf(job[r]), reply)
           /\ Answered(r, "error", "F1done")
        \/ /\ pc[r] = "F3"
           /\ UNCHANGED fundsVars \/ \E reply \in Replies : Commit(key, reply)
           /\ Answered(r, "error", "F3done")
        \/ /\ pc[r] = "C1"
           /\ UNCHANGED fundsVars \/ \E reply \in Replies : Release(key, reply)
           /\ Answered(r, "error", "C1done")
        \/ /\ pc[r] = "C3"
           /\ UNCHANGED fundsVars \/ \E reply \in Replies : Refund(key, reply)
           /\ Answered(r, "error", "C3done")

\* The save of F2 or its COMMIT fails after the checks were passed.  The new
\* step is already set on the runner's own copy of the row, and the retry
\* stores it: F2 counts as done, although its transaction was rolled back.
ConfirmNotSaved(r) ==
    /\ pc[r] = "F2"
    /\ Exercisable(job[r]) /\ SellerCanSettle(job[r])
    /\ view' = [view EXCEPT ![r].step = "SHARES_CONFIRMED"]
    /\ pc' = [pc EXCEPT ![r] = "F2done"]
    /\ UNCHANGED <<fundsVars, contractVars, shareVars, saga, lock, job, answer>>

\* The transaction of F2 or F4 fails in the database and leaves no trace.
TransactionFails(r) ==
    /\ \/ pc[r] = "F2" /\ Proceed(r, "F2done")
       \/ pc[r] = "F4" /\ Proceed(r, "F4done")
    /\ UNCHANGED <<fundsVars, contractVars, shareVars, saga>>

\* The COMMIT of F4 took effect, yet the connection broke before it said so.
TransferUnacknowledged(r) ==
    /\ CommitAckLost
    /\ pc[r] = "F4"
    /\ Settle(r)
    /\ Proceed(r, "F4done")

-----------------------------------------------------------------------------
RunnerStep(r) ==
    \/ AcquireLock(r) \/ LoadExecution(r)
    \/ ReserveFunds(r) \/ FinishReserve(r)
    \/ ConfirmShares(r) \/ RetryConfirm(r)
    \/ CommitFunds(r) \/ FinishCommit(r)
    \/ TransferOwnership(r) \/ CompensateTransfer(r)
    \/ CompleteExecution(r)
    \/ ReleaseFunds(r) \/ RefundFunds(r) \/ FinishCompensation(r)

Fault(r) ==
    \/ Abort(r) \/ CallFails(r)
    \/ TransactionFails(r) \/ ConfirmNotSaved(r) \/ TransferUnacknowledged(r)

Environment ==
    \/ \E c \in Contracts :
         SettlementDatePasses(c) \/ RetryDelayPasses(c) \/ ExpireContract(c)
    \/ \E u \in Users : OwnershipAccess(u)
    \/ \E a \in Accounts : AccountActivity(a)

FaultlessNext ==
    \/ \E r \in Requesters, c \in Contracts : EnsureExecutionSaga(r, c)
    \/ \E c \in Contracts : PickPending(c)
    \/ \E r \in Runners : RunnerStep(r)
    \/ Environment

Next == FaultlessNext \/ \E r \in Runners : Fault(r)

Spec == Init /\ [][Next]_vars

-----------------------------------------------------------------------------
(* Fairness *)

\* The worker's ticker never stops, the Go scheduler runs every goroutine, and
\* sync.Mutex starves none of those that wait for it; the clock moves on.
Fairness ==
    /\ \A c \in Contracts : SF_vars(PickPending(c)) /\ WF_vars(RetryDelayPasses(c))
    /\ SF_vars(AcquireLock(Worker))
    /\ \A r \in Runners : WF_vars(RunnerStep(r))

FairSpec == Spec /\ Fairness

-----------------------------------------------------------------------------
(* Properties *)

StatusOf(c, n) == Status(<<c, n>>)
Attempts == 1 .. MaxAttempts

\* Whoever has the shares, the other has the money: an exercised contract has
\* its last attempt committed at the bank, and nothing is refunded or released
\* behind it; the saga reports success only for an exercised contract.
ExercisedMeansPaid ==
    \A c \in Contracts :
      /\ contract[c] = "EXERCISED" => StatusOf(c, saga[c].attempt) = "COMMITTED"
      /\ saga[c].status = "COMPLETED" => contract[c] = "EXERCISED"

\* A saga that failed holds no money of the buyer, under the key of any
\* attempt: FAILED is stored only after the compensations have been run.
FailedMeansRefunded ==
    \A c \in Contracts : saga[c].status = "FAILED" =>
      \A n \in Attempts : StatusOf(c, n) \notin {"RESERVED", "COMMITTED"}

\* However often an exercise fails and is tried anew, and whichever answers
\* were lost on the way, at most one attempt has money of the buyer.
OneLiveAttempt ==
    \A c \in Contracts, n, m \in Attempts :
      /\ StatusOf(c, n) \in {"RESERVED", "COMMITTED"}
      /\ StatusOf(c, m) \in {"RESERVED", "COMMITTED"}
      => n = m

\* ReservedAmount of a seller covers his active reservations at all times, and
\* exceeds them only by reservations that ended between the read and the write
\* of a stale writer: exercise, expiry by the job, by a request and by a saga
\* step free each reservation once, and no more than it holds.
ReservedAmountMatches ==
    \A u \in Users : reserved[u] = SumFunctionOnSet([c \in Contracts |->
        IF SellerOf[c] = u /\ (shareRes[c] = "ACTIVE" \/ c \in lostFrees[u])
        THEN Quantity[c] ELSE 0], Contracts)

\* What settlement of c adds to the shares of u.
Delivered(c, u) ==
    CASE u = BuyerOf[c]  -> Quantity[c]
      [] u = SellerOf[c] -> -Quantity[c]
      [] OTHER           -> 0

\* Settlements never sell shares that the seller does not have, whatever he and
\* his orders do between the agreement and the exercise of several contracts.
\* Every share is accounted for: what a user has is what he started with, his
\* fills, and the settlements of his contracts but those that came between the
\* read and the write of a fill, which undid them.
SharesAccounted ==
    \A u \in Users :
      /\ shares[u] >= 0
      /\ shares[u] = OpeningShares[u] + traded[u] + SumFunctionOnSet([c \in Contracts |->
           IF c \in Consumed \ lostMoves[u] THEN Delivered(c, u) ELSE 0], Contracts)

\* The saga implements delivery versus payment.  Committed money counts as
\* escrow until the shares have moved, because F4 can still fail and C3 then
\* takes the money back.
DVP == INSTANCE DeliveryVersusPayment WITH
    money <- [c \in Contracts |->
        IF \E n \in Attempts : StatusOf(c, n) \in {"RESERVED", "COMMITTED"}
        THEN IF /\ contract[c] = "EXERCISED"
                /\ \E n \in Attempts : StatusOf(c, n) = "COMMITTED"
             THEN "seller" ELSE "escrow"
        ELSE "buyer"],
    stock <- [c \in Contracts |-> IF shareRes[c] = "CONSUMED" THEN "buyer" ELSE "seller"],
    option <- contract

DeliveryVersusPayment == DVP!DvpSafety

\* From some time on the seller could pay back what he was paid.
SellerStaysSolvent(c) ==
    <>[](\A n \in Attempts : StatusOf(c, n) = "COMMITTED" => SellerCovers(<<c, n>>))

\* Crashes, lost answers and failing transactions come to an end.
FaultsStop == <>[][FaultlessNext]_vars

\* Every exercise ends, in success or with everything undone, if faults stop
\* and a seller who must give money back has it: no lost answer, crash or race
\* of runners leaves a saga that no retry can finish.
ExerciseEnds ==
    FaultsStop => \A c \in Contracts : SellerStaysSolvent(c) =>
      (saga[c].status \in LiveStatuses ~> saga[c].status \in TerminalStatuses)

-----------------------------------------------------------------------------
(* The inductive invariant behind the safety properties.  It says, for every *)
(* state of the saga row, what the bank may have recorded under its key, and *)
(* for a runner between a call and the transaction that stores its outcome,  *)
(* what the answer it carries tells about the bank.                          *)

Dead == {"NONE", "RELEASED", "REFUNDED"}

\* What the bank may say of the current attempt, by direction and step.
BankStatuses(row) ==
    CASE row.status = "IN_PROGRESS" /\ row.step = "INIT" -> {"NONE", "RESERVED"}
      [] row.status = "IN_PROGRESS" /\ row.step = "FUNDS_RESERVED" -> {"RESERVED", "RELEASED"}
      [] row.status = "IN_PROGRESS" /\ row.step = "SHARES_CONFIRMED"
           -> {"RESERVED", "RELEASED", "COMMITTED"}
      [] row.status = "IN_PROGRESS" /\ row.step = "FUNDS_COMMITTED" -> {"COMMITTED"}
      [] row.status = "IN_PROGRESS" /\ row.step = "OWNERSHIP_TRANSFERRED" -> {"COMMITTED"}
      [] row.status = "COMPENSATING" /\ row.step = "FUNDS_RESERVED" -> {"RESERVED", "RELEASED"}
      [] row.status = "COMPENSATING" /\ row.step = "FUNDS_COMMITTED" -> {"COMMITTED", "REFUNDED"}
      [] row.status = "FAILED" /\ row.step \notin {"OWNERSHIP_TRANSFERRED", "COMPLETED"} -> Dead
      [] row.status = "COMPLETED" /\ row.step = "COMPLETED" -> {"COMMITTED"}
      [] OTHER -> {}

RowMatchesBank(c) ==
    \/ /\ saga[c] = NoSaga
       /\ \A n \in Attempts : StatusOf(c, n) = "NONE"
    \/ /\ saga[c].status # "NONE"
       /\ saga[c].attempt \in Attempts
       /\ StatusOf(c, saga[c].attempt) \in BankStatuses(saga[c])
       /\ \A n \in Attempts : n < saga[c].attempt => StatusOf(c, n) \in Dead
       /\ \A n \in Attempts : n > saga[c].attempt => StatusOf(c, n) = "NONE"

ContractMatchesRow(c) ==
    /\ contract[c] = "EXERCISED" <=> saga[c].step \in {"OWNERSHIP_TRANSFERRED", "COMPLETED"}
    /\ contract[c] = "EXERCISED" <=> shareRes[c] = "CONSUMED"
    /\ contract[c] = "ACTIVE" <=> shareRes[c] = "ACTIVE"

TermsAreKept(c) ==
    \A n \in Attempts :
      reservation[<<c, n>>] # NoReservation => reservation[<<c, n>>].request = TermsOf(c)

Processing(r) == pc[r] \notin {"idle", "lock"}

MutexHeld(r) == Processing(r) => lock[job[r]] = r

\* Where a runner is, given the row it has loaded.
PlaceMatchesView(place, v) ==
    CASE place \in {"F1", "F1done"} -> v.status = "IN_PROGRESS" /\ v.step = "INIT"
      [] place = "F2" -> v.status = "IN_PROGRESS" /\ v.step = "FUNDS_RESERVED"
      [] place = "F2done" ->
           v.status = "IN_PROGRESS" /\ v.step \in {"FUNDS_RESERVED", "SHARES_CONFIRMED"}
      [] place \in {"F3", "F3done"} -> v.status = "IN_PROGRESS" /\ v.step = "SHARES_CONFIRMED"
      [] place \in {"F4", "F4done"} -> v.status = "IN_PROGRESS" /\ v.step = "FUNDS_COMMITTED"
      [] place = "F5" -> v.status = "IN_PROGRESS" /\ v.step = "OWNERSHIP_TRANSFERRED"
      [] place \in {"C1", "C1done"} ->
           \/ v.step = "FUNDS_RESERVED"
           \/ v.status = "IN_PROGRESS" /\ v.step = "SHARES_CONFIRMED"
      [] place \in {"C3", "C3done"} -> v.status = "COMPENSATING" /\ v.step = "FUNDS_COMMITTED"
      [] OTHER -> TRUE

\* The step in the row: a runner whose F2 was rolled back may be ahead of it.
StoredStep(place, v) == IF place = "F2done" THEN "FUNDS_RESERVED" ELSE v.step

\* What the answer a runner carries says of the bank.
AnswerMatchesBank(place, ans, bank) ==
    CASE place = "F1done" -> /\ ans = "ok" => bank = "RESERVED"
                             /\ ans = "refused" => bank = "NONE"
      [] place = "F3done" -> /\ ans = "ok" => bank = "COMMITTED"
                             /\ ans = "refused" => bank = "RELEASED"
      [] place = "C1"     -> bank \in {"RESERVED", "RELEASED"}
      [] place = "C1done" -> /\ bank \in {"RESERVED", "RELEASED"}
                             /\ ans = "ok" => bank = "RELEASED"
      [] place = "C3done" -> ans = "ok" => bank = "REFUNDED"
      [] OTHER            -> TRUE

RunnerMatchesRow(r) ==
    Processing(r) /\ pc[r] # "load" =>
      /\ saga[job[r]].status \in LiveStatuses
      /\ saga[job[r]].status = view[r].status
      /\ saga[job[r]].step = StoredStep(pc[r], view[r])
      /\ saga[job[r]].attempt = view[r].attempt
      /\ PlaceMatchesView(pc[r], view[r])
      /\ AnswerMatchesBank(pc[r], answer[r], StatusOf(job[r], view[r].attempt))

SagaInv ==
    /\ TypeOK
    /\ \A c \in Contracts : RowMatchesBank(c) /\ ContractMatchesRow(c) /\ TermsAreKept(c)
    /\ \A r \in Runners : MutexHeld(r) /\ RunnerMatchesRow(r)
=============================================================================
