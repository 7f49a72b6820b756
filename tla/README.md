# Formal models of the Banka-4 backend

The backend is five Go services over PostgreSQL that talk gRPC to each other
(`src/services/*`, shared code in `src/common/pkg`). What is hard in it is money
and shares that change hands across service boundaries: the services have
separate databases, so every such exchange is a protocol of local transactions,
calls that may fail or lose their answers, and compensations. This directory
models these protocols in TLA+, checks them with TLC on small instances and
proves the most important results with TLAPS for all instances.

## The system

| component | state it keeps | operations | talks to |
|---|---|---|---|
| OTC negotiation and agreement (trading) | offers, option contracts, ownership with published and reserved shares | create, counter, accept, reject, publish, `FinalizeAgreement` | banking (premium) |
| OTC exercise saga (trading) | saga rows, share reservations, contracts | `ExerciseContract`, the worker's pending and expiry passes, steps F1-F5, compensators C1, C3 | banking (escrow) |
| OTC funds escrow (banking) | reservation per execution key, account balance and available balance | `Reserve`, `Release`, `Commit`, `Refund` | called by the saga |
| Payments, transaction processor, transfers (banking) | payments, transactions, balances, limits | create, verify, process | interbank |
| Loans (banking) | requests, loans, instalments | approve, daily and retry jobs | transaction processor |
| Interbank two-phase commit (interbank) | prepared transactions, inbox, outbox | prepare, commit, rollback, outbox worker | banking, trading, the peer bank |
| Interbank OTC (interbank) | peer negotiations and contracts | offers, accept, exercise, expiry job | the two-phase commit |
| Interbank cash (banking), peer shares (trading) | reservations per posting | prepare/commit/rollback; reserve/release/consume/credit | called by interbank |
| Orders (trading) | orders, order transactions, ownership | create, approve, scheduler fills | banking (settlement) |
| Funds, dividends, taxes, recurring orders, price alerts (trading) | positions, redemptions, tax owed, schedules | requests and jobs | banking, orders |
| Listings, exchanges, options, portfolio, watchlists (trading) | exchanges and their hours, ownership, quotes | exercise of listed options, refresh jobs, reads | banking (settlement), orders |
| Accounts, cards, companies, payees, rates (banking) | cards and their requests; records | request, confirm, block, unblock, deactivate; forms | - |
| Users, authentication, actuaries (user) | identities, tokens, sessions; roles, limits | activation, login, refresh, resets; role changes, limit and its reset | trading (funds) |
| E-mail | - | one SMTP call per request | called by all |

`PROJECT.json` lists each with its sources and whether it is modelled, and the
hazards of the code at the lines where they bite.

What is hard, and what makes each part correct:

* *Exercise of a contract.* Two databases, a saga row as the only memory, a
  worker and HTTP requests as competing drivers, answers that are lost, crashes
  between a call and its record, expiry at any moment, order fills and account
  activity beside it. Correct is: shares against money, never one without the
  other; a failed exercise leaves no money behind under any key; it ends.
* *The escrow.* Repeated, late and out-of-order calls; different currencies.
  Correct is: each reservation moves along its lifecycle once; the difference of
  balance and available balance is what is held; nothing is created or lost.
* *Agreement.* Requests read without locks and write whole rows; a payment lies
  between two transactions. Correct is: a contract is paid for, a failed
  acceptance is given back, contracts never exceed the published shares.
* *Interbank.* A two-phase commit over HTTP with an outbox: duplicated and
  reordered messages, crashes, bounded retries. Correct is: both banks decide
  alike, nothing stays reserved, a payment's status tells the truth.
* *Orders, payments, loans, funds, taxes, dividends.* A settlement and several
  separate writes behind it; absolute balances written by overlapping
  transactions. Correct is: what was paid is what was recorded, once.
* *Identities and actuaries.* Rows read and written back whole. Correct is: only
  an unused link or the password changes a password; limits and funds follow roles.

## The modules

| module | models | code |
|---|---|---|
| `OtcFunds` | the escrow: one action per call, one row per key | banking `otc_funds_service.go` |
| `OtcSaga` (extends `OtcFunds`) | the exercise saga over it | trading `otc_deal_processing_service.go` |
| `DeliveryVersusPayment` | abstract: what an exercise promises the two parties | - |
| `OtcAgreement` | negotiation, agreement, publication of shares | trading `otc_offer_service.go`, `otc_deal_processing_service.go`, `otc_service.go` |
| `OrderExecution` | orders, their review, their fills and what is written behind a fill | trading `order_service.go` |
| `TradingSessions` | when an order is executed, and at which price | trading `order_service.go`, `model/exchange.go` |
| `OptionExercise` | exercise of the bank's listed options | trading `portfolio_service.go` |
| `Taxes`, `InvestmentFunds`, `Dividends`, `RecurringOrders`, `PriceAlerts` | the services and jobs of these names | trading `tax_service.go`, `investment_fund_service.go`, `dividend_payout_service.go`, `recurring_order_*.go`, `price_alert_service.go` |
| `Identities`, `Actuaries` | an identity with its links and sessions; an employee's roles, limit and funds | user-service `auth_service.go`, `employee_service.go`, `actuary_service.go` |
| `InterbankPayment` | a payment between two banks: two-phase commit, outbox, inbox, prepared transactions | interbank-service `message_processor.go`, `outbox_worker.go`, banking `interbank_cash_service.go` |
| `InterbankDeal` | an option negotiated, agreed and exercised between two banks | interbank-service `peer_otc_service.go`, `message_processor.go`, `contract_expiry_job.go`, trading `peer_otc_share_service.go` |
| `InterbankCash` | cash postings on this bank's accounts, with their unlocked reads | banking `interbank_cash_service.go` |
| `Payments` | verification, the processor's transaction, foreign payments | banking `payment_service.go`, `transaction_processor.go` |
| `Loans`, `Cards` | loans and their instalments; cards, their requests and limits | banking `loan_service.go`, `loan_scheduler.go`, `card_service.go` |
| `OtcFundsProofs`, `OtcSagaProofs`, `InterbankPaymentProofs`, `InterbankDealProofs` | theorems about the module named | - |
| `BankingProofs` | theorems about `MCBanking` and its components | - |
| `ShareProofs`, `TradingProofs` | theorems about `MCTrading` and its components: what moves shares and units; the jobs, the users, and the types of all | - |
| `SumLemmas` | lemmas on sums over finite sets, which the proofs cite | - |
| `MCOtcFunds`, `MCOtcSaga`, `MCOtcAgreement`, `MCInterbankPayment` | constants, bounds and symmetries of the small instances of one component | - |
| `MCBanking`, `MCTrading`, `MCInterbank` | the components of banking; of trading and user-service; of interbank-service | - |

`OtcSaga` composes the saga with the escrow it drives, `InterbankPayment` and
`InterbankDeal` compose the services of two banks. The components that
`MCBanking`, `MCTrading` and `MCInterbank` bring together share no state that a
property relates: a behaviour runs the component that `running` names (for orders
and payments a few transactions, `scenario`) while the others rest in an initial
state. The module takes components with EXTENDS where their names allow it, and the
others with INSTANCE; runs and theorems speak of the same definitions.

### OtcFunds

`reservation[k]` is the row of `otc_funds_reservations` with execution key `k`,
or `NoReservation`; `balance` and `available` are the two columns of `accounts`.
`Reserve` looks the key up first (`ReserveKnown`: the same request is answered
again, another one refused) and else checks the available balance and takes the
hold (`ReserveNew`). `Release`, `Commit` and `Refund` are idempotent in their
own target state and refuse any other. Amounts: a call carries an amount in
dinars which banking converts into the currencies of both accounts, at rates
that change from call to call; `Quotes[amount]` is the set of conversions it may
find, and a row keeps the two amounts it was made with. `Deposit` and `Withdraw`
stand for everything else that moves money on these accounts.

A call is one database transaction and one action. The transactions really
overlap (accounts are read without a row lock and written back as absolute
values): what that does to balances is the subject of `Payments`, and
`LedgerExact` and `HoldsMatchReservations` say what holds of the escrow when
calls on one account do not overlap.

### OtcSaga

State and code: `saga[c]` is the row of `otc_execution_sagas` (step, status; the
attempt stands for the execution key, `backoff` for a `NextRetryAt` in the
future); `contract`, `shareRes`, `shares`, `public`, `reserved` are the columns
of contract, share reservation and ownership; `lock` is the mutex in
`execLocks`; `pc`, `job`, `view`, `answer` are the local variables of each
runner. A runner is an HTTP request or the worker goroutine.

Each database transaction of trading-service is one action; the rows it decides
on are read `FOR UPDATE`. A step that calls banking is two actions (call, store),
so that anything may come between. A call is delivered at most once, and its
answer may be lost (`CallFails`): banking's handler runs under the caller's
deadline, so a call does not take effect after the caller has given up on it.
What may break: `Abort` (crash, cancelled request, an error returned to the
caller, the end of `maxExecutionStepsPerRun`), `CallFails`, `TransactionFails`,
`ConfirmNotSaved` (F2's transaction is rolled back but the step it set on the
in-memory row is stored by the retry) and, if `CommitAckLost`,
`TransferUnacknowledged`. Contracts expire by request, by a saga step and by the
job. `AccountActivity` moves money whenever it likes.

The ownership rows are not the saga's alone. A fill of an order, and a request
that publishes shares, read a row without a lock (`FindOwnership`) and later write
all its columns back as they found them, with their own change (`UpsertOwnership`,
`UpdateOTCFields`): what a settlement or an expiry wrote in between is gone.
Nothing in the code prevents this, so that neither "the seller has what he
sold" nor "reserved is what is contracted" is true without exception. `lostMoves`
and `lostFrees` remember exactly which settlements and which released
reservations of a user such a write took back, and the two properties say that
nothing else ever differs: `SharesAccounted` balances a user's shares with his
fills and all other settlements, `ReservedAmountMatches` his reserved shares with
the active reservations and those put back. `DeliveryVersusPayment` speaks of
the transaction that moves the shares: that a fill may undo its effect on a
row is what these two account for. One writer at a time holds a copy of a user's
row: two fills of one user that overlap are `SharesExact`'s, in `OrderExecution`.
Every user has a row at the start; a settlement that creates the buyer's first
row is like one that finds a row with no shares.

Not in the model: the fault injection of test builds; the saga log, the audit
log and the recording of taxes (best effort, never read back); floating-point
amounts (integers here); several stocks (contracts on different stocks share
only accounts, which `OtcFunds` covers). A failing currency conversion is a call
that was never delivered.

### OtcAgreement

`offer[o]` is the row of `otc_offers`, `agreement[o]` the terms of the contract
that was made from it, `paid[o]` the premium its buyer has paid net of what came
back, `public` and `reserved` the columns of the seller's ownership. A requester
is one HTTP request; `seen` is the row it has loaded, `wanted` the row it will
write, `snapshot` the terms `FinalizeAgreement` charges for. Reads are one
action, whole-row saves another; each transaction of `FinalizeAgreement` is one
action since it locks offer and ownership. `validateSellerCapacity` reads
ownership, offers and contracts one after the other; that is one action here,
because what another request changes between the three reads only makes the sum
larger or is a state that the single read can find earlier or later. Faults are
a parameter: crash, lost answer of the payment, failed transaction. An offer whose `status` is `NONE` does not exist
yet. Terms are an amount and a premium; price per share and settlement date are
carried along and never compared between requests. Order fills, which write the
reserved shares they have read over those an agreement reserves, are not in this
module; what such a write does to the row is modelled in `OtcSaga`.

### InterbankPayment

`record[b][p]` is the status of payment `p`'s `PreparedTransaction` in bank `b`,
`posting[b][p]` that of its `InterbankCashPosting`, `outbox[p][m]` the row of
`outbound_messages` for message `m` (status, attempts, lease), `inbox[p][m]` the
answer kept in `inbound_messages`, `banking[p]` the status of the `Transaction`
banking shows. `actor[a]` is where a goroutine is and what it has in its local
variables: the request that initiates a payment (`InitiatePayment`), an outbox
worker of the payer's bank (`processOne`), or a handler of the payee's bank
(`Receive`), which serves one HTTP request at a time. `willing` says whether
banking can reserve a posting: account, currency and balance are that far away.

The three phases of `PrepareLocalTransaction` are actions of their own, and so
are the read, the call of banking and the save of a local commit or rollback: a
database transaction of interbank-service locks nothing that it only reads, so
other actors come between. Phase 1 of a NEW_TX that arrives is two actions for
the same reason (`Prepare` looks, `Create` inserts). What one database
transaction writes is one action: a handler's answer is kept with the record it
is the result of (`Keep`), a worker's COMMIT_TX or ROLLBACK_TX is enqueued with
it (`SaveCommit`, `SaveRollback`). A call of `InterbankCashService` is atomic
here; the unlocked reads inside it are the module `InterbankCash`.

A handler has a `caller` as long as somebody waits for its answer. A request or
an answer that is lost (`NoAnswer`) leaves the handler working without one; the
worker schedules a retry, and at the last attempt gives up (`Retry`): it rolls
its own bank back, enqueues a ROLLBACK_TX and reports the payment as failed. A
lease lapses without a fault if nobody is at the row, else it is a slow worker
(`LeaseLapses`), and two workers deliver the same message. A worker that has
committed also delivers the COMMIT_TX itself (`SendCommit`), without waiting for
the row, and marks the row if it made it.

What may fail is the parameter `Faults`: a process crashes, a worker is slower
than its lease, a message or answer is lost, a call of database or banking fails
or its answer is lost. `disturbed` remembers the payments with a failed call,
because the code logs such errors and goes on. Option and stock postings are the
module `InterbankDeal`. Not in the model: follow-ups of transactions within one
bank.

### InterbankDeal

One option between a buyer's and a seller's bank. `negotiation[b]` and
`contract[b]` are the rows each bank keeps, `attempt[x]` the transactions formed
from them (making the contract, or exercising it), `dealRecord`, `stage` and `vote`
where each bank is with a transaction, `dealOutbox` what the coordinator has to send,
`dealPosting` the cash postings, `reservation`, `shares` and `credit` the peer
service's rows in trading. Postings and the reservation are named after the
contract and not after the transaction, so that attempts share them: this is what
the properties are about. A message is delivered any number of times until it is
marked or given up (leases and retries are `InterbankPayment`'s), and a bank
handles it once at a time. The expiry job reads the negotiations that stand and
saves each as a whole later (`FindOngoing`, `ExpireNegotiation`), over a
counter-offer or an acceptance that came between; a contract it expires in one
step, since a consumed reservation refuses the release that must come first.
`raced` remembers when a counter-offer, a withdrawal, an expiry or a second
attempt met a transaction under way.

### InterbankCash and Payments

`InterbankCash` splits Prepare, Commit and Rollback where their transaction reads
the posting, reads the account and writes both: `ReadPosting`, `ReadAccount`,
then one writing action. `cashBalance` and `cashAvailable` are the two columns,
`repeated` and `cashClash` remember postings two requests worked at together and
accounts two open transactions have both read.

`Payments` splits the processor's transaction in the same way and adds
PostgreSQL's row locks: rows are read without a lock (`ReadRow`), each update
takes it until the transaction ends (`UpdateRow`, `CommitTx`), and what was read
is written back as an absolute value. `call[c]` is a request with its local
variables; `attempts` the wrong codes of a payment; `twoPhase[t]` the interbank
payments started and not yet reported (`FinalizeInterbankPayment`). A wrong code,
a refusal, an error before the commit and a crash each end a call where the code
does.

### Loans and Cards

An employee's call reads the request before the transaction that approves it and
saves it outside of that transaction; the scheduler works through a `batch` of
instalments read together, each with a copy of its loan. `contested`, `unsaved`
and `stale` remember the calls that overlapped, an approval that failed behind
its save, and loans of which a batch held two copies. `Cards` has the calls that
request, confirm, create, block, unblock and deactivate, each of which counts or
reads first and writes later; `crowded` remembers accounts two calls worked on.
Interest, moratoria and variable rates are left out: an instalment is one unit,
and no approval makes a loan variable.

### OrderExecution, TradingSessions, OptionExercise

`row[o]` is the order, `worker[w]` what the poll loop or a fund withdrawal
executes and the copies it still has, `call[c]` a request with the row it read.
Every write behind a fill is an action: settlement at banking
(`ExecuteTradeSettlement`), `RecordTransaction`, `RecordProfitTax`, `SaveFill`,
`ReadOwnership`, `UpsertOwnership`. Sells over the counter take shares of the
same ownership (`ReserveShares`, `DeliverShares`). Who must wait for a review is
`ResolvedStatus`: a client never, an agent above the limit always, and anyone else
(supervisor, fund manager, agent within the limit) if the lookup of the role
fails. One asset at price 1: whether
an order is executed now is left open there, and is the subject of
`TradingSessions`, which has a clock, an exchange with its own offset, the next
opening, after-hours, stop and limit. `OptionExercise` has the two ownership rows
that a request reads, pays for and writes one after the other.

### Taxes, InvestmentFunds, Dividends, RecurringOrders, PriceAlerts

Each of these reads rows, calls banking (or places an order, or sends a mail) and
writes what came of it, each in a step of its own, with a failure or a crash
between any two. History variables count what was paid, recorded and delivered.
A fund's net asset value may be any of `Navs` each time it is asked for. The
dividend module follows one run over a client, the bank and a fund. The order
for the part to reinvest is sized by the listing's price when the run starts
(`Reinvest`) and is then a market order like any other: reviewed, executed in
portions by the run or by the loop, declined or cancelled (`EndPurchase`), each
portion at the ask of its moment (`FillPortion`, `AskPrices`). The fund may
therefore spend more than it set aside, and `strayed` remembers why: an ask above
the price, a price that could not be converted, a portion that was not counted. The
recurring-order module one row over time counted in intervals of its cadence.

### Identities and Actuaries

`Identities` follows one identity: its row, the tokens stored of each kind, and
what each request has read. A request reads, and writes all columns back in a
later action; tokens are replaced by a transaction that deletes those it sees.
`ActivateAccount` also accepts the text `test-token-` followed by the number of an
identity, from anyone: a token of that text is then stored on the spot
(`MakeTestToken`) and used like one that was sent (`auth_service.go:215-241`, which
`auth_service_test.go:226-252` tests). `made` remembers these tokens.
`ChangesAreEntitled` therefore claims of an activation and of the password it sets
no more than this: a link that was sent, or the test token, each once. A reset
and a change of the password need a link that was sent or the password.
`Actuaries` follows one employee: limit and reset are single UPDATE statements,
roles are read and written back whole, and the transfer of funds in
trading-service is a call behind it that may be lost.

History variables such as `clash`, `overlapped`, `stale`, `disturbed` name
exactly the situations that the code leaves unprotected; a property that exempts
them says what holds of everything else, and the hazards in `PROJECT.json` say
at which line the exempted situation arises.

## Runs

| run | instance | what it shows |
|---|---|---|
| `otc_saga_retry` | 1 contract, 2 requests + worker, 2 attempts, all faults | `SagaInv`, `ExercisedMeansPaid`, `FailedMeansRefunded`, `OneLiveAttempt`, and the refinement of `DeliveryVersusPayment` |
| `otc_saga_two` | 2 contracts of a seller with 1 share, 1 request + worker, unacknowledged commits | `ReservedAmountMatches`, `SharesAccounted`, with a fill or a publication that writes a stale ownership row back |
| `otc_saga_live` | 1 contract, 1 request + worker, 2 attempts, fairness | `ExerciseEnds` |
| `otc_saga_ack_lost` | as above with unacknowledged commits | **violates** `ExercisedMeansPaid` |
| `otc_agreement_premium` | 1 offer, fixed terms, 3 requests, no fault | **violates** `PremiumPaidOnce` |
| `interbank` | a payment (2 workers, 2 handlers, 2 attempts, at most 3 faults of 5 kinds) or a deal (2 attempts, 2 terms, 1 fault) | payment: `CreditIsBacked`, `CompletedIsPaid`, `SentCommitIsCredited`, `PaidCanBeCredited`, `UndisturbedIsFreed`; deal: `ContractsAgree`, `DeliveredOnce` |
| `interbank_rejected` | 1 worker, 1 handler, crashes and losses only | **violates** `RejectedIsUnpaid` |
| `interbank_failed_call` | 1 worker, 1 handler, one failing call | **violates** `DealtIsFreed` |
| `banking` | escrow, payments, cash postings, loans, cards | `HoldsMatchReservations`, `LedgerExact`; `MovedOnce`, `BooksBalance`; `SettledOnce`, `HoldsArePrepared`; `PaidOutOnce`, `InstallmentsCounted`; `CardsAreLimited` |
| `payment_sent_twice` | the payments alone | **violates** `ForeignSentOnce` |
| `trading` | agreement, orders, sessions, options, taxes, a fund, recurring orders, alerts, dividends, an identity, an actuary | `UnagreedIsRefunded`, `ContractIsPaid`, `ContractsCovered`, `ReservedIsContracted`; `FillsAgree`, `SharesExact`, `DeclinedIsFinal`; `TaxAccounted`; `UnitsExact`; `ScheduledOnce`; `DividendsExact`; `ActuaryIsExact`; `ChangesAreEntitled` |
| `agent_limit` | orders of an agent | **violates** `AgentWithinLimit` |

`interbank`, `banking` and `trading` each check a type invariant as well
(`InterbankTypeOK`, `BankingTypeOK`, `TradingTypeOK`); that of the saga is part of
`SagaInv`.

The bounds, and why they are enough to make the interesting cases happen:

* Saga. Two requests and the worker: one holds the mutex, one waits with what it
  read, one is about to begin. Two attempts: a failed one whose calls may still
  have taken effect, and a fresh one under another key. With `BuyerMoney = 2` the
  buyer could pay both, so `OneLiveAttempt` is not true for lack of money. Two
  contracts on one share: both are agreed, only one can be settled. One fill or
  publication (`MaxAccesses = 1`) reads the row of either party and writes it back
  at any later time, so that each of settlement, expiry and release comes between;
  a second one adds a sum of such cases, and the proofs have no bound. `MaxShares`
  and `MaxBalance` bound what may be bought and deposited. Where the instance has
  two contracts that are alike, or two requests, they are symmetric.
* Agreement. Four requests on two offers: two acceptances of one offer with a
  counter-offer or rejection between them, or one acceptance of each of two offers
  that together exceed the one share that is published at first; a second one may
  be published meanwhile. A request is made once. Requests are alike until they
  act, so that only behaviours in which they begin in the order of their numbers
  are followed (`BeginInOrder`).
* Interbank payment. Payments share no row, so that a second one adds nothing but
  the order in which workers take rows. Two workers: one is still at a row whose
  lease has lapsed and which the other has taken; two handlers serve both, or a
  repeated request beside the one whose caller has gone. Two attempts: a first
  and a last one. Three faults: the known wrong outcomes need two or three (a
  crash after the commit and a lost answer for each attempt). After the third
  fault a behaviour is followed while at most one handler is busy.
* Interbank deal. Two attempts, so that a failed one may leave something behind
  for the next; two terms, so that the banks may disagree about them; the seller
  owns one share, so that terms of two cannot be covered; one fault. The expiry
  job is followed up to the first fault, one row at a time. The run has 1,172,379
  distinct states and takes the longest.
* Banking. Two calls at a time; every payment scenario has two transactions that
  share an account (payer, recipient or the bank's own); two postings of three
  requests (a named account, a client with an account in another currency, the
  bank) at two rates; one loan of two instalments, so that there is a last one
  and one before it; three cards of two holders at limits of two and one.
* Orders. Scenarios of one or two orders: a purchase in two fills, a purchase
  beside a sell, two sells that compete for the shares, two purchases of an
  agent, a fund's liquidation by the loop and a withdrawal at once. One share
  over the counter.
* Sessions. Days of five hours with two of trading, weeks of three days with one
  off, an exchange one hour behind or ahead, 19 hours: before, in and after a
  session, and over a weekend.
* The others: two requests of a kind, two taxpayers, amounts of one to four;
  an identity with three tokens (an activation and two resets, or two mails that
  overlap, or test tokens in their place) and two passwords. A dividend's ask is
  the price or above it; one thing goes wrong in a run, a failed call or a purchase
  that strays.
* Where the code overwrites what it read without a lock, behaviours are followed
  up to the first race (the `*Bound` definitions of the MC modules): what the
  properties say of other accounts, orders or owners from then on is reached by
  the behaviours in which those run alone. The proofs have no such bound.
* A write of a single row outside a transaction either takes effect or reports an
  error; the modules that let it do both name the exception (`stale` in `Loans`,
  `disturbed` elsewhere).
* `CHECK_DEADLOCK FALSE` stands where everything has ended: all contracts are
  settled or expired and nobody has anything to buy or sell, all requests have
  returned, every message is sent or given up, time has run out.

Assumptions that a run names: `CommitAckLost = FALSE` (a COMMIT that takes
effect is acknowledged), and `StalePublish = FALSE` (nothing changes the
ownership between the read and the write of a publication). What happens without
the first is the run `otc_saga_ack_lost`; without the second,
`ReservedIsContracted` and then `ContractsCovered` fail, since `PublishAsset`
writes back the reserved amount it has read.

Fairness (`otc_saga_live` only): the worker's ticker never stops, so it takes
every pending row again and again (strong fairness of `PickPending`, for other
runners may change the row meanwhile); `sync.Mutex` starves nobody (strong
fairness of `AcquireLock(Worker)`); a started step is executed (weak fairness of
`RunnerStep`); time passes (`RetryDelayPasses`). Requests need not come back.
`ExerciseEnds` further assumes that faults stop and that a seller who must give
money back has it from some time on: without it C3 is retried for ever, which is
what the code does.

## Findings

* **Unacknowledged COMMIT of F4** (`otc_saga_ack_lost`). Any error of the
  transaction starts the compensation, also one that hides a successful commit:
  the buyer keeps the shares and gets the money back.
* **Premium charged twice** (`otc_agreement_premium`). Two overlapping
  acceptances both pay; the second returns the contract of the first.
* **Rejected though debited** (`interbank_rejected`). A worker commits and
  crashes before it reports; the NEW_TX is sent again, its answers are lost until
  the attempts are used up, the rollback is refused since the record is
  COMMITTED, and the payment is reported as failed all the same.
* **A reservation nobody frees** (`interbank_failed_call`). An error of the local
  commit or rollback is logged and the NEW_TX marked as sent: the payer's money
  stays reserved and no row is left that would lead to it.
* **A foreign payment sent twice** (`payment_sent_twice`). Its transaction stays
  PROCESSING until interbank-service reports, and a second verification with the
  right code starts a second interbank payment.
* **A limit that never fills** (`agent_limit`). `OwnerType` of an order is never
  set to BANK, so that `UsedLimit` never grows and each order of an agent is
  compared with the whole limit by itself.

Read in the code while modelling it, and not the subject of a run:

* A fund's reinvestment of a dividend is sized by the price and executed at the
  ask, so that it may cost more than was set aside (`Dividends`: `dearer`); it uses
  the unconverted price when the conversion fails (`misquoted`); and the tax on a
  dividend is both withheld from the payment and recorded as owed.
* Any caller activates an identity, and sets its password, with `test-token-` and
  the identity's number (`Identities`: `MakeTestToken`); the code calls it a branch
  for testing and has no condition that confines it to tests.
* A fill that read an ownership before a settlement or expiry undoes it for that
  row when it writes back (`OtcSaga`: `lostMoves`, `lostFrees`).
* `UpdateActuarySettings` may set both roles or neither, though `UpdateEmployee`
  refuses both; `UpdateEmployee` takes the supervisor's role away without
  transferring the funds, which `UpdateActuarySettings` does (`Actuaries`: `kept`).
* A recurring order that is deleted while the scheduler executes it is inserted
  again by the scheduler's save (`RecurringOrders`: `overlapped`).
* `NextOpen` is the exchange's wall clock compared as the server's: an order
  comes late by the offset, and on an exchange whose offset exceeds session and
  window it is never executed. At the instant of closing an exchange is neither
  open nor after hours.
* Due dates of instalments add a month and normalise: a loan of January 31 has an
  instalment on March 3.

## Proofs

| module | theorems about | assumptions on the constants |
|---|---|---|
| `SumLemmas` | lemmas on sums over finite sets | - |
| `OtcFundsProofs` | the escrow | finitely many keys |
| `OtcSagaProofs` | the exercise saga, and that it implements `DeliveryVersusPayment` | `SagaAssumption` |
| `InterbankPaymentProofs` | interbank payments | `PaymentAssumption` |
| `InterbankDealProofs` | deals between banks, and payments beside them | `DealAssumption` |
| `BankingProofs` | the escrow's ledger, payments, cash postings, loans, cards, and their composition | those of each component |
| `ShareProofs` | agreement; orders, exercise of options, funds | `AgreementAssumption`; `TradingAssumption` |
| `TradingProofs` | recurring orders, alerts, dividends, taxes, sessions, users; the types of `MCTrading` | `TradingAssumption` |

The assumptions say what kind of value a constant is and, where rows are summed,
that there are finitely many. TLC evaluates each of them for the instances. The
theorems hold for every value of the constants beyond that: any contracts,
accounts, requests and payments, any amounts and rates, any numbers of faults,
attempts and retries. A condition on the faults is written in the theorem.

None of the properties below is inductive by itself: each depends on what
requests, messages and runners under way have read and will write. So each
section of a proof module states an invariant that says this, has one lemma for
each action or group of actions, then the induction, and then takes the
property from the invariant.

### Sums (SumLemmas)

Several properties compare a column with a sum over rows. The models use
`SumFunctionOnSet`, a fold which takes elements in an order of its own. That the
order does not matter would usually be an induction over finite sets. `SumLemmas`
counts instead: a natural number n stands for the pairs <<x, 1>> ... <<x, n>>,
so that the sum over a set is the number of all its pairs (less those of the
negated function), and Cardinality is known to add up. That the fold is this
number is shown by a set without it that is least, which the library's theorem
on well-founded sets gives. What other modules cite are a few facts:
`SumOfNone`, `SumType`, `SumSplit`, `SumCongruent`, `SumUpdated` (a step that
changes one row changes the sum by as much), `SumNotNegative`, `SumOfZeros`,
`SumAtLeast`, `SumMonotone`.

### The escrow (OtcFundsProofs, BankingProofs)

* `FundsTypeCorrect`: `FundsSpec => []FundsTypeOK`.
* `HoldsAlwaysMatch`: balance less available is the sum of the active holds.
* `CommitFindsItsHold`: an active reservation is covered by its hold, so that a
  commit is never refused for want of what was reserved.
* `LedgerAlwaysExact`: a balance is the opening one, the owner's movements and
  the settlements committed and not refunded (`LedgerInv` writes the property's
  sum over a set of rows that changes as one over all keys, with zeros).

### The exercise saga (OtcSagaProofs)

* `TypeCorrect`: `Spec => []TypeOK`.
* `SagaInvariant`: `CommitAckLost = FALSE => (Spec => []SagaInv)`.
* `ExercisedIsPaid`, `FailedIsRefunded`, `OneAttemptIsLive`: the three safety
  properties of the same names, from `SagaInv`.
* `ReservedAmountAlwaysMatches`, `SharesAlwaysAccounted`: of the ownership rows,
  whatever is lost or crashes and however many fills and publications write stale
  copies back (no condition). The invariant says the same of a copy under way
  as of the stored row, but of the moment it was read (`ended`): what has ended
  since is what its write will take back.
* `SagaImplementsDvp`: `CommitAckLost = FALSE => (Spec => DeliveryVersusPayment)`.

The argument. Whether a refund leaves the row `FAILED` truthfully depends on what
the bank has recorded, and that on calls whose answers may be lost. `SagaInv`
therefore says for every state of the saga row what the bank may have recorded
under the current key (`BankStatuses`: for instance `INIT / IN_PROGRESS` allows
nothing and a reservation, never a commit), that earlier keys are dead and later
ones unused (`RowMatchesBank`), how contract and share reservation follow the row
(`ContractMatchesRow`), that the row under a key has this contract's terms
(`TermsAreKept`), that a working runner holds the mutex (`MutexHeld`) and that
what it has loaded is still the row, and what the answer it carries tells about
the bank (`RunnerMatchesRow`). Lemmas about the four calls come first (what each
does to its own key, that it leaves the others alone, what its reply tells), then
one lemma for each action. The condition is used where F4 fails; without it the
theorem is false, as the run of F4 shows.

The refinement. In states of the invariant the mapping says: money is in escrow
while an attempt is reserved or committed, with the seller once the contract is
exercised, and otherwise with the buyer; the stock follows the contract
(`MappedState`). Every step of the saga is then of one of three kinds. Steps that
change the bank's row of one contract and nothing else that is mapped
(`OnlyBank`) put the money in escrow, give it back, or stutter. A step that
expires a contract (`Lapses`) is `Lapse`. The transaction that transfers
ownership (`Settles`) is `Settle`: here the invariant is needed, which says that
the money is committed when that transaction succeeds. All others stutter.

### Agreement (ShareProofs)

* `AgreementInvariant`: `AgreementInv`, that is types and `RowsInv`.
* `AlwaysRefunded`: without a contract the buyer has paid exactly what requests
  under way still hold.
* `ContractsArePaid`: a contract is paid for, if `"lost_ack" \notin Faults`.
* `ContractsAreCovered`, `ReservedForContracts`: contracts never exceed the
  published shares and are what is reserved, if `~StalePublish`.

Requests read without locks and save whole rows, so that a save can put back any
row a request has once read. `RowsInv` says what such a row can still say that is
true: its terms were proposed, and if it has a contract, one was made. Over this
two accounts are kept: premiums paid, against the requests that hold them; and
reserved shares, against contracts (`SharesInv`). Both conditions are about
findings: TLC violates the properties without them.

### Interbank payments (InterbankPaymentProofs)

* `PaymentTypes`: `Spec => []PaymentTypeOK`.
* `PaymentInvariant`: `Spec => []PaymentInv`; from it `CreditIsAlwaysBacked`,
  `SentCommitIsAlwaysCredited`, `CompletedIsAlwaysPaid`.
* `CalmInvariant`: `Spec => []CalmInv`; from it `PaidCanAlwaysBeCredited`,
  `UndisturbedIsAlwaysFreed`.

The argument. That the payee's credit is backed by the payer's debit depends on
a COMMIT_TX that may be in a row, with a worker, or with a handler nobody waits
for any more. `PaymentInv` says of each of these places what it claims: a row
COMMIT_TX, that the payer is debited and the payee's bank has voted
(`RowsMatch`); a kept answer or one under way, what it tells of the payee's bank
(`AnswerMatches`); a worker about to commit, that there is a vote
(`WorkerMatches`); a handler at a COMMIT_TX, that the row is true
(`HandlerMatches`); and a caller waits for one handler only (`CallerMatches`).
The claims are all of a kind that stays true: a committed posting stays
committed, a record is never unsettled again, a row is never deleted (`Grows`).
So the proof states once what a step may do to the data (`Evolves`), shows that
such a step keeps the data's part of the invariant (`DataKept`) and the claims of
every actor that does not move (`Stayers`), and each action's lemma is left with
`Evolves` and the claims of the one actor it moves.

That nothing stays reserved is another matter: it needs the claims of those that
will undo a reservation, and it holds of payments with no failed call only
(`disturbed`: the code logs such errors and goes on). `CalmInv` says of such a
payment that what is reserved or debited in one bank has a record, a handler or a
message behind it that will settle it the same way (`Kept`, `Reserved`), as long
as the payment is `Ongoing`.

### Deals between banks (InterbankDealProofs)

* `DealTypesAlways`, `ContractsAlwaysAgree`, `DeliveredAtMostOnce`.
* `BothAreCarried`: `InterbankSpec => Spec /\ DealSpec`: the service that is
  model-checked behaves as each of its two components, so that the theorems on
  payments and on deals hold of it; `InterbankTypesAlways` is one of them.

The invariant has layers, each proved from those before it. `DealInv`: types, and
what the stage of a bank in an attempt says of record, vote and message.
`BooksInv`: postings and reserved shares are those of an attempt under way or
settled, although attempts of a kind share them. `AgreeInv`: rows and contracts of
the two banks have the same terms. `DeliverInv`: who has received the shares, and
which cash stands behind. Upwards of the first they hold until the races that
`raced` remembers; from then on the properties claim nothing either.

### Banking and users (BankingProofs, TradingProofs)

| theorems | the invariant, and why the property needs it |
|---|---|
| `PayInvariant`, `AlwaysMovedOnce` | `PayInv`: a local transaction that one request works at has the status the request has seen, and nobody else changes it. Without it a second verification could complete what is under way. |
| `BooksAlwaysBalance` | `BooksInv`: the rows a request has read and not yet written are still the rows, unless two database transactions have read them together, and what it has already written is counted. The books are a sum over transactions. |
| `CashInvariant`, `AlwaysSettledOnce` | `CashInv`: the row that a lone request at a posting has read is the posting. Status alone does not say whether the write to come will move the balance again. |
| `HoldsAlwaysPrepared` | `CashBooksInv`: the account a request has read is the account, up to the first clash, and the two columns are sums over postings. |
| `LoanInvariant`, `AlwaysPaidOutOnce`, `InstallmentsAlwaysCounted` | `LoanInv`: the scheduler's copies match what is stored except for stale loans, and of the approvals at work at most one has seen the request pending and still finds it so. |
| `CardInvariant`, `CardsAreAlwaysLimited` | `CardInv`: the only call at an account still finds the room it counted and the row it read. The limits count rows by cardinality, so each insertion needs the lemma that one row more is still within. |
| `AllComponentsRun`, `BankingTypesAlways` | `BankingSpec` implies the specification of every component: the others rest while one runs, and the payments of a scenario are payments. So the theorems hold of what is model-checked. |
| `IdentityInvariant`, `ChangesAreAlwaysEntitled` | `IdentityInv`: which columns a request at work will change, and that its token is of one kind, was issued once and is gone when it is spent; and of the tokens stored, which were sent and which were made for a test token. `ChangesAreEntitled` is an action property and speaks of steps from states where this holds. |
| `ActuaryInvariant`, `ActuaryIsAlwaysExact` | `ActuaryInv`: what a request will save follows what it read (`SaveFollows`), the limit is what was charged (`LimitMatches`), funds are managed by a supervisor (`FundsManaged`). |

`PaymentsAssumption` says two things the code relies on without checking: only a
payment leaves the bank, and then in the payer's currency (`LeavesBank`), and a
conversion goes between accounts of different currencies (`ChangesCurrency`), so
that the bank's two accounts in between are two. The proof of `BooksAlwaysBalance`
is where both are needed.

### Orders, options and funds (ShareProofs)

Theorems of `TradingSpec`, for any orders, holders, workers, clients and amounts.
A scenario of the model-checked instance admits some of the orders only; the
lemma on steps is about all steps of `OrderExecution`.

| theorems | the invariant, and why the property needs it |
|---|---|
| `OrderInvariant`, `FillsAlwaysAgree`, `DeclinedStaysFinal` | `OrderInv`: of an order at which no two actors overlapped one worker or request holds copies (`OneHolder`), and they are the row (`CopiesMatch`); each count of fills differs from the next by the fills that are between the two steps (`FillsMatch`), which is what a failed step breaks. An order is settled only from a copy that says approved; so a declined row is final where copies are the row. |
| `SharesAlwaysExact` | A worker that writes an ownership back has read what is there (`ShareMatches`), up to the first clash, and the amount is the opening one with purchases and without sells and exercises (`ShareBalance`): a sum over orders, of which a fill changes one term. |
| `OptionInvariant` | `OptionInv`: what a request for an exercise is about to write back is what the rows hold, as long as no write came between, and it has read a whole contract. The other half of `SharesAlwaysExact`. |
| `FundInvariant`, `UnitsAlwaysExact` | `FundInv`: one actor at a time works on a position and its copy is what is stored (`PositionMatches`); units, with those still to be added or taken by an actor, are bought less redeemed (`UnitsBalance`: again a sum over actors); a redemption that is complete, or with an actor that has paid and not yet said so, is paid once (`PaidOnce`). |

### The trading jobs (TradingProofs)

| theorems | the invariant, and why the property needs it |
|---|---|
| `TradingInvariant` | `TradingInv`, the conjunction of those below. |
| `RunsAlwaysAccounted` | `RecurInv`: the scheduler works at the row's next run, which it has not handled yet unless it says so or an answer was lost there (`SchedulerMatches`), as long as no request overwrote the row. |
| `AlwaysNotifiedOnce` | `AlertInv`: e-mails are those under way and those sent; a checker that is about to save a triggered alert has sent none. |
| `DividendsAlwaysExact` | `DividendInv`: who has been paid is no longer to be paid (`PayoutMatches`); what a fund gave is the sum of quotients by one total, which is no more than what is divided (`PartsMatch`, `Within`: division rounds down); what it spent is at most an ask for each share the order counts, unless a portion was left uncounted, and the order is for no more than the set-aside part was worth, unless the price was not converted. |
| `TaxAlwaysAccounted` | `TaxInv`: of a payer nobody overlapped on there is one row, one collection works on it, and it owes what was read or more (`CollectedOnce`); recorded tax, with what collections have paid and not yet subtracted, is what rows owe, what was collected and what was relieved (`TaxBalance`). |
| `AlwaysFilledAtItsPrice` | `SessionInv`: an order that is triggered has no stop, or was looked at when the price had reached it. |
| `ScheduledAlwaysOnce` | `RunsAlwaysAccounted`, `AlwaysNotifiedOnce`, `AlwaysFilledAtItsPrice` and `Session!AttemptedInTime`, if `WaitsFit`: the delays together are no longer than a session; without that the property is false (with a wait of 3 and sessions of 2, TLC finds an order that misses the next one). `TimeMatches`: an open order is due before the end of the session that follows its last look, and the clock has not passed both its due time and that opening. It rests on `NextOpeningIsLeast` (the opening found by days of the week comes before any other later one) and `OpeningFollows` (it is the first opening after a time). In the code the delays are 30 minutes after hours and, between two fills, 24 minutes times what remains of the order over the listing's volume. |
| `TradingTypesAlways` | `TradingSpec => []TradingTypeOK`. Most of the types are in the invariants. What is not: tax relieved is not negative, since a total of smaller amounts is smaller; and the next opening of an exchange exists, since some day of the week has trade and each residue occurs among the next days (`TradingDay`). |

The properties' conditions are those under which the code is right: the history
variables record where two actors overlapped or an answer was lost, and the
invariants say nothing of such an order, client or payer from then on.

### Model-checked and not proved

* `ExerciseEnds` is liveness. Liveness, ENABLED and induction over data are out
  of the prover's reach and stay with TLC.

## Not modelled

Much of the Go code has no behaviour of its own to check. The generated API docs
(`docs.go`) and protobuf bindings (`*.pb.go`) are 19,200 of its 61,600 lines;
handlers, DTOs, constructors, seeds, `main.go` and routing translate requests
into calls of the services modelled here. Repository methods appear as the reads
and writes of the actions that call them.

Left out as well, with the reason:

* watchlists, listings, the refresh of market data, companies, payees, exchange
  rates, audit logs, e-mail: records behind forms or pure I/O, with no protocol
  between actors;
* valuation of portfolios and funds, margin checks, commissions, interest: formulas
  in floating point, which TLC cannot evaluate (where their result decides
  something, it is any value of a small set);
* history and metrics of funds, which are reads, and their deletion: it looks for
  positions and then deletes, so that an investment under way may come between;
* transactions within one bank of interbank-service (`handleSameBankFollowUp`): the
  worker calls commit and rollback of its own processor, with no message between.

What would come next: an abstract atomic commitment and the faults under which
`InterbankPayment` implements it; liveness of the outbox (every message is sent or
given up once faults stop).
