---------------------------- MODULE BankingProofs ----------------------------
(***************************************************************************)
(* Theorems about the components of banking-service: the ledger of the OTC  *)
(* escrow, Payments and its books, InterbankCash and its books, Loans and   *)
(* Cards, and the composition of all of them.                               *)
(*                                                                          *)
(* None of the properties is inductive: each rests on what the requests     *)
(* under way have read and will write.  Each section states its invariant   *)
(* first, then one lemma per action or group of actions, then the theorems. *)
(***************************************************************************)
EXTENDS MCBanking, OtcFundsProofs

-----------------------------------------------------------------------------
(* The ledger of an account *)

\* What settlement k has taken from account a, and what it has brought.
PaidBy(k, a) == IF Status(k) = "COMMITTED" /\ Buyer(k) = a THEN reservation[k].source ELSE 0
PaidTo(k, a) == IF Status(k) = "COMMITTED" /\ Seller(k) = a THEN reservation[k].destination ELSE 0

Spent(a)  == SumFunctionOnSet([k \in Keys |-> PaidBy(k, a)], Keys)
Earned(a) == SumFunctionOnSet([k \in Keys |-> PaidTo(k, a)], Keys)

LedgerInv ==
    /\ FundsTypeOK
    /\ external \in [Accounts -> Int]
    /\ \A a \in Accounts : balance[a] = Opening[a] + external[a] - Spent(a) + Earned(a)

LEMMA LedgerMeans == LedgerInv => LedgerExact
<1> SUFFICES ASSUME LedgerInv, NEW a \in Accounts
             PROVE  balance[a] = Opening[a] + external[a]
                      - Settled(a, Buyer, LAMBDA k : reservation[k].source)
                      + Settled(a, Seller, LAMBDA k : reservation[k].destination)
  BY DEF LedgerExact
<1>1. Spent(a) = Settled(a, Buyer, LAMBDA k : reservation[k].source)
  BY DEF Spent, PaidBy, Settled
<1>2. Earned(a) = Settled(a, Seller, LAMBDA k : reservation[k].destination)
  BY DEF Earned, PaidTo, Settled
<1> QED BY <1>1, <1>2 DEF LedgerInv

LEMMA PaidTypes ==
    ASSUME FundsTypeOK, NEW k \in Keys, NEW a
    PROVE  PaidBy(k, a) \in Int /\ PaidTo(k, a) \in Int
<1>1. CASE reservation[k] = NoReservation
  BY <1>1 DEF PaidBy, PaidTo, Status, NoReservation
<1>2. CASE reservation[k] # NoReservation
  BY <1>2, RowFields DEF PaidBy, PaidTo
<1> QED BY <1>1, <1>2

LEMMA LedgerTypes ==
    ASSUME FundsTypeOK, NEW a
    PROVE  Spent(a) \in Int /\ Earned(a) \in Int
<1> DEFINE f == [k \in Keys |-> PaidBy(k, a)]
           p == [k \in Keys |-> PaidTo(k, a)]
<1>1. f \in [Keys -> Int] /\ p \in [Keys -> Int] /\ IsFiniteSet(Keys)
  BY PaidTypes, KeysAssumption
<1>2. Spent(a) = SumFunctionOnSet(f, Keys) /\ Earned(a) = SumFunctionOnSet(p, Keys)
  BY DEF Spent, Earned
<1> HIDE DEF f, p
<1> QED BY <1>1, <1>2, SumType

LEMMA LedgerPrimed ==
    \A a : /\ Spent(a)' = SumFunctionOnSet([k \in Keys |-> PaidBy(k, a)'], Keys)
           /\ Earned(a)' = SumFunctionOnSet([k \in Keys |-> PaidTo(k, a)'], Keys)
BY DEF Spent, Earned

\* A call about one key changes what an account spent and earned by what that
\* key pays.
LEMMA LedgerChanges ==
    ASSUME FundsTypeOK, FundsTypeOK', NEW k \in Keys, NEW a,
           \A j \in Keys : j # k => reservation'[j] = reservation[j]
    PROVE  /\ Spent(a) \in Int /\ PaidBy(k, a) \in Int /\ PaidBy(k, a)' \in Int
           /\ Spent(a)' = Spent(a) - PaidBy(k, a) + PaidBy(k, a)'
           /\ Earned(a) \in Int /\ PaidTo(k, a) \in Int /\ PaidTo(k, a)' \in Int
           /\ Earned(a)' = Earned(a) - PaidTo(k, a) + PaidTo(k, a)'
<1> DEFINE f == [j \in Keys |-> PaidBy(j, a)]
           g == [j \in Keys |-> PaidBy(j, a)']
           p == [j \in Keys |-> PaidTo(j, a)]
           q == [j \in Keys |-> PaidTo(j, a)']
<1>1. \A j \in Keys : PaidBy(j, a)' \in Int /\ PaidTo(j, a)' \in Int
  BY DEF FundsTypeOK, Reservations, NoReservation, PaidBy, PaidTo, Status, Buyer, Seller
<1>2. \A j \in Keys \ {k} : PaidBy(j, a)' = PaidBy(j, a) /\ PaidTo(j, a)' = PaidTo(j, a)
  BY DEF PaidBy, PaidTo, Status, Buyer, Seller
<1>3. /\ f \in [Keys -> Int] /\ g \in [Keys -> Int] /\ p \in [Keys -> Int] /\ q \in [Keys -> Int]
      /\ IsFiniteSet(Keys)
      /\ \A j \in Keys \ {k} : f[j] = g[j] /\ p[j] = q[j]
      /\ f[k] = PaidBy(k, a) /\ g[k] = PaidBy(k, a)'
      /\ p[k] = PaidTo(k, a) /\ q[k] = PaidTo(k, a)'
  BY <1>1, <1>2, PaidTypes, KeysAssumption
<1>4. /\ Spent(a) = SumFunctionOnSet(f, Keys) /\ Spent(a)' = SumFunctionOnSet(g, Keys)
      /\ Earned(a) = SumFunctionOnSet(p, Keys) /\ Earned(a)' = SumFunctionOnSet(q, Keys)
  BY LedgerPrimed DEF Spent, Earned
<1> HIDE DEF f, g, p, q
<1>5. SumFunctionOnSet(f, Keys) \in Int /\ SumFunctionOnSet(p, Keys) \in Int
  BY <1>3, SumType
<1>6. SumFunctionOnSet(g, Keys) = SumFunctionOnSet(f, Keys) - f[k] + g[k]
  BY <1>3, SumUpdated
<1>7. SumFunctionOnSet(q, Keys) = SumFunctionOnSet(p, Keys) - p[k] + q[k]
  BY <1>3, SumUpdated
<1> QED BY <1>1, <1>3, <1>4, <1>5, <1>6, <1>7, PaidTypes

\* An operation that moves each balance by what its key newly pays keeps the ledger.
LEMMA LedgerFollowsKey ==
    ASSUME LedgerInv, FundsTypeOK', NEW k \in Keys, UNCHANGED external,
           \A j \in Keys : j # k => reservation'[j] = reservation[j],
           \A a \in Accounts :
             balance'[a] - balance[a] = (PaidTo(k, a)' - PaidTo(k, a)) - (PaidBy(k, a)' - PaidBy(k, a))
    PROVE  LedgerInv'
<1> SUFFICES ASSUME NEW a \in Accounts
             PROVE  balance'[a] = Opening[a] + external'[a] - Spent(a)' + Earned(a)'
  BY DEF LedgerInv
<1>1. /\ Spent(a) \in Int /\ PaidBy(k, a) \in Int /\ PaidBy(k, a)' \in Int
      /\ Spent(a)' = Spent(a) - PaidBy(k, a) + PaidBy(k, a)'
      /\ Earned(a) \in Int /\ PaidTo(k, a) \in Int /\ PaidTo(k, a)' \in Int
      /\ Earned(a)' = Earned(a) - PaidTo(k, a) + PaidTo(k, a)'
  BY LedgerChanges DEF LedgerInv
<1>2. /\ balance[a] \in Int /\ balance'[a] \in Int /\ external[a] \in Int /\ Opening[a] \in Int
      /\ balance[a] = Opening[a] + external[a] - Spent(a) + Earned(a)
  BY OpeningAssumption DEF LedgerInv, FundsTypeOK
<1>3. balance'[a] - balance[a] = (PaidTo(k, a)' - PaidTo(k, a)) - (PaidBy(k, a)' - PaidBy(k, a))
  OBVIOUS
<1>4. external'[a] = external[a]
  OBVIOUS
<1>5. PICK by, by2, to, to2, spent, earned, old, new, ext, open \in Int :
        /\ by = PaidBy(k, a) /\ by2 = PaidBy(k, a)' /\ to = PaidTo(k, a) /\ to2 = PaidTo(k, a)'
        /\ spent = Spent(a) /\ earned = Earned(a) /\ old = balance[a] /\ new = balance'[a]
        /\ ext = external[a] /\ open = Opening[a]
  BY ONLY <1>1, <1>2
<1>6. new - old = (to2 - to) - (by2 - by) /\ old = open + ext - spent + earned
  BY ONLY <1>2, <1>3, <1>5
<1>7. new = open + ext - (spent - by + by2) + (earned - to + to2)
  BY ONLY <1>5, <1>6
<1>8. Spent(a)' = spent - by + by2 /\ Earned(a)' = earned - to + to2
  BY ONLY <1>1, <1>5
<1> QED BY ONLY <1>4, <1>5, <1>7, <1>8

\* Nothing that this key pays, before or after, and no balance changed.
LEMMA NothingPaid ==
    ASSUME LedgerInv, FundsTypeOK', NEW k \in Keys, UNCHANGED <<balance, external>>,
           \A j \in Keys : j # k => reservation'[j] = reservation[j],
           Status(k) # "COMMITTED", Status(k)' # "COMMITTED"
    PROVE  LedgerInv'
<1>1. \A a \in Accounts : PaidBy(k, a) = 0 /\ PaidTo(k, a) = 0
                          /\ PaidBy(k, a)' = 0 /\ PaidTo(k, a)' = 0
  BY DEF PaidBy, PaidTo
<1>2. \A a \in Accounts :
        balance'[a] - balance[a] = (PaidTo(k, a)' - PaidTo(k, a)) - (PaidBy(k, a)' - PaidBy(k, a))
  <2> SUFFICES ASSUME NEW a \in Accounts
               PROVE  balance'[a] - balance[a] = (0 - 0) - (0 - 0)
    BY <1>1
  <2> QED BY DEF LedgerInv, FundsTypeOK
<1> QED BY <1>2, LedgerFollowsKey

LEMMA LedgerRests ==
    ASSUME LedgerInv, UNCHANGED <<fundsVars, external>>
    PROVE  LedgerInv'
<1>1. \A a : Spent(a)' = Spent(a) /\ Earned(a)' = Earned(a)
  BY DEF Spent, Earned, PaidBy, PaidTo, Status, Buyer, Seller, fundsVars
<1> QED BY <1>1 DEF LedgerInv, FundsTypeOK, fundsVars

LEMMA ReserveLedger ==
    ASSUME LedgerInv, NEW k \in Keys, NEW req \in Requests, NEW reply \in Replies,
           Reserve(k, req, reply), UNCHANGED external
    PROVE  LedgerInv'
<1>1. CASE UNCHANGED fundsVars
  BY <1>1, LedgerRests
<1>2. CASE ~ UNCHANGED fundsVars
  <2>1. reservation[k] = NoReservation /\ UNCHANGED balance
    BY <1>2 DEF Reserve, ReserveKnown, ReserveNew
  <2>2. /\ FundsTypeOK'
        /\ \A j \in Keys : j # k => reservation'[j] = reservation[j]
        /\ reservation'[k] = reservation[k] \/ Status(k)' = "RESERVED"
    BY ReserveTypes, ReserveEffect DEF LedgerInv
  <2>3. Status(k) # "COMMITTED" /\ Status(k)' # "COMMITTED"
    BY <2>1, <2>2 DEF Status, NoReservation
  <2> QED BY <2>1, <2>2, <2>3, NothingPaid
<1> QED BY <1>1, <1>2

LEMMA ReleaseLedger ==
    ASSUME LedgerInv, NEW k \in Keys, NEW reply \in Replies,
           Release(k, reply), UNCHANGED external
    PROVE  LedgerInv'
<1>1. CASE UNCHANGED fundsVars
  BY <1>1, LedgerRests
<1>2. CASE Status(k) = "RESERVED" /\ UNCHANGED balance
  <2>1. /\ FundsTypeOK' /\ Status(k)' = "RELEASED"
        /\ \A j \in Keys : j # k => reservation'[j] = reservation[j]
    BY <1>2, ReleaseTypes, ReleaseEffect DEF LedgerInv, OnlyStatusOf
  <2> QED BY <1>2, <2>1, NothingPaid
<1> QED BY <1>1, <1>2 DEF Release, Done, Refused

LEMMA CommitLedger ==
    ASSUME LedgerInv, NEW k \in Keys, NEW reply \in Replies,
           Commit(k, reply), UNCHANGED external
    PROVE  LedgerInv'
<1>1. CASE UNCHANGED fundsVars
  BY <1>1, LedgerRests
<1>2. CASE /\ Status(k) = "RESERVED" /\ MoveTo(k, "COMMITTED")
           /\ balance' = [balance EXCEPT ![Buyer(k)]  = @ - reservation[k].source,
                                         ![Seller(k)] = @ + reservation[k].destination]
  <2>1. reservation[k] # NoReservation /\ FundsTypeOK
    BY <1>2, StatusMeansRow DEF LedgerInv
  <2>2. /\ FundsTypeOK' /\ Status(k)' = "COMMITTED"
        /\ \A j \in Keys : j # k => reservation'[j] = reservation[j]
    <3>1. Status(k)' = "COMMITTED"
      BY <1>2, <2>1, MoveToEffect
    <3> QED BY <2>1, <3>1, CommitTypes, CommitEffect DEF OnlyStatusOf
  <2>3. /\ Buyer(k) \in Accounts /\ Seller(k) \in Accounts /\ Buyer(k) # Seller(k)
        /\ reservation[k].source \in Int /\ reservation[k].destination \in Int
    BY <2>1, RowFields
  <2>4. reservation'[k] = [reservation[k] EXCEPT !.status = "COMMITTED"]
    BY <1>2, <2>1 DEF MoveTo, FundsTypeOK
  <2>5. ASSUME NEW a \in Accounts
        PROVE  balance'[a] - balance[a]
                 = (PaidTo(k, a)' - PaidTo(k, a)) - (PaidBy(k, a)' - PaidBy(k, a))
    <3>1. PaidBy(k, a) = 0 /\ PaidTo(k, a) = 0
      BY <1>2 DEF PaidBy, PaidTo
    <3>2. /\ PaidBy(k, a)' = IF Buyer(k) = a THEN reservation[k].source ELSE 0
          /\ PaidTo(k, a)' = IF Seller(k) = a THEN reservation[k].destination ELSE 0
      <4>1. /\ Buyer(k)' = Buyer(k) /\ Seller(k)' = Seller(k)
            /\ reservation'[k].source = reservation[k].source
            /\ reservation'[k].destination = reservation[k].destination
        <5>1. reservation[k] \in Reservations
          BY <2>1, RowFields
        <5> QED BY <2>4, <5>1 DEF Buyer, Seller, Reservations
      <4> QED BY <2>2, <4>1 DEF PaidBy, PaidTo
    <3>3. /\ balance[a] \in Int
          /\ balance'[a] = IF Buyer(k) = a THEN balance[a] - reservation[k].source
                           ELSE IF Seller(k) = a THEN balance[a] + reservation[k].destination
                           ELSE balance[a]
      BY <1>2, <2>1, <2>3 DEF FundsTypeOK
    <3> QED BY <2>3, <3>1, <3>2, <3>3
  <2> QED BY <1>2, <2>2, <2>5, LedgerFollowsKey
<1> QED BY <1>1, <1>2 DEF Commit, Done, Refused

LEMMA RefundLedger ==
    ASSUME LedgerInv, NEW k \in Keys, NEW reply \in Replies,
           Refund(k, reply), UNCHANGED external
    PROVE  LedgerInv'
<1>1. CASE UNCHANGED fundsVars
  BY <1>1, LedgerRests
<1>2. CASE /\ Status(k) = "COMMITTED" /\ MoveTo(k, "REFUNDED")
           /\ balance' = [balance EXCEPT ![Seller(k)] = @ - reservation[k].destination,
                                         ![Buyer(k)]  = @ + reservation[k].source]
  <2>1. reservation[k] # NoReservation /\ FundsTypeOK
    BY <1>2, StatusMeansRow DEF LedgerInv
  <2>2. /\ FundsTypeOK' /\ Status(k)' = "REFUNDED"
        /\ \A j \in Keys : j # k => reservation'[j] = reservation[j]
    <3>1. Status(k)' = "REFUNDED"
      BY <1>2, <2>1, MoveToEffect
    <3> QED BY <2>1, <3>1, RefundTypes, RefundEffect DEF OnlyStatusOf
  <2>3. /\ Buyer(k) \in Accounts /\ Seller(k) \in Accounts /\ Buyer(k) # Seller(k)
        /\ reservation[k].source \in Int /\ reservation[k].destination \in Int
    BY <2>1, RowFields
  <2>4. ASSUME NEW a \in Accounts
        PROVE  balance'[a] - balance[a]
                 = (PaidTo(k, a)' - PaidTo(k, a)) - (PaidBy(k, a)' - PaidBy(k, a))
    <3>1. PaidBy(k, a)' = 0 /\ PaidTo(k, a)' = 0
      BY <2>2 DEF PaidBy, PaidTo
    <3>2. /\ PaidBy(k, a) = IF Buyer(k) = a THEN reservation[k].source ELSE 0
          /\ PaidTo(k, a) = IF Seller(k) = a THEN reservation[k].destination ELSE 0
      BY <1>2 DEF PaidBy, PaidTo
    <3>3. /\ balance[a] \in Int
          /\ balance'[a] = IF Buyer(k) = a THEN balance[a] + reservation[k].source
                           ELSE IF Seller(k) = a THEN balance[a] - reservation[k].destination
                           ELSE balance[a]
      BY <1>2, <2>1, <2>3 DEF FundsTypeOK
    <3> QED BY <2>3, <3>1, <3>2, <3>3
  <2> QED BY <1>2, <2>2, <2>4, LedgerFollowsKey
<1> QED BY <1>1, <1>2 DEF Refund, Done, Refused

\* Deposits and withdrawals are what "external" counts.
LEMMA CustomersLedger ==
    ASSUME LedgerInv, NEW b \in Accounts,
           \/ Withdraw(b) /\ external' = [external EXCEPT ![b] = @ - 1]
           \/ Deposit(b) /\ external' = [external EXCEPT ![b] = @ + 1]
    PROVE  LedgerInv'
<1>1. /\ FundsTypeOK /\ FundsTypeOK' /\ reservation' = reservation
      /\ external \in [Accounts -> Int]
  <2>1. FundsTypeOK /\ FundsNext
    BY DEF LedgerInv, FundsNext
  <2> QED BY <2>1, FundsTypesStep DEF Withdraw, Deposit, LedgerInv
<1>2. external' \in [Accounts -> Int]
  BY <1>1
<1>3. \A a : Spent(a)' = Spent(a) /\ Earned(a)' = Earned(a)
  BY <1>1 DEF Spent, Earned, PaidBy, PaidTo, Status, Buyer, Seller
<1>4. ASSUME NEW a \in Accounts
      PROVE  balance'[a] = Opening[a] + external'[a] - Spent(a) + Earned(a)
  <2>1. /\ balance[a] \in Int /\ external[a] \in Int /\ Opening[a] \in Int
        /\ Spent(a) \in Int /\ Earned(a) \in Int
        /\ balance[a] = Opening[a] + external[a] - Spent(a) + Earned(a)
    BY OpeningAssumption, LedgerTypes, <1>1 DEF LedgerInv, FundsTypeOK
  <2>2. /\ balance[b] \in Int /\ external[b] \in Int
    BY <1>1 DEF FundsTypeOK
  <2>3. \/ balance'[a] = balance[a] /\ external'[a] = external[a]
        \/ balance'[a] = balance[a] - 1 /\ external'[a] = external[a] - 1
        \/ balance'[a] = balance[a] + 1 /\ external'[a] = external[a] + 1
    BY <1>1 DEF Withdraw, Deposit, FundsTypeOK
  <2> QED BY <2>1, <2>3
<1> QED BY <1>1, <1>2, <1>3, <1>4 DEF LedgerInv

LEMMA LedgerInitially == MCInit => LedgerInv
<1> SUFFICES ASSUME MCInit PROVE LedgerInv
  OBVIOUS
<1>1. FundsTypeOK /\ external \in [Accounts -> Int] /\ \A a \in Accounts : external[a] = 0
  BY OpeningAssumption DEF MCInit, FundsInit, FundsTypeOK
<1>2. ASSUME NEW a \in Accounts PROVE balance[a] = Opening[a] + external[a] - Spent(a) + Earned(a)
  <2> DEFINE f == [k \in Keys |-> PaidBy(k, a)]
             p == [k \in Keys |-> PaidTo(k, a)]
  <2>1. \A k \in Keys : PaidBy(k, a) = 0 /\ PaidTo(k, a) = 0
    BY DEF MCInit, FundsInit, PaidBy, PaidTo, Status, NoReservation
  <2>2. /\ f \in [Keys -> Int] /\ p \in [Keys -> Int] /\ IsFiniteSet(Keys)
        /\ \A k \in Keys : f[k] = 0 /\ p[k] = 0
    BY <2>1, KeysAssumption
  <2>3. Spent(a) = SumFunctionOnSet(f, Keys) /\ Earned(a) = SumFunctionOnSet(p, Keys)
    BY DEF Spent, Earned
  <2> HIDE DEF f, p
  <2>4. Spent(a) = 0 /\ Earned(a) = 0
    BY <2>2, <2>3, SumOfZeros
  <2>5. balance[a] = Opening[a] /\ Opening[a] \in Int
    BY OpeningAssumption DEF MCInit, FundsInit
  <2> QED BY <1>1, <2>4, <2>5
<1> QED BY <1>1, <1>2 DEF LedgerInv

LEMMA LedgerStep == LedgerInv /\ [MCNext]_<<fundsVars, external>> => LedgerInv'
BY ReserveLedger, ReleaseLedger, CommitLedger, RefundLedger, CustomersLedger, LedgerRests
   DEF MCNext

\* Every account holds its opening balance, what its owner moved in and out, and the
\* settlements that are committed and not refunded, for any accounts, settlements,
\* rates and order of calls: no retry, late call or refund moves money twice or at
\* another rate than the one of the reservation.
THEOREM LedgerAlwaysExact == MCSpec => []LedgerExact
<1>1. MCInit => LedgerInv
  BY LedgerInitially
<1>2. LedgerInv => LedgerExact
  BY LedgerMeans
<1> QED BY <1>1, <1>2, LedgerStep, PTL DEF MCSpec

-----------------------------------------------------------------------------
(* Payments *)

Shape(v) == v = [at |-> v.at, tx |-> v.tx, tries |-> v.tries, seen |-> v.seen,
                 rows |-> v.rows, row |-> v.row, locked |-> v.locked]

\* What a request is about: only an interbank payment is sent or refused.
CallTyped(v) ==
    /\ Shape(v) /\ v.at \in Places
    /\ v.at = "idle" => v.tx = NoTx
    /\ v.at # "idle" => v.tx \in Txs
    /\ v.at \in {"send", "refuse"} => IsForeign(v.tx)

PayTypes ==
    /\ status \in [Txs -> TxStatuses] /\ moved \in [Txs -> Nat] /\ twoPhase \in [Txs -> Nat]
    /\ call = [c \in Calls |-> call[c]] /\ \A c \in Calls : CallTyped(call[c])
    /\ overlapped \subseteq Txs
    /\ \A t \in Txs : twoPhase[t] > 0 => IsForeign(t)

\* One request at most works at t, and the status is the one it has left.  The
\* transaction of a transfer is not visible until it is committed.
Working(t) ==
    /\ \A c, d \in Calls : call[c].tx = t /\ call[d].tx = t => c = d
    /\ \A c \in Calls : call[c].tx = t =>
         status[t] = IF Kind(t) = "transfer" THEN "none" ELSE "processing"

MovedMatches(t) == moved[t] = IF status[t] = "completed" THEN 1 ELSE 0

PayInv ==
    /\ PayTypes
    /\ \A t \in Txs \ overlapped : ~IsForeign(t) => Working(t) /\ MovedMatches(t)

-----------------------------------------------------------------------------
LEMMA IdleTyped == CallTyped(Idle) /\ Idle.at = "idle" /\ Idle.tx = NoTx
BY DEF CallTyped, Shape, Idle, Places

LEMMA NoTxIsNone == ASSUME PaymentsAssumption PROVE NoTx \notin Txs
BY DEF PaymentsAssumption

LEMMA PayInit == PaymentsAssumption /\ PaymentsInit => PayInv
<1> SUFFICES ASSUME PaymentsAssumption, PaymentsInit PROVE PayInv
  OBVIOUS
<1>1. PayTypes
  BY IdleTyped DEF PaymentsInit, PayTypes, TxStatuses
<1>2. ASSUME NEW t \in Txs PROVE Working(t) /\ MovedMatches(t)
  BY IdleTyped, NoTxIsNone DEF PaymentsInit, Working, MovedMatches
<1> QED BY <1>1, <1>2 DEF PayInv

\* A request begins to work at t, whose status is then known to it.
LEMMA EnterKeeps ==
  ASSUME PaymentsAssumption, PayInv, NEW c \in Calls, NEW t \in Txs,
         NEW place \in Places \ {"idle", "send", "refuse"}, Enter(c, t, place),
         UNCHANGED <<twoPhase, moved>>, status' \in [Txs -> TxStatuses],
         \A u \in Txs : u # t => status'[u] = status[u], status[t] # "completed",
         status'[t] = IF Kind(t) = "transfer" THEN "none" ELSE "processing"
  PROVE  PayInv'
<1> DEFINE view == [Idle EXCEPT !.at = place, !.tx = t, !.tries = attempts[t]]
<1>1. /\ call[c].at = "idle" /\ call' = [call EXCEPT ![c] = view]
      /\ overlapped' = IF \E d \in Calls : call[d].tx = t THEN overlapped \cup {t} ELSE overlapped
  BY DEF Enter, At
<1>2. PICK w : w = view
  OBVIOUS
<1>3. CallTyped(view) /\ view.tx = t
  <2>1. Shape(w) /\ w.at = place /\ w.tx = t
    <3>1. Shape(Idle)
      BY IdleTyped DEF CallTyped
    <3>2. PICK n : n = attempts[t]
      OBVIOUS
    <3>3. PICK v : v = Idle
      OBVIOUS
    <3>4. w = [v EXCEPT !.at = place, !.tx = t, !.tries = n]
      BY <1>2, <3>2, <3>3
    <3> HIDE DEF view
    <3>5. Shape(v)
      BY <3>1, <3>3
    <3>6. Shape(w)
      BY <3>4, <3>5 DEF Shape
    <3>7. w.at = place
      BY <3>4, <3>5 DEF Shape
    <3>8. w.tx = t
      BY <3>4, <3>5 DEF Shape
    <3> QED BY <3>6, <3>7, <3>8
  <2>2. CallTyped(w)
    BY <2>1 DEF CallTyped
  <2> HIDE DEF view
  <2> QED BY <1>2, <2>1, <2>2
<1> HIDE DEF view
<1>4. \A d \in Calls : call'[d] = IF d = c THEN view ELSE call[d]
  BY <1>1 DEF PayInv, PayTypes
<1>5. PayTypes'
  <2>1. call' = [d \in Calls |-> call'[d]]
    BY <1>1 DEF PayInv, PayTypes
  <2>2. \A d \in Calls : CallTyped(call'[d])
    BY <1>3, <1>4 DEF PayInv, PayTypes
  <2>3. overlapped' \subseteq Txs
    BY <1>1 DEF PayInv, PayTypes
  <2>4. \A d \in Calls : CallTyped(call[d])'
    BY <2>2 DEF CallTyped, Shape, IsForeign
  <2> QED BY <2>1, <2>3, <2>4 DEF PayInv, PayTypes, IsForeign
<1>6. ASSUME NEW u \in Txs, u \notin overlapped', ~ IsForeign(u) PROVE Working(u)' /\ MovedMatches(u)'
  <2>1. Working(u) /\ MovedMatches(u)
    BY <1>1, <1>6 DEF PayInv
  <2>2. CASE u = t
    <3>1. \A d \in Calls : call[d].tx # u
      BY <1>1, <1>6, <2>2
    <3>2. Working(u)'
      BY <1>3, <1>4, <2>2, <3>1 DEF Working, Kind
    <3> QED BY <2>1, <2>2, <3>2 DEF MovedMatches
  <2>3. CASE u # t
    <3>1. \A d \in Calls : call'[d].tx = u => call[d].tx = u
      BY <1>3, <1>4, <2>3
    <3> QED BY <2>1, <2>3, <3>1 DEF Working, MovedMatches, Kind
  <2> QED BY <2>2, <2>3
<1> QED BY <1>5, <1>6 DEF PayInv, IsForeign

\* A request goes on with its transaction, or ends.
LEMMA CallKeeps ==
  ASSUME PaymentsAssumption, PayInv, NEW c \in Calls, NEW t \in Txs,
         call[c].at # "idle", call[c].tx = t, UNCHANGED overlapped,
         call' = [d \in Calls |-> call'[d]], \A d \in Calls : d # c => call'[d] = call[d],
         \/ call'[c] = Idle
         \/ CallTyped(call'[c]) /\ call'[c].tx = t,
         status' \in [Txs -> TxStatuses], moved' \in [Txs -> Nat], twoPhase' \in [Txs -> Nat],
         \A u \in Txs : u # t =>
           status'[u] = status[u] /\ moved'[u] = moved[u] /\ twoPhase'[u] = twoPhase[u],
         ~ IsForeign(t) => twoPhase'[t] = twoPhase[t],
         t \notin overlapped /\ ~ IsForeign(t) =>
           /\ MovedMatches(t)'
           /\ call'[c].tx = t => status'[t] = status[t]
  PROVE  PayInv'
<1>1. PayTypes'
  <2>1. \A d \in Calls : CallTyped(call'[d])
    BY IdleTyped DEF PayInv, PayTypes
  <2>2. \A d \in Calls : CallTyped(call[d])'
    BY <2>1 DEF CallTyped, Shape, IsForeign
  <2>3. \A u \in Txs : twoPhase'[u] > 0 => IsForeign(u)
    BY DEF PayInv, PayTypes
  <2> QED BY <2>2, <2>3 DEF PayInv, PayTypes, IsForeign
<1>2. ASSUME NEW u \in Txs, u \notin overlapped, ~ IsForeign(u) PROVE Working(u)' /\ MovedMatches(u)'
  <2>1. Working(u) /\ MovedMatches(u)
    BY <1>2 DEF PayInv
  <2>2. \A d \in Calls : call'[d].tx = u => call[d].tx = u
    BY IdleTyped, NoTxIsNone
  <2>3. CASE u = t
    <3>1. \A d \in Calls : call'[d].tx = t => d = c
      BY <2>1, <2>2, <2>3 DEF Working
    <3> QED BY <1>2, <2>1, <2>2, <2>3, <3>1 DEF Working, Kind
  <2>4. CASE u # t
    BY <2>1, <2>2, <2>4 DEF Working, MovedMatches, Kind
  <2> QED BY <2>3, <2>4
<1> QED BY <1>1, <1>2 DEF PayInv, IsForeign

\* A step of a request that changes neither the status nor the money moved.
LEMMA QuietKeeps ==
  ASSUME PaymentsAssumption, PayInv, NEW c \in Calls, call[c].at # "idle",
         UNCHANGED <<status, moved, twoPhase, overlapped>>,
         call' = [d \in Calls |-> call'[d]], \A d \in Calls : d # c => call'[d] = call[d],
         \/ call'[c] = Idle
         \/ CallTyped(call'[c]) /\ call'[c].tx = call[c].tx
  PROVE  PayInv'
<1>1. call[c].tx \in Txs
  BY DEF PayInv, PayTypes, CallTyped
<1>2. PICK t \in Txs : call[c].tx = t
  BY <1>1
<1>3. t \notin overlapped /\ ~ IsForeign(t) => MovedMatches(t)'
  BY DEF PayInv, MovedMatches
<1>4. status' \in [Txs -> TxStatuses] /\ moved' \in [Txs -> Nat] /\ twoPhase' \in [Txs -> Nat]
  BY DEF PayInv, PayTypes
<1> QED BY <1>2, <1>3, <1>4, CallKeeps

\* The two ways on that leave all of the request but its place as it is.
LEMMA GotoReturn ==
  ASSUME PayInv, NEW c \in Calls, call[c].at # "idle",
         NEW place \in Places \ {"idle"}, place \in {"send", "refuse"} => IsForeign(call[c].tx),
         Goto(c, place) \/ Return(c)
  PROVE  /\ call' = [d \in Calls |-> call'[d]] /\ \A d \in Calls : d # c => call'[d] = call[d]
         /\ \/ call'[c] = Idle
            \/ CallTyped(call'[c]) /\ call'[c].tx = call[c].tx
<1>1. CASE Goto(c, place)
  <2>1. /\ call' = [d \in Calls |-> call'[d]] /\ \A d \in Calls : d # c => call'[d] = call[d]
        /\ call'[c] = [call[c] EXCEPT !.at = place]
    BY <1>1 DEF Goto, PayInv, PayTypes
  <2>2. CallTyped(call[c])
    BY DEF PayInv, PayTypes
  <2> DEFINE v == call[c]  w == call'[c]
  <2> HIDE DEF v, w
  <2>3. CallTyped(w) /\ w.tx = v.tx
    <3>1. w = [v EXCEPT !.at = place] /\ CallTyped(v) /\ v.at # "idle"
      BY <2>1, <2>2 DEF v, w
    <3>2. place \in {"send", "refuse"} => IsForeign(v.tx)
      BY DEF v
    <3> QED BY <3>1, <3>2 DEF CallTyped, Shape
  <2> QED BY <2>1, <2>3 DEF v, w
<1>2. CASE Return(c)
  <2>1. call' = [call EXCEPT ![c] = Idle] /\ call = [d \in Calls |-> call[d]]
    BY <1>2 DEF Return, PayInv, PayTypes
  <2>2. call' = [d \in Calls |-> IF d = c THEN Idle ELSE call[d]]
    BY <2>1
  <2>3. \A d \in Calls : call'[d] = IF d = c THEN Idle ELSE call[d]
    BY <2>2
  <2>4. call' = [d \in Calls |-> call'[d]]
    BY <2>2
  <2> QED BY <2>3, <2>4
<1> QED BY <1>1, <1>2

-----------------------------------------------------------------------------
(* Creation and verification *)

LEMMA CreatePaymentStep ==
  ASSUME PaymentsAssumption, PayInv, NEW t \in Txs, CreatePayment(t)
  PROVE  PayInv'
<1>1. /\ Kind(t) = "payment" /\ status[t] = "none" /\ status' = [status EXCEPT ![t] = "processing"]
      /\ UNCHANGED <<call, twoPhase, moved, overlapped>>
  BY DEF CreatePayment, ghosts
<1>2. status' \in [Txs -> TxStatuses] /\ \A u \in Txs : u # t => status'[u] = status[u]
  BY <1>1 DEF PayInv, PayTypes, TxStatuses
<1>3. PayTypes'
  <2>1. \A c \in Calls : CallTyped(call[c])'
    BY <1>1 DEF PayInv, PayTypes, CallTyped, Shape, IsForeign
  <2> QED BY <1>1, <1>2, <2>1 DEF PayInv, PayTypes, IsForeign
<1>4. ASSUME NEW u \in Txs, u \notin overlapped, ~ IsForeign(u) PROVE Working(u)' /\ MovedMatches(u)'
  <2>1. Working(u) /\ MovedMatches(u)
    BY <1>4 DEF PayInv
  <2>2. CASE u # t
    BY <1>1, <1>2, <2>1, <2>2 DEF Working, MovedMatches, Kind
  <2>3. CASE u = t
    <3>1. status'[u] = "processing" /\ status[u] = "none"
      BY <1>1, <2>3 DEF PayInv, PayTypes
    <3> QED BY <1>1, <2>1, <2>3, <3>1 DEF Working, MovedMatches, Kind
  <2> QED BY <2>2, <2>3
<1> QED BY <1>1, <1>3, <1>4 DEF PayInv, IsForeign

LEMMA CreateAndProcessStep ==
  ASSUME PaymentsAssumption, PayInv, NEW c \in Calls, NEW t \in Txs, CreateAndProcess(c, t)
  PROVE  PayInv'
<1>1. /\ status[t] = "none" /\ status' = [status EXCEPT ![t] = "processing"]
      /\ UNCHANGED <<twoPhase, moved>> /\ Kind(t) # "transfer"
      /\ Enter(c, t, "process") \/ Enter(c, t, "begin")
  BY DEF CreateAndProcess
<1>2. /\ status' \in [Txs -> TxStatuses] /\ \A u \in Txs : u # t => status'[u] = status[u]
      /\ status'[t] = "processing"
  BY <1>1 DEF PayInv, PayTypes, TxStatuses
<1> QED BY <1>1, <1>2, EnterKeeps DEF Places

LEMMA ExecuteTransferStep ==
  ASSUME PaymentsAssumption, PayInv, NEW c \in Calls, NEW t \in Txs, ExecuteTransfer(c, t)
  PROVE  PayInv'
<1>1. /\ Kind(t) = "transfer" /\ status[t] = "none" /\ Enter(c, t, "check")
      /\ UNCHANGED <<status, twoPhase, moved>>
  BY DEF ExecuteTransfer
<1>2. status' \in [Txs -> TxStatuses]
  BY <1>1 DEF PayInv, PayTypes
<1> QED BY <1>1, <1>2, EnterKeeps DEF Places

LEMMA VerifyStep ==
  ASSUME PaymentsAssumption, PayInv, NEW c \in Calls, NEW t \in Txs, Verify(c, t)
  PROVE  PayInv'
<1>1. /\ Kind(t) = "payment" /\ status[t] = "processing" /\ Enter(c, t, "verify")
      /\ UNCHANGED <<status, twoPhase, moved>>
  BY DEF Verify
<1>2. status' \in [Txs -> TxStatuses]
  BY <1>1 DEF PayInv, PayTypes
<1> QED BY <1>1, <1>2, EnterKeeps DEF Places

\* The right code, a wrong one, and the steps towards the database transaction.
LEMMA QuietStep ==
  ASSUME PaymentsAssumption, PayInv, NEW c \in Calls,
         RightCode(c) \/ WrongCode(c) \/ Process(c) \/ BeginTx(c) \/ Abort(c)
  PROVE  PayInv'
<1>1. call[c].at # "idle" /\ UNCHANGED <<status, moved, twoPhase, overlapped>>
  BY DEF RightCode, WrongCode, Process, BeginTx, Abort, At, Opened, ghosts
<1>2. \/ Return(c) \/ Goto(c, "process") \/ Goto(c, "cancel") \/ Goto(c, "begin") \/ Goto(c, "check")
      \/ Goto(c, "send") /\ IsForeign(call[c].tx)
  BY DEF RightCode, WrongCode, Process, BeginTx, Abort
<1>3. /\ call' = [d \in Calls |-> call'[d]] /\ \A d \in Calls : d # c => call'[d] = call[d]
      /\ \/ call'[c] = Idle
         \/ CallTyped(call'[c]) /\ call'[c].tx = call[c].tx
  BY <1>1, <1>2, GotoReturn DEF Places
<1> QED BY <1>1, <1>3, QuietKeeps

LEMMA RejectStep ==
  ASSUME PaymentsAssumption, PayInv, NEW c \in Calls, RejectTx(c)
  PROVE  PayInv'
<1>1. /\ call[c].at # "idle" /\ status' = [status EXCEPT ![call[c].tx] = "rejected"] /\ Return(c)
      /\ UNCHANGED <<twoPhase, moved, overlapped>>
  BY DEF RejectTx, At, ghosts
<1>2. call[c].tx \in Txs
  BY <1>1 DEF PayInv, PayTypes, CallTyped
<1>3. PICK t \in Txs : call[c].tx = t
  BY <1>2
<1>4. /\ status' \in [Txs -> TxStatuses] /\ status'[t] = "rejected"
      /\ moved' \in [Txs -> Nat] /\ twoPhase' \in [Txs -> Nat]
      /\ \A u \in Txs : u # t => status'[u] = status[u]
  BY <1>1, <1>3 DEF PayInv, PayTypes, TxStatuses
<1>5. ASSUME t \notin overlapped, ~ IsForeign(t) PROVE MovedMatches(t)'
  <2>1. MovedMatches(t) /\ status[t] # "completed"
    BY <1>3, <1>5 DEF PayInv, Working
  <2> QED BY <1>1, <1>4, <2>1 DEF MovedMatches
<1>6. /\ call' = [d \in Calls |-> call'[d]] /\ \A d \in Calls : d # c => call'[d] = call[d]
      /\ call'[c] = Idle
  <2>1. call' = [d \in Calls |-> IF d = c THEN Idle ELSE call[d]]
    BY <1>1 DEF Return, PayInv, PayTypes
  <2> QED BY <2>1
<1>7. Idle.tx # t
  BY IdleTyped, NoTxIsNone
<1> QED BY <1>1, <1>3, <1>4, <1>5, <1>6, <1>7, CallKeeps

-----------------------------------------------------------------------------
(* Processing *)

LEMMA SendStep ==
  ASSUME PaymentsAssumption, PayInv, NEW c \in Calls, NEW started \in BOOLEAN, NEW answered \in BOOLEAN,
         SendInterbank(c, started, answered)
  PROVE  PayInv'
<1>1. /\ call[c].at = "send" /\ UNCHANGED <<status, moved, overlapped>>
      /\ twoPhase' = twoPhase \/ twoPhase' = [twoPhase EXCEPT ![call[c].tx] = @ + 1]
      /\ Goto(c, "refuse") \/ Return(c)
  BY DEF SendInterbank, At
<1>2. call[c].tx \in Txs /\ IsForeign(call[c].tx)
  BY <1>1 DEF PayInv, PayTypes, CallTyped
<1>3. PICK t \in Txs : call[c].tx = t
  BY <1>2
<1>4. /\ call' = [d \in Calls |-> call'[d]] /\ \A d \in Calls : d # c => call'[d] = call[d]
      /\ \/ call'[c] = Idle
         \/ CallTyped(call'[c]) /\ call'[c].tx = call[c].tx
  BY <1>1, <1>2, GotoReturn DEF Places
<1>5. /\ status' \in [Txs -> TxStatuses] /\ moved' \in [Txs -> Nat] /\ twoPhase' \in [Txs -> Nat]
      /\ \A u \in Txs : u # t => twoPhase'[u] = twoPhase[u]
  BY <1>1, <1>3 DEF PayInv, PayTypes
<1>6. IsForeign(t) /\ call[c].at # "idle"
  BY <1>1, <1>2, <1>3
<1> QED BY <1>1, <1>3, <1>4, <1>5, <1>6, CallKeeps

\* Only interbank payments are finalized by interbank-service.
LEMMA FinalizeStep ==
  ASSUME PaymentsAssumption, PayInv, NEW t \in Txs, NEW success \in BOOLEAN,
         FinalizeInterbankPayment(t, success)
  PROVE  PayInv'
<1>1. /\ twoPhase[t] > 0 /\ twoPhase' = [twoPhase EXCEPT ![t] = @ - 1]
      /\ moved' = moved \/ moved' = [moved EXCEPT ![t] = @ + 1]
      /\ \/ status' = status
         \/ \E s \in {"completed", "rejected"} : status' = [status EXCEPT ![t] = s]
      /\ UNCHANGED <<call, overlapped>>
  BY DEF FinalizeInterbankPayment
<1>2. IsForeign(t)
  BY <1>1 DEF PayInv, PayTypes
<1>3. /\ status' \in [Txs -> TxStatuses] /\ moved' \in [Txs -> Nat] /\ twoPhase' \in [Txs -> Nat]
      /\ \A u \in Txs : u # t =>
           status'[u] = status[u] /\ moved'[u] = moved[u] /\ twoPhase'[u] = twoPhase[u]
  <2>1. status' \in [Txs -> TxStatuses] /\ \A u \in Txs : u # t => status'[u] = status[u]
    BY <1>1 DEF PayInv, PayTypes, TxStatuses
  <2>2. /\ moved' \in [Txs -> Nat] /\ twoPhase' \in [Txs -> Nat]
        /\ \A u \in Txs : u # t => moved'[u] = moved[u] /\ twoPhase'[u] = twoPhase[u]
    BY <1>1 DEF PayInv, PayTypes
  <2> QED BY <2>1, <2>2
<1>4. PayTypes'
  <2>1. \A c \in Calls : CallTyped(call[c])'
    BY <1>1 DEF PayInv, PayTypes, CallTyped, Shape, IsForeign
  <2>2. \A u \in Txs : twoPhase'[u] > 0 => IsForeign(u)
    BY <1>2, <1>3 DEF PayInv, PayTypes
  <2> QED BY <1>1, <1>3, <2>1, <2>2 DEF PayInv, PayTypes, IsForeign
<1>5. ASSUME NEW u \in Txs, u \notin overlapped, ~ IsForeign(u) PROVE Working(u)' /\ MovedMatches(u)'
  <2>1. Working(u) /\ MovedMatches(u) /\ u # t
    BY <1>2, <1>5 DEF PayInv
  <2> QED BY <1>1, <1>3, <2>1 DEF Working, MovedMatches, Kind
<1> QED BY <1>1, <1>4, <1>5 DEF PayInv, IsForeign

\* What a request has read and locked does not matter here.
LEMMA TransactionStep ==
  ASSUME PaymentsAssumption, PayInv, NEW c \in Calls,
         CheckAccounts(c) \/ UpdateRow(c) \/ \E a \in PayAccounts : ReadRow(c, a)
  PROVE  PayInv'
<1>1. call[c].at # "idle" /\ UNCHANGED <<status, moved, twoPhase, overlapped>>
  BY DEF CheckAccounts, UpdateRow, ReadRow, At, ghosts
<1>2. PICK v : v = call[c]
  OBVIOUS
<1>3. CallTyped(v) /\ Shape(v) /\ v.at # "idle"
  BY <1>1, <1>2 DEF PayInv, PayTypes, CallTyped
<1> DEFINE Moves(w) == /\ call' = [call EXCEPT ![c] = w] /\ Shape(w) /\ w.tx = v.tx
                       /\ w.at \in {"row", "update", "write"}
<1>4. Return(c) \/ \E w : Moves(w)
  <2>1. call = [d \in Calls |-> call[d]]
    BY DEF PayInv, PayTypes
  <2>2. CASE CheckAccounts(c)
    <3>1. \/ Return(c)
          \/ \E place \in {"row", "write"} : \E seen, rows :
               call' = [call EXCEPT ![c].at = place, ![c].rows = rows, ![c].seen = seen]
      BY <1>2, <2>1, <2>2 DEF CheckAccounts
    <3>2. ASSUME NEW place \in {"row", "write"}, NEW seen, NEW rows, call' = [call EXCEPT ![c].at = place, ![c].rows = rows, ![c].seen = seen]
          PROVE  \E w : Moves(w)
      <4>1. call' = [call EXCEPT ![c] = [v EXCEPT !.at = place, !.rows = rows, !.seen = seen]]
        BY <1>2, <2>1, <3>2
      <4>2. PICK w : w = [v EXCEPT !.at = place, !.rows = rows, !.seen = seen]
        OBVIOUS
      <4>3. Shape(w)
        BY <1>3, <4>2 DEF Shape
      <4>4. w.tx = v.tx
        BY <1>3, <4>2 DEF Shape
      <4>5. w.at \in {"row", "update", "write"}
        BY <1>3, <4>2 DEF Shape
      <4> QED BY <4>1, <4>2, <4>3, <4>4, <4>5
    <3> HIDE DEF Moves
    <3> QED BY <3>1, <3>2
  <2>3. CASE UpdateRow(c)
    <3>1. \E place \in {"row", "write"} : \E locked :
            call' = [call EXCEPT ![c].at = place, ![c].locked = locked, ![c].row = {}]
      BY <1>2, <2>1, <2>3 DEF UpdateRow
    <3>2. ASSUME NEW place \in {"row", "write"}, NEW locked, call' = [call EXCEPT ![c].at = place, ![c].locked = locked, ![c].row = {}]
          PROVE  \E w : Moves(w)
      <4>1. call' = [call EXCEPT ![c] = [v EXCEPT !.at = place, !.locked = locked, !.row = {}]]
        BY <1>2, <2>1, <3>2
      <4>2. PICK w : w = [v EXCEPT !.at = place, !.locked = locked, !.row = {}]
        OBVIOUS
      <4>3. Shape(w)
        BY <1>3, <4>2 DEF Shape
      <4>4. w.tx = v.tx
        BY <1>3, <4>2 DEF Shape
      <4>5. w.at \in {"row", "update", "write"}
        BY <1>3, <4>2 DEF Shape
      <4> QED BY <4>1, <4>2, <4>3, <4>4, <4>5
    <3> HIDE DEF Moves
    <3> QED BY <3>1, <3>2
  <2>4. CASE \E a \in PayAccounts : ReadRow(c, a)
    <3>1. \E seen, rows, row :
            call' = [call EXCEPT ![c].at = "update", ![c].row = row, ![c].rows = rows, ![c].seen = seen]
      <4>1. PICK a \in PayAccounts : ReadRow(c, a)
        BY <2>4
      <4>2. call' = [call EXCEPT ![c].at = "update", ![c].row = {a}, ![c].rows = call[c].rows \ {a},
                     ![c].seen = [b \in {a} \cup DOMAIN call[c].seen |->
                                    IF b = a THEN payBalance[a] ELSE call[c].seen[b]]]
        BY <2>1, <4>1 DEF ReadRow
      <4>3. PICK seen, rows, row : /\ seen = [b \in {a} \cup DOMAIN call[c].seen |->
                                               IF b = a THEN payBalance[a] ELSE call[c].seen[b]]
                                   /\ rows = call[c].rows \ {a} /\ row = {a}
        OBVIOUS
      <4>4. call' = [call EXCEPT ![c].at = "update", ![c].row = row, ![c].rows = rows, ![c].seen = seen]
        BY <4>2, <4>3
      <4> QED BY <4>4
    <3>2. ASSUME NEW seen, NEW rows, NEW row, call' = [call EXCEPT ![c].at = "update", ![c].row = row, ![c].rows = rows, ![c].seen = seen]
          PROVE  \E w : Moves(w)
      <4>1. call' = [call EXCEPT ![c] = [v EXCEPT !.at = "update", !.row = row, !.rows = rows, !.seen = seen]]
        BY <1>2, <2>1, <3>2
      <4>2. PICK w : w = [v EXCEPT !.at = "update", !.row = row, !.rows = rows, !.seen = seen]
        OBVIOUS
      <4>3. Shape(w)
        BY <1>3, <4>2 DEF Shape
      <4>4. w.tx = v.tx
        BY <1>3, <4>2 DEF Shape
      <4>5. w.at \in {"row", "update", "write"}
        BY <1>3, <4>2 DEF Shape
      <4> QED BY <4>1, <4>2, <4>3, <4>4, <4>5
    <3> HIDE DEF Moves
    <3> QED BY <3>1, <3>2
  <2> QED BY <2>2, <2>3, <2>4
<1>5. /\ call' = [d \in Calls |-> call'[d]] /\ \A d \in Calls : d # c => call'[d] = call[d]
      /\ \/ call'[c] = Idle
         \/ CallTyped(call'[c]) /\ call'[c].tx = call[c].tx
  <2>1. CASE Return(c)
    BY <1>1, <2>1, GotoReturn DEF Places
  <2>2. ASSUME NEW w, Moves(w)
        PROVE  /\ call' = [d \in Calls |-> call'[d]] /\ \A d \in Calls : d # c => call'[d] = call[d]
               /\ CallTyped(call'[c]) /\ call'[c].tx = call[c].tx
    <3>1. CallTyped(w)
      BY <1>3, <2>2 DEF CallTyped, Places
    <3>2. /\ call' = [d \in Calls |-> call'[d]] /\ \A d \in Calls : d # c => call'[d] = call[d]
          /\ call'[c] = w
      BY <2>2 DEF PayInv, PayTypes
    <3> QED BY <1>2, <2>2, <3>1, <3>2
  <2> HIDE DEF Moves
  <2> QED BY <1>4, <2>1, <2>2
<1> QED BY <1>1, <1>5, QuietKeeps

LEMMA CommitStep ==
  ASSUME PaymentsAssumption, PayInv, NEW c \in Calls, CommitTx(c)
  PROVE  PayInv'
<1>1. /\ call[c].at # "idle" /\ status' = [status EXCEPT ![call[c].tx] = "completed"]
      /\ moved' = [moved EXCEPT ![call[c].tx] = @ + 1] /\ Return(c)
      /\ UNCHANGED <<twoPhase, overlapped>>
  BY DEF CommitTx, At
<1>2. call[c].tx \in Txs
  BY <1>1 DEF PayInv, PayTypes, CallTyped
<1>3. PICK t \in Txs : call[c].tx = t
  BY <1>2
<1>4. status' \in [Txs -> TxStatuses] /\ status'[t] = "completed"
      /\ \A u \in Txs : u # t => status'[u] = status[u]
  BY <1>1, <1>3 DEF PayInv, PayTypes, TxStatuses
<1>5. /\ moved' \in [Txs -> Nat] /\ twoPhase' \in [Txs -> Nat] /\ moved'[t] = moved[t] + 1
      /\ \A u \in Txs : u # t => moved'[u] = moved[u]
  BY <1>1, <1>3 DEF PayInv, PayTypes
<1>6. ASSUME t \notin overlapped, ~ IsForeign(t) PROVE MovedMatches(t)'
  <2>1. MovedMatches(t) /\ status[t] # "completed"
    BY <1>3, <1>6 DEF PayInv, Working
  <2> QED BY <1>4, <1>5, <2>1 DEF MovedMatches
<1>7. /\ call' = [d \in Calls |-> call'[d]] /\ \A d \in Calls : d # c => call'[d] = call[d]
      /\ call'[c] = Idle
  <2>1. call' = [d \in Calls |-> IF d = c THEN Idle ELSE call[d]]
    BY <1>1 DEF Return, PayInv, PayTypes
  <2> QED BY <2>1
<1>8. Idle.tx # t
  BY IdleTyped, NoTxIsNone
<1> QED BY <1>1, <1>3, <1>4, <1>5, <1>6, <1>7, <1>8, CallKeeps

-----------------------------------------------------------------------------
LEMMA PayStep == PaymentsAssumption /\ PayInv /\ [PaymentsNext]_payVars => PayInv'
<1> SUFFICES ASSUME PaymentsAssumption, PayInv, [PaymentsNext]_payVars PROVE PayInv'
  OBVIOUS
<1>1. CASE \E t \in Txs : CreatePayment(t)
  BY <1>1, CreatePaymentStep
<1>2. CASE \E t \in Txs, success \in BOOLEAN : FinalizeInterbankPayment(t, success)
  BY <1>2, FinalizeStep
<1>3. CASE \E c \in Calls, t \in Txs : CreateAndProcess(c, t) \/ ExecuteTransfer(c, t) \/ Verify(c, t)
  BY <1>3, CreateAndProcessStep, ExecuteTransferStep, VerifyStep
<1>4. ASSUME NEW c \in Calls,
             \/ RightCode(c) \/ WrongCode(c) \/ RejectTx(c) \/ Process(c)
             \/ BeginTx(c) \/ CheckAccounts(c) \/ UpdateRow(c) \/ CommitTx(c) \/ Abort(c)
      PROVE  PayInv'
  BY <1>4, QuietStep, RejectStep, TransactionStep, CommitStep
<1>5. CASE \E c \in Calls, started \in BOOLEAN, answered \in BOOLEAN : SendInterbank(c, started, answered)
  BY <1>5, SendStep
<1>6. CASE \E c \in Calls, a \in PayAccounts : ReadRow(c, a)
  BY <1>6, TransactionStep
<1>7. CASE UNCHANGED payVars
  <2>1. UNCHANGED <<status, call, twoPhase, moved, overlapped>>
    BY <1>7 DEF payVars, ghosts
  <2>2. PayTypes'
    BY <2>1 DEF PayInv, PayTypes, CallTyped, Shape, IsForeign
  <2>3. \A t \in Txs \ overlapped : ~ IsForeign(t) => Working(t)' /\ MovedMatches(t)'
    BY <2>1 DEF PayInv, Working, MovedMatches, Kind
  <2> QED BY <2>1, <2>2, <2>3 DEF PayInv, IsForeign
<1> QED BY <1>1, <1>2, <1>3, <1>4, <1>5, <1>6, <1>7 DEF PaymentsNext

\* Nobody else changes the status of a local transaction that one request works at,
\* for any accounts, transactions, limits and number of requests at a time.
THEOREM PayInvariant == PaymentsAssumption => (PaymentsSpec => []PayInv)
<1> SUFFICES ASSUME PaymentsAssumption PROVE PaymentsSpec => []PayInv
  OBVIOUS
<1>1. PaymentsInit => PayInv
  BY PayInit
<1>2. PayInv /\ [PaymentsNext]_payVars => PayInv'
  BY PayStep
<1> QED BY <1>1, <1>2, PTL DEF PaymentsSpec

\* A local payment, transfer or settlement that no two requests worked at together
\* moves its money exactly when it is completed, and once.
THEOREM AlwaysMovedOnce == PaymentsAssumption => (PaymentsSpec => []MovedOnce)
<1> SUFFICES ASSUME PaymentsAssumption PROVE PaymentsSpec => []MovedOnce
  OBVIOUS
<1>1. PayInv => MovedOnce
  BY DEF PayInv, MovedMatches, MovedOnce
<1>2. PaymentsSpec => []PayInv
  BY PayInvariant
<1> QED BY <1>1, <1>2, PTL

-----------------------------------------------------------------------------
(* The books of Payments.  Between the moment a database transaction has read *)
(* an account and its commit nobody else writes the account, unless another   *)
(* transaction has read it too or interbank-service has moved its money: the  *)
(* account is then in clash.  Of the others a transaction has read the balance *)
(* they have, and what it adds leaves them covered.                            *)

Reads(c, a) == Opened(c) /\ a \in Touched(call[c].tx)

OpenRows(c) ==
    Opened(c) => /\ Touched(call[c].tx) = (DOMAIN call[c].seen) \cup call[c].rows
                 /\ call[c].at = "write" => call[c].rows = {}
                 /\ \A a \in PayAccounts : a \in DOMAIN call[c].seen => call[c].seen[a] \in Int

Undisturbed(a) ==
    /\ \A c, d \in Calls : Reads(c, a) /\ Reads(d, a) => c = d
    /\ \A c \in Calls : Reads(c, a) =>
         /\ payBalance[a] + Delta(call[c].tx, a) >= 0
         /\ a \in DOMAIN call[c].seen => call[c].seen[a] = payBalance[a]

\* What the transaction t has added to a, and what is reserved for it there.
Booked(t, a) ==
    moved[t] * Delta(t, a) - IF Deal[t].payer = a THEN twoPhase[t] * Deal[t].start ELSE 0

BookedOn(a) == [t \in Txs |-> Booked(t, a)]

Balanced(a) ==
    /\ payBalance[a] >= 0
    /\ payBalance[a] = PayOpening[a] + SumFunctionOnSet(BookedOn(a), Txs)

BooksInv ==
    /\ payBalance \in [PayAccounts -> Int]
    /\ \A c \in Calls : OpenRows(c)
    /\ \A a \in PayAccounts \ clash : Undisturbed(a) /\ Balanced(a)

LEMMA DealFields ==
  ASSUME PaymentsAssumption, NEW t \in Txs
  PROVE  /\ Deal[t].payer \in PayAccounts /\ Deal[t].bankIn \in PayAccounts
         /\ Deal[t].bankOut \in PayAccounts /\ Deal[t].recipient \in PayAccounts \cup {Foreign}
         /\ Deal[t].start \in Nat /\ Deal[t].end \in Nat /\ Deal[t].convert \in BOOLEAN
         /\ LeavesBank(Deal[t]) /\ ChangesCurrency(Deal[t])
BY DEF PaymentsAssumption, Deals

LEMMA DeltaType ==
  ASSUME PaymentsAssumption, NEW t \in Txs, NEW a PROVE Delta(t, a) \in Int
<1>1. PICK s \in Nat, e \in Nat : s = Deal[t].start /\ e = Deal[t].end
  BY DealFields
<1>2. PICK p \in Int : p = IF a = Deal[t].recipient THEN e ELSE 0
  BY <1>1
<1>3. PICK q \in Int : q = IF a = Deal[t].payer THEN s ELSE 0
  BY <1>1
<1>4. PICK m \in Int : m = IF Deal[t].convert /\ a = Deal[t].bankIn THEN s ELSE 0
  BY <1>1
<1>5. PICK n \in Int : n = IF Deal[t].convert /\ a = Deal[t].bankOut THEN e ELSE 0
  BY <1>1
<1>6. Delta(t, a) = p - q + m - n
  BY <1>1, <1>2, <1>3, <1>4, <1>5, Zenon DEF Delta
<1> QED BY <1>6

\* A transaction leaves alone what it does not touch.
LEMMA DeltaElsewhere ==
  ASSUME PaymentsAssumption, NEW t \in Txs, NEW a, a \notin Touched(t) PROVE Delta(t, a) = 0
BY DealFields DEF Delta, Touched, BankLegs

\* A payment to another bank takes its amount from the payer.
LEMMA DeltaForeign ==
  ASSUME PaymentsAssumption, NEW t \in Txs, IsForeign(t), NEW a \in PayAccounts
  PROVE  Delta(t, a) = IF Deal[t].payer = a THEN -Deal[t].start ELSE 0
BY DealFields DEF Delta, IsForeign, LeavesBank, PaymentsAssumption

\* The checks of the processor cover what it takes from an account.
LEMMA FundableCovers ==
  ASSUME PaymentsAssumption, NEW t \in Txs, Fundable(t), NEW a \in PayAccounts,
         payBalance[a] \in Int, payBalance[a] >= 0
  PROVE  payBalance[a] + Delta(t, a) >= 0
<1>1. /\ Deal[t].payer = a => payBalance[a] >= Deal[t].start
      /\ Deal[t].payer # Deal[t].recipient
      /\ Deal[t].convert /\ Deal[t].bankOut = a => payBalance[a] >= Deal[t].end
  BY DEF Fundable, CanPay
<1>2. Deal[t].convert => {Deal[t].payer, Deal[t].bankIn} \cap {Deal[t].recipient, Deal[t].bankOut} = {}
  BY DealFields DEF ChangesCurrency
<1>3. PICK s \in Nat, e \in Nat : s = Deal[t].start /\ e = Deal[t].end
  BY DealFields
<1>4. PICK p \in Nat : p = IF a = Deal[t].recipient THEN e ELSE 0
  BY <1>3
<1>5. PICK q \in Nat : q = IF a = Deal[t].payer THEN s ELSE 0
  BY <1>3
<1>6. PICK m \in Nat : m = IF Deal[t].convert /\ a = Deal[t].bankIn THEN s ELSE 0
  BY <1>3
<1>7. PICK n \in Nat : n = IF Deal[t].convert /\ a = Deal[t].bankOut THEN e ELSE 0
  BY <1>3
<1>8. Delta(t, a) = p - q + m - n
  BY <1>3, <1>4, <1>5, <1>6, <1>7, Zenon DEF Delta
<1>9. q # 0 => a = Deal[t].payer /\ q = s
  BY <1>5
<1>10. n # 0 => Deal[t].convert /\ a = Deal[t].bankOut /\ n = e
  BY <1>7
<1>11. payBalance[a] >= q
  BY <1>1, <1>3, <1>9
<1>12. payBalance[a] >= n
  BY <1>1, <1>3, <1>10
<1>13. q = 0 \/ n = 0
  BY <1>2, <1>9, <1>10, Zenon
<1> QED BY <1>8, <1>11, <1>12, <1>13

LEMMA BookedType ==
  ASSUME PaymentsAssumption, PayTypes, NEW a PROVE BookedOn(a) \in [Txs -> Int]
<1> SUFFICES ASSUME NEW t \in Txs PROVE Booked(t, a) \in Int
  BY DEF BookedOn
<1>1. moved[t] * Delta(t, a) \in Int /\ twoPhase[t] * Deal[t].start \in Int
  BY DeltaType, DealFields DEF PayTypes
<1> QED BY <1>1 DEF Booked

\* The books follow a step that moves money for t only.
LEMMA BalancedMoves ==
  ASSUME PaymentsAssumption, PayTypes, PayTypes', NEW a \in PayAccounts, NEW t \in Txs, Balanced(a),
         payBalance[a] \in Int, payBalance'[a] >= 0,
         \A u \in Txs : u # t => moved'[u] = moved[u] /\ twoPhase'[u] = twoPhase[u],
         payBalance'[a] = payBalance[a] - Booked(t, a) + Booked(t, a)'
  PROVE  Balanced(a)'
<1> DEFINE f == BookedOn(a)
           g == BookedOn(a)'
<1>1. f \in [Txs -> Int]
  BY BookedType
<1>2. g \in [Txs -> Int]
  <2> SUFFICES ASSUME NEW u \in Txs PROVE Booked(u, a)' \in Int
    BY DEF BookedOn
  <2>1. Delta(u, a) \in Int /\ Delta(u, a)' = Delta(u, a)
    BY DeltaType DEF Delta
  <2>2. moved'[u] * Delta(u, a) \in Int /\ twoPhase'[u] * Deal[u].start \in Int
    BY <2>1, DealFields DEF PayTypes
  <2> QED BY <2>1, <2>2 DEF Booked
<1>3. \A u \in Txs \ {t} : f[u] = g[u]
  BY DEF BookedOn, Booked, Delta
<1>4. f[t] = Booked(t, a) /\ g[t] = Booked(t, a)'
  BY DEF BookedOn
<1>5. IsFiniteSet(Txs) /\ PayOpening[a] \in Int
  BY DEF PaymentsAssumption
<1>6. payBalance[a] = PayOpening[a] + SumFunctionOnSet(f, Txs)
  BY DEF Balanced
<1>7. SumFunctionOnSet(f, Txs) \in Int /\ f[t] \in Int /\ g[t] \in Int
  BY <1>1, <1>2, <1>5, SumType
<1> HIDE DEF f, g
<1>8. SumFunctionOnSet(g, Txs) = SumFunctionOnSet(f, Txs) - f[t] + g[t]
  BY <1>1, <1>2, <1>3, <1>5, SumUpdated
<1>9. payBalance'[a] = PayOpening[a] + SumFunctionOnSet(g, Txs)
  BY <1>4, <1>5, <1>6, <1>7, <1>8
<1> QED BY <1>9 DEF Balanced, g

LEMMA BalancedStays ==
  ASSUME PaymentsAssumption, NEW a \in PayAccounts, Balanced(a), UNCHANGED <<moved, twoPhase>>,
         payBalance'[a] = payBalance[a]
  PROVE  Balanced(a)'
<1>1. BookedOn(a)' = BookedOn(a)
  BY DEF BookedOn, Booked, Delta
<1> QED BY <1>1 DEF Balanced

\* A step of one request that moves no money.
LEMMA RequestMoves ==
  ASSUME PaymentsAssumption, BooksInv, UNCHANGED <<payBalance, moved, twoPhase, clash>>,
         NEW c \in Calls, \A d \in Calls : d # c => call'[d] = call[d], OpenRows(c)',
         Opened(c)' =>
           /\ Opened(c) /\ call'[c].tx = call[c].tx
           /\ \A a \in DOMAIN call'[c].seen :
                \/ call'[c].seen[a] = payBalance[a]
                \/ a \in DOMAIN call[c].seen /\ call'[c].seen[a] = call[c].seen[a]
  PROVE  BooksInv'
<1>1. \A d \in Calls : OpenRows(d)'
  BY DEF BooksInv, OpenRows, Opened, Touched, BankLegs
<1>2. ASSUME NEW a \in PayAccounts, a \notin clash PROVE Undisturbed(a)' /\ Balanced(a)'
  <2>1. Undisturbed(a) /\ Balanced(a)
    BY <1>2 DEF BooksInv
  <2>2. \A d \in Calls : Reads(d, a)' => Reads(d, a) /\ call'[d].tx = call[d].tx
    BY DEF Reads, Opened, Touched, BankLegs
  <2>3. ASSUME NEW d \in Calls, Reads(d, a)', a \in DOMAIN call'[d].seen
        PROVE  call'[d].seen[a] = payBalance[a]
    BY <2>1, <2>2, <2>3 DEF Undisturbed, Reads
  <2>4. \A d \in Calls : Delta(call[d].tx, a)' = Delta(call'[d].tx, a)
    BY DEF Delta
  <2>5. Undisturbed(a)'
    BY <2>1, <2>2, <2>3, <2>4 DEF Undisturbed
  <2> QED BY <2>1, <2>5, BalancedStays
<1> QED BY <1>1, <1>2 DEF BooksInv

\* The request is not in a database transaction that has read the accounts.
LEMMA ClosedMoves ==
  ASSUME PaymentsAssumption, BooksInv, UNCHANGED <<payBalance, moved, twoPhase, clash>>,
         NEW c \in Calls, \A d \in Calls : d # c => call'[d] = call[d],
         call'[c].at \notin {"row", "update", "write"}
  PROVE  BooksInv'
BY RequestMoves DEF OpenRows, Opened

\* Money of a moves outside the database transactions.
LEMMA OutsideMoves ==
  ASSUME PaymentsAssumption, PayInv, PayTypes', BooksInv, NEW t \in Txs, NEW n \in Int,
         payBalance' = [payBalance EXCEPT ![Deal[t].payer] = @ + n],
         payBalance[Deal[t].payer] >= 0 => payBalance[Deal[t].payer] + n >= 0,
         clash' = clash \cup (Reading(Calls) \cap {Deal[t].payer}),
         \A u \in Txs : u # t => moved'[u] = moved[u] /\ twoPhase'[u] = twoPhase[u],
         \A a \in PayAccounts : Booked(t, a)' - Booked(t, a) = IF a = Deal[t].payer THEN n ELSE 0,
         \A c \in Calls : OpenRows(c)',
         \A c \in Calls : Opened(c)' => Opened(c) /\ call'[c] = call[c]
  PROVE  BooksInv'
<1>1. Deal[t].payer \in PayAccounts
  BY DealFields
<1>2. /\ payBalance' \in [PayAccounts -> Int]
      /\ \A a \in PayAccounts : payBalance'[a] = IF a = Deal[t].payer THEN payBalance[a] + n ELSE payBalance[a]
  BY <1>1 DEF BooksInv
<1>3. ASSUME NEW a \in PayAccounts, a \notin clash' PROVE Undisturbed(a)' /\ Balanced(a)'
  <2>1. Undisturbed(a) /\ Balanced(a) /\ payBalance[a] \in Int
    BY <1>3 DEF BooksInv
  <2>2. a = Deal[t].payer => \A c \in Calls : ~ Reads(c, a)
    BY <1>3 DEF Reading, Reads
  <2>3. \A c \in Calls : Reads(c, a)' => Reads(c, a) /\ call'[c] = call[c]
    BY DEF Reads, Opened, Touched, BankLegs
  <2>4. Undisturbed(a)'
    <3>1. CASE a = Deal[t].payer
      BY <2>2, <2>3, <3>1 DEF Undisturbed
    <3>2. CASE a # Deal[t].payer
      <4>1. payBalance'[a] = payBalance[a]
        BY <1>2, <3>2
      <4>2. \A c \in Calls : Delta(call[c].tx, a)' = Delta(call'[c].tx, a)
        BY DEF Delta
      <4> QED BY <2>1, <2>3, <4>1, <4>2 DEF Undisturbed
    <3> QED BY <3>1, <3>2
  <2>5. payBalance'[a] >= 0
    BY <1>2, <2>1 DEF Balanced
  <2>6. Booked(t, a) \in Int /\ Booked(t, a)' \in Int
    <3>1. PayTypes /\ BookedOn(a) \in [Txs -> Int] /\ BookedOn(a)[t] = Booked(t, a)
      BY BookedType DEF PayInv, BookedOn
    <3>2. Delta(t, a) \in Int /\ Delta(t, a)' = Delta(t, a)
      BY DeltaType DEF Delta
    <3>3. moved'[t] * Delta(t, a) \in Int /\ twoPhase'[t] * Deal[t].start \in Int
      BY <3>2, DealFields DEF PayTypes
    <3> QED BY <3>1, <3>2, <3>3 DEF Booked
  <2>7. payBalance'[a] = payBalance[a] - Booked(t, a) + Booked(t, a)'
    <3>1. PICK x \in Int, y \in Int : x = Booked(t, a) /\ y = Booked(t, a)'
      BY <2>6
    <3>2. y - x = IF a = Deal[t].payer THEN n ELSE 0
      BY <3>1
    <3> QED BY <1>2, <2>1, <3>1, <3>2
  <2> QED BY <2>1, <2>4, <2>5, <2>7, BalancedMoves DEF PayInv
<1> QED BY <1>2, <1>3 DEF BooksInv

-----------------------------------------------------------------------------
LEMMA BooksInit == PaymentsAssumption /\ PaymentsInit => BooksInv
<1> SUFFICES ASSUME PaymentsAssumption, PaymentsInit PROVE BooksInv
  OBVIOUS
<1>1. payBalance \in [PayAccounts -> Int]
  BY DEF PaymentsInit, PaymentsAssumption
<1>2. \A c \in Calls : ~ Opened(c)
  BY DEF PaymentsInit, Opened, Idle
<1>3. ASSUME NEW a \in PayAccounts PROVE Balanced(a)
  <2>1. BookedOn(a) \in [Txs -> Int]
    <3>1. PayTypes
      BY PayInit DEF PayInv
    <3> QED BY <3>1, BookedType
  <2>2. \A t \in Txs : BookedOn(a)[t] = 0
    <3> SUFFICES ASSUME NEW t \in Txs PROVE Booked(t, a) = 0
      BY DEF BookedOn
    <3>1. moved[t] = 0 /\ twoPhase[t] = 0
      BY DEF PaymentsInit
    <3> QED BY <3>1, DeltaType, DealFields DEF Booked
  <2>3. SumFunctionOnSet(BookedOn(a), Txs) = 0
    BY <2>1, <2>2, SumOfZeros DEF PaymentsAssumption
  <2> QED BY <2>3 DEF Balanced, PaymentsInit, PaymentsAssumption
<1> QED BY <1>1, <1>2, <1>3 DEF BooksInv, OpenRows, Undisturbed, Reads

LEMMA RestMoves ==
  ASSUME PaymentsAssumption, BooksInv, UNCHANGED <<payBalance, call, moved, twoPhase, clash>>
  PROVE  BooksInv'
<1>1. \A c \in Calls : OpenRows(c)'
  BY DEF BooksInv, OpenRows, Opened, Touched, BankLegs
<1>2. ASSUME NEW a \in PayAccounts, a \notin clash PROVE Undisturbed(a)' /\ Balanced(a)'
  <2>1. Undisturbed(a) /\ Balanced(a)
    BY <1>2 DEF BooksInv
  <2>2. Undisturbed(a)'
    BY <2>1 DEF Undisturbed, Reads, Opened, Touched, BankLegs, Delta
  <2> QED BY <2>1, <2>2, BalancedStays
<1> QED BY <1>1, <1>2 DEF BooksInv

\* What a step makes of the request that takes it.
LEMMA RequestGoes ==
  ASSUME PayInv, NEW c \in Calls, NEW w, call' = [call EXCEPT ![c] = w]
  PROVE  call'[c] = w /\ \A d \in Calls : d # c => call'[d] = call[d]
BY DEF PayInv, PayTypes

LEMMA RequestPlaced ==
  ASSUME PayInv, NEW c \in Calls, NEW place, Goto(c, place)
  PROVE  /\ call'[c] = [call[c] EXCEPT !.at = place] /\ call'[c].at = place
         /\ \A d \in Calls : d # c => call'[d] = call[d]
<1>1. call'[c] = [call[c] EXCEPT !.at = place] /\ \A d \in Calls : d # c => call'[d] = call[d]
  BY DEF Goto, PayInv, PayTypes
<1>2. PICK v : v = call[c]
  OBVIOUS
<1>3. Shape(v)
  BY <1>2 DEF PayInv, PayTypes, CallTyped
<1>4. call'[c] = [v EXCEPT !.at = place]
  BY <1>1, <1>2
<1>5. call'[c].at = place
  BY <1>3, <1>4 DEF Shape
<1> QED BY <1>1, <1>5

\* Requests before and after their database transaction.
LEMMA ClosedStep ==
  ASSUME PaymentsAssumption, PayInv, BooksInv, NEW c \in Calls,
         UNCHANGED <<payBalance, moved, twoPhase, clash>>,
         \/ Return(c)
         \/ \E t \in Txs : \E place \in {"process", "begin", "check", "verify"} : Enter(c, t, place)
         \/ \E place \in Places \ {"row", "update", "write"} : Goto(c, place)
  PROVE  BooksInv'
<1>1. CASE Return(c)
  <2>1. call'[c] = Idle /\ \A d \in Calls : d # c => call'[d] = call[d]
    BY <1>1 DEF Return, PayInv, PayTypes
  <2>2. call'[c].at \notin {"row", "update", "write"}
    BY <2>1 DEF Idle
  <2> QED BY <2>1, <2>2, ClosedMoves
<1>2. ASSUME NEW t \in Txs, NEW place \in {"process", "begin", "check", "verify"}, Enter(c, t, place)
      PROVE  BooksInv'
  <2>1. /\ call'[c] = [Idle EXCEPT !.at = place, !.tx = t, !.tries = attempts[t]]
        /\ \A d \in Calls : d # c => call'[d] = call[d]
    BY <1>2 DEF Enter, PayInv, PayTypes
  <2>2. call'[c].at = place
    BY <2>1 DEF Idle
  <2> QED BY <2>1, <2>2, ClosedMoves
<1>3. ASSUME NEW place \in Places \ {"row", "update", "write"}, Goto(c, place) PROVE BooksInv'
  <2>1. call'[c].at = place /\ \A d \in Calls : d # c => call'[d] = call[d]
    BY <1>3, RequestPlaced
  <2>2. call'[c].at \notin {"row", "update", "write"}
    BY <2>1
  <2> QED BY <2>1, <2>2, ClosedMoves
<1> QED BY <1>1, <1>2, <1>3

LEMMA QuietBooks ==
  ASSUME PaymentsAssumption, PayInv, BooksInv, NEW c \in Calls,
         \/ \E t \in Txs : CreateAndProcess(c, t) \/ ExecuteTransfer(c, t) \/ Verify(c, t)
         \/ RightCode(c) \/ WrongCode(c) \/ RejectTx(c) \/ Process(c) \/ BeginTx(c) \/ Abort(c)
  PROVE  BooksInv'
<1>1. UNCHANGED <<payBalance, moved, twoPhase, clash>>
  BY DEF CreateAndProcess, ExecuteTransfer, Verify, RightCode, WrongCode, RejectTx, Process, BeginTx,
         Abort, ghosts
<1>2. \/ Return(c)
      \/ \E t \in Txs : \E place \in {"process", "begin", "check", "verify"} : Enter(c, t, place)
      \/ \E place \in Places \ {"row", "update", "write"} : Goto(c, place)
  <2>1. CASE \E t \in Txs : CreateAndProcess(c, t) \/ ExecuteTransfer(c, t) \/ Verify(c, t)
    BY <2>1 DEF CreateAndProcess, ExecuteTransfer, Verify
  <2>2. CASE RightCode(c) \/ WrongCode(c) \/ RejectTx(c) \/ Process(c) \/ BeginTx(c) \/ Abort(c)
    BY <2>2 DEF RightCode, WrongCode, RejectTx, Process, BeginTx, Abort, Places
  <2> QED BY <2>1, <2>2
<1> QED BY <1>1, <1>2, ClosedStep

\* Money is reserved for a payment to another bank.
LEMMA SendBooks ==
  ASSUME PaymentsAssumption, PayInv, PayInv', BooksInv, NEW c \in Calls,
         NEW started \in BOOLEAN, NEW answered \in BOOLEAN, SendInterbank(c, started, answered)
  PROVE  BooksInv'
<1>1. call[c].at = "send" /\ (Goto(c, "refuse") \/ Return(c)) /\ UNCHANGED moved
  BY DEF SendInterbank, At
<1>2. CASE ~ started
  <2>1. UNCHANGED <<payBalance, moved, twoPhase, clash>>
    BY <1>2 DEF SendInterbank
  <2> QED BY <1>1, <2>1, ClosedStep DEF Places
<1>3. CASE started
  <2>1. call[c].tx \in Txs
    BY <1>1 DEF PayInv, PayTypes, CallTyped
  <2>2. PICK t \in Txs : t = call[c].tx
    BY <2>1
  <2>3. /\ payBalance[Deal[t].payer] >= Deal[t].start
        /\ twoPhase' = [twoPhase EXCEPT ![t] = @ + 1]
        /\ payBalance' = [payBalance EXCEPT ![Deal[t].payer] = @ - Deal[t].start]
        /\ clash' = clash \cup (Reading(Calls) \cap {Deal[t].payer})
    BY <1>3, <2>2 DEF SendInterbank, CanPay
  <2>4. PICK n \in Int : n = -Deal[t].start
    BY DealFields
  <2>5. payBalance' = [payBalance EXCEPT ![Deal[t].payer] = @ + n]
    <3>1. payBalance[Deal[t].payer] - Deal[t].start = payBalance[Deal[t].payer] + n
      BY <2>4, DealFields DEF BooksInv
    <3> QED BY <2>3, <3>1
  <2>6. payBalance[Deal[t].payer] >= 0 => payBalance[Deal[t].payer] + n >= 0
    BY <2>3, <2>4, DealFields DEF BooksInv
  <2>7. \A u \in Txs : u # t => moved'[u] = moved[u] /\ twoPhase'[u] = twoPhase[u]
    BY <1>1, <2>3 DEF PayInv, PayTypes
  <2>8. ASSUME NEW a \in PayAccounts
        PROVE  Booked(t, a)' - Booked(t, a) = IF a = Deal[t].payer THEN n ELSE 0
    <3>1. moved'[t] = moved[t] /\ twoPhase'[t] = twoPhase[t] + 1 /\ Delta(t, a)' = Delta(t, a)
      BY <1>1, <2>3 DEF PayInv, PayTypes, Delta
    <3>2. PICK m \in Int : m = moved[t] * Delta(t, a)
      BY DeltaType DEF PayInv, PayTypes
    <3>3. PICK p \in Nat, s \in Nat : p = twoPhase[t] /\ s = Deal[t].start
      BY DealFields DEF PayInv, PayTypes
    <3>4. /\ Booked(t, a) = m - IF Deal[t].payer = a THEN p * s ELSE 0
          /\ Booked(t, a)' = m - IF Deal[t].payer = a THEN (p + 1) * s ELSE 0
      BY <3>1, <3>2, <3>3 DEF Booked
    <3>5. (p + 1) * s = p * s + s /\ p * s \in Int
      BY <3>3
    <3> QED BY <2>4, <3>3, <3>4, <3>5
  <2>9. \A d \in Calls : Opened(d)' => Opened(d) /\ call'[d] = call[d]
    <3>1. call'[c].at \in {"refuse", "idle"} /\ \A d \in Calls : d # c => call'[d] = call[d]
      <4>1. CASE Goto(c, "refuse")
        BY <4>1, RequestPlaced
      <4>2. CASE Return(c)
        <5>1. call'[c] = Idle /\ \A d \in Calls : d # c => call'[d] = call[d]
          BY <4>2 DEF Return, PayInv, PayTypes
        <5> QED BY <5>1 DEF Idle
      <4> QED BY <1>1, <4>1, <4>2
    <3> QED BY <3>1 DEF Opened
  <2>10. \A d \in Calls : OpenRows(d)'
    BY <2>9 DEF BooksInv, OpenRows, Touched, BankLegs
  <2>11. PayTypes'
    BY DEF PayInv
  <2> QED BY <2>3, <2>5, <2>6, <2>7, <2>8, <2>9, <2>10, <2>11, OutsideMoves
<1> QED BY <1>2, <1>3

\* A reservation is spent, or given back.
LEMMA FinalizeBooks ==
  ASSUME PaymentsAssumption, PayInv, PayInv', BooksInv, NEW t \in Txs, NEW success \in BOOLEAN,
         FinalizeInterbankPayment(t, success)
  PROVE  BooksInv'
<1>1. /\ twoPhase[t] > 0 /\ twoPhase' = [twoPhase EXCEPT ![t] = @ - 1]
      /\ UNCHANGED call
  BY DEF FinalizeInterbankPayment
<1>2. IsForeign(t) /\ PayTypes'
  BY <1>1 DEF PayInv, PayTypes
<1>3. \A d \in Calls : (Opened(d)' => Opened(d) /\ call'[d] = call[d]) /\ OpenRows(d)'
  BY <1>1 DEF BooksInv, OpenRows, Opened, Touched, BankLegs
<1>4. PICK p \in Int, s \in Nat : p = twoPhase[t] /\ s = Deal[t].start
  BY DealFields DEF PayInv, PayTypes
<1>5. (p - 1) * s = p * s - s /\ p * s \in Int
  BY <1>4
<1>6. CASE success
  <2>1. /\ moved' = [moved EXCEPT ![t] = @ + 1] /\ UNCHANGED <<payBalance, clash>>
    BY <1>6 DEF FinalizeInterbankPayment
  <2>2. \A u \in Txs : u # t => moved'[u] = moved[u] /\ twoPhase'[u] = twoPhase[u]
    BY <1>1, <2>1 DEF PayInv, PayTypes
  <2>3. ASSUME NEW a \in PayAccounts PROVE Booked(t, a)' = Booked(t, a) /\ Booked(t, a) \in Int
    <3>1. moved'[t] = moved[t] + 1 /\ twoPhase'[t] = twoPhase[t] - 1
      BY <1>1, <2>1 DEF PayInv, PayTypes
    <3>2. PICK m \in Nat : m = moved[t]
      BY DEF PayInv, PayTypes
    <3>3. Delta(t, a) = (IF Deal[t].payer = a THEN -s ELSE 0) /\ Delta(t, a)' = Delta(t, a)
      BY <1>2, <1>4, DeltaForeign DEF Delta
    <3>4. CASE Deal[t].payer = a
      <4>1. Booked(t, a) = m * (-s) - p * s /\ Booked(t, a)' = (m + 1) * (-s) - (p - 1) * s
        BY <1>4, <3>1, <3>2, <3>3, <3>4 DEF Booked
      <4>2. (m + 1) * (-s) = m * (-s) - s /\ m * (-s) \in Int
        BY <1>4, <3>2
      <4> QED BY <1>5, <4>1, <4>2
    <3>5. CASE Deal[t].payer # a
      BY <3>1, <3>2, <3>3, <3>5 DEF Booked
    <3> QED BY <3>4, <3>5
  <2>4. ASSUME NEW a \in PayAccounts, a \notin clash PROVE Undisturbed(a)' /\ Balanced(a)'
    <3>1. Undisturbed(a) /\ Balanced(a) /\ payBalance[a] \in Int
      BY <2>4 DEF BooksInv
    <3>2. Undisturbed(a)'
      BY <1>1, <2>1, <3>1 DEF Undisturbed, Reads, Opened, Touched, BankLegs, Delta
    <3>3. payBalance'[a] >= 0
      BY <2>1, <3>1 DEF Balanced
    <3>4. payBalance'[a] = payBalance[a] - Booked(t, a) + Booked(t, a)'
      BY <2>1, <2>3, <3>1
    <3> QED BY <1>2, <2>2, <3>1, <3>2, <3>3, <3>4, BalancedMoves DEF PayInv
  <2> QED BY <1>3, <2>1, <2>4 DEF BooksInv
<1>7. CASE ~ success
  <2>1. /\ payBalance' = [payBalance EXCEPT ![Deal[t].payer] = @ + s]
        /\ clash' = clash \cup (Reading(Calls) \cap {Deal[t].payer}) /\ UNCHANGED moved
    BY <1>4, <1>7 DEF FinalizeInterbankPayment
  <2>2. \A u \in Txs : u # t => moved'[u] = moved[u] /\ twoPhase'[u] = twoPhase[u]
    BY <1>1, <2>1 DEF PayInv, PayTypes
  <2>3. ASSUME NEW a \in PayAccounts
        PROVE  Booked(t, a)' - Booked(t, a) = IF a = Deal[t].payer THEN s ELSE 0
    <3>1. moved'[t] = moved[t] /\ twoPhase'[t] = twoPhase[t] - 1 /\ Delta(t, a)' = Delta(t, a)
      BY <1>1, <2>1 DEF PayInv, PayTypes, Delta
    <3>2. PICK m \in Int : m = moved[t] * Delta(t, a)
      BY DeltaType DEF PayInv, PayTypes
    <3>3. /\ Booked(t, a) = m - IF Deal[t].payer = a THEN p * s ELSE 0
          /\ Booked(t, a)' = m - IF Deal[t].payer = a THEN (p - 1) * s ELSE 0
      BY <1>4, <3>1, <3>2 DEF Booked
    <3>4. PICK y \in Int, z \in Int : y = p * s /\ z = (p - 1) * s /\ z = y - s
      BY <1>4, <1>5
    <3>5. CASE Deal[t].payer = a
      BY <1>4, <3>2, <3>3, <3>4, <3>5
    <3>6. CASE Deal[t].payer # a
      BY <3>2, <3>3, <3>6
    <3> QED BY <3>5, <3>6
  <2>4. payBalance[Deal[t].payer] >= 0 => payBalance[Deal[t].payer] + s >= 0
    BY <1>4, DealFields DEF BooksInv
  <2>5. PICK n \in Int : n = s
    BY <1>4
  <2> QED BY <1>2, <1>3, <2>1, <2>2, <2>3, <2>4, <2>5, OutsideMoves
<1> QED BY <1>6, <1>7

\* The database transaction opens: what it reads is current, and covered.
LEMMA CheckBooks ==
  ASSUME PaymentsAssumption, PayInv, BooksInv, NEW c \in Calls, CheckAccounts(c)
  PROVE  BooksInv'
<1>1. call[c].at = "check" /\ UNCHANGED <<payBalance, moved, twoPhase>>
  BY DEF CheckAccounts, At
<1>2. PICK t \in Txs : t = call[c].tx
  BY <1>1 DEF PayInv, PayTypes, CallTyped
<1>3. CASE ~ Fundable(t)
  BY <1>1, <1>2, <1>3, ClosedStep DEF CheckAccounts
<1>4. CASE Fundable(t)
  <2> DEFINE place == IF Deal[t].convert THEN "row" ELSE "write"
             rows  == IF Deal[t].convert THEN Touched(t) ELSE {}
             seen  == IF Deal[t].convert THEN <<>> ELSE [a \in Touched(t) |-> payBalance[a]]
  <2>1. /\ call' = [call EXCEPT ![c].at = place, ![c].rows = rows, ![c].seen = seen]
        /\ clash' = clash \cup (Touched(t) \cap Reading(Calls \ {c}))
    BY <1>2, <1>4 DEF CheckAccounts
  <2>2. /\ rows \cup DOMAIN seen = Touched(t) /\ place \in {"row", "write"}
        /\ place = "write" => rows = {}
        /\ \A a \in DOMAIN seen : seen[a] = payBalance[a]
    <3>1. CASE Deal[t].convert
      <4>1. DOMAIN <<>> = {}
        OBVIOUS
      <4> QED BY <3>1, <4>1
    <3>2. CASE ~ Deal[t].convert
      BY <3>2
    <3> QED BY <3>1, <3>2
  <2> HIDE DEF place, rows, seen
  <2>3. /\ call'[c].at = place /\ call'[c].rows = rows /\ call'[c].seen = seen /\ call'[c].tx = t
        /\ \A d \in Calls : d # c => call'[d] = call[d]
    <3>1. PICK v : v = call[c]
      OBVIOUS
    <3>2. Shape(v) /\ v.tx = t
      BY <1>2, <3>1 DEF PayInv, PayTypes, CallTyped
    <3>3. /\ call'[c] = [v EXCEPT !.at = place, !.rows = rows, !.seen = seen]
          /\ \A d \in Calls : d # c => call'[d] = call[d]
      BY <2>1, <3>1 DEF PayInv, PayTypes
    <3>4. call'[c].at = place
      BY <3>2, <3>3 DEF Shape
    <3>5. call'[c].rows = rows
      BY <3>2, <3>3 DEF Shape
    <3>6. call'[c].seen = seen
      BY <3>2, <3>3 DEF Shape
    <3>7. call'[c].tx = t
      BY <3>2, <3>3 DEF Shape
    <3> QED BY <3>3, <3>4, <3>5, <3>6, <3>7
  <2>4. \A d \in Calls : OpenRows(d)'
    <3>1. OpenRows(c)'
      <4>1. \A a \in PayAccounts : payBalance[a] \in Int
        BY DEF BooksInv
      <4> QED BY <2>2, <2>3, <4>1 DEF OpenRows, Touched, BankLegs
    <3>2. \A d \in Calls : d # c => OpenRows(d)'
      BY <2>3 DEF BooksInv, OpenRows, Opened, Touched, BankLegs
    <3> QED BY <3>1, <3>2
  <2>5. ASSUME NEW a \in PayAccounts, a \notin clash' PROVE Undisturbed(a)' /\ Balanced(a)'
    <3>1. Undisturbed(a) /\ Balanced(a) /\ payBalance[a] \in Int /\ payBalance[a] >= 0
      BY <2>1, <2>5 DEF BooksInv, Balanced
    <3>2. \A d \in Calls : d # c => (Reads(d, a)' <=> Reads(d, a))
      BY <2>3 DEF Reads, Opened, Touched, BankLegs
    <3>3. Reads(c, a)' => a \in Touched(t) /\ \A d \in Calls : d # c => ~ Reads(d, a)
      <4>1. Touched(call[c].tx)' = Touched(t)
        BY <2>3 DEF Touched, BankLegs
      <4> QED BY <2>1, <2>5, <4>1 DEF Reads, Reading
    <3>4. payBalance[a] + Delta(t, a) >= 0
      BY <1>4, <3>1, FundableCovers
    <3>5. \A d \in Calls : Delta(call[d].tx, a)' = Delta(call'[d].tx, a)
      BY DEF Delta
    <3>6. ASSUME NEW d \in Calls, Reads(d, a)'
          PROVE  /\ payBalance[a] + Delta(call'[d].tx, a) >= 0
                 /\ a \in DOMAIN call'[d].seen => call'[d].seen[a] = payBalance[a]
      <4>1. CASE d = c
        BY <2>2, <2>3, <3>4, <4>1
      <4>2. CASE d # c
        BY <2>3, <3>1, <3>2, <3>6, <4>2 DEF Undisturbed
      <4> QED BY <4>1, <4>2
    <3>7. \A d, e \in Calls : Reads(d, a)' /\ Reads(e, a)' => d = e
      BY <3>1, <3>2, <3>3 DEF Undisturbed
    <3>8. Undisturbed(a)'
      BY <1>1, <3>5, <3>6, <3>7 DEF Undisturbed
    <3> QED BY <1>1, <3>1, <3>8, BalancedStays
  <2>6. payBalance' \in [PayAccounts -> Int]
    BY <1>1 DEF BooksInv
  <2> QED BY <2>4, <2>5, <2>6 DEF BooksInv
<1> QED BY <1>3, <1>4

\* A row of the conversion is read again.
LEMMA ReadBooks ==
  ASSUME PaymentsAssumption, PayInv, BooksInv, NEW c \in Calls, NEW a \in PayAccounts, ReadRow(c, a)
  PROVE  BooksInv'
<1> DEFINE old  == call[c].seen
           seen == [b \in {a} \cup DOMAIN old |-> IF b = a THEN payBalance[a] ELSE old[b]]
           rows == call[c].rows \ {a}
           row  == {a}
<1>1. /\ call[c].at = "row" /\ a \in call[c].rows
      /\ call' = [call EXCEPT ![c].at = "update", ![c].row = {a}, ![c].rows = @ \ {a},
                   ![c].seen = [b \in {a} \cup DOMAIN @ |-> IF b = a THEN payBalance[a] ELSE @[b]]]
      /\ UNCHANGED <<payBalance, moved, twoPhase, clash>>
  BY DEF ReadRow, At, ghosts
<1>2. /\ DOMAIN seen = {a} \cup DOMAIN call[c].seen
      /\ \A b \in DOMAIN seen : \/ seen[b] = payBalance[b]
                                \/ b \in DOMAIN call[c].seen /\ seen[b] = call[c].seen[b]
  OBVIOUS
<1>3. /\ call'[c].at = "update" /\ call'[c].rows = rows /\ call'[c].seen = seen
      /\ call'[c].tx = call[c].tx /\ \A d \in Calls : d # c => call'[d] = call[d]
  <2>1. PICK v : v = call[c]
    OBVIOUS
  <2>2. Shape(v)
    BY <2>1 DEF PayInv, PayTypes, CallTyped
  <2>3. /\ call'[c] = [v EXCEPT !.at = "update", !.row = row, !.rows = rows, !.seen = seen]
        /\ \A d \in Calls : d # c => call'[d] = call[d]
    BY <1>1, <2>1 DEF PayInv, PayTypes
  <2> HIDE DEF seen, rows, row
  <2>4. call'[c].at = "update"
    BY <2>2, <2>3 DEF Shape
  <2>5. call'[c].rows = rows
    BY <2>2, <2>3 DEF Shape
  <2>6. call'[c].seen = seen
    BY <2>2, <2>3 DEF Shape
  <2>7. call'[c].tx = v.tx
    BY <2>2, <2>3 DEF Shape
  <2> QED BY <2>1, <2>3, <2>4, <2>5, <2>6, <2>7
<1>4. OpenRows(c) /\ Opened(c)
  BY <1>1 DEF BooksInv, Opened
<1>5. Touched(call[c].tx) = (DOMAIN seen) \cup rows
  BY <1>1, <1>2, <1>4 DEF OpenRows
<1>6. \A b \in PayAccounts : b \in DOMAIN seen => seen[b] \in Int
  BY <1>2, <1>4 DEF OpenRows, BooksInv
<1> HIDE DEF seen, rows, row
<1>7. OpenRows(c)'
  BY <1>3, <1>5, <1>6 DEF OpenRows, Touched, BankLegs
<1> QED BY <1>1, <1>2, <1>3, <1>4, <1>7, RequestMoves

\* A row is updated, and locked: what has been read stays what has been read.
LEMMA UpdateBooks ==
  ASSUME PaymentsAssumption, PayInv, BooksInv, NEW c \in Calls, UpdateRow(c)
  PROVE  BooksInv'
<1> DEFINE place == IF call[c].rows = {} THEN "write" ELSE "row"
           locked == call[c].locked \cup call[c].row
<1>1. /\ call[c].at = "update"
      /\ call' = [call EXCEPT ![c].at = place, ![c].locked = @ \cup call[c].row, ![c].row = {}]
      /\ UNCHANGED <<payBalance, moved, twoPhase, clash>>
  BY DEF UpdateRow, At, ghosts
<1>2. /\ call'[c].at = place /\ call'[c].rows = call[c].rows /\ call'[c].seen = call[c].seen
      /\ call'[c].tx = call[c].tx /\ \A d \in Calls : d # c => call'[d] = call[d]
  <2>1. PICK v : v = call[c]
    OBVIOUS
  <2>2. Shape(v)
    BY <2>1 DEF PayInv, PayTypes, CallTyped
  <2>3. /\ call'[c] = [v EXCEPT !.at = place, !.locked = locked, !.row = {}]
        /\ \A d \in Calls : d # c => call'[d] = call[d]
    BY <1>1, <2>1 DEF PayInv, PayTypes
  <2> HIDE DEF place, locked
  <2>4. call'[c].at = place
    BY <2>2, <2>3 DEF Shape
  <2>5. call'[c].rows = v.rows
    BY <2>2, <2>3 DEF Shape
  <2>6. call'[c].seen = v.seen
    BY <2>2, <2>3 DEF Shape
  <2>7. call'[c].tx = v.tx
    BY <2>2, <2>3 DEF Shape
  <2> QED BY <2>1, <2>3, <2>4, <2>5, <2>6, <2>7
<1>3. OpenRows(c) /\ Opened(c)
  BY <1>1 DEF BooksInv, Opened
<1>4. OpenRows(c)'
  BY <1>2, <1>3 DEF OpenRows, Touched, BankLegs
<1>5. \A b \in DOMAIN call'[c].seen : b \in DOMAIN call[c].seen /\ call'[c].seen[b] = call[c].seen[b]
  BY <1>2
<1> HIDE DEF place, locked
<1> QED BY <1>1, <1>2, <1>3, <1>4, <1>5, RequestMoves

\* The rows are written back as they were read, and changed: nobody else has
\* changed them in the meantime, or they are in clash.
LEMMA CommitBooks ==
  ASSUME PaymentsAssumption, PayInv, PayInv', BooksInv, NEW c \in Calls, CommitTx(c)
  PROVE  BooksInv'
<1>1. call[c].at = "write" /\ Return(c) /\ UNCHANGED <<twoPhase, clash>>
  BY DEF CommitTx, At
<1>2. PICK t \in Txs : t = call[c].tx
  BY <1>1 DEF PayInv, PayTypes, CallTyped
<1>3. /\ payBalance' = [a \in PayAccounts |-> IF a \in DOMAIN call[c].seen
                          THEN call[c].seen[a] + Delta(t, a) ELSE payBalance[a]]
      /\ moved' = [moved EXCEPT ![t] = @ + 1]
  BY <1>2 DEF CommitTx
<1>4. DOMAIN call[c].seen = Touched(t) /\ Opened(c)
  BY <1>1, <1>2 DEF BooksInv, OpenRows, Opened
<1>5. call'[c] = Idle /\ \A d \in Calls : d # c => call'[d] = call[d]
  BY <1>1 DEF Return, PayInv, PayTypes
<1>6. ~ Opened(c)' /\ \A d \in Calls : Opened(d)' => d # c /\ Opened(d) /\ call'[d] = call[d]
  BY <1>5 DEF Opened, Idle
<1>7. \A d \in Calls : OpenRows(d)'
  BY <1>6 DEF BooksInv, OpenRows, Touched, BankLegs
<1>8. ASSUME NEW a \in PayAccounts, a \notin clash'
      PROVE  Undisturbed(a)' /\ Balanced(a)'
  <2>1. Undisturbed(a) /\ Balanced(a) /\ payBalance[a] \in Int /\ payBalance[a] >= 0
    BY <1>1, <1>8 DEF BooksInv, Balanced
  <2>2. a \in Touched(t) => /\ call[c].seen[a] = payBalance[a] /\ payBalance[a] + Delta(t, a) >= 0
                            /\ \A d \in Calls : Reads(d, a) => d = c
    BY <1>2, <1>4, <2>1 DEF Undisturbed, Reads
  <2>3. payBalance'[a] = payBalance[a] + Delta(t, a) /\ payBalance'[a] >= 0
    <3>1. CASE a \in Touched(t)
      BY <1>3, <1>4, <2>2, <3>1
    <3>2. CASE a \notin Touched(t)
      BY <1>3, <1>4, <2>1, <3>2, DeltaElsewhere
    <3> QED BY <3>1, <3>2
  <2>4. a \notin Touched(t) => payBalance'[a] = payBalance[a]
    BY <2>1, <2>3, DeltaElsewhere
  <2>5. \A d \in Calls : Reads(d, a)' => d # c /\ Reads(d, a) /\ call'[d] = call[d]
    BY <1>6 DEF Reads, Touched, BankLegs
  <2>6. \A d \in Calls : Delta(call[d].tx, a)' = Delta(call'[d].tx, a)
    BY DEF Delta
  <2>7. ASSUME NEW d \in Calls, Reads(d, a)'
        PROVE  /\ payBalance'[a] + Delta(call'[d].tx, a) >= 0
               /\ a \in DOMAIN call'[d].seen => call'[d].seen[a] = payBalance'[a]
    BY <2>1, <2>2, <2>4, <2>5, <2>7 DEF Undisturbed
  <2>8. Undisturbed(a)'
    BY <2>1, <2>5, <2>6, <2>7 DEF Undisturbed
  <2>9. \A u \in Txs : u # t => moved'[u] = moved[u] /\ twoPhase'[u] = twoPhase[u]
    BY <1>1, <1>3 DEF PayInv, PayTypes
  <2>10. payBalance'[a] = payBalance[a] - Booked(t, a) + Booked(t, a)'
    <3>1. moved'[t] = moved[t] + 1 /\ twoPhase'[t] = twoPhase[t] /\ Delta(t, a)' = Delta(t, a)
      BY <1>1, <1>3 DEF PayInv, PayTypes, Delta
    <3>2. PICK m \in Int, n \in Int : m = moved[t] /\ n = Delta(t, a)
      BY DeltaType DEF PayInv, PayTypes
    <3>3. PICK r \in Int : r = IF Deal[t].payer = a THEN twoPhase[t] * Deal[t].start ELSE 0
      BY DealFields DEF PayInv, PayTypes
    <3>4. Booked(t, a) = m * n - r /\ Booked(t, a)' = (m + 1) * n - r
      BY <3>1, <3>2, <3>3 DEF Booked
    <3>5. (m + 1) * n = m * n + n /\ m * n \in Int
      BY <3>2
    <3> QED BY <2>1, <2>3, <3>2, <3>3, <3>4, <3>5
  <2>11. PayTypes /\ PayTypes'
    BY DEF PayInv
  <2> QED BY <2>1, <2>3, <2>8, <2>9, <2>10, <2>11, BalancedMoves
<1>9. payBalance' \in [PayAccounts -> Int]
  <2> SUFFICES ASSUME NEW a \in PayAccounts PROVE payBalance'[a] \in Int
    BY <1>3
  <2>1. CASE a \in DOMAIN call[c].seen
    <3>1. call[c].seen[a] \in Int /\ Delta(t, a) \in Int
      BY <1>4, <2>1, DeltaType DEF BooksInv, OpenRows
    <3> QED BY <1>3, <2>1, <3>1
  <2>2. CASE a \notin DOMAIN call[c].seen
    BY <1>3, <2>2 DEF BooksInv
  <2> QED BY <2>1, <2>2
<1> QED BY <1>7, <1>8, <1>9 DEF BooksInv

-----------------------------------------------------------------------------
LEMMA BooksStep ==
  PaymentsAssumption /\ PayInv /\ PayInv' /\ BooksInv /\ [PaymentsNext]_payVars => BooksInv'
<1> SUFFICES ASSUME PaymentsAssumption, PayInv, PayInv', BooksInv, [PaymentsNext]_payVars
             PROVE  BooksInv'
  OBVIOUS
<1>1. CASE \E t \in Txs : CreatePayment(t)
  <2>1. UNCHANGED <<payBalance, call, moved, twoPhase, clash>>
    BY <1>1 DEF CreatePayment, ghosts
  <2> QED BY <2>1, RestMoves
<1>2. CASE \E t \in Txs, success \in BOOLEAN : FinalizeInterbankPayment(t, success)
  BY <1>2, FinalizeBooks
<1>3. CASE \E c \in Calls, t \in Txs : CreateAndProcess(c, t) \/ ExecuteTransfer(c, t) \/ Verify(c, t)
  BY <1>3, QuietBooks
<1>4. ASSUME NEW c \in Calls,
             \/ RightCode(c) \/ WrongCode(c) \/ RejectTx(c) \/ Process(c)
             \/ BeginTx(c) \/ CheckAccounts(c) \/ UpdateRow(c) \/ CommitTx(c) \/ Abort(c)
      PROVE  BooksInv'
  BY <1>4, QuietBooks, CheckBooks, UpdateBooks, CommitBooks
<1>5. CASE \E c \in Calls, started \in BOOLEAN, answered \in BOOLEAN : SendInterbank(c, started, answered)
  BY <1>5, SendBooks
<1>6. CASE \E c \in Calls, a \in PayAccounts : ReadRow(c, a)
  BY <1>6, ReadBooks
<1>7. CASE UNCHANGED payVars
  <2>1. UNCHANGED <<payBalance, call, moved, twoPhase, clash>>
    BY <1>7 DEF payVars, ghosts
  <2> QED BY <2>1, RestMoves
<1> QED BY <1>1, <1>2, <1>3, <1>4, <1>5, <1>6, <1>7 DEF PaymentsNext

\* Every account that no two database transactions have read together holds its
\* opening balance and what the executed transactions moved, less what is
\* reserved at interbank-service, and is not overdrawn: for any accounts,
\* transactions, conversions, limits and number of requests at a time.
THEOREM BooksAlwaysBalance == PaymentsAssumption => (PaymentsSpec => []BooksBalance)
<1> SUFFICES ASSUME PaymentsAssumption PROVE PaymentsSpec => []BooksBalance
  OBVIOUS
<1>1. PaymentsInit => BooksInv
  BY BooksInit
<1>2. PayInv /\ PayInv' /\ BooksInv /\ [PaymentsNext]_payVars => BooksInv'
  BY BooksStep
<1>3. BooksInv => BooksBalance
  BY DEF BooksInv, BooksBalance, Balanced, BookedOn, Booked
<1>4. PaymentsSpec => []PayInv
  BY PayInvariant
<1> QED BY <1>1, <1>2, <1>3, <1>4, PTL DEF PaymentsSpec

-----------------------------------------------------------------------------
(* InterbankCash *)

RequestOps    == {"Prepare", "Commit", "Rollback"}
RequestPlaces == {"idle", "posting", "account"}

PostingRows == {NoRow} \cup [status : {"PREPARED", "COMMITTED", "ROLLED_BACK"},
                      account : CashAccounts, amount : Int, request : RequestSet]

RequestViews == [at : RequestPlaces, op : RequestOps, id : Postings \cup {NoPosting}, read : PostingRows,
          account : CashAccounts \cup {NoAccount}, balance : Int, available : Int]

CashTypes ==
    /\ posting \in [Postings -> PostingRows]
    /\ cashBalance \in [CashAccounts -> Int] /\ cashAvailable \in [CashAccounts -> Int]
    /\ request \in [CashCalls -> RequestViews]
    /\ \A c \in CashCalls :
         /\ request[c].at # "idle" => request[c].id \in Postings
         /\ request[c].at = "account" => request[c].account \in CashAccounts
    /\ settled \in [Postings -> Nat] /\ recorded \in [Postings -> Nat]
    /\ repeated \subseteq Postings /\ cashClash \subseteq CashAccounts

\* One request at most works with a posting, and has seen it as it is.
ViewMatches(k) ==
    /\ \A c, d \in CashCalls : request[c].id = k /\ request[d].id = k => c = d
    /\ \A c \in CashCalls : request[c].id = k => request[c].read = posting[k]

SettledMatches(k) ==
    /\ settled[k] = IF posting[k].status = "COMMITTED" THEN 1 ELSE 0
    /\ recorded[k] = IF settled[k] = 0 \/ posting[k].request.initiator THEN 0 ELSE 1

CashInv == CashTypes /\ \A k \in Postings \ repeated : ViewMatches(k) /\ SettledMatches(k)

-----------------------------------------------------------------------------
LEMMA IdleRequestTyped == IdleRequest \in RequestViews /\ NoRow \in PostingRows
BY DEF IdleRequest, RequestViews, NoRow, PostingRows, RequestOps, RequestPlaces

LEMMA CashInit == CashAssumption /\ CashPostingsInit => CashInv
<1> SUFFICES ASSUME CashAssumption, CashPostingsInit PROVE CashInv
  OBVIOUS
<1>1. CashTypes
  <2>1. cashBalance \in [CashAccounts -> Int] /\ cashAvailable \in [CashAccounts -> Int]
    BY DEF CashPostingsInit, CashAssumption
  <2>2. posting \in [Postings -> PostingRows] /\ request \in [CashCalls -> RequestViews]
    BY IdleRequestTyped DEF CashPostingsInit
  <2> QED BY <2>1, <2>2 DEF CashPostingsInit, CashTypes, IdleRequest
<1>2. ASSUME NEW k \in Postings PROVE ViewMatches(k) /\ SettledMatches(k)
  <2>1. \A c \in CashCalls : request[c].id # k
    BY DEF CashPostingsInit, IdleRequest, CashAssumption
  <2> QED BY <2>1 DEF CashPostingsInit, ViewMatches, SettledMatches, NoRow
<1> QED BY <1>1, <1>2 DEF CashInv

LEMMA ReadPostingStep ==
  ASSUME CashInv, NEW c \in CashCalls, NEW k \in Postings, NEW op \in RequestOps, ReadPosting(c, k, op)
  PROVE  CashInv'
<1> DEFINE view == [IdleRequest EXCEPT !.at = "posting", !.op = op, !.id = k, !.read = posting[k]]
<1>1. /\ request' = [request EXCEPT ![c] = view]
      /\ repeated' = IF \E d \in CashCalls : request[d].id = k THEN repeated \cup {k} ELSE repeated
      /\ UNCHANGED <<posting, cashBalance, cashAvailable, settled, recorded, cashClash>>
  BY DEF ReadPosting
<1>2. view \in RequestViews /\ view.at = "posting" /\ view.id = k /\ view.read = posting[k]
  <2>1. IdleRequest \in RequestViews /\ posting[k] \in PostingRows
    BY IdleRequestTyped DEF CashInv, CashTypes
  <2> QED BY <2>1 DEF RequestViews, RequestPlaces
<1> HIDE DEF view
<1>3. CashTypes'
  <2>1. request' \in [CashCalls -> RequestViews]
    BY <1>1, <1>2 DEF CashInv, CashTypes
  <2>2. ASSUME NEW d \in CashCalls
        PROVE  /\ request'[d].at # "idle" => request'[d].id \in Postings
               /\ request'[d].at = "account" => request'[d].account \in CashAccounts
    BY <1>1, <1>2 DEF CashInv, CashTypes
  <2> QED BY <1>1, <2>1, <2>2 DEF CashInv, CashTypes
<1>4. ASSUME NEW j \in Postings, j \notin repeated' PROVE ViewMatches(j)' /\ SettledMatches(j)'
  <2>1. j \notin repeated /\ ViewMatches(j) /\ SettledMatches(j)
    BY <1>1, <1>4 DEF CashInv
  <2>2. j = k => \A d \in CashCalls : request[d].id # j
    BY <1>1, <1>4
  <2>3. \A d \in CashCalls : request'[d] = IF d = c THEN view ELSE request[d]
    BY <1>1 DEF CashInv, CashTypes
  <2>4. ViewMatches(j)'
    BY <1>1, <1>2, <2>1, <2>2, <2>3 DEF ViewMatches
  <2> QED BY <1>1, <2>1, <2>4 DEF SettledMatches
<1> QED BY <1>3, <1>4 DEF CashInv

LEMMA ReadAccountStep ==
  ASSUME CashInv, NEW c \in CashCalls, NEW a \in CashAccounts, ReadAccount(c, a)
  PROVE  CashInv'
<1> DEFINE view == [request[c] EXCEPT !.at = "account", !.account = a,
                      !.balance = cashBalance[a], !.available = cashAvailable[a]]
<1>1. /\ request[c].at = "posting" /\ request' = [request EXCEPT ![c] = view]
      /\ UNCHANGED <<posting, cashBalance, cashAvailable, settled, recorded, repeated>>
      /\ cashClash' \subseteq cashClash \cup {a}
  BY DEF ReadAccount, RequestAt
<1>2. /\ view \in RequestViews /\ view.at = "account" /\ view.account = a
      /\ view.id = request[c].id /\ view.read = request[c].read
  BY DEF CashInv, CashTypes, RequestViews, RequestPlaces
<1> HIDE DEF view
<1>3. CashTypes'
  <2>1. request' \in [CashCalls -> RequestViews]
    BY <1>1, <1>2 DEF CashInv, CashTypes
  <2>2. ASSUME NEW d \in CashCalls
        PROVE  /\ request'[d].at # "idle" => request'[d].id \in Postings
               /\ request'[d].at = "account" => request'[d].account \in CashAccounts
    BY <1>1, <1>2 DEF CashInv, CashTypes
  <2>3. cashClash' \subseteq CashAccounts
    BY <1>1 DEF CashInv, CashTypes
  <2> QED BY <1>1, <2>1, <2>2, <2>3 DEF CashInv, CashTypes
<1>4. \A d \in CashCalls : request'[d].id = request[d].id /\ request'[d].read = request[d].read
  BY <1>1, <1>2 DEF CashInv, CashTypes
<1>5. \A k \in Postings \ repeated : ViewMatches(k)' /\ SettledMatches(k)'
  BY <1>1, <1>4 DEF CashInv, ViewMatches, SettledMatches
<1> QED BY <1>1, <1>3, <1>5 DEF CashInv

\* A request that ends, and has written at most the posting it has read.
LEMMA WriteKeeps ==
  ASSUME CashInv, NEW c \in CashCalls, ReturnRequest(c), UNCHANGED <<repeated, cashClash>>,
         cashBalance' \in [CashAccounts -> Int], cashAvailable' \in [CashAccounts -> Int],
         posting' \in [Postings -> PostingRows], settled' \in [Postings -> Nat], recorded' \in [Postings -> Nat],
         \A k \in Postings : k # request[c].id =>
           posting'[k] = posting[k] /\ settled'[k] = settled[k] /\ recorded'[k] = recorded[k],
         \A k \in Postings \ repeated : k = request[c].id => SettledMatches(k)',
         CashAssumption
  PROVE  CashInv'
<1>1. \A d \in CashCalls : request'[d] = IF d = c THEN IdleRequest ELSE request[d]
  BY DEF ReturnRequest, CashInv, CashTypes
<1>2. CashTypes'
  <2>1. request' \in [CashCalls -> RequestViews]
    BY IdleRequestTyped DEF ReturnRequest, CashInv, CashTypes
  <2>2. \A d \in CashCalls : /\ request'[d].at # "idle" => request'[d].id \in Postings
                             /\ request'[d].at = "account" => request'[d].account \in CashAccounts
    BY <1>1 DEF CashInv, CashTypes, IdleRequest
  <2> QED BY <2>1, <2>2 DEF CashInv, CashTypes
<1>3. ASSUME NEW k \in Postings, k \notin repeated PROVE ViewMatches(k)' /\ SettledMatches(k)'
  <2>1. ViewMatches(k) /\ SettledMatches(k)
    BY <1>3 DEF CashInv
  <2>2. IdleRequest.id # k
    BY DEF IdleRequest, CashAssumption
  <2>3. CASE k # request[c].id
    BY <1>1, <2>1, <2>2, <2>3 DEF ViewMatches, SettledMatches
  <2>4. CASE k = request[c].id
    <3>1. \A d \in CashCalls : request'[d].id # k
      BY <1>1, <2>1, <2>2, <2>4 DEF ViewMatches
    <3> QED BY <1>3, <2>4, <3>1 DEF ViewMatches
  <2> QED BY <2>3, <2>4
<1> QED BY <1>2, <1>3 DEF CashInv

\* What the request has written of the account is a number.
LEMMA AccountWritten ==
  ASSUME CashInv, NEW c \in CashCalls, NEW n \in Int, NEW m \in Int, WriteAccount(c, n, m)
  PROVE  cashBalance' \in [CashAccounts -> Int] /\ cashAvailable' \in [CashAccounts -> Int]
<1>1. request[c].balance + n \in Int /\ request[c].available + m \in Int
  BY DEF CashInv, CashTypes, RequestViews
<1> QED BY <1>1 DEF WriteAccount, CashInv, CashTypes

LEMMA RowTyped ==
  ASSUME NEW row \in PostingRows, row.status # "NONE", NEW s \in {"PREPARED", "COMMITTED", "ROLLED_BACK"}
  PROVE  /\ [row EXCEPT !.status = s] \in PostingRows /\ [row EXCEPT !.status = s].status = s
         /\ [row EXCEPT !.status = s].request = row.request
         /\ row.amount \in Int
BY DEF PostingRows, NoRow

LEMMA PrepareNewStep ==
  ASSUME CashAssumption, CashInv, NEW c \in CashCalls, NEW r \in PrepareRequests, NEW rate \in Rates,
         PrepareNew(c, r, rate)
  PROVE  CashInv'
<1> DEFINE k == request[c].id
           amount == Resolved(r, request[c].account, rate)
           row == [status |-> "PREPARED", account |-> request[c].account, amount |-> amount, request |-> r]
<1>1. /\ request[c].at = "account" /\ posting[k].status = "NONE" /\ posting' = [posting EXCEPT ![k] = row]
      /\ IF amount < 0 THEN WriteAccount(c, 0, amount) ELSE UNCHANGED <<cashBalance, cashAvailable>>
      /\ ReturnRequest(c) /\ UNCHANGED <<settled, recorded, repeated, cashClash>>
  BY DEF PrepareNew, RequestAt
<1>2. k \in Postings /\ request[c].account \in CashAccounts
  BY <1>1 DEF CashInv, CashTypes
<1>3. amount \in Int
  <2>1. r.amount \in Int /\ rate \in Int
    BY DEF CashAssumption, RequestSet
  <2> QED BY <2>1 DEF Resolved
<1>4. row \in PostingRows /\ row.status = "PREPARED"
  BY <1>2, <1>3 DEF PostingRows, CashAssumption
<1> HIDE DEF row, amount
<1>5. cashBalance' \in [CashAccounts -> Int] /\ cashAvailable' \in [CashAccounts -> Int]
  <2>1. CASE amount < 0
    BY <1>1, <1>3, <2>1, AccountWritten
  <2>2. CASE ~ amount < 0
    BY <1>1, <2>2 DEF CashInv, CashTypes
  <2> QED BY <2>1, <2>2
<1>6. posting' \in [Postings -> PostingRows] /\ posting'[k] = row /\ \A j \in Postings : j # k => posting'[j] = posting[j]
  BY <1>1, <1>2, <1>4 DEF CashInv, CashTypes
<1>7. ASSUME NEW j \in Postings \ repeated, j = k PROVE SettledMatches(j)'
  <2>1. SettledMatches(j)
    BY DEF CashInv
  <2> QED BY <1>1, <1>4, <1>6, <1>7, <2>1 DEF SettledMatches
<1>8. settled' \in [Postings -> Nat] /\ recorded' \in [Postings -> Nat]
  BY <1>1 DEF CashInv, CashTypes
<1> QED BY <1>1, <1>5, <1>6, <1>7, <1>8, WriteKeeps

LEMMA PrepareAgainStep ==
  ASSUME CashAssumption, CashInv, NEW c \in CashCalls, NEW r \in PrepareRequests, PrepareAgain(c, r)
  PROVE  CashInv'
<1> DEFINE k == request[c].id
           row == request[c].read
           new == [row EXCEPT !.status = "PREPARED"]
<1>1. /\ request[c].at = "account" /\ row.status = "ROLLED_BACK" /\ posting' = [posting EXCEPT ![k] = new]
      /\ IF row.amount < 0 THEN WriteAccount(c, 0, row.amount) ELSE UNCHANGED <<cashBalance, cashAvailable>>
      /\ ReturnRequest(c) /\ UNCHANGED <<settled, recorded, repeated, cashClash>>
  BY DEF PrepareAgain, RequestAt, WritePosting
<1>2. k \in Postings /\ row \in PostingRows
  BY <1>1 DEF CashInv, CashTypes, RequestViews
<1>3. new \in PostingRows /\ new.status = "PREPARED" /\ row.amount \in Int
  BY <1>1, <1>2, RowTyped
<1> HIDE DEF new
<1>4. cashBalance' \in [CashAccounts -> Int] /\ cashAvailable' \in [CashAccounts -> Int]
  <2>1. CASE row.amount < 0
    BY <1>1, <1>3, <2>1, AccountWritten
  <2>2. CASE ~ row.amount < 0
    BY <1>1, <2>2 DEF CashInv, CashTypes
  <2> QED BY <2>1, <2>2
<1>5. posting' \in [Postings -> PostingRows] /\ posting'[k] = new /\ \A j \in Postings : j # k => posting'[j] = posting[j]
  BY <1>1, <1>2, <1>3 DEF CashInv, CashTypes
<1>6. ASSUME NEW j \in Postings \ repeated, j = k PROVE SettledMatches(j)'
  <2>1. SettledMatches(j) /\ row = posting[j]
    BY <1>6 DEF CashInv, ViewMatches
  <2> QED BY <1>1, <1>3, <1>5, <1>6, <2>1 DEF SettledMatches
<1>7. settled' \in [Postings -> Nat] /\ recorded' \in [Postings -> Nat]
  BY <1>1 DEF CashInv, CashTypes
<1> QED BY <1>1, <1>4, <1>5, <1>6, <1>7, WriteKeeps

LEMMA CommitPostingStep ==
  ASSUME CashAssumption, CashInv, NEW c \in CashCalls, CommitPosting(c)
  PROVE  CashInv'
<1> DEFINE k == request[c].id
           row == request[c].read
           new == [row EXCEPT !.status = "COMMITTED"]
<1>1. /\ request[c].at = "account" /\ row.status = "PREPARED" /\ posting' = [posting EXCEPT ![k] = new]
      /\ WriteAccount(c, row.amount, IF row.amount < 0 THEN 0 ELSE row.amount)
      /\ settled' = [settled EXCEPT ![k] = @ + 1]
      /\ recorded' = [recorded EXCEPT ![k] = IF row.request.initiator THEN @ ELSE @ + 1]
      /\ ReturnRequest(c) /\ UNCHANGED <<repeated, cashClash>>
  BY DEF CommitPosting, RequestAt, WritePosting
<1>2. k \in Postings /\ row \in PostingRows
  BY <1>1 DEF CashInv, CashTypes, RequestViews
<1>3. /\ new \in PostingRows /\ new.status = "COMMITTED" /\ new.request = row.request
      /\ row.amount \in Int
  BY <1>1, <1>2, RowTyped
<1> HIDE DEF new
<1>4. cashBalance' \in [CashAccounts -> Int] /\ cashAvailable' \in [CashAccounts -> Int]
  BY <1>1, <1>3, AccountWritten
<1>5. posting' \in [Postings -> PostingRows] /\ posting'[k] = new /\ \A j \in Postings : j # k => posting'[j] = posting[j]
  BY <1>1, <1>2, <1>3 DEF CashInv, CashTypes
<1>6. /\ settled' \in [Postings -> Nat] /\ recorded' \in [Postings -> Nat]
      /\ settled'[k] = settled[k] + 1
      /\ recorded'[k] = IF row.request.initiator THEN recorded[k] ELSE recorded[k] + 1
      /\ \A j \in Postings : j # k => settled'[j] = settled[j] /\ recorded'[j] = recorded[j]
  BY <1>1, <1>2 DEF CashInv, CashTypes
<1>7. ASSUME NEW j \in Postings \ repeated, j = k PROVE SettledMatches(j)'
  <2>1. SettledMatches(j) /\ row = posting[j]
    BY <1>7 DEF CashInv, ViewMatches
  <2>2. settled[k] = 0 /\ recorded[k] = 0
    BY <1>1, <1>7, <2>1 DEF SettledMatches
  <2> QED BY <1>3, <1>5, <1>6, <1>7, <2>2 DEF SettledMatches
<1> QED BY <1>1, <1>4, <1>5, <1>6, <1>7, WriteKeeps

LEMMA RollbackStep ==
  ASSUME CashAssumption, CashInv, NEW c \in CashCalls, RollbackPosting(c)
  PROVE  CashInv'
<1> DEFINE k == request[c].id
           row == request[c].read
           new == [row EXCEPT !.status = "ROLLED_BACK"]
<1>1. /\ request[c].at = "account" /\ row.status = "PREPARED" /\ posting' = [posting EXCEPT ![k] = new]
      /\ IF row.amount < 0 THEN WriteAccount(c, 0, -row.amount) ELSE UNCHANGED <<cashBalance, cashAvailable>>
      /\ ReturnRequest(c) /\ UNCHANGED <<settled, recorded, repeated, cashClash>>
  BY DEF RollbackPosting, RequestAt, WritePosting
<1>2. k \in Postings /\ row \in PostingRows
  BY <1>1 DEF CashInv, CashTypes, RequestViews
<1>3. new \in PostingRows /\ new.status = "ROLLED_BACK" /\ row.amount \in Int
  BY <1>1, <1>2, RowTyped
<1> HIDE DEF new
<1>4. cashBalance' \in [CashAccounts -> Int] /\ cashAvailable' \in [CashAccounts -> Int]
  <2>1. CASE row.amount < 0
    <3>1. PICK m \in Int : m = -row.amount
      BY <1>3
    <3>2. WriteAccount(c, 0, m)
      BY <1>1, <2>1, <3>1
    <3> QED BY <3>2, AccountWritten
  <2>2. CASE ~ row.amount < 0
    BY <1>1, <2>2 DEF CashInv, CashTypes
  <2> QED BY <2>1, <2>2
<1>5. posting' \in [Postings -> PostingRows] /\ posting'[k] = new /\ \A j \in Postings : j # k => posting'[j] = posting[j]
  BY <1>1, <1>2, <1>3 DEF CashInv, CashTypes
<1>6. ASSUME NEW j \in Postings \ repeated, j = k PROVE SettledMatches(j)'
  <2>1. SettledMatches(j) /\ row = posting[j]
    BY <1>6 DEF CashInv, ViewMatches
  <2> QED BY <1>1, <1>3, <1>5, <1>6, <2>1 DEF SettledMatches
<1>7. settled' \in [Postings -> Nat] /\ recorded' \in [Postings -> Nat]
  BY <1>1 DEF CashInv, CashTypes
<1> QED BY <1>1, <1>4, <1>5, <1>6, <1>7, WriteKeeps

LEMMA SaveUnchangedStep ==
  ASSUME CashAssumption, CashInv, NEW c \in CashCalls, SaveUnchanged(c)
  PROVE  CashInv'
<1> DEFINE k == request[c].id
           row == request[c].read
           new == [row EXCEPT !.status = row.status]
<1>1. /\ request[c].at = "account" /\ row.status \in {"COMMITTED", "ROLLED_BACK"}
      /\ posting' = [posting EXCEPT ![k] = new]
      /\ ReturnRequest(c) /\ UNCHANGED <<cashBalance, cashAvailable, settled, recorded, repeated, cashClash>>
  BY DEF SaveUnchanged, RequestAt, WritePosting
<1>2. k \in Postings /\ row \in PostingRows
  BY <1>1 DEF CashInv, CashTypes, RequestViews
<1>3. new \in PostingRows /\ new.status = row.status /\ new.request = row.request
  <2>1. PICK s \in {"PREPARED", "COMMITTED", "ROLLED_BACK"} : s = row.status /\ s # "NONE"
    BY <1>1
  <2>2. [row EXCEPT !.status = s] \in PostingRows /\ [row EXCEPT !.status = s].status = s
        /\ [row EXCEPT !.status = s].request = row.request
    BY <1>2, <2>1, RowTyped
  <2> QED BY <2>1, <2>2
<1> HIDE DEF new
<1>4. posting' \in [Postings -> PostingRows] /\ posting'[k] = new /\ \A j \in Postings : j # k => posting'[j] = posting[j]
  BY <1>1, <1>2, <1>3 DEF CashInv, CashTypes
<1>5. ASSUME NEW j \in Postings \ repeated, j = k PROVE SettledMatches(j)'
  <2>1. SettledMatches(j) /\ row = posting[j]
    BY <1>5 DEF CashInv, ViewMatches
  <2> QED BY <1>1, <1>3, <1>4, <1>5, <2>1 DEF SettledMatches
<1>6. /\ settled' \in [Postings -> Nat] /\ recorded' \in [Postings -> Nat]
      /\ cashBalance' \in [CashAccounts -> Int] /\ cashAvailable' \in [CashAccounts -> Int]
  BY <1>1 DEF CashInv, CashTypes
<1> QED BY <1>1, <1>4, <1>5, <1>6, WriteKeeps

LEMMA EndStep ==
  ASSUME CashAssumption, CashInv, NEW c \in CashCalls, EndRequest(c)
  PROVE  CashInv'
<1>1. ReturnRequest(c) /\ UNCHANGED <<posting, cashBalance, cashAvailable, settled, recorded, repeated, cashClash>>
  BY DEF EndRequest
<1>2. /\ posting' \in [Postings -> PostingRows]
      /\ settled' \in [Postings -> Nat] /\ recorded' \in [Postings -> Nat]
      /\ cashBalance' \in [CashAccounts -> Int] /\ cashAvailable' \in [CashAccounts -> Int]
  BY <1>1 DEF CashInv, CashTypes
<1>3. \A k \in Postings \ repeated : SettledMatches(k)'
  BY <1>1 DEF CashInv, SettledMatches
<1> QED BY <1>1, <1>2, <1>3, WriteKeeps

-----------------------------------------------------------------------------
LEMMA CashStep == CashAssumption /\ CashInv /\ [CashPostingsNext]_cashVars => CashInv'
<1> SUFFICES ASSUME CashAssumption, CashInv, [CashPostingsNext]_cashVars PROVE CashInv'
  OBVIOUS
<1>1. ASSUME NEW c \in CashCalls,
             \E k \in Postings, op \in {"Prepare", "Commit", "Rollback"} : ReadPosting(c, k, op)
      PROVE  CashInv'
  BY <1>1, ReadPostingStep DEF RequestOps
<1>2. ASSUME NEW c \in CashCalls, \E a \in CashAccounts : ReadAccount(c, a) PROVE CashInv'
  BY <1>2, ReadAccountStep
<1>3. ASSUME NEW c \in CashCalls, \E r \in PrepareRequests, rate \in Rates : PrepareNew(c, r, rate) PROVE CashInv'
  BY <1>3, PrepareNewStep
<1>4. ASSUME NEW c \in CashCalls, \E r \in PrepareRequests : PrepareAgain(c, r) PROVE CashInv'
  BY <1>4, PrepareAgainStep
<1>5. ASSUME NEW c \in CashCalls, CommitPosting(c) \/ RollbackPosting(c) \/ SaveUnchanged(c) \/ EndRequest(c) PROVE CashInv'
  BY <1>5, CommitPostingStep, RollbackStep, SaveUnchangedStep, EndStep
<1>6. CASE UNCHANGED cashVars
  <2>1. UNCHANGED <<posting, cashBalance, cashAvailable, request, settled, recorded, repeated, cashClash>>
    BY <1>6 DEF cashVars
  <2>2. CashTypes'
    BY <2>1 DEF CashInv, CashTypes
  <2>3. \A k \in Postings \ repeated : ViewMatches(k)' /\ SettledMatches(k)'
    BY <2>1 DEF CashInv, ViewMatches, SettledMatches
  <2> QED BY <2>1, <2>2, <2>3 DEF CashInv
<1> QED BY <1>1, <1>2, <1>3, <1>4, <1>5, <1>6 DEF CashPostingsNext

\* The view of a request that met no other one at its posting is the posting, for
\* any postings, accounts, rates and number of requests at a time.
THEOREM CashInvariant == CashAssumption => (CashPostingsSpec => []CashInv)
<1> SUFFICES ASSUME CashAssumption PROVE CashPostingsSpec => []CashInv
  OBVIOUS
<1>1. CashPostingsInit => CashInv
  BY CashInit
<1>2. CashInv /\ [CashPostingsNext]_cashVars => CashInv'
  BY CashStep
<1> QED BY <1>1, <1>2, PTL DEF CashPostingsSpec

\* A posting that no two requests worked at together moves the balance when it is
\* COMMITTED, once, with one payment record, however its messages are repeated.
THEOREM AlwaysSettledOnce == CashAssumption => (CashPostingsSpec => []SettledOnce)
<1> SUFFICES ASSUME CashAssumption PROVE CashPostingsSpec => []SettledOnce
  OBVIOUS
<1>1. CashInv => SettledOnce
  BY DEF CashInv, SettledMatches, SettledOnce
<1>2. CashPostingsSpec => []CashInv
  BY CashInvariant
<1> QED BY <1>1, <1>2, PTL

-----------------------------------------------------------------------------
(* The books of InterbankCash.  A request has read the balances its account   *)
(* has, unless the account is in cashClash; and a posting keeps the account it *)
(* was made for, so that what repeated postings do stays on their accounts.    *)

ReadKeeps(c) ==
    /\ request[c].account # NoAccount => request[c].at = "account"
    /\ request[c].at # "idle" /\ request[c].read.status # "NONE" =>
         /\ posting[request[c].id].status # "NONE"
         /\ posting[request[c].id].account = request[c].read.account
         /\ request[c].at = "account" => request[c].account = request[c].read.account

AccountSeen(a) ==
    /\ \A c, d \in CashCalls : request[c].account = a /\ request[d].account = a => c = d
    /\ \A c \in CashCalls : request[c].account = a =>
         request[c].balance = cashBalance[a] /\ request[c].available = cashAvailable[a]

HasRepeated(a) == \E k \in repeated : posting[k].account = a

SettledAt(k, a) == IF posting[k].account = a THEN settled[k] * posting[k].amount ELSE 0

CashBalanced(a) ==
    /\ cashBalance[a] =
         CashOpening[a] + SumFunctionOnSet([k \in Postings |-> SettledAt(k, a)], Postings)
    /\ cashAvailable[a] =
         cashBalance[a] - SumFunctionOnSet([k \in Postings |-> HeldBy(k, a)], Postings)
    /\ cashAvailable[a] >= 0

CashBooksInv ==
    /\ \A c \in CashCalls : ReadKeeps(c)
    /\ \A a \in CashAccounts \ cashClash : AccountSeen(a) /\ (~ HasRepeated(a) => CashBalanced(a))

\* Of a posting there is, the account is one of this bank.
LEMMA PostingRow ==
  ASSUME CashAssumption, NEW row \in PostingRows
  PROVE  /\ row.status = "NONE" <=> row.account = NoAccount
         /\ row.amount \in Int
         /\ row.status # "NONE" => row.account \in CashAccounts
BY DEF PostingRows, NoRow, CashAssumption

LEMMA OutgoingType ==
  ASSUME NEW n \in Int
  PROVE  /\ Outgoing(n) \in Int /\ (n < 0 => Outgoing(n) = -n) /\ (~ n < 0 => Outgoing(n) = 0)
BY DEF Outgoing

LEMMA SharesTyped ==
  ASSUME CashAssumption, CashTypes, NEW a, NEW k \in Postings
  PROVE  SettledAt(k, a) \in Int /\ HeldBy(k, a) \in Int
<1>1. posting[k].amount \in Int /\ settled[k] \in Int
  BY PostingRow DEF CashTypes
<1> QED BY <1>1, OutgoingType DEF SettledAt, HeldBy

LEMMA SharesFinite == ASSUME CashAssumption PROVE IsFiniteSet(Postings)
BY DEF CashAssumption

\* The books follow a step that changes the posting k only.
LEMMA CashBooksMove ==
  ASSUME CashAssumption, CashTypes, CashTypes', NEW a \in CashAccounts, NEW k \in Postings,
         CashBalanced(a),
         \A j \in Postings : j # k => posting'[j] = posting[j] /\ settled'[j] = settled[j],
         cashBalance'[a] = cashBalance[a] + SettledAt(k, a)' - SettledAt(k, a),
         cashBalance'[a] - cashAvailable'[a] =
           cashBalance[a] - cashAvailable[a] + HeldBy(k, a)' - HeldBy(k, a),
         cashAvailable'[a] >= 0
  PROVE  CashBalanced(a)'
<1> DEFINE s == [j \in Postings |-> SettledAt(j, a)]
           t == [j \in Postings |-> SettledAt(j, a)']
           g == [j \in Postings |-> HeldBy(j, a)]
           h == [j \in Postings |-> HeldBy(j, a)']
<1>1. s \in [Postings -> Int] /\ g \in [Postings -> Int]
  BY SharesTyped
<1>2. \A j \in Postings : SettledAt(j, a)' \in Int /\ HeldBy(j, a)' \in Int
  <2> SUFFICES ASSUME NEW j \in Postings PROVE SettledAt(j, a)' \in Int /\ HeldBy(j, a)' \in Int
    OBVIOUS
  <2>1. posting'[j].amount \in Int /\ settled'[j] \in Int
    BY PostingRow DEF CashTypes
  <2> QED BY <2>1, OutgoingType DEF SettledAt, HeldBy
<1>3. t \in [Postings -> Int] /\ h \in [Postings -> Int]
  BY <1>2
<1>4. \A j \in Postings \ {k} : s[j] = t[j] /\ g[j] = h[j]
  BY DEF SettledAt, HeldBy
<1>5. /\ s[k] = SettledAt(k, a) /\ t[k] = SettledAt(k, a)'
      /\ g[k] = HeldBy(k, a) /\ h[k] = HeldBy(k, a)'
  OBVIOUS
<1>6. /\ cashBalance[a] = CashOpening[a] + SumFunctionOnSet(s, Postings)
      /\ cashAvailable[a] = cashBalance[a] - SumFunctionOnSet(g, Postings)
  BY DEF CashBalanced
<1>7. /\ CashOpening[a] \in Int /\ cashBalance[a] \in Int /\ cashAvailable[a] \in Int
      /\ cashBalance'[a] \in Int /\ cashAvailable'[a] \in Int
  BY DEF CashAssumption, CashTypes
<1>8. cashBalance'[a] = CashOpening[a] + SumFunctionOnSet(t, Postings)
  <2>1. s[k] \in Int /\ t[k] \in Int /\ SumFunctionOnSet(s, Postings) \in Int
    BY <1>1, <1>3, SharesFinite, SumType
  <2> HIDE DEF s, t, g, h
  <2>2. SumFunctionOnSet(t, Postings) = SumFunctionOnSet(s, Postings) - s[k] + t[k]
    BY <1>1, <1>3, <1>4, SharesFinite, SumUpdated
  <2> QED BY <1>5, <1>6, <1>7, <2>1, <2>2
<1>9. cashAvailable'[a] = cashBalance'[a] - SumFunctionOnSet(h, Postings)
  <2>1. g[k] \in Int /\ h[k] \in Int /\ SumFunctionOnSet(g, Postings) \in Int
    BY <1>1, <1>3, SharesFinite, SumType
  <2> HIDE DEF s, t, g, h
  <2>2. SumFunctionOnSet(h, Postings) = SumFunctionOnSet(g, Postings) - g[k] + h[k]
    BY <1>1, <1>3, <1>4, SharesFinite, SumUpdated
  <2> QED BY <1>5, <1>6, <1>7, <2>1, <2>2
<1> QED BY <1>8, <1>9 DEF CashBalanced

LEMMA CashBooksStay ==
  ASSUME NEW a \in CashAccounts, CashBalanced(a),
         cashBalance'[a] = cashBalance[a], cashAvailable'[a] = cashAvailable[a],
         \A k \in Postings : SettledAt(k, a)' = SettledAt(k, a) /\ HeldBy(k, a)' = HeldBy(k, a)
  PROVE  CashBalanced(a)'
<1>1. /\ [k \in Postings |-> SettledAt(k, a)'] = [k \in Postings |-> SettledAt(k, a)]
      /\ [k \in Postings |-> HeldBy(k, a)'] = [k \in Postings |-> HeldBy(k, a)]
  OBVIOUS
<1> QED BY <1>1 DEF CashBalanced

\* A request ends, and has written its posting and the account of it.
LEMMA WriteBooks ==
  ASSUME CashAssumption, CashInv, CashInv', CashBooksInv, NEW c \in CashCalls, NEW k \in Postings,
         NEW a \in CashAccounts, request[c].id = k, request[c].account = a, ReturnRequest(c),
         UNCHANGED <<repeated, cashClash>>,
         posting'[k].status # "NONE", posting'[k].account = a,
         posting[k].status # "NONE" => posting[k].account = a,
         \A j \in Postings : j # k => posting'[j] = posting[j] /\ settled'[j] = settled[j],
         \A b \in CashAccounts : b # a =>
           cashBalance'[b] = cashBalance[b] /\ cashAvailable'[b] = cashAvailable[b],
         k \notin repeated /\ a \notin cashClash /\ cashAvailable[a] >= 0 =>
           /\ cashBalance'[a] = cashBalance[a] + SettledAt(k, a)' - SettledAt(k, a)
           /\ cashBalance'[a] - cashAvailable'[a] =
                cashBalance[a] - cashAvailable[a] + HeldBy(k, a)' - HeldBy(k, a)
           /\ cashAvailable'[a] >= 0
  PROVE  CashBooksInv'
<1>1. \A d \in CashCalls : request'[d] = IF d = c THEN IdleRequest ELSE request[d]
  BY DEF ReturnRequest, CashInv, CashTypes
<1>2. CashTypes /\ CashTypes'
  BY DEF CashInv
<1>3. IdleRequest.account = NoAccount /\ IdleRequest.at = "idle"
  BY DEF IdleRequest
<1>4. ASSUME NEW d \in CashCalls PROVE ReadKeeps(d)'
  <2>1. ReadKeeps(d)
    BY DEF CashBooksInv
  <2>2. CASE d = c
    BY <1>1, <1>3, <2>2 DEF ReadKeeps
  <2>3. CASE d # c
    <3>1. request'[d] = request[d]
      BY <1>1, <2>3
    <3>2. request[d].at # "idle" => request[d].id \in Postings
      BY <1>2 DEF CashTypes
    <3> QED BY <2>1, <3>1, <3>2 DEF ReadKeeps
  <2> QED BY <2>2, <2>3
<1>5. ASSUME NEW b \in CashAccounts, b \notin cashClash'
      PROVE  AccountSeen(b)' /\ (~ HasRepeated(b)' => CashBalanced(b)')
  <2>1. AccountSeen(b) /\ (~ HasRepeated(b) => CashBalanced(b))
    BY <1>5 DEF CashBooksInv
  <2>2. AccountSeen(b)'
    <3>1. \A d \in CashCalls : request'[d].account = b => d # c /\ request'[d] = request[d]
      BY <1>1, <1>3 DEF CashAssumption
    <3>2. b = a => \A d \in CashCalls : request'[d].account # b
      BY <2>1, <3>1 DEF AccountSeen
    <3> QED BY <2>1, <3>1, <3>2 DEF AccountSeen
  <2>3. ASSUME ~ HasRepeated(b)' PROVE CashBalanced(b)'
    <3>1. posting[k].account = b => posting[k].status # "NONE"
      BY <1>2, PostingRow DEF CashTypes, CashAssumption
    <3>2. ~ HasRepeated(b)
      BY <1>2, <2>3, <3>1 DEF HasRepeated, CashTypes
    <3>3. CashBalanced(b)
      BY <2>1, <3>2
    <3>4. CASE b = a
      <4>1. k \notin repeated
        BY <2>3, <3>4 DEF HasRepeated
      <4>2. cashAvailable[a] >= 0
        BY <3>3, <3>4 DEF CashBalanced
      <4> QED BY <1>2, <1>5, <3>3, <3>4, <4>1, <4>2, CashBooksMove
    <3>5. CASE b # a
      <4>1. posting[k].account # b /\ posting'[k].account # b
        BY <3>1, <3>5
      <4>2. \A j \in Postings : SettledAt(j, b)' = SettledAt(j, b) /\ HeldBy(j, b)' = HeldBy(j, b)
        BY <4>1 DEF SettledAt, HeldBy
      <4> QED BY <3>3, <3>5, <4>2, CashBooksStay
    <3> QED BY <3>4, <3>5
  <2> QED BY <2>2, <2>3
<1> QED BY <1>4, <1>5 DEF CashBooksInv

-----------------------------------------------------------------------------
LEMMA CashBooksInit == CashAssumption /\ CashPostingsInit => CashBooksInv
<1> SUFFICES ASSUME CashAssumption, CashPostingsInit PROVE CashBooksInv
  OBVIOUS
<1>1. /\ \A c \in CashCalls : request[c] = IdleRequest
      /\ IdleRequest.account = NoAccount /\ IdleRequest.at = "idle"
  BY DEF CashPostingsInit, IdleRequest
<1>2. ASSUME NEW a \in CashAccounts PROVE AccountSeen(a) /\ CashBalanced(a)
  <2>1. AccountSeen(a)
    BY <1>1 DEF AccountSeen, CashAssumption
  <2>2. \A k \in Postings : SettledAt(k, a) = 0 /\ HeldBy(k, a) = 0
    BY DEF CashPostingsInit, SettledAt, HeldBy, NoRow, CashAssumption
  <2> DEFINE s == [k \in Postings |-> SettledAt(k, a)]
             h == [k \in Postings |-> HeldBy(k, a)]
  <2>3. /\ s \in [Postings -> Int] /\ h \in [Postings -> Int]
        /\ \A k \in Postings : s[k] = 0 /\ h[k] = 0
    BY <2>2
  <2> HIDE DEF s, h
  <2>4. SumFunctionOnSet(s, Postings) = 0 /\ SumFunctionOnSet(h, Postings) = 0
    BY <2>3, SharesFinite, SumOfZeros
  <2>5. cashBalance[a] = CashOpening[a] /\ cashAvailable[a] = CashOpening[a] /\ CashOpening[a] \in Nat
    BY DEF CashPostingsInit, CashAssumption
  <2>6. CashBalanced(a)
    BY <2>4, <2>5 DEF CashBalanced, s, h
  <2> QED BY <2>1, <2>6
<1> QED BY <1>1, <1>2 DEF CashBooksInv, ReadKeeps

LEMMA ReadPostingBooks ==
  ASSUME CashAssumption, CashInv, CashBooksInv,
         NEW c \in CashCalls, NEW k \in Postings, NEW op \in RequestOps, ReadPosting(c, k, op)
  PROVE  CashBooksInv'
<1> DEFINE view == [IdleRequest EXCEPT !.at = "posting", !.op = op, !.id = k, !.read = posting[k]]
<1>1. /\ request' = [request EXCEPT ![c] = view] /\ repeated \subseteq repeated'
      /\ UNCHANGED <<posting, cashBalance, cashAvailable, settled, recorded, cashClash>>
  BY DEF ReadPosting
<1>2. view.at = "posting" /\ view.id = k /\ view.read = posting[k] /\ view.account = NoAccount
  BY DEF IdleRequest
<1> HIDE DEF view
<1>3. \A d \in CashCalls : request'[d] = IF d = c THEN view ELSE request[d]
  BY <1>1 DEF CashInv, CashTypes
<1>4. \A d \in CashCalls : ReadKeeps(d)'
  BY <1>1, <1>2, <1>3 DEF CashBooksInv, ReadKeeps
<1>5. ASSUME NEW a \in CashAccounts, a \notin cashClash'
      PROVE  AccountSeen(a)' /\ (~ HasRepeated(a)' => CashBalanced(a)')
  <2>1. AccountSeen(a) /\ (~ HasRepeated(a) => CashBalanced(a))
    BY <1>1, <1>5 DEF CashBooksInv
  <2>2. AccountSeen(a)'
    <3>1. \A d \in CashCalls : request'[d].account = a => request'[d] = request[d]
      BY <1>2, <1>3 DEF CashAssumption
    <3> QED BY <1>1, <2>1, <3>1 DEF AccountSeen
  <2>3. ~ HasRepeated(a)' => ~ HasRepeated(a)
    BY <1>1 DEF HasRepeated
  <2>4. \A j \in Postings : SettledAt(j, a)' = SettledAt(j, a) /\ HeldBy(j, a)' = HeldBy(j, a)
    BY <1>1 DEF SettledAt, HeldBy
  <2> QED BY <1>1, <2>1, <2>2, <2>3, <2>4, CashBooksStay
<1> QED BY <1>4, <1>5 DEF CashBooksInv

LEMMA ReadAccountBooks ==
  ASSUME CashAssumption, CashInv, CashBooksInv,
         NEW c \in CashCalls, NEW a \in CashAccounts, ReadAccount(c, a)
  PROVE  CashBooksInv'
<1> DEFINE view == [request[c] EXCEPT !.at = "account", !.account = a,
                      !.balance = cashBalance[a], !.available = cashAvailable[a]]
<1>1. /\ request[c].at = "posting" /\ request' = [request EXCEPT ![c] = view]
      /\ request[c].read.status # "NONE" => a = request[c].read.account
      /\ cashClash' = IF \E d \in CashCalls \ {c} : request[d].account = a
                        THEN cashClash \cup {a} ELSE cashClash
      /\ UNCHANGED <<posting, cashBalance, cashAvailable, settled, recorded, repeated>>
  BY DEF ReadAccount, RequestAt
<1>2. /\ view.at = "account" /\ view.account = a /\ view.id = request[c].id
      /\ view.read = request[c].read
      /\ view.balance = cashBalance[a] /\ view.available = cashAvailable[a]
  BY DEF CashInv, CashTypes, RequestViews
<1> HIDE DEF view
<1>3. \A d \in CashCalls : request'[d] = IF d = c THEN view ELSE request[d]
  BY <1>1 DEF CashInv, CashTypes
<1>4. \A d \in CashCalls : ReadKeeps(d)'
  BY <1>1, <1>2, <1>3 DEF CashBooksInv, ReadKeeps
<1>5. ASSUME NEW b \in CashAccounts, b \notin cashClash'
      PROVE  AccountSeen(b)' /\ (~ HasRepeated(b)' => CashBalanced(b)')
  <2>1. AccountSeen(b) /\ (~ HasRepeated(b) => CashBalanced(b))
    BY <1>1, <1>5 DEF CashBooksInv
  <2>2. b = a => \A d \in CashCalls : d # c => request[d].account # a
    BY <1>1, <1>5
  <2>3. AccountSeen(b)'
    BY <1>1, <1>2, <1>3, <2>1, <2>2 DEF AccountSeen
  <2>4. ~ HasRepeated(b)' => ~ HasRepeated(b)
    BY <1>1 DEF HasRepeated
  <2>5. \A j \in Postings : SettledAt(j, b)' = SettledAt(j, b) /\ HeldBy(j, b)' = HeldBy(j, b)
    BY <1>1 DEF SettledAt, HeldBy
  <2> QED BY <1>1, <2>1, <2>3, <2>4, <2>5, CashBooksStay
<1> QED BY <1>4, <1>5 DEF CashBooksInv

\* What is written to the account, if nobody else has read it.
LEMMA AccountChanges ==
  ASSUME CashInv, CashBooksInv, NEW c \in CashCalls, NEW a \in CashAccounts,
         request[c].account = a, NEW n \in Int, NEW m \in Int, WriteAccount(c, n, m)
  PROVE  /\ a \notin cashClash => /\ cashBalance'[a] = cashBalance[a] + n
                                  /\ cashAvailable'[a] = cashAvailable[a] + m
         /\ \A b \in CashAccounts : b # a =>
              cashBalance'[b] = cashBalance[b] /\ cashAvailable'[b] = cashAvailable[b]
<1>1. /\ cashBalance' = [cashBalance EXCEPT ![a] = request[c].balance + n]
      /\ cashAvailable' = [cashAvailable EXCEPT ![a] = request[c].available + m]
  BY DEF WriteAccount
<1>2. a \notin cashClash =>
        request[c].balance = cashBalance[a] /\ request[c].available = cashAvailable[a]
  BY DEF CashBooksInv, AccountSeen
<1> QED BY <1>1, <1>2 DEF CashInv, CashTypes

\* What a request that has read its account knows of both.
LEMMA AtAccount ==
  ASSUME CashAssumption, CashInv, CashBooksInv, NEW c \in CashCalls, request[c].at = "account"
  PROVE  /\ request[c].id \in Postings /\ request[c].account \in CashAccounts
         /\ request[c].read \in PostingRows /\ request[c].read.amount \in Int
         /\ request[c].read.status # "NONE" =>
              /\ posting[request[c].id].status # "NONE"
              /\ posting[request[c].id].account = request[c].account
              /\ request[c].read.account = request[c].account
         /\ request[c].id \notin repeated =>
              /\ request[c].read = posting[request[c].id]
              /\ SettledMatches(request[c].id)
         /\ request[c].account \notin cashClash =>
              request[c].available = cashAvailable[request[c].account]
         /\ \A a \in CashAccounts : cashBalance[a] \in Int /\ cashAvailable[a] \in Int
<1>1. /\ request[c].id \in Postings /\ request[c].account \in CashAccounts
      /\ request[c].read \in PostingRows
      /\ \A a \in CashAccounts : cashBalance[a] \in Int /\ cashAvailable[a] \in Int
  BY DEF CashInv, CashTypes, RequestViews
<1>2. request[c].read.amount \in Int
  BY <1>1, PostingRow
<1>3. request[c].read.status # "NONE" =>
        /\ posting[request[c].id].status # "NONE"
        /\ posting[request[c].id].account = request[c].account
        /\ request[c].read.account = request[c].account
  BY DEF CashBooksInv, ReadKeeps
<1>4. request[c].id \notin repeated =>
        request[c].read = posting[request[c].id] /\ SettledMatches(request[c].id)
  BY <1>1 DEF CashInv, ViewMatches
<1>5. request[c].account \notin cashClash => request[c].available = cashAvailable[request[c].account]
  BY <1>1 DEF CashBooksInv, AccountSeen
<1> QED BY <1>1, <1>2, <1>3, <1>4, <1>5

LEMMA PrepareNewBooks ==
  ASSUME CashAssumption, CashInv, CashInv', CashBooksInv,
         NEW c \in CashCalls, NEW r \in PrepareRequests, NEW rate \in Rates, PrepareNew(c, r, rate)
  PROVE  CashBooksInv'
<1>1. request[c].at = "account" /\ posting[request[c].id].status = "NONE"
  BY DEF PrepareNew, RequestAt
<1>2. PICK k \in Postings, a \in CashAccounts : k = request[c].id /\ a = request[c].account
  BY <1>1, AtAccount
<1>3. PICK n \in Int : n = Resolved(r, a, rate)
  <2>1. r.amount \in Int /\ rate \in Int
    BY DEF CashAssumption, RequestSet
  <2> QED BY <2>1 DEF Resolved
<1> DEFINE row == [status |-> "PREPARED", account |-> a, amount |-> n, request |-> r]
<1>4. /\ posting' = [posting EXCEPT ![k] = row] /\ request[c].available >= Outgoing(n)
      /\ IF n < 0 THEN WriteAccount(c, 0, n) ELSE UNCHANGED <<cashBalance, cashAvailable>>
      /\ ReturnRequest(c) /\ UNCHANGED <<settled, repeated, cashClash>>
  BY <1>2, <1>3 DEF PrepareNew
<1>5. /\ posting'[k].status = "PREPARED" /\ posting'[k].account = a /\ posting'[k].amount = n
      /\ \A j \in Postings : j # k => posting'[j] = posting[j] /\ settled'[j] = settled[j]
  BY <1>4 DEF CashInv, CashTypes
<1>6. /\ a \notin cashClash => /\ cashBalance'[a] = cashBalance[a]
                               /\ cashAvailable'[a] = cashAvailable[a] - Outgoing(n)
      /\ \A b \in CashAccounts : b # a =>
           cashBalance'[b] = cashBalance[b] /\ cashAvailable'[b] = cashAvailable[b]
  <2>1. cashBalance[a] \in Int /\ cashAvailable[a] \in Int
    BY DEF CashInv, CashTypes
  <2>2. CASE n < 0
    BY <1>2, <1>4, <2>1, <2>2, AccountChanges, OutgoingType
  <2>3. CASE ~ n < 0
    BY <1>4, <2>1, <2>3, OutgoingType
  <2> QED BY <2>2, <2>3
<1>7. posting[k].account = NoAccount /\ a # NoAccount
  <2>1. posting[k] \in PostingRows
    BY DEF CashInv, CashTypes
  <2> QED BY <1>1, <1>2, <2>1, PostingRow DEF CashAssumption
<1>8. /\ SettledAt(k, a) = 0 /\ HeldBy(k, a) = 0 /\ HeldBy(k, a)' = Outgoing(n)
      /\ k \notin repeated => SettledAt(k, a)' = 0
  <2>1. SettledAt(k, a) = 0 /\ HeldBy(k, a) = 0 /\ HeldBy(k, a)' = Outgoing(n)
    BY <1>5, <1>7 DEF SettledAt, HeldBy
  <2>2. k \notin repeated => settled'[k] = 0
    BY <1>1, <1>2, <1>4 DEF CashInv, SettledMatches
  <2> QED BY <1>5, <2>1, <2>2 DEF SettledAt
<1>9. k \notin repeated /\ a \notin cashClash /\ cashAvailable[a] >= 0 =>
        /\ cashBalance'[a] = cashBalance[a] + SettledAt(k, a)' - SettledAt(k, a)
        /\ cashBalance'[a] - cashAvailable'[a] =
             cashBalance[a] - cashAvailable[a] + HeldBy(k, a)' - HeldBy(k, a)
        /\ cashAvailable'[a] >= 0
  <2>1. cashBalance[a] \in Int /\ cashAvailable[a] \in Int /\ Outgoing(n) \in Int
    BY OutgoingType DEF CashInv, CashTypes
  <2>2. a \notin cashClash => cashAvailable[a] >= Outgoing(n)
    BY <1>1, <1>2, <1>4, AtAccount
  <2> QED BY <1>6, <1>8, <2>1, <2>2
<1> QED BY <1>1, <1>2, <1>4, <1>5, <1>6, <1>9, WriteBooks

\* The posting the request has read is written with another status.
LEMMA StatusBooks ==
  ASSUME CashAssumption, CashInv, CashInv', CashBooksInv, NEW c \in CashCalls,
         request[c].at = "account", request[c].read.status # "NONE", NEW s \in PostingStatuses \ {"NONE"},
         WritePosting(c, request[c].read, s), ReturnRequest(c), UNCHANGED <<repeated, cashClash>>,
         \A j \in Postings : j # request[c].id => settled'[j] = settled[j],
         NEW n \in Int, NEW m \in Int,
         WriteAccount(c, n, m) \/ (n = 0 /\ m = 0 /\ UNCHANGED <<cashBalance, cashAvailable>>),
         request[c].id \notin repeated =>
           /\ n = settled'[request[c].id] * request[c].read.amount
                    - settled[request[c].id] * request[c].read.amount
           /\ n - m = (IF s = "PREPARED" THEN Outgoing(request[c].read.amount) ELSE 0)
                - (IF request[c].read.status = "PREPARED" THEN Outgoing(request[c].read.amount) ELSE 0),
         m >= 0 \/ request[c].available + m >= 0
  PROVE  CashBooksInv'
<1>1. PICK k \in Postings, a \in CashAccounts, row \in PostingRows :
        k = request[c].id /\ a = request[c].account /\ row = request[c].read
  BY AtAccount
<1>2. /\ row.account = a /\ row.status # "NONE" /\ posting[k].status # "NONE"
      /\ posting[k].account = a /\ (k \notin repeated => row = posting[k])
      /\ (a \notin cashClash => request[c].available = cashAvailable[a])
      /\ cashBalance[a] \in Int /\ cashAvailable[a] \in Int
  BY <1>1, AtAccount
<1> DEFINE new == [row EXCEPT !.status = s]
<1>3. posting' = [posting EXCEPT ![k] = new]
  BY <1>1 DEF WritePosting
<1>4. new.status = s /\ new.account = a /\ new.amount = row.amount
  BY <1>2 DEF PostingRows, NoRow
<1> HIDE DEF new
<1>5. /\ posting'[k] = new /\ \A j \in Postings : j # k => posting'[j] = posting[j]
      /\ \A j \in Postings : j # k => settled'[j] = settled[j]
  BY <1>1, <1>3 DEF CashInv, CashTypes
<1>6. /\ a \notin cashClash => /\ cashBalance'[a] = cashBalance[a] + n
                               /\ cashAvailable'[a] = cashAvailable[a] + m
      /\ \A b \in CashAccounts : b # a =>
           cashBalance'[b] = cashBalance[b] /\ cashAvailable'[b] = cashAvailable[b]
  <2>1. CASE WriteAccount(c, n, m)
    BY <1>1, <2>1, AccountChanges
  <2>2. CASE n = 0 /\ m = 0 /\ UNCHANGED <<cashBalance, cashAvailable>>
    BY <1>2, <2>2
  <2> QED BY <2>1, <2>2
<1>7. k \notin repeated =>
        /\ SettledAt(k, a)' = settled'[k] * row.amount /\ SettledAt(k, a) = settled[k] * row.amount
        /\ HeldBy(k, a)' = IF s = "PREPARED" THEN Outgoing(row.amount) ELSE 0
        /\ HeldBy(k, a) = IF row.status = "PREPARED" THEN Outgoing(row.amount) ELSE 0
  BY <1>2, <1>4, <1>5 DEF SettledAt, HeldBy
<1>8. SettledAt(k, a) \in Int /\ HeldBy(k, a) \in Int /\ SettledAt(k, a)' \in Int /\ HeldBy(k, a)' \in Int
  <2>1. SettledAt(k, a) \in Int /\ HeldBy(k, a) \in Int
    BY SharesTyped DEF CashInv
  <2>2. posting'[k].amount \in Int /\ settled'[k] \in Int
    BY PostingRow DEF CashInv, CashTypes
  <2> QED BY <2>1, <2>2, OutgoingType DEF SettledAt, HeldBy
<1>9. k \notin repeated /\ a \notin cashClash /\ cashAvailable[a] >= 0 =>
        /\ cashBalance'[a] = cashBalance[a] + SettledAt(k, a)' - SettledAt(k, a)
        /\ cashBalance'[a] - cashAvailable'[a] =
             cashBalance[a] - cashAvailable[a] + HeldBy(k, a)' - HeldBy(k, a)
        /\ cashAvailable'[a] >= 0
  <2>1. k \notin repeated =>
          n = SettledAt(k, a)' - SettledAt(k, a) /\ n - m = HeldBy(k, a)' - HeldBy(k, a)
    BY <1>1, <1>7
  <2>2. a \notin cashClash /\ cashAvailable[a] >= 0 => cashAvailable[a] + m >= 0
    BY <1>2
  <2> QED BY <1>2, <1>6, <1>8, <2>1, <2>2
<1> QED BY <1>1, <1>2, <1>4, <1>5, <1>6, <1>9, WriteBooks

LEMMA PrepareAgainBooks ==
  ASSUME CashAssumption, CashInv, CashInv', CashBooksInv,
         NEW c \in CashCalls, NEW r \in PrepareRequests, PrepareAgain(c, r)
  PROVE  CashBooksInv'
<1>1. /\ request[c].at = "account" /\ request[c].read.status = "ROLLED_BACK"
      /\ request[c].available >= Outgoing(request[c].read.amount)
      /\ WritePosting(c, request[c].read, "PREPARED") /\ ReturnRequest(c)
      /\ UNCHANGED <<settled, repeated, cashClash>>
  BY DEF PrepareAgain, RequestAt
<1>2. PICK x \in Int : x = request[c].read.amount
  BY <1>1, AtAccount
<1>3. PICK v \in Int : v = request[c].available
  BY DEF CashInv, CashTypes, RequestViews
<1>4. settled[request[c].id] * x \in Int
  BY <1>1, <1>2, AtAccount DEF CashInv, CashTypes
<1>5. PICK m \in Int : m = -Outgoing(x)
  BY OutgoingType
<1>6. WriteAccount(c, 0, m) \/ (m = 0 /\ UNCHANGED <<cashBalance, cashAvailable>>)
  <2>1. IF x < 0 THEN WriteAccount(c, 0, x) ELSE UNCHANGED <<cashBalance, cashAvailable>>
    BY <1>2 DEF PrepareAgain
  <2>2. CASE x < 0
    BY <1>5, <2>1, <2>2, OutgoingType
  <2>3. CASE ~ x < 0
    BY <1>5, <2>1, <2>3, OutgoingType
  <2> QED BY <2>2, <2>3
<1>7. v + m >= 0
  BY <1>1, <1>2, <1>3, <1>5, OutgoingType
<1>8. 0 - m = Outgoing(x) - 0
  BY <1>5, OutgoingType
<1>9. PICK n \in Int, s \in PostingStatuses \ {"NONE"} : n = 0 /\ s = "PREPARED"
  BY DEF PostingStatuses
<1>10. /\ n = settled'[request[c].id] * request[c].read.amount
                 - settled[request[c].id] * request[c].read.amount
       /\ n - m = (IF s = "PREPARED" THEN Outgoing(request[c].read.amount) ELSE 0)
            - (IF request[c].read.status = "PREPARED" THEN Outgoing(request[c].read.amount) ELSE 0)
  BY <1>1, <1>2, <1>4, <1>8, <1>9
<1>11. request[c].available + m >= 0 /\ WritePosting(c, request[c].read, s)
  BY <1>1, <1>3, <1>7, <1>9
<1>12. WriteAccount(c, n, m) \/ (n = 0 /\ m = 0 /\ UNCHANGED <<cashBalance, cashAvailable>>)
  BY <1>6, <1>9
<1> QED BY <1>1, <1>10, <1>11, <1>12, StatusBooks

LEMMA CommitPostingBooks ==
  ASSUME CashAssumption, CashInv, CashInv', CashBooksInv, NEW c \in CashCalls, CommitPosting(c)
  PROVE  CashBooksInv'
<1>1. /\ request[c].at = "account" /\ request[c].read.status = "PREPARED"
      /\ WritePosting(c, request[c].read, "COMMITTED") /\ ReturnRequest(c)
      /\ settled' = [settled EXCEPT ![request[c].id] = @ + 1]
      /\ UNCHANGED <<repeated, cashClash>>
  BY DEF CommitPosting, RequestAt
<1>2. PICK x \in Int : x = request[c].read.amount
  BY <1>1, AtAccount
<1>3. PICK m \in Int : m = IF x < 0 THEN 0 ELSE x
  OBVIOUS
<1>4. WriteAccount(c, x, m)
  BY <1>2, <1>3 DEF CommitPosting
<1>5. PICK z \in Int : z = settled[request[c].id]
  BY <1>1, AtAccount DEF CashInv, CashTypes
<1>6. /\ settled'[request[c].id] = z + 1
      /\ \A j \in Postings : j # request[c].id => settled'[j] = settled[j]
  BY <1>1, <1>5, AtAccount DEF CashInv, CashTypes
<1>7. x = (z + 1) * x - z * x
  BY <1>2, <1>5
<1>8. x - m = 0 - Outgoing(x) /\ m >= 0
  BY <1>3, OutgoingType
<1>9. PICK s \in PostingStatuses \ {"NONE"} : s = "COMMITTED"
  BY DEF PostingStatuses
<1>10. /\ x = settled'[request[c].id] * request[c].read.amount
                 - settled[request[c].id] * request[c].read.amount
       /\ x - m = (IF s = "PREPARED" THEN Outgoing(request[c].read.amount) ELSE 0)
            - (IF request[c].read.status = "PREPARED" THEN Outgoing(request[c].read.amount) ELSE 0)
  BY <1>1, <1>2, <1>5, <1>6, <1>7, <1>8, <1>9
<1>11. WritePosting(c, request[c].read, s)
  BY <1>1, <1>9
<1> QED BY <1>1, <1>4, <1>6, <1>8, <1>10, <1>11, StatusBooks

LEMMA RollbackBooks ==
  ASSUME CashAssumption, CashInv, CashInv', CashBooksInv, NEW c \in CashCalls, RollbackPosting(c)
  PROVE  CashBooksInv'
<1>1. /\ request[c].at = "account" /\ request[c].read.status = "PREPARED"
      /\ WritePosting(c, request[c].read, "ROLLED_BACK") /\ ReturnRequest(c)
      /\ UNCHANGED <<settled, repeated, cashClash>>
  BY DEF RollbackPosting, RequestAt
<1>2. PICK x \in Int : x = request[c].read.amount
  BY <1>1, AtAccount
<1>3. PICK m \in Int : m = Outgoing(x)
  BY OutgoingType
<1>4. settled[request[c].id] * x \in Int
  BY <1>1, <1>2, AtAccount DEF CashInv, CashTypes
<1>5. WriteAccount(c, 0, m) \/ (m = 0 /\ UNCHANGED <<cashBalance, cashAvailable>>)
  <2>1. IF x < 0 THEN WriteAccount(c, 0, -x) ELSE UNCHANGED <<cashBalance, cashAvailable>>
    BY <1>2 DEF RollbackPosting
  <2>2. CASE x < 0
    BY <1>3, <2>1, <2>2, OutgoingType
  <2>3. CASE ~ x < 0
    BY <1>3, <2>1, <2>3, OutgoingType
  <2> QED BY <2>2, <2>3
<1>6. m >= 0 /\ 0 - m = 0 - Outgoing(x)
  BY <1>3, OutgoingType
<1>7. PICK n \in Int, s \in PostingStatuses \ {"NONE"} : n = 0 /\ s = "ROLLED_BACK"
  BY DEF PostingStatuses
<1>8. /\ n = settled'[request[c].id] * request[c].read.amount
                - settled[request[c].id] * request[c].read.amount
      /\ n - m = (IF s = "PREPARED" THEN Outgoing(request[c].read.amount) ELSE 0)
           - (IF request[c].read.status = "PREPARED" THEN Outgoing(request[c].read.amount) ELSE 0)
  BY <1>1, <1>2, <1>4, <1>6, <1>7
<1>9. WritePosting(c, request[c].read, s)
  BY <1>1, <1>7
<1>10. WriteAccount(c, n, m) \/ (n = 0 /\ m = 0 /\ UNCHANGED <<cashBalance, cashAvailable>>)
  BY <1>5, <1>7
<1> QED BY <1>1, <1>6, <1>8, <1>9, <1>10, StatusBooks

LEMMA SaveUnchangedBooks ==
  ASSUME CashAssumption, CashInv, CashInv', CashBooksInv, NEW c \in CashCalls, SaveUnchanged(c)
  PROVE  CashBooksInv'
<1>1. /\ request[c].at = "account" /\ request[c].read.status \in {"COMMITTED", "ROLLED_BACK"}
      /\ WritePosting(c, request[c].read, request[c].read.status) /\ ReturnRequest(c)
      /\ UNCHANGED <<cashBalance, cashAvailable, settled, repeated, cashClash>>
  BY DEF SaveUnchanged, RequestAt
<1>2. PICK x \in Int : x = request[c].read.amount
  BY <1>1, AtAccount
<1>3. settled[request[c].id] * x \in Int
  BY <1>1, <1>2, AtAccount DEF CashInv, CashTypes
<1>4. PICK n \in Int, s \in PostingStatuses \ {"NONE"} : n = 0 /\ s = request[c].read.status
  BY <1>1 DEF PostingStatuses
<1>5. PICK h \in Int : h = Outgoing(x)
  BY OutgoingType
<1>6. /\ n = settled'[request[c].id] * request[c].read.amount
                - settled[request[c].id] * request[c].read.amount
      /\ n - n = (IF s = "PREPARED" THEN Outgoing(request[c].read.amount) ELSE 0)
           - (IF request[c].read.status = "PREPARED" THEN Outgoing(request[c].read.amount) ELSE 0)
  BY <1>1, <1>2, <1>3, <1>4, <1>5
<1>7. /\ n >= 0 /\ request[c].read.status # "NONE" /\ WritePosting(c, request[c].read, s)
      /\ \A j \in Postings : j # request[c].id => settled'[j] = settled[j]
  BY <1>1, <1>4
<1>8. n = 0 /\ UNCHANGED <<cashBalance, cashAvailable>>
  BY <1>1, <1>4
<1> QED BY <1>1, <1>6, <1>7, <1>8, StatusBooks

LEMMA EndBooks ==
  ASSUME CashAssumption, CashInv, CashBooksInv, NEW c \in CashCalls, EndRequest(c)
  PROVE  CashBooksInv'
<1>1. /\ ReturnRequest(c)
      /\ UNCHANGED <<posting, cashBalance, cashAvailable, settled, repeated, cashClash>>
  BY DEF EndRequest
<1>2. \A d \in CashCalls : request'[d] = IF d = c THEN IdleRequest ELSE request[d]
  BY <1>1 DEF ReturnRequest, CashInv, CashTypes
<1>3. IdleRequest.account = NoAccount /\ IdleRequest.at = "idle"
  BY DEF IdleRequest
<1>4. \A d \in CashCalls : ReadKeeps(d)'
  BY <1>1, <1>2, <1>3 DEF CashBooksInv, ReadKeeps
<1>5. ASSUME NEW a \in CashAccounts, a \notin cashClash
      PROVE  AccountSeen(a)' /\ (~ HasRepeated(a)' => CashBalanced(a)')
  <2>1. AccountSeen(a) /\ (~ HasRepeated(a) => CashBalanced(a))
    BY <1>5 DEF CashBooksInv
  <2>2. AccountSeen(a)'
    <3>1. \A d \in CashCalls : request'[d].account = a => request'[d] = request[d]
      BY <1>2, <1>3 DEF CashAssumption
    <3> QED BY <1>1, <2>1, <3>1 DEF AccountSeen
  <2>3. ~ HasRepeated(a)' => ~ HasRepeated(a)
    BY <1>1 DEF HasRepeated
  <2>4. \A j \in Postings : SettledAt(j, a)' = SettledAt(j, a) /\ HeldBy(j, a)' = HeldBy(j, a)
    BY <1>1 DEF SettledAt, HeldBy
  <2> QED BY <1>1, <2>1, <2>2, <2>3, <2>4, CashBooksStay
<1> QED BY <1>1, <1>4, <1>5 DEF CashBooksInv

-----------------------------------------------------------------------------
LEMMA CashBooksStep ==
  CashAssumption /\ CashInv /\ CashInv' /\ CashBooksInv /\ [CashPostingsNext]_cashVars => CashBooksInv'
<1> SUFFICES ASSUME CashAssumption, CashInv, CashInv', CashBooksInv, [CashPostingsNext]_cashVars
             PROVE  CashBooksInv'
  OBVIOUS
<1>1. ASSUME NEW c \in CashCalls,
             \E k \in Postings, op \in {"Prepare", "Commit", "Rollback"} : ReadPosting(c, k, op)
      PROVE  CashBooksInv'
  BY <1>1, ReadPostingBooks DEF RequestOps
<1>2. ASSUME NEW c \in CashCalls, \E a \in CashAccounts : ReadAccount(c, a) PROVE CashBooksInv'
  BY <1>2, ReadAccountBooks
<1>3. ASSUME NEW c \in CashCalls, \E r \in PrepareRequests, rate \in Rates : PrepareNew(c, r, rate)
      PROVE  CashBooksInv'
  BY <1>3, PrepareNewBooks
<1>4. ASSUME NEW c \in CashCalls, \E r \in PrepareRequests : PrepareAgain(c, r) PROVE CashBooksInv'
  BY <1>4, PrepareAgainBooks
<1>5. ASSUME NEW c \in CashCalls,
             CommitPosting(c) \/ RollbackPosting(c) \/ SaveUnchanged(c) \/ EndRequest(c)
      PROVE  CashBooksInv'
  BY <1>5, CommitPostingBooks, RollbackBooks, SaveUnchangedBooks, EndBooks
<1>6. CASE UNCHANGED cashVars
  <2>1. UNCHANGED <<posting, cashBalance, cashAvailable, request, settled, repeated, cashClash>>
    BY <1>6 DEF cashVars
  <2>2. \A c \in CashCalls : ReadKeeps(c)'
    BY <2>1 DEF CashBooksInv, ReadKeeps
  <2>3. ASSUME NEW a \in CashAccounts, a \notin cashClash
        PROVE  AccountSeen(a)' /\ (~ HasRepeated(a)' => CashBalanced(a)')
    <3>1. AccountSeen(a) /\ (~ HasRepeated(a) => CashBalanced(a))
      BY <2>3 DEF CashBooksInv
    <3>2. AccountSeen(a)' /\ (~ HasRepeated(a)' => ~ HasRepeated(a))
      BY <2>1, <3>1 DEF AccountSeen, HasRepeated
    <3>3. \A j \in Postings : SettledAt(j, a)' = SettledAt(j, a) /\ HeldBy(j, a)' = HeldBy(j, a)
      BY <2>1 DEF SettledAt, HeldBy
    <3> QED BY <2>1, <3>1, <3>2, <3>3, CashBooksStay
  <2> QED BY <2>1, <2>2, <2>3 DEF CashBooksInv
<1> QED BY <1>1, <1>2, <1>3, <1>4, <1>5, <1>6 DEF CashPostingsNext

\* An account no two open transactions have read together, none of whose postings
\* two requests worked at together, holds its opening balance and the settled
\* postings, and as much less is available as prepared postings hold: for any
\* postings, accounts, currencies, rates and number of requests at a time.
THEOREM HoldsAlwaysPrepared == CashAssumption => (CashPostingsSpec => []HoldsArePrepared)
<1> SUFFICES ASSUME CashAssumption PROVE CashPostingsSpec => []HoldsArePrepared
  OBVIOUS
<1>1. CashPostingsInit => CashBooksInv
  BY CashBooksInit
<1>2. CashInv /\ CashInv' /\ CashBooksInv /\ [CashPostingsNext]_cashVars => CashBooksInv'
  BY CashBooksStep
<1>3. CashBooksInv => HoldsArePrepared
  BY DEF CashBooksInv, HoldsArePrepared, HasRepeated, CashBalanced, SettledAt, Sum
<1>4. CashPostingsSpec => []CashInv
  BY CashInvariant
<1> QED BY <1>1, <1>2, <1>3, <1>4, PTL DEF CashPostingsSpec

-----------------------------------------------------------------------------
(* Loans *)

EmployeePlaces == {"idle", "approve", "saved", "reject"}

LoanTypes ==
    /\ loanRequest \in [LoanRequests -> RequestStatuses]
    /\ loan \in [LoanRequests -> [status : {"NONE", "ACTIVE", "COMPLETED"}, paid : Nat]]
    /\ installment \in [Installments -> InstallmentStatuses]
    /\ employee \in [Employees -> [at : EmployeePlaces, id : LoanRequests \cup {"none"}]]
    /\ \A e \in Employees : employee[e].at # "idle" => employee[e].id \in LoanRequests
    /\ batch = [kind |-> batch.kind, todo |-> batch.todo, copy |-> batch.copy]
    /\ batch.todo \subseteq Installments
    /\ \A i \in batch.todo : batch.copy[i].status \in InstallmentStatuses /\ batch.copy[i].paid \in Nat
    /\ payout \in [LoanRequests -> Nat] /\ taken \in [Installments -> Nat]
    /\ contested \subseteq LoanRequests /\ unsaved \subseteq LoanRequests /\ stale \subseteq LoanRequests

WorksAt(e, q) == employee[e].at # "idle" /\ employee[e].id = q

\* A request that one call works at has the status that the call has seen or saved.
RequestMatches(q) ==
    /\ payout[q] = IF loan[q].status = "NONE" THEN 0 ELSE 1
    /\ q \notin contested =>
         /\ \A e, f \in Employees : WorksAt(e, q) /\ WorksAt(f, q) => e = f
         /\ \A e \in Employees : WorksAt(e, q) =>
              /\ loan[q].status = "NONE"
              /\ loanRequest[q] = IF employee[e].at = "saved" THEN "APPROVED" ELSE "PENDING"
         /\ loan[q].status # "NONE" => loanRequest[q] = "APPROVED"
         /\ loanRequest[q] = "APPROVED" => loan[q].status # "NONE" \/ Approving(q) \/ q \in unsaved

\* Instalments are collected of a loan there is.
LoanExists ==
    /\ \A i \in batch.todo : loan[i[1]].status # "NONE"
    /\ \A i \in Installments : installment[i] # "PENDING" => loan[i[1]].status # "NONE"

\* The batch holds one instalment of a loan, as it is stored, and the count of the loan.
CopyMatches(q) ==
    /\ \A i, j \in batch.todo : i[1] = q /\ j[1] = q => i = j
    /\ \A i \in batch.todo : i[1] = q =>
         /\ installment[i] # "PAID" /\ batch.copy[i].status = installment[i]
         /\ batch.copy[i].paid = loan[q].paid

CountMatches(q) ==
    /\ \A n \in Numbers : taken[<<q, n>>] = IF n \in Paid(q) THEN 1 ELSE 0
    /\ loan[q].paid = Cardinality(Paid(q))
    /\ loan[q].status = "COMPLETED" <=> Paid(q) = Numbers

LoanInv ==
    /\ LoanTypes /\ LoanExists
    /\ \A q \in LoanRequests : RequestMatches(q)
    /\ \A q \in LoanRequests \ stale : CopyMatches(q) /\ CountMatches(q)

-----------------------------------------------------------------------------
LEMMA NumbersFinite ==
  ASSUME LoansAssumption
  PROVE  IsFiniteSet(Numbers) /\ Cardinality(Numbers) = Period /\ 1 \in Numbers /\ Period \in Nat
<1>1. Period \in Nat /\ Period >= 1
  BY DEF LoansAssumption
<1> QED BY <1>1, FS_Interval DEF Numbers

LEMMA LoanInit == LoansAssumption /\ LoansInit => LoanInv
<1> SUFFICES ASSUME LoansAssumption, LoansInit PROVE LoanInv
  OBVIOUS
<1>1. LoanTypes
  <2>1. batch.todo = {} /\ batch = [kind |-> batch.kind, todo |-> batch.todo, copy |-> batch.copy]
    BY DEF LoansInit, NoBatch
  <2> QED BY <2>1 DEF LoansInit, LoanTypes, RequestStatuses, InstallmentStatuses, IdleEmployee, EmployeePlaces
<1>2. LoanExists
  BY DEF LoansInit, LoanExists, NoBatch
<1>3. \A q \in LoanRequests : RequestMatches(q)
  BY DEF LoansInit, RequestMatches, WorksAt, IdleEmployee
<1>4. ASSUME NEW q \in LoanRequests PROVE CopyMatches(q) /\ CountMatches(q)
  <2>1. \A n \in Numbers : <<q, n>> \in Installments
    BY DEF Installments
  <2>2. Paid(q) = {}
    BY <2>1 DEF LoansInit, Paid
  <2>3. Paid(q) # Numbers
    BY <2>2, NumbersFinite
  <2> QED BY <2>1, <2>2, <2>3, FS_EmptySet DEF LoansInit, CopyMatches, CountMatches, NoBatch
<1> QED BY <1>1, <1>2, <1>3, <1>4 DEF LoanInv

\* What only the requests' side changes leaves the counts and the copies alone.
LEMMA CollectionKept ==
  ASSUME LoanInv, UNCHANGED <<installment, batch, taken, stale>>, LoanTypes',
         \A q \in LoanRequests :
           \/ loan'[q] = loan[q]
           \/ loan[q].status = "NONE" /\ loan'[q].status = "ACTIVE" /\ loan'[q].paid = loan[q].paid
  PROVE  LoanExists' /\ \A q \in (LoanRequests \ stale)' : CopyMatches(q)' /\ CountMatches(q)'
<1>1. \A i \in Installments : i[1] \in LoanRequests
  BY DEF Installments
<1>2. LoanExists'
  BY <1>1 DEF LoanInv, LoanTypes, LoanExists
<1>3. \A q \in LoanRequests : Paid(q)' = Paid(q)
  BY DEF Paid
<1>4. ASSUME NEW q \in LoanRequests \ stale PROVE CopyMatches(q)' /\ CountMatches(q)'
  <2>1. loan[q].status = "COMPLETED" <=> loan'[q].status = "COMPLETED"
    BY DEF LoanInv
  <2> QED BY <1>3, <2>1 DEF LoanInv, CopyMatches, CountMatches
<1> QED BY <1>2, <1>4

LEMMA ApprovalKept ==
  ASSUME LoanInv, UNCHANGED <<loanRequest, employee, payout, contested, unsaved>>,
         \A q \in LoanRequests : loan'[q].status = "NONE" <=> loan[q].status = "NONE"
  PROVE  \A q \in LoanRequests : RequestMatches(q)'
BY DEF LoanInv, RequestMatches, WorksAt, Approving

-----------------------------------------------------------------------------
(* Requests *)

LEMMA ReadRequestStep ==
  ASSUME LoanInv, NEW e \in Employees, NEW q \in LoanRequests, NEW place \in {"approve", "reject"},
         ReadRequest(e, q, place)
  PROVE  LoanInv'
<1>1. /\ employee[e] = IdleEmployee /\ loanRequest[q] = "PENDING"
      /\ employee' = [employee EXCEPT ![e] = [at |-> place, id |-> q]]
      /\ contested' = IF \E f \in Employees : employee[f].id = q THEN contested \cup {q} ELSE contested
      /\ UNCHANGED <<loanRequest, loan, installment, due, funds, batch, payout, taken, unsaved, stale>>
  BY DEF ReadRequest
<1>2. LoanTypes'
  BY <1>1 DEF LoanInv, LoanTypes, EmployeePlaces
<1>3. \A f \in Employees \ {e} : employee'[f] = employee[f]
  BY <1>1 DEF LoanInv, LoanTypes
<1>4. employee'[e] = [at |-> place, id |-> q] /\ ~ WorksAt(e, q)
  BY <1>1 DEF LoanInv, LoanTypes, WorksAt, IdleEmployee
<1>5. ASSUME NEW p \in LoanRequests PROVE RequestMatches(p)'
  <2>1. payout'[p] = IF loan'[p].status = "NONE" THEN 0 ELSE 1
    BY <1>1 DEF LoanInv, RequestMatches
  <2>2. Approving(p) => Approving(p)'
    BY <1>1, <1>3 DEF Approving, IdleEmployee
  <2>3. CASE p # q
    BY <1>1, <1>3, <1>4, <2>1, <2>2, <2>3 DEF LoanInv, RequestMatches, WorksAt, IdleEmployee
  <2>4. CASE p = q
    <3>1. CASE \E f \in Employees : employee[f].id = q
      BY <1>1, <2>1, <2>4, <3>1 DEF RequestMatches
    <3>2. CASE ~ \E f \in Employees : employee[f].id = q
      <4>1. \A f \in Employees : WorksAt(f, q)' => f = e
        BY <1>3, <3>2 DEF WorksAt
      <4> QED BY <1>1, <1>4, <2>1, <2>4, <4>1 DEF LoanInv, RequestMatches, WorksAt
    <3> QED BY <3>1, <3>2
  <2> QED BY <2>3, <2>4
<1> QED BY <1>1, <1>2, <1>5, CollectionKept DEF LoanInv

LEMMA EmployeeStep ==
  ASSUME LoanInv, NEW e \in Employees, NEW q \in LoanRequests, employee[e].id = q,
         \/ SaveApproved(e) \/ CommitApproval(e) \/ AbortApproval(e)
         \/ \E answers \in BOOLEAN : RejectLoanRequest(e, answers)
  PROVE  LoanInv'
<1>1. WorksAt(e, q) /\ q \in LoanRequests /\ employee[e].id = q
  BY DEF SaveApproved, CommitApproval, AbortApproval, RejectLoanRequest, WorksAt, LoanInv, LoanTypes
<1>2. /\ UNCHANGED <<installment, batch, taken, stale, contested>>
      /\ \A p \in LoanRequests \ {q} :
           /\ loanRequest'[p] = loanRequest[p] /\ loan'[p] = loan[p] /\ payout'[p] = payout[p]
           /\ p \in unsaved' <=> p \in unsaved
  <2>1. CASE SaveApproved(e)
    BY <2>1 DEF SaveApproved, history, LoanInv, LoanTypes
  <2>2. CASE CommitApproval(e)
    BY <2>2 DEF CommitApproval, LoanInv, LoanTypes
  <2>3. CASE AbortApproval(e)
    BY <2>3 DEF AbortApproval, LoanInv, LoanTypes
  <2>4. CASE \E answers \in BOOLEAN : RejectLoanRequest(e, answers)
    BY <2>4 DEF RejectLoanRequest, history, LoanInv, LoanTypes
  <2> QED BY <2>1, <2>2, <2>3, <2>4
<1>3. /\ \A f \in Employees \ {e} : employee'[f] = employee[f]
      /\ \/ employee'[e] = IdleEmployee
         \/ /\ employee'[e] = [at |-> "saved", id |-> q] /\ loanRequest'[q] = "APPROVED"
            /\ UNCHANGED <<loan, payout>>
  <2>1. CASE SaveApproved(e)
    <3>1. employee[e] \in [at : EmployeePlaces, id : LoanRequests \cup {"none"}]
      BY DEF LoanInv, LoanTypes
    <3>2. employee'[e] = [at |-> "saved", id |-> q]
      BY <1>1, <2>1, <3>1 DEF SaveApproved, LoanInv, LoanTypes
    <3> QED BY <1>1, <2>1, <3>2 DEF SaveApproved, history, LoanInv, LoanTypes
  <2>2. CASE CommitApproval(e)
    BY <2>2 DEF CommitApproval, LoanInv, LoanTypes
  <2>3. CASE AbortApproval(e)
    BY <2>3 DEF AbortApproval, LoanInv, LoanTypes
  <2>4. CASE \E answers \in BOOLEAN : RejectLoanRequest(e, answers)
    BY <2>4 DEF RejectLoanRequest, LoanInv, LoanTypes
  <2> QED BY <2>1, <2>2, <2>3, <2>4
<1>4. LoanTypes'
  <2>1. loanRequest' \in [LoanRequests -> RequestStatuses]
    BY DEF SaveApproved, CommitApproval, AbortApproval, RejectLoanRequest, LoanInv, LoanTypes, RequestStatuses
  <2>2. loan' \in [LoanRequests -> [status : {"NONE", "ACTIVE", "COMPLETED"}, paid : Nat]]
    BY <1>1 DEF SaveApproved, CommitApproval, AbortApproval, RejectLoanRequest, LoanInv, LoanTypes
  <2>3. /\ employee' \in [Employees -> [at : EmployeePlaces, id : LoanRequests \cup {"none"}]]
        /\ \A f \in Employees : employee'[f].at # "idle" => employee'[f].id \in LoanRequests
    <3>1. \/ employee' = [employee EXCEPT ![e] = IdleEmployee] \/ employee' = [employee EXCEPT ![e].at = "saved"]
      BY DEF SaveApproved, CommitApproval, AbortApproval, RejectLoanRequest
    <3>2. employee'[e] \in [at : EmployeePlaces, id : LoanRequests \cup {"none"}]
      BY <1>1, <1>3 DEF EmployeePlaces, IdleEmployee
    <3>3. DOMAIN employee' = Employees
      BY <3>1 DEF LoanInv, LoanTypes
    <3>4. employee' \in [Employees -> [at : EmployeePlaces, id : LoanRequests \cup {"none"}]]
      BY <1>3, <3>1, <3>2, <3>3 DEF LoanInv, LoanTypes
    <3>5. ASSUME NEW f \in Employees, employee'[f].at # "idle" PROVE employee'[f].id \in LoanRequests
      <4>1. CASE f = e
        BY <1>1, <1>3, <3>5, <4>1 DEF IdleEmployee
      <4>2. CASE f # e
        BY <1>3, <3>5, <4>2 DEF LoanInv, LoanTypes
      <4> QED BY <4>1, <4>2
    <3> QED BY <3>4, <3>5
  <2>4. payout' \in [LoanRequests -> Nat] /\ unsaved' \subseteq LoanRequests
    <3>1. payout \in [LoanRequests -> Nat] /\ unsaved \subseteq LoanRequests
      BY DEF LoanInv, LoanTypes
    <3>2. CASE SaveApproved(e) \/ \E answers \in BOOLEAN : RejectLoanRequest(e, answers)
      BY <3>1, <3>2 DEF SaveApproved, RejectLoanRequest, history
    <3>3. CASE CommitApproval(e)
      BY <1>1, <3>1, <3>3 DEF CommitApproval, history
    <3>4. CASE AbortApproval(e)
      BY <1>1, <3>1, <3>4 DEF AbortApproval, history
    <3> QED BY <3>2, <3>3, <3>4
  <2> QED BY <1>2, <2>1, <2>2, <2>3, <2>4 DEF LoanInv, LoanTypes
<1>5. ASSUME NEW p \in LoanRequests \ {q} PROVE RequestMatches(p)'
  <2>1. \A f \in Employees : WorksAt(f, p)' <=> WorksAt(f, p)
    BY <1>1, <1>3 DEF WorksAt, IdleEmployee
  <2>2. \A f \in Employees : WorksAt(f, p) => employee'[f] = employee[f]
    BY <1>1, <1>3 DEF WorksAt
  <2>3. Approving(p)' <=> Approving(p)
    BY <2>1, <2>2 DEF Approving, WorksAt
  <2> QED BY <1>2, <2>1, <2>2, <2>3 DEF LoanInv, RequestMatches
<1>6. RequestMatches(q)'
  <2>1. RequestMatches(q)
    BY <1>1 DEF LoanInv
  <2>2. q \notin contested => \A f \in Employees : WorksAt(f, q)' => f = e
    BY <1>1, <1>3, <2>1 DEF RequestMatches, WorksAt
  <2>3. CASE SaveApproved(e)
    <3>1. /\ employee[e].at = "approve" /\ loanRequest'[q] = "APPROVED"
          /\ employee'[e] = [at |-> "saved", id |-> q] /\ UNCHANGED <<loan, payout>>
      BY <1>1, <2>3 DEF SaveApproved, history, LoanInv, LoanTypes
    <3>2. Approving(q)'
      BY <3>1 DEF Approving
    <3> QED BY <1>1, <1>2, <2>1, <2>2, <3>1, <3>2 DEF RequestMatches, WorksAt
  <2>4. CASE CommitApproval(e)
    <3>1. /\ employee[e].at = "saved" /\ loan[q].status = "NONE" /\ loan'[q].status = "ACTIVE"
          /\ payout'[q] = payout[q] + 1 /\ employee'[e] = IdleEmployee /\ loanRequest' = loanRequest
      BY <1>1, <2>4 DEF CommitApproval, LoanInv, LoanTypes
    <3>2. payout'[q] = 1
      BY <2>1, <3>1 DEF RequestMatches
    <3>3. q \notin contested => \A f \in Employees : ~ WorksAt(f, q)'
      BY <2>2, <3>1 DEF WorksAt, IdleEmployee
    <3> QED BY <1>1, <1>2, <2>1, <3>1, <3>2, <3>3 DEF RequestMatches
  <2>5. CASE AbortApproval(e)
    <3>1. /\ employee'[e] = IdleEmployee /\ UNCHANGED <<loanRequest, loan, payout>>
          /\ employee[e].at = "saved" => q \in unsaved'
          /\ q \in unsaved => q \in unsaved'
      BY <1>1, <2>5 DEF AbortApproval, LoanInv, LoanTypes
    <3>2. q \notin contested => \A f \in Employees : ~ WorksAt(f, q)'
      BY <2>2, <3>1 DEF WorksAt, IdleEmployee
    <3> QED BY <1>1, <1>2, <2>1, <3>1, <3>2 DEF RequestMatches
  <2>6. CASE \E answers \in BOOLEAN : RejectLoanRequest(e, answers)
    <3>1. /\ employee[e].at = "reject" /\ employee'[e] = IdleEmployee /\ UNCHANGED <<loan, payout, unsaved>>
          /\ loanRequest'[q] \in {loanRequest[q], "REJECTED"}
      BY <1>1, <2>6 DEF RejectLoanRequest, history, LoanInv, LoanTypes
    <3>2. q \notin contested => \A f \in Employees : ~ WorksAt(f, q)'
      BY <2>2, <3>1 DEF WorksAt, IdleEmployee
    <3>3. q \notin contested => loanRequest[q] = "PENDING" /\ loan[q].status = "NONE"
      BY <1>1, <2>1, <3>1 DEF RequestMatches
    <3> QED BY <1>1, <1>2, <2>1, <3>1, <3>2, <3>3 DEF RequestMatches
  <2> QED BY <2>3, <2>4, <2>5, <2>6
<1>7. \A p \in LoanRequests :
        \/ loan'[p] = loan[p]
        \/ loan[p].status = "NONE" /\ loan'[p].status = "ACTIVE" /\ loan'[p].paid = loan[p].paid
  BY <1>1 DEF SaveApproved, CommitApproval, AbortApproval, RejectLoanRequest, LoanInv, LoanTypes
<1>8. LoanExists' /\ \A p \in (LoanRequests \ stale)' : CopyMatches(p)' /\ CountMatches(p)'
  BY <1>2, <1>4, <1>7, CollectionKept
<1> QED BY <1>4, <1>5, <1>6, <1>8 DEF LoanInv

LEMMA SubmitStep ==
  ASSUME LoanInv, NEW q \in LoanRequests, SubmitLoanRequest(q)
  PROVE  LoanInv'
<1>1. /\ loanRequest[q] = "NONE" /\ loanRequest' = [loanRequest EXCEPT ![q] = "PENDING"]
      /\ UNCHANGED <<loan, installment, employee, batch, payout, taken, contested, unsaved, stale>>
  BY DEF SubmitLoanRequest, history
<1>2. LoanTypes'
  BY <1>1 DEF LoanInv, LoanTypes, RequestStatuses
<1>3. ASSUME NEW p \in LoanRequests PROVE RequestMatches(p)'
  <2>1. RequestMatches(p) /\ (Approving(p)' <=> Approving(p))
    BY <1>1 DEF LoanInv, Approving
  <2>2. CASE p # q
    BY <1>1, <2>1, <2>2 DEF LoanInv, LoanTypes, RequestMatches, WorksAt
  <2>3. CASE p = q
    <3>1. loanRequest[p] = "NONE" /\ loanRequest'[p] = "PENDING"
      BY <1>1, <2>3 DEF LoanInv, LoanTypes
    <3> QED BY <1>1, <2>1, <3>1 DEF RequestMatches, WorksAt
  <2> QED BY <2>2, <2>3
<1> QED BY <1>1, <1>2, <1>3, CollectionKept DEF LoanInv

-----------------------------------------------------------------------------
(* Instalments *)

LEMMA QuietLoanStep ==
  ASSUME LoanInv, NEW q \in LoanRequests,
         Month(q) \/ \E amount \in 0 .. MaxFunds : ClientMovesMoney(q, amount)
  PROVE  LoanInv'
<1>1. UNCHANGED <<loanRequest, loan, installment, employee, batch, payout, taken, contested, unsaved, stale>>
  BY DEF Month, ClientMovesMoney, history
<1>2. LoanTypes' /\ LoanExists'
  BY <1>1 DEF LoanInv, LoanTypes, LoanExists
<1>3. \A p \in LoanRequests : RequestMatches(p)'
  BY <1>1, ApprovalKept
<1>4. \A p \in LoanRequests \ stale : CopyMatches(p)' /\ CountMatches(p)'
  BY <1>1 DEF LoanInv, CopyMatches, CountMatches, Paid
<1> QED BY <1>1, <1>2, <1>3, <1>4 DEF LoanInv

\* The batch becomes a part of itself, and nothing else changes.
LEMMA BatchShrinks ==
  ASSUME LoanInv, NEW i, PaymentRolledBack(i) \/ Restart
  PROVE  LoanInv'
<1>1. UNCHANGED <<loanRequest, loan, installment, employee, payout, taken, contested, unsaved, stale>>
  BY DEF PaymentRolledBack, Restart, history
<1>2. /\ batch' = [kind |-> batch'.kind, todo |-> batch'.todo, copy |-> batch'.copy]
      /\ batch'.todo \subseteq batch.todo
      /\ batch'.todo # {} => batch'.copy = batch.copy
  <2>1. CASE PaymentRolledBack(i)
    BY <2>1 DEF PaymentRolledBack, Finished, LoanInv, LoanTypes
  <2>2. CASE Restart
    BY <2>2 DEF Restart, NoBatch
  <2> QED BY <2>1, <2>2
<1>3. LoanTypes' /\ LoanExists'
  BY <1>1, <1>2 DEF LoanInv, LoanTypes, LoanExists
<1>4. \A p \in LoanRequests : RequestMatches(p)'
  BY <1>1, ApprovalKept
<1>5. \A p \in LoanRequests \ stale : CopyMatches(p)' /\ CountMatches(p)'
  BY <1>1, <1>2 DEF LoanInv, CopyMatches, CountMatches, Paid
<1> QED BY <1>1, <1>3, <1>4, <1>5 DEF LoanInv

\* The loans of which no instalment is worked at.
LEMMA OthersKept ==
  ASSUME LoanInv, NEW q \in LoanRequests, NEW n \in Numbers, <<q, n>> \in batch.todo, Finished(<<q, n>>),
         \A j \in Installments \ {<<q, n>>} :
           installment'[j] = installment[j] /\ taken'[j] = taken[j],
         \A p \in LoanRequests \ {q} : loan'[p] = loan[p]
  PROVE  /\ \A p \in LoanRequests \ {q} : p \notin stale => CopyMatches(p)' /\ CountMatches(p)'
         /\ q \notin stale => CopyMatches(q)'
<1>1. batch'.todo = batch.todo \ {<<q, n>>} /\ batch'.copy = batch.copy
  BY DEF Finished, LoanInv, LoanTypes
<1>2. \A j \in batch.todo : j \in Installments
  BY DEF LoanInv, LoanTypes
<1>3. ASSUME NEW p \in LoanRequests \ {q}, p \notin stale PROVE CopyMatches(p)' /\ CountMatches(p)'
  <2>1. \A m \in Numbers : <<p, m>> \in Installments \ {<<q, n>>}
    BY DEF Installments
  <2>2. Paid(p)' = Paid(p)
    BY <2>1 DEF Paid
  <2>3. CopyMatches(p) /\ CountMatches(p)
    BY <1>3 DEF LoanInv
  <2>4. CountMatches(p)'
    BY <2>1, <2>2, <2>3 DEF CountMatches
  <2>5. \A j \in batch.todo : j[1] = p => j \in Installments \ {<<q, n>>}
    BY <1>2
  <2>6. CopyMatches(p)'
    BY <1>1, <2>3, <2>5 DEF CopyMatches
  <2> QED BY <2>4, <2>6
<1>4. ASSUME q \notin stale PROVE CopyMatches(q)'
  <2>1. CopyMatches(q)
    BY <1>4 DEF LoanInv
  <2>2. \A j \in batch'.todo : j[1] # q
    BY <1>1, <2>1 DEF CopyMatches
  <2> QED BY <2>2 DEF CopyMatches
<1> QED BY <1>3, <1>4

LEMMA PaymentFailsStep ==
  ASSUME LoanInv, NEW q \in LoanRequests, NEW n \in Numbers, PaymentFails(<<q, n>>)
  PROVE  LoanInv'
<1> DEFINE after == AfterFailure(batch.copy[<<q, n>>].status)
<1>1. /\ <<q, n>> \in batch.todo /\ <<q, n>> \in Installments /\ Finished(<<q, n>>)
      /\ installment' = [installment EXCEPT ![<<q, n>>] = after] /\ after \in {"UNPAID", "RETRYING"}
      /\ UNCHANGED <<loanRequest, loan, employee, payout, taken, contested, unsaved, stale>>
  BY DEF PaymentFails, AfterFailure, history, Installments
<1>2. /\ batch'.todo \subseteq batch.todo /\ batch'.copy = batch.copy
      /\ batch' = [kind |-> batch'.kind, todo |-> batch'.todo, copy |-> batch'.copy]
  BY <1>1 DEF Finished, LoanInv, LoanTypes
<1> HIDE DEF after
<1>3. LoanTypes'
  BY <1>1, <1>2 DEF LoanInv, LoanTypes, InstallmentStatuses
<1>4. LoanExists'
  BY <1>1, <1>2 DEF LoanInv, LoanTypes, LoanExists
<1>5. \A p \in LoanRequests : RequestMatches(p)'
  BY <1>1, ApprovalKept
<1>6. \A p \in LoanRequests \ {q} : p \notin stale => CopyMatches(p)' /\ CountMatches(p)'
  <2>1. /\ \A j \in Installments \ {<<q, n>>} :
             installment'[j] = installment[j] /\ taken'[j] = taken[j]
        /\ \A p \in LoanRequests \ {q} : loan'[p] = loan[p]
    BY <1>1 DEF LoanInv, LoanTypes
  <2> QED BY <1>1, <2>1, OthersKept
<1>7. ASSUME q \notin stale PROVE CopyMatches(q)' /\ CountMatches(q)'
  <2>1. CopyMatches(q) /\ CountMatches(q)
    BY <1>7 DEF LoanInv
  <2>2. installment[<<q, n>>] # "PAID" /\ installment'[<<q, n>>] # "PAID"
    BY <1>1, <2>1 DEF CopyMatches, LoanInv, LoanTypes
  <2>3. Paid(q)' = Paid(q)
    <3>1. ASSUME NEW m \in Numbers
          PROVE  installment'[<<q, m>>] = "PAID" <=> installment[<<q, m>>] = "PAID"
      <4>1. CASE m = n
        BY <2>2, <4>1
      <4>2. CASE m # n
        BY <1>1, <4>2 DEF LoanInv, LoanTypes, Installments
      <4> QED BY <4>1, <4>2
    <3> QED BY <3>1 DEF Paid
  <2>4. CountMatches(q)'
    BY <1>1, <2>1, <2>3 DEF CountMatches
  <2>5. CopyMatches(q)'
    <3>1. \A j \in Installments \ {<<q, n>>} :
            installment'[j] = installment[j] /\ taken'[j] = taken[j]
      BY <1>1 DEF LoanInv, LoanTypes
    <3> QED BY <1>1, <1>7, <3>1, OthersKept
  <2> QED BY <2>4, <2>5
<1> QED BY <1>1, <1>3, <1>4, <1>5, <1>6, <1>7 DEF LoanInv

\* A payment: the money is taken and the loan is counted on, in one transaction.
LEMMA TakeKeeps ==
  ASSUME LoanInv, NEW q \in LoanRequests, NEW n \in Numbers, NEW result \in {"PAID", "RETRYING"},
         Take(<<q, n>>), Finished(<<q, n>>), installment' = [installment EXCEPT ![<<q, n>>] = result],
         UNCHANGED <<loanRequest, employee, payout, contested, unsaved>>,
         stale \subseteq stale', stale' \subseteq stale \cup {q}
  PROVE  /\ LoanTypes' /\ LoanExists' /\ \A p \in LoanRequests : RequestMatches(p)'
         /\ \A p \in LoanRequests \ {q} : p \notin stale => CopyMatches(p)' /\ CountMatches(p)'
         /\ q \notin stale => CopyMatches(q)'
<1> DEFINE after == LoanAfter(<<q, n>>)
<1>1. /\ <<q, n>> \in batch.todo /\ <<q, n>> \in Installments
      /\ taken' = [taken EXCEPT ![<<q, n>>] = @ + 1] /\ loan' = [loan EXCEPT ![q] = after]
  BY DEF Take, Installments
<1>2. after \in [status : {"COMPLETED", "ACTIVE"}, paid : Nat]
  <2>1. batch.copy[<<q, n>>].paid + 1 \in Nat
    BY <1>1 DEF LoanInv, LoanTypes
  <2> QED BY <2>1 DEF LoanAfter
<1> HIDE DEF after
<1>3. /\ batch'.todo \subseteq batch.todo /\ batch'.copy = batch.copy
      /\ batch' = [kind |-> batch'.kind, todo |-> batch'.todo, copy |-> batch'.copy]
  BY DEF Finished, LoanInv, LoanTypes
<1>4. LoanTypes'
  <2>1. loan' \in [LoanRequests -> [status : {"NONE", "ACTIVE", "COMPLETED"}, paid : Nat]]
    BY <1>1, <1>2 DEF LoanInv, LoanTypes
  <2>2. installment' \in [Installments -> InstallmentStatuses] /\ taken' \in [Installments -> Nat]
    BY <1>1 DEF LoanInv, LoanTypes, InstallmentStatuses
  <2>3. \A i \in batch'.todo : batch'.copy[i].status \in InstallmentStatuses /\ batch'.copy[i].paid \in Nat
    BY <1>3 DEF LoanInv, LoanTypes
  <2>4. stale' \subseteq LoanRequests /\ batch'.todo \subseteq Installments
    BY <1>3 DEF LoanInv, LoanTypes
  <2> QED BY <1>3, <2>1, <2>2, <2>3, <2>4 DEF LoanInv, LoanTypes
<1>5. loan'[q].status # "NONE" /\ loan[q].status # "NONE" /\ \A p \in LoanRequests \ {q} : loan'[p] = loan[p]
  BY <1>1, <1>2 DEF LoanInv, LoanTypes, LoanExists
<1>6. \A i \in Installments : i[1] \in LoanRequests
  BY DEF Installments
<1>7. LoanExists'
  <2>1. \A p \in LoanRequests : loan[p].status # "NONE" => loan'[p].status # "NONE"
    BY <1>5
  <2>2. \A i \in Installments : i = <<q, n>> \/ installment'[i] = installment[i]
    BY DEF LoanInv, LoanTypes
  <2>3. \A i \in batch.todo : i \in Installments
    BY DEF LoanInv, LoanTypes
  <2>4. \A i \in batch'.todo : loan'[i[1]].status # "NONE"
    BY <1>3, <1>6, <2>1, <2>3 DEF LoanInv, LoanExists
  <2>5. \A i \in Installments : installment'[i] # "PENDING" => loan'[i[1]].status # "NONE"
    BY <1>5, <1>6, <2>1, <2>2 DEF LoanInv, LoanExists
  <2> QED BY <2>4, <2>5 DEF LoanExists
<1>8. \A p \in LoanRequests : RequestMatches(p)'
  BY <1>5, ApprovalKept
<1>9. /\ \A p \in LoanRequests \ {q} : p \notin stale => CopyMatches(p)' /\ CountMatches(p)'
      /\ q \notin stale => CopyMatches(q)'
  <2>1. \A j \in Installments \ {<<q, n>>} :
          installment'[j] = installment[j] /\ taken'[j] = taken[j]
    BY <1>1 DEF LoanInv, LoanTypes
  <2> QED BY <1>1, <1>5, <2>1, OthersKept
<1> QED BY <1>4, <1>7, <1>8, <1>9

LEMMA PayInstallmentStep ==
  ASSUME LoansAssumption, LoanInv, NEW q \in LoanRequests, NEW n \in Numbers, PayInstallment(<<q, n>>)
  PROVE  LoanInv'
<1>1. /\ Take(<<q, n>>) /\ Finished(<<q, n>>) /\ installment' = [installment EXCEPT ![<<q, n>>] = "PAID"]
      /\ UNCHANGED <<loanRequest, employee, payout, contested, unsaved>> /\ stale' = stale
  BY DEF PayInstallment
<1>2. /\ LoanTypes' /\ LoanExists' /\ \A p \in LoanRequests : RequestMatches(p)'
      /\ \A p \in LoanRequests \ {q} : p \notin stale => CopyMatches(p)' /\ CountMatches(p)'
      /\ q \notin stale => CopyMatches(q)'
  BY <1>1, TakeKeeps
<1>3. ASSUME q \notin stale PROVE CountMatches(q)'
  <2>1. CopyMatches(q) /\ CountMatches(q)
    BY <1>3 DEF LoanInv
  <2>2. /\ <<q, n>> \in batch.todo /\ taken' = [taken EXCEPT ![<<q, n>>] = @ + 1]
        /\ loan' = [loan EXCEPT ![q] = LoanAfter(<<q, n>>)]
    BY <1>1 DEF Take
  <2>3. n \notin Paid(q) /\ batch.copy[<<q, n>>].paid = Cardinality(Paid(q))
    BY <2>1, <2>2 DEF CopyMatches, CountMatches, Paid
  <2>4. \A m \in Numbers : <<q, m>> \in Installments
    BY DEF Installments
  <2>5. Paid(q)' = Paid(q) \cup {n}
    <3>1. \A m \in Numbers : installment'[<<q, m>>] = IF m = n THEN "PAID" ELSE installment[<<q, m>>]
      BY <1>1, <2>4 DEF LoanInv, LoanTypes
    <3> QED BY <3>1 DEF Paid
  <2>6. \A m \in Numbers : taken'[<<q, m>>] = IF m \in Paid(q)' THEN 1 ELSE 0
    <3>1. ASSUME NEW m \in Numbers PROVE taken'[<<q, m>>] = IF m \in Paid(q)' THEN 1 ELSE 0
      <4>1. taken[<<q, m>>] = IF m \in Paid(q) THEN 1 ELSE 0
        BY <2>1 DEF CountMatches
      <4>2. CASE m = n
        BY <2>2, <2>3, <2>4, <2>5, <4>1, <4>2 DEF LoanInv, LoanTypes
      <4>3. CASE m # n
        BY <2>2, <2>4, <2>5, <4>1, <4>3 DEF LoanInv, LoanTypes
      <4> QED BY <4>2, <4>3
    <3> QED BY <3>1
  <2>7. /\ IsFiniteSet(Paid(q)) /\ IsFiniteSet(Paid(q)')
        /\ Cardinality(Paid(q)') = Cardinality(Paid(q)) + 1
    <3>1. IsFiniteSet(Paid(q))
      BY NumbersFinite, FS_Subset DEF Paid
    <3> QED BY <2>3, <2>5, <3>1, FS_AddElement
  <2>8. loan'[q] = [status |-> IF Cardinality(Paid(q)') >= Period THEN "COMPLETED" ELSE "ACTIVE",
                    paid |-> Cardinality(Paid(q)')]
    BY <2>2, <2>3, <2>7 DEF LoanAfter, LoanInv, LoanTypes
  <2>9. Cardinality(Paid(q)') >= Period <=> Paid(q)' = Numbers
    <3> DEFINE P == Paid(q)'
    <3>1. P \subseteq Numbers
      BY DEF Paid
    <3>2. IsFiniteSet(Numbers) /\ Cardinality(Numbers) = Period /\ Period \in Nat
      BY NumbersFinite
    <3> HIDE DEF P
    <3>3. IsFiniteSet(P) /\ Cardinality(P) <= Cardinality(Numbers)
          /\ (Cardinality(Numbers) = Cardinality(P) => Numbers = P)
      BY <3>1, <3>2, FS_Subset
    <3>4. Cardinality(P) \in Nat
      BY <3>3, FS_CardinalityType
    <3>5. Cardinality(P) >= Period <=> P = Numbers
      BY <3>2, <3>3, <3>4
    <3> QED BY <3>5 DEF P
  <2> QED BY <2>6, <2>8, <2>9 DEF CountMatches
<1> QED BY <1>1, <1>2, <1>3 DEF LoanInv

LEMMA CommitReportsErrorStep ==
  ASSUME LoanInv, NEW q \in LoanRequests, NEW n \in Numbers, CommitReportsError(<<q, n>>)
  PROVE  LoanInv'
<1>1. /\ Take(<<q, n>>) /\ Finished(<<q, n>>)
      /\ installment' = [installment EXCEPT ![<<q, n>>] = "RETRYING"]
      /\ UNCHANGED <<loanRequest, employee, payout, contested, unsaved>> /\ stale' = stale \cup {q}
  BY DEF CommitReportsError, AfterFailure
<1> QED BY <1>1, TakeKeeps DEF LoanInv

LEMMA ReadStep ==
  ASSUME LoansAssumption, LoanInv, NEW kind, NEW S \in SUBSET Installments,
         \A i \in S : loan[i[1]].status # "NONE" /\ installment[i] # "PAID", Read(kind, S)
  PROVE  LoanInv'
<1>1. /\ batch' = [kind |-> kind, todo |-> S,
                   copy |-> [i \in S |-> [status |-> installment[i], paid |-> loan[i[1]].paid]]]
      /\ stale' = stale \cup {q \in LoanRequests : Cardinality({i \in S : i[1] = q}) > 1}
      /\ UNCHANGED <<loanRequest, loan, installment, employee, payout, taken, contested, unsaved>>
  BY DEF Read
<1>2. batch'.todo = S
      /\ \A i \in S : batch'.copy[i] = [status |-> installment[i], paid |-> loan[i[1]].paid]
  BY <1>1
<1>3. LoanTypes'
  <2>1. \A i \in S : i \in Installments /\ i[1] \in LoanRequests
    BY DEF Installments
  <2>2. batch' = [kind |-> batch'.kind, todo |-> batch'.todo, copy |-> batch'.copy]
    BY <1>1
  <2>3. ASSUME NEW i \in S
        PROVE  batch'.copy[i].status \in InstallmentStatuses /\ batch'.copy[i].paid \in Nat
    <3>1. installment[i] \in InstallmentStatuses /\ loan[i[1]].paid \in Nat
      BY <2>1 DEF LoanInv, LoanTypes
    <3>2. batch'.copy[i] = [status |-> installment[i], paid |-> loan[i[1]].paid]
      BY <1>2
    <3> DEFINE c == batch'.copy[i]
    <3>3. c.status = installment[i] /\ c.paid = loan[i[1]].paid
      BY <3>2
    <3> QED BY <3>1, <3>3
  <2> QED BY <1>1, <1>2, <2>2, <2>3 DEF LoanInv, LoanTypes
<1>4. LoanExists'
  BY <1>1, <1>2 DEF LoanInv, LoanExists
<1>5. \A p \in LoanRequests : RequestMatches(p)'
  BY <1>1, ApprovalKept
<1>6. ASSUME NEW q \in LoanRequests, q \notin stale' PROVE CopyMatches(q)' /\ CountMatches(q)'
  <2>1. q \notin stale /\ ~ Cardinality({i \in S : i[1] = q}) > 1
    BY <1>1, <1>6
  <2>2. CountMatches(q)'
    BY <1>1, <2>1 DEF LoanInv, CountMatches, Paid
  <2>3. ASSUME NEW i \in S, NEW j \in S, i[1] = q, j[1] = q PROVE i = j
    <3> DEFINE T == {k \in S : k[1] = q}
    <3>1. IsFiniteSet(T)
      <4>1. IsFiniteSet({q} \X Numbers)
        BY NumbersFinite, FS_Singleton, FS_Product
      <4>2. T \subseteq {q} \X Numbers
        BY DEF Installments
      <4> QED BY <4>1, <4>2, FS_Subset
    <3>2. SUFFICES ASSUME i # j PROVE FALSE
      OBVIOUS
    <3> DEFINE U == {i}
    <3>3. IsFiniteSet(U) /\ Cardinality(U) = 1 /\ j \notin U
      BY <3>2, FS_Singleton
    <3>4. U \cup {j} \subseteq T
      BY <2>3
    <3> HIDE DEF U
    <3>5. IsFiniteSet(U \cup {j}) /\ Cardinality(U \cup {j}) = 2
      <4>1. /\ IsFiniteSet(U \cup {j})
            /\ Cardinality(U \cup {j}) = IF j \in U THEN Cardinality(U) ELSE Cardinality(U) + 1
        BY <3>3, FS_AddElement, Zenon
      <4> QED BY <3>3, <4>1
    <3>6. ~ Cardinality(T) > 1
      BY <2>1
    <3> HIDE DEF T
    <3>7. Cardinality(T) \in Nat /\ 2 <= Cardinality(T)
      BY <3>1, <3>4, <3>5, FS_Subset, FS_CardinalityType
    <3> QED BY <3>6, <3>7
  <2>4. CopyMatches(q)'
    BY <1>1, <1>2, <2>3 DEF CopyMatches
  <2> QED BY <2>2, <2>4
<1> QED BY <1>1, <1>3, <1>4, <1>5, <1>6 DEF LoanInv

-----------------------------------------------------------------------------
LEMMA LoanStep == LoansAssumption /\ LoanInv /\ [LoansNext]_loanVars => LoanInv'
<1> SUFFICES ASSUME LoansAssumption, LoanInv, [LoansNext]_loanVars PROVE LoanInv'
  OBVIOUS
<1>1. CASE \E q \in LoanRequests : SubmitLoanRequest(q)
  BY <1>1, SubmitStep
<1>2. CASE \E q \in LoanRequests : Month(q)
  BY <1>2, QuietLoanStep
<1>3. CASE \E q \in LoanRequests, amount \in 0 .. MaxFunds : ClientMovesMoney(q, amount)
  BY <1>3, QuietLoanStep
<1>4. CASE \E e \in Employees, q \in LoanRequests, place \in {"approve", "reject"} : ReadRequest(e, q, place)
  BY <1>4, ReadRequestStep
<1>5. ASSUME NEW e \in Employees,
             \/ SaveApproved(e) \/ CommitApproval(e) \/ AbortApproval(e)
             \/ \E answers \in BOOLEAN : RejectLoanRequest(e, answers)
      PROVE  LoanInv'
  <2>1. employee[e].id \in LoanRequests
    <3>1. employee[e].at # "idle"
      BY <1>5 DEF SaveApproved, CommitApproval, AbortApproval, RejectLoanRequest
    <3> QED BY <3>1 DEF LoanInv, LoanTypes
  <2>2. PICK q \in LoanRequests : employee[e].id = q
    BY <2>1
  <2> QED BY <1>5, <2>2, EmployeeStep
<1>6. CASE ProcessDueInstallments
  <2> DEFINE S == {i \in Installments : IsDue(i)}
  <2>1. Read("due", S) /\ S \in SUBSET Installments
    BY <1>6 DEF ProcessDueInstallments
  <2>2. \A i \in S : loan[i[1]].status # "NONE" /\ installment[i] # "PAID"
    BY DEF IsDue
  <2>3. PICK T \in SUBSET Installments : T = S
    BY <2>1
  <2> QED BY <2>1, <2>2, <2>3, ReadStep
<1>7. CASE \E S \in SUBSET Retrying : ProcessRetryInstallments(S)
  <2>1. PICK S \in SUBSET Retrying : Read("retry", S)
    BY <1>7 DEF ProcessRetryInstallments
  <2>2. S \in SUBSET Installments
    BY DEF Retrying
  <2>3. \A i \in S : loan[i[1]].status # "NONE" /\ installment[i] # "PAID"
    BY DEF Retrying, LoanInv, LoanExists
  <2> QED BY <2>1, <2>2, <2>3, ReadStep
<1>8. ASSUME NEW i \in Installments,
             PayInstallment(i) \/ PaymentFails(i) \/ PaymentRolledBack(i) \/ CommitReportsError(i)
      PROVE  LoanInv'
  <2>1. PICK q \in LoanRequests, n \in Numbers : i = <<q, n>>
    BY DEF Installments
  <2> QED BY <1>8, <2>1, PayInstallmentStep, PaymentFailsStep, BatchShrinks, CommitReportsErrorStep
<1>9. CASE Restart
  BY <1>9, BatchShrinks
<1>10. CASE UNCHANGED loanVars
  <2>1. UNCHANGED <<loanRequest, loan, installment, employee, batch, payout, taken, contested, unsaved, stale>>
    BY <1>10 DEF loanVars, history
  <2>2. LoanTypes' /\ LoanExists'
    BY <2>1 DEF LoanInv, LoanTypes, LoanExists
  <2>3. \A q \in LoanRequests : RequestMatches(q)'
    BY <2>1, ApprovalKept
  <2>4. \A q \in LoanRequests \ stale : CopyMatches(q)' /\ CountMatches(q)'
    BY <2>1 DEF LoanInv, CopyMatches, CountMatches, Paid
  <2> QED BY <2>1, <2>2, <2>3, <2>4 DEF LoanInv
<1> QED BY <1>1, <1>2, <1>3, <1>4, <1>5, <1>6, <1>7, <1>8, <1>9, <1>10 DEF LoansNext

\* The copies that the employees and the scheduler work with match what is
\* stored, wherever the invariant needs them to.
THEOREM LoanInvariant == LoansAssumption => (LoansSpec => []LoanInv)
<1> SUFFICES ASSUME LoansAssumption PROVE LoansSpec => []LoanInv
  OBVIOUS
<1>1. LoansInit => LoanInv
  BY LoanInit
<1>2. LoanInv /\ [LoansNext]_loanVars => LoanInv'
  BY LoanStep
<1> QED BY <1>1, <1>2, PTL DEF LoansSpec

\* The money of a loan is paid out once, with the loan, and unless two calls
\* overlapped the request says whether there is a loan.
THEOREM AlwaysPaidOutOnce == LoansAssumption => (LoansSpec => []PaidOutOnce)
<1> SUFFICES ASSUME LoansAssumption PROVE LoansSpec => []PaidOutOnce
  OBVIOUS
<1>1. LoanInv => PaidOutOnce
  BY DEF LoanInv, RequestMatches, PaidOutOnce
<1>2. LoansSpec => []LoanInv
  BY LoanInvariant
<1> QED BY <1>1, <1>2, PTL

\* But for loans of which a batch held two copies and payments committed and
\* reported as failed, an instalment is taken once and the loan counts it.
THEOREM InstallmentsAlwaysCounted == LoansAssumption => (LoansSpec => []InstallmentsCounted)
<1> SUFFICES ASSUME LoansAssumption PROVE LoansSpec => []InstallmentsCounted
  OBVIOUS
<1>1. LoanInv => InstallmentsCounted
  BY DEF LoanInv, CountMatches, InstallmentsCounted
<1>2. LoansSpec => []LoanInv
  BY LoanInvariant
<1> QED BY <1>1, <1>2, PTL

-----------------------------------------------------------------------------
(* Cards *)

CallPlaces == {"idle", "request", "confirm", "Blocked", "Active", "Deactivated"}
CallRows == [at : CallPlaces, id : CardIds \cup RequestIds \cup {Nothing},
             account : CardAccounts \cup {Nothing}, owner : BOOLEAN]

RowTypes ==
    /\ card \in [CardIds -> CardRows \cup {NoCard}]
    /\ cardRequest \in [RequestIds -> RequestRows \cup {NoRequest}]
    /\ cardCall \in [CardCalls -> CallRows]
    /\ crowded \subseteq CardAccounts

\* A call is about a row that exists, and is of its account.
CallTypes ==
    \A c \in CardCalls :
      /\ cardCall[c].at # "idle" => cardCall[c].account \in CardAccounts
      /\ cardCall[c].at = "confirm" =>
           cardCall[c].id \in RequestIds /\ cardRequest[cardCall[c].id].account = cardCall[c].account
      /\ cardCall[c].at \in CardStatuses =>
           cardCall[c].id \in CardIds /\ card[cardCall[c].id].account = cardCall[c].account

Limits(a) ==
    /\ IsFiniteSet(Valid(a)) /\ IsFiniteSet(Pending(a))
    /\ a \in Personal => Cardinality(Valid(a)) <= MaxPersonal
    /\ a \in Business => Cardinality(Owners(a)) <= MaxBusiness
    /\ Cardinality(Pending(a)) <= 1

\* What the only call at an account has found there.
Found(a, view) ==
    /\ view.at = "request" => Pending(a) = {}
    /\ view.at = "confirm" => Room(a, view.owner)
    /\ view.at \in {"Blocked", "Active"} => card[view.id].status # "Deactivated"

Alone(a) ==
    /\ \A c, d \in CardCalls : cardCall[c].account = a /\ cardCall[d].account = a => c = d
    /\ \A c \in CardCalls : cardCall[c].account = a => Found(a, cardCall[c])

CardInv ==
    /\ RowTypes /\ CallTypes
    /\ \A a \in CardAccounts \ crowded : Limits(a) /\ Alone(a)

-----------------------------------------------------------------------------
LEMMA Maxima == ASSUME CardsAssumption PROVE MaxPersonal \in Nat \ {0} /\ MaxBusiness \in Nat \ {0}
BY DEF CardsAssumption

LEMMA NothingExists == ASSUME CardsAssumption PROVE \A a \in CardAccounts : a # Nothing
BY DEF CardsAssumption

LEMMA SmallerCount ==
  ASSUME NEW S, IsFiniteSet(S), NEW T \in SUBSET S
  PROVE  /\ IsFiniteSet(T) /\ Cardinality(T) \in Nat /\ Cardinality(S) \in Nat
         /\ Cardinality(T) <= Cardinality(S)
BY FS_Subset, FS_CardinalityType

LEMMA OneMore ==
  ASSUME NEW S, IsFiniteSet(S), NEW x
  PROVE  /\ IsFiniteSet(S \cup {x}) /\ Cardinality(S) \in Nat /\ Cardinality(S \cup {x}) \in Nat
         /\ Cardinality(S \cup {x}) <= Cardinality(S) + 1
<1>1. /\ IsFiniteSet(S \cup {x})
      /\ Cardinality(S \cup {x}) = IF x \in S THEN Cardinality(S) ELSE Cardinality(S) + 1
  BY FS_AddElement, Zenon
<1>2. Cardinality(S) \in Nat
  BY FS_CardinalityType
<1> QED BY <1>1, <1>2

\* Fewer cards and requests keep the limits, and leave room where there was room.
LEMMA FewerKept ==
  ASSUME CardsAssumption, NEW a, Limits(a), Valid(a)' \subseteq Valid(a),
         Owners(a)' \subseteq Owners(a), Pending(a)' \subseteq Pending(a)
  PROVE  Limits(a)' /\ \A owner \in BOOLEAN : Room(a, owner) => Room(a, owner)'
<1> DEFINE V == Valid(a)   V1 == Valid(a)'
           O == Owners(a)  O1 == Owners(a)'
           P == Pending(a) P1 == Pending(a)'
<1>1. IsFiniteSet(V) /\ IsFiniteSet(P) /\ O \subseteq V /\ V1 \subseteq V /\ O1 \subseteq O /\ P1 \subseteq P
  BY DEF Limits, Owners
<1>2. /\ a \in Personal => Cardinality(V) <= MaxPersonal
      /\ a \in Business => Cardinality(O) <= MaxBusiness
      /\ Cardinality(P) <= 1
  BY DEF Limits
<1> HIDE DEF V, V1, O, O1, P, P1
<1>3. IsFiniteSet(V1) /\ Cardinality(V1) \in Nat /\ Cardinality(V) \in Nat /\ Cardinality(V1) <= Cardinality(V)
  BY <1>1, SmallerCount
<1>4. IsFiniteSet(O)
  BY <1>1, SmallerCount
<1>5. Cardinality(O1) \in Nat /\ Cardinality(O) \in Nat /\ Cardinality(O1) <= Cardinality(O)
  BY <1>1, <1>4, SmallerCount
<1>6. IsFiniteSet(P1) /\ Cardinality(P1) \in Nat /\ Cardinality(P) \in Nat /\ Cardinality(P1) <= Cardinality(P)
  BY <1>1, SmallerCount
<1>7. /\ a \in Personal => Cardinality(V1) <= MaxPersonal
      /\ a \in Business => Cardinality(O1) <= MaxBusiness
      /\ Cardinality(P1) <= 1
  BY <1>2, <1>3, <1>5, <1>6, Maxima
<1>8. /\ Cardinality(V) < MaxPersonal => Cardinality(V1) < MaxPersonal
      /\ Cardinality(O) < MaxBusiness => Cardinality(O1) < MaxBusiness
  BY <1>3, <1>5, Maxima
<1>9. Limits(a)'
  BY <1>3, <1>6, <1>7 DEF Limits, V1, O1, P1
<1>10. \A owner \in BOOLEAN : Room(a, owner) => Room(a, owner)'
  BY <1>8 DEF Room, V, V1, O, O1
<1> QED BY <1>9, <1>10

LEMMA CardInit == CardsAssumption /\ CardsInit => CardInv
<1> SUFFICES ASSUME CardsAssumption, CardsInit PROVE CardInv
  OBVIOUS
<1>1. RowTypes
  BY DEF CardsInit, RowTypes, CallRows, CallPlaces, IdleCardCall
<1>2. CallTypes
  BY DEF CardsInit, CallTypes, IdleCardCall, CardStatuses
<1>3. ASSUME NEW a \in CardAccounts PROVE Limits(a) /\ Alone(a)
  <2>1. a # Nothing
    BY NothingExists
  <2>2. Valid(a) = {} /\ Owners(a) = {} /\ Pending(a) = {}
    BY <2>1 DEF CardsInit, Valid, Owners, Pending, NoCard, NoRequest
  <2>3. IsFiniteSet({}) /\ Cardinality({}) = 0
    BY FS_EmptySet
  <2>4. Limits(a)
    BY <2>2, <2>3, Maxima DEF Limits
  <2>5. Alone(a)
    BY <2>1 DEF CardsInit, Alone, IdleCardCall
  <2> QED BY <2>4, <2>5
<1> QED BY <1>1, <1>2, <1>3 DEF CardInv

-----------------------------------------------------------------------------
\* A call begins, with what it has found.
LEMMA BeginStep ==
  ASSUME CardsAssumption, CardInv, NEW c \in CardCalls, NEW place \in CallPlaces \ {"idle"},
         NEW id \in CardIds \cup RequestIds \cup {Nothing}, NEW a \in CardAccounts, NEW owner \in BOOLEAN,
         Begin(c, place, id, a, owner), UNCHANGED <<card, cardRequest>>,
         place = "confirm" => id \in RequestIds /\ cardRequest[id].account = a,
         place \in CardStatuses => id \in CardIds /\ card[id].account = a,
         Found(a, [at |-> place, id |-> id, account |-> a, owner |-> owner])
  PROVE  CardInv'
<1> DEFINE view == [at |-> place, id |-> id, account |-> a, owner |-> owner]
<1>1. /\ \A d \in CardCalls : cardCall'[d] = IF d = c THEN view ELSE cardCall[d]
      /\ crowded' = IF \E d \in CardCalls : cardCall[d].account = a THEN crowded \cup {a} ELSE crowded
  BY DEF Begin, CardInv, RowTypes
<1>2. RowTypes'
  <2>1. view \in CallRows
    BY DEF CallRows
  <2> HIDE DEF view
  <2>2. cardCall' \in [CardCalls -> CallRows]
    BY <2>1 DEF Begin, CardInv, RowTypes, view
  <2> QED BY <1>1, <2>2 DEF CardInv, RowTypes
<1>3. CallTypes'
  BY <1>1 DEF CardInv, CallTypes
<1>4. ASSUME NEW b \in CardAccounts, b \notin crowded' PROVE Limits(b)' /\ Alone(b)'
  <2>1. b \notin crowded /\ Limits(b) /\ Alone(b)
    BY <1>1, <1>4 DEF CardInv
  <2>2. Valid(b)' = Valid(b) /\ Owners(b)' = Owners(b) /\ Pending(b)' = Pending(b)
    BY DEF Valid, Owners, Pending
  <2>3. Limits(b)'
    BY <2>1, <2>2 DEF Limits
  <2>4. \A v : Found(b, v)' <=> Found(b, v)
    BY <2>2 DEF Found, Room
  <2>5. b = a => \A d \in CardCalls : cardCall[d].account # b
    BY <1>1, <1>4
  <2>6. \A d \in CardCalls : cardCall'[d].account = b => Found(b, cardCall'[d])
    BY <1>1, <2>1 DEF Alone
  <2>7. \A d, e \in CardCalls : cardCall'[d].account = b /\ cardCall'[e].account = b => d = e
    BY <1>1, <2>1, <2>5 DEF Alone
  <2> QED BY <2>2, <2>3, <2>6, <2>7 DEF Alone, Found, Room
<1> QED BY <1>2, <1>3, <1>4 DEF CardInv

\* A call ends, and has added to the cards and requests of its account only what
\* keeps to the limits.
LEMMA EndKeeps ==
  ASSUME CardsAssumption, CardInv, NEW c \in CardCalls, EndCall(c), UNCHANGED crowded,
         card' \in [CardIds -> CardRows \cup {NoCard}],
         cardRequest' \in [RequestIds -> RequestRows \cup {NoRequest}],
         \A i \in CardIds : Exists(card[i]) => card'[i].account = card[i].account,
         \A r \in RequestIds : Exists(cardRequest[r]) => cardRequest'[r].account = cardRequest[r].account,
         \A b \in CardAccounts : b # cardCall[c].account =>
           /\ Valid(b)' = Valid(b) /\ Owners(b)' = Owners(b) /\ Pending(b)' = Pending(b)
           /\ \A i \in CardIds : card[i].account = b => card'[i] = card[i],
         \A b \in CardAccounts \ crowded : b = cardCall[c].account => Limits(b)'
  PROVE  CardInv'
<1>1. \A d \in CardCalls : cardCall'[d] = IF d = c THEN IdleCardCall ELSE cardCall[d]
  BY DEF EndCall, CardInv, RowTypes
<1>2. RowTypes'
  <2>1. IdleCardCall \in CallRows
    BY DEF IdleCardCall, CallRows, CallPlaces
  <2> QED BY <2>1 DEF EndCall, CardInv, RowTypes
<1>3. CallTypes'
  <2>1. IdleCardCall.at = "idle" /\ "idle" \notin CardStatuses
    BY DEF IdleCardCall, CardStatuses
  <2>2. ASSUME NEW d \in CardCalls, d # c
        PROVE  /\ cardCall'[d].at # "idle" => cardCall'[d].account \in CardAccounts
               /\ cardCall'[d].at = "confirm" =>
                    cardCall'[d].id \in RequestIds /\ cardRequest'[cardCall'[d].id].account = cardCall'[d].account
               /\ cardCall'[d].at \in CardStatuses =>
                    cardCall'[d].id \in CardIds /\ card'[cardCall'[d].id].account = cardCall'[d].account
    <3>1. cardCall'[d] = cardCall[d]
      BY <1>1, <2>2
    <3>2. CASE cardCall[d].at = "idle"
      BY <2>1, <3>1, <3>2
    <3>3. CASE cardCall[d].at # "idle"
      <4>1. cardCall[d].account \in CardAccounts /\ cardCall[d].account # Nothing
        BY <3>3, NothingExists DEF CardInv, CallTypes
      <4> QED BY <3>1, <4>1 DEF CardInv, CallTypes, Exists
    <3> QED BY <3>2, <3>3
  <2> QED BY <1>1, <2>1, <2>2 DEF CallTypes
<1>4. ASSUME NEW b \in CardAccounts, b \notin crowded PROVE Limits(b)' /\ Alone(b)'
  <2>1. Limits(b) /\ Alone(b)
    BY <1>4 DEF CardInv
  <2>2. IdleCardCall.account # b
    BY NothingExists DEF IdleCardCall
  <2>3. CASE b = cardCall[c].account
    <3>1. \A d \in CardCalls : cardCall'[d].account # b
      BY <1>1, <2>1, <2>2, <2>3 DEF Alone
    <3> QED BY <1>4, <2>3, <3>1 DEF Alone
  <2>4. CASE b # cardCall[c].account
    <3>1. Valid(b)' = Valid(b) /\ Owners(b)' = Owners(b) /\ Pending(b)' = Pending(b)
      BY <2>4
    <3>2. Limits(b)'
      BY <2>1, <3>1 DEF Limits
    <3>3. ASSUME NEW d \in CardCalls, cardCall'[d].account = b PROVE cardCall'[d] = cardCall[d] /\ Found(b, cardCall[d])'
      <4>1. d # c /\ cardCall'[d] = cardCall[d] /\ Found(b, cardCall[d])
        BY <1>1, <2>1, <2>2, <3>3 DEF Alone
      <4>2. cardCall[d].at \in {"Blocked", "Active"} => card'[cardCall[d].id] = card[cardCall[d].id]
        BY <2>4, <3>3, <4>1 DEF CardInv, CallTypes, CardStatuses
      <4>3. card'[cardCall'[d].id].status # "Deactivated" \/ cardCall'[d].at \notin {"Blocked", "Active"}
        BY <4>1, <4>2 DEF Found
      <4> QED BY <3>1, <4>1, <4>3 DEF Found, Room
    <3>4. \A d, e \in CardCalls : cardCall'[d].account = b /\ cardCall'[e].account = b => d = e
      BY <2>1, <3>3 DEF Alone
    <3> QED BY <3>2, <3>3, <3>4 DEF Alone
  <2> QED BY <2>3, <2>4
<1> QED BY <1>2, <1>3, <1>4 DEF CardInv

-----------------------------------------------------------------------------
(* Requests *)

LEMMA RequestCardStep ==
  ASSUME CardsAssumption, CardInv, NEW c \in CardCalls, NEW a \in CardAccounts, NEW owner \in BOOLEAN,
         RequestCard(c, a, owner)
  PROVE  CardInv'
<1>1. Pending(a) = {} /\ Begin(c, "request", Nothing, a, owner) /\ UNCHANGED <<card, cardRequest>>
  BY DEF RequestCard
<1>2. Found(a, [at |-> "request", id |-> Nothing, account |-> a, owner |-> owner])
  BY <1>1 DEF Found
<1> QED BY <1>1, <1>2, BeginStep DEF CallPlaces, CardStatuses

LEMMA InsertRequestStep ==
  ASSUME CardsAssumption, CardInv, NEW c \in CardCalls, NEW r \in RequestIds, InsertRequest(c, r)
  PROVE  CardInv'
<1> DEFINE a == cardCall[c].account
           row == [account |-> a, used |-> FALSE, expired |-> FALSE, owner |-> cardCall[c].owner]
<1>1. /\ cardCall[c].at = "request" /\ ~ Exists(cardRequest[r]) /\ cardRequest' = [cardRequest EXCEPT ![r] = row]
      /\ EndCall(c) /\ UNCHANGED <<card, crowded>>
  BY DEF InsertRequest
<1>2. a \in CardAccounts /\ a # Nothing /\ row \in RequestRows /\ row.account = a
  BY <1>1, NothingExists DEF CardInv, CallTypes, RowTypes, CallRows, RequestRows
<1> HIDE DEF row
<1>3. /\ cardRequest' \in [RequestIds -> RequestRows \cup {NoRequest}]
      /\ \A q \in RequestIds : cardRequest'[q] = IF q = r THEN row ELSE cardRequest[q]
  BY <1>1, <1>2 DEF CardInv, RowTypes
<1>4. \A q \in RequestIds : Exists(cardRequest[q]) => cardRequest'[q].account = cardRequest[q].account
  BY <1>1, <1>3
<1>5. \A b : Valid(b)' = Valid(b) /\ Owners(b)' = Owners(b)
  BY <1>1 DEF Valid, Owners
<1>6. ASSUME NEW b \in CardAccounts, b # a PROVE Pending(b)' = Pending(b)
  BY <1>1, <1>2, <1>3, <1>6 DEF Pending
<1>7. ASSUME NEW b \in CardAccounts \ crowded, b = a PROVE Limits(b)'
  <2>1. Limits(b) /\ Pending(b) = {}
    BY <1>1, <1>7 DEF CardInv, Alone, Found
  <2>2. Pending(b)' \subseteq {r}
    BY <1>3, <2>1 DEF Pending
  <2> DEFINE P == Pending(b)'
  <2>3. IsFiniteSet({r}) /\ Cardinality({r}) = 1
    BY FS_Singleton
  <2>4. P \in SUBSET {r}
    BY <2>2
  <2> HIDE DEF P
  <2>5. IsFiniteSet(P) /\ Cardinality(P) <= 1
    BY <2>3, <2>4, FS_Subset
  <2> QED BY <1>5, <2>1, <2>5 DEF Limits, P
<1> QED BY <1>1, <1>3, <1>4, <1>5, <1>6, <1>7, EndKeeps DEF CardInv, RowTypes

LEMMA ExpireStep ==
  ASSUME CardsAssumption, CardInv, NEW r \in RequestIds, Expire(r)
  PROVE  CardInv'
<1>1. cardRequest' = [cardRequest EXCEPT ![r].expired = TRUE] /\ Exists(cardRequest[r])
      /\ UNCHANGED <<card, cardCall, crowded>>
  BY DEF Expire
<1>2. cardRequest[r] \in RequestRows
  BY <1>1 DEF CardInv, RowTypes, Exists, NoRequest
<1>3. \A q \in RequestIds :
        /\ cardRequest'[q].account = cardRequest[q].account /\ cardRequest'[q].used = cardRequest[q].used
        /\ cardRequest[q].expired => cardRequest'[q].expired
  BY <1>1, <1>2 DEF CardInv, RowTypes, RequestRows
<1>4. RowTypes'
  <2>1. [cardRequest[r] EXCEPT !.expired = TRUE] \in RequestRows
    BY <1>2 DEF RequestRows
  <2>2. cardRequest' = [cardRequest EXCEPT ![r] = [cardRequest[r] EXCEPT !.expired = TRUE]]
    BY <1>1 DEF CardInv, RowTypes
  <2> QED BY <1>1, <2>1, <2>2 DEF CardInv, RowTypes
<1>5. CallTypes'
  BY <1>1, <1>3 DEF CardInv, CallTypes
<1>6. ASSUME NEW a \in CardAccounts \ crowded PROVE Limits(a)' /\ Alone(a)'
  <2>1. Limits(a) /\ Alone(a)
    BY DEF CardInv
  <2>2. Valid(a)' = Valid(a) /\ Owners(a)' = Owners(a)
    BY <1>1 DEF Valid, Owners
  <2>3. Pending(a)' \subseteq Pending(a)
    BY <1>3 DEF Pending, Exists
  <2>4. Limits(a)'
    BY <2>1, <2>2, <2>3, FewerKept
  <2>5. ASSUME NEW c \in CardCalls, cardCall[c].account = a PROVE Found(a, cardCall[c])'
    <3>1. Found(a, cardCall[c])
      BY <2>1, <2>5 DEF Alone
    <3> QED BY <1>1, <2>2, <2>3, <3>1 DEF Found, Room
  <2>6. Alone(a)'
    BY <1>1, <2>1, <2>5 DEF Alone
  <2> QED BY <2>4, <2>6
<1> QED BY <1>1, <1>4, <1>5, <1>6 DEF CardInv

LEMMA ConfirmStep ==
  ASSUME CardsAssumption, CardInv, NEW c \in CardCalls, NEW r \in RequestIds, ConfirmCardRequest(c, r)
  PROVE  CardInv'
<1> DEFINE a == cardRequest[r].account
           owner == cardRequest[r].owner
<1>1. Exists(cardRequest[r]) /\ Room(a, owner) /\ Begin(c, "confirm", r, a, owner) /\ UNCHANGED <<card, cardRequest>>
  BY DEF ConfirmCardRequest
<1>2. a \in CardAccounts /\ owner \in BOOLEAN
  BY <1>1 DEF CardInv, RowTypes, RequestRows, Exists, NoRequest
<1>3. PICK b \in CardAccounts, o \in BOOLEAN : b = a /\ o = owner
  BY <1>2
<1>4. Found(b, [at |-> "confirm", id |-> r, account |-> b, owner |-> o])
  BY <1>1, <1>3 DEF Found
<1>5. Begin(c, "confirm", r, b, o) /\ cardRequest[r].account = b
  BY <1>1, <1>3
<1> QED BY <1>1, <1>4, <1>5, BeginStep DEF CallPlaces, CardStatuses

LEMMA CreateCardStep ==
  ASSUME CardsAssumption, CardInv, NEW c \in CardCalls, NEW id \in CardIds, CreateCard(c, id)
  PROVE  CardInv'
<1> DEFINE a == cardCall[c].account
           r == cardCall[c].id
           row == NewCard(a, cardCall[c].owner)
<1>1. /\ cardCall[c].at = "confirm" /\ ~ Exists(card[id]) /\ card' = [card EXCEPT ![id] = row]
      /\ cardRequest' = [cardRequest EXCEPT ![r].used = TRUE] /\ EndCall(c) /\ UNCHANGED crowded
  BY DEF CreateCard
<1>2. /\ a \in CardAccounts /\ a # Nothing /\ r \in RequestIds /\ cardRequest[r].account = a
      /\ row \in CardRows /\ row.account = a /\ row.owner = cardCall[c].owner
  BY <1>1, NothingExists DEF CardInv, CallTypes, RowTypes, CallRows, CardRows, NewCard, CardStatuses
<1>3. cardRequest[r] \in RequestRows
  BY <1>2 DEF CardInv, RowTypes, NoRequest
<1> HIDE DEF row
<1>4. /\ card' \in [CardIds -> CardRows \cup {NoCard}]
      /\ \A i \in CardIds : card'[i] = IF i = id THEN row ELSE card[i]
  BY <1>1, <1>2 DEF CardInv, RowTypes
<1>5. /\ cardRequest' \in [RequestIds -> RequestRows \cup {NoRequest}]
      /\ \A q \in RequestIds :
           /\ cardRequest'[q].account = cardRequest[q].account /\ cardRequest'[q].expired = cardRequest[q].expired
           /\ cardRequest[q].used => cardRequest'[q].used
           /\ q # r => cardRequest'[q] = cardRequest[q]
  <2>1. [cardRequest[r] EXCEPT !.used = TRUE] \in RequestRows
    BY <1>3 DEF RequestRows
  <2>2. cardRequest' = [cardRequest EXCEPT ![r] = [cardRequest[r] EXCEPT !.used = TRUE]]
    BY <1>1, <1>2 DEF CardInv, RowTypes
  <2>3. cardRequest' \in [RequestIds -> RequestRows \cup {NoRequest}]
    BY <2>1, <2>2 DEF CardInv, RowTypes
  <2> QED BY <1>2, <1>3, <2>2, <2>3 DEF CardInv, RowTypes, RequestRows
<1>6. \A i \in CardIds : Exists(card[i]) => card'[i].account = card[i].account
  BY <1>1, <1>4
<1>7. ASSUME NEW b \in CardAccounts, b # a
      PROVE  /\ Valid(b)' = Valid(b) /\ Owners(b)' = Owners(b) /\ Pending(b)' = Pending(b)
             /\ \A i \in CardIds : card[i].account = b => card'[i] = card[i]
  <2>1. b # Nothing
    BY NothingExists
  <2>2. \A i \in CardIds : card[i].account = b => card'[i] = card[i]
    BY <1>1, <1>4, <2>1 DEF Exists
  <2>3. Valid(b)' = Valid(b)
    BY <1>1, <1>2, <1>4, <1>7 DEF Valid, Exists
  <2>4. \A i \in Valid(b) : card'[i] = card[i]
    BY <2>2 DEF Valid
  <2>5. Owners(b)' = Owners(b)
    BY <2>3, <2>4 DEF Owners
  <2>6. Pending(b)' = Pending(b)
    BY <1>2, <1>5, <1>7 DEF Pending, Exists
  <2> QED BY <2>2, <2>3, <2>5, <2>6
<1>8. ASSUME NEW b \in CardAccounts \ crowded, b = a PROVE Limits(b)'
  <2>1. Limits(b) /\ Room(b, cardCall[c].owner)
    BY <1>1, <1>8 DEF CardInv, Alone, Found
  <2> DEFINE V == Valid(b)   V1 == Valid(b)'
             O == Owners(b)  O1 == Owners(b)'
             P == Pending(b) P1 == Pending(b)'
  <2>2. /\ V1 \subseteq V \cup {id} /\ P1 \subseteq P /\ O \subseteq V /\ O1 \subseteq V1
        /\ O1 \subseteq IF cardCall[c].owner THEN O \cup {id} ELSE O
    <3>1. V1 \subseteq V \cup {id}
      BY <1>4 DEF Valid
    <3>2. P1 \subseteq P
      BY <1>5 DEF Pending, Exists
    <3>3. O1 \subseteq O \cup {id}
      <4>1. ASSUME NEW i \in O1, i # id PROVE i \in O
        <5>1. i \in V /\ i \in CardIds
          BY <3>1, <4>1 DEF Owners, Valid
        <5>2. card'[i] = card[i] /\ card'[i].owner
          BY <1>4, <4>1, <5>1 DEF Owners
        <5> QED BY <5>1, <5>2 DEF Owners
      <4> QED BY <4>1
    <3>4. ~ cardCall[c].owner => id \notin O1
      <4>1. card'[id].owner = cardCall[c].owner
        BY <1>2, <1>4
      <4>2. id \in O1 => card'[id].owner
        BY DEF Owners
      <4> HIDE DEF O1
      <4> QED BY <4>1, <4>2, Zenon
    <3> QED BY <3>1, <3>2, <3>3, <3>4 DEF Owners
  <2>3. /\ IsFiniteSet(V) /\ IsFiniteSet(P) /\ Cardinality(P) <= 1
        /\ b \in Personal => Cardinality(V) < MaxPersonal
        /\ b \in Business => Cardinality(O) <= MaxBusiness
        /\ b \in Business /\ cardCall[c].owner => Cardinality(O) < MaxBusiness
    BY <2>1 DEF Limits, Room
  <2> HIDE DEF V, V1, O, O1, P, P1
  <2>4. IsFiniteSet(V1) /\ Cardinality(V1) \in Nat /\ Cardinality(V) \in Nat
        /\ Cardinality(V1) <= Cardinality(V) + 1
    <3> DEFINE W == V \cup {id}
    <3>1. IsFiniteSet(W) /\ Cardinality(V) \in Nat /\ Cardinality(W) \in Nat /\ Cardinality(W) <= Cardinality(V) + 1
      BY <2>3, OneMore
    <3>2. V1 \in SUBSET W
      BY <2>2
    <3> HIDE DEF W
    <3>3. IsFiniteSet(V1) /\ Cardinality(V1) \in Nat /\ Cardinality(V1) <= Cardinality(W)
      BY <3>1, <3>2, SmallerCount
    <3> QED BY <3>1, <3>3
  <2>5. IsFiniteSet(O)
    BY <2>2, <2>3, SmallerCount
  <2>6. Cardinality(O1) \in Nat /\ Cardinality(O) \in Nat
        /\ Cardinality(O1) <= IF cardCall[c].owner THEN Cardinality(O) + 1 ELSE Cardinality(O)
    <3>1. CASE ~ cardCall[c].owner
      <4>1. O1 \in SUBSET O
        BY <2>2, <3>1
      <4>2. Cardinality(O1) \in Nat /\ Cardinality(O) \in Nat /\ Cardinality(O1) <= Cardinality(O)
        BY <2>5, <4>1, SmallerCount
      <4> QED BY <3>1, <4>2
    <3>2. CASE cardCall[c].owner
      <4> DEFINE W == O \cup {id}
      <4>1. IsFiniteSet(W) /\ Cardinality(O) \in Nat /\ Cardinality(W) \in Nat /\ Cardinality(W) <= Cardinality(O) + 1
        BY <2>5, OneMore
      <4>2. O1 \in SUBSET W
        BY <2>2, <3>2
      <4> HIDE DEF W
      <4>3. Cardinality(O1) \in Nat /\ Cardinality(O1) <= Cardinality(W)
        BY <4>1, <4>2, SmallerCount
      <4> QED BY <3>2, <4>1, <4>3
    <3> QED BY <3>1, <3>2
  <2>7. IsFiniteSet(P1) /\ Cardinality(P1) \in Nat /\ Cardinality(P) \in Nat /\ Cardinality(P1) <= Cardinality(P)
    BY <2>2, <2>3, SmallerCount
  <2>8. /\ b \in Personal => Cardinality(V1) <= MaxPersonal
        /\ b \in Business => Cardinality(O1) <= MaxBusiness
        /\ Cardinality(P1) <= 1
    BY <2>3, <2>4, <2>6, <2>7, Maxima
  <2> QED BY <2>4, <2>7, <2>8 DEF Limits, V1, O1, P1
<1> QED BY <1>1, <1>4, <1>5, <1>6, <1>7, <1>8, EndKeeps

LEMMA CreateAccountStep ==
  ASSUME CardsAssumption, CardInv, NEW a \in CardAccounts, NEW id \in CardIds, CreateAccountWithCard(a, id)
  PROVE  CardInv'
<1> DEFINE row == NewCard(a, TRUE)
<1>1. /\ ~ Exists(card[id]) /\ \A k \in CardIds : Exists(card[k]) => card[k].account # a
      /\ \A c \in CardCalls : cardCall[c].account # a
      /\ card' = [card EXCEPT ![id] = row] /\ UNCHANGED <<cardRequest, cardCall, crowded>>
  BY DEF CreateAccountWithCard
<1>2. a # Nothing /\ row \in CardRows /\ row.account = a
  BY NothingExists DEF NewCard, CardRows, CardStatuses
<1> HIDE DEF row
<1>3. /\ card' \in [CardIds -> CardRows \cup {NoCard}]
      /\ \A i \in CardIds : card'[i] = IF i = id THEN row ELSE card[i]
  BY <1>1, <1>2 DEF CardInv, RowTypes
<1>4. RowTypes'
  BY <1>1, <1>3 DEF CardInv, RowTypes
<1>5. CallTypes'
  <2>1. ASSUME NEW c \in CardCalls, cardCall[c].at \in CardStatuses
        PROVE  cardCall[c].id \in CardIds /\ card'[cardCall[c].id].account = cardCall[c].account
    <3>1. cardCall[c].id \in CardIds /\ card[cardCall[c].id].account = cardCall[c].account
      BY <2>1 DEF CardInv, CallTypes
    <3>2. cardCall[c].account \in CardAccounts /\ cardCall[c].account # Nothing
      BY <2>1, NothingExists DEF CardInv, CallTypes, CardStatuses
    <3> QED BY <1>1, <1>3, <3>1, <3>2 DEF Exists
  <2> QED BY <1>1, <2>1 DEF CardInv, CallTypes
<1>6. ASSUME NEW b \in CardAccounts \ crowded PROVE Limits(b)' /\ Alone(b)'
  <2>1. Limits(b) /\ Alone(b)
    BY DEF CardInv
  <2>2. Pending(b)' = Pending(b)
    BY <1>1 DEF Pending
  <2>3. CASE b = a
    <3>1. Valid(b)' \subseteq {id} /\ Owners(b)' \subseteq {id}
      BY <1>1, <1>3, <2>3 DEF Valid, Owners
    <3>2. IsFiniteSet({id}) /\ Cardinality({id}) = 1
      BY FS_Singleton
    <3> DEFINE V == Valid(b)'  O == Owners(b)'
    <3>3. V \in SUBSET {id} /\ O \in SUBSET {id}
      BY <3>1
    <3> HIDE DEF V, O
    <3>4. /\ IsFiniteSet(V) /\ Cardinality(V) \in Nat /\ Cardinality(V) <= 1
          /\ Cardinality(O) \in Nat /\ Cardinality(O) <= 1
      BY <3>2, <3>3, SmallerCount
    <3>5. Cardinality(V) <= MaxPersonal /\ Cardinality(O) <= MaxBusiness
      BY <3>4, Maxima
    <3>6. Limits(b)'
      BY <2>1, <2>2, <3>4, <3>5 DEF Limits, V, O
    <3>7. Alone(b)'
      BY <1>1, <2>3 DEF Alone
    <3> QED BY <3>6, <3>7
  <2>4. CASE b # a
    <3>1. b # Nothing
      BY NothingExists
    <3>2. Valid(b)' = Valid(b) /\ Owners(b)' = Owners(b)
      <4>1. Valid(b)' = Valid(b)
        BY <1>1, <1>2, <1>3, <2>4 DEF Valid, Exists
      <4>2. \A i \in Valid(b) : card'[i] = card[i]
        BY <1>1, <1>3 DEF Valid
      <4> QED BY <4>1, <4>2 DEF Owners
    <3>3. Limits(b)'
      BY <2>1, <2>2, <3>2 DEF Limits
    <3>4. ASSUME NEW c \in CardCalls, cardCall[c].account = b PROVE Found(b, cardCall[c])'
      <4>1. Found(b, cardCall[c])
        BY <2>1, <3>4 DEF Alone
      <4>2. cardCall[c].at \in {"Blocked", "Active"} => card'[cardCall[c].id] = card[cardCall[c].id]
        BY <1>1, <1>3, <3>1, <3>4 DEF CardInv, CallTypes, CardStatuses, Exists
      <4> QED BY <1>1, <2>2, <3>2, <4>1, <4>2 DEF Found, Room
    <3>5. Alone(b)'
      BY <1>1, <2>1, <3>4 DEF Alone
    <3> QED BY <3>3, <3>5
  <2> QED BY <2>3, <2>4
<1> QED BY <1>1, <1>4, <1>5, <1>6 DEF CardInv

-----------------------------------------------------------------------------
(* Status *)

LEMMA ReadCardStep ==
  ASSUME CardsAssumption, CardInv, NEW c \in CardCalls, NEW id \in CardIds, NEW wanted \in CardStatuses,
         ReadCard(c, id, wanted)
  PROVE  CardInv'
<1> DEFINE a == card[id].account
           owner == card[id].owner
<1>1. /\ Exists(card[id]) /\ card[id].status \in MayBecome(wanted)
      /\ Begin(c, wanted, id, a, owner) /\ UNCHANGED <<card, cardRequest>>
  BY DEF ReadCard
<1>2. a \in CardAccounts /\ owner \in BOOLEAN
  BY <1>1 DEF CardInv, RowTypes, CardRows, Exists, NoCard
<1>3. PICK b \in CardAccounts, o \in BOOLEAN : b = a /\ o = owner
  BY <1>2
<1>4. wanted \in {"Blocked", "Active"} => card[id].status # "Deactivated"
  BY <1>1 DEF MayBecome
<1>5. Found(b, [at |-> wanted, id |-> id, account |-> b, owner |-> o])
  BY <1>4 DEF Found, CardStatuses
<1>6. Begin(c, wanted, id, b, o) /\ card[id].account = b
  BY <1>1, <1>3
<1>7. wanted \in CallPlaces \ {"idle"} /\ wanted # "confirm"
  BY DEF CallPlaces, CardStatuses
<1> QED BY <1>1, <1>5, <1>6, <1>7, BeginStep

LEMMA SaveCardStep ==
  ASSUME CardsAssumption, CardInv, NEW c \in CardCalls, SaveCard(c)
  PROVE  CardInv'
<1> DEFINE id == cardCall[c].id
           a == cardCall[c].account
           wanted == cardCall[c].at
<1>1. /\ wanted \in CardStatuses /\ card' = [card EXCEPT ![id].status = wanted]
      /\ EndCall(c) /\ UNCHANGED <<cardRequest, crowded>>
  BY DEF SaveCard
<1>2. id \in CardIds /\ card[id].account = a /\ a \in CardAccounts /\ a # Nothing
  BY <1>1, NothingExists DEF CardInv, CallTypes, CardStatuses
<1>3. card[id] \in CardRows
  BY <1>2 DEF CardInv, RowTypes, NoCard
<1>4. /\ card' \in [CardIds -> CardRows \cup {NoCard}]
      /\ card'[id].status = wanted
      /\ \A i \in CardIds : card'[i].account = card[i].account /\ card'[i].owner = card[i].owner
      /\ \A i \in CardIds : i # id => card'[i] = card[i]
  <2>1. [card[id] EXCEPT !.status = wanted] \in CardRows
    BY <1>1, <1>3 DEF CardRows
  <2>2. card' = [card EXCEPT ![id] = [card[id] EXCEPT !.status = wanted]]
    BY <1>1, <1>2 DEF CardInv, RowTypes
  <2>3. card' \in [CardIds -> CardRows \cup {NoCard}]
    BY <2>1, <2>2 DEF CardInv, RowTypes
  <2> QED BY <1>2, <1>3, <2>2, <2>3 DEF CardInv, RowTypes, CardRows
<1>5. \A b : Pending(b)' = Pending(b)
  BY <1>1 DEF Pending
<1>6. ASSUME NEW b \in CardAccounts, b # a
      PROVE  /\ Valid(b)' = Valid(b) /\ Owners(b)' = Owners(b)
             /\ \A i \in CardIds : card[i].account = b => card'[i] = card[i]
  <2>1. \A i \in CardIds : card[i].account = b => card'[i] = card[i]
    BY <1>2, <1>4, <1>6
  <2>2. Valid(b)' = Valid(b)
    BY <1>4, <2>1 DEF Valid, Exists
  <2>3. \A i \in Valid(b) : card'[i] = card[i]
    BY <2>1 DEF Valid
  <2> QED BY <2>1, <2>2, <2>3 DEF Owners
<1>7. ASSUME NEW b \in CardAccounts \ crowded, b = a PROVE Limits(b)'
  <2>1. Limits(b) /\ Found(b, cardCall[c])
    BY <1>7 DEF CardInv, Alone
  <2>2. wanted # "Deactivated" => card[id].status # "Deactivated"
    BY <1>1, <2>1 DEF Found, CardStatuses
  <2>3. Valid(b)' \subseteq Valid(b)
    BY <1>4, <2>2 DEF Valid, Exists
  <2>4. Owners(b)' \subseteq Owners(b)
    BY <1>4, <2>3 DEF Owners, Valid
  <2> QED BY <1>5, <2>1, <2>3, <2>4, FewerKept
<1> QED BY <1>1, <1>4, <1>5, <1>6, <1>7, EndKeeps DEF CardInv, RowTypes

LEMMA FailStep ==
  ASSUME CardsAssumption, CardInv, NEW c \in CardCalls, Fail(c)
  PROVE  CardInv'
<1>1. EndCall(c) /\ UNCHANGED <<card, cardRequest, crowded>>
  BY DEF Fail
<1>2. \A b : Valid(b)' = Valid(b) /\ Owners(b)' = Owners(b) /\ Pending(b)' = Pending(b)
  BY <1>1 DEF Valid, Owners, Pending
<1>3. \A b \in CardAccounts \ crowded : Limits(b)'
  BY <1>2 DEF CardInv, Limits
<1> QED BY <1>1, <1>2, <1>3, EndKeeps DEF CardInv, RowTypes

-----------------------------------------------------------------------------
LEMMA CardStep == CardsAssumption /\ CardInv /\ [CardsNext]_cardVars => CardInv'
<1> SUFFICES ASSUME CardsAssumption, CardInv, [CardsNext]_cardVars PROVE CardInv'
  OBVIOUS
<1>1. CASE \E c \in CardCalls, a \in CardAccounts, owner \in BOOLEAN : RequestCard(c, a, owner)
  BY <1>1, RequestCardStep
<1>2. CASE \E c \in CardCalls, r \in RequestIds : InsertRequest(c, r) \/ ConfirmCardRequest(c, r)
  BY <1>2, InsertRequestStep, ConfirmStep
<1>3. CASE \E r \in RequestIds : Expire(r)
  BY <1>3, ExpireStep
<1>4. CASE \E c \in CardCalls, id \in CardIds : CreateCard(c, id)
  BY <1>4, CreateCardStep
<1>5. CASE \E a \in CardAccounts, id \in CardIds : CreateAccountWithCard(a, id)
  BY <1>5, CreateAccountStep
<1>6. CASE \E c \in CardCalls, id \in CardIds, wanted \in CardStatuses : ReadCard(c, id, wanted)
  BY <1>6, ReadCardStep
<1>7. CASE \E c \in CardCalls : SaveCard(c) \/ Fail(c)
  BY <1>7, SaveCardStep, FailStep
<1>8. CASE UNCHANGED cardVars
  <2>1. UNCHANGED <<card, cardRequest, cardCall, crowded>>
    BY <1>8 DEF cardVars
  <2>2. \A b : Valid(b)' = Valid(b) /\ Owners(b)' = Owners(b) /\ Pending(b)' = Pending(b)
    BY <2>1 DEF Valid, Owners, Pending
  <2>3. RowTypes' /\ CallTypes'
    BY <2>1 DEF CardInv, RowTypes, CallTypes
  <2>4. \A b \in CardAccounts \ crowded : Limits(b)' /\ Alone(b)'
    BY <2>1, <2>2 DEF CardInv, Limits, Alone, Found, Room
  <2> QED BY <2>1, <2>3, <2>4 DEF CardInv
<1> QED BY <1>1, <1>2, <1>3, <1>4, <1>5, <1>6, <1>7, <1>8 DEF CardsNext

\* The only call at an account still finds what it has counted, for any accounts,
\* cards, requests, calls and limits.
THEOREM CardInvariant == CardsAssumption => (CardsSpec => []CardInv)
<1> SUFFICES ASSUME CardsAssumption PROVE CardsSpec => []CardInv
  OBVIOUS
<1>1. CardsInit => CardInv
  BY CardInit
<1>2. CardInv /\ [CardsNext]_cardVars => CardInv'
  BY CardStep
<1> QED BY <1>1, <1>2, PTL DEF CardsSpec

\* Unless two calls worked at the cards of an account together, it keeps to the
\* limits of cards and has one request at most that can be confirmed.
THEOREM CardsAreAlwaysLimited == CardsAssumption => (CardsSpec => []CardsAreLimited)
<1> SUFFICES ASSUME CardsAssumption PROVE CardsSpec => []CardsAreLimited
  OBVIOUS
<1>1. CardInv => CardsAreLimited
  BY DEF CardInv, Limits, CardsAreLimited
<1>2. CardsSpec => []CardInv
  BY CardInvariant
<1> QED BY <1>1, <1>2, PTL


-----------------------------------------------------------------------------
(* Types of Payments: only what stays in the bank is opened, so that a request *)
(* reads, writes and locks no account of another bank.                         *)

AtBank == {"begin", "check", "row", "update", "write"}

Within(v) ==
    /\ v.tries \in Nat
    /\ v.rows \cup v.row \cup v.locked \cup DOMAIN v.seen \subseteq PayAccounts
    /\ v.at \in AtBank => v.tx \in Txs /\ ~IsForeign(v.tx)

CallsWithin ==
    /\ attempts \in [Txs -> Nat] /\ sent \in [Txs -> Nat] /\ clash \subseteq PayAccounts
    /\ \A c \in Calls : Within(call[c])

LEMMA TouchedWithin ==
  ASSUME PaymentsAssumption, NEW t \in Txs, ~IsForeign(t)
  PROVE  Touched(t) \subseteq PayAccounts
BY DEF PaymentsAssumption, Deals, IsForeign, Touched, BankLegs

LEMMA EnteredWithin ==
  ASSUME PaymentsAssumption, CallsWithin, NEW t \in Txs,
         NEW place \in Places \ {"row", "update", "write"}, place \in AtBank => ~IsForeign(t)
  PROVE  Within([Idle EXCEPT !.at = place, !.tx = t, !.tries = attempts[t]])
<1>1. DOMAIN <<>> = {}
  OBVIOUS
<1>2. PICK n \in Nat : n = attempts[t]
  BY DEF CallsWithin
<1>3. PICK v : v = [Idle EXCEPT !.at = place, !.tx = t, !.tries = n]
  OBVIOUS
<1>4. /\ v.at = place /\ v.tx = t /\ v.tries = n
      /\ v.seen = <<>> /\ v.rows = {} /\ v.row = {} /\ v.locked = {}
  <2>1. v.at = place /\ v.tx = t /\ v.tries = n
    BY <1>3 DEF Idle
  <2>2. v.seen = <<>> /\ v.rows = {} /\ v.row = {} /\ v.locked = {}
    BY <1>3 DEF Idle
  <2> QED BY <2>1, <2>2
<1>5. Within(v)
  BY <1>1, <1>4 DEF Within
<1> QED BY <1>2, <1>3, <1>5

LEMMA IdleWithin == Within(Idle)
<1>1. DOMAIN <<>> = {}
  OBVIOUS
<1> QED BY <1>1 DEF Within, Idle, AtBank

LEMMA MovedWithin ==
  ASSUME NEW v, Shape(v), Within(v), NEW place,
         place \in AtBank => v.tx \in Txs /\ ~IsForeign(v.tx)
  PROVE  Within([v EXCEPT !.at = place])
<1>1. [v EXCEPT !.at = place] = [at |-> place, tx |-> v.tx, tries |-> v.tries, seen |-> v.seen,
                                 rows |-> v.rows, row |-> v.row, locked |-> v.locked]
  BY DEF Shape
<1> QED BY <1>1 DEF Within

LEMMA CallWithin ==
  ASSUME PayInv, CallsWithin, NEW c \in Calls, NEW w, Within(w), call' = [call EXCEPT ![c] = w]
  PROVE  \A d \in Calls : Within(call[d])'
<1>1. \A d \in Calls : call'[d] = IF d = c THEN w ELSE call[d]
  BY DEF PayInv, PayTypes
<1> QED BY <1>1 DEF CallsWithin, Within, IsForeign

LEMMA GotoWithin ==
  ASSUME PayInv, CallsWithin, NEW c \in Calls, NEW place, Goto(c, place),
         place \in AtBank => ~IsForeign(call[c].tx), call[c].at # "idle"
  PROVE  \A d \in Calls : Within(call[d])'
<1>1. PICK v : v = call[c]
  OBVIOUS
<1>2. Shape(v) /\ Within(v) /\ v.tx \in Txs
  BY <1>1 DEF PayInv, PayTypes, CallTyped, CallsWithin
<1>3. Within([v EXCEPT !.at = place])
  BY <1>1, <1>2, MovedWithin
<1>4. call' = [call EXCEPT ![c] = [v EXCEPT !.at = place]]
  BY <1>1 DEF Goto, PayInv, PayTypes
<1> QED BY <1>3, <1>4, CallWithin

LEMMA ReturnWithin ==
  ASSUME PayInv, CallsWithin, NEW c \in Calls, Return(c)
  PROVE  \A d \in Calls : Within(call[d])'
BY IdleWithin, CallWithin DEF Return

LEMMA EnterWithin ==
  ASSUME PaymentsAssumption, PayInv, CallsWithin, NEW c \in Calls, NEW t \in Txs,
         NEW place \in Places \ {"row", "update", "write"}, Enter(c, t, place),
         place \in AtBank => ~IsForeign(t)
  PROVE  \A d \in Calls : Within(call[d])'
<1>1. Within([Idle EXCEPT !.at = place, !.tx = t, !.tries = attempts[t]])
  BY EnteredWithin
<1> QED BY <1>1, CallWithin DEF Enter

LEMMA ClashWithin ==
  ASSUME PaymentsAssumption, PayInv, CallsWithin, NEW C \in SUBSET Calls
  PROVE  Reading(C) \subseteq PayAccounts
<1>1. \A d \in Calls : Opened(d) => call[d].tx \in Txs /\ ~IsForeign(call[d].tx)
  BY DEF CallsWithin, Within, Opened, AtBank
<1>2. \A d \in Calls : Opened(d) => Touched(call[d].tx) \subseteq PayAccounts
  BY <1>1, TouchedWithin
<1> QED BY <1>2 DEF Reading

LEMMA QuietWithin ==
  ASSUME PaymentsAssumption, PayInv, CallsWithin, NEW c \in Calls,
         \/ \E t \in Txs : CreateAndProcess(c, t) \/ ExecuteTransfer(c, t) \/ Verify(c, t)
         \/ RightCode(c) \/ WrongCode(c) \/ RejectTx(c) \/ Process(c) \/ BeginTx(c) \/ Abort(c)
  PROVE  CallsWithin'
<1>1. /\ UNCHANGED <<sent, clash>>
      /\ attempts' = attempts \/ attempts' = [attempts EXCEPT ![call[c].tx] = call[c].tries + 1]
  BY DEF CreateAndProcess, ExecuteTransfer, Verify, RightCode, WrongCode, RejectTx, Process,
         BeginTx, Abort, ghosts
<1>2. attempts' \in [Txs -> Nat]
  <2>1. call[c].tries \in Nat /\ attempts \in [Txs -> Nat]
    BY DEF CallsWithin, Within
  <2> QED BY <1>1, <2>1
<1>3. \A d \in Calls : Within(call[d])'
  <2>1. ASSUME NEW t \in Txs, CreateAndProcess(c, t) \/ ExecuteTransfer(c, t) \/ Verify(c, t)
        PROVE  \A d \in Calls : Within(call[d])'
    <3>1. PICK place \in {"process", "begin", "check", "verify"} :
            Enter(c, t, place) /\ (place \in AtBank => Kind(t) \in {"settlement", "transfer"})
      BY <2>1 DEF CreateAndProcess, ExecuteTransfer, Verify, AtBank
    <3>2. IsForeign(t) => Kind(t) \in {"payment", "direct"}
      BY DEF PaymentsAssumption, LeavesBank, IsForeign, Kind
    <3>3. place \in AtBank => ~IsForeign(t)
      BY <3>1, <3>2
    <3>4. place \in Places \ {"row", "update", "write"}
      BY DEF Places
    <3> QED BY <3>1, <3>3, <3>4, EnterWithin
  <2>2. CASE Return(c)
    BY <2>2, ReturnWithin
  <2>3. CASE RightCode(c)
    BY <2>3, GotoWithin DEF RightCode, At, AtBank
  <2>4. CASE WrongCode(c) /\ Goto(c, "cancel")
    BY <2>4, GotoWithin DEF WrongCode, At, AtBank
  <2>5. CASE Process(c) /\ ~Return(c)
    <3>1. PICK place \in {"begin", "send"} :
            Goto(c, place) /\ (place = "begin" => ~IsForeign(call[c].tx))
      BY <2>5 DEF Process
    <3> QED BY <2>5, <3>1, GotoWithin DEF Process, At, AtBank
  <2>6. CASE BeginTx(c) /\ ~Return(c)
    <3>1. ~IsForeign(call[c].tx)
      BY <2>6 DEF BeginTx, At, CallsWithin, Within, AtBank
    <3> QED BY <2>6, <3>1, GotoWithin DEF BeginTx, At
  <2>7. WrongCode(c) => Return(c) \/ Goto(c, "cancel")
    BY DEF WrongCode
  <2> QED BY <2>1, <2>2, <2>3, <2>4, <2>5, <2>6, <2>7 DEF RejectTx, Abort
<1> QED BY <1>1, <1>2, <1>3 DEF CallsWithin

LEMMA SendWithin ==
  ASSUME PaymentsAssumption, PayInv, CallsWithin, NEW c \in Calls,
         NEW started \in BOOLEAN, NEW answered \in BOOLEAN, SendInterbank(c, started, answered)
  PROVE  CallsWithin'
<1>1. attempts' \in [Txs -> Nat]
  BY DEF SendInterbank, CallsWithin
<1>2. sent' \in [Txs -> Nat]
  <2>1. sent \in [Txs -> Nat]
    BY DEF CallsWithin
  <2>2. sent' = sent \/ sent' = [sent EXCEPT ![call[c].tx] = @ + 1]
    BY DEF SendInterbank
  <2> QED BY <2>1, <2>2
<1>3. clash' \subseteq PayAccounts
  BY ClashWithin DEF SendInterbank, CallsWithin
<1>4. \A d \in Calls : Within(call[d])'
  <2>1. CASE Return(c)
    BY <2>1, ReturnWithin
  <2>2. CASE Goto(c, "refuse")
    BY <2>2, GotoWithin DEF SendInterbank, At, AtBank
  <2> QED BY <2>1, <2>2 DEF SendInterbank
<1> QED BY <1>1, <1>2, <1>3, <1>4 DEF CallsWithin

LEMMA CheckWithin ==
  ASSUME PaymentsAssumption, PayInv, CallsWithin, NEW c \in Calls, CheckAccounts(c)
  PROVE  CallsWithin'
<1> DEFINE t     == call[c].tx
           place == IF Deal[t].convert THEN "row" ELSE "write"
           rows  == IF Deal[t].convert THEN Touched(t) ELSE {}
           seen  == IF Deal[t].convert THEN <<>> ELSE [a \in Touched(t) |-> payBalance[a]]
<1>1. t \in Txs /\ Touched(t) \subseteq PayAccounts /\ ~IsForeign(t)
  <2>1. t \in Txs /\ ~IsForeign(t)
    BY DEF CheckAccounts, At, CallsWithin, Within, AtBank
  <2> QED BY <2>1, TouchedWithin
<1>2. attempts' \in [Txs -> Nat] /\ sent' \in [Txs -> Nat]
  BY DEF CheckAccounts, CallsWithin
<1>3. clash' \subseteq PayAccounts
  BY <1>1 DEF CheckAccounts, CallsWithin
<1>4. \A d \in Calls : Within(call[d])'
  <2>1. CASE Return(c)
    BY <2>1, ReturnWithin
  <2>2. CASE call' = [call EXCEPT ![c].at = place, ![c].rows = rows, ![c].seen = seen]
    <3>1. PICK v : v = call[c]
      OBVIOUS
    <3>2. Shape(v) /\ Within(v) /\ v.tx = t
      BY <3>1 DEF PayInv, PayTypes, CallTyped, CallsWithin
    <3>3. DOMAIN seen \subseteq PayAccounts /\ rows \subseteq PayAccounts
      <4>1. DOMAIN <<>> = {}
        OBVIOUS
      <4> QED BY <1>1, <4>1
    <3> HIDE DEF t, place, rows, seen
    <3> DEFINE w == [v EXCEPT !.at = place, !.rows = rows, !.seen = seen]
    <3>4. /\ w.tries = v.tries /\ w.tx = v.tx /\ w.at = place
          /\ w.seen = seen /\ w.rows = rows /\ w.row = v.row /\ w.locked = v.locked
      <4>1. w.tries = v.tries
        BY <3>2 DEF Shape
      <4>2. w.tx = v.tx
        BY <3>2 DEF Shape
      <4>3. w.at = place
        BY <3>2 DEF Shape
      <4>4. w.seen = seen
        BY <3>2 DEF Shape
      <4>5. w.rows = rows
        BY <3>2 DEF Shape
      <4>6. w.row = v.row
        BY <3>2 DEF Shape
      <4>7. w.locked = v.locked
        BY <3>2 DEF Shape
      <4> QED BY <4>1, <4>2, <4>3, <4>4, <4>5, <4>6, <4>7
    <3> HIDE DEF w
    <3>5. Within(w)
      BY <1>1, <3>2, <3>3, <3>4 DEF Within
    <3>6. call' = [call EXCEPT ![c] = w]
      BY <2>2, <3>1 DEF w, PayInv, PayTypes
    <3> QED BY <3>5, <3>6, CallWithin
  <2> QED BY <2>1, <2>2 DEF CheckAccounts
<1> QED BY <1>2, <1>3, <1>4 DEF CallsWithin

LEMMA ReadWithin ==
  ASSUME PaymentsAssumption, PayInv, CallsWithin, NEW c \in Calls, NEW a \in PayAccounts,
         ReadRow(c, a)
  PROVE  CallsWithin'
<1> DEFINE old  == call[c].seen
           seen == [b \in {a} \cup DOMAIN old |-> IF b = a THEN payBalance[a] ELSE old[b]]
           rows == call[c].rows \ {a}
           row  == {a}
<1>1. PICK v : v = call[c]
  OBVIOUS
<1>2. Shape(v) /\ Within(v) /\ v.at = "row" /\ v.tx \in Txs /\ ~IsForeign(v.tx)
  BY <1>1 DEF PayInv, PayTypes, CallTyped, CallsWithin, ReadRow, At, Within, AtBank
<1>3. DOMAIN seen \subseteq PayAccounts /\ rows \subseteq PayAccounts /\ row \subseteq PayAccounts
  BY <1>1, <1>2 DEF Within
<1> DEFINE w == [v EXCEPT !.at = "update", !.row = row, !.rows = rows, !.seen = seen]
<1>4. call' = [call EXCEPT ![c] = w]
  BY <1>1 DEF ReadRow, PayInv, PayTypes
<1> HIDE DEF seen, rows, row
<1>5. /\ w.tries = v.tries /\ w.tx = v.tx /\ w.at = "update"
      /\ w.seen = seen /\ w.rows = rows /\ w.row = row /\ w.locked = v.locked
  <2>1. w.tries = v.tries
    BY <1>2 DEF Shape
  <2>2. w.tx = v.tx
    BY <1>2 DEF Shape
  <2>3. w.at = "update"
    BY <1>2 DEF Shape
  <2>4. w.seen = seen
    BY <1>2 DEF Shape
  <2>5. w.rows = rows
    BY <1>2 DEF Shape
  <2>6. w.row = row
    BY <1>2 DEF Shape
  <2>7. w.locked = v.locked
    BY <1>2 DEF Shape
  <2> QED BY <2>1, <2>2, <2>3, <2>4, <2>5, <2>6, <2>7
<1> HIDE DEF w
<1>6. Within(w)
  BY <1>2, <1>3, <1>5 DEF Within
<1>7. \A d \in Calls : Within(call[d])'
  BY <1>4, <1>6, CallWithin
<1> QED BY <1>7 DEF CallsWithin, ReadRow, ghosts

LEMMA UpdateWithin ==
  ASSUME PaymentsAssumption, PayInv, CallsWithin, NEW c \in Calls, UpdateRow(c)
  PROVE  CallsWithin'
<1> DEFINE place  == IF call[c].rows = {} THEN "write" ELSE "row"
           locked == call[c].locked \cup call[c].row
<1>1. PICK v : v = call[c]
  OBVIOUS
<1>2. Shape(v) /\ Within(v) /\ v.at = "update" /\ v.tx \in Txs /\ ~IsForeign(v.tx)
  BY <1>1 DEF PayInv, PayTypes, CallTyped, CallsWithin, UpdateRow, At, Within, AtBank
<1>3. locked \subseteq PayAccounts
  BY <1>1, <1>2 DEF Within
<1> DEFINE w == [v EXCEPT !.at = place, !.locked = locked, !.row = {}]
<1>4. call' = [call EXCEPT ![c] = w]
  BY <1>1 DEF UpdateRow, PayInv, PayTypes
<1> HIDE DEF place, locked
<1>5. /\ w.tries = v.tries /\ w.tx = v.tx /\ w.at = place
      /\ w.seen = v.seen /\ w.rows = v.rows /\ w.row = {} /\ w.locked = locked
  <2>1. w.tries = v.tries
    BY <1>2 DEF Shape
  <2>2. w.tx = v.tx
    BY <1>2 DEF Shape
  <2>3. w.at = place
    BY <1>2 DEF Shape
  <2>4. w.seen = v.seen
    BY <1>2 DEF Shape
  <2>5. w.rows = v.rows
    BY <1>2 DEF Shape
  <2>6. w.row = {}
    BY <1>2 DEF Shape
  <2>7. w.locked = locked
    BY <1>2 DEF Shape
  <2> QED BY <2>1, <2>2, <2>3, <2>4, <2>5, <2>6, <2>7
<1> HIDE DEF w
<1>6. Within(w)
  BY <1>2, <1>3, <1>5 DEF Within
<1>7. \A d \in Calls : Within(call[d])'
  BY <1>4, <1>6, CallWithin
<1> QED BY <1>7 DEF CallsWithin, UpdateRow, ghosts

LEMMA WithinStays ==
  ASSUME CallsWithin, UNCHANGED <<attempts, sent, call>>, clash' \subseteq PayAccounts
  PROVE  CallsWithin'
BY DEF CallsWithin, Within, IsForeign

LEMMA WithinStep ==
  ASSUME PaymentsAssumption, PayInv, CallsWithin, [PaymentsNext]_payVars
  PROVE  CallsWithin'
<1>1. CASE UNCHANGED payVars \/ \E t \in Txs : CreatePayment(t)
  BY <1>1, WithinStays DEF payVars, ghosts, CreatePayment, CallsWithin
<1>2. ASSUME NEW t \in Txs, NEW success \in BOOLEAN, FinalizeInterbankPayment(t, success)
      PROVE  CallsWithin'
  BY <1>2, WithinStays, ClashWithin DEF FinalizeInterbankPayment, CallsWithin
<1>3. ASSUME NEW c \in Calls, CommitTx(c) PROVE CallsWithin'
  BY <1>3, ReturnWithin DEF CommitTx, CallsWithin
<1> QED
  BY <1>1, <1>2, <1>3, QuietWithin, SendWithin, CheckWithin, ReadWithin, UpdateWithin
     DEF PaymentsNext

LEMMA PayTyped == ASSUME PaymentsAssumption PROVE PaymentsSpec => []PayTypeOK
<1>1. PaymentsInit => CallsWithin
  <2>1. 0 \in Nat
    OBVIOUS
  <2> QED BY <2>1, IdleWithin DEF PaymentsInit, CallsWithin
<1>2. PayInv /\ CallsWithin /\ [PaymentsNext]_payVars => CallsWithin'
  BY WithinStep
<1>3. PayInv /\ BooksInv /\ CallsWithin => PayTypeOK
  <2> SUFFICES ASSUME PayInv, BooksInv, CallsWithin PROVE PayTypeOK
    OBVIOUS
  <2>1. DOMAIN call = Calls
    BY DEF PayInv, PayTypes
  <2>2. ASSUME NEW c \in Calls
        PROVE  /\ call[c].at \in Places /\ call[c].tx \in Txs \cup {NoTx}
               /\ call[c].rows \cup call[c].row \cup call[c].locked \cup DOMAIN call[c].seen
                    \subseteq PayAccounts
    BY DEF PayInv, PayTypes, CallTyped, CallsWithin, Within
  <2> QED BY <2>1, <2>2 DEF PayTypeOK, PayInv, PayTypes, BooksInv, CallsWithin
<1>4. PaymentsSpec => []PayInv
  BY PayInvariant
<1>5. PaymentsInit => BooksInv
  BY BooksInit
<1>6. PayInv /\ BooksInv /\ PayInv' /\ [PaymentsNext]_payVars => BooksInv'
  BY BooksStep
<1> QED BY <1>1, <1>2, <1>3, <1>4, <1>5, <1>6, PTL DEF PaymentsSpec

-----------------------------------------------------------------------------
(* Types of InterbankCash, of loans and of the run that composes them all.    *)

IdleAway == \A c \in CashCalls : request[c].at = "idle" => request[c].id = NoPosting

LEMMA IdleAwayStep ==
  ASSUME CashInv, IdleAway, [CashPostingsNext]_cashVars
  PROVE  IdleAway'
<1>1. ASSUME NEW c \in CashCalls, ReturnRequest(c) PROVE IdleAway'
  <2>1. IdleRequest.id = NoPosting
    BY DEF IdleRequest
  <2>2. \A d \in CashCalls : request'[d] = IF d = c THEN IdleRequest ELSE request[d]
    BY <1>1 DEF ReturnRequest, CashInv, CashTypes
  <2> QED BY <2>1, <2>2 DEF IdleAway
<1>2. ASSUME NEW c \in CashCalls, NEW k \in Postings, NEW op, ReadPosting(c, k, op) PROVE IdleAway'
  <2>1. [IdleRequest EXCEPT !.at = "posting", !.op = op, !.id = k, !.read = posting[k]].at # "idle"
    BY DEF IdleRequest
  <2>2. \A d \in CashCalls : d # c => request'[d] = request[d]
    BY <1>2 DEF ReadPosting, CashInv, CashTypes
  <2>3. request'[c].at # "idle"
    BY <1>2, <2>1 DEF ReadPosting, CashInv, CashTypes
  <2> QED BY <2>2, <2>3 DEF IdleAway
<1>3. ASSUME NEW c \in CashCalls, NEW a \in CashAccounts, ReadAccount(c, a) PROVE IdleAway'
  <2>1. \A d \in CashCalls : d # c => request'[d] = request[d]
    BY <1>3 DEF ReadAccount, CashInv, CashTypes
  <2>2. request'[c].at = "account"
    BY <1>3 DEF ReadAccount, CashInv, CashTypes, RequestViews
  <2> QED BY <2>1, <2>2 DEF IdleAway
<1>4. CASE UNCHANGED cashVars
  BY <1>4 DEF cashVars, IdleAway
<1>5. ASSUME NEW c \in CashCalls,
             \/ \E r \in PrepareRequests, rate \in Rates : PrepareNew(c, r, rate)
             \/ \E r \in PrepareRequests : PrepareAgain(c, r)
             \/ CommitPosting(c) \/ RollbackPosting(c) \/ SaveUnchanged(c) \/ EndRequest(c)
      PROVE  IdleAway'
  <2>1. ReturnRequest(c)
    BY <1>5 DEF PrepareNew, PrepareAgain, CommitPosting, RollbackPosting, SaveUnchanged, EndRequest
  <2> QED BY <2>1, <1>1
<1> QED BY <1>2, <1>3, <1>4, <1>5 DEF CashPostingsNext

LEMMA CashTyped == ASSUME CashAssumption PROVE CashPostingsSpec => []CashTypeOK
<1>1. CashPostingsInit => IdleAway
  BY DEF CashPostingsInit, IdleAway, IdleRequest
<1>2. CashPostingsInit => CashBooksInv
  BY CashBooksInit
<1>3. CashInv /\ CashInv' /\ CashBooksInv /\ [CashPostingsNext]_cashVars => CashBooksInv'
  BY CashBooksStep
<1>4. CashInv /\ IdleAway /\ [CashPostingsNext]_cashVars => IdleAway'
  BY IdleAwayStep
<1>5. CashInv /\ CashBooksInv /\ IdleAway => CashTypeOK
  <2> SUFFICES ASSUME CashInv, CashBooksInv, IdleAway PROVE CashTypeOK
    OBVIOUS
  <2>1. NoAccount \notin CashAccounts /\ NoPosting \notin Postings
    BY DEF CashAssumption
  <2>2. ASSUME NEW k \in Postings
        PROVE  /\ posting[k].status \in PostingStatuses
               /\ (posting[k].status = "NONE") = (posting[k].account = NoAccount)
    <3>1. posting[k] \in PostingRows
      BY DEF CashInv, CashTypes
    <3>2. CASE posting[k] = NoRow
      BY <3>2 DEF NoRow, PostingStatuses
    <3>3. CASE posting[k] # NoRow
      BY <2>1, <3>1, <3>3 DEF PostingRows, PostingStatuses
    <3> QED BY <3>2, <3>3
  <2>3. ASSUME NEW c \in CashCalls
        PROVE  /\ request[c].at \in {"idle", "posting", "account"}
               /\ (request[c].at = "idle") = (request[c].id = NoPosting)
               /\ (request[c].at = "account") = (request[c].account \in CashAccounts)
    <3>1. request[c].at \in {"idle", "posting", "account"}
      BY DEF CashInv, CashTypes, RequestViews, RequestPlaces
    <3>2. request[c].at = "idle" <=> request[c].id = NoPosting
      BY <2>1 DEF CashInv, CashTypes, IdleAway
    <3>3. request[c].at = "account" <=> request[c].account \in CashAccounts
      BY <2>1 DEF CashInv, CashTypes, CashBooksInv, ReadKeeps
    <3> QED BY <3>1, <3>2, <3>3
  <2> QED BY <2>2, <2>3 DEF CashTypeOK, CashInv, CashTypes
<1> QED BY <1>1, <1>2, <1>3, <1>4, <1>5, CashInvariant, PTL DEF CashPostingsSpec

LoanRest ==
    /\ due \in [LoanRequests -> 0 .. Period] /\ funds \in [LoanRequests -> 0 .. MaxFunds]
    /\ \A i \in batch.todo : batch.copy[i] \in [status : InstallmentStatuses, paid : Nat]

LEMMA LoanRestStep ==
  ASSUME LoansAssumption, LoanInv, LoanInv', LoanRest, [LoansNext]_loanVars
  PROVE  LoanRest'
<1> USE DEF LoansAssumption
<1>1. due' \in [LoanRequests -> 0 .. Period]
  <2>1. CASE \E q \in LoanRequests : Month(q)
    BY <2>1 DEF Month, LoanRest
  <2>2. CASE ~ \E q \in LoanRequests : Month(q)
    <3>1. due' = due
      BY <2>2 DEF LoansNext, loanVars, SubmitLoanRequest, ClientMovesMoney, ReadRequest,
                  SaveApproved, CommitApproval, AbortApproval, RejectLoanRequest, ProcessDueInstallments,
                  ProcessRetryInstallments, Read, PayInstallment, PaymentFails, PaymentRolledBack,
                  CommitReportsError, Restart
    <3> QED BY <3>1 DEF LoanRest
  <2> QED BY <2>1, <2>2
<1>2. funds' \in [LoanRequests -> 0 .. MaxFunds]
  <2>1. CASE \E q \in LoanRequests, amount \in 0 .. MaxFunds : ClientMovesMoney(q, amount)
    BY <2>1 DEF ClientMovesMoney, LoanRest
  <2>2. CASE \E i \in Installments : Take(i)
    <3>1. PICK i \in Installments : Take(i)
      BY <2>2
    <3>2. i[1] \in LoanRequests
      BY DEF Installments
    <3> QED BY <3>1, <3>2 DEF Take, LoanRest
  <2>3. CASE UNCHANGED funds
    BY <2>3 DEF LoanRest
  <2>4. \/ \E q \in LoanRequests, amount \in 0 .. MaxFunds : ClientMovesMoney(q, amount)
        \/ \E i \in Installments : Take(i)
        \/ UNCHANGED funds
    BY DEF LoansNext, loanVars, SubmitLoanRequest, Month, ReadRequest,
           SaveApproved, CommitApproval, AbortApproval, RejectLoanRequest, ProcessDueInstallments,
           ProcessRetryInstallments, Read, PayInstallment, PaymentFails, PaymentRolledBack,
           CommitReportsError, Restart
  <2> QED BY <2>1, <2>2, <2>3, <2>4
<1>3. \A i \in batch'.todo : batch'.copy[i] \in [status : InstallmentStatuses, paid : Nat]
  <2>1. ASSUME NEW kind, NEW S \in SUBSET Installments, Read(kind, S)
        PROVE  \A i \in batch'.todo : batch'.copy[i] \in [status : InstallmentStatuses, paid : Nat]
    <3>1. batch'.todo = S
      BY <2>1 DEF Read
    <3>2. \A i \in S : batch'.copy[i] = [status |-> installment[i], paid |-> loan[i[1]].paid]
      BY <2>1 DEF Read
    <3>3. \A i \in S : installment[i] \in InstallmentStatuses /\ loan[i[1]].paid \in Nat
      BY DEF Installments, LoanInv, LoanTypes
    <3>4. ASSUME NEW i \in S PROVE batch'.copy[i] \in [status : InstallmentStatuses, paid : Nat]
      <4>1. PICK a \in InstallmentStatuses, b \in Nat : a = installment[i] /\ b = loan[i[1]].paid
        BY <3>3
      <4>2. [status |-> a, paid |-> b] \in [status : InstallmentStatuses, paid : Nat]
        OBVIOUS
      <4> QED BY <3>2, <4>1, <4>2
    <3> QED BY <3>1, <3>4
  <2>2. CASE \E i \in Installments : Finished(i)
    <3>1. PICK i \in Installments : batch' = [batch EXCEPT !.todo = @ \ {i}]
      BY <2>2 DEF Finished
    <3>2. PICK k, s, f : batch = [kind |-> k, todo |-> s, copy |-> f]
      BY DEF LoanInv, LoanTypes
    <3>3. batch'.todo = s \ {i} /\ batch'.copy = f
      BY <3>1, <3>2
    <3> QED BY <3>2, <3>3 DEF LoanRest
  <2>3. CASE batch' = NoBatch
    BY <2>3 DEF NoBatch
  <2>4. CASE UNCHANGED batch
    BY <2>4 DEF LoanRest
  <2>5. \/ \E i \in Installments : Finished(i)
        \/ batch' = NoBatch \/ UNCHANGED batch
        \/ \E kind \in {"due", "retry"} : \E S \in SUBSET Installments : Read(kind, S)
    BY DEF LoansNext, loanVars, SubmitLoanRequest, Month, ClientMovesMoney, ReadRequest,
           SaveApproved, CommitApproval, AbortApproval, RejectLoanRequest, ProcessDueInstallments,
           ProcessRetryInstallments, Retrying, PayInstallment, PaymentFails, PaymentRolledBack,
           CommitReportsError, Restart
  <2> QED BY <2>1, <2>2, <2>3, <2>4, <2>5
<1> QED BY <1>1, <1>2, <1>3 DEF LoanRest

LEMMA LoanTyped == ASSUME LoansAssumption PROVE LoansSpec => []LoanTypeOK
<1>1. LoansInit => LoanRest
  BY DEF LoansInit, LoanRest, NoBatch, LoansAssumption
<1>2. LoansInit => LoanInv
  BY LoanInit
<1>3. LoanInv /\ [LoansNext]_loanVars => LoanInv'
  BY LoanStep
<1>4. LoanInv /\ LoanInv' /\ LoanRest /\ [LoansNext]_loanVars => LoanRest'
  BY LoanRestStep
<1>5. LoanInv /\ LoanRest => LoanTypeOK
  BY DEF LoanInv, LoanTypes, LoanRest, LoanTypeOK, EmployeePlaces
<1> QED BY <1>1, <1>2, <1>3, <1>4, <1>5, PTL DEF LoansSpec

LEMMA CardTyped == ASSUME CardsAssumption PROVE CardsSpec => []CardTypeOK
<1>1. CardInv => CardTypeOK
  BY DEF CardInv, RowTypes, CardTypeOK, CallRows, CallPlaces
<1> QED BY <1>1, CardInvariant, PTL

\* The components do not disturb each other: what is proved of each of them holds of
\* the banking service that is model-checked.
THEOREM AllComponentsRun ==
  BankingSpec => MCSpec /\ PaymentsSpec /\ CashPostingsSpec /\ LoansSpec /\ CardsSpec
<1>1. BankingInit => MCInit /\ PaymentsInit /\ CashPostingsInit /\ LoansInit /\ CardsInit
  BY DEF BankingInit
<1>2. [BankingNext]_<<runVars, otcVars, payVars, cashVars, loanVars, cardVars>> =>
        /\ [MCNext]_<<fundsVars, external>> /\ [PaymentsNext]_payVars
        /\ [CashPostingsNext]_cashVars /\ [LoansNext]_loanVars /\ [CardsNext]_cardVars
  BY DEF BankingNext, RunEscrow, RunPayments, RunCash, RunLoans, RunCards, ScenarioNext, otcVars
<1> QED BY <1>1, <1>2, PTL
     DEF BankingSpec, MCSpec, PaymentsSpec, CashPostingsSpec, LoansSpec, CardsSpec

\* The variables of every component of banking-service have their types: rows are
\* locked and read of the accounts of the bank, copies are of instalments there are,
\* and an idle request is about no posting.
THEOREM BankingTypesAlways == BankingSpec => []BankingTypeOK
<1>1. MCSpec => []FundsTypeOK
  <2>1. MCInit => FundsTypeOK
    BY OpeningAssumption DEF MCInit, FundsInit, FundsTypeOK
  <2>2. FundsTypeOK /\ [MCNext]_<<fundsVars, external>> => FundsTypeOK'
    <3>1. [MCNext]_<<fundsVars, external>> => [FundsNext]_fundsVars
      BY DEF MCNext, FundsNext
    <3> QED BY <3>1, FundsTypesStep
  <2> QED BY <2>1, <2>2, PTL DEF MCSpec
<1>2. /\ PaymentsSpec => []PayTypeOK
      /\ CashPostingsSpec => []CashTypeOK
      /\ LoansSpec => []LoanTypeOK
      /\ CardsSpec => []CardTypeOK
  BY PayTyped, CashTyped, LoanTyped, CardTyped, BankingAssumption DEF BankingAssumption
<1>3. FundsTypeOK /\ PayTypeOK /\ CashTypeOK /\ LoanTypeOK /\ CardTypeOK => BankingTypeOK
  BY DEF BankingTypeOK
<1> QED BY <1>1, <1>2, <1>3, AllComponentsRun, PTL
==============================================================================
