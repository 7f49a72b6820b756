------------------------------ MODULE OtcFunds ------------------------------
(***************************************************************************)
(* The escrow that banking-service keeps for OTC settlements.              *)
(*                                                                         *)
(* Trading-service names a settlement by an execution key and calls four   *)
(* idempotent operations on it: Reserve, Release, Commit, Refund.  Each    *)
(* operation is one database transaction, and here one atomic action (what *)
(* overlapping transactions do to an account is the subject of Payments);  *)
(* the parameter "reply" is what the gRPC layer answers:                   *)
(*   "ok"       the reservation is (now) in the status the call asks for   *)
(*   "refused"  an error code trading-service takes as final               *)
(*   "error"    an internal error, which trading-service retries           *)
(***************************************************************************)
EXTENDS Integers, FiniteSets, Functions

CONSTANTS
    Accounts,     \* account numbers known to banking-service
    Keys,         \* execution keys a caller may use
    Amounts,      \* trade amounts, in the currency of the contract
    Quotes,       \* Quotes[a]: the <<source, destination>> amounts that the
                  \* exchange rates of the day can turn trade amount a into
    Opening,      \* Opening[acc]: balance of an account at the start
    MaxBalance    \* bound: customers stop depositing at this balance

ASSUME KeysAssumption == IsFiniteSet(Keys)

ASSUME QuotesAssumption ==
    /\ Amounts \subseteq Nat \ {0}
    /\ Quotes \in [Amounts -> SUBSET ((Nat \ {0}) \X (Nat \ {0}))]

ASSUME OpeningAssumption == Opening \in [Accounts -> Nat] /\ MaxBalance \in Nat

VARIABLES
    balance,      \* Account.Balance: the money in the account
    available,    \* Account.AvailableBalance: the part no hold has claimed
    reservation   \* the otc_funds_reservations table, by execution key

fundsVars == <<balance, available, reservation>>

Replies == {"ok", "refused", "error"}

\* The parameters a caller sends with Reserve; a request that names one account
\* twice is turned away before any row is read.
Requests ==
    {req \in [buyer : Accounts, seller : Accounts, amount : Amounts] :
       req.buyer # req.seller}

NoReservation == [status |-> "NONE"]

Reservations ==
    [status : {"RESERVED", "RELEASED", "COMMITTED", "REFUNDED"},
     request : Requests, source : Nat \ {0}, destination : Nat \ {0}]

FundsTypeOK ==
    /\ balance \in [Accounts -> Int]
    /\ available \in [Accounts -> Int]
    /\ reservation \in [Keys -> Reservations \cup {NoReservation}]

FundsInit ==
    /\ balance = Opening
    /\ available = Opening
    /\ reservation = [k \in Keys |-> NoReservation]

-----------------------------------------------------------------------------
(* The four operations of OtcFundsService *)

Status(k) == reservation[k].status
Buyer(k)  == reservation[k].request.buyer
Seller(k) == reservation[k].request.seller

\* Mutant of MoveTo: the status is saved under a name nothing else knows.
MoveToMisspelled(k, status) ==
    reservation' = [reservation EXCEPT ![k].status =
                      IF status = "RELEASED" THEN "CANCELLED" ELSE status]

\* transition saves the row with the status its callback set.
MoveTo(k, status) == reservation' = [reservation EXCEPT ![k].status = status]

\* A second Reserve under a known key changes nothing: it returns the stored
\* row, whatever its status, or a conflict when the parameters differ.
ReserveKnown(k, req, reply) ==
    /\ reservation[k] # NoReservation
    /\ reply = IF reservation[k].request = req THEN "ok" ELSE "refused"
    /\ UNCHANGED fundsVars

\* The hold: AvailableBalance falls, Balance stays.  The converted amounts are
\* stored, so that no later step converts again at another rate.
ReserveNew(k, req, reply) ==
    /\ reservation[k] = NoReservation
    /\ \E quote \in Quotes[req.amount] :
         \/ /\ available[req.buyer] < quote[1]
            /\ reply = "refused"
            /\ UNCHANGED fundsVars
         \/ /\ available[req.buyer] >= quote[1]
            /\ reply = "ok"
            /\ available' = [available EXCEPT ![req.buyer] = @ - quote[1]]
            /\ reservation' = [reservation EXCEPT ![k] =
                 [status |-> "RESERVED", request |-> req,
                  source |-> quote[1], destination |-> quote[2]]]
            /\ UNCHANGED balance

Reserve(k, req, reply) == ReserveKnown(k, req, reply) \/ ReserveNew(k, req, reply)

\* A call for a key in a status it may not leave is refused; one that finds
\* its work done answers ok again.
Done(k, target, reply) ==
    /\ Status(k) = target
    /\ reply = "ok"
    /\ UNCHANGED fundsVars

Refused(k, allowed, reply) ==
    /\ Status(k) \notin allowed
    /\ reply = "refused"
    /\ UNCHANGED fundsVars

\* Mutant of Release: a repeated call is not recognised as done.
ReleaseAgain(k, reply) ==
    \/ Refused(k, {"RESERVED", "RELEASED"}, reply)
    \/ /\ Status(k) \in {"RESERVED", "RELEASED"}
       /\ reply = "ok"
       /\ available' = [available EXCEPT ![Buyer(k)] = @ + reservation[k].source]
       /\ MoveTo(k, "RELEASED")
       /\ UNCHANGED balance

Release(k, reply) ==
    \/ Done(k, "RELEASED", reply)
    \/ Refused(k, {"RESERVED", "RELEASED"}, reply)
    \/ /\ Status(k) = "RESERVED"
       /\ reply = "ok"
       /\ available' = [available EXCEPT ![Buyer(k)] = @ + reservation[k].source]
       /\ MoveTo(k, "RELEASED")
       /\ UNCHANGED balance

\* The hold must still be visible as Balance - AvailableBalance.
HoldIntact(k) ==
    /\ balance[Buyer(k)] - available[Buyer(k)] >= reservation[k].source
    /\ balance[Buyer(k)] >= reservation[k].source

\* The held money leaves the buyer's balance and reaches both of the seller's.
Commit(k, reply) ==
    \/ Done(k, "COMMITTED", reply)
    \/ Refused(k, {"RESERVED", "COMMITTED"}, reply)
    \/ /\ Status(k) = "RESERVED"
       /\ reply = IF HoldIntact(k) THEN "ok" ELSE "error"
       /\ IF HoldIntact(k)
          THEN /\ balance' = [balance EXCEPT ![Buyer(k)]  = @ - reservation[k].source,
                                             ![Seller(k)] = @ + reservation[k].destination]
               /\ available' = [available EXCEPT ![Seller(k)] = @ + reservation[k].destination]
               /\ MoveTo(k, "COMMITTED")
          ELSE UNCHANGED fundsVars

\* The seller can only return money that is still his and not held elsewhere.
SellerCovers(k) ==
    /\ balance[Seller(k)] >= reservation[k].destination
    /\ available[Seller(k)] >= reservation[k].destination

\* Mutant of Refund: the buyer gets back what the seller received, not what
\* he paid, at another rate.
RefundDestinationAmount(k, reply) ==
    \/ Done(k, "REFUNDED", reply)
    \/ Refused(k, {"COMMITTED", "REFUNDED"}, reply)
    \/ /\ Status(k) = "COMMITTED" /\ SellerCovers(k)
       /\ reply = "ok"
       /\ balance' = [balance EXCEPT ![Seller(k)] = @ - reservation[k].destination,
                                     ![Buyer(k)]  = @ + reservation[k].destination]
       /\ available' = [available EXCEPT ![Seller(k)] = @ - reservation[k].destination,
                                         ![Buyer(k)]  = @ + reservation[k].destination]
       /\ MoveTo(k, "REFUNDED")

Refund(k, reply) ==
    \/ Done(k, "REFUNDED", reply)
    \/ Refused(k, {"COMMITTED", "REFUNDED"}, reply)
    \/ /\ Status(k) = "COMMITTED"
       /\ ~SellerCovers(k)
       /\ reply = "refused"
       /\ UNCHANGED fundsVars
    \/ /\ Status(k) = "COMMITTED"
       /\ SellerCovers(k)
       /\ reply = "ok"
       /\ balance' = [balance EXCEPT ![Seller(k)] = @ - reservation[k].destination,
                                     ![Buyer(k)]  = @ + reservation[k].source]
       /\ available' = [available EXCEPT ![Seller(k)] = @ - reservation[k].destination,
                                         ![Buyer(k)]  = @ + reservation[k].source]
       /\ MoveTo(k, "REFUNDED")

-----------------------------------------------------------------------------
(* What other customers of the bank do to the same accounts *)

\* A payment out of an account takes only available money, from both balances.
Withdraw(a) ==
    /\ available[a] > 0
    /\ balance[a] > 0
    /\ balance' = [balance EXCEPT ![a] = @ - 1]
    /\ available' = [available EXCEPT ![a] = @ - 1]
    /\ UNCHANGED reservation

Deposit(a) ==
    /\ balance[a] < MaxBalance
    /\ balance' = [balance EXCEPT ![a] = @ + 1]
    /\ available' = [available EXCEPT ![a] = @ + 1]
    /\ UNCHANGED reservation

\* Any caller, any key, any order: the service must stand up to all of them.
FundsNext ==
    \/ \E k \in Keys, req \in Requests, reply \in Replies : Reserve(k, req, reply)
    \/ \E k \in Keys, reply \in Replies :
         Release(k, reply) \/ Commit(k, reply) \/ Refund(k, reply)
    \/ \E a \in Accounts : Withdraw(a) \/ Deposit(a)

FundsSpec == FundsInit /\ [][FundsNext]_fundsVars

-----------------------------------------------------------------------------
(* Properties *)

InStatus(a, status) == {k \in Keys : Status(k) = status /\ Buyer(k) = a}

Held(a) == SumFunctionOnSet([k \in Keys |->
             IF k \in InStatus(a, "RESERVED") THEN reservation[k].source ELSE 0], Keys)

\* The gap between an account's balance and its available balance is exactly
\* what the open reservations of that buyer claim: no sequence of calls, in
\* any order, on any number of settlements of one account, leaks a hold or
\* frees one twice.  And none of it drives an account below zero: a refund takes
\* no more from the seller than is available, however long ago he was paid.
HoldsMatchReservations ==
    \A a \in Accounts : balance[a] - available[a] = Held(a) /\ available[a] >= 0
=============================================================================
