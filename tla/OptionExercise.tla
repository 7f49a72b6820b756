--------------------------- MODULE OptionExercise ---------------------------
(***************************************************************************)
(* The exercise of listed options of the bank (PortfolioService of trading- *)
(* service): a request reads the ownership of the option and of its stock,  *)
(* pays for one contract at banking-service, and writes both rows back, one *)
(* after the other, without a lock or a transaction.  Fills of orders write *)
(* the same rows.                                                           *)
(***************************************************************************)
EXTENDS Naturals, FiniteSets

CONSTANTS
    Calls,         \* requests at a time
    Size,          \* shares of a contract
    OpeningOption, \* what the bank owns at first, in shares of the stock
    MaxStock,      \* bound on what orders buy of each asset
    MaxSettled     \* bound on the exercises paid for

ExerciseAssumption ==
    /\ Size \in Nat \ {0} /\ OpeningOption \in Nat /\ MaxStock \in Nat /\ MaxSettled \in Nat
    /\ IsFiniteSet(Calls)

Assets == {"stock", "option"}

VARIABLES
    owned,     \* AssetOwnership.Amount of the bank
    inMoney,   \* the price of the stock is above the strike price
    expired,   \* the settlement date has passed
    request,   \* where each request is, and the amounts it has read
    bought,    \* history: shares that orders bought of each asset
    settled,   \* history: exercises paid for
    exercised, \* history: exercises written to each asset
    disturbed, \* history: a request paid, and failed before the end
    clash      \* history: a row was written between its read and its write

exerciseVars == <<owned, inMoney, expired, request, bought, settled, exercised, disturbed, clash>>

Idle == [at |-> "idle", stock |-> 0, option |-> 0]

ExerciseTypeOK ==
    /\ {owned, bought, exercised} \subseteq [Assets -> Nat] /\ settled \in Nat
    /\ {inMoney, expired, disturbed, clash} \subseteq BOOLEAN
    /\ request \in [Calls -> [at : {"idle", "settle", "convert", "stock", "option"},
                              stock : Nat, option : Nat]]

Init ==
    /\ owned = [a \in Assets |-> IF a = "option" THEN OpeningOption ELSE 0]
    /\ inMoney = TRUE /\ expired = FALSE
    /\ request = [c \in Calls |-> Idle]
    /\ bought = [a \in Assets |-> 0] /\ settled = 0 /\ exercised = bought
    /\ disturbed = FALSE /\ clash = FALSE

Goes(c, a) == request' = [request EXCEPT ![c].at = a]
Ends(c)    == request' = [request EXCEPT ![c] = Idle]

\* An exercise of the asset's row is under way in another request than c.
ReadByOther(c) == \E d \in Calls \ {c} : request[d].at # "idle"

-----------------------------------------------------------------------------
\* A position that is no multiple of the contract is refused, and so one of less.
ReadOwnerships(c) ==
    /\ request[c].at = "idle" /\ owned["option"] > 0
    /\ inMoney /\ ~expired /\ owned["option"] % Size = 0
    /\ request' = [request EXCEPT ![c] =
                     [at |-> "settle", stock |-> owned["stock"], option |-> owned["option"]]]
    /\ UNCHANGED <<owned, inMoney, expired, bought, settled, exercised, disturbed, clash>>

\* The bank refuses, or is out of reach.
SettlementFails(c) ==
    /\ request[c].at = "settle" /\ Ends(c)
    /\ UNCHANGED <<owned, inMoney, expired, bought, settled, exercised, disturbed, clash>>

\* The cost of one contract is paid; an answer that is lost is a failure to the request.
ExecuteTradeSettlement(c) ==
    /\ request[c].at = "settle" /\ settled < MaxSettled /\ settled' = settled + 1
    /\ \/ Goes(c, "convert") /\ UNCHANGED disturbed
       \/ Ends(c) /\ disturbed' = TRUE
    /\ UNCHANGED <<owned, inMoney, expired, bought, exercised, clash>>

\* The strike price in dinars, for the average price of the position.
ConvertStrikePrice(c) ==
    /\ request[c].at = "convert" /\ Goes(c, "stock")
    /\ UNCHANGED <<owned, inMoney, expired, bought, settled, exercised, disturbed, clash>>

\* One of the steps behind the settlement fails: nothing is given back.
FailAfterSettlement(c) ==
    /\ request[c].at \in {"convert", "stock", "option"} /\ Ends(c) /\ disturbed' = TRUE
    /\ UNCHANGED <<owned, inMoney, expired, bought, settled, exercised, clash>>

UpsertStock(c) ==
    /\ request[c].at = "stock" /\ Goes(c, "option")
    /\ owned' = [owned EXCEPT !["stock"] = request[c].stock + Size]
    /\ exercised' = [exercised EXCEPT !["stock"] = @ + 1]
    /\ clash' = (clash \/ ReadByOther(c))
    /\ UNCHANGED <<inMoney, expired, bought, settled, disturbed>>

UpsertOption(c) ==
    /\ request[c].at = "option" /\ Ends(c)
    /\ owned' = [owned EXCEPT !["option"] = request[c].option - Size]
    /\ exercised' = [exercised EXCEPT !["option"] = @ + 1]
    /\ clash' = (clash \/ ReadByOther(c))
    /\ UNCHANGED <<inMoney, expired, bought, settled, disturbed>>

-----------------------------------------------------------------------------
\* A fill of an order of the bank, as OrderExecution has it.
OrderFill(a) ==
    /\ bought[a] + Size <= MaxStock
    /\ owned' = [owned EXCEPT ![a] = @ + Size] /\ bought' = [bought EXCEPT ![a] = @ + Size]
    /\ clash' = (clash \/ \E c \in Calls : request[c].at # "idle")
    /\ UNCHANGED <<inMoney, expired, request, settled, exercised, disturbed>>

MarketMoves ==
    /\ inMoney' = ~inMoney
    /\ UNCHANGED <<owned, expired, request, bought, settled, exercised, disturbed, clash>>

Expire ==
    /\ ~expired /\ expired' = TRUE
    /\ UNCHANGED <<owned, inMoney, request, bought, settled, exercised, disturbed, clash>>

Next ==
    \/ \E c \in Calls :
         \/ ReadOwnerships(c) \/ SettlementFails(c) \/ ExecuteTradeSettlement(c)
         \/ ConvertStrikePrice(c) \/ FailAfterSettlement(c) \/ UpsertStock(c) \/ UpsertOption(c)
    \/ \E a \in Assets : OrderFill(a)
    \/ MarketMoves \/ Expire

Spec == Init /\ [][Next]_exerciseVars

-----------------------------------------------------------------------------
(* Properties *)

\* Settled and not yet written to an asset.
Awaited(steps) == Cardinality({c \in Calls : request[c].at \in steps})

\* Every exercise that is paid for makes Size shares of Size shares' worth of options,
\* unless it failed behind the payment or another write came between.
ExerciseExact ==
    /\ ~clash => /\ owned["stock"] = bought["stock"] + Size * exercised["stock"]
                 /\ owned["option"] + Size * exercised["option"] = OpeningOption + bought["option"]
    /\ ~disturbed => /\ settled = exercised["stock"] + Awaited({"convert", "stock"})
                     /\ settled = exercised["option"] + Awaited({"convert", "stock", "option"})
=============================================================================
