----------------------------- MODULE MCTrading -----------------------------
(***************************************************************************)
(* The components of trading-service besides the exercise saga, and those   *)
(* of user-service, on small instances.  They share no state that a         *)
(* property relates, so that a behaviour runs one of them, the one          *)
(* "running" names, while the others rest in their initial states.  Orders  *)
(* run a few at a time.                                                     *)
(***************************************************************************)
EXTENDS MCOtcAgreement, Actuaries, Identities

CONSTANTS
    Pair,   \* whatever a component has two of that are alike: calls, clients, ...
    Others, \* and what it has another two of: passwords, redemptions, ...
    TradeOrders, TradeOrder, TradeHolders, TradeOpening, Workers, Loop, OrderCalls,
    OrderLimit, MaxPaid,
    Taxpayers, TaxActuaries, TaxAmounts, MaxTax,
    FundClients, FundAmounts, Navs, MaxLiquid, MaxFundUnits,
    MaxRuns, MaxRunFaults,
    Inflow, Reinvested, Price, QuotePrice, AskPrices, MaxShares,
    Day, Week, Weekend, OpenTime, CloseTime, AfterHoursWindow, AfterHoursDelay, Offsets,
    Asks, Prices, NoPrice, MaxWait, MaxClock,
    Size, OpeningOption, MaxStock, MaxSettled

VARIABLES
    running, scenario,
    row, owned, usedLimit, worker, oCall, oPaid, recorded, moved, commissions,
    transferred, pledged, approved, oDisturbed, oOverlapped, oClash, short,
    owed, recorder, collector, added, relieved, collected, tDisturbed, tOverlapped,
    doubled, eroded,
    liquid, units, redemption, actor, todo, bought, redeemed, paidOut, fDisturbed, fClash,
    recurring, clock, scheduler, rRequest, first, ordered, skipped, rDisturbed, rOverlapped,
    rFaults,
    alert, met, checker, notifying, notified, created, lost,
    dUnits, run, dPaid, taxed, dRecorded, purchase, dSpent, given, dDisturbed, strayed,
    sNow, enabled, offset, sPrice, sOrder, polled, last, reached, filled,
    xOwned, inMoney, expired, xRequest, xBought, xSettled, exercised, xDisturbed, xClash

-----------------------------------------------------------------------------
(* Orders: a purchase in two portions, sells of shares that other sells or    *)
(* the counter may take, an agent who buys in excess of the limit with the    *)
(* second order, and the liquidation of a fund.                               *)

OrderOf(side, quantity, size, holder, by, exempt) ==
    [side |-> side, quantity |-> quantity, size |-> size, holder |-> holder, by |-> by,
     exempt |-> exempt]

MCOrder ==
       "buy"    :> OrderOf("BUY", 2, 1, "ana", "client", FALSE)
    @@ "future" :> OrderOf("SELL", 1, 2, "ana", "client", FALSE)
    @@ "sell"   :> OrderOf("SELL", 1, 1, "ana", "client", FALSE)
    @@ "agent"  :> OrderOf("BUY", 1, 2, "bank", "agent", TRUE)
    @@ "more"   :> OrderOf("BUY", 1, 1, "bank", "agent", TRUE)
    @@ "fund"   :> OrderOf("SELL", 2, 1, "fund", "fund", TRUE)

MCOrders  == DOMAIN MCOrder
MCHolders == {"ana", "bank", "fund"}
MCOpening == "ana" :> 2 @@ "bank" :> 0 @@ "fund" :> 2
Scenarios == {{"buy"}, {"buy", "sell"}, {"future", "sell"}, {"agent", "more"}, {"fund"}}

Trade == INSTANCE OrderExecution WITH
    Orders <- TradeOrders, Order <- TradeOrder, Holders <- TradeHolders,
    Opening <- TradeOpening, Calls <- OrderCalls,
    call <- oCall, paid <- oPaid, disturbed <- oDisturbed, overlapped <- oOverlapped,
    clash <- oClash

TradeNext ==
    /\ Trade!Next
    /\ \A o \in TradeOrders \ scenario : row'[o].status = "NONE"

\* Behaviours are followed up to the first race, and one share over the counter.
TradeBound ==
    /\ oOverlapped = {} /\ oClash = {}
    /\ \A h \in TradeHolders : transferred[h] + pledged[h] <= (IF h = "ana" THEN 1 ELSE 0)

-----------------------------------------------------------------------------
(* Taxes of a client and of an employee, and a fund.                          *)

Tax == INSTANCE Taxes WITH
    Recorders <- Pair, Collectors <- Others, Actuaries <- TaxActuaries, Amounts <- TaxAmounts,
    disturbed <- tDisturbed, overlapped <- tOverlapped

\* Behaviours are followed up to the first race.
TaxBound ==
    /\ tOverlapped = {} /\ doubled = {} /\ eroded = {}
    /\ \A p \in DOMAIN collected : collected[p] <= 2

Fund == INSTANCE InvestmentFunds WITH
    Calls <- Pair, Redemptions <- Others, Clients <- FundClients,
    Amounts <- FundAmounts, MaxUnits <- MaxFundUnits,
    disturbed <- fDisturbed, clash <- fClash

FundBound == fClash = {} /\ \A r \in Others : paidOut[r] <= 1

-----------------------------------------------------------------------------
(* The schedulers of recurring orders and price alerts, and dividends: a share *)
(* costs twice as much in the currency of the fund as in that of the stock,    *)
(* and its ask may have risen by half when the fund's order is executed.       *)

Recur == INSTANCE RecurringOrders WITH
    Calls <- Pair, MaxTime <- MaxRuns, MaxFaults <- MaxRunFaults, request <- rRequest,
    disturbed <- rDisturbed, overlapped <- rOverlapped, faults <- rFaults

Alert == INSTANCE PriceAlerts

Payout == INSTANCE Dividends WITH
    Investors <- Pair, MaxUnits <- MaxShares,
    units <- dUnits, paid <- dPaid, recorded <- dRecorded, spent <- dSpent,
    disturbed <- dDisturbed

-----------------------------------------------------------------------------
(* The sessions of an exchange behind or ahead of the server, in days of five  *)
(* hours and weeks of three days, and the exercise of listed options.          *)

AskOf(side, limit, stop) == [side |-> side, limit |-> limit, stop |-> stop]

MCAsks    == {AskOf("BUY", 1, 0), AskOf("SELL", 2, 1)}
MCOffsets == {-1, 1}

Session == INSTANCE TradingSessions WITH
    Orders <- Asks, MaxTime <- MaxClock, now <- sNow, price <- sPrice, order <- sOrder

Exercise == INSTANCE OptionExercise WITH
    Calls <- Pair,
    owned <- xOwned, request <- xRequest, bought <- xBought, settled <- xSettled,
    disturbed <- xDisturbed, clash <- xClash

ASSUME TradingAssumption ==
    /\ Trade!OrdersAssumption /\ Tax!TaxesAssumption /\ Fund!FundsAssumption
    /\ Recur!RecurringAssumption /\ Payout!DividendsAssumption
    /\ IdentitiesAssumption /\ ActuariesAssumption
    /\ Session!SessionsAssumption /\ Exercise!ExerciseAssumption

-----------------------------------------------------------------------------
runVars == <<running, scenario>>
tradeVars == <<row, owned, usedLimit, worker, oCall, oPaid, recorded, moved, commissions,
               transferred, pledged, approved, oDisturbed, oOverlapped, oClash, short>>
dueVars == <<owed, recorder, collector, added, relieved, collected, tDisturbed,
             tOverlapped, doubled, eroded>>
poolVars == <<liquid, units, redemption, actor, todo, bought, redeemed, paidOut,
              fDisturbed, fClash>>

recurVars == <<recurring, clock, scheduler, rRequest, first, ordered, skipped, rDisturbed,
               rOverlapped, rFaults>>
alertVars == <<alert, met, checker, notifying, notified, created, lost>>
payoutVars == <<dUnits, run, purchase, dPaid, taxed, dRecorded, dSpent, given, dDisturbed,
                strayed>>
hourVars  == <<sNow, enabled, offset, sPrice, sOrder, polled, last, reached, filled>>
optionVars == <<xOwned, inMoney, expired, xRequest, xBought, xSettled, exercised, xDisturbed,
                xClash>>

\* A component that rests begins in one of its initial states all the same.
TradingInit ==
    /\ \/ /\ running \in {"agreement", "taxes", "fund", "recurring", "alerts", "dividends",
                          "identity", "actuary", "sessions", "options"}
          /\ scenario = {}
       \/ running = "orders" /\ scenario \in Scenarios
    /\ Init /\ Trade!Init /\ Tax!Init /\ Fund!Init /\ Recur!Init /\ IdentitiesInit /\ ActuariesInit
    /\ Alert!Init /\ (running # "alerts" => ~ met)
    /\ Payout!Init /\ (running # "dividends" => \A i \in Pair : dUnits[i] = 0)
    /\ Session!Init /\ Exercise!Init
    /\ running # "sessions" => offset = 1 /\ sPrice = 1 /\ sOrder.ask.side = "BUY"

RunAgreement ==
    /\ running = "agreement" /\ Next
    /\ UNCHANGED <<runVars, tradeVars, dueVars, poolVars, recurVars,
                   alertVars, payoutVars, identityVars, actuaryVars, hourVars, optionVars>>
RunOrders ==
    /\ running = "orders" /\ TradeNext
    /\ UNCHANGED <<runVars, vars, dueVars, poolVars, recurVars,
                   alertVars, payoutVars, identityVars, actuaryVars, hourVars, optionVars>>
RunTaxes ==
    /\ running = "taxes" /\ Tax!Next
    /\ UNCHANGED <<runVars, vars, tradeVars, poolVars, recurVars,
                   alertVars, payoutVars, identityVars, actuaryVars, hourVars, optionVars>>
RunFund ==
    /\ running = "fund" /\ Fund!Next
    /\ UNCHANGED <<runVars, vars, tradeVars, dueVars, recurVars,
                   alertVars, payoutVars, identityVars, actuaryVars, hourVars, optionVars>>
RunRecurring ==
    /\ running = "recurring" /\ Recur!Next
    /\ UNCHANGED <<runVars, vars, tradeVars, dueVars, poolVars,
                   alertVars, payoutVars, identityVars, actuaryVars, hourVars, optionVars>>
RunAlerts ==
    /\ running = "alerts" /\ Alert!Next
    /\ UNCHANGED <<runVars, vars, tradeVars, dueVars, poolVars,
                   recurVars, payoutVars, identityVars, actuaryVars, hourVars, optionVars>>
RunDividends ==
    /\ running = "dividends" /\ Payout!Next
    /\ UNCHANGED <<runVars, vars, tradeVars, dueVars, poolVars,
                   recurVars, alertVars, identityVars, actuaryVars, hourVars, optionVars>>
RunIdentity ==
    /\ running = "identity" /\ IdentitiesNext
    /\ UNCHANGED <<runVars, vars, tradeVars, dueVars, poolVars,
                   recurVars, alertVars, payoutVars, actuaryVars, hourVars, optionVars>>
RunActuary ==
    /\ running = "actuary" /\ ActuariesNext
    /\ UNCHANGED <<runVars, vars, tradeVars, dueVars, poolVars,
                   recurVars, alertVars, payoutVars, identityVars, hourVars, optionVars>>
RunSessions ==
    /\ running = "sessions" /\ Session!Next
    /\ UNCHANGED <<runVars, vars, tradeVars, dueVars, poolVars, recurVars,
                   alertVars, payoutVars, identityVars, actuaryVars, optionVars>>
RunOptions ==
    /\ running = "options" /\ Exercise!Next
    /\ UNCHANGED <<runVars, vars, tradeVars, dueVars, poolVars, recurVars,
                   alertVars, payoutVars, identityVars, actuaryVars, hourVars>>

TradingNext ==
    \/ RunAgreement \/ RunOrders \/ RunTaxes \/ RunFund
    \/ RunRecurring \/ RunAlerts \/ RunDividends
    \/ RunIdentity \/ RunActuary \/ RunSessions \/ RunOptions

tradingVars ==
    <<runVars, vars, tradeVars, dueVars, poolVars, recurVars, alertVars, payoutVars,
      identityVars, actuaryVars, hourVars, optionVars>>

TradingSpec == TradingInit /\ [][TradingNext]_tradingVars

\* The requests on offers are alike until they act, so that those behaviours in which
\* they begin one after the other, in the order of their numbers, stand for all.
BeginInOrder ==
    \A r, s \in Requesters : r < s /\ pc[s] # "new" => pc[r] # "new"

\* Where actors overwrite what they read, behaviours are followed up to the first time,
\* those of dividends while one payee's calls fail or the order strays for one cause, and
\* a token made for a caller takes the place of one more that is sent.
TradingBound ==
    CASE running = "agreement" -> BeginInOrder
      [] running = "orders"    -> TradeBound
      [] running = "taxes"     -> TaxBound
      [] running = "fund"      -> FundBound
      [] running = "recurring" -> ~ rOverlapped
      [] running = "dividends" -> Cardinality(dDisturbed) + Cardinality(strayed) <= 1
      [] running = "identity"  -> ~ stale /\ ~ twofold /\ issued + Cardinality(made) <= MaxTokens
      [] running = "actuary"   -> ~ outdated
      [] running = "options"   -> ~ xClash
      [] OTHER                 -> TRUE

TradingSymmetry == Permutations(Pair) \cup Permutations(Others)

-----------------------------------------------------------------------------
(* The properties of the components, as their modules state them; a component *)
(* that rests is in its initial state, where each of them holds.               *)

\* The variables of these components have their types.
TradingTypeOK ==
    /\ AgreementTypeOK
    /\ running = "orders" => Trade!OrderTypeOK
    /\ running = "taxes" => Tax!TaxTypeOK
    /\ running = "fund" => Fund!FundTypeOK
    /\ running = "recurring" => Recur!RecurringTypeOK
    /\ running = "alerts" => Alert!AlertTypeOK
    /\ running = "dividends" => Payout!DividendTypeOK
    /\ running = "identity" => IdentityTypeOK
    /\ running = "actuary" => ActuaryTypeOK
    /\ running = "sessions" => Session!SessionTypeOK
    /\ running = "options" => Exercise!ExerciseTypeOK

\* Orders: the bank, the transactions, the order and the ownership count the same fills.
FillsAgree == running = "orders" => Trade!FillsAgree
\* Orders: the ownership changes by what was bought, sold and delivered.  Options: by
\* what was exercised and paid for.
SharesExact ==
    /\ running = "orders" => Trade!SharesExact
    /\ running = "options" => Exercise!ExerciseExact
\* Orders: what is declined or cancelled is not executed any more.
DeclinedIsFinal == Trade!DeclinedIsFinal
\* Orders: an agent buys no more than the limit without a review.
AgentWithinLimit == running = "orders" => Trade!AgentWithinLimit
\* Taxes: tax recorded is owed, collected or relieved, once.
TaxAccounted == running = "taxes" => Tax!TaxAccounted
\* Funds: units are those paid for less those paid out, and a redemption is paid once.
UnitsExact == running = "fund" => Fund!UnitsExact
\* Recurring orders: each run is ordered or skipped once.  Alerts: one is notified once.
\* Sessions: an order is executed by the next session, and at its price.
ScheduledOnce ==
    /\ running = "recurring" => Recur!RunsAccounted
    /\ running = "alerts" => Alert!NotifiedOnce
    /\ running = "sessions" => Session!AttemptedInTime /\ Session!FilledAtItsPrice
\* Dividends: nobody is paid twice, a fund distributes what it does not reinvest, buys what
\* the rest was worth, and pays the asks of the day for it.
DividendsExact == running = "dividends" => Payout!DividendsExact
=============================================================================
