------------------------------ MODULE Dividends ------------------------------
(***************************************************************************)
(* The dividend of one stock, as trading-service pays it to a client, to    *)
(* the bank (which only records it) and to a fund.  A fund reinvests a part *)
(* of what it received and distributes the rest to its clients by units.    *)
(*                                                                          *)
(* The job and a supervisor may start a run.  Nothing remembers which       *)
(* owners were paid, and every failure is logged and passed over.  Runs     *)
(* share nothing but what the clients of the fund own, so that the module   *)
(* follows one run.  The order that reinvests is sized by the price read at *)
(* the start of the run and executed at the asks of later moments.          *)
(***************************************************************************)
EXTENDS Naturals, FiniteSets, Functions

CONSTANTS
    Investors,  \* clients of the fund
    Inflow,     \* the dividend of the fund
    Reinvested, \* the part of it to reinvest
    Price,      \* of a share when the run starts, in the currency of the fund
    QuotePrice, \* the same, in the currency of the stock
    AskPrices,  \* at which a share may be bought later, in the currency of the fund
    MaxUnits    \* bound on the units of an investor

DividendsAssumption ==
    /\ {Inflow, Reinvested, MaxUnits} \subseteq Nat /\ Reinvested <= Inflow
    /\ {Price, QuotePrice} \cup AskPrices \subseteq Nat \ {0} /\ AskPrices # {}
    /\ IsFiniteSet(Investors) /\ Investors \cap {"client", "bank", "fund", "none"} = {}

VARIABLES
    units,     \* units of each investor in the fund
    run,       \* how far ProcessDividends is
    purchase,  \* the order of the fund that reinvests
    paid,      \* history: payments made to each payee
    taxed,     \* history: taxes recorded for each payee
    recorded,  \* history: payout records stored for each owner
    spent,     \* history: money of the fund that was spent on shares
    given,     \* history: money of the fund that was distributed, before tax
    disturbed, \* history: payees of whom a payment or a record failed
    strayed    \* history: why the order cost more than it was sized for

dividendHistory == <<paid, taxed, recorded, spent, given, disturbed, strayed>>
dividendVars    == <<units, run, purchase, dividendHistory>>

Owners == {"client", "bank", "fund"}
Payees == Owners \cup Investors
NoPurchase == [status |-> "none", quantity |-> 0, filled |-> 0]
NewRun == [at |-> "new", payee |-> "none", owners |-> Owners, todo |-> {},
           units |-> [i \in Investors |-> 0]]

DividendTypeOK ==
    /\ units \in [Investors -> 0 .. MaxUnits]
    /\ run \in [at : {"new", "owner", "tax", "payout", "reinvest", "positions", "clients", "end"},
                payee : Payees \cup {"none"}, owners : SUBSET Owners, todo : SUBSET Investors,
                units : [Investors -> 0 .. MaxUnits]]
    /\ purchase \in [status : {"none", "pending", "approved", "ended"},
                     quantity : Nat, filled : Nat]
    /\ {paid, taxed} \subseteq [Payees -> Nat] /\ recorded \in [Owners -> Nat]
    /\ {spent, given} \subseteq Nat
    /\ disturbed \subseteq Payees /\ strayed \subseteq {"misquoted", "dearer", "repeated"}

Init ==
    /\ units \in [Investors -> 0 .. MaxUnits]
    /\ run = NewRun /\ purchase = NoPurchase
    /\ paid = [p \in Payees |-> 0] /\ taxed = paid
    /\ recorded = [o \in Owners |-> 0]
    /\ spent = 0 /\ given = 0
    /\ disturbed = {} /\ strayed = {}

-----------------------------------------------------------------------------
Go(place, p) == run' = [run EXCEPT !.at = place, !.payee = p]

Once(count, p) == [count EXCEPT ![p] = @ + 1]

Disturb(p) == disturbed' = disturbed \cup {p}

\* An investor's share of what is distributed, by the units read and rounded down.
Share(i) ==
    LET total == SumFunctionOnSet(run.units, Investors) IN
    (run.units[i] * (Inflow - Reinvested)) \div total

\* Investments and redemptions go on.
ChangeUnits(i, n) ==
    /\ units[i] # n /\ units' = [units EXCEPT ![i] = n]
    /\ UNCHANGED <<run, purchase, dividendHistory>>

ProcessDividends ==
    /\ run.at = "new"
    /\ Go("owner", "none")
    /\ UNCHANGED <<units, purchase, dividendHistory>>

\* The dividend of the bank is recorded only.
TakeBank ==
    /\ run.at = "owner" /\ "bank" \in run.owners
    /\ run' = [run EXCEPT !.at = "payout", !.payee = "bank", !.owners = @ \ {"bank"}]
    /\ UNCHANGED <<units, purchase, dividendHistory>>

\* The payment is made or refused; when the answer is lost it may have been made, and
\* the owner is passed over like one who was refused.
PayOwner(o) ==
    /\ run.at = "owner" /\ o \in run.owners \ {"bank"}
    /\ \/ /\ run' = [run EXCEPT !.at = IF o = "fund" THEN "payout" ELSE "tax",
                                !.payee = o, !.owners = @ \ {o}]
          /\ paid' = Once(paid, o) /\ UNCHANGED disturbed
       \/ /\ run' = [run EXCEPT !.owners = @ \ {o}]
          /\ paid' \in {paid, Once(paid, o)}
          /\ Disturb(o)
    /\ UNCHANGED <<units, purchase, taxed, recorded, spent, given, strayed>>

\* The owner's payout is recorded after the tax, and an investor's is not recorded.
AfterTax(p) == IF p = "client" THEN "payout" ELSE "clients"

RecordTax ==
    LET p == run.payee IN
    /\ run.at = "tax"
    /\ \/ taxed' = Once(taxed, p) /\ UNCHANGED disturbed
       \/ Disturb(p) /\ UNCHANGED taxed
    /\ Go(AfterTax(p), p)
    /\ UNCHANGED <<units, purchase, paid, recorded, spent, given, strayed>>

SavePayout ==
    LET p == run.payee IN
    /\ run.at = "payout"
    /\ \/ recorded' = Once(recorded, p) /\ UNCHANGED disturbed
       \/ Disturb(p) /\ UNCHANGED recorded
    /\ Go(IF p = "fund" THEN "reinvest" ELSE "owner", p)
    /\ UNCHANGED <<units, purchase, paid, taxed, spent, given, strayed>>

-----------------------------------------------------------------------------
(* Funds *)

\* A mutated form: the whole dividend is reinvested.
QuantityOfAll(price) == Inflow \div price

\* Shares that the part to reinvest buys at a price.
Quantity(price) == Reinvested \div price

Place(status, quantity) ==
    /\ quantity > 0
    /\ purchase' = [status |-> status, quantity |-> quantity, filled |-> 0]

\* The order is placed, to be reviewed or not, or it is not placed.  When the price cannot
\* be converted the quantity is computed from the price in the other currency.
Reinvest ==
    /\ run.at = "reinvest"
    /\ \/ \E status \in {"pending", "approved"} :
            \/ Place(status, Quantity(Price)) /\ UNCHANGED strayed
            \/ Place(status, Quantity(QuotePrice)) /\ strayed' = {"misquoted"}
       \/ UNCHANGED <<purchase, strayed>>
    /\ Go("positions", "fund")
    /\ UNCHANGED <<units, paid, taxed, recorded, spent, given, disturbed>>

\* A supervisor decides on the order, or it is declined or cancelled in its course.
EndPurchase ==
    /\ \/ purchase.status = "pending" /\ purchase' \in {[purchase EXCEPT !.status = "approved"],
                                                       NoPurchase}
       \/ /\ purchase.status = "approved" /\ purchase.filled < purchase.quantity
          /\ purchase' = [purchase EXCEPT !.status = "ended"]
    /\ UNCHANGED <<units, run, dividendHistory>>

\* The run executes a portion before it goes on, or the loop does at any time later:
\* it is settled at the ask of the moment and counted.  A call that failed after the
\* settlement, and an executor that held an older copy of the order, leave the portion
\* uncounted or other counts in its place.  Followed once.
FillPortion(n, ask) ==
    /\ n <= purchase.quantity - purchase.filled
    /\ spent' = spent + n * ask
    /\ \/ /\ purchase.status = "approved"
          /\ purchase' = [purchase EXCEPT !.filled = @ + n]
          /\ strayed' = strayed \cup (IF ask > Price THEN {"dearer"} ELSE {})
       \/ /\ purchase.status \in {"approved", "ended"} /\ "repeated" \notin strayed
          /\ \E status \in {"approved", "ended"}, filled \in 0 .. purchase.quantity :
               purchase' = [purchase EXCEPT !.status = status, !.filled = filled]
          /\ strayed' = strayed \cup {"repeated"}
    /\ UNCHANGED <<units, run, paid, taxed, recorded, given, disturbed>>

\* When the positions cannot be read nobody is paid.
FindByFund ==
    /\ run.at = "positions"
    /\ \E found \in {{}, {i \in Investors : units[i] > 0}} :
         run' = [run EXCEPT !.at = "clients", !.units = units, !.todo = found]
    /\ UNCHANGED <<units, purchase, dividendHistory>>

PayFundClient(i) ==
    /\ run.at = "clients" /\ i \in run.todo
    /\ \/ /\ Share(i) > 0
          /\ paid' = Once(paid, i) /\ given' = given + Share(i)
          /\ \/ /\ run' = [run EXCEPT !.at = "tax", !.payee = i, !.todo = @ \ {i}]
                /\ UNCHANGED disturbed
             \/ /\ run' = [run EXCEPT !.todo = @ \ {i}]
                /\ Disturb(i)
       \/ /\ run' = [run EXCEPT !.todo = @ \ {i}]
          /\ Disturb(i)
          /\ UNCHANGED <<paid, given>>
    /\ UNCHANGED <<units, purchase, taxed, recorded, spent, strayed>>

\* All clients of the fund had their turn, or all owners.
Finish ==
    /\ \/ run.at = "clients" /\ run.todo = {} /\ Go("owner", "none")
       \/ run.at = "owner" /\ run.owners = {} /\ Go("end", "none")
    /\ UNCHANGED <<units, purchase, dividendHistory>>

\* The process stops: the run is over, and nothing of it is repeated.
Crash ==
    /\ run.at \notin {"new", "end"}
    /\ disturbed' = disturbed \cup ({run.payee} \ {"none"})
    /\ Go("end", run.payee)
    /\ UNCHANGED <<units, purchase, paid, taxed, recorded, spent, given, strayed>>

Next ==
    \/ \E i \in Investors, n \in 0 .. MaxUnits : ChangeUnits(i, n)
    \/ ProcessDividends \/ TakeBank \/ RecordTax \/ SavePayout
    \/ \E o \in Owners : PayOwner(o)
    \/ Reinvest \/ FindByFund \/ Finish \/ Crash \/ EndPurchase
    \/ \E n \in 1 .. purchase.quantity, ask \in AskPrices : FillPortion(n, ask)
    \/ \E i \in Investors : PayFundClient(i)

Spec == Init /\ [][Next]_dividendVars

-----------------------------------------------------------------------------
(* Properties *)

Pending(p, place) == IF run.payee = p /\ run.at = place THEN 1 ELSE 0

\* Each payee has one payment, and its tax and its record belong to it.
PaidOnce ==
    /\ \A p \in Payees : paid[p] <= 1 /\ taxed[p] <= paid[p]
    /\ \A p \in Payees \ (disturbed \cup {"bank", "fund"}) :
         taxed[p] + Pending(p, "tax") = paid[p]
    /\ "client" \notin disturbed =>
         recorded["client"] + Pending("client", "tax") + Pending("client", "payout")
           = paid["client"]

\* What leaves the fund against what came in.
FundWithinDividend ==
    /\ given <= (Inflow - Reinvested) * paid["fund"]
    /\ "misquoted" \notin strayed => purchase.filled * Price <= Reinvested * paid["fund"]
    /\ "repeated" \notin strayed => \E ask \in AskPrices : spent <= purchase.filled * ask
    /\ strayed = {} => spent + given <= Inflow * paid["fund"]

\* A run pays nobody twice; a client's payment is recorded and taxed once, a payment to
\* an investor taxed once, unless a call for that payee failed.  A fund distributes no
\* more than the part that is not reinvested, whoever leaves or joins it meanwhile, and
\* buys no more shares than the other part was worth when the run started, unless the
\* price could not be converted.  It pays an ask for each portion the order counts, so
\* that it spends on shares and clients no more than it received, unless the price could
\* not be converted, an ask was above the price, or a portion was not counted.
DividendsExact == PaidOnce /\ FundWithinDividend
==============================================================================
