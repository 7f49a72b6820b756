-------------------------- MODULE InvestmentFunds --------------------------
(***************************************************************************)
(* An investment fund of trading-service: clients pay into its account and  *)
(* get units of it, and redeem units for money, at once or, when the fund   *)
(* has to sell securities first, by a job that works through the pending    *)
(* redemptions.                                                             *)
(*                                                                          *)
(* A position is read, and written back as a whole after the payment, with  *)
(* no lock in between.  The net asset value is worked out of the account,   *)
(* the listings and the positions whenever it is needed; any value of Navs  *)
(* stands for what it comes to.  The orders that sell securities are the    *)
(* subject of OrderExecution; here their proceeds arrive.                   *)
(***************************************************************************)
EXTENDS Naturals, FiniteSets, FiniteSetsExt, Functions

CONSTANTS
    Clients,     \* ClientID with OwnerType: clients, and the bank
    Redemptions, \* redemptions that may be asked for
    Calls,       \* requests to invest or withdraw at a time
    Amounts,     \* amounts in RSD
    Navs,        \* the net asset value of a unit
    MaxLiquid,   \* bound on the account of the fund
    MaxUnits     \* bound on the units a client buys

Job == "job"
Actors == Calls \cup {Job}
NoClient == "no client"

FundsAssumption ==
    /\ Navs \subseteq Nat \ {0} /\ Amounts \subseteq Nat \ {0} /\ Job \notin Calls
    /\ \A a \in Amounts, n \in Navs : a % n = 0
    /\ MaxLiquid \in Nat /\ MaxUnits \in Nat
    /\ IsFiniteSet(Calls) /\ NoClient \notin Clients /\ "none" \notin Redemptions

VARIABLES
    liquid,      \* the balance of the fund's account
    units,       \* UnitsOwned of each client's position
    redemption,  \* the ClientFundRedemption rows
    actor,       \* where each request, and the job, is, with the copies it holds
    todo,        \* pending redemptions the job has read
    bought,      \* history: units paid for
    redeemed,    \* history: units whose value was paid out
    paidOut,     \* history: how often a redemption was paid out
    disturbed,   \* history: clients and redemptions of whom an answer or a write was lost
    clash        \* history: clients whose position two actors worked on at a time

history  == <<bought, redeemed, paidOut, disturbed, clash>>
fundVars == <<liquid, units, redemption, actor, todo, history>>

Idle == [at |-> "idle", client |-> NoClient, id |-> "none", amount |-> 0, copy |-> 0, nav |-> 1]
NoRedemption == [status |-> "NONE", client |-> NoClient, amount |-> 0]

FundTypeOK ==
    /\ liquid \in 0 .. MaxLiquid /\ units \in [Clients -> Nat]
    /\ \A r \in Redemptions :
         /\ redemption[r].status \in {"NONE", "PENDING_LIQUIDATION", "COMPLETED"}
         /\ redemption[r].status # "NONE" => redemption[r].client \in Clients
    /\ \A a \in Actors :
         /\ actor[a].at \in {"idle", "invested", "upsert", "check", "withdraw", "complete",
                             "redeem", "close"}
         /\ actor[a].at # "idle" => actor[a].client \in Clients /\ actor[a].copy \in Nat
    /\ todo \subseteq Redemptions
    /\ {bought, redeemed} \subseteq [Clients -> Nat] /\ paidOut \in [Redemptions -> Nat]
    /\ disturbed \subseteq Clients \cup Redemptions /\ clash \subseteq Clients

Init ==
    /\ liquid = 0 /\ units = [c \in Clients |-> 0]
    /\ redemption = [r \in Redemptions |-> NoRedemption]
    /\ actor = [a \in Actors |-> Idle] /\ todo = {}
    /\ bought = [c \in Clients |-> 0] /\ redeemed = bought
    /\ paidOut = [r \in Redemptions |-> 0] /\ disturbed = {} /\ clash = {}

-----------------------------------------------------------------------------
HoldsCopy(a, c) == actor[a].client = c /\ actor[a].at # "invested"

\* Actor a reads the position of c.
ReadsPosition(a, c) ==
    clash' = IF \E b \in Actors \ {a} : HoldsCopy(b, c) THEN clash \cup {c} ELSE clash

Goes(a, s) == [actor EXCEPT ![a].at = s]
Ends(a)    == [actor EXCEPT ![a] = Idle]
Disturbs(c, r) == disturbed' = disturbed \cup ({c, r} \cap (Clients \cup Redemptions))

\* A request ends without an effect: a check or a read fails, or the bank refuses.
Refuse(a) ==
    /\ actor[a].at \in {"check", "withdraw", "complete"}
    /\ actor' = Ends(a)
    /\ UNCHANGED <<liquid, units, redemption, todo, history>>

\* A write after the payment fails.
FailAfterPayment(a) ==
    /\ actor[a].at \in {"invested", "upsert", "redeem", "close"}
    /\ actor' = Ends(a) /\ Disturbs(actor[a].client, actor[a].id)
    /\ UNCHANGED <<liquid, units, redemption, todo, bought, redeemed, paidOut, clash>>

-----------------------------------------------------------------------------
(* InvestInFund *)

\* The payment into the account of the fund; its answer may be lost.
PayIn(a, c, m, nav) ==
    /\ actor[a] = Idle /\ a \in Calls
    /\ liquid + m <= MaxLiquid /\ bought[c] + m \div nav <= MaxUnits
    /\ liquid' = liquid + m
    /\ bought' = [bought EXCEPT ![c] = @ + m \div nav]
    /\ \/ /\ actor' = [actor EXCEPT ![a] = [Idle EXCEPT
                         !.at = "invested", !.client = c, !.amount = m, !.nav = nav]]
          /\ UNCHANGED disturbed
       \/ Disturbs(c, "none") /\ UNCHANGED actor
    /\ UNCHANGED <<units, redemption, todo, redeemed, paidOut, clash>>

\* The investment is recorded, and the position read ...
RecordInvestment(a) ==
    LET c == actor[a].client IN
    /\ actor[a].at = "invested"
    /\ actor' = [actor EXCEPT ![a].at = "upsert", ![a].copy = units[c]]
    /\ ReadsPosition(a, c)
    /\ UNCHANGED <<liquid, units, redemption, todo, bought, redeemed, paidOut, disturbed>>

\* ... and written back with the units.
Increased(n, m, nav) == n + m \div nav

UpsertPosition(a) ==
    LET x == actor[a] IN
    /\ x.at = "upsert"
    /\ units' = [units EXCEPT ![x.client] = Increased(x.copy, x.amount, x.nav)]
    /\ actor' = Ends(a)
    /\ UNCHANGED <<liquid, redemption, todo, history>>

-----------------------------------------------------------------------------
(* WithdrawFromFund *)

Requested(c) == {r \in Redemptions : redemption[r].client = c /\ redemption[r].status = "PENDING_LIQUIDATION"}
Pending(c)   == MapThenSumSet(LAMBDA r : redemption[r].amount, Requested(c))

\* A redemption's id is taken by its row, once this is there.
Free(r) == redemption[r].status = "NONE" /\ \A a \in Actors : actor[a].id # r

BeginWithdrawal(a, c, r, m) ==
    /\ actor[a] = Idle /\ a \in Calls /\ Free(r) /\ paidOut[r] = 0 /\ units[c] > 0
    /\ actor' = [actor EXCEPT ![a] = [Idle EXCEPT
                   !.at = "check", !.client = c, !.id = r, !.amount = m, !.copy = units[c]]]
    /\ ReadsPosition(a, c)
    /\ UNCHANGED <<liquid, units, redemption, todo, bought, redeemed, paidOut, disturbed>>

\* Not more than the position is worth beyond what is pending already.
CheckAvailable(a, nav) ==
    LET x == actor[a] IN
    /\ x.at = "check" /\ x.amount + Pending(x.client) <= x.copy * nav
    /\ actor' = Goes(a, "withdraw")
    /\ UNCHANGED <<liquid, units, redemption, todo, history>>

\* The account holds enough, or liquidation orders were placed that may fill it later.
StartPayout(a) ==
    /\ actor[a].at = "withdraw" /\ liquid >= actor[a].amount
    /\ actor' = Goes(a, "complete")
    /\ UNCHANGED <<liquid, units, redemption, todo, history>>

CreatePending(a) ==
    LET x == actor[a] IN
    /\ x.at = "withdraw" /\ liquid < x.amount
    /\ redemption' = [redemption EXCEPT ![x.id] =
         [status |-> "PENDING_LIQUIDATION", client |-> x.client, amount |-> x.amount]]
    /\ actor' = Ends(a)
    /\ UNCHANGED <<liquid, units, todo, history>>

\* What sold securities bring in.
SellSecurities(m) ==
    /\ liquid + m <= MaxLiquid
    /\ liquid' = liquid + m
    /\ UNCHANGED <<units, redemption, actor, todo, history>>

-----------------------------------------------------------------------------
(* ProcessPendingRedemptions *)

ToPay == {r \in Redemptions : redemption[r].status = "PENDING_LIQUIDATION"}

FindPending ==
    /\ actor[Job] = Idle /\ todo = {} /\ ToPay # {}
    /\ todo' = ToPay
    /\ UNCHANGED <<liquid, units, redemption, actor, history>>

\* Passed over when the account holds too little or a read fails.
SkipPending(r) ==
    /\ actor[Job] = Idle /\ r \in todo /\ todo' = todo \ {r}
    /\ UNCHANGED <<liquid, units, redemption, actor, history>>

ProcessPending(r, nav) ==
    LET x == redemption[r] IN
    /\ actor[Job] = Idle /\ r \in todo /\ todo' = todo \ {r}
    /\ liquid >= x.amount /\ units[x.client] * nav >= x.amount
    /\ actor' = [actor EXCEPT ![Job] = [Idle EXCEPT
                   !.at = "complete", !.client = x.client, !.id = r, !.amount = x.amount,
                   !.copy = units[x.client]]]
    /\ ReadsPosition(Job, x.client)
    /\ UNCHANGED <<liquid, units, redemption, bought, redeemed, paidOut, disturbed>>

-----------------------------------------------------------------------------
(* completeFundRedemption, of a request and of the job *)

Covers(x, nav) == x.amount <= x.copy * nav

\* The payment; without its answer a pending redemption stays pending.
PayOut(a, nav) ==
    LET x == actor[a] IN
    /\ x.at = "complete" /\ Covers(x, nav) /\ liquid >= x.amount
    /\ liquid' = liquid - x.amount
    /\ redeemed' = [redeemed EXCEPT ![x.client] = @ + x.amount \div nav]
    /\ paidOut' = [paidOut EXCEPT ![x.id] = @ + 1]
    /\ \/ actor' = [actor EXCEPT ![a].at = "redeem", ![a].nav = nav] /\ UNCHANGED disturbed
       \/ actor' = Ends(a) /\ Disturbs(x.client, x.id)
    /\ UNCHANGED <<units, redemption, todo, bought, clash>>

\* A mutated form: the units are taken off at the value of one.
ReducedAtCost(n, m, nav) == IF n > m THEN n - m ELSE 0

\* applyRedemptionToPosition
Reduced(n, m, nav) == IF n > m \div nav THEN n - m \div nav ELSE 0

ApplyRedemption(a) ==
    LET x == actor[a] IN
    /\ x.at = "redeem"
    /\ units' = [units EXCEPT ![x.client] = Reduced(x.copy, x.amount, x.nav)]
    /\ actor' = Goes(a, "close")
    /\ UNCHANGED <<liquid, redemption, todo, history>>

CloseRedemption(a) ==
    LET x == actor[a] IN
    /\ x.at = "close"
    /\ redemption' = [redemption EXCEPT ![x.id] =
                        [status |-> "COMPLETED", client |-> x.client, amount |-> x.amount]]
    /\ actor' = Ends(a)
    /\ UNCHANGED <<liquid, units, todo, history>>

-----------------------------------------------------------------------------
Invest(a) ==
    \/ \E c \in Clients, m \in Amounts, nav \in Navs : PayIn(a, c, m, nav)
    \/ RecordInvestment(a) \/ UpsertPosition(a)

Withdraw(a) ==
    \/ \E c \in Clients, r \in Redemptions, m \in Amounts : BeginWithdrawal(a, c, r, m)
    \/ \E nav \in Navs : CheckAvailable(a, nav)
    \/ StartPayout(a) \/ CreatePending(a)

Complete(a) ==
    \/ \E nav \in Navs : PayOut(a, nav)
    \/ ApplyRedemption(a) \/ CloseRedemption(a) \/ Refuse(a) \/ FailAfterPayment(a)

Next ==
    \/ \E a \in Calls : Invest(a) \/ Withdraw(a)
    \/ \E a \in Actors : Complete(a)
    \/ FindPending
    \/ \E r \in Redemptions : SkipPending(r) \/ \E nav \in Navs : ProcessPending(r, nav)
    \/ \E m \in Amounts : SellSecurities(m)

Spec == Init /\ [][Next]_fundVars

-----------------------------------------------------------------------------
(* Properties *)

\* Units of c that actors in step s are about to write.
InProgress(c, s) ==
    SumFunctionOnSet([a \in Actors |-> IF actor[a].client = c /\ actor[a].at \in s
                                       THEN actor[a].amount \div actor[a].nav ELSE 0], Actors)

\* The units of a client are those it paid for less those paid out to it, whatever
\* the value of a unit was in between; it is never paid for units it has not.  Clients
\* of whom a write was lost or whose position two actors worked on are exempt.  And a
\* redemption is paid once, and then it is completed: the job pays nothing again that
\* was paid, by itself or by the request, unless a write of that redemption was lost.
UnitsExact ==
    /\ \A c \in Clients \ (disturbed \cup clash) :
         units[c] + InProgress(c, {"invested", "upsert"}) + redeemed[c]
           = bought[c] + InProgress(c, {"redeem"})
    /\ \A r \in Redemptions \ disturbed :
         paidOut[r] = IF redemption[r].status = "COMPLETED" THEN 1
                      ELSE Cardinality({a \in Actors :
                             actor[a].id = r /\ actor[a].at \in {"redeem", "close"}})
=============================================================================
