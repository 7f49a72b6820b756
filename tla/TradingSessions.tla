--------------------------- MODULE TradingSessions ---------------------------
(***************************************************************************)
(* When an order of trading-service is executed, and at which price.        *)
(*                                                                          *)
(* The hours of an exchange are those of its own clock, which is offset     *)
(* against the server's.  An order is put off until the next opening, or,   *)
(* placed after hours, by a delay; the loop polls what is due, and puts off *)
(* what finds the exchange closed or its price not reached.  NextOpen is    *)
(* the opening on the exchange's own clock, compared with the server's: the *)
(* order comes late by the offset, or too early and is put off again.       *)
(***************************************************************************)
EXTENDS Integers, FiniteSetsExt

CONSTANTS
    Day, Week,          \* units of time in a day, days in a week
    Weekend,            \* the days of a week without trade
    OpenTime, CloseTime,
    AfterHoursWindow, AfterHoursDelay,
    Offsets,            \* TimeZone of an exchange
    Orders,             \* [side, limit, stop]: what an order may ask for
    Prices, NoPrice,
    MaxWait,            \* bound on the random wait between two fills
    MaxTime             \* bound on the clock

SessionsAssumption ==
    /\ Day \in Nat /\ Week \in Nat /\ OpenTime \in Nat /\ CloseTime \in Nat
    /\ OpenTime < CloseTime /\ CloseTime < Day
    /\ Weekend \subseteq 0 .. Week - 1 /\ Weekend # 0 .. Week - 1
    /\ AfterHoursWindow \in Nat /\ AfterHoursDelay \in Nat /\ MaxWait \in Nat /\ MaxTime \in Nat
    /\ Offsets \subseteq Int /\ Prices \subseteq Nat /\ NoPrice \notin Prices
    /\ Orders \subseteq [side : {"BUY", "SELL"}, limit : Prices \cup {NoPrice},
                         stop : Prices \cup {NoPrice}]

VARIABLES
    now,      \* the server's clock
    enabled,  \* Exchange.TradingEnabled: its hours are kept
    offset,   \* Exchange.TimeZone
    price,    \* of the listing: what a buyer pays, or a seller gets
    order,    \* the Order row
    polled,   \* the loop has done its work at this time
    last,     \* history: when the order was approved, or last found the exchange trading
    reached,  \* history: it was looked at when its stop was reached
    filled    \* history: prices it was filled at

sessionVars == <<now, enabled, offset, price, order, polled, last, reached, filled>>

NoRow == [status |-> "NONE", after |-> FALSE, triggered |-> FALSE, done |-> FALSE, next |-> 0]

SessionTypeOK ==
    /\ now \in 0 .. MaxTime /\ enabled \in BOOLEAN /\ offset \in Offsets /\ price \in Prices
    /\ order.ask \in Orders /\ order.row.status \in {"NONE", "PENDING", "APPROVED"}
    /\ {order.row.after, order.row.triggered, order.row.done, polled} \subseteq BOOLEAN
    /\ order.row.next \in Int /\ last \in 0 .. MaxTime
    /\ reached \in BOOLEAN /\ filled \subseteq Prices

Init ==
    /\ now = 0 /\ offset \in Offsets /\ price \in Prices /\ enabled = TRUE
    /\ order \in [ask : Orders, row : {NoRow}]
    /\ polled = FALSE /\ last = 0 /\ reached = FALSE /\ filled = {}

-----------------------------------------------------------------------------
(* The hours of the exchange, on its own clock t *)

DayOf(t)   == t \div Day
IsWeekend(d) == d % Week \in Weekend
Open(d)    == d * Day + OpenTime
Close(d)   == d * Day + CloseTime

NextTradingOpen(d) == Open(Min({e \in d .. d + Week : ~IsWeekend(e)}))
PreviousTradingClose(t) ==
    Close(Max({e \in DayOf(t) - Week .. DayOf(t) : ~IsWeekend(e) /\ Close(e) < t}))

\* At the very time of closing the exchange is neither open nor after hours.
ResolveExchangeSession ==
    LET t == now + offset
        d == DayOf(t)
        trades == ~IsWeekend(d)
    IN IF ~enabled THEN [open |-> TRUE, after |-> FALSE, next |-> t]
       ELSE [open  |-> trades /\ Open(d) <= t /\ t < Close(d),
             after |-> ~(trades /\ Open(d) <= t /\ t < Close(d))
                       /\ t < PreviousTradingClose(t) + AfterHoursWindow,
             next  |-> NextTradingOpen(IF trades /\ t >= Close(d) THEN d + 1 ELSE d)]

Trading == ResolveExchangeSession.open \/ ResolveExchangeSession.after

InitialExecutionTime(after) ==
    CASE after -> now + AfterHoursDelay
      [] ~after /\ ResolveExchangeSession.open -> now
      [] OTHER -> ResolveExchangeSession.next

-----------------------------------------------------------------------------
(* Placing and approving *)

PlaceOrder(s) ==
    LET after == ResolveExchangeSession.after IN
    /\ order.row.status = "NONE"
    /\ order' = [order EXCEPT !.row =
         [status |-> s, after |-> after, triggered |-> order.ask.stop = NoPrice, done |-> FALSE,
          next |-> IF s = "APPROVED" THEN InitialExecutionTime(after) ELSE 0]]
    /\ last' = now
    /\ UNCHANGED <<now, enabled, offset, price, polled, reached, filled>>

ApproveOrder ==
    /\ order.row.status = "PENDING"
    /\ order' = [order EXCEPT !.row.status = "APPROVED",
                              !.row.next = InitialExecutionTime(order.row.after)]
    /\ last' = now
    /\ UNCHANGED <<now, enabled, offset, price, polled, reached, filled>>

-----------------------------------------------------------------------------
(* Executing what is due *)

StopConditionMet(ask, p) ==
    ask.stop = NoPrice \/ (IF ask.side = "BUY" THEN p >= ask.stop ELSE p <= ask.stop)

\* A limit that the price is better than does not make it worse.
ResolveExecutionPrice(ask, p) ==
    IF ask.limit = NoPrice THEN {p}
    ELSE IF ask.side = "BUY" THEN (IF p > ask.limit THEN {} ELSE {Min({ask.limit, p})})
         ELSE (IF p < ask.limit THEN {} ELSE {Max({ask.limit, p})})

Due == order.row.status = "APPROVED" /\ ~order.row.done /\ order.row.next <= now

\* The exchange is closed.
PutOff ==
    /\ Due /\ ~polled /\ ~Trading
    /\ order' = [order EXCEPT !.row.next = InitialExecutionTime(order.row.after)]
    /\ polled' = TRUE
    /\ UNCHANGED <<now, enabled, offset, price, last, reached, filled>>

\* The stop has not been reached or the limit is not met: look again at the next tick.
Wait ==
    LET t == order.row.triggered \/ StopConditionMet(order.ask, price) IN
    /\ Due /\ ~polled /\ Trading
    /\ ~t \/ ResolveExecutionPrice(order.ask, price) = {}
    /\ order' = [order EXCEPT !.row.triggered = t, !.row.next = now + 1]
    /\ polled' = TRUE /\ last' = now /\ reached' = (reached \/ StopConditionMet(order.ask, price))
    /\ UNCHANGED <<now, enabled, offset, price, filled>>

\* A fill, of the rest or of a part, whose next follows after a random wait.
Fill ==
    /\ Due /\ ~polled /\ Trading
    /\ order.row.triggered \/ StopConditionMet(order.ask, price)
    /\ ResolveExecutionPrice(order.ask, price) # {}
    /\ filled' = filled \cup ResolveExecutionPrice(order.ask, price)
    /\ \E done \in BOOLEAN, wait \in 0 .. MaxWait :
         order' = [order EXCEPT !.row.triggered = TRUE, !.row.done = done,
             !.row.next = now + wait + (IF order.row.after THEN AfterHoursDelay ELSE 0)]
    /\ polled' = TRUE /\ last' = now /\ reached' = (reached \/ StopConditionMet(order.ask, price))
    /\ UNCHANGED <<now, enabled, offset, price>>

-----------------------------------------------------------------------------
\* The loop looks at what is due many times in a unit of time.
Tick ==
    /\ now < MaxTime /\ (Due => polled)
    /\ now' = now + 1 /\ polled' = FALSE /\ price' \in Prices
    /\ UNCHANGED <<enabled, offset, order, last, reached, filled>>

ToggleTradingEnabled ==
    /\ enabled' = ~enabled
    /\ UNCHANGED <<now, offset, price, order, polled, last, reached, filled>>

Next ==
    \/ \E s \in {"PENDING", "APPROVED"} : PlaceOrder(s)
    \/ ApproveOrder \/ PutOff \/ Wait \/ Fill \/ Tick \/ ToggleTradingEnabled

Spec == Init /\ [][Next]_sessionVars

-----------------------------------------------------------------------------
(* Properties *)

\* The opening on the server's clock that follows time t.
OpeningAfter(t) ==
    LET d == DayOf(t + offset) IN
    Min({x \in {Open(e) - offset : e \in {f \in d .. d + Week + 1 : ~IsWeekend(f)}} : x > t})

\* An order finds the exchange trading by its next opening, or as much later as the
\* exchange is ahead of the server; on an exchange so far ahead that it has closed by
\* then, it may never.
AttemptedInTime ==
    (order.row.status = "APPROVED" /\ ~order.row.done /\ offset < CloseTime - OpenTime)
      => now <= OpeningAfter(last) + Max({0, offset}) + AfterHoursDelay + MaxWait

\* A fill is no worse than the limit, and follows a price that reached the stop.
FilledAtItsPrice ==
    /\ order.ask.limit # NoPrice => \A p \in filled :
         IF order.ask.side = "BUY" THEN p <= order.ask.limit ELSE p >= order.ask.limit
    /\ filled # {} => reached
=============================================================================
