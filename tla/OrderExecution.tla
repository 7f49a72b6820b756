--------------------------- MODULE OrderExecution ---------------------------
(***************************************************************************)
(* Orders of trading-service, their review and their execution fill by fill. *)
(*                                                                          *)
(* The poll loop reads the rows of a batch of due orders and works through  *)
(* these copies; a withdrawal that liquidates a fund executes the order it  *)
(* has just placed by itself.  Every request and every execution saves the  *)
(* whole row it read, without a lock or a version.  A fill is settled at    *)
(* banking-service, then recorded, then counted in the order, then moved to *)
(* the ownership, each write on its own.  One asset is traded at price 1;   *)
(* sessions, stop and limit prices decide only whether an execution is put  *)
(* off, which it always may be.                                             *)
(***************************************************************************)
EXTENDS Naturals, FiniteSets, Functions

CONSTANTS
    Orders,      \* orders that may be placed
    Order,       \* [side, quantity, size, holder, by, exempt] of each order
    Holders,     \* owners of the asset: clients, funds and the bank
    Opening,     \* the shares each of them owns at first
    Workers,     \* the poll loop and the withdrawals that execute an order
    Loop,        \* the poll loop
    Calls,       \* requests to approve, decline or cancel at a time
    OrderLimit,  \* the limit of the agent
    MaxPaid      \* bound on the fills of an order settled at the bank

OrdersAssumption ==
    /\ Loop \in Workers /\ "bank" \in Holders /\ Opening \in [Holders -> Nat]
    /\ OrderLimit \in Nat /\ MaxPaid \in Nat
    /\ IsFiniteSet(Orders) /\ "no order" \notin Orders
    /\ Workers \cap (Calls \cup {"otc"}) = {}
    /\ \A o \in Orders :
         Order[o] \in [side : {"BUY", "SELL"}, quantity : Nat \ {0}, size : Nat \ {0},
                       holder : Holders, by : {"client", "agent", "supervisor", "fund"},
                       exempt : BOOLEAN]

VARIABLES
    row,         \* the Order rows: Status, IsDone, FilledQty, CommissionCharged
    owned,       \* the AssetOwnership rows: Amount and ReservedAmount
    usedLimit,   \* the UsedLimit of the agent at user-service
    worker,      \* what each worker executes, and the copies it still has to
    call,        \* the requests in flight, each with the row it read
    paid,        \* history: units of an order settled at the bank
    recorded,    \* history: units of an order with an OrderTransaction
    moved,       \* history: units of an order moved to or from the ownership
    commissions, \* history: how often the bank was asked for the commission
    transferred, \* history: shares a holder delivered over the counter
    pledged,     \* history: shares of a holder reserved over the counter
    approved,    \* history: value bought by the agent without a review
    disturbed,   \* history: orders of which an answer or a write was lost
    overlapped,  \* history: orders two actors have held a copy of at a time
    clash,       \* history: holders whose ownership two actors worked on at a time
    short        \* history: sells whose seller no longer had the shares

history == <<paid, recorded, moved, commissions, transferred, pledged, approved,
             disturbed, overlapped, clash, short>>
orderVars == <<row, owned, usedLimit, worker, call, history>>

NoRow    == [status |-> "NONE", done |-> FALSE, filled |-> 0, charged |-> FALSE]
NoOrder  == "no order"
IdleCall == [op |-> "idle", order |-> NoOrder, copy |-> NoRow]
IdleWork == [at |-> "idle", order |-> NoOrder, copy |-> NoRow, fill |-> 0, share |-> 0,
             reserved |-> 0, batch |-> <<>>]

Rows == [status : {"NONE", "PENDING", "APPROVED", "DECLINED"}, done : BOOLEAN,
         filled : Nat, charged : BOOLEAN]

OrderTypeOK ==
    /\ row \in [Orders -> Rows]
    /\ owned \in [Holders -> [amount : Nat, reserved : Nat]]
    /\ usedLimit \in Nat
    /\ \A w \in Workers :
         /\ worker[w].at \in {"idle", "postpone", "fail", "record", "tax", "save",
                              "ownership", "upsert"}
         /\ worker[w].at # "idle" => worker[w].order \in Orders /\ worker[w].copy \in Rows
         /\ \A o \in DOMAIN worker[w].batch : o \in Orders /\ worker[w].batch[o] \in Rows
    /\ \A c \in Calls : call[c].op \in {"idle", "approve", "decline", "cancel"}
    /\ {paid, recorded, moved, commissions} \subseteq [Orders -> Nat]
    /\ {transferred, pledged} \subseteq [Holders -> Nat]
    /\ approved \in Nat
    /\ disturbed \cup overlapped \cup short \subseteq Orders /\ clash \subseteq Holders

Init ==
    /\ row = [o \in Orders |-> NoRow]
    /\ owned = [h \in Holders |-> [amount |-> Opening[h], reserved |-> 0]]
    /\ usedLimit = 0
    /\ worker = [w \in Workers |-> IdleWork] /\ call = [c \in Calls |-> IdleCall]
    /\ paid = [o \in Orders |-> 0] /\ recorded = paid /\ moved = paid /\ commissions = paid
    /\ transferred = [h \in Holders |-> 0] /\ pledged = transferred /\ approved = 0
    /\ disturbed = {} /\ overlapped = {} /\ clash = {} /\ short = {}

-----------------------------------------------------------------------------
Holder(o)      == Order[o].holder
Value(o)       == Order[o].quantity * Order[o].size
Remaining(o,r) == Order[o].quantity - r.filled

\* Another actor than a holds a copy of order o.
HeldByOther(a, o) ==
    \/ \E w \in Workers \ {a} : worker[w].order = o \/ o \in DOMAIN worker[w].batch
    \/ \E c \in Calls \ {a} : call[c].order = o

Overlap(a, os) == overlapped' = overlapped \cup {o \in os : HeldByOther(a, o)}

\* Another worker than w is about to write the ownership of h back.
WrittenByOther(w, h) ==
    \E v \in Workers \ {w} : worker[v].at = "upsert" /\ Holder(worker[v].order) = h

-----------------------------------------------------------------------------
(* Placing an order *)

\* validateSellOwnership compares portions, not shares, and no order in progress.
MaySell(o, h) == Order[o].side = "SELL" => owned[h].amount >= Order[o].quantity

\* resolveOrderStatus: whatever cannot be found out about an employee, the manager of
\* a fund included, makes a review; and so does an agent's limit.
ResolvedStatus(o) ==
    CASE Order[o].by = "client" -> {"APPROVED"}
      [] Order[o].by = "agent" /\ usedLimit + Value(o) > OrderLimit -> {"PENDING"}
      [] OTHER -> {"APPROVED", "PENDING"}

\* updateActuaryUsedLimit looks at the column OwnerType, which nothing sets.
OwnerTypeColumn == "CLIENT"
UsedLimitAfter(o) ==
    IF OwnerTypeColumn = "BANK" /\ Order[o].side = "BUY" /\ Order[o].by = "agent"
    THEN usedLimit + Order[o].quantity ELSE usedLimit

PlaceRow(o, s) ==
    /\ row[o].status = "NONE" /\ MaySell(o, Holder(o)) /\ s \in ResolvedStatus(o)
    /\ row' = [row EXCEPT ![o].status = s]
    /\ usedLimit' = IF s = "APPROVED" THEN UsedLimitAfter(o) ELSE usedLimit
    /\ approved' = IF s = "APPROVED" /\ Order[o].by = "agent" /\ Order[o].side = "BUY"
                   THEN approved + Value(o) ELSE approved
    /\ UNCHANGED <<owned, call, paid, recorded, moved, commissions, transferred,
                   pledged, disturbed, overlapped, clash, short>>

PlaceOrder(o) ==
    /\ Order[o].by # "fund"
    /\ \E s \in ResolvedStatus(o) : PlaceRow(o, s)
    /\ UNCHANGED worker

\* A withdrawal executes the order it has placed, unless it waits for a review; the loop
\* finds it due as well.
LiquidateFund(w, o) ==
    /\ w # Loop /\ worker[w] = IdleWork /\ Order[o].by = "fund"
    /\ \/ PlaceRow(o, "PENDING") /\ UNCHANGED worker
       \/ /\ PlaceRow(o, "APPROVED")
          /\ worker' = [worker EXCEPT ![w].batch =
                          [p \in {o} |-> [row[o] EXCEPT !.status = "APPROVED"]]]

\* The daily job of user-service.
ResetUsedLimit ==
    /\ usedLimit' = 0 /\ approved' = 0
    /\ UNCHANGED <<row, owned, worker, call, paid, recorded, moved, commissions,
                   transferred, pledged, disturbed, overlapped, clash, short>>

-----------------------------------------------------------------------------
(* Reviewing and cancelling *)

\* A mutated form: what is declined may be reviewed again.
MayBeginAnyTime(op, o) == row[o].status \in {"PENDING", "APPROVED", "DECLINED"}

\* An approval checks the shares of the bank, whoever sells.
MayBegin(op, o) ==
    CASE op = "approve" -> row[o].status = "PENDING" /\ MaySell(o, "bank")
      [] op = "decline" -> row[o].status = "PENDING"
      [] op = "cancel"  -> row[o].status \in {"PENDING", "APPROVED"} /\ ~row[o].done

ReadOrder(c, op, o) ==
    /\ call[c].op = "idle" /\ MayBegin(op, o)
    /\ call' = [call EXCEPT ![c] = [op |-> op, order |-> o, copy |-> row[o]]]
    /\ Overlap(c, {o})
    /\ UNCHANGED <<row, owned, usedLimit, worker, paid, recorded, moved, commissions,
                   transferred, pledged, approved, disturbed, clash, short>>

Declined(r) == [r EXCEPT !.status = "DECLINED", !.done = TRUE]
Reviewed(c) ==
    IF call[c].op = "approve" THEN [call[c].copy EXCEPT !.status = "APPROVED"]
    ELSE Declined(call[c].copy)

\* Save, or an error of it.
SaveOrder(c) ==
    /\ call[c].op # "idle"
    /\ row' \in {row, [row EXCEPT ![call[c].order] = Reviewed(c)]}
    /\ usedLimit' = IF call[c].op = "approve" THEN UsedLimitAfter(call[c].order) ELSE usedLimit
    /\ call' = [call EXCEPT ![c] = IdleCall]
    /\ UNCHANGED <<owned, worker, history>>

-----------------------------------------------------------------------------
(* Executing: the loop reads what is due, and works through the copies *)

Due == {o \in Orders : row[o].status = "APPROVED" /\ ~row[o].done}

FindReadyForExecution ==
    /\ worker[Loop] = IdleWork
    /\ \E S \in SUBSET Due \ {{}} :
         /\ worker' = [worker EXCEPT ![Loop].batch = [o \in S |-> row[o]]]
         /\ Overlap(Loop, S)
    /\ UNCHANGED <<row, owned, usedLimit, call, paid, recorded, moved, commissions,
                   transferred, pledged, approved, disturbed, clash, short>>

\* Worker w takes the copy of o out of its batch, and continues at a with fill f.
Takes(w, o, a, f) ==
    [worker EXCEPT ![w] = [IdleWork EXCEPT
        !.at = a, !.order = o, !.copy = worker[w].batch[o], !.fill = f,
        !.batch = Restrict(worker[w].batch, DOMAIN worker[w].batch \ {o})]]

Drops(w) == [worker EXCEPT ![w] = [IdleWork EXCEPT !.batch = worker[w].batch]]
Goes(w, a) == [worker EXCEPT ![w].at = a]

Takable(w, o) == worker[w].at = "idle" /\ o \in DOMAIN worker[w].batch

\* Nothing is settled: a read fails, the order is put off (the exchange is closed, the
\* price not reached, the bank out of reach) or refused (no listing, no exchange,
\* nothing left after the commission, or the bank refuses).
TakeWithoutFill(w, o) ==
    /\ Takable(w, o)
    /\ \/ worker' = [worker EXCEPT ![w].batch = Restrict(@, DOMAIN @ \ {o})]
       \/ \E a \in {"postpone", "fail"} : worker' = Takes(w, o, a, 0)
    /\ UNCHANGED <<row, owned, usedLimit, call, history>>

\* A fill of f portions is settled; an answer that is lost looks like a failure.
Charges(o, r) == ~r.charged /\ ~Order[o].exempt

ExecuteTradeSettlement(w, o, f) ==
    /\ Takable(w, o) /\ f \in 1 .. Remaining(o, worker[w].batch[o]) /\ paid[o] + f <= MaxPaid
    /\ paid' = [paid EXCEPT ![o] = @ + f]
    /\ commissions' = [commissions EXCEPT ![o] =
                         IF Charges(o, worker[w].batch[o]) THEN @ + 1 ELSE @]
    /\ \/ worker' = Takes(w, o, "record", f) /\ UNCHANGED disturbed
       \/ worker' = Takes(w, o, "postpone", 0) /\ disturbed' = disturbed \cup {o}
    /\ UNCHANGED <<row, owned, usedLimit, call, recorded, moved, transferred, pledged,
                   approved, overlapped, clash, short>>

\* The order is saved with another NextExecutionAt, or declined; or the save fails.
SaveUnfilled(w) ==
    LET o == worker[w].order IN
    /\ worker[w].at \in {"postpone", "fail"}
    /\ row' \in {row, [row EXCEPT ![o] = IF worker[w].at = "fail" THEN Declined(worker[w].copy)
                                         ELSE worker[w].copy]}
    /\ worker' = Drops(w)
    /\ UNCHANGED <<owned, usedLimit, call, history>>

\* One of the steps after the settlement fails, and the execution ends there.
FailAfterSettlement(w) ==
    /\ worker[w].at \in {"record", "tax", "save", "ownership", "upsert"}
    /\ worker' = Drops(w)
    /\ disturbed' = disturbed \cup {worker[w].order}
    /\ UNCHANGED <<row, owned, usedLimit, call, paid, recorded, moved, commissions,
                   transferred, pledged, approved, overlapped, clash, short>>

RecordTransaction(w) ==
    LET o == worker[w].order IN
    /\ worker[w].at = "record"
    /\ recorded' = [recorded EXCEPT ![o] = @ + worker[w].fill]
    /\ worker' = Goes(w, IF Order[o].side = "SELL" THEN "tax" ELSE "save")
    /\ UNCHANGED <<row, owned, usedLimit, call, paid, moved, commissions, transferred,
                   pledged, approved, disturbed, overlapped, clash, short>>

\* recordProfitTax; the tax itself is the subject of Taxes.
RecordProfitTax(w) ==
    /\ worker[w].at = "tax" /\ worker' = Goes(w, "save")
    /\ UNCHANGED <<row, owned, usedLimit, call, history>>

\* A mutated form: the commission is not marked as charged.
FilledUncharged(o, r, f) ==
    [r EXCEPT !.filled = r.filled + f, !.done = (r.filled + f = Order[o].quantity)]

Filled(o, r, f) ==
    [r EXCEPT !.filled = r.filled + f, !.charged = r.charged \/ Charges(o, r),
              !.done = (r.filled + f = Order[o].quantity)]

SaveFill(w) ==
    LET o == worker[w].order IN
    /\ worker[w].at = "save"
    /\ row' = [row EXCEPT ![o] = Filled(o, worker[w].copy, worker[w].fill)]
    /\ worker' = Goes(w, "ownership")
    /\ UNCHANGED <<owned, usedLimit, call, history>>

\* updateAssetOwnership reads without a lock, ...
ReadOwnership(w) ==
    LET h == Holder(worker[w].order) IN
    /\ worker[w].at = "ownership"
    /\ worker' = [worker EXCEPT ![w].at = "upsert", ![w].share = owned[h].amount,
                                ![w].reserved = owned[h].reserved]
    /\ clash' = IF WrittenByOther(w, h) THEN clash \cup {h} ELSE clash
    /\ UNCHANGED <<row, owned, usedLimit, call, paid, recorded, moved, commissions,
                   transferred, pledged, approved, disturbed, overlapped, short>>

\* A mutated form: the fill is taken for shares.
ShareAfterUnsized(o, n, f) == IF Order[o].side = "BUY" THEN n + f ELSE n - f

\* ... and the amount and the reserved amount written back.
ShareAfter(o, n, f) ==
    IF Order[o].side = "BUY" THEN n + f * Order[o].size ELSE n - f * Order[o].size

Lacking(w) ==
    LET o == worker[w].order IN
    Order[o].side = "SELL" /\ worker[w].share < worker[w].fill * Order[o].size

UpsertOwnership(w) ==
    LET o == worker[w].order IN
    /\ worker[w].at = "upsert" /\ ~Lacking(w)
    /\ owned' = [owned EXCEPT ![Holder(o)] =
                   [amount |-> ShareAfter(o, worker[w].share, worker[w].fill),
                    reserved |-> worker[w].reserved]]
    /\ moved' = [moved EXCEPT ![o] = @ + worker[w].fill]
    /\ worker' = Drops(w)
    /\ UNCHANGED <<row, usedLimit, call, paid, recorded, commissions, transferred,
                   pledged, approved, disturbed, overlapped, clash, short>>

\* The seller has been paid, and has not the shares any more.
RejectShortSell(w) ==
    /\ worker[w].at = "upsert" /\ Lacking(w)
    /\ short' = short \cup {worker[w].order}
    /\ worker' = Drops(w)
    /\ UNCHANGED <<row, owned, usedLimit, call, paid, recorded, moved, commissions,
                   transferred, pledged, approved, disturbed, overlapped, clash>>

-----------------------------------------------------------------------------
(* Trading over the counter moves the same rows, in transactions of its own *)

ClashOutside(h) == clash' = IF WrittenByOther("otc", h) THEN clash \cup {h} ELSE clash

ReserveShares(h) ==
    /\ owned[h].amount > owned[h].reserved
    /\ owned' = [owned EXCEPT ![h].reserved = @ + 1]
    /\ pledged' = [pledged EXCEPT ![h] = @ + 1]
    /\ ClashOutside(h)
    /\ UNCHANGED <<row, usedLimit, worker, call, paid, recorded, moved, commissions,
                   transferred, approved, disturbed, overlapped, short>>

DeliverShares(h) ==
    /\ owned[h].amount > 0 /\ owned[h].reserved > 0 /\ pledged[h] > 0
    /\ owned' = [owned EXCEPT ![h].amount = @ - 1, ![h].reserved = @ - 1]
    /\ pledged' = [pledged EXCEPT ![h] = @ - 1]
    /\ transferred' = [transferred EXCEPT ![h] = @ + 1]
    /\ ClashOutside(h)
    /\ UNCHANGED <<row, usedLimit, worker, call, paid, recorded, moved, commissions,
                   approved, disturbed, overlapped, short>>

-----------------------------------------------------------------------------
Execute(w) ==
    \/ \E o \in Orders :
         \/ LiquidateFund(w, o) \/ TakeWithoutFill(w, o)
         \/ \E f \in 1 .. Order[o].quantity : ExecuteTradeSettlement(w, o, f)
    \/ SaveUnfilled(w) \/ FailAfterSettlement(w) \/ RecordTransaction(w) \/ RecordProfitTax(w)
    \/ SaveFill(w) \/ ReadOwnership(w) \/ UpsertOwnership(w) \/ RejectShortSell(w)

Next ==
    \/ \E o \in Orders : PlaceOrder(o)
    \/ ResetUsedLimit \/ FindReadyForExecution
    \/ \E c \in Calls :
         \/ \E o \in Orders, op \in {"approve", "decline", "cancel"} : ReadOrder(c, op, o)
         \/ SaveOrder(c)
    \/ \E w \in Workers : Execute(w)
    \/ \E h \in Holders : ReserveShares(h) \/ DeliverShares(h)

Spec == Init /\ [][Next]_orderVars

-----------------------------------------------------------------------------
(* Properties *)

\* Units of o that a worker has settled and not yet carried to step a.
Pending(o, steps) ==
    LET ws == {w \in Workers : worker[w].order = o /\ worker[w].at \in steps} IN
    IF ws = {} THEN 0 ELSE worker[CHOOSE w \in ws : TRUE].fill

\* What the bank settled of an order is what its transactions say, what the order
\* counts as filled and what went to the ownership, but for the fill in progress; the
\* commission is taken with the first fill alone.  Orders that two actors held
\* together, whose settlement or writes failed or whose seller had sold out are exempt.
FillsAgree ==
    \A o \in Orders \ (disturbed \cup overlapped) :
        /\ paid[o] = recorded[o] + Pending(o, {"record"})
        /\ paid[o] = row[o].filled + Pending(o, {"record", "tax", "save"})
        /\ o \notin short =>
             row[o].filled = moved[o] + Pending(o, {"ownership", "upsert"})
        /\ commissions[o] = IF paid[o] = 0 \/ Order[o].exempt THEN 0 ELSE 1

\* What the orders of a holder bought and sold, with what it delivered over the
\* counter, is the change of its ownership, and its reservations are kept, unless
\* two actors wrote the row together.
SharesExact ==
    \A h \in Holders \ clash :
        LET Moved(side) ==
              SumFunctionOnSet([o \in Orders |-> IF Order[o].side = side /\ Holder(o) = h
                                                 THEN moved[o] * Order[o].size ELSE 0], Orders)
        IN  /\ owned[h].amount + transferred[h] + Moved("SELL") = Opening[h] + Moved("BUY")
            /\ owned[h].reserved = pledged[h]

\* An order that is declined or cancelled stays so and no fill of it is settled any
\* more, unless an executor held a copy of it when that was saved.
DeclinedIsFinal ==
    [][\A o \in Orders \ overlapped' :
         row[o].status = "DECLINED" => row'[o] = row[o] /\ paid'[o] = paid[o]]_<<row, paid>>

\* What an agent buys without a review, from one reset of the limit to the next,
\* stays within the agent's limit.
AgentWithinLimit == approved <= OrderLimit
=============================================================================
