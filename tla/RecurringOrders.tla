--------------------------- MODULE RecurringOrders ---------------------------
(***************************************************************************)
(* A recurring order of trading-service: a row with the time of its next    *)
(* run, which the scheduler turns into market orders, one per run, while    *)
(* its owner pauses, resumes or deletes it.                                 *)
(*                                                                          *)
(* The scheduler is one goroutine and rows do not depend on each other, so  *)
(* that the module follows one row.  Time is counted in intervals of the    *)
(* cadence.  The row is read and written back whole, without a lock.        *)
(***************************************************************************)
EXTENDS Naturals

CONSTANTS
    Calls,      \* requests of the owner that are served at a time
    MaxTime,    \* bound on the clock
    MaxFaults   \* bound on crashes and failed writes

RecurringAssumption == MaxTime \in Nat /\ MaxFaults \in Nat

VARIABLES
    recurring,  \* the row
    clock,
    scheduler,  \* what the scheduler holds of the row, and how far it is
    request,    \* what each request of the owner holds of the row
    first,      \* history: the first run, 0 as long as the row was not created
    ordered,    \* history: market orders created for each run
    skipped,    \* history: notifications that a run was skipped
    disturbed,  \* history: runs whose end was not stored
    overlapped, \* history: the row was overwritten with an older view of it
    faults

runHistory    == <<first, ordered, skipped, disturbed, overlapped>>
recurringVars == <<recurring, clock, scheduler, request, runHistory, faults>>

Runs  == 1 .. MaxTime
NoRow == [next |-> 0, active |-> FALSE]
Rows  == [next : 1 .. MaxTime + 1, active : BOOLEAN] \cup {NoRow}
Idle  == [at |-> "idle", copy |-> NoRow]

RecurringTypeOK ==
    /\ recurring \in Rows /\ clock \in 0 .. MaxTime
    /\ scheduler \in [at : {"idle", "due", "handled"}, copy : Rows]
    /\ request \in [Calls -> [at : {"idle", "pause", "delete"}, copy : Rows]]
    /\ first \in 0 .. MaxTime + 1 /\ {ordered, skipped} \subseteq [Runs -> Nat]
    /\ disturbed \subseteq Runs /\ overlapped \in BOOLEAN /\ faults \in 0 .. MaxFaults

Init ==
    /\ recurring = NoRow /\ clock = 0 /\ scheduler = Idle
    /\ request = [c \in Calls |-> Idle]
    /\ first = 0 /\ ordered = [t \in Runs |-> 0] /\ skipped = ordered
    /\ disturbed = {} /\ overlapped = FALSE /\ faults = 0

-----------------------------------------------------------------------------
\* Save updates every column of the row, and inserts it again if it is gone.
Save(row, copy) ==
    /\ recurring' = row
    /\ overlapped' = (overlapped \/ recurring # copy)

Fail == faults < MaxFaults /\ faults' = faults + 1

Tick ==
    /\ clock < MaxTime /\ clock' = clock + 1
    /\ UNCHANGED <<recurring, scheduler, request, runHistory, faults>>

-----------------------------------------------------------------------------
(* Requests of the owner *)

CreateRecurringOrder ==
    /\ first = 0
    /\ first' = clock + 1
    /\ recurring' = [next |-> first', active |-> TRUE]
    /\ UNCHANGED <<clock, scheduler, request, ordered, skipped, disturbed, overlapped, faults>>

\* Pause and Delete find the row, and see whose it is, before they change it.
FindRow(c, op) ==
    /\ request[c] = Idle /\ recurring # NoRow
    /\ request' = [request EXCEPT ![c] = [at |-> op, copy |-> recurring]]
    /\ UNCHANGED <<recurring, clock, scheduler, runHistory, faults>>

PauseRecurringOrder(c) ==
    LET copy == request[c].copy IN
    /\ request[c].at = "pause"
    /\ Save([copy EXCEPT !.active = ~ @], copy)
    /\ request' = [request EXCEPT ![c] = Idle]
    /\ UNCHANGED <<clock, scheduler, first, ordered, skipped, disturbed, faults>>

DeleteRecurringOrder(c) ==
    /\ request[c].at = "delete"
    /\ recurring' = NoRow
    /\ request' = [request EXCEPT ![c] = Idle]
    /\ UNCHANGED <<clock, scheduler, runHistory, faults>>

-----------------------------------------------------------------------------
(* The scheduler *)

FindDue ==
    /\ scheduler = Idle
    /\ recurring # NoRow /\ recurring.active /\ recurring.next <= clock
    /\ scheduler' = [at |-> "due", copy |-> recurring]
    /\ UNCHANGED <<recurring, clock, request, runHistory, faults>>

\* There is no price to compute the quantity from: the run stays due.
AwaitPrice ==
    /\ scheduler.at = "due"
    /\ scheduler' = Idle
    /\ UNCHANGED <<recurring, clock, request, runHistory, faults>>

\* CreateSystemOrder creates the market order, or the owner is told that it could not
\* or that the amount does not buy a single share.
ProcessRecurringOrder ==
    LET t == scheduler.copy.next IN
    /\ scheduler.at = "due"
    /\ \/ ordered' = [ordered EXCEPT ![t] = @ + 1] /\ UNCHANGED skipped
       \/ skipped' = [skipped EXCEPT ![t] = @ + 1] /\ UNCHANGED ordered
    /\ scheduler' = [scheduler EXCEPT !.at = "handled"]
    /\ UNCHANGED <<recurring, clock, request, first, disturbed, overlapped, faults>>

\* A mutated form: the next run comes one interval from now.
NextRunFromNow(copy) == clock + 1

\* The next run comes one interval after this one, however late this one is.
NextRun(copy) == copy.next + 1

AdvanceNextRun ==
    LET copy == scheduler.copy IN
    /\ scheduler.at = "handled"
    /\ Save([copy EXCEPT !.next = NextRun(copy)], copy)
    /\ scheduler' = Idle
    /\ UNCHANGED <<clock, request, first, ordered, skipped, disturbed, faults>>

\* The save fails, or the process stops: the scheduler begins anew.
LoseScheduler ==
    /\ scheduler # Idle /\ Fail
    /\ disturbed' = IF scheduler.at = "handled" THEN disturbed \cup {scheduler.copy.next}
                    ELSE disturbed
    /\ scheduler' = Idle
    /\ UNCHANGED <<recurring, clock, request, first, ordered, skipped, overlapped>>

\* A write of a request fails, or the process stops: nothing of it is done.
LoseRequest(c) ==
    /\ request[c] # Idle /\ Fail
    /\ request' = [request EXCEPT ![c] = Idle]
    /\ UNCHANGED <<recurring, clock, scheduler, runHistory>>

Next ==
    \/ Tick \/ CreateRecurringOrder
    \/ FindDue \/ AwaitPrice \/ ProcessRecurringOrder \/ AdvanceNextRun \/ LoseScheduler
    \/ \E c \in Calls :
         \/ \E op \in {"pause", "delete"} : FindRow(c, op)
         \/ PauseRecurringOrder(c) \/ DeleteRecurringOrder(c) \/ LoseRequest(c)

Spec == Init /\ [][Next]_recurringVars

-----------------------------------------------------------------------------
(* Properties *)

\* Each run is ordered or skipped once: those that came due while the order was
\* paused or the scheduler was away are made up for, one by one, and none comes
\* early.  Runs whose end was not stored may be repeated, and a pause or a deletion
\* that the scheduler overlaps is undone or undoes its progress.
RunsAccounted ==
    ~ overlapped =>
      \A t \in Runs \ disturbed :
        /\ ordered[t] + skipped[t] <= 1
        /\ recurring # NoRow =>
             (ordered[t] + skipped[t] = 1
                <=> /\ first <= t
                    /\ \/ t < recurring.next
                       \/ scheduler.at = "handled" /\ scheduler.copy.next = t)
        /\ t > clock => ordered[t] = 0
==============================================================================
