--------------------------- MODULE TradingProofs ---------------------------
(***************************************************************************)
(* Theorems about recurring orders and price alerts, dividends, taxes and   *)
(* the sessions of an exchange, as MCTrading composes them, about the users *)
(* and the actuaries of user-service, and about the types of all that       *)
(* MCTrading composes.                                                      *)
(*                                                                          *)
(* A scheduler, a request or a collector writes what it computed from a row *)
(* it read before, so that no property below is inductive.  The invariants  *)
(* say what such an actor holds: RecurInv that the scheduler is at the next *)
(* run, which nobody has handled; AlertInv which e-mails are under way;     *)
(* DividendInv whom a run has still to pay, that the shares it has paid out *)
(* are parts of what it received, and what the fund's order has cost at     *)
(* most; TaxInv which amounts a collection has taken from which rows;       *)
(* SessionInv that an order which is triggered has seen its stop reached.   *)
(* IdentityInv says of a request that it changes only what its kind may     *)
(* change; that a token belongs to one kind, is issued once, is gone as     *)
(* soon as it is spent, and only activates when it was made for a caller;   *)
(* and that a request that replaces tokens deletes the one it came with.    *)
(* ActuaryInv says what a request at an actuary holds: a row whose limit is *)
(* that of the row it read, or which starts from zero for a role that       *)
(* nothing was charged to.                                                  *)
(***************************************************************************)
EXTENDS ShareProofs, Sequences

-----------------------------------------------------------------------------
(* Recurring orders *)

Done(t) == ordered[t] + skipped[t]

\* Copies are of a row that was there; the scheduler's was due.
ViewsMatch ==
    /\ \A c \in Pair : rRequest[c].at # "idle" => rRequest[c].copy # Recur!NoRow
    /\ scheduler.at # "idle" => scheduler.copy # Recur!NoRow /\ scheduler.copy.next <= clock

\* As long as no view was overwritten: the scheduler works at the row's next run, which
\* it has not handled yet unless it says so.
SchedulerMatches ==
    /\ first = 0 => /\ recurring = Recur!NoRow /\ scheduler = Recur!Idle
                    /\ \A t \in Recur!Runs : Done(t) = 0
    /\ recurring # Recur!NoRow => first <= recurring.next
    /\ scheduler.at # "idle" =>
         /\ first <= scheduler.copy.next
         /\ recurring # Recur!NoRow => recurring.next = scheduler.copy.next
    /\ scheduler.at = "due" /\ scheduler.copy.next \notin rDisturbed => Done(scheduler.copy.next) = 0

RecurInv ==
    /\ Recur!RecurringTypeOK
    /\ ViewsMatch
    /\ ~ rOverlapped => SchedulerMatches
    /\ Recur!RunsAccounted

LEMMA RecurInitially == Recur!Init => RecurInv
<1> SUFFICES ASSUME Recur!Init PROVE RecurInv
  OBVIOUS
<1>1. MaxRuns \in Nat /\ MaxRunFaults \in Nat
  BY TradingAssumption DEF Recur!RecurringAssumption
<1>2. Recur!RecurringTypeOK
  <2>1. ordered \in [Recur!Runs -> Nat] /\ skipped \in [Recur!Runs -> Nat]
    BY DEF Recur!Init
  <2>2. Recur!NoRow \in Recur!Rows
    BY DEF Recur!Rows
  <2>3. scheduler = [at |-> "idle", copy |-> Recur!NoRow]
    BY DEF Recur!Init, Recur!Idle
  <2>4. \A c \in Pair : rRequest[c] = [at |-> "idle", copy |-> Recur!NoRow]
    BY DEF Recur!Init, Recur!Idle
  <2>5. rRequest = [c \in Pair |-> rRequest[c]]
    BY DEF Recur!Init
  <2> HIDE DEF Recur!NoRow, Recur!Rows
  <2>6. rRequest \in [Pair -> [at : {"idle", "pause", "delete"}, copy : Recur!Rows]]
    BY <2>2, <2>4, <2>5
  <2>7. scheduler \in [at : {"idle", "due", "handled"}, copy : Recur!Rows] /\ recurring \in Recur!Rows
    BY <2>2, <2>3 DEF Recur!Init
  <2>8. /\ clock \in 0 .. MaxRuns /\ first \in 0 .. MaxRuns + 1 /\ rFaults \in 0 .. MaxRunFaults
        /\ rDisturbed \subseteq Recur!Runs /\ rOverlapped \in BOOLEAN
    <3>1. /\ clock = 0 /\ first = 0 /\ rFaults = 0 /\ rDisturbed = {} /\ rOverlapped = FALSE
      BY DEF Recur!Init
    <3>2. /\ clock \in 0 .. MaxRuns /\ first \in 0 .. MaxRuns + 1 /\ rFaults \in 0 .. MaxRunFaults
      BY ONLY <1>1, <3>1
    <3>3. rDisturbed \subseteq Recur!Runs /\ rOverlapped \in BOOLEAN
      BY ONLY <3>1
    <3> QED BY <3>2, <3>3
  <2> QED BY <2>1, <2>6, <2>7, <2>8 DEF Recur!RecurringTypeOK
<1>3. ViewsMatch /\ SchedulerMatches
  BY DEF Recur!Init, ViewsMatch, SchedulerMatches, Recur!Idle, Done, Recur!Runs
<1>4. Recur!RunsAccounted
  BY DEF Recur!Init, Recur!RunsAccounted, Recur!Runs
<1> QED BY <1>2, <1>3, <1>4 DEF RecurInv

-----------------------------------------------------------------------------
\* A row that another call has: the next run it names is one of the clock's.
LEMMA RecurringRowTyped ==
  ASSUME NEW r \in Recur!Rows, r # Recur!NoRow
  PROVE  /\ r.next \in 1 .. MaxRuns + 1 /\ r.active \in BOOLEAN
         /\ r = [next |-> r.next, active |-> r.active]
BY DEF Recur!Rows

LEMMA MadeRow ==
  ASSUME NEW n \in 1 .. MaxRuns + 1, NEW b \in BOOLEAN
  PROVE  /\ [next |-> n, active |-> b] \in Recur!Rows
         /\ [next |-> n, active |-> b] # Recur!NoRow
<1>1. n # 0
  BY TradingAssumption DEF Recur!RecurringAssumption
<1> QED BY <1>1 DEF Recur!Rows, Recur!NoRow

\* The owner's requests change the row as a whole or leave it.
LEMMA OwnerSteps ==
  ASSUME RecurInv, NEW c \in Pair,
         \/ \E op \in {"pause", "delete"} : Recur!FindRow(c, op)
         \/ Recur!PauseRecurringOrder(c) \/ Recur!DeleteRecurringOrder(c) \/ Recur!LoseRequest(c)
  PROVE  RecurInv'
<1>0. Recur!RecurringTypeOK /\ ViewsMatch /\ (~ rOverlapped => SchedulerMatches)
      /\ Recur!RunsAccounted
  BY DEF RecurInv
<1>t. /\ MaxRuns \in Nat /\ MaxRunFaults \in Nat
      /\ recurring \in Recur!Rows
      /\ rRequest \in [Pair -> [at : {"idle", "pause", "delete"}, copy : Recur!Rows]]
      /\ rFaults \in 0 .. MaxRunFaults
  BY <1>0, TradingAssumption DEF Recur!RecurringTypeOK, Recur!RecurringAssumption
<1>s. /\ UNCHANGED <<scheduler, clock, first, ordered, skipped, rDisturbed>>
      /\ \A t : Done(t)' = Done(t)
  BY DEF Recur!FindRow, Recur!PauseRecurringOrder, Recur!DeleteRecurringOrder, Recur!LoseRequest,
         Recur!runHistory, Done
\* The row afterwards has the same next run, or is gone, or was overwritten.
<1>1. /\ recurring' \in Recur!Rows /\ rOverlapped' \in BOOLEAN /\ rFaults' \in 0 .. MaxRunFaults
      /\ rOverlapped => rOverlapped'
      /\ \/ rOverlapped' \/ recurring' = Recur!NoRow
           \/ (recurring # Recur!NoRow /\ recurring'.next = recurring.next)
      /\ recurring = Recur!NoRow /\ ~ rOverlapped' => recurring' = Recur!NoRow
      /\ \E q \in [at : {"idle", "pause", "delete"}, copy : Recur!Rows] :
           /\ q.at # "idle" => q.copy # Recur!NoRow
           /\ rRequest' = [rRequest EXCEPT ![c] = q]
  <2>i. /\ Recur!Idle \in [at : {"idle", "pause", "delete"}, copy : Recur!Rows]
        /\ Recur!Idle.at = "idle"
    BY DEF Recur!Idle, Recur!Rows
  <2>b. rOverlapped \in BOOLEAN
    BY <1>0 DEF Recur!RecurringTypeOK
  <2>1. CASE \E op \in {"pause", "delete"} : Recur!FindRow(c, op)
    <3>1. PICK op \in {"pause", "delete"} : Recur!FindRow(c, op)
      BY <2>1
    <3>2. /\ [at |-> op, copy |-> recurring] \in [at : {"idle", "pause", "delete"}, copy : Recur!Rows]
          /\ [at |-> op, copy |-> recurring].copy # Recur!NoRow
          /\ rRequest' = [rRequest EXCEPT ![c] = [at |-> op, copy |-> recurring]]
          /\ recurring' = recurring /\ rOverlapped' = rOverlapped /\ rFaults' = rFaults
      BY <1>t, <3>1 DEF Recur!FindRow, Recur!runHistory
    <3> QED BY <1>t, <2>b, <3>2
  <2>2. CASE Recur!PauseRecurringOrder(c)
    <3> DEFINE copy == rRequest[c].copy
    <3>1. copy \in Recur!Rows /\ copy # Recur!NoRow
      BY <1>0, <1>t, <2>2 DEF ViewsMatch, Recur!PauseRecurringOrder
    <3>2. [copy EXCEPT !.active = ~ @] = [next |-> copy.next, active |-> ~ copy.active]
      <4> HIDE DEF copy
      <4>1. copy = [next |-> copy.next, active |-> copy.active]
        BY <3>1, RecurringRowTyped
      <4> QED BY <4>1
    <3>3. copy.next \in 1 .. MaxRuns + 1 /\ (~ copy.active) \in BOOLEAN
      BY <3>1, RecurringRowTyped
    <3>4. /\ recurring' = [next |-> copy.next, active |-> ~ copy.active]
          /\ rOverlapped' = (rOverlapped \/ recurring # copy)
          /\ rRequest' = [rRequest EXCEPT ![c] = Recur!Idle] /\ rFaults' = rFaults
      BY <2>2, <3>2 DEF Recur!PauseRecurringOrder, Recur!Save
    <3> HIDE DEF copy
    <3>5. recurring' \in Recur!Rows /\ recurring'.next = copy.next
      BY <3>3, <3>4, MadeRow
    <3> QED BY <1>t, <2>i, <2>b, <3>1, <3>4, <3>5
  <2>3. CASE Recur!DeleteRecurringOrder(c)
    <3>1. /\ recurring' = Recur!NoRow /\ rOverlapped' = rOverlapped /\ rFaults' = rFaults
          /\ rRequest' = [rRequest EXCEPT ![c] = Recur!Idle]
      BY <2>3 DEF Recur!DeleteRecurringOrder, Recur!runHistory
    <3>2. Recur!NoRow \in Recur!Rows
      BY DEF Recur!Rows
    <3> QED BY <1>t, <2>i, <2>b, <3>1, <3>2
  <2>4. CASE Recur!LoseRequest(c)
    <3>1. /\ recurring' = recurring /\ rOverlapped' = rOverlapped /\ rFaults' \in 0 .. MaxRunFaults
          /\ rRequest' = [rRequest EXCEPT ![c] = Recur!Idle]
      BY <1>t, <2>4 DEF Recur!LoseRequest, Recur!runHistory, Recur!Fail
    <3> QED BY <1>t, <2>i, <2>b, <3>1
  <2> QED BY <2>1, <2>2, <2>3, <2>4
<1>2. PICK q \in [at : {"idle", "pause", "delete"}, copy : Recur!Rows] :
        (q.at # "idle" => q.copy # Recur!NoRow) /\ rRequest' = [rRequest EXCEPT ![c] = q]
  BY <1>1
<1>3. Recur!RecurringTypeOK'
  BY <1>0, <1>s, <1>1, <1>2 DEF Recur!RecurringTypeOK
<1>4. ViewsMatch'
  BY <1>0, <1>t, <1>s, <1>2 DEF ViewsMatch
<1>5. ~ rOverlapped' => SchedulerMatches'
  BY <1>0, <1>s, <1>1 DEF SchedulerMatches
<1>6. Recur!RunsAccounted'
  BY <1>0, <1>s, <1>1 DEF Recur!RunsAccounted
<1> QED BY <1>3, <1>4, <1>5, <1>6 DEF RecurInv

LEMMA SchedulerSteps ==
  ASSUME RecurInv,
         \/ Recur!Tick \/ Recur!CreateRecurringOrder \/ Recur!FindDue \/ Recur!AwaitPrice
         \/ Recur!ProcessRecurringOrder \/ Recur!AdvanceNextRun \/ Recur!LoseScheduler
  PROVE  RecurInv'
<1>0. /\ Recur!RecurringTypeOK /\ ViewsMatch /\ (~ rOverlapped => SchedulerMatches)
      /\ Recur!RunsAccounted
  BY DEF RecurInv
<1>t. /\ MaxRuns \in Nat /\ MaxRunFaults \in Nat
      /\ recurring \in Recur!Rows /\ clock \in 0 .. MaxRuns
      /\ scheduler \in [at : {"idle", "due", "handled"}, copy : Recur!Rows]
      /\ first \in 0 .. MaxRuns + 1
      /\ ordered \in [Recur!Runs -> Nat] /\ skipped \in [Recur!Runs -> Nat]
      /\ rFaults \in 0 .. MaxRunFaults /\ rDisturbed \subseteq Recur!Runs /\ rOverlapped \in BOOLEAN
  BY <1>0, TradingAssumption DEF Recur!RecurringTypeOK, Recur!RecurringAssumption
<1>i. Recur!Idle.at = "idle" /\ Recur!NoRow \in Recur!Rows
      /\ Recur!Idle \in [at : {"idle", "due", "handled"}, copy : Recur!Rows]
  BY DEF Recur!Idle, Recur!Rows
<1> DEFINE t == scheduler.copy.next
\* What the scheduler holds is of a run that the clock has reached.
<1>c. ASSUME scheduler.at # "idle"
      PROVE  /\ scheduler.copy \in Recur!Rows /\ scheduler.copy # Recur!NoRow
             /\ t \in Recur!Runs /\ t <= clock /\ scheduler.copy.active \in BOOLEAN
             /\ scheduler.copy = [next |-> t, active |-> scheduler.copy.active]
  <2>1. scheduler.copy \in Recur!Rows /\ scheduler.copy # Recur!NoRow /\ t <= clock
    BY <1>0, <1>t, <1>c DEF ViewsMatch
  <2>2. t \in 1 .. MaxRuns + 1
    BY <2>1, RecurringRowTyped
  <2> QED BY <1>t, <2>1, <2>2, RecurringRowTyped DEF Recur!Runs
<1> HIDE DEF t
<1>1. CASE Recur!Tick
  <2>1. /\ clock' \in 0 .. MaxRuns /\ clock' = clock + 1
        /\ UNCHANGED <<recurring, scheduler, rRequest, first, ordered, skipped, rDisturbed,
                       rOverlapped, rFaults>>
        /\ \A k : Done(k)' = Done(k)
    BY <1>t, <1>1 DEF Recur!Tick, Recur!runHistory, Done
  <2>2. Recur!RecurringTypeOK'
    BY <1>0, <2>1 DEF Recur!RecurringTypeOK
  <2>3. ViewsMatch'
    <3>1. scheduler.at # "idle" => t <= clock + 1
      BY <1>t, <1>c DEF Recur!Runs
    <3> QED BY <1>0, <2>1, <3>1 DEF ViewsMatch, t
  <2>4. ~ rOverlapped' => SchedulerMatches'
    BY <1>0, <2>1 DEF SchedulerMatches
  <2>5. Recur!RunsAccounted'
    <3>1. \A k \in Recur!Runs : k > clock + 1 => k > clock
      BY <1>t DEF Recur!Runs
    <3> QED BY <1>0, <2>1, <3>1 DEF Recur!RunsAccounted
  <2> QED BY <2>2, <2>3, <2>4, <2>5 DEF RecurInv
<1>2. CASE Recur!CreateRecurringOrder
  <2>1. /\ first = 0 /\ first' = clock + 1
        /\ recurring' = [next |-> clock + 1, active |-> TRUE]
        /\ UNCHANGED <<clock, scheduler, rRequest, ordered, skipped, rDisturbed,
                       rOverlapped, rFaults>>
        /\ \A k : Done(k)' = Done(k)
    BY <1>2 DEF Recur!CreateRecurringOrder, Done
  <2>2. clock + 1 \in 1 .. MaxRuns + 1
    BY <1>t
  <2>3. recurring' \in Recur!Rows /\ recurring'.next = clock + 1
    BY <2>1, <2>2, MadeRow
  <2>4. Recur!RecurringTypeOK'
    BY <1>0, <1>t, <2>1, <2>3 DEF Recur!RecurringTypeOK
  <2>5. ViewsMatch'
    BY <1>0, <2>1 DEF ViewsMatch
  <2>6. ~ rOverlapped => scheduler.at = "idle" /\ \A k \in Recur!Runs : Done(k) = 0
    BY <1>0, <1>i, <2>1 DEF SchedulerMatches
  <2>7. ~ rOverlapped' => SchedulerMatches'
    BY <1>t, <2>1, <2>6 DEF SchedulerMatches
  <2>8. Recur!RunsAccounted'
    <3> SUFFICES ASSUME ~ rOverlapped', NEW k \in Recur!Runs
                 PROVE  /\ ordered'[k] + skipped'[k] = 0 /\ ordered'[k] = 0
                        /\ ~ (first' <= k /\ k < recurring'.next)
                        /\ scheduler'.at # "handled"
      BY <2>1 DEF Recur!RunsAccounted
    <3>1. ordered[k] \in Nat /\ skipped[k] \in Nat /\ k \in Nat
      BY <1>t DEF Recur!Runs
    <3> QED BY <1>t, <2>1, <2>3, <2>6, <3>1 DEF Done
  <2> QED BY <2>4, <2>5, <2>7, <2>8 DEF RecurInv
<1>3. CASE Recur!FindDue
  <2>1. /\ scheduler = Recur!Idle /\ recurring # Recur!NoRow /\ recurring.next <= clock
        /\ scheduler' = [at |-> "due", copy |-> recurring]
        /\ UNCHANGED <<recurring, clock, rRequest, first, ordered, skipped, rDisturbed,
                       rOverlapped, rFaults>>
        /\ \A k : Done(k)' = Done(k)
    BY <1>3 DEF Recur!FindDue, Recur!runHistory, Done
  <2>2. recurring.next \in Recur!Runs
    <3>1. recurring.next \in 1 .. MaxRuns + 1
      BY <1>t, <2>1, RecurringRowTyped
    <3> QED BY <1>t, <2>1, <3>1 DEF Recur!Runs
  <2>3. Recur!RecurringTypeOK'
    BY <1>0, <1>t, <2>1 DEF Recur!RecurringTypeOK
  <2>4. ViewsMatch'
    BY <1>0, <2>1 DEF ViewsMatch
  <2>5. ASSUME ~ rOverlapped PROVE
          /\ recurring.next \notin rDisturbed => Done(recurring.next) = 0
          /\ first <= recurring.next /\ first # 0
    <3>1. first # 0 /\ first <= recurring.next
      BY <1>0, <2>1, <2>5 DEF SchedulerMatches
    <3>2. ordered[recurring.next] \in Nat /\ skipped[recurring.next] \in Nat
          /\ recurring.next \in Nat
      BY <1>t, <2>2 DEF Recur!Runs
    <3> QED BY <1>0, <1>i, <2>1, <2>2, <2>5, <3>1, <3>2 DEF Recur!RunsAccounted, Done
  <2>7. ~ rOverlapped' => SchedulerMatches'
    BY <1>0, <2>1, <2>5 DEF SchedulerMatches
  <2>8. Recur!RunsAccounted'
    BY <1>0, <1>i, <2>1 DEF Recur!RunsAccounted
  <2> QED BY <2>3, <2>4, <2>7, <2>8 DEF RecurInv

<1>4. CASE Recur!AwaitPrice
  <2>1. /\ scheduler' = Recur!Idle
        /\ UNCHANGED <<recurring, clock, rRequest, first, ordered, skipped, rDisturbed,
                       rOverlapped, rFaults>>
        /\ \A k : Done(k)' = Done(k)
        /\ scheduler.at = "due"
    BY <1>4 DEF Recur!AwaitPrice, Recur!runHistory, Done
  <2>2. Recur!RecurringTypeOK'
    BY <1>0, <1>i, <2>1 DEF Recur!RecurringTypeOK
  <2>3. ViewsMatch'
    BY <1>0, <1>i, <2>1 DEF ViewsMatch
  <2>4. ~ rOverlapped' => SchedulerMatches'
    BY <1>0, <1>i, <2>1 DEF SchedulerMatches
  <2>5. Recur!RunsAccounted'
    BY <1>0, <1>i, <2>1 DEF Recur!RunsAccounted
  <2> QED BY <2>2, <2>3, <2>4, <2>5 DEF RecurInv
<1>5. CASE Recur!ProcessRecurringOrder
  <2>1. /\ scheduler.at = "due" /\ scheduler' = [scheduler EXCEPT !.at = "handled"]
        /\ \/ ordered' = [ordered EXCEPT ![t] = @ + 1] /\ skipped' = skipped
           \/ skipped' = [skipped EXCEPT ![t] = @ + 1] /\ ordered' = ordered
        /\ UNCHANGED <<recurring, clock, rRequest, first, rDisturbed, rOverlapped, rFaults>>
    BY <1>5 DEF Recur!ProcessRecurringOrder, t
  <2>2. /\ scheduler'.at = "handled" /\ scheduler'.copy = scheduler.copy
        /\ scheduler' \in [at : {"idle", "due", "handled"}, copy : Recur!Rows]
    BY <1>t, <2>1
  <2>3. t \in Recur!Runs /\ t <= clock
    BY <1>c, <2>1
  <2>4. /\ ordered' \in [Recur!Runs -> Nat] /\ skipped' \in [Recur!Runs -> Nat]
        /\ \A k \in Recur!Runs : k # t => ordered'[k] = ordered[k] /\ skipped'[k] = skipped[k]
        /\ ordered'[t] + skipped'[t] = ordered[t] + skipped[t] + 1
    BY <1>t, <2>1, <2>3
  <2>5. Recur!RecurringTypeOK'
    BY <1>0, <2>1, <2>2, <2>4 DEF Recur!RecurringTypeOK
  <2>6. ViewsMatch'
    BY <1>0, <2>1, <2>2 DEF ViewsMatch
  <2>7. ASSUME ~ rOverlapped PROVE
          /\ first # 0 /\ first <= t /\ (recurring # Recur!NoRow => recurring.next = t)
          /\ t \notin rDisturbed => Done(t) = 0
    BY <1>0, <1>i, <2>1, <2>7 DEF SchedulerMatches, t
  <2>8. ~ rOverlapped' => SchedulerMatches'
    BY <1>0, <2>1, <2>2, <2>7 DEF SchedulerMatches, t
  <2>9. Recur!RunsAccounted'
    <3> SUFFICES ASSUME ~ rOverlapped', NEW k \in Recur!Runs \ rDisturbed'
                 PROVE  /\ ordered'[k] + skipped'[k] <= 1
                        /\ recurring' # Recur!NoRow =>
                             (ordered'[k] + skipped'[k] = 1
                                <=> /\ first' <= k
                                    /\ \/ k < recurring'.next
                                       \/ scheduler'.at = "handled" /\ scheduler'.copy.next = k)
                        /\ k > clock' => ordered'[k] = 0
      BY DEF Recur!RunsAccounted
    <3>1. ~ rOverlapped /\ k \notin rDisturbed /\ k \in Nat
      BY <1>t, <2>1 DEF Recur!Runs
    <3>2. CASE k = t
      <4>1. ordered[t] \in Nat /\ skipped[t] \in Nat
        BY <1>t, <2>3
      <4> QED BY <1>t, <2>1, <2>2, <2>3, <2>4, <2>7, <3>1, <3>2, <4>1 DEF Done, t
    <3>3. CASE k # t
      <4>1. /\ ordered[k] + skipped[k] <= 1
            /\ recurring # Recur!NoRow =>
                 (ordered[k] + skipped[k] = 1 <=> first <= k /\ k < recurring.next)
            /\ k > clock => ordered[k] = 0
        BY <1>0, <2>1, <3>1 DEF Recur!RunsAccounted
      <4>2. scheduler'.copy.next # k
        BY <2>2, <3>3 DEF t
      <4>3. ordered'[k] = ordered[k] /\ skipped'[k] = skipped[k]
        BY <2>4, <3>3
      <4> QED BY <2>1, <4>1, <4>2, <4>3
    <3> QED BY <3>2, <3>3
  <2> QED BY <2>5, <2>6, <2>8, <2>9 DEF RecurInv
<1>6. CASE Recur!AdvanceNextRun
  <2> DEFINE new == [next |-> t + 1, active |-> scheduler.copy.active]
  <2>1. scheduler.at = "handled"
    BY <1>6 DEF Recur!AdvanceNextRun
  <2>2. [scheduler.copy EXCEPT !.next = Recur!NextRun(scheduler.copy)] = new
    <3>1. PICK a : scheduler.copy = [next |-> t, active |-> a]
      BY <1>c, <2>1
    <3> QED BY <3>1 DEF Recur!NextRun
  <2>3. /\ scheduler' = Recur!Idle /\ recurring' = new
        /\ rOverlapped' = (rOverlapped \/ recurring # scheduler.copy)
        /\ UNCHANGED <<clock, rRequest, first, ordered, skipped, rDisturbed, rFaults>>
        /\ \A k : Done(k)' = Done(k)
    BY <1>6, <2>2 DEF Recur!AdvanceNextRun, Recur!Save, Done
  <2>4. recurring' \in Recur!Rows /\ recurring'.next = t + 1
    <3>1. t + 1 \in 1 .. MaxRuns + 1 /\ scheduler.copy.active \in BOOLEAN
      BY <1>t, <1>c, <2>1 DEF Recur!Runs
    <3> QED BY <2>3, <3>1, MadeRow
  <2> HIDE DEF new
  <2>5. Recur!RecurringTypeOK'
    BY <1>0, <1>t, <1>i, <2>3, <2>4 DEF Recur!RecurringTypeOK
  <2>6. ViewsMatch'
    BY <1>0, <1>i, <2>3 DEF ViewsMatch
  <2>7. ASSUME ~ rOverlapped'
        PROVE  /\ ~ rOverlapped /\ recurring # Recur!NoRow /\ recurring.next = t
               /\ first # 0 /\ first <= t /\ t \in Nat
    <3>1. ~ rOverlapped /\ recurring = scheduler.copy
      BY <2>3, <2>7
    <3>2. recurring # Recur!NoRow /\ recurring.next = t /\ t \in Nat
      BY <1>t, <1>c, <2>1, <3>1 DEF t, Recur!Runs
    <3>3. first # 0 /\ first <= t
      BY <1>0, <1>i, <2>1, <3>1 DEF SchedulerMatches, t
    <3> QED BY <3>1, <3>2, <3>3
  <2>8. ~ rOverlapped' => SchedulerMatches'
    BY <1>t, <1>i, <2>3, <2>4, <2>7 DEF SchedulerMatches
  <2>9. Recur!RunsAccounted'
    <3> SUFFICES ASSUME ~ rOverlapped', NEW k \in Recur!Runs \ rDisturbed
                 PROVE  /\ ordered[k] + skipped[k] <= 1
                        /\ ordered[k] + skipped[k] = 1 <=> (first <= k /\ k < t + 1)
                        /\ k > clock => ordered[k] = 0
      BY <1>i, <2>3, <2>4 DEF Recur!RunsAccounted
    <3>1. /\ ordered[k] + skipped[k] <= 1
          /\ ordered[k] + skipped[k] = 1 <=> (first <= k /\ (k < t \/ t = k))
          /\ k > clock => ordered[k] = 0
      BY <1>0, <2>1, <2>7 DEF Recur!RunsAccounted, t
    <3> QED BY <2>7, <3>1 DEF Recur!Runs
  <2> QED BY <2>5, <2>6, <2>8, <2>9 DEF RecurInv
<1>7. CASE Recur!LoseScheduler
  <2>1. /\ scheduler' = Recur!Idle /\ rFaults' \in 0 .. MaxRunFaults
        /\ rDisturbed' = IF scheduler.at = "handled" THEN rDisturbed \cup {t} ELSE rDisturbed
        /\ UNCHANGED <<recurring, clock, rRequest, first, ordered, skipped, rOverlapped>>
        /\ \A k : Done(k)' = Done(k)
    BY <1>t, <1>7 DEF Recur!LoseScheduler, Recur!Fail, Done, t
  <2>2. Recur!RecurringTypeOK'
    BY <1>0, <1>t, <1>i, <1>c, <2>1 DEF Recur!RecurringTypeOK
  <2>3. ViewsMatch'
    BY <1>0, <1>i, <2>1 DEF ViewsMatch
  <2>4. ~ rOverlapped' => SchedulerMatches'
    BY <1>0, <1>i, <2>1 DEF SchedulerMatches
  <2>5. Recur!RunsAccounted'
    <3>1. \A k \in Recur!Runs \ rDisturbed' :
            k \notin rDisturbed /\ ~ (scheduler.at = "handled" /\ scheduler.copy.next = k)
      BY <2>1 DEF t
    <3> QED BY <1>0, <1>i, <2>1, <3>1 DEF Recur!RunsAccounted
  <2> QED BY <2>2, <2>3, <2>4, <2>5 DEF RecurInv
<1> QED BY <1>1, <1>2, <1>3, <1>4, <1>5, <1>6, <1>7

LEMMA RecurRests ==
  ASSUME RecurInv, UNCHANGED recurVars
  PROVE  RecurInv'
BY DEF RecurInv, recurVars, Recur!RecurringTypeOK, ViewsMatch, SchedulerMatches, Done,
   Recur!RunsAccounted

LEMMA RecurStep == RecurInv /\ [Recur!Next]_recurVars => RecurInv'
<1> SUFFICES ASSUME RecurInv, [Recur!Next]_recurVars PROVE RecurInv'
  OBVIOUS
<1>1. CASE Recur!Next
  BY <1>1, OwnerSteps, SchedulerSteps DEF Recur!Next
<1>2. CASE UNCHANGED recurVars
  BY <1>2, RecurRests
<1> QED BY <1>1, <1>2

-----------------------------------------------------------------------------
(* Price alerts *)

\* E-mails sent or about to be.
Mails == notified + notifying + (IF checker = "marked" THEN 1 ELSE 0)

AlertInv ==
    /\ Alert!AlertTypeOK
    /\ Alert!NotifiedOnce
    /\ checker = "firing" => Mails = 0 /\ alert # "triggered"
    /\ ~ created => alert = "none" /\ checker = "idle" /\ Mails = 0

LEMMA AlertInitially == Alert!Init => AlertInv
<1> SUFFICES ASSUME Alert!Init PROVE AlertInv
  OBVIOUS
<1>1. /\ alert = "none" /\ checker = "idle" /\ notifying = 0 /\ notified = 0
      /\ created = FALSE /\ lost = FALSE /\ met \in BOOLEAN
  BY DEF Alert!Init
<1>2. Alert!AlertTypeOK
  <2>1. {notifying, notified} \subseteq Nat
    BY <1>1
  <2>2. {met, created, lost} \subseteq BOOLEAN
    BY <1>1
  <2> QED BY <1>1, <2>1, <2>2 DEF Alert!AlertTypeOK
<1>3. Alert!NotifiedOnce /\ Mails = 0
  BY ONLY <1>1 DEF Alert!NotifiedOnce, Mails
<1> QED BY <1>1, <1>2, <1>3 DEF AlertInv

LEMMA AlertStep == AlertInv /\ [Alert!Next]_alertVars => AlertInv'
<1> SUFFICES ASSUME AlertInv, [Alert!Next]_alertVars PROVE AlertInv'
  OBVIOUS
<1>t. /\ alert \in {"none", "active", "triggered"} /\ checker \in {"idle", "firing", "marked"}
      /\ notifying \in Nat /\ notified \in Nat
      /\ met \in BOOLEAN /\ created \in BOOLEAN /\ lost \in BOOLEAN
  BY DEF AlertInv, Alert!AlertTypeOK
<1>m. /\ checker = "marked" => Mails = notified + notifying + 1
      /\ checker # "marked" => Mails = notified + notifying
  BY <1>t DEF Mails
<1>1. /\ Mails <= 1 /\ (alert = "active" => Mails = 0)
      /\ alert = "triggered" /\ ~ lost => Mails = 1
      /\ checker = "firing" => Mails = 0 /\ alert # "triggered"
      /\ ~ created => alert = "none" /\ checker = "idle" /\ Mails = 0
  BY <1>t DEF AlertInv, Alert!NotifiedOnce, Mails
<1>b. met' \in BOOLEAN /\ created' \in BOOLEAN /\ lost' \in BOOLEAN
  BY <1>t DEF Alert!Next, Alert!CreateAlert, Alert!DeleteAlert, Alert!RefreshPrice,
       Alert!FindAllActive, Alert!MarkTriggered, Alert!NotifyPriceAlert, Alert!Send,
       Alert!Crash, alertVars
\* What is to be shown of the step.
<1>2. SUFFICES
        /\ alert' \in {"none", "active", "triggered"} /\ checker' \in {"idle", "firing", "marked"}
        /\ notifying' \in Nat /\ notified' \in Nat
        /\ Mails' <= 1 /\ (alert' = "active" => Mails' = 0)
        /\ (alert' = "triggered" /\ ~ lost' => Mails' = 1)
        /\ (checker' = "firing" => Mails' = 0 /\ alert' # "triggered")
        /\ (~ created' => alert' = "none" /\ checker' = "idle" /\ Mails' = 0)
  <2>1. {notifying', notified'} \subseteq Nat /\ {met', created', lost'} \subseteq BOOLEAN
    BY <1>b, <1>2
  <2>2. Alert!AlertTypeOK'
    BY <1>2, <2>1 DEF Alert!AlertTypeOK
  <2>3. Alert!NotifiedOnce'
    <3>1. notified' + (notifying' + (IF checker' = "marked" THEN 1 ELSE 0)) = Mails'
      BY <1>2 DEF Mails
    <3> QED BY <1>2, <3>1 DEF Alert!NotifiedOnce
  <2> QED BY <1>2, <2>2, <2>3 DEF AlertInv
<1>n. /\ checker \in {"idle", "firing", "marked"} /\ notifying \in Nat /\ notified \in Nat
      /\ alert \in {"none", "active", "triggered"}
  BY <1>t
<1>3. CASE Alert!CreateAlert \/ Alert!DeleteAlert \/ Alert!RefreshPrice \/ Alert!FindAllActive
  <2>1. Mails' = IF checker' = "marked" THEN notified + notifying + 1 ELSE notified + notifying
    BY <1>n, <1>3 DEF Alert!CreateAlert, Alert!DeleteAlert, Alert!RefreshPrice,
       Alert!FindAllActive, Mails
  <2>2. Mails' = Mails
    BY <1>n, <1>m, <1>3, <2>1 DEF Alert!CreateAlert, Alert!DeleteAlert, Alert!RefreshPrice,
       Alert!FindAllActive
  <2> HIDE DEF Mails
  <2> QED BY <1>n, <1>1, <1>3, <2>2 DEF Alert!CreateAlert, Alert!DeleteAlert, Alert!RefreshPrice,
       Alert!FindAllActive
<1>4. CASE Alert!MarkTriggered
  BY <1>n, <1>m, <1>1, <1>4 DEF Alert!MarkTriggered, Mails
<1>5. CASE Alert!NotifyPriceAlert
  BY <1>n, <1>m, <1>1, <1>5 DEF Alert!NotifyPriceAlert, Mails
<1>6. CASE Alert!Send
  BY <1>n, <1>m, <1>1, <1>6 DEF Alert!Send, Mails
<1>7. CASE Alert!Crash
  <2>1. /\ checker' = "idle" /\ notifying' = 0 /\ alert' = alert /\ notified' = notified
        /\ created' = created
        /\ lost' <=> lost \/ checker = "marked" \/ notifying > 0
    BY <1>7 DEF Alert!Crash
  <2>2. Mails' = notified /\ notified <= Mails
    BY <1>n, <1>m, <2>1 DEF Mails
  <2>3. ~ lost' => ~ lost /\ Mails' = Mails
    BY <1>n, <1>m, <2>1, <2>2
  <2> QED BY <1>n, <1>m, <1>1, <2>1, <2>2, <2>3
<1>8. CASE UNCHANGED alertVars
  BY <1>n, <1>1, <1>8 DEF alertVars, Mails
<1> QED BY <1>3, <1>4, <1>5, <1>6, <1>7, <1>8 DEF Alert!Next

-----------------------------------------------------------------------------
(* Dividends *)

Passed   == Inflow - Reinvested           \* what the fund distributes
Shares  == SumFunctionOnSet(run.units, Pair)
UnitsOf(S) == SumFunctionOnSet([i \in Pair |-> IF i \in S THEN run.units[i] ELSE 0], Pair)

Unpaid(i) == dPaid[i] = 0 /\ taxed[i] = 0
NotSpent  == /\ dSpent = 0 /\ given = 0 /\ purchase = Payout!NoPurchase
             /\ \A i \in Pair : Unpaid(i)

\* The run is paying the clients of the fund.
WithClients == run.at = "clients" \/ (run.at = "tax" /\ run.payee \in Pair)

\* Nobody is named twice: owners and clients to come have had nothing yet.
PayoutMatches ==
    /\ \A o \in run.owners : Unpaid(o) /\ dRecorded[o] = 0
    /\ "fund" \in run.owners \/ dPaid["fund"] = 0 => NotSpent
    /\ run.at = "tax" => /\ run.payee \in Pair \cup ({"client"} \ run.owners)
                         /\ dPaid[run.payee] = 1 /\ taxed[run.payee] = 0
                         /\ run.payee = "client" => dRecorded["client"] = 0
    /\ run.at = "payout" => run.payee \in Payout!Owners \ run.owners /\ dRecorded[run.payee] = 0
    /\ run.at \in {"reinvest", "positions"} \/ WithClients \/ (run.at = "payout" /\ run.payee = "fund") =>
         "fund" \notin run.owners /\ dPaid["fund"] = 1
    /\ run.at = "reinvest" \/ (run.at = "payout" /\ run.payee = "fund") => NotSpent
    /\ run.at = "positions" => given = 0 /\ \A i \in Pair : Unpaid(i)

\* The clients whose turn has come have got no more than their units' part.
PartsMatch ==
    WithClients =>
      /\ \A i \in run.todo : run.units[i] > 0 /\ Unpaid(i)
      /\ given * Shares + Passed * UnitsOf(run.todo) <= Passed * Shares

\* What the order was sized for, what it counts, and what was paid for it.
Bought ==
    /\ purchase.filled <= purchase.quantity
    /\ "misquoted" \notin strayed => purchase.quantity * Price <= Reinvested
    /\ "repeated" \notin strayed => \E ask \in AskPrices : dSpent <= purchase.filled * ask
    /\ strayed \cap {"dearer", "repeated"} = {} => dSpent <= purchase.filled * Price
    /\ purchase.status = "pending" => dSpent = 0

Within == given <= Passed /\ Bought

DividendInv ==
    Payout!DividendTypeOK /\ PayoutMatches /\ PartsMatch /\ Within /\ Payout!PaidOnce

-----------------------------------------------------------------------------
LEMMA AsksTyped == AskPrices \subseteq Nat \ {0} /\ AskPrices # {} /\ \A x \in AskPrices : 0 * x = 0
<1>1. AskPrices \subseteq Nat \ {0} /\ AskPrices # {}
  <2>1. Payout!DividendsAssumption
    BY TradingAssumption
  <2> QED BY <2>1 DEF Payout!DividendsAssumption
<1> QED BY <1>1

LEMMA DividendTypes ==
  ASSUME Payout!DividendTypeOK
  PROVE  /\ Inflow \in Nat /\ Reinvested \in Nat /\ MaxShares \in Nat /\ Passed \in Nat
         /\ Price \in Nat \ {0} /\ QuotePrice \in Nat \ {0}
         /\ IsFiniteSet(Pair)
         /\ \A i \in Pair : i # "client" /\ i # "bank" /\ i # "fund" /\ i # "none"
         /\ run.at \in {"new", "owner", "tax", "payout", "reinvest", "positions", "clients", "end"}
         /\ run.payee \in Payout!Payees \cup {"none"} /\ run.owners \subseteq Payout!Owners
         /\ run.todo \subseteq Pair /\ run.units \in [Pair -> 0 .. MaxShares]
         /\ run = [at |-> run.at, payee |-> run.payee, owners |-> run.owners, todo |-> run.todo,
                   units |-> run.units]
         /\ dPaid \in [Payout!Payees -> Nat] /\ taxed \in [Payout!Payees -> Nat]
         /\ dRecorded \in [Payout!Owners -> Nat] /\ dSpent \in Nat /\ given \in Nat
         /\ dDisturbed \subseteq Payout!Payees
         /\ purchase.status \in {"none", "pending", "approved", "ended"}
         /\ purchase.quantity \in Nat /\ purchase.filled \in Nat
         /\ purchase = [status |-> purchase.status, quantity |-> purchase.quantity,
                        filled |-> purchase.filled]
         /\ dUnits \in [Pair -> 0 .. MaxShares]
<1>1. /\ {Inflow, Reinvested, MaxShares} \subseteq Nat /\ Reinvested <= Inflow
      /\ {Price, QuotePrice} \subseteq Nat \ {0}
      /\ IsFiniteSet(Pair) /\ Pair \cap {"client", "bank", "fund", "none"} = {}
  <2>1. Payout!DividendsAssumption
    BY TradingAssumption
  <2>2. Payout!IsFiniteSet(Pair) => IsFiniteSet(Pair)
    BY DEF Payout!IsFiniteSet, IsFiniteSet
  <2> QED BY <2>1, <2>2 DEF Payout!DividendsAssumption
<1>2. Passed \in Nat
  BY <1>1 DEF Passed
<1>3. \A i \in Pair : i # "client" /\ i # "bank" /\ i # "fund" /\ i # "none"
  BY <1>1
<1>4. run \in [at : {"new", "owner", "tax", "payout", "reinvest", "positions", "clients", "end"},
               payee : Payout!Payees \cup {"none"}, owners : SUBSET Payout!Owners,
               todo : SUBSET Pair, units : [Pair -> 0 .. MaxShares]]
  BY DEF Payout!DividendTypeOK
<1>5. /\ dPaid \in [Payout!Payees -> Nat] /\ taxed \in [Payout!Payees -> Nat]
      /\ dRecorded \in [Payout!Owners -> Nat] /\ dSpent \in Nat /\ given \in Nat
      /\ dDisturbed \subseteq Payout!Payees /\ dUnits \in [Pair -> 0 .. MaxShares]
  BY DEF Payout!DividendTypeOK
<1>6. purchase \in [status : {"none", "pending", "approved", "ended"}, quantity : Nat, filled : Nat]
  BY DEF Payout!DividendTypeOK
<1> QED BY <1>1, <1>2, <1>3, <1>4, <1>5, <1>6

LEMMA UnitsTyped ==
  ASSUME Payout!DividendTypeOK
  PROVE  /\ run.units \in [Pair -> Int] /\ \A i \in Pair : run.units[i] \in Nat
         /\ Shares \in Nat /\ \A i \in Pair : run.units[i] <= Shares
         /\ \A S \in SUBSET Pair :
              /\ UnitsOf(S) \in Nat
              /\ \A i \in S : UnitsOf(S) = run.units[i] + UnitsOf(S \ {i})
<1>1. run.units \in [Pair -> Int] /\ \A i \in Pair : run.units[i] \in Nat
  BY DividendTypes
<1>2. IsFiniteSet(Pair) /\ Pair \in SUBSET Pair
  BY DividendTypes
<1>3. Shares \in Int /\ Shares >= 0 /\ \A i \in Pair : run.units[i] <= Shares
  <2>1. \A i \in Pair : run.units[i] >= 0
    BY <1>1
  <2>2. ASSUME NEW i \in Pair PROVE run.units[i] <= SumFunctionOnSet(run.units, Pair)
    BY <1>1, <1>2, <2>1, SumAtLeast
  <2>3. SumFunctionOnSet(run.units, Pair) \in Int /\ SumFunctionOnSet(run.units, Pair) >= 0
    BY <1>1, <1>2, <2>1, SumType, SumNotNegative
  <2> QED BY <2>2, <2>3 DEF Shares
<1>4. ASSUME NEW S \in SUBSET Pair
      PROVE  /\ UnitsOf(S) \in Nat
             /\ \A i \in S : UnitsOf(S) = run.units[i] + UnitsOf(S \ {i})
  <2> DEFINE f(s) == [i \in Pair |-> IF i \in s THEN run.units[i] ELSE 0]
  <2>1. \A s : f(s) \in [Pair -> Int] /\ \A i \in Pair : f(s)[i] >= 0
    BY <1>1
  <2>2. \A i \in S : /\ f(S)[i] = run.units[i] /\ f(S \ {i})[i] = 0
                     /\ \A j \in Pair \ {i} : f(S \ {i})[j] = f(S)[j]
    OBVIOUS
  <2>3. \A s : UnitsOf(s) = SumFunctionOnSet(f(s), Pair)
    BY DEF UnitsOf
  <2> HIDE DEF f
  <2>4. UnitsOf(S) \in Int /\ UnitsOf(S) >= 0
    BY <1>2, <2>1, <2>3, SumType, SumNotNegative
  <2>5. ASSUME NEW i \in S PROVE UnitsOf(S) = run.units[i] + UnitsOf(S \ {i})
    <3>1. UnitsOf(S) = UnitsOf(S \ {i}) - 0 + run.units[i]
      BY <1>2, <2>1, <2>2, <2>3, SumUpdated
    <3>2. UnitsOf(S \ {i}) \in Int
      BY <1>2, <2>1, <2>3, SumType
    <3> QED BY <1>1, <3>1, <3>2
  <2> QED BY <2>4, <2>5
<1> QED BY <1>1, <1>3, <1>4

\* What is given to one more client stays within the parts of those who had their turn.
LEMMA PartGiven ==
  ASSUME NEW g \in Nat, NEW s \in Nat, NEW u \in Nat, NEW v \in Nat, NEW k \in Nat,
         NEW t \in Nat \ {0}, s = (u * k) \div t, g * t + k * (u + v) <= k * t
  PROVE  (g + s) * t + k * v <= k * t /\ g + s <= k
<1>1. u * k \in Nat /\ s * t <= u * k
  OBVIOUS
<1>2. (g + s) * t = g * t + s * t /\ k * (u + v) = u * k + k * v
  OBVIOUS
<1>3. g * t \in Nat /\ s * t \in Nat /\ k * v \in Nat /\ k * t \in Nat /\ (g + s) * t \in Nat
  OBVIOUS
<1>4. (g + s) * t + k * v <= k * t
  BY ONLY <1>1, <1>2, <1>3, g * t + k * (u + v) <= k * t
<1>5. (g + s) * t <= k * t
  BY ONLY <1>3, <1>4
<1>6. g + s <= k
  <2> SUFFICES ASSUME g + s > k PROVE FALSE
    OBVIOUS
  <2>1. PICK d \in Nat : g + s = k + 1 + d
    <3>1. g + s - k - 1 \in Nat /\ g + s = k + 1 + (g + s - k - 1)
      OBVIOUS
    <3> QED BY <3>1
  <2>2. (k + 1 + d) * t = k * t + t + d * t /\ d * t \in Nat
    OBVIOUS
  <2> QED BY <1>3, <1>5, <2>1, <2>2
<1> QED BY <1>4, <1>6

LEMMA SameSum == \A f, S : Payout!SumFunctionOnSet(f, S) = SumFunctionOnSet(f, S)
BY DEF Payout!SumFunctionOnSet, Payout!FoldFunctionOnSet, Payout!MapThenFoldSet,
       SumFunctionOnSet, FoldFunctionOnSet, MapThenFoldSet

-----------------------------------------------------------------------------
\* The run goes on to another place and nothing is paid.
LEMMA GoKeepsTypes ==
  ASSUME DividendInv, NEW a \in {"new", "owner", "tax", "payout", "reinvest", "positions", "clients", "end"},
         NEW p \in Payout!Payees \cup {"none"}, NEW os \in SUBSET run.owners, NEW ts \in SUBSET run.todo,
         run' = [at |-> a, payee |-> p, owners |-> os, todo |-> ts, units |-> run.units]
  PROVE  /\ run'.at = a /\ run'.payee = p /\ run'.owners = os /\ run'.todo = ts
         /\ run'.units = run.units
         /\ run' \in [at : {"new", "owner", "tax", "payout", "reinvest", "positions", "clients", "end"},
                      payee : Payout!Payees \cup {"none"}, owners : SUBSET Payout!Owners,
                      todo : SUBSET Pair, units : [Pair -> 0 .. MaxShares]]
         /\ Shares' = Shares /\ \A S : UnitsOf(S)' = UnitsOf(S)
<1>1. /\ run.owners \subseteq Payout!Owners /\ run.todo \subseteq Pair
      /\ run.units \in [Pair -> 0 .. MaxShares]
  BY DividendTypes DEF DividendInv
<1>2. run'.units = run.units
  OBVIOUS
<1> QED BY <1>1, <1>2 DEF Shares, UnitsOf

\* ProcessDividends, the bank, and the end: nobody is paid.
LEMMA QuietSteps ==
  ASSUME DividendInv,
         \/ Payout!ProcessDividends \/ Payout!TakeBank \/ Payout!Finish \/ Payout!Crash
  PROVE  DividendInv'
<1>t. Payout!DividendTypeOK /\ PayoutMatches /\ PartsMatch /\ Within /\ Payout!PaidOnce
  BY DEF DividendInv
<1>r. /\ run.at \in {"new", "owner", "tax", "payout", "reinvest", "positions", "clients", "end"}
      /\ run.payee \in Payout!Payees \cup {"none"} /\ run.owners \subseteq Payout!Owners
      /\ run.todo \subseteq Pair
      /\ run = [at |-> run.at, payee |-> run.payee, owners |-> run.owners, todo |-> run.todo,
                units |-> run.units]
      /\ \A i \in Pair : i # "client" /\ i # "bank" /\ i # "fund" /\ i # "none"
      /\ dDisturbed \subseteq Payout!Payees
  BY <1>t, DividendTypes
\* Where it goes: not to a tax, and not to the fund.
<1>1. \E a \in {"owner", "payout", "end"}, p \in {"none", "bank", run.payee}, os \in SUBSET run.owners :
        /\ run' = [at |-> a, payee |-> p, owners |-> os, todo |-> run.todo, units |-> run.units]
        /\ a = "payout" => p = "bank" /\ "bank" \in run.owners \ os
        /\ "fund" \in run.owners => "fund" \in os
        /\ UNCHANGED <<dUnits, dPaid, taxed, dRecorded, dSpent, given, purchase, strayed>>
        /\ dDisturbed \subseteq dDisturbed' /\ dDisturbed' \subseteq Payout!Payees
        /\ run.at \in {"tax", "payout"} => run.payee \in dDisturbed'
  <2>1. CASE Payout!ProcessDividends
    <3>1. run' = [at |-> "owner", payee |-> "none", owners |-> run.owners,
                  todo |-> run.todo, units |-> run.units]
      BY <1>r, <2>1 DEF Payout!ProcessDividends, Payout!Go
    <3>2. /\ UNCHANGED <<dUnits, dPaid, taxed, dRecorded, dSpent, given, purchase, strayed>>
          /\ dDisturbed' = dDisturbed /\ run.at = "new"
      BY <2>1 DEF Payout!ProcessDividends, Payout!dividendHistory
    <3> QED BY <1>r, <3>1, <3>2
  <2>2. CASE Payout!TakeBank
    <3>1. run' = [at |-> "payout", payee |-> "bank", owners |-> run.owners \ {"bank"},
                  todo |-> run.todo, units |-> run.units]
      BY <1>r, <2>2 DEF Payout!TakeBank
    <3>2. /\ UNCHANGED <<dUnits, dPaid, taxed, dRecorded, dSpent, given, purchase, strayed>>
          /\ dDisturbed' = dDisturbed /\ run.at = "owner"
          /\ "bank" \in run.owners \ (run.owners \ {"bank"})
      BY <2>2 DEF Payout!TakeBank, Payout!dividendHistory
    <3> QED BY <1>r, <3>1, <3>2
  <2>3. CASE Payout!Finish
    <3>1. \E a \in {"owner", "end"} :
            run' = [at |-> a, payee |-> "none", owners |-> run.owners,
                    todo |-> run.todo, units |-> run.units]
      BY <1>r, <2>3 DEF Payout!Finish, Payout!Go
    <3>2. /\ UNCHANGED <<dUnits, dPaid, taxed, dRecorded, dSpent, given, purchase, strayed>>
          /\ dDisturbed' = dDisturbed /\ run.at \in {"clients", "owner"}
      BY <2>3 DEF Payout!Finish, Payout!dividendHistory
    <3> QED BY <1>r, <3>1, <3>2
  <2>4. CASE Payout!Crash
    <3>1. run' = [at |-> "end", payee |-> run.payee, owners |-> run.owners,
                  todo |-> run.todo, units |-> run.units]
      BY <1>r, <2>4 DEF Payout!Crash, Payout!Go
    <3>2. run.at \in {"tax", "payout"} => run.payee # "none"
      BY <1>t, <1>r DEF PayoutMatches, Payout!Owners
    <3> QED BY <1>r, <2>4, <3>1, <3>2 DEF Payout!Crash
  <2> QED BY <2>1, <2>2, <2>3, <2>4
<1>2. PICK a \in {"owner", "payout", "end"}, p \in {"none", "bank", run.payee},
           os \in SUBSET run.owners : <1>1!(a, p, os)
  BY <1>1
<1>3. p \in Payout!Payees \cup {"none"}
  BY <1>r DEF Payout!Payees, Payout!Owners
<1>4. /\ run'.at = a /\ run'.payee = p /\ run'.owners = os
      /\ run' \in [at : {"new", "owner", "tax", "payout", "reinvest", "positions", "clients", "end"},
                   payee : Payout!Payees \cup {"none"}, owners : SUBSET Payout!Owners,
                   todo : SUBSET Pair, units : [Pair -> 0 .. MaxShares]]
  BY <1>2, <1>3, GoKeepsTypes
<1>5. Payout!DividendTypeOK'
  BY <1>t, <1>2, <1>4 DEF Payout!DividendTypeOK
<1>6. PayoutMatches'
  <2>1. ~ WithClients'
    BY <1>4 DEF WithClients
  <2>2. a = "payout" => dRecorded["bank"] = 0 /\ "bank" \in Payout!Owners
    BY <1>t, <1>2, <1>r DEF PayoutMatches
  <2>3. "fund" \in os \/ dPaid["fund"] = 0 => NotSpent
    BY <1>t, <1>2 DEF PayoutMatches
  <2>4. \A o \in os : Unpaid(o) /\ dRecorded[o] = 0
    BY <1>t, <1>2 DEF PayoutMatches
  <2> QED BY <1>2, <1>4, <2>1, <2>2, <2>3, <2>4 DEF PayoutMatches, NotSpent, Unpaid
<1>7. PartsMatch'
  BY <1>4 DEF PartsMatch, WithClients
<1>8. Within'
  BY <1>t, <1>2 DEF Within, Bought, Passed
<1>9. Payout!PaidOnce'
  <2>1. ASSUME NEW x \in Payout!Payees, x \notin dDisturbed', x # "bank"
        PROVE  /\ x \notin dDisturbed
               /\ Payout!Pending(x, "tax") = 0 /\ Payout!Pending(x, "payout") = 0
               /\ Payout!Pending(x, "tax")' = 0 /\ Payout!Pending(x, "payout")' = 0
    BY <1>2, <1>4, <2>1 DEF Payout!Pending
  <2>2. "client" \in Payout!Payees /\ Payout!Owners = {"client", "bank", "fund"}
    BY DEF Payout!Payees, Payout!Owners
  <2> QED BY <1>t, <1>2, <2>1, <2>2 DEF Payout!PaidOnce
<1> QED BY <1>5, <1>6, <1>7, <1>8, <1>9 DEF DividendInv

LEMMA OwnerPaid ==
  ASSUME DividendInv, NEW o \in Payout!Owners, Payout!PayOwner(o)
  PROVE  DividendInv'
<1>t. Payout!DividendTypeOK /\ PayoutMatches /\ PartsMatch /\ Within /\ Payout!PaidOnce
  BY DEF DividendInv
<1>r. /\ run.at = "owner" /\ o \in run.owners /\ o \in {"client", "fund"}
      /\ run.payee \in Payout!Payees \cup {"none"} /\ run.owners \subseteq Payout!Owners
      /\ run.todo \subseteq Pair
      /\ run = [at |-> run.at, payee |-> run.payee, owners |-> run.owners, todo |-> run.todo,
                units |-> run.units]
      /\ \A i \in Pair : i # "client" /\ i # "bank" /\ i # "fund" /\ i # "none"
      /\ dDisturbed \subseteq Payout!Payees
      /\ dPaid \in [Payout!Payees -> Nat] /\ taxed \in [Payout!Payees -> Nat]
      /\ o \in Payout!Payees /\ Pair \subseteq Payout!Payees
      /\ Inflow \in Nat /\ dSpent \in Nat /\ given \in Nat
  BY <1>t, DividendTypes DEF Payout!PayOwner, Payout!Owners, Payout!Payees
<1>o. Unpaid(o) /\ dRecorded[o] = 0
  BY <1>t, <1>r DEF PayoutMatches
<1>1. \E a \in {"tax", "payout", "owner"}, p \in {o, run.payee}, n \in {0, 1} :
        /\ run' = [at |-> a, payee |-> p, owners |-> run.owners \ {o}, todo |-> run.todo,
                   units |-> run.units]
        /\ dPaid' = [dPaid EXCEPT ![o] = n]
        /\ a # "owner" => p = o /\ n = 1 /\ dDisturbed' = dDisturbed
        /\ a = "tax" => o = "client"
        /\ a = "payout" => o = "fund"
        /\ a = "owner" => dDisturbed' = dDisturbed \cup {o}
        /\ UNCHANGED <<dUnits, taxed, dRecorded, dSpent, given, purchase, strayed>>
  <2>1. Payout!Once(dPaid, o) = [dPaid EXCEPT ![o] = 1] /\ dPaid = [dPaid EXCEPT ![o] = 0]
    BY <1>r, <1>o DEF Payout!Once, Unpaid
  <2>2. CASE /\ run' = [run EXCEPT !.at = IF o = "fund" THEN "payout" ELSE "tax",
                                   !.payee = o, !.owners = @ \ {o}]
             /\ dPaid' = Payout!Once(dPaid, o) /\ UNCHANGED dDisturbed
    <3>1. run' = [at |-> IF o = "fund" THEN "payout" ELSE "tax", payee |-> o,
                  owners |-> run.owners \ {o}, todo |-> run.todo, units |-> run.units]
      BY <1>r, <2>2
    <3> QED BY <1>r, <2>1, <2>2, <3>1 DEF Payout!PayOwner
  <2>3. CASE /\ run' = [run EXCEPT !.owners = @ \ {o}]
             /\ dPaid' \in {dPaid, Payout!Once(dPaid, o)}
             /\ Payout!Disturb(o)
    <3>1. run' = [at |-> "owner", payee |-> run.payee,
                  owners |-> run.owners \ {o}, todo |-> run.todo, units |-> run.units]
      BY <1>r, <2>3
    <3> QED BY <1>r, <2>1, <2>3, <3>1 DEF Payout!PayOwner, Payout!Disturb
  <2> QED BY <2>2, <2>3 DEF Payout!PayOwner
<1>2. PICK a \in {"tax", "payout", "owner"}, p \in {o, run.payee}, n \in {0, 1} : <1>1!(a, p, n)
  BY <1>1
<1>4. /\ run'.at = a /\ run'.payee = p /\ run'.owners = run.owners \ {o}
      /\ run' \in [at : {"new", "owner", "tax", "payout", "reinvest", "positions", "clients", "end"},
                   payee : Payout!Payees \cup {"none"}, owners : SUBSET Payout!Owners,
                   todo : SUBSET Pair, units : [Pair -> 0 .. MaxShares]]
  BY <1>r, <1>2, GoKeepsTypes
<1>p. /\ dPaid' \in [Payout!Payees -> Nat] /\ dPaid'[o] = n
      /\ \A x \in Payout!Payees : x # o => dPaid'[x] = dPaid[x]
  BY <1>r, <1>2
<1>5. Payout!DividendTypeOK'
  BY <1>t, <1>r, <1>2, <1>4, <1>p DEF Payout!DividendTypeOK
<1>6. PayoutMatches'
  <2>1. ~ WithClients'
    BY <1>r, <1>2, <1>4 DEF WithClients
  <2>2. \A x \in run.owners \ {o} : Unpaid(x)' /\ dRecorded'[x] = 0
    BY <1>t, <1>r, <1>2, <1>p DEF PayoutMatches, Unpaid, Payout!Payees
  <2>3. "fund" \in run.owners => NotSpent
    BY <1>t DEF PayoutMatches
  <2>4. NotSpent => NotSpent'
    BY <1>r, <1>2, <1>p DEF NotSpent, Unpaid
  <2>5. "fund" \in Payout!Payees
    BY DEF Payout!Payees, Payout!Owners
  <2>6. "fund" \in run'.owners \/ dPaid'["fund"] = 0 => NotSpent'
    BY <1>t, <1>r, <1>2, <1>4, <1>p, <2>3, <2>4, <2>5 DEF PayoutMatches
  <2>7. run'.at = "tax" => /\ run'.payee \in Pair \cup ({"client"} \ run'.owners)
                           /\ dPaid'[run'.payee] = 1 /\ taxed'[run'.payee] = 0
                           /\ run'.payee = "client" => dRecorded'["client"] = 0
    BY <1>r, <1>o, <1>2, <1>4, <1>p DEF Unpaid
  <2>8. run'.at = "payout" => run'.payee \in Payout!Owners \ run'.owners /\ dRecorded'[run'.payee] = 0
    BY <1>o, <1>2, <1>4
  <2>9. run'.at = "payout" => /\ "fund" \notin run'.owners /\ dPaid'["fund"] = 1 /\ NotSpent'
    BY <1>r, <1>2, <1>4, <1>p, <2>3, <2>4
  <2> QED BY <1>4, <2>1, <2>2, <2>6, <2>7, <2>8, <2>9 DEF PayoutMatches
<1>7. PartsMatch'
  BY <1>r, <1>2, <1>4 DEF PartsMatch, WithClients
<1>8. Within'
  BY <1>t, <1>2 DEF Within, Bought, Passed
<1>9. Payout!PaidOnce'
  <2>1. ASSUME NEW x \in Payout!Payees PROVE dPaid'[x] <= 1 /\ taxed'[x] <= dPaid'[x]
    BY <1>t, <1>r, <1>o, <1>2, <1>p DEF Payout!PaidOnce, Unpaid
  <2>2. ASSUME NEW x \in Payout!Payees \ (dDisturbed' \cup {"bank", "fund"})
        PROVE  taxed'[x] + Payout!Pending(x, "tax")' = dPaid'[x]
    <3>1. CASE x = o
      BY <1>r, <1>o, <1>2, <1>4, <1>p, <2>2, <3>1 DEF Payout!Pending, Unpaid
    <3>2. CASE x # o
      <4>1. Payout!Pending(x, "tax")' = 0 /\ Payout!Pending(x, "tax") = 0
        BY <1>r, <1>2, <1>4, <3>2 DEF Payout!Pending
      <4> QED BY <1>t, <1>r, <1>2, <1>p, <2>2, <3>2, <4>1 DEF Payout!PaidOnce
    <3> QED BY <3>1, <3>2
  <2>3. "client" \notin dDisturbed' =>
          dRecorded'["client"] + Payout!Pending("client", "tax")' + Payout!Pending("client", "payout")'
            = dPaid'["client"]
    <3>1. CASE o = "client"
      BY <1>r, <1>o, <1>2, <1>4, <1>p, <3>1 DEF Payout!Pending
    <3>2. CASE o # "client"
      <4>1. /\ Payout!Pending("client", "tax")' = 0 /\ Payout!Pending("client", "payout")' = 0
            /\ Payout!Pending("client", "tax") = 0 /\ Payout!Pending("client", "payout") = 0
        BY <1>r, <1>2, <1>4, <3>2 DEF Payout!Pending
      <4>2. "client" \in Payout!Payees
        BY DEF Payout!Payees, Payout!Owners
      <4> QED BY <1>t, <1>r, <1>2, <1>p, <3>2, <4>1, <4>2 DEF Payout!PaidOnce
    <3> QED BY <3>1, <3>2
  <2> QED BY <2>1, <2>2, <2>3 DEF Payout!PaidOnce
<1> QED BY <1>5, <1>6, <1>7, <1>8, <1>9 DEF DividendInv

LEMMA TaxRecorded ==
  ASSUME DividendInv, Payout!RecordTax
  PROVE  DividendInv'
<1> DEFINE p == run.payee
<1>t. Payout!DividendTypeOK /\ PayoutMatches /\ PartsMatch /\ Within /\ Payout!PaidOnce
  BY DEF DividendInv
<1>r. /\ run.at = "tax" /\ run.owners \subseteq Payout!Owners /\ run.todo \subseteq Pair
      /\ run = [at |-> run.at, payee |-> p, owners |-> run.owners, todo |-> run.todo,
                units |-> run.units]
      /\ \A i \in Pair : i # "client" /\ i # "bank" /\ i # "fund" /\ i # "none"
      /\ dDisturbed \subseteq Payout!Payees
      /\ dPaid \in [Payout!Payees -> Nat] /\ taxed \in [Payout!Payees -> Nat]
      /\ Pair \subseteq Payout!Payees /\ Payout!Owners \subseteq Payout!Payees
      /\ Payout!Owners = {"client", "bank", "fund"}
  BY <1>t, DividendTypes DEF Payout!RecordTax, Payout!Owners, Payout!Payees
<1>o. /\ p \in Payout!Payees /\ p \in Pair \cup ({"client"} \ run.owners)
      /\ dPaid[p] = 1 /\ taxed[p] = 0
      /\ p = "client" => dRecorded["client"] = 0
  BY <1>t, <1>r DEF PayoutMatches
<1>1. \E a \in {"payout", "clients"}, n \in {0, 1} :
        /\ run' = [at |-> a, payee |-> p, owners |-> run.owners, todo |-> run.todo,
                   units |-> run.units]
        /\ a = "payout" <=> p = "client"
        /\ taxed' = [taxed EXCEPT ![p] = n]
        /\ dDisturbed' = IF n = 1 THEN dDisturbed ELSE dDisturbed \cup {p}
        /\ UNCHANGED <<dUnits, dPaid, dRecorded, dSpent, given, purchase, strayed>>
  <2>1. run' = [at |-> Payout!AfterTax(p), payee |-> p, owners |-> run.owners,
                todo |-> run.todo, units |-> run.units]
    BY <1>r DEF Payout!RecordTax, Payout!Go
  <2>2. Payout!Once(taxed, p) = [taxed EXCEPT ![p] = 1] /\ taxed = [taxed EXCEPT ![p] = 0]
    BY <1>r, <1>o DEF Payout!Once
  <2>3. /\ Payout!AfterTax(p) \in {"payout", "clients"}
        /\ Payout!AfterTax(p) = "payout" <=> p = "client"
    BY DEF Payout!AfterTax
  <2>4. CASE taxed' = Payout!Once(taxed, p) /\ UNCHANGED dDisturbed
    BY <2>1, <2>2, <2>3, <2>4 DEF Payout!RecordTax
  <2>5. CASE Payout!Disturb(p) /\ UNCHANGED taxed
    BY <2>1, <2>2, <2>3, <2>5 DEF Payout!RecordTax, Payout!Disturb
  <2> QED BY <2>4, <2>5 DEF Payout!RecordTax, p
<1> HIDE DEF p
<1>2. PICK a \in {"payout", "clients"}, n \in {0, 1} : <1>1!(a, n)
  BY <1>1
<1>4. /\ run'.at = a /\ run'.payee = p /\ run'.owners = run.owners /\ run'.todo = run.todo
      /\ run'.units = run.units
      /\ run' \in [at : {"new", "owner", "tax", "payout", "reinvest", "positions", "clients", "end"},
                   payee : Payout!Payees \cup {"none"}, owners : SUBSET Payout!Owners,
                   todo : SUBSET Pair, units : [Pair -> 0 .. MaxShares]]
      /\ Shares' = Shares /\ \A S : UnitsOf(S)' = UnitsOf(S)
  BY <1>o, <1>2, GoKeepsTypes
<1>p. /\ taxed' \in [Payout!Payees -> Nat] /\ taxed'[p] = n
      /\ \A x \in Payout!Payees : x # p => taxed'[x] = taxed[x]
      /\ run.payee = p
  BY <1>r, <1>o, <1>2 DEF p
<1>5. Payout!DividendTypeOK'
  BY <1>t, <1>r, <1>o, <1>2, <1>4, <1>p DEF Payout!DividendTypeOK
<1>w. WithClients' <=> WithClients
  BY <1>r, <1>o, <1>2, <1>4, <1>p DEF WithClients
<1>6. PayoutMatches'
  <2>2. \A x \in run.owners : Unpaid(x)' /\ dRecorded'[x] = 0
    BY <1>t, <1>r, <1>o, <1>2, <1>p DEF PayoutMatches, Unpaid
  <2>3. ASSUME "fund" \in run.owners \/ dPaid["fund"] = 0 PROVE NotSpent'
    <3>1. NotSpent
      BY <1>t, <2>3 DEF PayoutMatches
    <3>2. p \notin Pair
      BY <1>o, <3>1 DEF NotSpent, Unpaid
    <3> QED BY <1>r, <1>2, <1>p, <3>1, <3>2 DEF NotSpent, Unpaid
  <2>4. WithClients => "fund" \notin run.owners /\ dPaid["fund"] = 1
    BY <1>t DEF PayoutMatches
  <2>5. a = "payout" => p \in Payout!Owners \ run.owners /\ dRecorded'[p] = 0 /\ p # "fund"
    BY <1>r, <1>o, <1>2
  <2>6. a # "tax" /\ a # "reinvest" /\ a # "positions"
    OBVIOUS
  <2> QED BY <1>2, <1>4, <1>w, <2>2, <2>3, <2>4, <2>5, <2>6 DEF PayoutMatches
<1>7. PartsMatch'
  <2> SUFFICES ASSUME WithClients PROVE
        /\ \A i \in run.todo : run.units[i] > 0 /\ Unpaid(i)'
        /\ given * Shares + Passed * UnitsOf(run.todo) <= Passed * Shares
    BY <1>2, <1>4, <1>w DEF PartsMatch, Passed
  <2>1. /\ \A i \in run.todo : run.units[i] > 0 /\ Unpaid(i)
        /\ given * Shares + Passed * UnitsOf(run.todo) <= Passed * Shares
    BY <1>t DEF PartsMatch
  <2>2. \A i \in run.todo : i # p /\ i \in Payout!Payees
    BY <1>r, <1>o, <2>1 DEF Unpaid
  <2> QED BY <1>2, <1>p, <2>1, <2>2 DEF Unpaid
<1>8. Within'
  BY <1>t, <1>2 DEF Within, Bought, Passed
<1>9. Payout!PaidOnce'
  <2>1. ASSUME NEW x \in Payout!Payees PROVE dPaid'[x] <= 1 /\ taxed'[x] <= dPaid'[x]
    BY <1>t, <1>o, <1>2, <1>p DEF Payout!PaidOnce
  <2>2. ASSUME NEW x \in Payout!Payees \ (dDisturbed' \cup {"bank", "fund"})
        PROVE  taxed'[x] + Payout!Pending(x, "tax")' = dPaid'[x]
    <3>1. Payout!Pending(x, "tax")' = 0
      BY <1>4, <1>2 DEF Payout!Pending
    <3>2. CASE x = p
      BY <1>o, <1>2, <1>p, <2>2, <3>1, <3>2
    <3>3. CASE x # p
      <4>1. Payout!Pending(x, "tax") = 0
        BY <1>p, <3>3 DEF Payout!Pending
      <4> QED BY <1>t, <1>2, <1>p, <2>2, <3>1, <3>3, <4>1 DEF Payout!PaidOnce
    <3> QED BY <3>2, <3>3
  <2>3. ASSUME "client" \notin dDisturbed'
        PROVE  dRecorded'["client"] + Payout!Pending("client", "tax")'
                 + Payout!Pending("client", "payout")' = dPaid'["client"]
    <3>1. dRecorded["client"] + Payout!Pending("client", "tax") + Payout!Pending("client", "payout")
            = dPaid["client"]
      BY <1>t, <1>2, <2>3 DEF Payout!PaidOnce
    <3>2. CASE p = "client"
      BY <1>r, <1>o, <1>2, <1>4, <1>p, <3>1, <3>2 DEF Payout!Pending
    <3>3. CASE p # "client"
      BY <1>r, <1>o, <1>2, <1>4, <1>p, <3>1, <3>3 DEF Payout!Pending
    <3> QED BY <3>2, <3>3
  <2> QED BY <2>1, <2>2, <2>3 DEF Payout!PaidOnce
<1> QED BY <1>5, <1>6, <1>7, <1>8, <1>9 DEF DividendInv

LEMMA PayoutSaved ==
  ASSUME DividendInv, Payout!SavePayout
  PROVE  DividendInv'
<1> DEFINE p == run.payee
<1>t. Payout!DividendTypeOK /\ PayoutMatches /\ PartsMatch /\ Within /\ Payout!PaidOnce
  BY DEF DividendInv
<1>r. /\ run.at = "payout" /\ run.owners \subseteq Payout!Owners /\ run.todo \subseteq Pair
      /\ run = [at |-> run.at, payee |-> p, owners |-> run.owners, todo |-> run.todo,
                units |-> run.units]
      /\ \A i \in Pair : i # "client" /\ i # "bank" /\ i # "fund" /\ i # "none"
      /\ dDisturbed \subseteq Payout!Payees
      /\ dRecorded \in [Payout!Owners -> Nat]
      /\ Pair \subseteq Payout!Payees /\ Payout!Owners \subseteq Payout!Payees
      /\ Payout!Owners = {"client", "bank", "fund"}
  BY <1>t, DividendTypes DEF Payout!SavePayout, Payout!Owners, Payout!Payees
<1>o. /\ p \in Payout!Owners /\ p \notin run.owners /\ dRecorded[p] = 0
      /\ p = "fund" => dPaid["fund"] = 1 /\ NotSpent
  BY <1>t, <1>r DEF PayoutMatches
<1>1. \E a \in {"owner", "reinvest"}, n \in {0, 1} :
        /\ run' = [at |-> a, payee |-> p, owners |-> run.owners, todo |-> run.todo,
                   units |-> run.units]
        /\ a = "reinvest" <=> p = "fund"
        /\ dRecorded' = [dRecorded EXCEPT ![p] = n]
        /\ dDisturbed' = IF n = 1 THEN dDisturbed ELSE dDisturbed \cup {p}
        /\ UNCHANGED <<dUnits, dPaid, taxed, dSpent, given, purchase, strayed>>
  <2>1. run' = [at |-> IF p = "fund" THEN "reinvest" ELSE "owner", payee |-> p,
                owners |-> run.owners, todo |-> run.todo, units |-> run.units]
    BY <1>r DEF Payout!SavePayout, Payout!Go
  <2>2. /\ Payout!Once(dRecorded, p) = [dRecorded EXCEPT ![p] = 1]
        /\ dRecorded = [dRecorded EXCEPT ![p] = 0]
    BY <1>r, <1>o DEF Payout!Once
  <2>4. CASE dRecorded' = Payout!Once(dRecorded, p) /\ UNCHANGED dDisturbed
    BY <2>1, <2>2, <2>4 DEF Payout!SavePayout
  <2>5. CASE Payout!Disturb(p) /\ UNCHANGED dRecorded
    BY <2>1, <2>2, <2>5 DEF Payout!SavePayout, Payout!Disturb
  <2> QED BY <2>4, <2>5 DEF Payout!SavePayout, p
<1> HIDE DEF p
<1>2. PICK a \in {"owner", "reinvest"}, n \in {0, 1} : <1>1!(a, n)
  BY <1>1
<1>4. /\ run'.at = a /\ run'.payee = p /\ run'.owners = run.owners
      /\ run' \in [at : {"new", "owner", "tax", "payout", "reinvest", "positions", "clients", "end"},
                   payee : Payout!Payees \cup {"none"}, owners : SUBSET Payout!Owners,
                   todo : SUBSET Pair, units : [Pair -> 0 .. MaxShares]]
  BY <1>r, <1>o, <1>2, GoKeepsTypes
<1>p. /\ dRecorded' \in [Payout!Owners -> Nat] /\ dRecorded'[p] = n
      /\ \A x \in Payout!Owners : x # p => dRecorded'[x] = dRecorded[x]
      /\ run.payee = p
  BY <1>r, <1>o, <1>2 DEF p
<1>5. Payout!DividendTypeOK'
  BY <1>t, <1>r, <1>o, <1>2, <1>4, <1>p DEF Payout!DividendTypeOK
<1>6. PayoutMatches'
  <2>1. ~ WithClients'
    BY <1>2, <1>4 DEF WithClients
  <2>2. \A x \in run.owners : Unpaid(x)' /\ dRecorded'[x] = 0
    BY <1>t, <1>r, <1>o, <1>2, <1>p DEF PayoutMatches, Unpaid
  <2>3. NotSpent => NotSpent'
    BY <1>2 DEF NotSpent, Unpaid
  <2>4. "fund" \in run.owners \/ dPaid'["fund"] = 0 => NotSpent'
    BY <1>t, <1>2, <2>3 DEF PayoutMatches
  <2>5. a = "reinvest" => "fund" \notin run.owners /\ dPaid'["fund"] = 1 /\ NotSpent'
    BY <1>o, <1>2, <2>3
  <2> QED BY <1>2, <1>4, <2>1, <2>2, <2>4, <2>5 DEF PayoutMatches
<1>7. PartsMatch'
  BY <1>2, <1>4 DEF PartsMatch, WithClients
<1>8. Within'
  BY <1>t, <1>2 DEF Within, Bought, Passed
<1>9. Payout!PaidOnce'
  <2>1. ASSUME NEW x \in Payout!Payees \ (dDisturbed' \cup {"bank", "fund"})
        PROVE  taxed'[x] + Payout!Pending(x, "tax")' = dPaid'[x]
    <3>1. Payout!Pending(x, "tax")' = 0 /\ Payout!Pending(x, "tax") = 0
      BY <1>r, <1>4, <1>2 DEF Payout!Pending
    <3> QED BY <1>t, <1>2, <2>1, <3>1 DEF Payout!PaidOnce
  <2>3. ASSUME "client" \notin dDisturbed'
        PROVE  dRecorded'["client"] + Payout!Pending("client", "tax")'
                 + Payout!Pending("client", "payout")' = dPaid'["client"]
    <3>1. dRecorded["client"] + Payout!Pending("client", "tax") + Payout!Pending("client", "payout")
            = dPaid["client"]
      BY <1>t, <1>2, <2>3 DEF Payout!PaidOnce
    <3>2. CASE p = "client"
      BY <1>r, <1>o, <1>2, <1>4, <1>p, <2>3, <3>1, <3>2 DEF Payout!Pending
    <3>3. CASE p # "client"
      BY <1>r, <1>o, <1>2, <1>4, <1>p, <3>1, <3>3 DEF Payout!Pending
    <3> QED BY <3>2, <3>3
  <2> QED BY <1>t, <1>2, <2>1, <2>3 DEF Payout!PaidOnce
<1> QED BY <1>5, <1>6, <1>7, <1>8, <1>9 DEF DividendInv

\* What the shares cost that the part to reinvest buys.
LEMMA QuantityAffordable ==
  ASSUME NEW q \in Nat, NEW x \in Nat \ {0}
  PROVE  q \div x \in Nat /\ (q \div x) * x <= q
OBVIOUS

LEMMA FundReinvested ==
  ASSUME DividendInv, Payout!Reinvest
  PROVE  DividendInv'
<1>t. Payout!DividendTypeOK /\ PayoutMatches /\ PartsMatch /\ Within /\ Payout!PaidOnce
  BY DEF DividendInv
<1>r. /\ run.at = "reinvest" /\ run.owners \subseteq Payout!Owners /\ run.todo \subseteq Pair
      /\ run = [at |-> run.at, payee |-> run.payee, owners |-> run.owners, todo |-> run.todo,
                units |-> run.units]
      /\ "fund" \in Payout!Payees
      /\ Reinvested \in Nat /\ Passed \in Nat
      /\ Price \in Nat \ {0} /\ QuotePrice \in Nat \ {0}
  BY <1>t, DividendTypes DEF Payout!Reinvest, Payout!Owners, Payout!Payees
<1>o. /\ "fund" \notin run.owners /\ dPaid["fund"] = 1 /\ NotSpent
  BY <1>t, <1>r DEF PayoutMatches
<1>1. /\ run' = [at |-> "positions", payee |-> "fund", owners |-> run.owners, todo |-> run.todo,
                 units |-> run.units]
      /\ UNCHANGED <<dUnits, dPaid, taxed, dRecorded, dSpent, given, dDisturbed>>
  BY <1>r DEF Payout!Reinvest, Payout!Go
<1>2. /\ purchase' \in [status : {"none", "pending", "approved", "ended"}, quantity : Nat, filled : Nat]
      /\ purchase'.filled = 0
      /\ "misquoted" \notin strayed' => purchase'.quantity * Price <= Reinvested
      /\ strayed' \subseteq {"misquoted", "dearer", "repeated"}
  <2>1. ASSUME NEW status \in {"pending", "approved"}, Payout!Place(status, Payout!Quantity(Price)),
               UNCHANGED strayed
        PROVE  <1>2
    <3>1. Payout!Quantity(Price) \in Nat /\ Payout!Quantity(Price) * Price <= Reinvested
      BY <1>r, QuantityAffordable DEF Payout!Quantity
    <3> QED BY <1>t, <2>1, <3>1 DEF Payout!Place, Payout!DividendTypeOK
  <2>2. ASSUME NEW status \in {"pending", "approved"},
               Payout!Place(status, Payout!Quantity(QuotePrice)), strayed' = {"misquoted"}
        PROVE  <1>2
    <3>1. Payout!Quantity(QuotePrice) \in Nat
      BY <1>r, QuantityAffordable DEF Payout!Quantity
    <3> QED BY <2>2, <3>1 DEF Payout!Place
  <2>3. CASE UNCHANGED <<purchase, strayed>>
    <3>1. purchase' = [status |-> "none", quantity |-> 0, filled |-> 0] /\ 0 * Price = 0
      BY <1>r, <1>o, <2>3 DEF NotSpent, Payout!NoPurchase
    <3> QED BY <1>t, <1>r, <2>3, <3>1 DEF Payout!DividendTypeOK
  <2> QED BY <2>1, <2>2, <2>3 DEF Payout!Reinvest
<1>4. /\ run'.at = "positions" /\ run'.payee = "fund" /\ run'.owners = run.owners
      /\ run' \in [at : {"new", "owner", "tax", "payout", "reinvest", "positions", "clients", "end"},
                   payee : Payout!Payees \cup {"none"}, owners : SUBSET Payout!Owners,
                   todo : SUBSET Pair, units : [Pair -> 0 .. MaxShares]]
  BY <1>r, <1>1, GoKeepsTypes
<1>5. Payout!DividendTypeOK'
  BY <1>t, <1>1, <1>2, <1>4 DEF Payout!DividendTypeOK
<1>6. PayoutMatches'
  <2>1. ~ WithClients'
    BY <1>4 DEF WithClients
  <2>2. \A x \in run.owners : Unpaid(x)' /\ dRecorded'[x] = 0
    BY <1>t, <1>1 DEF PayoutMatches, Unpaid
  <2>3. given' = 0 /\ \A i \in Pair : Unpaid(i)'
    BY <1>o, <1>1 DEF NotSpent, Unpaid
  <2> QED BY <1>o, <1>1, <1>4, <2>1, <2>2, <2>3 DEF PayoutMatches
<1>7. PartsMatch'
  BY <1>4 DEF PartsMatch, WithClients
<1>8. Within'
  <2>1. dSpent' = 0 /\ given' = given
    BY <1>o, <1>1 DEF NotSpent
  <2>2. \A ask \in AskPrices : 0 * ask = 0
    BY AsksTyped
  <2>3. 0 * Price = 0 /\ purchase'.quantity >= 0
    BY <1>r, <1>2
  <2>4. \E ask \in AskPrices : dSpent' <= purchase'.filled * ask
    <3>1. PICK ask \in AskPrices : 0 * ask = 0
      BY <2>2, AsksTyped
    <3>2. dSpent' <= purchase'.filled * ask
      BY <1>2, <2>1, <3>1
    <3> QED BY <3>2
  <2> QED BY <1>t, <1>2, <2>1, <2>3, <2>4 DEF Within, Bought, Passed
<1>9. Payout!PaidOnce'
  <2>1. ASSUME NEW x \in Payout!Payees
        PROVE  /\ Payout!Pending(x, "tax")' = 0 /\ Payout!Pending(x, "tax") = 0
               /\ Payout!Pending(x, "payout")' = 0 /\ Payout!Pending(x, "payout") = 0
    BY <1>r, <1>4 DEF Payout!Pending
  <2>2. "client" \in Payout!Payees
    BY DEF Payout!Payees, Payout!Owners
  <2> QED BY <1>t, <1>1, <2>1, <2>2 DEF Payout!PaidOnce
<1> QED BY <1>5, <1>6, <1>7, <1>8, <1>9 DEF DividendInv

\* The order changes, and the run does not.
LEMMA PurchaseChanges ==
  ASSUME DividendInv, ~ NotSpent, (Payout!DividendTypeOK /\ Bought)',
         UNCHANGED <<dUnits, run, dPaid, taxed, dRecorded, given, dDisturbed>>
  PROVE  DividendInv'
<1>1. PartsMatch'
  BY DEF DividendInv, PartsMatch, WithClients, Unpaid, Shares, UnitsOf, Passed
<1>2. Within'
  BY DEF DividendInv, Within, Passed
<1>3. PayoutMatches'
  <2>1. ~ ("fund" \in run.owners \/ dPaid["fund"] = 0)
        /\ ~ (run.at = "reinvest" \/ (run.at = "payout" /\ run.payee = "fund"))
    BY DEF DividendInv, PayoutMatches
  <2> QED BY <2>1 DEF DividendInv, PayoutMatches, WithClients, Unpaid
<1>4. Payout!PaidOnce'
  BY DEF DividendInv, Payout!PaidOnce, Payout!Pending
<1> QED BY <1>1, <1>2, <1>3, <1>4 DEF DividendInv

LEMMA PurchaseEnds ==
  ASSUME DividendInv, Payout!EndPurchase
  PROVE  DividendInv'
<1>t. Payout!DividendTypeOK /\ Bought
  BY DEF DividendInv, Within
<1>r. /\ purchase.status \in {"none", "pending", "approved", "ended"}
      /\ purchase.quantity \in Nat /\ purchase.filled \in Nat
      /\ purchase = [status |-> purchase.status, quantity |-> purchase.quantity,
                     filled |-> purchase.filled]
      /\ Price \in Nat \ {0} /\ Reinvested \in Nat
  BY <1>t, DividendTypes
<1>1. UNCHANGED <<dUnits, run, dPaid, taxed, dRecorded, dSpent, given, dDisturbed, strayed>>
  BY DEF Payout!EndPurchase, Payout!dividendHistory
<1>2. ~ NotSpent
  BY DEF Payout!EndPurchase, NotSpent, Payout!NoPurchase
<1>3. CASE purchase' = Payout!NoPurchase
  <2>1. dSpent = 0
    BY <1>t, <1>r, <1>3 DEF Payout!EndPurchase, Payout!NoPurchase, Bought
  <2>2. \E ask \in AskPrices : 0 * ask = 0
    BY AsksTyped
  <2>3. 0 * Price = 0
    BY <1>r
  <2>4. (Payout!DividendTypeOK /\ Bought)'
    BY <1>t, <1>r, <1>1, <1>3, <2>1, <2>2, <2>3 DEF Payout!DividendTypeOK, Bought, Payout!NoPurchase
  <2> QED BY <1>1, <1>2, <2>4, PurchaseChanges
<1>4. CASE \E status \in {"approved", "ended"} :
             purchase' = [status |-> status, quantity |-> purchase.quantity,
                          filled |-> purchase.filled]
  <2>1. (Payout!DividendTypeOK /\ Bought)'
    BY <1>t, <1>r, <1>1, <1>4 DEF Payout!DividendTypeOK, Bought
  <2> QED BY <1>1, <1>2, <2>1, PurchaseChanges
<1> QED BY <1>r, <1>3, <1>4 DEF Payout!EndPurchase

\* The dearest of the asks paid so far bounds each of them.
LEMMA DearestAsk ==
  ASSUME NEW s \in Nat, NEW f \in Nat, NEW n \in Nat, NEW a \in Nat, NEW b \in Nat, s <= f * a
  PROVE  \E m \in {a, b} : s + n * b <= (f + n) * m
<1>1. CASE a <= b
  <2>1. PICK d \in Nat : b = a + d
    BY <1>1
  <2>2. f * b = f * a + f * d /\ f * d \in Nat /\ f * a \in Nat
    BY <2>1
  <2>3. (f + n) * b = f * b + n * b /\ n * b \in Nat
    OBVIOUS
  <2>4. s + n * b <= (f + n) * b
    BY ONLY <2>2, <2>3, s \in Nat, s <= f * a
  <2> QED BY <2>4
<1>2. CASE b <= a
  <2>1. PICK d \in Nat : a = b + d
    BY <1>2
  <2>2. n * a = n * b + n * d /\ n * d \in Nat /\ n * b \in Nat /\ f * a \in Nat
    BY <2>1
  <2>3. (f + n) * a = f * a + n * a
    OBVIOUS
  <2>4. s + n * b <= (f + n) * a
    BY ONLY <2>2, <2>3, s \in Nat, s <= f * a
  <2> QED BY <2>4
<1> QED BY <1>1, <1>2

LEMMA PortionFilled ==
  ASSUME DividendInv, NEW n \in 1 .. purchase.quantity, NEW ask \in AskPrices,
         Payout!FillPortion(n, ask)
  PROVE  DividendInv'
<1>t. Payout!DividendTypeOK /\ Bought
  BY DEF DividendInv, Within
<1>r. /\ purchase.status \in {"none", "pending", "approved", "ended"}
      /\ purchase.quantity \in Nat /\ purchase.filled \in Nat
      /\ purchase = [status |-> purchase.status, quantity |-> purchase.quantity,
                     filled |-> purchase.filled]
      /\ Price \in Nat \ {0} /\ Reinvested \in Nat /\ dSpent \in Nat /\ ask \in Nat
      /\ n \in Nat /\ n <= purchase.quantity - purchase.filled
      /\ AskPrices \subseteq Nat
  <2>1. purchase.quantity \in Nat
    BY <1>t, DividendTypes
  <2>2. n \in Nat
    BY <2>1
  <2>3. n <= purchase.quantity - purchase.filled
    BY DEF Payout!FillPortion
  <2>4. AskPrices \subseteq Nat
    BY AsksTyped
  <2> QED BY <1>t, <2>2, <2>3, <2>4, DividendTypes
<1>1. /\ UNCHANGED <<dUnits, run, dPaid, taxed, dRecorded, given, dDisturbed>>
      /\ dSpent' = dSpent + n * ask /\ dSpent' \in Nat /\ purchase.status \in {"approved", "ended"}
  <2>1. n * ask \in Nat
    BY <1>r
  <2>2. /\ UNCHANGED <<dUnits, run, dPaid, taxed, dRecorded, given, dDisturbed>>
        /\ dSpent' = dSpent + n * ask /\ purchase.status \in {"approved", "ended"}
    BY DEF Payout!FillPortion
  <2> QED BY <1>r, <2>1, <2>2
<1>2. ~ NotSpent
  BY <1>1 DEF NotSpent, Payout!NoPurchase
<1>3. CASE /\ purchase.status = "approved"
           /\ purchase' = [purchase EXCEPT !.filled = @ + n]
           /\ strayed' = strayed \cup (IF ask > Price THEN {"dearer"} ELSE {})
  <2>1. purchase' = [status |-> "approved", quantity |-> purchase.quantity,
                     filled |-> purchase.filled + n]
    BY <1>r, <1>3
  <2>2. "repeated" \notin strayed' => \E m \in AskPrices : dSpent' <= (purchase.filled + n) * m
    <3> SUFFICES ASSUME "repeated" \notin strayed'
                 PROVE  \E m \in AskPrices : dSpent' <= (purchase.filled + n) * m
      OBVIOUS
    <3>1. PICK a \in AskPrices : dSpent <= purchase.filled * a
      BY <1>t, <1>3 DEF Bought
    <3>2. \E m \in {a, ask} : dSpent + n * ask <= (purchase.filled + n) * m
      BY <1>r, <3>1, DearestAsk
    <3> QED BY <1>1, <3>2
  <2>3. strayed' \cap {"dearer", "repeated"} = {} => dSpent' <= (purchase.filled + n) * Price
    <3> SUFFICES ASSUME strayed' \cap {"dearer", "repeated"} = {}
                 PROVE  dSpent' <= (purchase.filled + n) * Price
      OBVIOUS
    <3>a. ~ (ask > Price) /\ strayed \cap {"dearer", "repeated"} = {}
      BY <1>3
    <3>1. ask <= Price /\ dSpent <= purchase.filled * Price
      BY <1>t, <1>r, <3>a DEF Bought
    <3>0. Price - ask \in Nat /\ Price = ask + (Price - ask)
      BY <1>r, <3>1
    <3>2. PICK d \in Nat : Price = ask + d
      BY <3>0
    <3>3. n * Price = n * ask + n * d /\ n * d \in Nat /\ n * ask \in Nat
      BY <1>r, <3>2
    <3>4. (purchase.filled + n) * Price = purchase.filled * Price + n * Price
          /\ purchase.filled * Price \in Nat
      BY <1>r
    <3> QED BY <1>1, <1>r, <3>1, <3>3, <3>4
  <2>4. (Payout!DividendTypeOK /\ Bought)'
    <3>1. /\ purchase' \in [status : {"none", "pending", "approved", "ended"}, quantity : Nat, filled : Nat]
          /\ purchase'.quantity = purchase.quantity /\ purchase'.filled = purchase.filled + n
          /\ purchase'.status = "approved" /\ purchase.filled + n <= purchase.quantity
      BY <1>r, <2>1
    <3>2. strayed' \subseteq {"misquoted", "dearer", "repeated"} /\ strayed \subseteq strayed'
      BY <1>t, <1>3 DEF Payout!DividendTypeOK
    <3>3. Payout!DividendTypeOK'
      BY <1>t, <1>1, <3>1, <3>2 DEF Payout!DividendTypeOK
    <3>4. Bought'
      BY <1>t, <2>2, <2>3, <3>1, <3>2 DEF Bought
    <3> QED BY <3>3, <3>4
  <2> QED BY <1>1, <1>2, <2>4, PurchaseChanges
<1>4. ASSUME NEW status \in {"approved", "ended"}, NEW count \in 0 .. purchase.quantity,
             purchase' = [purchase EXCEPT !.status = status, !.filled = count],
             strayed' = strayed \cup {"repeated"}
      PROVE  DividendInv'
  <2>1. purchase' = [status |-> status, quantity |-> purchase.quantity, filled |-> count]
    BY <1>r, <1>4
  <2>2. count \in Nat /\ count <= purchase.quantity
    BY <1>r
  <2>3. Payout!DividendTypeOK'
    BY <1>t, <1>r, <1>1, <1>4, <2>1, <2>2 DEF Payout!DividendTypeOK
  <2>4. Bought'
    BY <1>t, <1>4, <2>1, <2>2 DEF Bought
  <2> QED BY <1>1, <1>2, <2>3, <2>4, PurchaseChanges
<1> QED BY <1>3, <1>4 DEF Payout!FillPortion

LEMMA ClientsFound ==
  ASSUME DividendInv, Payout!FindByFund
  PROVE  DividendInv'
<1>t. Payout!DividendTypeOK /\ PayoutMatches /\ PartsMatch /\ Within /\ Payout!PaidOnce
  BY DEF DividendInv
<1>r. /\ run.at = "positions" /\ run.owners \subseteq Payout!Owners
      /\ run.payee \in Payout!Payees \cup {"none"}
      /\ run = [at |-> run.at, payee |-> run.payee, owners |-> run.owners, todo |-> run.todo,
                units |-> run.units]
      /\ dUnits \in [Pair -> 0 .. MaxShares] /\ Passed \in Nat /\ given \in Nat /\ MaxShares \in Nat
      /\ IsFiniteSet(Pair)
  BY <1>t, DividendTypes DEF Payout!FindByFund
<1>o. /\ "fund" \notin run.owners /\ dPaid["fund"] = 1
      /\ given = 0 /\ \A i \in Pair : Unpaid(i)
  BY <1>t, <1>r DEF PayoutMatches
<1>1. PICK found \in {{}, {i \in Pair : dUnits[i] > 0}} :
        run' = [at |-> "clients", payee |-> run.payee, owners |-> run.owners, todo |-> found,
                units |-> dUnits]
  BY <1>r DEF Payout!FindByFund
<1>2. UNCHANGED <<dUnits, dPaid, taxed, dRecorded, dSpent, given, dDisturbed, purchase, strayed>>
  BY DEF Payout!FindByFund, Payout!dividendHistory
<1>3. found \subseteq Pair /\ \A i \in found : dUnits[i] > 0
  OBVIOUS
<1>4. /\ run'.at = "clients" /\ run'.payee = run.payee /\ run'.owners = run.owners
      /\ run'.todo = found /\ run'.units = dUnits
      /\ run' \in [at : {"new", "owner", "tax", "payout", "reinvest", "positions", "clients", "end"},
                   payee : Payout!Payees \cup {"none"}, owners : SUBSET Payout!Owners,
                   todo : SUBSET Pair, units : [Pair -> 0 .. MaxShares]]
  BY <1>r, <1>1, <1>3
<1>5. Payout!DividendTypeOK'
  BY <1>t, <1>2, <1>4 DEF Payout!DividendTypeOK
<1>6. PayoutMatches'
  <2>1. \A x \in run.owners : Unpaid(x)' /\ dRecorded'[x] = 0
    BY <1>t, <1>2 DEF PayoutMatches, Unpaid
  <2> QED BY <1>o, <1>2, <1>4, <2>1 DEF PayoutMatches
<1>7. PartsMatch'
  <2> DEFINE part == [i \in Pair |-> IF i \in found THEN dUnits[i] ELSE 0]
  <2>1. /\ dUnits \in [Pair -> Int] /\ part \in [Pair -> Int]
        /\ \A i \in Pair : part[i] \in Int /\ part[i] >= 0 /\ dUnits[i] >= 0
        /\ \A i \in Pair : dUnits[i] \in Int
    BY <1>r
  <2>2. found = {} => \A i \in Pair : part[i] = 0
    OBVIOUS
  <2>3. found # {} => \A i \in Pair : part[i] = dUnits[i]
    BY <1>r
  <2>4. Shares' = SumFunctionOnSet(dUnits, Pair) /\ UnitsOf(found)' = SumFunctionOnSet(part, Pair)
    BY <1>4 DEF Shares, UnitsOf
  <2> HIDE DEF part
  <2>5. Pair \in SUBSET Pair
    OBVIOUS
  <2>6. /\ SumFunctionOnSet(dUnits, Pair) \in Int /\ SumFunctionOnSet(dUnits, Pair) >= 0
        /\ SumFunctionOnSet(part, Pair) \in Int
    BY <1>r, <2>1, <2>5, SumType, SumNotNegative
  <2>7. SumFunctionOnSet(part, Pair) \in {0, SumFunctionOnSet(dUnits, Pair)}
    <3>1. CASE found = {}
      BY <1>r, <2>1, <2>2, <2>5, <3>1, SumOfZeros
    <3>2. CASE found # {}
      BY <1>r, <2>1, <2>3, <2>5, <3>2, SumCongruent
    <3> QED BY <3>1, <3>2
  <2>8. Shares' \in Nat /\ UnitsOf(found)' \in {0, Shares'}
    BY <2>4, <2>6, <2>7
  <2>9. given' * Shares' + Passed * UnitsOf(found)' <= Passed * Shares'
    <3>1. given' = 0
      BY <1>o, <1>2
    <3>2. Passed * 0 = 0 /\ Passed * Shares' \in Nat
      BY <1>r, <2>8
    <3> QED BY <2>8, <3>1, <3>2
  <2>10. \A i \in found : run'.units[i] > 0 /\ Unpaid(i)'
    BY <1>o, <1>2, <1>3, <1>4 DEF Unpaid
  <2> QED BY <1>4, <2>9, <2>10 DEF PartsMatch, Passed
<1>8. Within'
  BY <1>t, <1>2 DEF Within, Bought, Passed
<1>9. Payout!PaidOnce'
  <2>1. ASSUME NEW x \in Payout!Payees
        PROVE  /\ Payout!Pending(x, "tax")' = 0 /\ Payout!Pending(x, "tax") = 0
               /\ Payout!Pending(x, "payout")' = 0 /\ Payout!Pending(x, "payout") = 0
    BY <1>r, <1>4 DEF Payout!Pending
  <2>3. "client" \in Payout!Payees
    BY DEF Payout!Payees, Payout!Owners
  <2> QED BY <1>t, <1>2, <2>1, <2>3 DEF Payout!PaidOnce
<1> QED BY <1>5, <1>6, <1>7, <1>8, <1>9 DEF DividendInv

LEMMA UnitsChanged ==
  ASSUME DividendInv, NEW i \in Pair, NEW n \in 0 .. MaxShares, Payout!ChangeUnits(i, n)
  PROVE  DividendInv'
<1>1. UNCHANGED <<run, dPaid, taxed, dRecorded, dSpent, given, dDisturbed, purchase, strayed>>
  BY DEF Payout!ChangeUnits, Payout!dividendHistory
<1>2. dUnits' \in [Pair -> 0 .. MaxShares]
  BY DividendTypes DEF DividendInv, Payout!ChangeUnits
<1>3. Payout!DividendTypeOK'
  BY <1>1, <1>2 DEF DividendInv, Payout!DividendTypeOK
<1>4. PayoutMatches' /\ PartsMatch' /\ Within'
  BY <1>1 DEF DividendInv, PayoutMatches, PartsMatch, Within, Bought, WithClients, Unpaid, NotSpent,
     Passed, Shares, UnitsOf
<1>5. Payout!PaidOnce'
  BY <1>1 DEF DividendInv, Payout!PaidOnce, Payout!Pending
<1> QED BY <1>3, <1>4, <1>5 DEF DividendInv

LEMMA DividendsRest ==
  ASSUME DividendInv, UNCHANGED payoutVars
  PROVE  DividendInv'
BY DEF DividendInv, Payout!DividendTypeOK, PayoutMatches, PartsMatch, Within, Bought, WithClients, Unpaid,
   NotSpent, Passed, Shares, UnitsOf, Payout!PaidOnce, Payout!Pending, payoutVars

LEMMA ClientPaid ==
  ASSUME DividendInv, NEW i \in Pair, Payout!PayFundClient(i)
  PROVE  DividendInv'
<1> DEFINE share == (run.units[i] * Passed) \div Shares
<1>t. Payout!DividendTypeOK /\ PayoutMatches /\ PartsMatch /\ Within /\ Payout!PaidOnce
  BY DEF DividendInv
<1>r. /\ run.at = "clients" /\ i \in run.todo
      /\ run.payee \in Payout!Payees \cup {"none"} /\ run.owners \subseteq Payout!Owners
      /\ run.todo \subseteq Pair
      /\ run = [at |-> run.at, payee |-> run.payee, owners |-> run.owners, todo |-> run.todo,
                units |-> run.units]
      /\ \A j \in Pair : j # "client" /\ j # "bank" /\ j # "fund" /\ j # "none"
      /\ dDisturbed \subseteq Payout!Payees
      /\ dPaid \in [Payout!Payees -> Nat] /\ taxed \in [Payout!Payees -> Nat]
      /\ Pair \subseteq Payout!Payees /\ Payout!Owners \subseteq Payout!Payees
      /\ Payout!Owners = {"client", "bank", "fund"}
      /\ Inflow \in Nat /\ Reinvested \in Nat /\ Passed \in Nat /\ dSpent \in Nat /\ given \in Nat
  BY <1>t, DividendTypes DEF Payout!PayFundClient, Payout!Owners, Payout!Payees
<1>o. /\ Unpaid(i) /\ run.units[i] > 0
      /\ "fund" \notin run.owners /\ dPaid["fund"] = 1
  BY <1>t, <1>r DEF PayoutMatches, PartsMatch, WithClients
<1>u. /\ run.units[i] \in Nat /\ Shares \in Nat \ {0}
      /\ UnitsOf(run.todo) \in Nat /\ UnitsOf(run.todo \ {i}) \in Nat
      /\ UnitsOf(run.todo) = run.units[i] + UnitsOf(run.todo \ {i})
      /\ given * Shares + Passed * UnitsOf(run.todo) <= Passed * Shares
  <2>1. run.todo \in SUBSET Pair /\ run.todo \ {i} \in SUBSET Pair
    BY <1>r
  <2>2. /\ run.units[i] \in Nat /\ Shares \in Nat /\ run.units[i] <= Shares
    BY <1>t, UnitsTyped
  <2>3. UnitsOf(run.todo) \in Nat /\ UnitsOf(run.todo \ {i}) \in Nat
    BY <1>t, <2>1, UnitsTyped
  <2>4. UnitsOf(run.todo) = run.units[i] + UnitsOf(run.todo \ {i})
    BY <1>t, <1>r, <2>1, UnitsTyped
  <2>5. given * Shares + Passed * UnitsOf(run.todo) <= Passed * Shares
    BY <1>t, <1>r DEF PartsMatch, WithClients
  <2>6. Shares # 0
    BY <1>o, <2>2
  <2> QED BY <2>2, <2>3, <2>4, <2>5, <2>6
<1>s. Payout!Share(i) = share
  <2>1. Payout!SumFunctionOnSet(run.units, Pair) = Shares
    BY SameSum DEF Shares
  <2> QED BY <2>1 DEF Payout!Share, Passed
<1>v. /\ share \in Nat
      /\ (given + share) * Shares + Passed * UnitsOf(run.todo \ {i}) <= Passed * Shares
      /\ given + share <= Passed
  <2>1. share \in Nat
    <3>1. run.units[i] * Passed \in Nat
      BY <1>r, <1>u
    <3> QED BY <1>u, <3>1
  <2>2. share = (run.units[i] * Passed) \div Shares
    OBVIOUS
  <2> HIDE DEF share
  <2>3. /\ given \in Nat /\ run.units[i] \in Nat /\ UnitsOf(run.todo \ {i}) \in Nat
        /\ Passed \in Nat /\ Shares \in Nat \ {0}
        /\ given * Shares + Passed * (run.units[i] + UnitsOf(run.todo \ {i})) <= Passed * Shares
    BY <1>r, <1>u
  <2>4. PICK u \in Nat, v \in Nat, k \in Nat, t \in Nat \ {0}, g \in Nat, s \in Nat :
          /\ u = run.units[i] /\ v = UnitsOf(run.todo \ {i}) /\ k = Passed /\ t = Shares
          /\ g = given /\ s = share
    BY <2>1, <2>3, Zenon
  <2>5. s = (u * k) \div t /\ g * t + k * (u + v) <= k * t
    BY <2>2, <2>3, <2>4, Zenon
  <2>6. (g + s) * t + k * v <= k * t /\ g + s <= k
    BY <2>5, PartGiven
  <2> QED BY <2>1, <2>4, <2>6, Zenon
<1> HIDE DEF share
<1>1. \E a \in {"tax", "clients"}, p \in {i, run.payee}, n \in {0, 1} :
        /\ run' = [at |-> a, payee |-> p, owners |-> run.owners, todo |-> run.todo \ {i},
                   units |-> run.units]
        /\ a = "tax" => p = i /\ n = 1 /\ dDisturbed' = dDisturbed
        /\ a = "clients" => dDisturbed' = dDisturbed \cup {i}
        /\ dPaid' = [dPaid EXCEPT ![i] = n]
        /\ given' = IF n = 1 THEN given + share ELSE given
        /\ UNCHANGED <<dUnits, taxed, dRecorded, dSpent, purchase, strayed>>
  <2>1. Payout!Once(dPaid, i) = [dPaid EXCEPT ![i] = 1] /\ dPaid = [dPaid EXCEPT ![i] = 0]
    BY <1>r, <1>o DEF Payout!Once, Unpaid
  <2>2. UNCHANGED <<dUnits, taxed, dRecorded, dSpent, purchase, strayed>>
    BY DEF Payout!PayFundClient
  <2>3. CASE /\ dPaid' = Payout!Once(dPaid, i) /\ given' = given + Payout!Share(i)
             /\ run' = [run EXCEPT !.at = "tax", !.payee = i, !.todo = @ \ {i}]
             /\ UNCHANGED dDisturbed
    <3>1. run' = [at |-> "tax", payee |-> i, owners |-> run.owners, todo |-> run.todo \ {i},
                  units |-> run.units]
      BY <1>r, <2>3
    <3> QED BY <1>s, <2>1, <2>2, <2>3, <3>1
  <2>4. CASE /\ run' = [run EXCEPT !.todo = @ \ {i}] /\ Payout!Disturb(i)
             /\ \/ dPaid' = Payout!Once(dPaid, i) /\ given' = given + Payout!Share(i)
                \/ UNCHANGED <<dPaid, given>>
    <3>1. run' = [at |-> "clients", payee |-> run.payee, owners |-> run.owners,
                  todo |-> run.todo \ {i}, units |-> run.units]
      BY <1>r, <2>4
    <3>2. dDisturbed' = dDisturbed \cup {i}
      BY <2>4 DEF Payout!Disturb
    <3>3. CASE dPaid' = Payout!Once(dPaid, i) /\ given' = given + Payout!Share(i)
      BY <1>s, <2>1, <2>2, <3>1, <3>2, <3>3
    <3>4. CASE UNCHANGED <<dPaid, given>>
      <4>1. dPaid' = [dPaid EXCEPT ![i] = 0] /\ given' = given
        BY <2>1, <3>4
      <4> QED BY <2>2, <3>1, <3>2, <4>1
    <3> QED BY <2>4, <3>3, <3>4
  <2> QED BY <2>3, <2>4 DEF Payout!PayFundClient
<1>2. PICK a \in {"tax", "clients"}, p \in {i, run.payee}, n \in {0, 1} : <1>1!(a, p, n)
  BY <1>1
<1>4. /\ run'.at = a /\ run'.payee = p /\ run'.owners = run.owners /\ run'.todo = run.todo \ {i}
      /\ run'.units = run.units
      /\ run' \in [at : {"new", "owner", "tax", "payout", "reinvest", "positions", "clients", "end"},
                   payee : Payout!Payees \cup {"none"}, owners : SUBSET Payout!Owners,
                   todo : SUBSET Pair, units : [Pair -> 0 .. MaxShares]]
      /\ Shares' = Shares /\ \A S : UnitsOf(S)' = UnitsOf(S)
  <2>1. p \in Payout!Payees \cup {"none"} /\ run.todo \ {i} \in SUBSET run.todo
    BY <1>r
  <2> QED BY <1>2, <2>1, GoKeepsTypes
<1>p. /\ dPaid' \in [Payout!Payees -> Nat] /\ dPaid'[i] = n
      /\ \A x \in Payout!Payees : x # i => dPaid'[x] = dPaid[x]
      /\ given' \in Nat /\ given' <= Passed
  BY <1>t, <1>r, <1>2, <1>v DEF Within
<1>5. Payout!DividendTypeOK'
  <2>1. dDisturbed' \subseteq Payout!Payees /\ {dSpent', given'} \subseteq Nat
    BY <1>r, <1>2, <1>p
  <2> QED BY <1>t, <1>2, <1>4, <1>p, <2>1 DEF Payout!DividendTypeOK
<1>6. PayoutMatches'
  <2>1. "fund" # i
    BY <1>r
  <2>2. dPaid'["fund"] = 1
    BY <1>o, <1>r, <1>p, <2>1
  <2>3. \A x \in run.owners : Unpaid(x)' /\ dRecorded'[x] = 0
    BY <1>t, <1>r, <1>2, <1>p DEF PayoutMatches, Unpaid
  <2>4. a = "tax" => dPaid'[p] = 1 /\ taxed'[p] = 0 /\ p \in Pair /\ p # "client"
    BY <1>o, <1>r, <1>2, <1>p DEF Unpaid
  <2> QED BY <1>o, <1>2, <1>4, <2>2, <2>3, <2>4 DEF PayoutMatches
<1>7. PartsMatch'
  <2>1. \A j \in run.todo \ {i} : run.units[j] > 0 /\ Unpaid(j)'
    <3>1. \A j \in run.todo : run.units[j] > 0 /\ Unpaid(j)
      BY <1>t, <1>r DEF PartsMatch, WithClients
    <3> QED BY <1>r, <1>2, <1>p, <3>1 DEF Unpaid
  <2>2. given' * Shares + Passed * UnitsOf(run.todo \ {i}) <= Passed * Shares
    <3>1. CASE n = 1
      BY <1>2, <1>v, <3>1
    <3>2. CASE n = 0
      <4>1. given' = given
        BY <1>2, <3>2
      <4>2. Passed * (run.units[i] + UnitsOf(run.todo \ {i}))
              = Passed * run.units[i] + Passed * UnitsOf(run.todo \ {i})
        BY <1>r, <1>u
      <4>3. /\ Passed * run.units[i] \in Nat /\ Passed * UnitsOf(run.todo \ {i}) \in Nat
            /\ given * Shares \in Nat /\ Passed * Shares \in Nat
        BY <1>r, <1>u
      <4>4. given * Shares + Passed * (run.units[i] + UnitsOf(run.todo \ {i})) <= Passed * Shares
        BY <1>u
      <4>5. given * Shares + (Passed * run.units[i] + Passed * UnitsOf(run.todo \ {i})) <= Passed * Shares
        BY <4>2, <4>4
      <4>6. given * Shares + Passed * UnitsOf(run.todo \ {i}) <= Passed * Shares
        BY ONLY <4>3, <4>5
      <4> QED BY <4>1, <4>6
    <3> QED BY <3>1, <3>2
  <2>3. UnitsOf(run.todo)' = UnitsOf(run.todo \ {i}) /\ Shares' = Shares
    BY <1>4 DEF UnitsOf
  <2> QED BY <1>4, <2>1, <2>2, <2>3 DEF PartsMatch, Passed
<1>8. Within'
  BY <1>t, <1>2, <1>p DEF Within, Bought, Passed
<1>9. Payout!PaidOnce'
  <2>1. ASSUME NEW x \in Payout!Payees PROVE dPaid'[x] <= 1 /\ taxed'[x] <= dPaid'[x]
    BY <1>t, <1>r, <1>o, <1>2, <1>p DEF Payout!PaidOnce, Unpaid
  <2>2. ASSUME NEW x \in Payout!Payees \ (dDisturbed' \cup {"bank", "fund"})
        PROVE  taxed'[x] + Payout!Pending(x, "tax")' = dPaid'[x]
    <3>0. Payout!Pending(x, "tax") = 0 /\ x \notin dDisturbed
      BY <1>r, <1>2, <2>2 DEF Payout!Pending
    <3>1. CASE x = i
      <4>1. a = "tax" /\ Payout!Pending(x, "tax")' = 1
        BY <1>2, <1>4, <2>2, <3>1 DEF Payout!Pending
      <4> QED BY <1>o, <1>2, <1>p, <3>1, <4>1 DEF Unpaid
    <3>2. CASE x # i
      <4>1. Payout!Pending(x, "tax")' = 0
        BY <1>2, <1>4, <3>2 DEF Payout!Pending
      <4> QED BY <1>t, <1>2, <1>p, <2>2, <3>0, <3>2, <4>1 DEF Payout!PaidOnce
    <3> QED BY <3>1, <3>2
  <2>3. ASSUME "client" \notin dDisturbed'
        PROVE  dRecorded'["client"] + Payout!Pending("client", "tax")'
                 + Payout!Pending("client", "payout")' = dPaid'["client"]
    <3>1. "client" \in Payout!Payees /\ "client" # i /\ "client" \notin dDisturbed
      BY <1>r, <1>2, <2>3
    <3>2. /\ Payout!Pending("client", "tax")' = 0 /\ Payout!Pending("client", "payout")' = 0
          /\ Payout!Pending("client", "tax") = 0 /\ Payout!Pending("client", "payout") = 0
      BY <1>r, <1>2, <1>4, <3>1 DEF Payout!Pending
    <3> QED BY <1>t, <1>2, <1>p, <3>1, <3>2 DEF Payout!PaidOnce
  <2> QED BY <2>1, <2>2, <2>3 DEF Payout!PaidOnce
<1> QED BY <1>5, <1>6, <1>7, <1>8, <1>9 DEF DividendInv

LEMMA DividendsInitially == Payout!Init => DividendInv
<1> SUFFICES ASSUME Payout!Init PROVE DividendInv
  OBVIOUS
<1>1. /\ run = Payout!NewRun /\ dUnits \in [Pair -> 0 .. MaxShares]
      /\ dPaid = [p \in Payout!Payees |-> 0] /\ taxed = dPaid
      /\ dRecorded = [o \in Payout!Owners |-> 0]
      /\ dSpent = 0 /\ given = 0 /\ dDisturbed = {}
  BY DEF Payout!Init
<1>2. purchase = Payout!NoPurchase /\ strayed = {}
  BY DEF Payout!Init
<1>3. /\ {Inflow, Reinvested, MaxShares} \subseteq Nat /\ Reinvested <= Inflow
      /\ Pair \cap {"client", "bank", "fund", "none"} = {}
  <2>1. Payout!DividendsAssumption
    BY TradingAssumption
  <2> QED BY <2>1 DEF Payout!DividendsAssumption
<1>3a. Price \in Nat \ {0}
  <2>1. Payout!DividendsAssumption
    BY TradingAssumption
  <2> QED BY <2>1 DEF Payout!DividendsAssumption
<1>4. Inflow \in Nat /\ Reinvested \in Nat /\ MaxShares \in Nat /\ Passed \in Nat
  BY <1>3 DEF Passed
<1>5. /\ run.at = "new" /\ run.payee = "none" /\ run.owners = Payout!Owners /\ run.todo = {}
      /\ run \in [at : {"new", "owner", "tax", "payout", "reinvest", "positions", "clients", "end"},
                  payee : Payout!Payees \cup {"none"}, owners : SUBSET Payout!Owners,
                  todo : SUBSET Pair, units : [Pair -> 0 .. MaxShares]]
  <2>1. [i \in Pair |-> 0] \in [Pair -> 0 .. MaxShares]
    BY <1>4
  <2> QED BY <1>1, <2>1 DEF Payout!NewRun
<1>6. Payout!DividendTypeOK
  <2>1. {dPaid, taxed} \subseteq [Payout!Payees -> Nat] /\ {dSpent, given} \subseteq Nat
    BY <1>1
  <2>2. dRecorded \in [Payout!Owners -> Nat] /\ dDisturbed \subseteq Payout!Payees
    BY <1>1
  <2>3. purchase \in [status : {"none", "pending", "approved", "ended"}, quantity : Nat, filled : Nat]
    BY <1>2 DEF Payout!NoPurchase
  <2> QED BY <1>1, <1>2, <1>5, <2>1, <2>2, <2>3 DEF Payout!DividendTypeOK
<1>7. \A x \in Payout!Payees : Unpaid(x)
  BY <1>1 DEF Unpaid
<1>8. Payout!Owners \subseteq Payout!Payees /\ Pair \subseteq Payout!Payees
  BY DEF Payout!Payees
<1>9. PayoutMatches /\ PartsMatch
  BY <1>1, <1>2, <1>5, <1>7, <1>8 DEF PayoutMatches, PartsMatch, WithClients, NotSpent
<1>10. Within
  <2>1. 0 * Price = 0
    BY <1>3a
  <2>2. purchase.filled = 0 /\ purchase.quantity = 0 /\ purchase.status = "none"
    BY <1>2 DEF Payout!NoPurchase
  <2>3. PICK ask \in AskPrices : 0 * ask = 0
    BY AsksTyped
  <2>4. dSpent <= purchase.filled * ask
    BY <1>1, <2>2, <2>3
  <2>5. Bought
    BY <1>1, <1>4, <2>1, <2>2, <2>4 DEF Bought
  <2> QED BY <1>1, <1>4, <2>5 DEF Within
<1>11. Payout!PaidOnce
  <2>1. \A x : Payout!Pending(x, "tax") = 0 /\ Payout!Pending(x, "payout") = 0
    BY <1>5 DEF Payout!Pending
  <2>2. "client" \in Payout!Owners /\ "fund" \in Payout!Owners
    BY DEF Payout!Owners
  <2> QED BY <1>1, <1>4, <1>8, <2>1, <2>2 DEF Payout!PaidOnce
<1> QED BY <1>6, <1>9, <1>10, <1>11 DEF DividendInv

LEMMA DividendStep == DividendInv /\ [Payout!Next]_payoutVars => DividendInv'
BY QuietSteps, OwnerPaid, TaxRecorded, PayoutSaved, FundReinvested, PurchaseEnds, PortionFilled,
   ClientsFound, ClientPaid, UnitsChanged, DividendsRest DEF Payout!Next

\* What the invariant says of the fund before it received the dividend, and after.
LEMMA DividendInvExact == DividendInv => Payout!DividendsExact
<1> SUFFICES ASSUME DividendInv PROVE Payout!DividendsExact
  OBVIOUS
<1>t. Payout!DividendTypeOK /\ PayoutMatches /\ Within /\ Bought /\ Payout!PaidOnce
  BY DEF DividendInv, Within
<1>r. /\ purchase.quantity \in Nat /\ purchase.filled \in Nat
      /\ Price \in Nat \ {0} /\ Inflow \in Nat /\ Reinvested \in Nat /\ Passed \in Nat
      /\ dSpent \in Nat /\ given \in Nat
      /\ dPaid \in [Payout!Payees -> Nat] /\ "fund" \in Payout!Payees
  BY <1>t, DividendTypes DEF Payout!Payees, Payout!Owners
<1>1. dPaid["fund"] \in {0, 1}
  BY <1>t, <1>r DEF Payout!PaidOnce
<1>2. CASE dPaid["fund"] = 0
  <2>1. NotSpent
    BY <1>t, <1>2 DEF PayoutMatches
  <2>2. 0 * Price = 0 /\ Inflow * 0 = 0 /\ Reinvested * 0 = 0 /\ (Inflow - Reinvested) * 0 = 0
    BY <1>r
  <2> QED BY <1>t, <1>r, <1>2, <2>1, <2>2 DEF NotSpent, Payout!NoPurchase, Bought,
       Payout!DividendsExact, Payout!FundWithinDividend
<1>3. CASE dPaid["fund"] = 1
  <2>1. /\ Inflow * 1 = Inflow /\ Reinvested * 1 = Reinvested
        /\ (Inflow - Reinvested) * 1 = Inflow - Reinvested
    BY <1>r
  <2>2. purchase.filled * Price <= purchase.quantity * Price
    <3>0. purchase.quantity - purchase.filled \in Nat
      BY <1>t, <1>r DEF Bought
    <3>1. PICK d \in Nat : purchase.quantity = purchase.filled + d
      <4>1. purchase.quantity = purchase.filled + (purchase.quantity - purchase.filled)
        BY <1>r
      <4> QED BY <3>0, <4>1
    <3>2. purchase.quantity * Price = purchase.filled * Price + d * Price
          /\ d * Price \in Nat /\ purchase.filled * Price \in Nat
      BY <1>r, <3>1
    <3> QED BY <3>2
  <2>3. "misquoted" \notin strayed => purchase.filled * Price <= Reinvested
    <3>1. purchase.filled * Price \in Nat /\ purchase.quantity * Price \in Nat
      BY <1>r
    <3> QED BY <1>t, <1>r, <2>2, <3>1 DEF Bought
  <2>4. given <= Inflow - Reinvested
    BY <1>t DEF Within, Passed
  <2>5. strayed = {} => dSpent + given <= Inflow
    <3>1. purchase.filled * Price \in Nat
      BY <1>r
    <3> QED BY <1>t, <1>r, <2>3, <2>4, <3>1 DEF Bought
  <2> QED BY <1>t, <1>3, <2>1, <2>3, <2>4, <2>5 DEF Bought,
       Payout!DividendsExact, Payout!FundWithinDividend
<1> QED BY <1>1, <1>2, <1>3

-----------------------------------------------------------------------------
(* Taxes *)

TaxItems == [payer : Taxpayers, row : Nat, amount : Nat]
TaxSteps == {"idle", "next", "paid", "unpaid"}
TaxRuns  == [at : TaxSteps, todo : SUBSET TaxItems, item : TaxItems \cup {Tax!NoTax}]
TaxExempt == tDisturbed \cup tOverlapped \cup doubled \cup eroded

\* What a collection may hold.
CollectionMatches(x) ==
    /\ x.at \in {"idle", "next"} <=> x.item = Tax!NoTax
    /\ x.at = "idle" => x.todo = {}

TaxTyped ==
    /\ owed \in [Taxpayers -> Seq(Nat)]
    /\ recorder \in [Pair -> TaxItems \cup {Tax!NoTax}]
    /\ collector \in [Others -> TaxRuns] /\ \A k \in Others : CollectionMatches(collector[k])
    /\ added \in [Taxpayers -> Int] /\ relieved \in [Taxpayers -> Int]
    /\ collected \in [Taxpayers -> Int]

OneRow(p) == owed[p] = <<>> \/ \E n \in Nat : owed[p] = <<n>>

\* One collection works on the row of p, which owes what was read of it at least.
CollectedOnce(p) ==
    /\ \A k, l \in Others : Tax!Collecting(k, p) /\ Tax!Collecting(l, p) => k = l
    /\ \A k \in Others : \A t \in collector[k].todo : t.payer = p =>
         /\ owed[p] # <<>> /\ t.amount <= owed[p][1] /\ collector[k].item.payer # p
         /\ \A u \in collector[k].todo : u.payer = p => u = t
    /\ \A k \in Others : collector[k].at = "paid" /\ collector[k].item.payer = p =>
         owed[p] # <<>> /\ collector[k].item.amount <= owed[p][1]

TaxBalance(p) == added[p] + Tax!Unrecorded(p) = Tax!Owed(p) + collected[p] + relieved[p]

TaxInv ==
    /\ TaxTyped
    /\ \A p \in Taxpayers \ TaxExempt : OneRow(p) /\ CollectedOnce(p) /\ TaxBalance(p)

LEMMA TaxConstants ==
  /\ TaxAmounts \subseteq Nat \ {0} /\ IsFiniteSet(Others) /\ "no taxpayer" \notin Taxpayers
  /\ Tax!NoTax.payer = "no taxpayer" /\ Tax!NoTax \notin TaxItems
<1>1. Tax!TaxesAssumption
  BY TradingAssumption
<1>2. Tax!IsFiniteSet(Others) => IsFiniteSet(Others)
  BY DEF Tax!IsFiniteSet, IsFiniteSet
<1>3. Tax!NoTax.payer = "no taxpayer"
  BY DEF Tax!NoTax
<1> QED BY <1>1, <1>2, <1>3 DEF Tax!TaxesAssumption, TaxItems

LEMMA TaxSameSum == \A f, S : Tax!SumFunctionOnSet(f, S) = SumFunctionOnSet(f, S)
BY DEF Tax!SumFunctionOnSet, Tax!FoldFunctionOnSet, Tax!MapThenFoldSet,
       SumFunctionOnSet, FoldFunctionOnSet, MapThenFoldSet

LEMMA TaxImplied == TaxInv => Tax!TaxAccounted
BY DEF TaxInv, Tax!TaxAccounted, TaxBalance, TaxExempt

\* What a row, or none, comes to.
LEMMA TotalOfRow ==
  ASSUME NEW m \in Nat
  PROVE  Tax!Total(<<>>) = 0 /\ Tax!Total(<<m>>) = m
<1>1. SumFunctionOnSet(<<>>, {}) = 0
  <2>1. <<>> \in [{} -> Int]
    OBVIOUS
  <2> QED BY <2>1, SumOfNone
<1>2. DOMAIN <<>> = {} /\ DOMAIN <<m>> = {1}
  OBVIOUS
<1>3. SumFunctionOnSet(<<m>>, {1}) = m
  <2> DEFINE f == [i \in {1} |-> m]
  <2>1. <<m>> = f
    OBVIOUS
  <2>2. f \in [{1} -> Int] /\ {1} \in SUBSET {1} /\ IsFiniteSet({1}) /\ 1 \in {1} /\ f[1] = m
    BY FS_Singleton
  <2>3. {1} \ {1} = {}
    OBVIOUS
  <2> HIDE DEF f
  <2>4. SumFunctionOnSet(f, {1}) = f[1] + SumFunctionOnSet(f, {1} \ {1})
    BY <2>2, SumSplit
  <2>5. SumFunctionOnSet(f, {}) = 0
    BY <2>2, SumOfNone
  <2> QED BY <2>1, <2>2, <2>3, <2>4, <2>5
<1> QED BY <1>1, <1>2, <1>3, TaxSameSum DEF Tax!Total

\* A change of every row, of one or of any number.
LEMMA EachRow ==
  ASSUME NEW s, NEW m \in Nat, s = <<m>>, NEW n \in Nat
  PROVE  /\ [i \in DOMAIN s |-> s[i] + n] = <<m + n>>
         /\ [i \in DOMAIN s |-> Tax!Minus(s[i], n)] = <<Tax!Minus(m, n)>>
         /\ Tax!Minus(m, n) \in Nat /\ (n <= m => Tax!Minus(m, n) = m - n)
BY DEF Tax!Minus

LEMMA EachTyped ==
  ASSUME NEW s \in Seq(Nat), NEW n \in Nat
  PROVE  /\ [i \in DOMAIN s |-> s[i] + n] \in Seq(Nat)
         /\ [i \in DOMAIN s |-> Tax!Minus(s[i], n)] \in Seq(Nat)
<1>1. DOMAIN s = 1 .. Len(s) /\ Len(s) \in Nat
  OBVIOUS
<1>2. \A f : f \in [1 .. Len(s) -> Nat] => f \in Seq(Nat)
  BY <1>1
<1>3. \A i \in 1 .. Len(s) : s[i] + n \in Nat /\ Tax!Minus(s[i], n) \in Nat
  BY DEF Tax!Minus
<1> QED BY <1>1, <1>2, <1>3

LEMMA TaxTypes ==
  ASSUME TaxTyped
  PROVE  /\ owed \in [Taxpayers -> Seq(Nat)]
         /\ recorder \in [Pair -> TaxItems \cup {Tax!NoTax}]
         /\ collector \in [Others -> TaxRuns] /\ \A k \in Others : CollectionMatches(collector[k])
         /\ added \in [Taxpayers -> Int] /\ relieved \in [Taxpayers -> Int]
         /\ collected \in [Taxpayers -> Int]
BY DEF TaxTyped

LEMMA ItemTyped ==
  ASSUME NEW t \in TaxItems
  PROVE  t.payer \in Taxpayers /\ t.row \in Nat /\ t.amount \in Nat
BY DEF TaxItems

LEMMA RunTyped ==
  ASSUME NEW x \in TaxRuns
  PROVE  /\ x.at \in TaxSteps /\ x.todo \subseteq TaxItems
         /\ x.item \in TaxItems \cup {Tax!NoTax}
         /\ x = [at |-> x.at, todo |-> x.todo, item |-> x.item]
BY DEF TaxRuns

\* What is owed stays what it is, or grows, or no collection works on it.
LEMMA CollectionsKept ==
  ASSUME NEW p \in Taxpayers, CollectedOnce(p), UNCHANGED collector,
         \/ owed'[p] = owed[p]
         \/ \A k \in Others : ~ Tax!Collecting(k, p)
         \/ \E m \in Nat, n \in Nat : owed[p] = <<m>> /\ owed'[p] = <<m + n>>
         \/ owed[p] = <<>>,
         TaxTyped
  PROVE  CollectedOnce(p)' /\ Tax!Unrecorded(p)' = Tax!Unrecorded(p)
<1>0. Tax!Unrecorded(p)' = Tax!Unrecorded(p)
  BY DEF Tax!Unrecorded
<1>1. \A k, l \in Others : Tax!Collecting(k, p)' /\ Tax!Collecting(l, p)' => k = l
  BY DEF CollectedOnce, Tax!Collecting
<1>2. CASE owed'[p] = owed[p]
  BY <1>0, <1>1, <1>2 DEF CollectedOnce
<1>3. CASE \A k \in Others : ~ Tax!Collecting(k, p)
  BY <1>0, <1>1, <1>3 DEF CollectedOnce, Tax!Collecting
<1>4. CASE \E m \in Nat, n \in Nat : owed[p] = <<m>> /\ owed'[p] = <<m + n>>
  <2>1. PICK m \in Nat, n \in Nat : owed[p] = <<m>> /\ owed'[p] = <<m + n>>
    BY <1>4
  <2>2. /\ owed[p][1] = m /\ owed'[p][1] = m + n /\ owed'[p] # <<>>
        /\ \A i \in Nat : i <= owed[p][1] => i <= owed'[p][1]
    BY <2>1
  <2>3. \A k \in Others : /\ \A t \in collector[k].todo : t.amount \in Nat
                          /\ collector[k].at = "paid" => collector[k].item.amount \in Nat
    BY TaxTypes, RunTyped, ItemTyped DEF CollectionMatches
  <2> QED BY <1>0, <1>1, <2>2, <2>3 DEF CollectedOnce
<1>5. CASE owed[p] = <<>>
  BY <1>0, <1>1, <1>5 DEF CollectedOnce
<1> QED BY <1>2, <1>3, <1>4, <1>5

LEMMA TaxBalanceKept ==
  ASSUME NEW p \in Taxpayers, TaxBalance(p), UNCHANGED <<owed, collector, added, relieved, collected>>
  PROVE  TaxBalance(p)'
BY DEF TaxBalance, Tax!Unrecorded, Tax!Owed

LEMMA UnrecordedTyped == ASSUME TaxTyped, NEW p PROVE Tax!Unrecorded(p) \in Int
<1> DEFINE f == [k \in Others |-> IF collector[k].at = "paid" /\ collector[k].item.payer = p
                                  THEN collector[k].item.amount ELSE 0]
<1>1. \A k \in Others : collector[k].at = "paid" => collector[k].item.amount \in Nat
  BY TaxTypes, RunTyped, ItemTyped DEF CollectionMatches
<1>2. f \in [Others -> Int] /\ Others \in SUBSET Others
  BY <1>1
<1>3. Tax!Unrecorded(p) = Tax!SumFunctionOnSet(f, Others)
  BY DEF Tax!Unrecorded
<1>4. IsFiniteSet(Others)
  BY TaxConstants
<1> HIDE DEF f
<1>5. SumFunctionOnSet(f, Others) \in Int
  BY <1>2, <1>4, SumType
<1> QED BY <1>3, <1>5, TaxSameSum

\* The accounts balance again when what they change by does.
LEMMA BalanceMoves ==
  ASSUME NEW a \in Int, NEW u \in Int, NEW o \in Int, NEW c \in Int, NEW r \in Int,
         NEW da \in Int, NEW du \in Int, NEW do \in Int, NEW dc \in Int, NEW dr \in Int,
         a + u = o + c + r, da + du = do + dc + dr
  PROVE  (a + da) + (u + du) = (o + do) + (c + dc) + (r + dr)
OBVIOUS

LEMMA BalanceStep ==
  ASSUME TaxTyped, NEW p \in Taxpayers, TaxBalance(p), Tax!Owed(p) \in Int,
         NEW da \in Int, NEW du \in Int, NEW do \in Int, NEW dc \in Int, NEW dr \in Int,
         da + du = do + dc + dr,
         added'[p] = added[p] + da, Tax!Unrecorded(p)' = Tax!Unrecorded(p) + du,
         Tax!Owed(p)' = Tax!Owed(p) + do,
         collected'[p] = collected[p] + dc, relieved'[p] = relieved[p] + dr
  PROVE  TaxBalance(p)'
<1>1. PICK a \in Int, u \in Int, o \in Int, c \in Int, r \in Int :
        a = added[p] /\ u = Tax!Unrecorded(p) /\ o = Tax!Owed(p) /\ c = collected[p] /\ r = relieved[p]
  BY UnrecordedTyped, TaxTypes
<1>2. a + u = o + c + r
  BY <1>1 DEF TaxBalance
<1>3. (a + da) + (u + du) = (o + do) + (c + dc) + (r + dr)
  BY <1>2, BalanceMoves
<1> QED BY <1>1, <1>3 DEF TaxBalance

\* Tax is recorded in the row there is, or the recorder goes on to create one.
LEMMA TaxAdded ==
  ASSUME TaxInv, NEW c \in Pair, NEW p \in Taxpayers, NEW n \in TaxAmounts,
         Tax!AddTaxOwed(c, p, n)
  PROVE  TaxInv'
<1>n. n \in Nat
  BY TaxConstants
<1>0. TaxTyped /\ n \in Nat
  BY <1>n DEF TaxInv
<1>1. /\ UNCHANGED <<collector, relieved, collected>> /\ TaxExempt' = TaxExempt
  BY DEF Tax!AddTaxOwed, TaxExempt
<1>2. CASE owed[p] = <<>>
  <2>1. recorder' = [recorder EXCEPT ![c] = [payer |-> p, row |-> 0, amount |-> n]]
        /\ UNCHANGED <<owed, added>>
    BY <1>2 DEF Tax!AddTaxOwed
  <2>2. [payer |-> p, row |-> 0, amount |-> n] \in TaxItems
    BY <1>0 DEF TaxItems
  <2>3. TaxTyped'
    BY <1>0, <1>1, <2>1, <2>2 DEF TaxTyped, CollectionMatches
  <2>4. ASSUME NEW q \in Taxpayers \ TaxExempt
        PROVE  OneRow(q)' /\ CollectedOnce(q)' /\ TaxBalance(q)'
    <3>1. OneRow(q) /\ CollectedOnce(q) /\ TaxBalance(q)
      BY DEF TaxInv
    <3> QED BY <1>0, <1>1, <2>1, <3>1, CollectionsKept, TaxBalanceKept DEF OneRow
  <2> QED BY <1>1, <2>3, <2>4 DEF TaxInv
<1>3. CASE owed[p] # <<>>
  <2> DEFINE s == [i \in DOMAIN owed[p] |-> owed[p][i] + n]
  <2>1. /\ owed' = [owed EXCEPT ![p] = s]
        /\ added' = [added EXCEPT ![p] = @ + n] /\ UNCHANGED recorder
    BY <1>3 DEF Tax!AddTaxOwed, Tax!Each
  <2>2. s \in Seq(Nat)
    BY <1>0, EachTyped DEF TaxTyped
  <2>s. \A m \in Nat : owed[p] = <<m>> => s = <<m + n>>
    BY <1>0, EachRow
  <2> HIDE DEF s
  <2>3. owed' \in [Taxpayers -> Seq(Nat)] /\ added' \in [Taxpayers -> Int]
        /\ owed'[p] = s /\ added'[p] = added[p] + n
        /\ \A q \in Taxpayers \ {p} : owed'[q] = owed[q] /\ added'[q] = added[q]
    BY <1>0, <2>1, <2>2 DEF TaxTyped
  <2>4. TaxTyped'
    BY <1>0, <1>1, <2>1, <2>3 DEF TaxTyped, CollectionMatches
  <2>5. ASSUME NEW q \in Taxpayers \ TaxExempt
        PROVE  OneRow(q)' /\ CollectedOnce(q)' /\ TaxBalance(q)'
    <3>1. OneRow(q) /\ CollectedOnce(q) /\ TaxBalance(q)
      BY DEF TaxInv
    <3>2. CASE q # p
      <4>1. Tax!Unrecorded(q)' = Tax!Unrecorded(q)
        BY <1>1 DEF Tax!Unrecorded
      <4> QED BY <1>0, <1>1, <2>3, <3>1, <3>2, <4>1, CollectionsKept DEF OneRow, TaxBalance, Tax!Owed
    <3>3. CASE q = p
      <4>1. PICK m \in Nat : owed[q] = <<m>>
        BY <1>3, <3>1, <3>3 DEF OneRow
      <4>2. owed'[q] = <<m + n>> /\ m + n \in Nat
        BY <1>0, <2>s, <2>3, <3>3, <4>1
      <4>3. Tax!Owed(q) = m /\ Tax!Owed(q)' = m + n
        BY <4>1, <4>2, TotalOfRow DEF Tax!Owed
      <4>4. CollectedOnce(q)' /\ Tax!Unrecorded(q)' = Tax!Unrecorded(q)
        BY <1>0, <1>1, <3>1, <4>1, <4>2, CollectionsKept
      <4>5. Tax!Unrecorded(q) \in Int /\ added[q] \in Int /\ relieved[q] \in Int /\ collected[q] \in Int
        BY <1>0, UnrecordedTyped DEF TaxTyped
      <4>6. TaxBalance(q)'
        <5>1. /\ added'[q] = added[q] + n /\ Tax!Unrecorded(q)' = Tax!Unrecorded(q) + 0
              /\ collected'[q] = collected[q] + 0 /\ relieved'[q] = relieved[q] + 0
              /\ Tax!Owed(q)' = Tax!Owed(q) + n /\ Tax!Owed(q) \in Int
              /\ n \in Int /\ n + 0 = n + 0 + 0
          BY <1>0, <1>1, <2>3, <3>3, <4>3, <4>4, <4>5
        <5> QED BY <1>0, <3>1, <5>1, BalanceStep
      <4> QED BY <4>2, <4>4, <4>6 DEF OneRow
    <3> QED BY <3>2, <3>3
  <2> QED BY <1>1, <2>4, <2>5 DEF TaxInv
<1> QED BY <1>2, <1>3

LEMMA TotalTyped == ASSUME NEW s \in Seq(Nat) PROVE Tax!Total(s) \in Int
<1>1. DOMAIN s = 1 .. Len(s) /\ Len(s) \in Nat
  OBVIOUS
<1>2. s \in [1 .. Len(s) -> Int] /\ 1 .. Len(s) \in SUBSET (1 .. Len(s))
  BY <1>1
<1>3. IsFiniteSet(1 .. Len(s))
  BY <1>1, FS_Interval
<1>4. SumFunctionOnSet(s, 1 .. Len(s)) \in Int
  BY <1>2, <1>3, SumType
<1> QED BY <1>1, <1>4, TaxSameSum DEF Tax!Total

\* A row is created, the first one or one too many.
LEMMA TaxRowCreated ==
  ASSUME TaxInv, NEW c \in Pair, Tax!CreateTaxRow(c)
  PROVE  TaxInv'
<1> DEFINE p == recorder[c].payer
           n == recorder[c].amount
<1>0. TaxTyped
  BY DEF TaxInv
<1>1. /\ recorder[c] # Tax!NoTax /\ recorder' = [recorder EXCEPT ![c] = Tax!NoTax]
      /\ UNCHANGED <<collector, relieved, collected, tDisturbed, tOverlapped, eroded>>
  BY DEF Tax!CreateTaxRow
<1>2. p \in Taxpayers /\ n \in Nat
  <2>1. recorder[c] \in TaxItems
    BY <1>0, <1>1 DEF TaxTyped
  <2> QED BY <2>1, ItemTyped
<1>r. recorder' \in [Pair -> TaxItems \cup {Tax!NoTax}]
  BY <1>0, <1>1 DEF TaxTyped
<1>3. CASE UNCHANGED <<owed, added, doubled>>
  <2>1. TaxTyped' /\ TaxExempt' = TaxExempt
    BY <1>0, <1>1, <1>r, <1>3 DEF TaxTyped, CollectionMatches, TaxExempt
  <2>2. ASSUME NEW q \in Taxpayers \ TaxExempt
        PROVE  OneRow(q)' /\ CollectedOnce(q)' /\ TaxBalance(q)'
    <3>1. OneRow(q) /\ CollectedOnce(q) /\ TaxBalance(q)
      BY DEF TaxInv
    <3> QED BY <1>0, <1>1, <1>3, <3>1, CollectionsKept, TaxBalanceKept DEF OneRow
  <2> QED BY <2>1, <2>2 DEF TaxInv
<1>4. CASE /\ owed' = [owed EXCEPT ![p] = Append(@, n)]
           /\ added' = [added EXCEPT ![p] = @ + n]
           /\ doubled' = IF owed[p] = <<>> THEN doubled ELSE doubled \cup {p}
  <2>1. /\ owed' \in [Taxpayers -> Seq(Nat)] /\ added' \in [Taxpayers -> Int]
        /\ owed'[p] = Append(owed[p], n) /\ added'[p] = added[p] + n
        /\ \A q \in Taxpayers \ {p} : owed'[q] = owed[q] /\ added'[q] = added[q]
    <3>1. Append(owed[p], n) \in Seq(Nat)
      BY <1>0, <1>2 DEF TaxTyped
    <3>2. added[p] + n \in Int
      BY <1>0, <1>2 DEF TaxTyped
    <3> HIDE DEF p, n
    <3> QED BY <1>0, <1>2, <1>4, <3>1, <3>2 DEF TaxTyped
  <2>2. TaxTyped' /\ TaxExempt \subseteq TaxExempt'
    BY <1>0, <1>1, <1>r, <1>4, <2>1 DEF TaxTyped, CollectionMatches, TaxExempt
  <2>3. ASSUME NEW q \in Taxpayers \ TaxExempt'
        PROVE  OneRow(q)' /\ CollectedOnce(q)' /\ TaxBalance(q)'
    <3>1. OneRow(q) /\ CollectedOnce(q) /\ TaxBalance(q)
      BY <2>2 DEF TaxInv
    <3>2. CASE q # p
      <4>1. Tax!Unrecorded(q)' = Tax!Unrecorded(q)
        BY <1>1 DEF Tax!Unrecorded
      <4> QED BY <1>0, <1>1, <2>1, <3>1, <3>2, <4>1, CollectionsKept DEF OneRow, TaxBalance, Tax!Owed
    <3>3. CASE q = p
      <4>1. owed[q] = <<>>
        BY <1>4, <3>3 DEF TaxExempt
      <4>2. owed'[q] = <<n>>
        BY <1>2, <2>1, <3>3, <4>1
      <4>3. Tax!Owed(q) = 0 /\ Tax!Owed(q)' = n
        BY <1>2, <4>1, <4>2, TotalOfRow DEF Tax!Owed
      <4>4. CollectedOnce(q)' /\ Tax!Unrecorded(q)' = Tax!Unrecorded(q)
        BY <1>0, <1>1, <3>1, <4>1, CollectionsKept
      <4>5. Tax!Unrecorded(q) \in Int /\ added[q] \in Int /\ relieved[q] \in Int /\ collected[q] \in Int
        BY <1>0, UnrecordedTyped DEF TaxTyped
      <4>6. TaxBalance(q)'
        <5> HIDE DEF p, n
        <5>1. /\ added'[q] = added[q] + n /\ Tax!Unrecorded(q)' = Tax!Unrecorded(q) + 0
              /\ collected'[q] = collected[q] + 0 /\ relieved'[q] = relieved[q] + 0
              /\ Tax!Owed(q)' = Tax!Owed(q) + n /\ Tax!Owed(q) \in Int
              /\ n \in Int /\ n + 0 = n + 0 + 0
          BY <1>1, <1>2, <2>1, <3>3, <4>3, <4>4, <4>5
        <5> QED BY <1>0, <3>1, <5>1, BalanceStep
      <4> QED BY <1>2, <4>2, <4>4, <4>6 DEF OneRow
    <3> QED BY <3>2, <3>3
  <2> QED BY <2>2, <2>3 DEF TaxInv
<1> QED BY <1>3, <1>4 DEF Tax!CreateTaxRow

\* Tax is taken off, from what no collection works on.
LEMMA TaxReduced ==
  ASSUME TaxInv, NEW p \in Taxpayers, NEW n \in TaxAmounts, Tax!ReduceTaxOwed(p, n)
  PROVE  TaxInv'
<1> DEFINE s == [i \in DOMAIN owed[p] |-> Tax!Minus(owed[p][i], n)]
           d == Tax!Owed(p) - Tax!Total(s)
<1>n. n \in Nat
  BY TaxConstants
<1>0. TaxTyped
  BY DEF TaxInv
<1>s. s \in Seq(Nat) /\ owed[p] \in Seq(Nat)
  BY <1>n, EachTyped, TaxTypes, <1>0
<1>d. Tax!Owed(p) \in Int /\ Tax!Total(s) \in Int /\ d \in Int
  <2>1. Tax!Owed(p) \in Int
    BY <1>s, TotalTyped DEF Tax!Owed
  <2>2. Tax!Total(s) \in Int
    BY <1>s, TotalTyped
  <2> QED BY <2>1, <2>2
<1>1. /\ owed[p] # <<>> /\ owed' = [owed EXCEPT ![p] = s]
      /\ UNCHANGED <<recorder, collector, added, collected, tDisturbed, tOverlapped, doubled>>
      /\ eroded \subseteq eroded' /\ (p \notin eroded' => \A k \in Others : ~ Tax!Collecting(k, p))
  BY DEF Tax!ReduceTaxOwed, Tax!Each
<1>2. owed' \in [Taxpayers -> Seq(Nat)] /\ owed'[p] = s
      /\ \A q \in Taxpayers \ {p} : owed'[q] = owed[q]
  BY <1>0, <1>s, <1>1, TaxTypes
<1>3. /\ relieved' \in [Taxpayers -> Int] /\ relieved'[p] = relieved[p] + d
      /\ \A q \in Taxpayers \ {p} : relieved'[q] = relieved[q]
  <2>1. relieved' = [relieved EXCEPT ![p] = relieved[p] + Tax!Owed(p) - Tax!Total(s)]
    BY <1>2 DEF Tax!ReduceTaxOwed
  <2>2. relieved \in [Taxpayers -> Int]
    BY <1>0, TaxTypes
  <2>3. relieved[p] + Tax!Owed(p) - Tax!Total(s) = relieved[p] + d /\ relieved[p] + d \in Int
    <3>1. PICK r \in Int, x \in Int, y \in Int :
            r = relieved[p] /\ x = Tax!Owed(p) /\ y = Tax!Total(s)
      BY <1>d, <2>2
    <3>2. r + x - y = r + (x - y) /\ r + (x - y) \in Int
      OBVIOUS
    <3> QED BY <3>1, <3>2
  <2> HIDE DEF d, s
  <2> QED BY <2>1, <2>2, <2>3
<1>4. TaxTyped' /\ TaxExempt \subseteq TaxExempt'
  BY <1>0, <1>1, <1>2, <1>3 DEF TaxTyped, CollectionMatches, TaxExempt
<1>5. ASSUME NEW q \in Taxpayers \ TaxExempt'
      PROVE  OneRow(q)' /\ CollectedOnce(q)' /\ TaxBalance(q)'
  <2>1. OneRow(q) /\ CollectedOnce(q) /\ TaxBalance(q)
    BY <1>4 DEF TaxInv
  <2>2. CASE q # p
    <3>1. Tax!Unrecorded(q)' = Tax!Unrecorded(q)
      BY <1>1 DEF Tax!Unrecorded
    <3> QED BY <1>0, <1>1, <1>2, <1>3, <2>1, <2>2, <3>1, CollectionsKept DEF OneRow, TaxBalance, Tax!Owed
  <2>3. CASE q = p
    <3>1. PICK m \in Nat : owed[q] = <<m>>
      BY <1>1, <2>1, <2>3 DEF OneRow
    <3>2. OneRow(q)'
      BY <1>n, <1>2, <2>3, <3>1, EachRow DEF OneRow
    <3>3. CollectedOnce(q)' /\ Tax!Unrecorded(q)' = Tax!Unrecorded(q)
      <4>1. \A k \in Others : ~ Tax!Collecting(k, q)
        BY <1>1, <2>3 DEF TaxExempt
      <4> QED BY <1>0, <1>1, <2>1, <4>1, CollectionsKept
    <3>4. Tax!Owed(q)' = Tax!Total(s)
      BY <1>2, <2>3 DEF Tax!Owed
    <3>5. Tax!Unrecorded(q) \in Int /\ added[q] \in Int /\ relieved[q] \in Int /\ collected[q] \in Int
      BY <1>0, UnrecordedTyped DEF TaxTyped
    <3>6. TaxBalance(q)'
      <4>1. PICK x \in Int, y \in Int : x = Tax!Owed(q) /\ y = Tax!Total(s)
        BY <1>d, <2>3
      <4>2. y - x \in Int /\ y = x + (y - x) /\ 0 + 0 = (y - x) + 0 + (x - y) /\ x - y \in Int
        OBVIOUS
      <4>3. d = x - y
        BY <2>3, <4>1
      <4> HIDE DEF d, s
      <4>4. /\ added'[q] = added[q] + 0 /\ Tax!Unrecorded(q)' = Tax!Unrecorded(q) + 0
            /\ collected'[q] = collected[q] + 0 /\ relieved'[q] = relieved[q] + (x - y)
            /\ Tax!Owed(q)' = Tax!Owed(q) + (y - x) /\ Tax!Owed(q) \in Int
        <5>1. relieved'[q] = relieved[q] + (x - y)
          BY <1>3, <2>3, <4>3
        <5>2. Tax!Owed(q)' = Tax!Owed(q) + (y - x) /\ Tax!Owed(q) \in Int
          BY <3>4, <4>1, <4>2
        <5>3. /\ added'[q] = added[q] + 0 /\ Tax!Unrecorded(q)' = Tax!Unrecorded(q) + 0
              /\ collected'[q] = collected[q] + 0
          BY <1>1, <3>3, <3>5
        <5> QED BY <5>1, <5>2, <5>3
      <4> QED BY <1>0, <2>1, <4>2, <4>4, BalanceStep
    <3> QED BY <3>2, <3>3, <3>6
  <2> QED BY <2>2, <2>3
<1> QED BY <1>4, <1>5 DEF TaxInv

\* What collection x has paid for p and not yet subtracted, and whether it works on p.
PaidFor(x, p) == IF x.at = "paid" /\ x.item.payer = p THEN x.item.amount ELSE 0
WorksOn(x, p) == \E t \in x.todo \cup {x.item} : t.payer = p

\* The rows o of p owe what x has read of them.
RowsCover(x, p, o) ==
    /\ \A t \in x.todo : t.payer = p =>
         /\ o # <<>> /\ t.amount <= o[1] /\ x.item.payer # p
         /\ \A u \in x.todo : u.payer = p => u = t
    /\ x.at = "paid" /\ x.item.payer = p => o # <<>> /\ x.item.amount <= o[1]

LEMMA PaidForTyped ==
  ASSUME NEW x \in TaxRuns, CollectionMatches(x), NEW p PROVE PaidFor(x, p) \in Nat
BY RunTyped, ItemTyped DEF PaidFor, CollectionMatches

LEMMA UnrecordedMoves ==
  ASSUME TaxTyped, NEW k \in Others, NEW x \in TaxRuns, CollectionMatches(x),
         collector' = [collector EXCEPT ![k] = x], NEW p
  PROVE  Tax!Unrecorded(p)' = Tax!Unrecorded(p) - PaidFor(collector[k], p) + PaidFor(x, p)
<1> DEFINE f == [j \in Others |-> IF collector[j].at = "paid" /\ collector[j].item.payer = p
                                  THEN collector[j].item.amount ELSE 0]
           g == [j \in Others |-> IF collector'[j].at = "paid" /\ collector'[j].item.payer = p
                                  THEN collector'[j].item.amount ELSE 0]
<1>0. collector \in [Others -> TaxRuns] /\ \A j \in Others : CollectionMatches(collector[j])
  BY TaxTypes
<1>1. collector'[k] = x /\ \A j \in Others \ {k} : collector'[j] = collector[j]
  BY <1>0
<1>2. \A j \in Others : f[j] = PaidFor(collector[j], p) /\ g[j] = PaidFor(collector'[j], p)
  BY DEF PaidFor
<1>3. \A j \in Others : PaidFor(collector[j], p) \in Nat /\ PaidFor(collector'[j], p) \in Nat
  BY <1>0, <1>1, PaidForTyped
<1>4. f \in [Others -> Int] /\ g \in [Others -> Int] /\ \A j \in Others \ {k} : f[j] = g[j]
  <2>1. \A j \in Others : f[j] \in Int /\ g[j] \in Int
    BY <1>2, <1>3
  <2> QED BY <1>1, <2>1
<1>5. f[k] = PaidFor(collector[k], p) /\ g[k] = PaidFor(x, p)
  BY <1>1, <1>2
<1>6. /\ Tax!Unrecorded(p) = Tax!SumFunctionOnSet(f, Others)
      /\ Tax!Unrecorded(p)' = Tax!SumFunctionOnSet(g, Others)
  <2>1. Tax!Unrecorded(p) = Tax!SumFunctionOnSet(f, Others)
    BY DEF Tax!Unrecorded
  <2>2. Tax!Unrecorded(p)' = Tax!SumFunctionOnSet(g, Others)
    BY DEF Tax!Unrecorded
  <2> QED BY <2>1, <2>2
<1> HIDE DEF f, g
<1>7. IsFiniteSet(Others) /\ Others \in SUBSET Others
  BY TaxConstants
<1>8. SumFunctionOnSet(g, Others) = SumFunctionOnSet(f, Others) - f[k] + g[k]
  BY <1>4, <1>7, SumUpdated
<1> QED BY <1>5, <1>6, <1>8, TaxSameSum

LEMMA CollectionStep ==
  ASSUME TaxTyped, NEW k \in Others, NEW x \in TaxRuns, CollectionMatches(x),
         collector' = [collector EXCEPT ![k] = x], NEW p \in Taxpayers, CollectedOnce(p),
         WorksOn(x, p) => \/ WorksOn(collector[k], p)
                          \/ \A j \in Others \ {k} : ~ WorksOn(collector[j], p),
         RowsCover(x, p, owed'[p]),
         owed'[p] = owed[p] \/ WorksOn(collector[k], p)
  PROVE  CollectedOnce(p)'
<1>0. collector \in [Others -> TaxRuns]
  BY TaxTypes
<1>1. collector'[k] = x /\ \A j \in Others \ {k} : collector'[j] = collector[j]
  BY <1>0
<1>2. \A j \in Others : /\ Tax!Collecting(j, p) <=> WorksOn(collector[j], p)
                        /\ Tax!Collecting(j, p)' <=> WorksOn(collector'[j], p)
  BY DEF Tax!Collecting, WorksOn
<1>3. \A i, j \in Others : WorksOn(collector[i], p) /\ WorksOn(collector[j], p) => i = j
  BY <1>2 DEF CollectedOnce
<1>4. \A i, j \in Others : WorksOn(collector'[i], p) /\ WorksOn(collector'[j], p) => i = j
  <2> SUFFICES ASSUME NEW i \in Others, NEW j \in Others, i # j,
                      WorksOn(collector'[i], p), WorksOn(collector'[j], p)
               PROVE  FALSE
    OBVIOUS
  <2>1. CASE i # k /\ j # k
    BY <1>1, <1>3, <2>1
  <2>2. CASE i = k
    BY <1>1, <1>3, <2>2
  <2>3. CASE j = k
    BY <1>1, <1>3, <2>3
  <2> QED BY <2>1, <2>2, <2>3
<1>5. ASSUME NEW j \in Others, j # k, WorksOn(collector[j], p) PROVE owed'[p] = owed[p]
  BY <1>3, <1>5
<1>6. ASSUME NEW j \in Others, NEW t \in collector'[j].todo, t.payer = p
      PROVE  /\ owed'[p] # <<>> /\ t.amount <= owed'[p][1] /\ collector'[j].item.payer # p
             /\ \A u \in collector'[j].todo : u.payer = p => u = t
  <2>1. CASE j = k
    BY <1>1, <1>6, <2>1 DEF RowsCover
  <2>2. CASE j # k
    <3>1. WorksOn(collector[j], p) /\ t \in collector[j].todo
      BY <1>1, <1>6, <2>2 DEF WorksOn
    <3> QED BY <1>1, <1>5, <1>6, <2>2, <3>1 DEF CollectedOnce
  <2> QED BY <2>1, <2>2
<1>7. ASSUME NEW j \in Others, collector'[j].at = "paid", collector'[j].item.payer = p
      PROVE  owed'[p] # <<>> /\ collector'[j].item.amount <= owed'[p][1]
  <2>1. CASE j = k
    BY <1>1, <1>7, <2>1 DEF RowsCover
  <2>2. CASE j # k
    <3>1. WorksOn(collector[j], p)
      BY <1>1, <1>7, <2>2 DEF WorksOn
    <3> QED BY <1>1, <1>5, <1>7, <2>2, <3>1 DEF CollectedOnce
  <2> QED BY <2>1, <2>2
<1> QED BY <1>2, <1>4, <1>6, <1>7 DEF CollectedOnce

LEMMA TaxRunWrites ==
  ASSUME TaxTyped, NEW k \in Others
  PROVE  /\ collector[k] \in TaxRuns /\ CollectionMatches(collector[k])
         /\ Tax!Idle = [at |-> "idle", todo |-> {}, item |-> Tax!NoTax]
         /\ Tax!Idle \in TaxRuns /\ CollectionMatches(Tax!Idle)
         /\ \A p \in Taxpayers : ~ WorksOn(Tax!Idle, p) /\ PaidFor(Tax!Idle, p) = 0
<1>1. collector[k] \in TaxRuns /\ CollectionMatches(collector[k])
  BY TaxTypes
<1>2. Tax!Idle = [at |-> "idle", todo |-> {}, item |-> Tax!NoTax]
  BY DEF Tax!Idle
<1>3. Tax!Idle \in TaxRuns /\ CollectionMatches(Tax!Idle)
  BY <1>2 DEF TaxRuns, TaxSteps, CollectionMatches
<1>4. \A p \in Taxpayers : ~ WorksOn(Tax!Idle, p) /\ PaidFor(Tax!Idle, p) = 0
  BY <1>2, TaxConstants DEF WorksOn, PaidFor
<1> QED BY <1>1, <1>2, <1>3, <1>4

\* A collection reads the rows that owe something.
LEMMA TaxesRead ==
  ASSUME TaxInv, NEW k \in Others, Tax!CollectTaxes(k)
  PROVE  TaxInv'
<1> DEFINE rows == UNION {{[payer |-> p, row |-> i, amount |-> owed[p][i]] :
                              i \in {i \in DOMAIN owed[p] : owed[p][i] > 0}} : p \in Taxpayers}
           x == [at |-> "next", todo |-> rows, item |-> Tax!NoTax]
<1>0. TaxTyped
  BY DEF TaxInv
<1>1. /\ collector[k] = Tax!Idle /\ collector' = [collector EXCEPT ![k] = x]
      /\ tOverlapped' = tOverlapped \cup
           {t.payer : t \in {t \in rows : \E j \in Others \ {k} : Tax!Collecting(j, t.payer)}}
      /\ UNCHANGED <<owed, recorder, added, relieved, collected, tDisturbed, doubled, eroded>>
  BY DEF Tax!CollectTaxes
<1>2. \A t \in rows : \E p \in Taxpayers : \E i \in DOMAIN owed[p] :
        t = [payer |-> p, row |-> i, amount |-> owed[p][i]]
  OBVIOUS
<1>3. \A t \in rows : \E i \in DOMAIN owed[t.payer] :
        t.payer \in Taxpayers /\ t = [payer |-> t.payer, row |-> i, amount |-> owed[t.payer][i]]
  BY <1>2
<1> HIDE DEF rows
<1>4. rows \subseteq TaxItems
  <2> SUFFICES ASSUME NEW t \in rows PROVE t \in TaxItems
    OBVIOUS
  <2>1. PICK p \in Taxpayers : \E i \in DOMAIN owed[p] :
          t = [payer |-> p, row |-> i, amount |-> owed[p][i]]
    BY <1>2
  <2>2. owed[p] \in Seq(Nat)
    BY <1>0, TaxTypes
  <2>3. \A i \in DOMAIN owed[p] : i \in Nat /\ owed[p][i] \in Nat
    BY <2>2
  <2> QED BY <2>1, <2>3 DEF TaxItems
<1>5. x \in TaxRuns /\ CollectionMatches(x)
  BY <1>4 DEF TaxRuns, TaxSteps, CollectionMatches
<1>6. TaxTyped' /\ TaxExempt \subseteq TaxExempt'
  BY <1>0, <1>1, <1>5 DEF TaxTyped, TaxExempt
<1>7. ASSUME NEW q \in Taxpayers \ TaxExempt'
      PROVE  OneRow(q)' /\ CollectedOnce(q)' /\ TaxBalance(q)'
  <2>1. OneRow(q) /\ CollectedOnce(q) /\ TaxBalance(q)
    BY <1>6 DEF TaxInv
  <2>x. x.at = "next" /\ x.todo = rows /\ x.item = Tax!NoTax
    OBVIOUS
  <2>n. Tax!NoTax.payer # q
    BY TaxConstants
  <2>2. ASSUME NEW t \in rows, t.payer = q
        PROVE  /\ owed[q] # <<>> /\ t.amount <= owed[q][1]
               /\ t = [payer |-> q, row |-> 1, amount |-> owed[q][1]]
    <3>1. PICK i \in DOMAIN owed[q] : t = [payer |-> q, row |-> i, amount |-> owed[q][i]]
      BY <1>3, <2>2
    <3>2. owed[q] # <<>>
      BY <3>1
    <3>3. PICK m \in Nat : owed[q] = <<m>>
      BY <2>1, <3>2 DEF OneRow
    <3>4. i = 1 /\ owed[q][i] = m /\ owed[q][1] = m
      BY <3>1, <3>3
    <3> QED BY <3>1, <3>2, <3>4
  <2>3. WorksOn(x, q) => \A j \in Others \ {k} : ~ WorksOn(collector[j], q)
    <3> SUFFICES ASSUME WorksOn(x, q), NEW j \in Others \ {k}, WorksOn(collector[j], q)
                 PROVE  FALSE
      OBVIOUS
    <3>1. PICK t \in rows : t.payer = q
      BY <2>x, <2>n DEF WorksOn
    <3>2. Tax!Collecting(j, q)
      BY DEF WorksOn, Tax!Collecting
    <3>3. q \in tOverlapped'
      BY <1>1, <3>1, <3>2
    <3> QED BY <3>3 DEF TaxExempt
  <2>4. CollectedOnce(q)'
    <3>1. RowsCover(x, q, owed'[q])
      BY <1>1, <2>2, <2>x, <2>n DEF RowsCover
    <3> QED BY <1>0, <1>1, <1>5, <2>1, <2>3, <2>x, <3>1, CollectionStep
  <2>5. Tax!Unrecorded(q)' = Tax!Unrecorded(q)
    <3>1. PaidFor(x, q) = 0 /\ PaidFor(collector[k], q) = 0
      BY <1>0, <1>1, <2>x, TaxRunWrites DEF PaidFor
    <3>2. Tax!Unrecorded(q)' = Tax!Unrecorded(q) - PaidFor(collector[k], q) + PaidFor(x, q)
      BY <1>0, <1>1, <1>5, UnrecordedMoves
    <3>3. Tax!Unrecorded(q) \in Int
      BY <1>0, UnrecordedTyped
    <3> QED BY <3>1, <3>2, <3>3
  <2>6. OneRow(q)' /\ TaxBalance(q)'
    BY <1>1, <2>1, <2>5 DEF OneRow, TaxBalance, Tax!Owed
  <2> QED BY <2>4, <2>6
<1> QED BY <1>6, <1>7 DEF TaxInv

\* One of the rows is paid, or is not.
LEMMA TaxPaid ==
  ASSUME TaxInv, NEW k \in Others, NEW t \in collector[k].todo, Tax!CollectSingleTax(k, t)
  PROVE  TaxInv'
<1>0. TaxTyped /\ collector[k] \in TaxRuns /\ CollectionMatches(collector[k])
  BY TaxRunWrites DEF TaxInv
<1>1. t \in TaxItems /\ t.payer \in Taxpayers /\ t.amount \in Nat /\ t # Tax!NoTax
  BY <1>0, RunTyped, ItemTyped, TaxConstants
<1>2. PICK s \in {"paid", "unpaid"}, got \in BOOLEAN :
        /\ s = "paid" => got
        /\ collector' = [collector EXCEPT ![k] =
                           [at |-> s, todo |-> collector[k].todo \ {t}, item |-> t]]
        /\ collected' = [collected EXCEPT ![t.payer] = IF got THEN @ + t.amount ELSE @]
        /\ tDisturbed' = IF got /\ s = "unpaid" THEN tDisturbed \cup {t.payer} ELSE tDisturbed
  BY DEF Tax!CollectSingleTax
<1>3. /\ collector[k].at = "next" /\ collector[k].item = Tax!NoTax
      /\ UNCHANGED <<owed, recorder, added, relieved, tOverlapped, doubled, eroded>>
  BY <1>0 DEF Tax!CollectSingleTax, CollectionMatches
<1>x. PICK x \in TaxRuns :
        /\ CollectionMatches(x) /\ collector' = [collector EXCEPT ![k] = x]
        /\ x.at = s /\ x.todo = collector[k].todo \ {t} /\ x.item = t
  <2> DEFINE y == [at |-> s, todo |-> collector[k].todo \ {t}, item |-> t]
  <2>1. y \in TaxRuns /\ CollectionMatches(y)
    BY <1>0, <1>1, RunTyped DEF TaxRuns, TaxSteps, CollectionMatches
  <2> QED BY <1>2, <2>1
<1>5. /\ collected' \in [Taxpayers -> Int]
      /\ collected'[t.payer] = IF got THEN collected[t.payer] + t.amount ELSE collected[t.payer]
      /\ \A q \in Taxpayers \ {t.payer} : collected'[q] = collected[q]
  BY <1>0, <1>1, <1>2, TaxTypes
<1>6. TaxTyped' /\ TaxExempt \subseteq TaxExempt'
  <2>1. TaxTyped'
    BY <1>0, <1>3, <1>5, <1>x DEF TaxTyped
  <2>2. tDisturbed \subseteq tDisturbed'
    BY <1>2
  <2> QED BY <1>3, <2>1, <2>2 DEF TaxExempt
<1>7. ASSUME NEW q \in Taxpayers \ TaxExempt'
      PROVE  OneRow(q)' /\ CollectedOnce(q)' /\ TaxBalance(q)'
  <2>1. OneRow(q) /\ CollectedOnce(q) /\ TaxBalance(q)
    BY <1>6 DEF TaxInv
  <2>w. WorksOn(x, q) => WorksOn(collector[k], q)
    BY <1>x DEF WorksOn
  <2>4. CollectedOnce(q)'
    <3>1. RowsCover(x, q, owed'[q])
      BY <1>3, <1>x, <2>1 DEF CollectedOnce, RowsCover
    <3>3. owed'[q] = owed[q] \/ WorksOn(collector[k], q)
      BY <1>3
    <3> QED BY <1>0, <1>x, <2>1, <2>w, <3>1, <3>3, CollectionStep
  <2>5. Tax!Unrecorded(q)' = Tax!Unrecorded(q) - PaidFor(collector[k], q) + PaidFor(x, q)
    BY <1>0, <1>x, UnrecordedMoves
  <2>6. PaidFor(collector[k], q) = 0
    BY <1>3 DEF PaidFor
  <2>7. collected'[q] = collected[q] + PaidFor(x, q)
    <3>1. CASE q # t.payer
      <4>1. PaidFor(x, q) = 0 /\ collected'[q] = collected[q] /\ collected[q] \in Int
        BY <1>0, <1>5, <1>x, <3>1, TaxTypes DEF PaidFor
      <4> QED BY <4>1
    <3>2. CASE q = t.payer
      <4>1. got => s = "paid"
        BY <1>2, <3>2 DEF TaxExempt
      <4>2. PaidFor(x, q) = IF got THEN t.amount ELSE 0
        BY <1>2, <1>x, <3>2, <4>1 DEF PaidFor
      <4>3. collected[q] \in Int
        BY <1>0, TaxTypes
      <4> QED BY <1>1, <1>5, <3>2, <4>2, <4>3
    <3> QED BY <3>1, <3>2
  <2>8. TaxBalance(q)'
    <3>1. PICK d \in Int : d = PaidFor(x, q)
      BY <1>x, PaidForTyped
    <3>2. Tax!Unrecorded(q)' = Tax!Unrecorded(q) + d
      <4>1. Tax!Unrecorded(q) \in Int
        BY <1>0, UnrecordedTyped
      <4> QED BY <2>5, <2>6, <3>1, <4>1
    <3>3. /\ added'[q] = added[q] + 0 /\ relieved'[q] = relieved[q] + 0
          /\ collected'[q] = collected[q] + d
      BY <1>0, <1>3, <2>7, <3>1, TaxTypes
    <3>4. Tax!Owed(q)' = Tax!Owed(q) + 0 /\ Tax!Owed(q) \in Int
      <4>1. owed[q] \in Seq(Nat)
        BY <1>0, TaxTypes
      <4>2. Tax!Owed(q) \in Int /\ Tax!Owed(q)' = Tax!Owed(q)
        BY <1>3, <4>1, TotalTyped DEF Tax!Owed
      <4> QED BY <4>2
    <3>5. 0 + d = 0 + d + 0
      OBVIOUS
    <3> QED BY <1>0, <2>1, <3>2, <3>3, <3>4, <3>5, BalanceStep
  <2> QED BY <1>3, <2>1, <2>4, <2>8 DEF OneRow
<1> QED BY <1>6, <1>7 DEF TaxInv

\* A payment is subtracted from what is owed, or forgotten with the collection.
LEMMA TaxSettled ==
  ASSUME TaxInv, NEW k \in Others, Tax!RecordCollectionResult(k) \/ Tax!FailCollection(k)
  PROVE  TaxInv'
<1> DEFINE t == collector[k].item
           s == [i \in DOMAIN owed[t.payer] |-> Tax!Minus(owed[t.payer][i], t.amount)]
<1>0. TaxTyped /\ collector[k] \in TaxRuns /\ CollectionMatches(collector[k])
  BY TaxRunWrites DEF TaxInv
<1>1. /\ collector[k].at \in {"paid", "unpaid"}
      /\ UNCHANGED <<recorder, added, relieved, collected, tOverlapped, doubled, eroded>>
  BY DEF Tax!RecordCollectionResult, Tax!FailCollection, Tax!history
<1>2. t \in TaxItems /\ t.payer \in Taxpayers /\ t.amount \in Nat
  BY <1>0, <1>1, RunTyped, ItemTyped DEF CollectionMatches
<1>3. PICK x \in TaxRuns :
        /\ CollectionMatches(x) /\ collector' = [collector EXCEPT ![k] = x]
        /\ x.at \in {"idle", "next"} /\ x.item = Tax!NoTax /\ x.todo \subseteq collector[k].todo
  <2>1. PICK y \in {Tax!Idle, [at |-> "next", todo |-> collector[k].todo, item |-> Tax!NoTax]} :
          collector' = [collector EXCEPT ![k] = y]
    BY DEF Tax!RecordCollectionResult, Tax!FailCollection, Tax!Rest
  <2>2. CASE y = Tax!Idle
    <3>1. y \in TaxRuns /\ CollectionMatches(y) /\ y = [at |-> "idle", todo |-> {}, item |-> Tax!NoTax]
      BY <1>0, <2>2, TaxRunWrites
    <3>2. y.at = "idle" /\ y.todo = {} /\ y.item = Tax!NoTax
      BY <3>1
    <3> QED BY <2>1, <3>1, <3>2
  <2>3. CASE y = [at |-> "next", todo |-> collector[k].todo, item |-> Tax!NoTax]
    <3>1. y \in TaxRuns /\ CollectionMatches(y)
      BY <1>0, <2>3, RunTyped DEF TaxRuns, TaxSteps, CollectionMatches
    <3> QED BY <2>1, <2>3, <3>1
  <2> QED BY <2>1, <2>2, <2>3
<1>4. \/ /\ owed' = [owed EXCEPT ![t.payer] = s] /\ collector[k].at = "paid"
         /\ tDisturbed' = tDisturbed
      \/ /\ owed' = owed /\ tDisturbed \subseteq tDisturbed'
         /\ collector[k].at = "paid" => t.payer \in tDisturbed'
  BY <1>1 DEF Tax!RecordCollectionResult, Tax!FailCollection, Tax!Each, Tax!Cleared, Tax!history
<1>5. s \in Seq(Nat)
  BY <1>0, <1>2, EachTyped DEF TaxTyped
<1> HIDE DEF s
<1>6. owed' \in [Taxpayers -> Seq(Nat)] /\ \A q \in Taxpayers \ {t.payer} : owed'[q] = owed[q]
  BY <1>0, <1>2, <1>4, <1>5, TaxTypes
<1>7. TaxTyped' /\ TaxExempt \subseteq TaxExempt'
  <2>1. TaxTyped'
    BY <1>0, <1>1, <1>3, <1>6 DEF TaxTyped
  <2>2. tDisturbed \subseteq tDisturbed'
    BY <1>4
  <2> QED BY <1>1, <2>1, <2>2 DEF TaxExempt
<1>8. ASSUME NEW q \in Taxpayers \ TaxExempt'
      PROVE  OneRow(q)' /\ CollectedOnce(q)' /\ TaxBalance(q)'
  <2>1. OneRow(q) /\ CollectedOnce(q) /\ TaxBalance(q)
    BY <1>7 DEF TaxInv
  <2>n. Tax!NoTax.payer # q
    BY TaxConstants
  <2>w. WorksOn(x, q) => WorksOn(collector[k], q)
    BY <1>3, <2>n DEF WorksOn
  <2>f. PaidFor(x, q) = 0
    BY <1>3 DEF PaidFor
  <2>5. Tax!Unrecorded(q)' = Tax!Unrecorded(q) - PaidFor(collector[k], q) + PaidFor(x, q)
    BY <1>0, <1>3, UnrecordedMoves
  <2>6. Tax!Unrecorded(q) \in Int /\ added[q] \in Int /\ relieved[q] \in Int /\ collected[q] \in Int
    BY <1>0, UnrecordedTyped, TaxTypes
  <2>7. CASE owed'[q] = owed[q] /\ PaidFor(collector[k], q) = 0
    <3>1. CollectedOnce(q)'
      <4>1. RowsCover(x, q, owed'[q])
        BY <1>3, <2>1, <2>7, <2>n DEF CollectedOnce, RowsCover
      <4>2. owed'[q] = owed[q] \/ WorksOn(collector[k], q)
        BY <2>7
      <4> QED BY <1>0, <1>3, <2>1, <2>w, <4>1, <4>2, CollectionStep
    <3>2. Tax!Unrecorded(q)' = Tax!Unrecorded(q)
      BY <2>5, <2>6, <2>7, <2>f
    <3>3. OneRow(q)' /\ TaxBalance(q)'
      BY <1>1, <2>1, <2>7, <3>2 DEF OneRow, TaxBalance, Tax!Owed
    <3> QED BY <3>1, <3>3
  <2>8. CASE /\ q = t.payer /\ collector[k].at = "paid"
             /\ owed' = [owed EXCEPT ![t.payer] = s]
    <3>1. owed[q] # <<>> /\ t.amount <= owed[q][1]
      BY <2>1, <2>8 DEF CollectedOnce
    <3>2. PICK m \in Nat : owed[q] = <<m>>
      BY <2>1, <3>1 DEF OneRow
    <3>3. PICK n \in Nat : n = t.amount
      BY <1>2
    <3>4. n <= m
      BY <3>1, <3>2, <3>3
    <3>5. owed'[q] = <<m - n>> /\ m - n \in Nat
      <4>1. owed'[q] = s
        BY <1>0, <1>2, <2>8, TaxTypes
      <4>2. s = <<Tax!Minus(m, n)>> /\ Tax!Minus(m, n) = m - n /\ Tax!Minus(m, n) \in Nat
        <5>1. s = [i \in DOMAIN owed[q] |-> Tax!Minus(owed[q][i], n)]
          BY <2>8, <3>3 DEF s
        <5>2. /\ [i \in DOMAIN owed[q] |-> Tax!Minus(owed[q][i], n)] = <<Tax!Minus(m, n)>>
              /\ Tax!Minus(m, n) \in Nat /\ (n <= m => Tax!Minus(m, n) = m - n)
          BY <3>2, EachRow
        <5> QED BY <3>4, <5>1, <5>2
      <4> QED BY <4>1, <4>2
    <3>6. Tax!Owed(q) = m /\ Tax!Owed(q)' = m - n
      BY <3>2, <3>5, TotalOfRow DEF Tax!Owed
    <3>7. PaidFor(collector[k], q) = n
      BY <2>8, <3>3 DEF PaidFor
    <3>8. CollectedOnce(q)'
      <4>1. WorksOn(collector[k], q)
        BY <2>8 DEF WorksOn
      <4>2. \A u \in collector[k].todo : u.payer # q
        BY <2>1, <2>8 DEF CollectedOnce
      <4>3. RowsCover(x, q, owed'[q])
        BY <1>3, <4>2, <2>n DEF RowsCover
      <4> QED BY <1>0, <1>3, <2>1, <4>1, <4>3, CollectionStep
    <3>9. TaxBalance(q)'
      <4>1. PICK d \in Int : d = 0 - n
        OBVIOUS
      <4>2. Tax!Unrecorded(q)' = Tax!Unrecorded(q) + d
        BY <2>5, <2>6, <2>f, <3>7, <4>1
      <4>3. Tax!Owed(q)' = Tax!Owed(q) + d /\ Tax!Owed(q) \in Int
        BY <3>6, <4>1
      <4>4. /\ added'[q] = added[q] + 0 /\ relieved'[q] = relieved[q] + 0
            /\ collected'[q] = collected[q] + 0 /\ 0 + d = d + 0 + 0
        BY <1>1, <2>6
      <4> QED BY <1>0, <2>1, <4>2, <4>3, <4>4, BalanceStep
    <3> QED BY <3>5, <3>8, <3>9 DEF OneRow
  <2>9. \/ owed'[q] = owed[q] /\ PaidFor(collector[k], q) = 0
        \/ q = t.payer /\ collector[k].at = "paid" /\ owed' = [owed EXCEPT ![t.payer] = s]
    <3>1. CASE q # t.payer
      BY <1>6, <3>1 DEF PaidFor
    <3>2. CASE q = t.payer
      <4>1. q \notin tDisturbed'
        BY DEF TaxExempt
      <4> QED BY <1>4, <3>2, <4>1 DEF PaidFor
    <3> QED BY <3>1, <3>2
  <2> QED BY <2>7, <2>8, <2>9
<1> QED BY <1>7, <1>8 DEF TaxInv

LEMMA TaxStep == TaxInv /\ [Tax!Next]_dueVars => TaxInv'
<1> SUFFICES ASSUME TaxInv, [Tax!Next]_dueVars PROVE TaxInv'
  OBVIOUS
<1>1. ASSUME NEW p \in Taxpayers, NEW n \in TaxAmounts,
             Tax!ReduceTaxOwed(p, n) \/ \E c \in Pair : Tax!AddTaxOwed(c, p, n)
      PROVE  TaxInv'
  BY <1>1, TaxReduced, TaxAdded
<1>2. ASSUME NEW c \in Pair, Tax!CreateTaxRow(c) PROVE TaxInv'
  BY <1>2, TaxRowCreated
<1>3. ASSUME NEW k \in Others,
             \/ Tax!CollectTaxes(k) \/ Tax!RecordCollectionResult(k) \/ Tax!FailCollection(k)
             \/ \E t \in collector[k].todo : Tax!CollectSingleTax(k, t)
      PROVE  TaxInv'
  BY <1>3, TaxesRead, TaxSettled, TaxPaid
<1>4. CASE UNCHANGED dueVars
  <2>0. TaxTyped
    BY DEF TaxInv
  <2>1. TaxTyped' /\ TaxExempt' = TaxExempt
        /\ UNCHANGED <<owed, collector, added, relieved, collected>>
    BY <1>4, <2>0 DEF dueVars, TaxTyped, CollectionMatches, TaxExempt
  <2>2. ASSUME NEW q \in Taxpayers \ TaxExempt
        PROVE  OneRow(q)' /\ CollectedOnce(q)' /\ TaxBalance(q)'
    <3>1. OneRow(q) /\ CollectedOnce(q) /\ TaxBalance(q)
      BY DEF TaxInv
    <3>2. CollectedOnce(q)'
      BY <2>0, <2>1, <3>1, CollectionsKept
    <3> QED BY <2>1, <3>1, <3>2, TaxBalanceKept DEF OneRow
  <2> QED BY <2>1, <2>2 DEF TaxInv
<1> QED BY <1>1, <1>2, <1>3, <1>4 DEF Tax!Next

LEMMA TaxInitially == Tax!Init => TaxInv
<1> SUFFICES ASSUME Tax!Init PROVE TaxInv
  OBVIOUS
<1>1. /\ owed = [p \in Taxpayers |-> <<>>]
      /\ recorder = [c \in Pair |-> Tax!NoTax] /\ collector = [k \in Others |-> Tax!Idle]
      /\ added = [p \in Taxpayers |-> 0] /\ relieved = [p \in Taxpayers |-> 0]
      /\ collected = [p \in Taxpayers |-> 0]
  BY DEF Tax!Init
<1>2. Tax!Idle = [at |-> "idle", todo |-> {}, item |-> Tax!NoTax]
  BY DEF Tax!Idle
<1>3. TaxTyped
  <2>1. Tax!Idle \in TaxRuns /\ CollectionMatches(Tax!Idle)
    BY <1>2 DEF TaxRuns, TaxSteps, CollectionMatches
  <2>2. <<>> \in Seq(Nat)
    OBVIOUS
  <2> QED BY <1>1, <2>1, <2>2 DEF TaxTyped
<1>4. ASSUME NEW p \in Taxpayers PROVE OneRow(p) /\ CollectedOnce(p) /\ TaxBalance(p)
  <2>1. \A k \in Others : ~ Tax!Collecting(k, p) /\ collector[k].todo = {} /\ collector[k].at = "idle"
    BY <1>1, <1>2, TaxConstants DEF Tax!Collecting
  <2>2. OneRow(p) /\ CollectedOnce(p)
    BY <1>1, <2>1 DEF OneRow, CollectedOnce
  <2>3. Tax!Unrecorded(p) = 0
    <3> DEFINE f == [k \in Others |-> IF collector[k].at = "paid" /\ collector[k].item.payer = p
                                      THEN collector[k].item.amount ELSE 0]
    <3>1. f \in [Others -> Int] /\ \A k \in Others : f[k] = 0
      BY <2>1
    <3>2. Tax!Unrecorded(p) = Tax!SumFunctionOnSet(f, Others)
      BY DEF Tax!Unrecorded
    <3> HIDE DEF f
    <3>3. IsFiniteSet(Others) /\ Others \in SUBSET Others
      BY TaxConstants
    <3>4. SumFunctionOnSet(f, Others) = 0
      BY <3>1, <3>3, SumOfZeros
    <3> QED BY <3>2, <3>4, TaxSameSum
  <2>4. Tax!Owed(p) = 0
    <3>1. Tax!Total(<<>>) = 0
      BY TotalOfRow
    <3> QED BY <1>1, <3>1 DEF Tax!Owed
  <2>5. TaxBalance(p)
    BY <1>1, <2>3, <2>4 DEF TaxBalance
  <2> QED BY <2>2, <2>5
<1> QED BY <1>3, <1>4 DEF TaxInv

-----------------------------------------------------------------------------
(* Sessions.  An order is triggered only if its stop was reached, or it has   *)
(* none; the next opening exists since not every day of a week is without     *)
(* trade.                                                                     *)

\* What the row of an order may be.
SessionRows == [status : {"NONE", "PENDING", "APPROVED"}, after : BOOLEAN,
                triggered : BOOLEAN, done : BOOLEAN, next : Int]

SessionInv ==
    /\ Session!SessionTypeOK /\ Session!FilledAtItsPrice
    /\ sOrder.row.triggered => reached \/ sOrder.ask.stop = NoPrice
    /\ sOrder \in [ask : Asks, row : SessionRows]

LEMMA ModUnique ==
  ASSUME NEW q \in Int, NEW b \in Nat, NEW r \in 0 .. b - 1
  PROVE  (b * q + r) % b = r
OBVIOUS

\* A set of integers between two has a least element.
LEMMA LeastExists ==
  ASSUME NEW d \in Int, NEW n \in Nat, NEW S \in SUBSET (d .. d + n), S # {}
  PROVE  Session!Min(S) \in S /\ \A y \in S : Session!Min(S) <= y
<1> DEFINE shifted == {y - d : y \in S}
<1>1. shifted \subseteq Nat /\ shifted # {}
  OBVIOUS
<1>2. PICK m \in shifted : \A k \in shifted : <<k, m>> \notin OpToRel(<, Nat)
  <2> HIDE DEF shifted
  <2> QED BY <1>1, NatLessThanWellFounded, WFMin
<1>3. PICK x \in S : m = x - d
  OBVIOUS
<1>4. ASSUME NEW y \in S PROVE x <= y
  <2>1. y - d \in shifted /\ y - d \in Nat /\ m \in Nat
    OBVIOUS
  <2>2. ~ (y - d < m)
    <3> HIDE DEF shifted
    <3> QED BY <2>1, <1>2 DEF OpToRel
  <2>3. x \in Int /\ y \in Int
    OBVIOUS
  <2> QED BY <1>3, <2>1, <2>2, <2>3
<1> QED BY <1>4 DEF Session!Min

LEMMA SessionConstants ==
  /\ Day \in Nat \ {0} /\ Week \in Nat \ {0} /\ OpenTime \in Nat /\ AfterHoursDelay \in Nat
  /\ MaxWait \in Nat /\ MaxClock \in Nat /\ Offsets \subseteq Int
  /\ Prices \subseteq Nat /\ NoPrice \notin Prices
  /\ \E r \in 0 .. Week - 1 : r \notin Weekend
  /\ \A ask \in Asks : /\ ask.side \in {"BUY", "SELL"}
                       /\ ask.limit \in Prices \cup {NoPrice}
<1>1. Session!SessionsAssumption
  BY TradingAssumption
<1>2. \E r \in 0 .. Week - 1 : r \notin Weekend
  BY <1>1 DEF Session!SessionsAssumption
<1>3. Week # 0 /\ Day # 0
  BY <1>1, <1>2 DEF Session!SessionsAssumption
<1> QED BY <1>1, <1>2, <1>3 DEF Session!SessionsAssumption

\* A day of trade.
Trades(e) == e \in Int /\ ~ Session!IsWeekend(e)

\* Among the days of a week there is one with trade.
LEMMA TradingDay ==
  ASSUME NEW d \in Int PROVE \E e \in d .. d + Week : Trades(e)
<1>1. PICK r \in 0 .. Week - 1 : r \notin Weekend
  BY SessionConstants
<1>2. PICK w \in Nat \ {0} : w = Week
  BY SessionConstants
<1>3. PICK q \in Int, m \in 0 .. w - 1 : r - d = w * q + m
  <2>1. r - d \in Int
    BY <1>1
  <2>2. /\ r - d = w * ((r - d) \div w) + ((r - d) % w)
        /\ (r - d) \div w \in Int /\ (r - d) % w \in 0 .. w - 1
    BY <2>1
  <2> QED BY <2>2
<1>4. d + m = w * (0 - q) + r
  <2>1. w * (0 - q) = 0 - w * q
    OBVIOUS
  <2>2. w * q \in Int
    OBVIOUS
  <2> QED BY <1>1, <1>3, <2>1, <2>2
<1>5. (d + m) % w = r
  <2>1. 0 - q \in Int /\ w \in Nat /\ r \in 0 .. w - 1
    BY <1>1, <1>2
  <2>2. (w * (0 - q) + r) % w = r
    BY ONLY <2>1, ModUnique
  <2> QED BY <1>4, <2>2
<1>6. d + m \in d .. d + Week /\ d + m \in Int
  BY <1>2
<1> QED BY <1>1, <1>2, <1>5, <1>6 DEF Trades, Session!IsWeekend

LEMMA OpeningTyped == ASSUME NEW d \in Int PROVE Session!NextTradingOpen(d) \in Int
<1> DEFINE S == {e \in d .. d + Week : ~ Session!IsWeekend(e)}
<1>1. S # {}
  BY TradingDay DEF Trades
<1>2. S \in SUBSET (d .. d + Week) /\ S # {} /\ Week \in Nat
  BY <1>1, SessionConstants
<1> HIDE DEF S
<1>3. Session!Min(S) \in Int
  <2>1. PICK n \in Nat : n = Week
    BY <1>2
  <2>2. Session!Min(S) \in S
    BY <1>2, <2>1, LeastExists
  <2>3. \A e \in d .. d + n : e \in Int
    OBVIOUS
  <2> QED BY ONLY <1>2, <2>1, <2>2, <2>3
<1>4. Session!NextTradingOpen(d) = Session!Min(S) * Day + OpenTime
  BY DEF Session!NextTradingOpen, Session!Open, S
<1> QED BY <1>3, <1>4, SessionConstants

LEMMA ExecutionTimeTyped ==
  ASSUME sNow \in Nat, offset \in Int, enabled \in BOOLEAN, NEW after \in BOOLEAN
  PROVE  Session!InitialExecutionTime(after) \in Int
<1>1. PICK t \in Int : t = sNow + offset
  OBVIOUS
<1>2. PICK d \in Int : d = Session!DayOf(t)
  BY <1>1, SessionConstants DEF Session!DayOf
<1>3. Session!NextTradingOpen(d) \in Int /\ Session!NextTradingOpen(d + 1) \in Int
  BY OpeningTyped
<1>4. Session!ResolveExchangeSession.next \in Int
  <2>1. CASE ~ enabled
    BY <1>1, <2>1 DEF Session!ResolveExchangeSession
  <2>2. CASE enabled
    <3>1. Session!ResolveExchangeSession.next \in
            {Session!NextTradingOpen(d), Session!NextTradingOpen(d + 1)}
      BY <1>1, <1>2, <2>2 DEF Session!ResolveExchangeSession
    <3> QED BY <1>3, <3>1
  <2> QED BY <2>1, <2>2
<1>5. sNow + AfterHoursDelay \in Int
  BY SessionConstants
<1> QED BY <1>4, <1>5 DEF Session!InitialExecutionTime

\* The price of a fill is the listing's or the limit, whichever is better for the bank.
LEMMA PriceTyped ==
  ASSUME NEW ask \in Asks, NEW p \in Prices,
         NEW x \in Session!ResolveExecutionPrice(ask, p)
  PROVE  /\ x \in Prices
         /\ ask.limit # NoPrice => IF ask.side = "BUY" THEN x <= ask.limit ELSE x >= ask.limit
<1>1. /\ ask.side \in {"BUY", "SELL"} /\ ask.limit \in Prices \cup {NoPrice}
      /\ Prices \subseteq Int
  BY SessionConstants
<1>2. ASSUME NEW a \in Int, NEW b \in Int
      PROVE  /\ Session!Min({a, b}) \in {a, b} /\ Session!Min({a, b}) <= a
             /\ Session!Max({a, b}) \in {a, b} /\ Session!Max({a, b}) >= a
  <2>1. \E z \in {a, b} : \A y \in {a, b} : z <= y
    OBVIOUS
  <2>2. \E z \in {a, b} : \A y \in {a, b} : z >= y
    OBVIOUS
  <2>3. Session!Min({a, b}) \in {a, b} /\ \A y \in {a, b} : Session!Min({a, b}) <= y
    BY <2>1 DEF Session!Min
  <2>4. Session!Max({a, b}) \in {a, b} /\ \A y \in {a, b} : Session!Max({a, b}) >= y
    BY <2>2 DEF Session!Max
  <2> QED BY <2>3, <2>4
<1>3. CASE ask.limit = NoPrice
  BY <1>3 DEF Session!ResolveExecutionPrice
<1>4. CASE ask.limit # NoPrice /\ ask.side = "BUY"
  <2>1. x = Session!Min({ask.limit, p})
    BY <1>4 DEF Session!ResolveExecutionPrice
  <2>2. ask.limit \in Int /\ p \in Int /\ ask.limit \in Prices
    BY <1>1, <1>4
  <2>3. x \in {ask.limit, p} /\ x <= ask.limit
    BY <1>2, <2>1, <2>2
  <2> QED BY <1>4, <2>2, <2>3
<1>5. CASE ask.limit # NoPrice /\ ask.side # "BUY"
  <2>1. x = Session!Max({ask.limit, p})
    BY <1>5 DEF Session!ResolveExecutionPrice
  <2>2. ask.limit \in Int /\ p \in Int /\ ask.limit \in Prices
    BY <1>1, <1>5
  <2>3. x \in {ask.limit, p} /\ x >= ask.limit
    BY <1>2, <2>1, <2>2
  <2> QED BY <1>5, <2>2, <2>3
<1> QED BY <1>3, <1>4, <1>5

LEMMA SessionsInitially == Session!Init => SessionInv
<1> SUFFICES ASSUME Session!Init PROVE SessionInv
  OBVIOUS
<1>1. 0 \in 0 .. MaxClock
  BY SessionConstants
<1>2. sOrder \in [ask : Asks, row : SessionRows]
  <2>1. Session!NoRow \in SessionRows
    BY DEF Session!NoRow, SessionRows
  <2> QED BY <2>1 DEF Session!Init
<1>3. /\ sOrder.row.triggered = FALSE /\ sOrder.row.after = FALSE /\ sOrder.row.done = FALSE
      /\ sOrder.row.status = "NONE" /\ sOrder.row.next = 0 /\ sOrder.ask \in Asks
  <2>1. sOrder.row = Session!NoRow /\ sOrder.ask \in Asks
    BY DEF Session!Init
  <2>2. /\ Session!NoRow.triggered = FALSE /\ Session!NoRow.after = FALSE
        /\ Session!NoRow.done = FALSE /\ Session!NoRow.status = "NONE" /\ Session!NoRow.next = 0
    BY DEF Session!NoRow
  <2> QED BY <2>1, <2>2
<1>4. /\ sNow = 0 /\ offset \in Offsets /\ sPrice \in Prices /\ enabled = TRUE
      /\ polled = FALSE /\ last = 0 /\ reached = FALSE /\ filled = {}
  BY DEF Session!Init
<1>5. Session!SessionTypeOK
  <2>1. {sOrder.row.after, sOrder.row.triggered, sOrder.row.done, polled} \subseteq BOOLEAN
    BY <1>3, <1>4
  <2>2. enabled \in BOOLEAN /\ reached \in BOOLEAN
    BY <1>4
  <2>3. sNow \in 0 .. MaxClock /\ last \in 0 .. MaxClock
    BY <1>1, <1>4
  <2>4. /\ offset \in Offsets /\ sPrice \in Prices /\ filled \subseteq Prices
        /\ sOrder.ask \in Asks /\ sOrder.row.status \in {"NONE", "PENDING", "APPROVED"}
        /\ sOrder.row.next \in Int
    BY <1>3, <1>4
  <2> QED BY ONLY <2>1, <2>2, <2>3, <2>4 DEF Session!SessionTypeOK
<1>6. Session!FilledAtItsPrice
  BY <1>4 DEF Session!FilledAtItsPrice
<1> QED BY <1>2, <1>3, <1>5, <1>6 DEF SessionInv

LEMMA SessionStep == SessionInv /\ [Session!Next]_hourVars => SessionInv'
<1> SUFFICES ASSUME SessionInv, [Session!Next]_hourVars PROVE SessionInv'
  OBVIOUS
<1>0. /\ sNow \in 0 .. MaxClock /\ sNow \in Nat /\ enabled \in BOOLEAN /\ offset \in Offsets
      /\ sPrice \in Prices /\ sOrder.ask \in Asks /\ sOrder.row \in SessionRows
      /\ sOrder \in [ask : Asks, row : SessionRows] /\ polled \in BOOLEAN
      /\ last \in 0 .. MaxClock /\ reached \in BOOLEAN /\ filled \subseteq Prices
      /\ offset \in Int /\ MaxClock \in Nat
  BY SessionConstants DEF SessionInv, Session!SessionTypeOK
<1>1. \A after \in BOOLEAN : Session!InitialExecutionTime(after) \in Int
  BY <1>0, ExecutionTimeTyped
<1>2. ASSUME NEW r \in SessionRows, sOrder' = [sOrder EXCEPT !.row = r],
             enabled' \in BOOLEAN, offset' \in Offsets, sPrice' \in Prices, polled' \in BOOLEAN,
             sNow' \in 0 .. MaxClock, last' \in 0 .. MaxClock, reached' \in BOOLEAN,
             reached => reached', r.triggered => reached' \/ sOrder.ask.stop = NoPrice,
             filled' \subseteq Prices, filled' # {} => reached',
             sOrder.ask.limit # NoPrice => \A p \in filled' :
               IF sOrder.ask.side = "BUY" THEN p <= sOrder.ask.limit ELSE p >= sOrder.ask.limit
      PROVE  SessionInv'
  <2>1. sOrder' \in [ask : Asks, row : SessionRows] /\ sOrder'.ask = sOrder.ask /\ sOrder'.row = r
    BY <1>0, <1>2
  <2>2. Session!SessionTypeOK'
    <3>1. /\ sOrder'.row.status \in {"NONE", "PENDING", "APPROVED"} /\ sOrder'.row.next \in Int
          /\ sOrder'.row.after \in BOOLEAN /\ sOrder'.row.triggered \in BOOLEAN
          /\ sOrder'.row.done \in BOOLEAN /\ sOrder'.ask \in Asks
      BY <1>0, <2>1 DEF SessionRows
    <3> QED BY <1>2, <3>1 DEF Session!SessionTypeOK
  <2>3. Session!FilledAtItsPrice'
    BY <1>2, <2>1 DEF Session!FilledAtItsPrice
  <2> QED BY <1>2, <2>1, <2>2, <2>3 DEF SessionInv
<1>3. ASSUME NEW s \in {"PENDING", "APPROVED"}, Session!PlaceOrder(s) PROVE SessionInv'
  <2>1. PICK after : after = Session!ResolveExchangeSession.after
    OBVIOUS
  <2>2. after \in BOOLEAN
    BY <2>1 DEF Session!ResolveExchangeSession
  <2>3. PICK n : n = IF s = "APPROVED" THEN Session!InitialExecutionTime(after) ELSE 0
    OBVIOUS
  <2>4. PICK r : r = [status |-> s, after |-> after, triggered |-> sOrder.ask.stop = NoPrice,
                      done |-> FALSE, next |-> n]
    OBVIOUS
  <2>5. r \in SessionRows /\ (r.triggered => sOrder.ask.stop = NoPrice)
    <3>1. n \in Int
      BY <1>1, <2>2, <2>3
    <3> QED BY <2>2, <2>4, <3>1 DEF SessionRows
  <2>6. sOrder' = [sOrder EXCEPT !.row = r] /\ last' = sNow
    BY <1>3, <2>1, <2>3, <2>4 DEF Session!PlaceOrder
  <2>7. /\ sNow' = sNow /\ enabled' = enabled /\ offset' = offset /\ sPrice' = sPrice
        /\ polled' = polled /\ reached' = reached /\ filled' = filled
    BY <1>3 DEF Session!PlaceOrder
  <2> QED BY <1>0, <1>2, <2>5, <2>6, <2>7 DEF SessionInv, Session!FilledAtItsPrice
<1>4. CASE Session!ApproveOrder
  <2>1. PICK n : n = Session!InitialExecutionTime(sOrder.row.after)
    OBVIOUS
  <2>2. PICK r : r = [[sOrder.row EXCEPT !.status = "APPROVED"] EXCEPT !.next = n]
    OBVIOUS
  <2>3. r \in SessionRows /\ r.triggered = sOrder.row.triggered
    <3>1. n \in Int
      BY <1>0, <1>1, <2>1 DEF SessionRows
    <3> QED BY <1>0, <2>2, <3>1 DEF SessionRows
  <2>4. sOrder' = [sOrder EXCEPT !.row = r] /\ last' = sNow
    BY <1>0, <1>4, <2>1, <2>2 DEF Session!ApproveOrder, SessionRows
  <2>5. /\ sNow' = sNow /\ enabled' = enabled /\ offset' = offset /\ sPrice' = sPrice
        /\ polled' = polled /\ reached' = reached /\ filled' = filled
    BY <1>4 DEF Session!ApproveOrder
  <2> QED BY <1>0, <1>2, <2>3, <2>4, <2>5 DEF SessionInv, Session!FilledAtItsPrice
<1>5. CASE Session!PutOff
  <2>1. PICK n : n = Session!InitialExecutionTime(sOrder.row.after)
    OBVIOUS
  <2>2. PICK r : r = [sOrder.row EXCEPT !.next = n]
    OBVIOUS
  <2>3. r \in SessionRows /\ r.triggered = sOrder.row.triggered
    <3>1. n \in Int
      BY <1>0, <1>1, <2>1 DEF SessionRows
    <3> QED BY <1>0, <2>2, <3>1 DEF SessionRows
  <2>4. sOrder' = [sOrder EXCEPT !.row = r] /\ polled' = TRUE
    BY <1>0, <1>5, <2>1, <2>2 DEF Session!PutOff, SessionRows
  <2>5. /\ sNow' = sNow /\ enabled' = enabled /\ offset' = offset /\ sPrice' = sPrice
        /\ last' = last /\ reached' = reached /\ filled' = filled
    BY <1>5 DEF Session!PutOff
  <2> QED BY <1>0, <1>2, <2>3, <2>4, <2>5 DEF SessionInv, Session!FilledAtItsPrice
<1>6. CASE Session!Wait
  <2>1. PICK t : t = (sOrder.row.triggered \/ Session!StopConditionMet(sOrder.ask, sPrice))
    OBVIOUS
  <2>2. PICK r : r = [[sOrder.row EXCEPT !.triggered = t] EXCEPT !.next = sNow + 1]
    OBVIOUS
  <2>3. r \in SessionRows /\ r.triggered = t
    <3>1. t \in BOOLEAN
      BY <2>1
    <3>2. sNow + 1 \in Int
      BY <1>0
    <3> QED BY <1>0, <2>2, <3>1, <3>2 DEF SessionRows
  <2>4. sOrder' = [sOrder EXCEPT !.row = r]
    BY <1>0, <1>6, <2>1, <2>2 DEF Session!Wait, SessionRows
  <2>5. /\ sNow' = sNow /\ enabled' = enabled /\ offset' = offset /\ sPrice' = sPrice
        /\ last' = sNow /\ filled' = filled /\ polled' = TRUE
        /\ reached' = (reached \/ Session!StopConditionMet(sOrder.ask, sPrice))
    BY <1>6 DEF Session!Wait
  <2>6. reached' \in BOOLEAN /\ (reached => reached')
    BY <2>5
  <2>7. t => reached' \/ sOrder.ask.stop = NoPrice
    BY <2>1, <2>5 DEF SessionInv
  <2> QED BY <1>0, <1>2, <2>3, <2>4, <2>5, <2>6, <2>7 DEF SessionInv, Session!FilledAtItsPrice
<1>7. CASE Session!Fill
  <2>0. PICK done \in BOOLEAN, wait \in 0 .. MaxWait :
          sOrder' = [sOrder EXCEPT !.row.triggered = TRUE, !.row.done = done, !.row.next =
                       sNow + wait + (IF sOrder.row.after THEN AfterHoursDelay ELSE 0)]
    BY <1>7 DEF Session!Fill
  <2>1. PICK x : /\ x = sNow + wait + (IF sOrder.row.after THEN AfterHoursDelay ELSE 0)
                 /\ sOrder' = [sOrder EXCEPT !.row.triggered = TRUE, !.row.done = done,
                                             !.row.next = x]
    BY <2>0
  <2>2. x \in Int
    BY <1>0, <2>1, SessionConstants
  <2>3. PICK r : r = [[[sOrder.row EXCEPT !.triggered = TRUE] EXCEPT !.done = done] EXCEPT !.next = x]
    OBVIOUS
  <2>4. r \in SessionRows
    BY <1>0, <2>2, <2>3 DEF SessionRows
  <2>5. sOrder' = [sOrder EXCEPT !.row = r]
    BY <1>0, <2>1, <2>3 DEF SessionRows
  <2>6. /\ sNow' = sNow /\ enabled' = enabled /\ offset' = offset /\ sPrice' = sPrice
        /\ last' = sNow /\ polled' = TRUE
        /\ reached' = (reached \/ Session!StopConditionMet(sOrder.ask, sPrice))
        /\ filled' = filled \cup Session!ResolveExecutionPrice(sOrder.ask, sPrice)
    BY <1>7 DEF Session!Fill
  <2>7. reached' = TRUE
    <3>1. sOrder.row.triggered \/ Session!StopConditionMet(sOrder.ask, sPrice)
      BY <1>7 DEF Session!Fill
    <3>2. sOrder.ask.stop = NoPrice => Session!StopConditionMet(sOrder.ask, sPrice)
      BY DEF Session!StopConditionMet
    <3> QED BY <2>6, <3>1, <3>2 DEF SessionInv
  <2>8. \A p \in Session!ResolveExecutionPrice(sOrder.ask, sPrice) :
          /\ p \in Prices
          /\ sOrder.ask.limit # NoPrice =>
               IF sOrder.ask.side = "BUY" THEN p <= sOrder.ask.limit ELSE p >= sOrder.ask.limit
    BY <1>0, PriceTyped
  <2>9. /\ filled' \subseteq Prices
        /\ sOrder.ask.limit # NoPrice => \A p \in filled' :
             IF sOrder.ask.side = "BUY" THEN p <= sOrder.ask.limit ELSE p >= sOrder.ask.limit
    BY <1>0, <2>6, <2>8 DEF SessionInv, Session!FilledAtItsPrice
  <2> QED BY <1>0, <1>2, <2>4, <2>5, <2>6, <2>7, <2>9
<1>8. ASSUME Session!Tick \/ Session!ToggleTradingEnabled \/ UNCHANGED hourVars PROVE SessionInv'
  <2>1. /\ sOrder' = sOrder /\ last' = last /\ reached' = reached /\ filled' = filled
        /\ offset' = offset
    BY <1>8 DEF Session!Tick, Session!ToggleTradingEnabled, hourVars
  <2>2. sOrder' = [sOrder EXCEPT !.row = sOrder.row]
    BY <1>0, <2>1
  <2>3. /\ sNow' \in 0 .. MaxClock /\ sPrice' \in Prices /\ polled' \in BOOLEAN
        /\ enabled' \in BOOLEAN
    <3>1. CASE Session!Tick
      <4>1. sNow < MaxClock /\ sNow' = sNow + 1 /\ polled' = FALSE /\ sPrice' \in Prices
            /\ enabled' = enabled
        BY <3>1 DEF Session!Tick
      <4>2. sNow' \in 0 .. MaxClock
        BY <1>0, <4>1
      <4> QED BY <1>0, <4>1, <4>2
    <3>2. CASE Session!ToggleTradingEnabled
      BY <1>0, <3>2 DEF Session!ToggleTradingEnabled
    <3>3. CASE UNCHANGED hourVars
      BY <1>0, <3>3 DEF hourVars
    <3> QED BY <1>8, <3>1, <3>2, <3>3
  <2> QED BY <1>0, <1>2, <2>1, <2>2, <2>3 DEF SessionInv, Session!FilledAtItsPrice
<1> QED BY <1>3, <1>4, <1>5, <1>6, <1>7, <1>8 DEF Session!Next

-----------------------------------------------------------------------------
(* Time.  An order that is put off is put off to the next opening on the      *)
(* exchange's clock, or by a delay; so that it is due before the session that *)
(* follows has ended, if the delays are no longer than a session.             *)

\* The hours of an exchange, as facts about numbers.
Length == CloseTime - OpenTime

LEMMA HourConstants ==
  /\ Day \in Nat /\ Week \in Nat /\ OpenTime \in Nat /\ CloseTime \in Nat
  /\ OpenTime < CloseTime /\ CloseTime < Day /\ Offsets \subseteq Int
  /\ AfterHoursDelay \in Nat /\ MaxWait \in Nat
<1>1. Session!SessionsAssumption
  BY TradingAssumption
<1> QED BY <1>1 DEF Session!SessionsAssumption

LEMMA DayUnique ==
  ASSUME NEW b \in Nat, NEW q \in Int, NEW r \in 0 .. b - 1
  PROVE  (q * b + r) \div b = q
OBVIOUS

LEMMA DayBounds ==
  ASSUME NEW b \in Nat, b > 0, NEW t \in Int
  PROVE  t \div b \in Int /\ (t \div b) * b <= t /\ t < (t \div b) * b + b
OBVIOUS

LEMMA DaysInOrder ==
  ASSUME NEW b \in Nat, NEW d \in Int, NEW e \in Int, d <= e
  PROVE  d * b <= e * b
OBVIOUS

LEMMA DaysApart ==
  ASSUME NEW b \in Nat, NEW d \in Int, NEW e \in Int, d < e
  PROVE  d * b + b <= e * b
OBVIOUS

LEMMA OpenTyped ==
  ASSUME NEW e \in Int
  PROVE  /\ Session!Open(e) \in Int /\ Session!Close(e) \in Int
         /\ Session!Open(e) = e * Day + OpenTime /\ Session!Close(e) = e * Day + CloseTime
         /\ e * Day \in Int
BY HourConstants DEF Session!Open, Session!Close

LEMMA OpeningsInOrder ==
  ASSUME NEW d \in Int, NEW e \in Int
  PROVE  /\ d <= e => Session!Open(d) <= Session!Open(e)
         /\ d < e => Session!Close(d) < Session!Open(e)
<1>1. PICK b \in Nat : b = Day
  BY HourConstants
<1>2. d * b \in Int /\ e * b \in Int
  OBVIOUS
<1>3. (d <= e => d * b <= e * b) /\ (d < e => d * b + b <= e * b)
  BY DaysInOrder, DaysApart
<1>4. /\ Session!Open(d) = d * b + OpenTime /\ Session!Open(e) = e * b + OpenTime
      /\ Session!Close(d) = d * b + CloseTime
      /\ OpenTime \in Nat /\ CloseTime \in Nat /\ CloseTime < b
  BY <1>1, OpenTyped, HourConstants
<1> QED BY <1>2, <1>3, <1>4

\* The day of a time, by the openings before and after it.
LEMMA DayOfTime ==
  ASSUME NEW t \in Int, NEW e \in Int
  PROVE  /\ Session!DayOf(t) \in Int
         /\ e < Session!DayOf(t) => Session!Close(e) <= t
         /\ e > Session!DayOf(t) => Session!Open(e) > t
         /\ Session!Open(e) <= t /\ t < Session!Close(e) => Session!DayOf(t) = e
<1>1. PICK b \in Nat : b = Day
  BY HourConstants
<1>2. b > 0
  BY <1>1, HourConstants
<1>3. PICK d \in Int : d = t \div b /\ d * b <= t /\ t < d * b + b
  BY <1>2, DayBounds
<1>4. d = Session!DayOf(t)
  BY <1>1, <1>3 DEF Session!DayOf
<1>5. /\ Session!Open(e) = e * b + OpenTime /\ Session!Close(e) = e * b + CloseTime
      /\ e * b \in Int /\ d * b \in Int
      /\ OpenTime \in Nat /\ CloseTime \in Nat /\ OpenTime < CloseTime /\ CloseTime < b
  BY <1>1, OpenTyped, HourConstants
<1>6. (e < d => e * b + b <= d * b) /\ (d < e => d * b + b <= e * b)
  BY DaysApart
<1>7. /\ e < d => Session!Close(e) <= t
      /\ e > d => Session!Open(e) > t
  BY <1>3, <1>5, <1>6
<1>8. Session!Open(e) <= t /\ t < Session!Close(e) => d = e
  BY <1>3, <1>5, <1>6
<1> QED BY <1>4, <1>7, <1>8

\* The next trading day's opening is no later than the opening of any one.
LEMMA NextOpeningIsLeast ==
  ASSUME NEW d \in Int, NEW e, Trades(e), d <= e
  PROVE  Session!NextTradingOpen(d) <= Session!Open(e)
<1> DEFINE S == {f \in d .. d + Week : ~ Session!IsWeekend(f)}
<1>1. PICK w \in Nat : w = Week
  BY HourConstants
<1>2. S \in SUBSET (d .. d + w) /\ S # {}
  BY <1>1, TradingDay DEF Trades
<1>3. e \in Int /\ (e <= d + w => e \in S)
  BY <1>1 DEF Trades
<1>4. Session!NextTradingOpen(d) = Session!Open(Session!Min(S))
  BY DEF Session!NextTradingOpen
<1> HIDE DEF S
<1>5. PICK m : m = Session!Min(S)
  OBVIOUS
<1>6. m \in S /\ \A y \in S : m <= y
  BY <1>2, <1>5, LeastExists
<1>7. m \in Int /\ m <= d + w
  BY <1>2, <1>6
<1>8. m <= e
  BY <1>3, <1>6, <1>7
<1> QED BY <1>3, <1>4, <1>5, <1>7, <1>8, OpeningsInOrder

\* OpeningAfter is the first opening that follows a time.
Follows(o, t) ==
    /\ o \in Int /\ o > t /\ \E e : Trades(e) /\ o = Session!Open(e) - offset
    /\ \A f : Trades(f) /\ Session!Open(f) - offset > t => o <= Session!Open(f) - offset

LEMMA OpeningFollows ==
  ASSUME NEW t \in Int, offset \in Int
  PROVE  Follows(Session!OpeningAfter(t), t)
<1>1. PICK z \in Int : z = offset
  OBVIOUS
<1>2. PICK d \in Int : d = Session!DayOf(t + z)
  BY DayOfTime
<1>3. PICK w \in Nat : w = Week
  BY HourConstants
<1> DEFINE days == {f \in d .. d + w + 1 : ~ Session!IsWeekend(f)}
<1> DEFINE S == {x \in {Session!Open(f) - z : f \in days} : x > t}
<1>4. Session!OpeningAfter(t) = Session!Min(S)
  BY <1>1, <1>2, <1>3 DEF Session!OpeningAfter
<1>5. PICK e \in d + 1 .. d + 1 + w : Trades(e)
  BY <1>3, TradingDay
<1>6. e \in days /\ e \in Int /\ Session!Open(e) > t + z
  BY <1>2, <1>5, DayOfTime DEF Trades
<1>7. Session!Open(e) - z \in S
  BY <1>6, OpenTyped
<1>8. PICK hi \in Int : \A f \in days : Session!Open(f) \in Int /\ Session!Open(f) - z <= hi
  <2>1. \A f \in days : f \in Int /\ f <= d + w + 1
    OBVIOUS
  <2>2. d + w + 1 \in Int
    OBVIOUS
  <2> HIDE DEF days
  <2>3. \A f \in days : Session!Open(f) \in Int /\ Session!Open(f) <= Session!Open(d + w + 1)
    BY <2>1, <2>2, OpenTyped, OpeningsInOrder
  <2>4. Session!Open(d + w + 1) \in Int
    BY <2>2, OpenTyped
  <2>5. PICK h \in Int : h = Session!Open(d + w + 1)
    BY <2>4
  <2>6. h - z \in Int /\ \A f \in days : Session!Open(f) - z <= h - z
    BY <2>3, <2>5
  <2> QED BY <2>3, <2>6
<1> HIDE DEF days
<1>9. PICK n \in Nat : n = hi - (t + 1)
  <2>1. Session!Open(e) - z \in Int /\ Session!Open(e) - z > t /\ Session!Open(e) - z <= hi
    BY <1>6, <1>8
  <2>2. hi - (t + 1) \in Nat
    BY <2>1
  <2> QED BY <2>2
<1>10. S \in SUBSET (t + 1 .. (t + 1) + n) /\ S # {} /\ t + 1 \in Int
  <2>1. ASSUME NEW f \in days, Session!Open(f) - z > t
        PROVE  Session!Open(f) - z \in t + 1 .. (t + 1) + n
    BY <1>8, <1>9, <2>1
  <2> QED BY <1>7, <2>1
<1>11. \A f \in days : Session!Open(f) - z > t => Session!Open(f) - z \in S
  OBVIOUS
<1>12. \A x \in S : x > t /\ x \in Int /\ \E f \in days : x = Session!Open(f) - z
  BY <1>8
<1> HIDE DEF S
<1>13. PICK o : o = Session!Min(S)
  OBVIOUS
<1>14. o \in S /\ \A y \in S : o <= y
  BY <1>10, <1>13, LeastExists
<1>15. o \in Int /\ o > t /\ \E f : Trades(f) /\ o = Session!Open(f) - offset
  BY <1>1, <1>12, <1>14 DEF days, Trades
<1>16. ASSUME NEW f, Trades(f), Session!Open(f) - z > t PROVE o <= Session!Open(f) - z
  <2>1. f \in Int /\ Session!Open(f) \in Int
    BY <1>16, OpenTyped DEF Trades
  <2>2. CASE f < d
    <3>1. Session!Close(f) <= t + z
      BY <1>2, <2>1, <2>2, DayOfTime
    <3>2. Session!Open(f) < Session!Close(f)
      BY <2>1, OpenTyped, HourConstants
    <3> QED BY <1>16, <2>1, <3>1, <3>2, OpenTyped
  <2>3. CASE f \in d .. d + w + 1
    BY <1>11, <1>14, <1>16, <2>3 DEF days, Trades
  <2>4. CASE f > d + w + 1
    <3>1. e < f
      BY <1>5, <2>1, <2>4
    <3>2. Session!Open(e) <= Session!Open(f)
      BY <1>6, <2>1, <3>1, OpeningsInOrder
    <3>3. o <= Session!Open(e) - z
      BY <1>7, <1>14
    <3> QED BY <1>6, <1>15, <2>1, <3>2, <3>3, OpenTyped
  <2> QED BY <2>1, <2>2, <2>3, <2>4
<1> QED BY <1>1, <1>4, <1>13, <1>15, <1>16 DEF Follows

\* The delays are no longer than a session: 30 minutes after hours, and between two fills
\* 24 minutes times what remains of the order over the volume of the listing.
WaitsFit == AfterHoursDelay + MaxWait <= Length

Ahead == Session!Max({0, offset})

\* o opens the next session after the order was last looked at with the exchange open.
\* An open order is due before that session ends; the clock has not passed both its due
\* time and o; and a poll that left it where it was came before o.
TimeMatches ==
    sOrder.row.status = "APPROVED" /\ ~ sOrder.row.done /\ offset < Length =>
        LET o == Session!OpeningAfter(last) IN
        /\ sOrder.row.next < o + Length
        /\ sOrder.row.next <= o + Ahead + AfterHoursDelay + MaxWait
        /\ sNow <= sOrder.row.next \/ sNow <= o
        /\ polled => sNow < o

LEMMA AheadTyped ==
  ASSUME offset \in Int PROVE Ahead \in Int /\ Ahead >= 0 /\ Ahead >= offset
<1>1. \E z \in {0, offset} : \A y \in {0, offset} : z >= y
  OBVIOUS
<1>2. Ahead \in {0, offset} /\ \A y \in {0, offset} : Ahead >= y
  BY <1>1 DEF Ahead, Session!Max
<1> QED BY <1>2

\* From the opening on the exchange is found trading, until it closes.
LEMMA FoundTrading ==
  ASSUME sNow \in Int, offset \in Int, NEW e, Trades(e),
         Session!Open(e) <= sNow + offset, sNow + offset < Session!Close(e)
  PROVE  Session!Trading
<1>1. PICK t \in Int : t = sNow + offset
  OBVIOUS
<1>2. Session!DayOf(t) = e
  BY <1>1, DayOfTime DEF Trades
<1>3. Session!ResolveExchangeSession.open
  BY <1>1, <1>2 DEF Session!ResolveExchangeSession, Trades
<1> QED BY <1>3 DEF Session!Trading

\* An order is put off by the delay, or to the opening to come at the latest, as the
\* exchange's clock shows it.
LEMMA PutOffInTime ==
  ASSUME sNow \in Int, offset \in Int, enabled \in BOOLEAN, NEW after \in BOOLEAN,
         NEW e, Trades(e), Session!Open(e) > sNow + offset,
         NEW x, x = Session!InitialExecutionTime(after)
  PROVE  x = sNow + AfterHoursDelay \/ x = sNow \/ x <= Session!Open(e)
<1>1. PICK t \in Int : t = sNow + offset
  OBVIOUS
<1>2. PICK d \in Int : d = Session!DayOf(t)
  BY <1>1, DayOfTime
<1>3. CASE after
  BY <1>3 DEF Session!InitialExecutionTime
<1>4. CASE ~ after /\ Session!ResolveExchangeSession.open
  BY <1>4 DEF Session!InitialExecutionTime
<1>5. CASE ~ after /\ ~ Session!ResolveExchangeSession.open
  <2>1. Session!InitialExecutionTime(after) = Session!ResolveExchangeSession.next
    BY <1>5 DEF Session!InitialExecutionTime
  <2>2. enabled
    BY <1>5 DEF Session!ResolveExchangeSession
  <2>3. PICK b \in Int : b = IF ~ Session!IsWeekend(d) /\ t >= Session!Close(d) THEN d + 1 ELSE d
    OBVIOUS
  <2>4. Session!ResolveExchangeSession.next = Session!NextTradingOpen(b)
    BY <1>1, <1>2, <2>2, <2>3 DEF Session!ResolveExchangeSession
  <2>5. e \in Int /\ Session!Open(e) > t /\ Session!Open(e) \in Int /\ Session!Close(e) \in Int
        /\ Session!Open(e) < Session!Close(e)
    BY <1>1, OpenTyped, HourConstants DEF Trades
  <2>6. ~ (e < d)
    BY <1>2, <2>5, DayOfTime
  <2>7. e = d => ~ (t >= Session!Close(d))
    BY <2>5
  <2>8. b <= e
    BY <2>3, <2>5, <2>6, <2>7
  <2> QED BY <2>1, <2>4, <2>8, NextOpeningIsLeast
<1> QED BY <1>3, <1>4, <1>5

LEMMA TimeInitially == Session!Init => TimeMatches
<1> SUFFICES ASSUME Session!Init PROVE TimeMatches
  OBVIOUS
<1>1. sOrder.row = Session!NoRow
  BY DEF Session!Init
<1>2. sOrder.row.status # "APPROVED"
  BY <1>1 DEF Session!NoRow
<1> QED BY <1>2 DEF TimeMatches

\* The step that looks at the order, or approves it, when its next opening is o.
LEMMA TimeRenewed ==
  ASSUME SessionInv, SessionInv', WaitsFit, offset' = offset, sNow' = sNow, last' = sNow,
         NEW o, o = Session!OpeningAfter(sNow),
         offset < Length =>
           \/ sOrder'.row.next <= sNow + AfterHoursDelay + MaxWait
           \/ sOrder'.row.next <= o + offset
           \/ sOrder'.row.next <= o
  PROVE  TimeMatches'
<1>1. /\ sNow \in Nat /\ offset \in Int /\ sOrder'.row.next \in Int
      /\ AfterHoursDelay \in Nat /\ MaxWait \in Nat /\ Length \in Nat \ {0}
  BY HourConstants, SessionConstants DEF SessionInv, Session!SessionTypeOK, Length
<1>2. o \in Int /\ sNow < o
  BY <1>1, OpeningFollows DEF Follows
<1>3. Ahead \in Int /\ Ahead >= 0 /\ Ahead >= offset
  BY <1>1, AheadTyped
<1>4. Session!OpeningAfter(last)' = o /\ Ahead' = Ahead /\ Length' = Length
  BY DEF Session!OpeningAfter, Ahead, Length
<1>5. ASSUME offset < Length
      PROVE  /\ sOrder'.row.next < o + Length
             /\ sOrder'.row.next <= o + Ahead + AfterHoursDelay + MaxWait
  BY <1>1, <1>2, <1>3, <1>5 DEF WaitsFit
<1>6. sNow' <= sOrder'.row.next \/ sNow' <= o
  BY <1>1, <1>2
<1>7. polled' => sNow' < o
  BY <1>2
<1>8. TimeMatches' <=>
        (sOrder'.row.status = "APPROVED" /\ ~ sOrder'.row.done /\ offset' < Length =>
           /\ sOrder'.row.next < o + Length
           /\ sOrder'.row.next <= o + Ahead + AfterHoursDelay + MaxWait
           /\ sNow' <= sOrder'.row.next \/ sNow' <= o
           /\ polled' => sNow' < o)
  BY <1>4 DEF TimeMatches
<1> QED BY <1>5, <1>6, <1>7, <1>8

LEMMA TimeStep ==
  ASSUME SessionInv, SessionInv', WaitsFit, TimeMatches, [Session!Next]_hourVars
  PROVE  TimeMatches'
<1>0. /\ sNow \in Nat /\ enabled \in BOOLEAN /\ offset \in Int /\ last \in Nat
      /\ polled \in BOOLEAN /\ sOrder \in [ask : Asks, row : SessionRows]
      /\ sOrder.row \in SessionRows /\ sOrder.row.next \in Int /\ sOrder.row.after \in BOOLEAN
      /\ AfterHoursDelay \in Nat /\ MaxWait \in Nat /\ Length \in Nat \ {0}
  BY HourConstants, SessionConstants DEF SessionInv, Session!SessionTypeOK, SessionRows, Length
<1>a. sOrder' \in [ask : Asks, row : SessionRows]
  BY DEF SessionInv
<1>1. PICK n : n = Session!OpeningAfter(sNow)
  OBVIOUS
<1>2. /\ n \in Int /\ n > sNow /\ \E e : Trades(e) /\ n = Session!Open(e) - offset
  BY <1>0, <1>1, OpeningFollows DEF Follows
\* Where the order is put off to.
<1>3. ASSUME NEW after \in BOOLEAN
      PROVE  \/ Session!InitialExecutionTime(after) <= sNow + AfterHoursDelay + MaxWait
             \/ Session!InitialExecutionTime(after) <= n + offset
  <2>1. PICK e : Trades(e) /\ n = Session!Open(e) - offset
    BY <1>2
  <2>2. Session!Open(e) \in Int
    BY <2>1, OpenTyped DEF Trades
  <2>3. Session!Open(e) > sNow + offset /\ Session!Open(e) = n + offset
    BY <1>0, <1>2, <2>1, <2>2
  <2>4. PICK x \in Int : x = Session!InitialExecutionTime(after)
    BY <1>0, ExecutionTimeTyped
  <2>a. sNow \in Int /\ offset \in Int /\ enabled \in BOOLEAN
    BY <1>0
  <2>5. x = sNow + AfterHoursDelay \/ x = sNow \/ x <= Session!Open(e)
    BY ONLY <1>3, <2>a, <2>1, <2>3, <2>4, PutOffInTime
  <2> QED BY <1>0, <2>3, <2>4, <2>5
<1>4. ASSUME NEW s \in {"PENDING", "APPROVED"}, Session!PlaceOrder(s) PROVE TimeMatches'
  <2>1. PICK after \in BOOLEAN : after = Session!ResolveExchangeSession.after
    BY DEF Session!ResolveExchangeSession
  <2>2. sOrder'.row.next = IF s = "APPROVED" THEN Session!InitialExecutionTime(after) ELSE 0
    BY <1>0, <1>4, <2>1 DEF Session!PlaceOrder
  <2>3. sNow' = sNow /\ offset' = offset /\ last' = sNow
    BY <1>4 DEF Session!PlaceOrder
  <2>4. 0 <= sNow + AfterHoursDelay + MaxWait
    BY <1>0
  <2>5. \/ sOrder'.row.next <= sNow + AfterHoursDelay + MaxWait
        \/ sOrder'.row.next <= n + offset
    BY <1>3, <2>2, <2>4
  <2> QED BY <1>1, <2>3, <2>5, TimeRenewed
<1>5. CASE Session!ApproveOrder
  <2>1. sOrder'.row.next = Session!InitialExecutionTime(sOrder.row.after)
    BY <1>0, <1>5 DEF Session!ApproveOrder, SessionRows
  <2>2. sNow' = sNow /\ offset' = offset /\ last' = sNow
    BY <1>5 DEF Session!ApproveOrder
  <2>3. \/ sOrder'.row.next <= sNow + AfterHoursDelay + MaxWait
        \/ sOrder'.row.next <= n + offset
    BY <1>0, <1>3, <2>1
  <2> QED BY <1>1, <2>2, <2>3, TimeRenewed
<1>6. CASE Session!Wait
  <2>1. sOrder'.row.next = sNow + 1
    BY <1>0, <1>6 DEF Session!Wait, SessionRows
  <2>2. sNow' = sNow /\ offset' = offset /\ last' = sNow
    BY <1>6 DEF Session!Wait
  <2>3. sOrder'.row.next <= n
    BY <1>0, <1>2, <2>1
  <2> QED BY <1>1, <2>2, <2>3, TimeRenewed
<1>7. CASE Session!Fill
  <2>1. PICK done \in BOOLEAN, wait \in 0 .. MaxWait :
          sOrder' = [sOrder EXCEPT !.row.triggered = TRUE, !.row.done = done, !.row.next =
                       sNow + wait + (IF sOrder.row.after THEN AfterHoursDelay ELSE 0)]
    BY <1>7 DEF Session!Fill
  <2>2. sOrder'.row.next = sNow + wait + (IF sOrder.row.after THEN AfterHoursDelay ELSE 0)
    BY <1>0, <2>1 DEF SessionRows
  <2>3. sNow' = sNow /\ offset' = offset /\ last' = sNow
    BY <1>7 DEF Session!Fill
  <2>4. sOrder'.row.next <= sNow + AfterHoursDelay + MaxWait
    BY <1>0, <2>2
  <2> QED BY <1>1, <2>3, <2>4, TimeRenewed
\* The steps after which the order is looked at as before.
<1>8. PICK o : o = Session!OpeningAfter(last)
  OBVIOUS
<1>9. /\ o \in Int /\ \E e : Trades(e) /\ o = Session!Open(e) - offset
      /\ \A f : Trades(f) /\ Session!Open(f) - offset > last => o <= Session!Open(f) - offset
  BY <1>0, <1>8, OpeningFollows DEF Follows
<1>10. Ahead \in Int /\ Ahead >= 0 /\ Ahead >= offset
  BY <1>0, AheadTyped
<1>11. sOrder.row.status = "APPROVED" /\ ~ sOrder.row.done /\ offset < Length =>
         /\ sOrder.row.next < o + Length
         /\ sOrder.row.next <= o + Ahead + AfterHoursDelay + MaxWait
         /\ sNow <= sOrder.row.next \/ sNow <= o
         /\ polled => sNow < o
  BY <1>8 DEF TimeMatches
<1>12. ASSUME last' = last, offset' = offset
       PROVE  TimeMatches' <=>
         (sOrder'.row.status = "APPROVED" /\ ~ sOrder'.row.done /\ offset < Length =>
            /\ sOrder'.row.next < o + Length
            /\ sOrder'.row.next <= o + Ahead + AfterHoursDelay + MaxWait
            /\ sNow' <= sOrder'.row.next \/ sNow' <= o
            /\ polled' => sNow' < o)
  <2>1. Session!OpeningAfter(last)' = o /\ Ahead' = Ahead /\ Length' = Length
    BY <1>8, <1>12 DEF Session!OpeningAfter, Ahead, Length
  <2> QED BY <1>12, <2>1 DEF TimeMatches
<1>13. CASE Session!PutOff
  <2>1. /\ sOrder'.row.next = Session!InitialExecutionTime(sOrder.row.after)
        /\ sOrder'.row.status = sOrder.row.status /\ sOrder'.row.done = sOrder.row.done
    BY <1>0, <1>13 DEF Session!PutOff, SessionRows
  <2>2. /\ sNow' = sNow /\ offset' = offset /\ last' = last
        /\ ~ Session!Trading /\ sOrder.row.next <= sNow
    BY <1>13 DEF Session!PutOff, Session!Due
  <2>3. SUFFICES ASSUME sOrder.row.status = "APPROVED", ~ sOrder.row.done, offset < Length
                 PROVE  /\ sOrder'.row.next < o + Length
                        /\ sOrder'.row.next <= o + Ahead + AfterHoursDelay + MaxWait
                        /\ sNow < o
    <3>1. sOrder'.row.next \in Int
      BY <1>a DEF SessionRows
    <3> QED BY <1>0, <1>9, <1>12, <2>1, <2>2, <3>1
  <2>4. sNow < o + Length
    BY <1>0, <1>9, <1>11, <2>2, <2>3
  <2>5. PICK e : Trades(e) /\ o = Session!Open(e) - offset
    BY <1>9
  <2>6. Session!Open(e) \in Int /\ Session!Close(e) = Session!Open(e) + Length
    BY <2>5, OpenTyped, HourConstants DEF Trades, Length
  <2>7. sNow < o
    <3>1. SUFFICES ASSUME ~ (sNow < o) PROVE FALSE
      OBVIOUS
    <3>2. Session!Open(e) <= sNow + offset /\ sNow + offset < Session!Close(e)
      BY <1>0, <1>9, <2>4, <2>5, <2>6, <3>1
    <3> QED BY <1>0, <2>2, <2>5, <3>2, FoundTrading
  <2>8. Session!Open(e) > sNow + offset /\ Session!Open(e) = o + offset
    BY <1>0, <1>9, <2>5, <2>6, <2>7
  <2>a. PICK after \in BOOLEAN : after = sOrder.row.after
    BY <1>0
  <2>9. PICK x \in Int : x = Session!InitialExecutionTime(after)
    BY <1>0, ExecutionTimeTyped
  <2>b. sNow \in Int /\ offset \in Int /\ enabled \in BOOLEAN
    BY <1>0
  <2>c. x = sNow + AfterHoursDelay \/ x = sNow \/ x <= Session!Open(e)
    BY ONLY <2>a, <2>b, <2>5, <2>8, <2>9, PutOffInTime
  <2>10. x = sNow + AfterHoursDelay \/ x = sNow \/ x <= o + offset
    BY <2>8, <2>c
  <2>11. x < o + Length /\ x <= o + Ahead + AfterHoursDelay + MaxWait
    BY <1>0, <1>9, <1>10, <2>3, <2>7, <2>10 DEF WaitsFit
  <2> QED BY <2>1, <2>7, <2>9, <2>11, <2>a
<1>14. CASE Session!Tick
  <2>1. /\ sOrder' = sOrder /\ sNow' = sNow + 1 /\ polled' = FALSE /\ offset' = offset
        /\ last' = last /\ (Session!Due => polled)
    BY <1>14 DEF Session!Tick
  <2>2. ASSUME sOrder.row.status = "APPROVED", ~ sOrder.row.done, offset < Length
        PROVE  sNow + 1 <= sOrder.row.next \/ sNow + 1 <= o
    <3>1. CASE sOrder.row.next <= sNow
      BY <1>0, <1>9, <1>11, <2>1, <2>2, <3>1 DEF Session!Due
    <3>2. CASE sNow < sOrder.row.next
      BY <1>0, <3>2
    <3> QED BY <1>0, <3>1, <3>2
  <2> QED BY <1>11, <1>12, <2>1, <2>2
<1>15. CASE Session!ToggleTradingEnabled \/ UNCHANGED hourVars
  <2>1. /\ sOrder' = sOrder /\ sNow' = sNow /\ polled' = polled /\ offset' = offset
        /\ last' = last
    BY <1>15 DEF Session!ToggleTradingEnabled, hourVars
  <2> QED BY <1>11, <1>12, <2>1
<1> QED BY <1>4, <1>5, <1>6, <1>7, <1>13, <1>14, <1>15 DEF Session!Next

LEMMA TimeImplied == SessionInv /\ TimeMatches => Session!AttemptedInTime
<1> SUFFICES ASSUME SessionInv, TimeMatches, sOrder.row.status = "APPROVED",
                    ~ sOrder.row.done, offset < CloseTime - OpenTime
             PROVE  sNow <= Session!OpeningAfter(last) + Session!Max({0, offset})
                              + AfterHoursDelay + MaxWait
  BY DEF Session!AttemptedInTime
<1>1. /\ sNow \in Nat /\ offset \in Int /\ last \in Nat /\ sOrder.row.next \in Int
      /\ AfterHoursDelay \in Nat /\ MaxWait \in Nat
  BY HourConstants, SessionConstants DEF SessionInv, Session!SessionTypeOK
<1>2. PICK o \in Int : o = Session!OpeningAfter(last)
  BY <1>1, OpeningFollows DEF Follows
<1>3. PICK a \in Int : a = Ahead /\ a >= 0
  BY <1>1, AheadTyped
<1>4. /\ sOrder.row.next <= o + a + AfterHoursDelay + MaxWait
      /\ sNow <= sOrder.row.next \/ sNow <= o
  BY <1>2, <1>3 DEF TimeMatches, Length
<1>5. sNow <= o + a + AfterHoursDelay + MaxWait
  BY <1>1, <1>3, <1>4
<1> QED BY <1>2, <1>3, <1>5 DEF Ahead

-----------------------------------------------------------------------------
(* Users and actuaries *)

Ops == {"idle", "fail", "login", "change", "update", "activate", "confirm", "replace", "insert"}

RequestType == [op : Ops, row : IdentityRows, save : IdentityRows, token : 0 .. MaxTokens, kind : Kinds,
                seen : SUBSET Tokens]

\* What request r changes of the row, and where its token may still be stored; n tokens
\* are issued, and those in l[k] are stored.
Matches(r, l, n) ==
    /\ r.op \in {"fail", "login", "change", "confirm"} => r.save.active = r.row.active
    /\ r.op \in {"fail", "login", "update"} => r.save.password = r.row.password
    /\ r.token <= n
    /\ r.op \in {"activate", "confirm"} =>
         r.token # 0 /\ \A k \in Kinds \ {TokenKind(r.op)} : r.token \notin l[k]
    /\ r.op \in {"replace", "insert"} /\ r.token # 0 =>
         r.kind = "refresh" /\ \A k \in Kinds \ {"refresh"} : r.token \notin l[k]
    /\ r.op = "insert" => r.token \notin l[r.kind] \ r.seen

\* Stored tokens are issued, not spent, and of one kind.
TokensMatch ==
    /\ live \in [Kinds -> SUBSET Tokens] /\ issued \in 0 .. MaxTokens
    /\ spent \subseteq Tokens /\ \A t \in spent : t <= issued
    /\ \A k \in Kinds : \A t \in live[k] : t <= issued /\ t \notin spent
    /\ \A k, l \in Kinds : k # l => live[k] \cap live[l] = {}

OneOfAKind == ~ twofold => \A k \in Kinds : \A t, u \in live[k] \ made : t = u

SaveOps == {"fail", "login", "change", "update", "activate", "confirm"}

\* Tokens that were sent to nobody activate; and before there is an identity nothing is
\* sent and nobody works on it.
MadeMatch ==
    /\ made \subseteq Tokens /\ \A t \in made : t <= issued
    /\ \A k \in Kinds \ {"activation"} : live[k] \cap made = {}
    /\ \A c \in Calls : request[c].op \in SaveOps => request[c].save # NoIdentity
    /\ identity = NoIdentity => /\ \A c \in Calls : request[c] = Idle
                               /\ \A k \in Kinds : live[k] \subseteq made

IdentityInv ==
    /\ identity \in IdentityRows
    /\ request \in [Calls -> RequestType]
    /\ \A c \in Calls : Matches(request[c], live, issued)
    /\ TokensMatch /\ OneOfAKind /\ MadeMatch

-----------------------------------------------------------------------------
LEMMA RowTypes ==
  ASSUME IdentitiesAssumption
  PROVE  /\ NoIdentity \in IdentityRows
         /\ \A old \in IdentityRows : old # NoIdentity => old \in Identity
         /\ \A old : old \in Identity => old \in IdentityRows
BY DEF IdentityRows

LEMMA NotARow == ASSUME IdentitiesAssumption PROVE NoIdentity \notin Identity
BY DEF NoIdentity, Identity, IdentitiesAssumption

LEMMA IdleType == ASSUME IdentitiesAssumption PROVE Idle \in RequestType /\ Idle.op = "idle" /\ Idle.token = 0
<1>1. 0 \in 0 .. MaxTokens
  BY DEF IdentitiesAssumption
<1> QED BY <1>1, RowTypes DEF Idle, RequestType, Ops, Kinds

LEMMA IdleMatches == ASSUME NEW l, NEW n \in Nat PROVE Matches(Idle, l, n)
BY DEF Matches, Idle

LEMMA IdentityInit == IdentitiesAssumption /\ IdentitiesInit => IdentityInv
<1> SUFFICES ASSUME IdentitiesAssumption, IdentitiesInit PROVE IdentityInv
  OBVIOUS
<1>1. request \in [Calls -> RequestType]
  BY IdleType DEF IdentitiesInit
<1>2. \A c \in Calls : Matches(request[c], live, issued)
  BY IdleMatches DEF IdentitiesInit
<1>3. 0 \in 0 .. MaxTokens
  BY DEF IdentitiesAssumption
<1>4. TokensMatch /\ OneOfAKind /\ MadeMatch
  <2>1. \A c \in Calls : request[c] = Idle /\ request[c].op \notin SaveOps
    BY IdleType DEF IdentitiesInit, SaveOps
  <2> QED BY <1>3, <2>1 DEF IdentitiesInit, TokensMatch, OneOfAKind, MadeMatch
<1> QED BY <1>1, <1>2, <1>4, RowTypes DEF IdentitiesInit, IdentityInv

\* A request that rests keeps to what it may do, whichever tokens are deleted or issued.
LEMMA StaysMatched ==
  ASSUME NEW r \in RequestType, NEW l, NEW m, NEW n \in Nat, NEW p \in Nat, n <= p,
         Matches(r, l, n),
         \A k \in Kinds : \A t \in m[k] : t \in l[k] \/ t > n
  PROVE  Matches(r, m, p)
<1>1. r.token \in 0 .. MaxTokens /\ r.kind \in Kinds
  BY DEF RequestType
<1>2. \A k \in Kinds : r.token \in m[k] => r.token \in l[k]
  BY <1>1 DEF Matches
<1> QED BY <1>1, <1>2 DEF Matches

\* The tokens are not touched, and one request begins, goes on or ends.
LEMMA RequestMoves ==
  ASSUME IdentityInv, NEW c \in Calls, NEW r \in RequestType, Matches(r, live, issued),
         request' = [request EXCEPT ![c] = r], identity' \in IdentityRows \ {NoIdentity},
         r.op \in SaveOps => r.save # NoIdentity,
         UNCHANGED <<live, issued, made, spent, twofold>>
  PROVE  IdentityInv'
<1>1. MadeMatch'
  <2>1. \A d \in Calls : request'[d].op \in SaveOps => request'[d].save # NoIdentity
    BY DEF IdentityInv, MadeMatch
  <2>2. UNCHANGED <<live, issued, made>> /\ identity' # NoIdentity
    OBVIOUS
  <2> QED BY <2>1, <2>2 DEF IdentityInv, MadeMatch
<1> QED BY <1>1 DEF IdentityInv, TokensMatch, OneOfAKind

LEMMA BeginStep ==
  ASSUME IdentitiesAssumption, IdentityInv, NEW c \in Calls,
         NEW op \in SaveOps,
         NEW save \in IdentityRows \ {NoIdentity}, NEW token \in 0 .. issued, Begin(c, op, save, token),
         op \in {"fail", "login", "change", "confirm"} => save.active = identity.active,
         op \in {"fail", "login", "update"} => save.password = identity.password,
         op \in {"activate", "confirm"} => token \in live[TokenKind(op)]
  PROVE  IdentityInv'
<1> DEFINE r == [Idle EXCEPT !.op = op, !.row = identity, !.save = save, !.token = token]
<1>1. token \in 0 .. MaxTokens
  BY DEF IdentityInv, TokensMatch, IdentitiesAssumption
<1>2. /\ r \in RequestType /\ r.op = op /\ r.row = identity /\ r.save = save
      /\ r.token = token
  BY <1>1, IdleType DEF RequestType, Ops, IdentityInv, SaveOps
<1>3. op \in {"activate", "confirm"} => TokenKind(op) \in Kinds
  BY DEF TokenKind, Kinds
<1> HIDE DEF r
<1>4. token <= issued /\ \A k \in Kinds : token \in live[k] => token # 0
  BY DEF IdentityInv, TokensMatch, Tokens
<1>5. Matches(r, live, issued)
  <2>1. op \notin {"replace", "insert"}
    BY DEF SaveOps
  <2> QED BY <1>2, <1>3, <1>4, <2>1 DEF Matches, IdentityInv, TokensMatch
<1>6. request' = [request EXCEPT ![c] = r]
  BY DEF Begin, r
<1> QED BY <1>2, <1>5, <1>6, RequestMoves DEF Begin, IdentityInv

LEMMA ReplaceStep ==
  ASSUME IdentitiesAssumption, IdentityInv, NEW c \in Calls, NEW kind \in Kinds,
         NEW token \in 0 .. issued, token # 0 => kind = "refresh" /\ token \in live["refresh"]
  PROVE  Replacing(kind, token) \in RequestType /\ Matches(Replacing(kind, token), live, issued)
<1> DEFINE r == Replacing(kind, token)
<1>1. token \in 0 .. MaxTokens
  BY DEF IdentityInv, TokensMatch, IdentitiesAssumption
<1>2. r \in RequestType /\ r.op = "replace" /\ r.kind = kind /\ r.token = token
  BY <1>1, IdleType DEF Replacing, RequestType, Ops
<1> HIDE DEF r
<1>3. token <= issued /\ "refresh" \in Kinds
  BY DEF IdentityInv, TokensMatch, Kinds
<1>4. Matches(r, live, issued)
  BY <1>2, <1>3 DEF Matches, IdentityInv, TokensMatch
<1> QED BY <1>2, <1>4 DEF r

-----------------------------------------------------------------------------
LEMMA SavesStep ==
  ASSUME IdentitiesAssumption, IdentityInv, NEW c \in Calls, SaveIdentity(c) \/ SaveByToken(c)
  PROVE  IdentityInv'
<1>1. request[c] \in RequestType /\ Matches(request[c], live, issued) /\ request[c].save \in IdentityRows
  BY DEF IdentityInv, RequestType
<1>2. issued \in Nat /\ 0 \in 0 .. issued
  BY DEF IdentityInv, TokensMatch
<1>s. SaveIdentity(c) \/ SaveByToken(c) => request[c].save # NoIdentity /\ identity # NoIdentity
  <2>1. request[c].op \in SaveOps
    BY DEF SaveIdentity, SaveByToken, SaveOps
  <2>2. Idle.op \notin SaveOps
    BY DEF Idle, SaveOps
  <2> QED BY <2>1, <2>2 DEF IdentityInv, MadeMatch
<1>3. CASE SaveIdentity(c)
  <2>1. CASE request[c].op = "login"
    <3>1. Replacing("refresh", 0).op \notin SaveOps
      BY DEF Replacing, Idle, SaveOps
    <3> QED BY <1>1, <1>2, <1>3, <1>s, <2>1, <3>1, RequestMoves, ReplaceStep DEF SaveIdentity, WriteRow, Kinds
  <2>2. CASE request[c].op # "login"
    <3>1. Idle \in RequestType /\ Matches(Idle, live, issued) /\ Idle.op \notin SaveOps
      BY <1>2, IdleType, IdleMatches DEF SaveOps
    <3> QED BY <1>s, <1>1, <1>3, <2>2, <3>1, RequestMoves DEF SaveIdentity, WriteRow
  <2> QED BY <2>1, <2>2
<1>4. CASE SaveByToken(c)
  <2> DEFINE o == request[c].op  t == request[c].token
  <2>1. /\ o \in {"activate", "confirm"} /\ live' = Remaining(o, t) /\ spent' = spent \cup {t}
        /\ identity' = request[c].save /\ request' = [request EXCEPT ![c] = Idle]
        /\ issued' = issued /\ twofold' = twofold /\ made' = made
    BY <1>4 DEF SaveByToken
  <2>2. \A k \in Kinds : live'[k] \subseteq live[k] /\ t \notin live'[k]
    BY <1>1, <2>1 DEF Remaining, TokenKind, Matches, IdentityInv, TokensMatch, Kinds
  <2>3. live' \in [Kinds -> SUBSET Tokens]
    BY <2>1, <2>2 DEF Remaining, IdentityInv, TokensMatch
  <2>4. t \in 0 .. MaxTokens /\ t <= issued
    BY <1>1 DEF RequestType, Matches
  <2>5. t \in Tokens
    BY <1>1, <2>1, <2>4 DEF Matches, Tokens
  <2>6. TokensMatch' /\ OneOfAKind'
    BY <2>1, <2>2, <2>3, <2>4, <2>5 DEF IdentityInv, TokensMatch, OneOfAKind
  <2>7. ASSUME NEW d \in Calls PROVE request'[d] \in RequestType /\ Matches(request'[d], live', issued')
    <3>1. Matches(request[d], live', issued)
      BY <1>2, <2>2, StaysMatched DEF IdentityInv
    <3> QED BY <1>2, <2>1, <3>1, IdleType, IdleMatches DEF IdentityInv
  <2>8. request' \in [Calls -> RequestType]
    BY <2>1, IdleType DEF IdentityInv
  <2>9. MadeMatch'
    BY <1>4, <1>s, <2>1, <2>2, IdleType DEF IdentityInv, MadeMatch, SaveOps
  <2> QED BY <1>1, <2>1, <2>6, <2>7, <2>8, <2>9 DEF IdentityInv
<1> QED BY <1>3, <1>4

LEMMA TokensStep ==
  ASSUME IdentitiesAssumption, IdentityInv, NEW c \in Calls, DeleteTokens(c) \/ InsertToken(c)
  PROVE  IdentityInv'
<1> DEFINE k == request[c].kind  t == request[c].token  was == request[c].seen
<1>1. /\ request[c] \in RequestType /\ Matches(request[c], live, issued)
      /\ k \in Kinds /\ t \in 0 .. MaxTokens /\ t <= issued
  BY DEF IdentityInv, RequestType, Matches
<1>2. issued \in Nat
  BY DEF IdentityInv, TokensMatch
<1>3. CASE DeleteTokens(c)
  <2> DEFINE r == [request[c] EXCEPT !.op = "insert", !.seen = live[k]]
  <2>1. live[k] \in SUBSET Tokens
    BY <1>1 DEF IdentityInv, TokensMatch
  <2>2. /\ r \in RequestType /\ r.op = "insert" /\ r.kind = k /\ r.token = t /\ r.seen = live[k]
    BY <1>1, <2>1 DEF RequestType, Ops
  <2>3. request[c].op = "replace" /\ request' = [request EXCEPT ![c] = r]
    BY <1>3 DEF DeleteTokens, IdentityInv
  <2> HIDE DEF r
  <2>4. Matches(r, live, issued)
    BY <1>1, <2>2, <2>3 DEF Matches
  <2>5. r.op \notin SaveOps /\ identity # NoIdentity
    BY <2>2, <2>3, IdleType DEF SaveOps, IdentityInv, MadeMatch
  <2> QED BY <2>5, <1>3, <2>2, <2>3, <2>4, RequestMoves DEF DeleteTokens, IdentityInv
<1>4. CASE InsertToken(c)
  <2> DEFINE rest == live[k] \ was
  <2>1. /\ request[c].op = "insert" /\ issued < MaxTokens /\ issued' = issued + 1
        /\ live' = [live EXCEPT ![k] = rest \cup {issued + 1}]
        /\ spent' = spent \cup ({t} \ {0}) /\ twofold' = (twofold \/ rest \ made # {})
        /\ request' = [request EXCEPT ![c] = Idle] /\ identity' = identity /\ made' = made
    BY <1>4 DEF InsertToken
  <2>2. /\ issued + 1 \in Tokens /\ issued + 1 \in 0 .. MaxTokens /\ issued + 1 \in Nat
        /\ MaxTokens \in Nat
    BY <1>2, <2>1 DEF Tokens, IdentitiesAssumption
  <2>3. live' \in [Kinds -> SUBSET Tokens] /\ rest \subseteq live[k]
    BY <1>1, <2>1, <2>2 DEF IdentityInv, TokensMatch
  <2>4. /\ live'[k] = rest \cup {issued + 1}
        /\ \A l \in Kinds \ {k} : live'[l] = live[l]
    BY <1>1, <2>1 DEF IdentityInv, TokensMatch
  <2>5. \A l \in Kinds : \A u \in live[l] : u <= issued /\ u \in Nat
    BY DEF IdentityInv, TokensMatch, Tokens
  <2>6. t # 0 => \A l \in Kinds : t \notin live'[l]
    <3>1. ASSUME t # 0, NEW l \in Kinds \ {k} PROVE t \notin live'[l]
      BY <1>1, <2>1, <2>4, <3>1 DEF Matches
    <3>2. t \notin live'[k]
      BY <1>1, <1>2, <2>1, <2>4 DEF Matches
    <3> QED BY <3>1, <3>2
  <2>7. OneOfAKind'
    <3> SUFFICES ASSUME ~ twofold', NEW l \in Kinds, NEW u \in live'[l] \ made', NEW v \in live'[l] \ made'
                 PROVE  u = v
      BY DEF OneOfAKind
    <3>1. ~ twofold /\ rest \ made = {} /\ made' = made
      BY <2>1
    <3> QED BY <2>4, <3>1 DEF IdentityInv, OneOfAKind
  <2>8. \A l \in Kinds : \A u \in live'[l] : u \in live[l] \/ u = issued + 1
    BY <2>4
  <2>9. TokensMatch'
    <3>1. spent' \subseteq Tokens /\ \A u \in spent' : u <= issued'
      <4>1. \A u \in spent : u <= issued + 1
        BY <1>2 DEF IdentityInv, TokensMatch, Tokens
      <4>2. t # 0 => t \in Tokens /\ t <= issued + 1
        BY <1>1, <1>2, <2>2 DEF Tokens
      <4> QED BY <2>1, <4>1, <4>2 DEF IdentityInv, TokensMatch
    <3>2. \A l \in Kinds : \A u \in live'[l] : u <= issued' /\ u \notin spent'
      <4> SUFFICES ASSUME NEW l \in Kinds, NEW u \in live'[l]
                   PROVE  u <= issued' /\ u \notin spent'
        OBVIOUS
      <4>1. u # t \/ t = 0
        BY <2>6
      <4>2. CASE u = issued + 1
        <5>1. u \notin spent
          BY <1>2, <4>2 DEF IdentityInv, TokensMatch, Tokens
        <5> QED BY <1>2, <2>1, <4>1, <4>2, <5>1
      <4>3. CASE u \in live[l]
        BY <1>2, <2>1, <2>5, <4>1, <4>3 DEF IdentityInv, TokensMatch
      <4> QED BY <2>8, <4>2, <4>3
    <3>3. \A l, m \in Kinds : l # m => live'[l] \cap live'[m] = {}
      BY <1>2, <2>3, <2>4, <2>5 DEF IdentityInv, TokensMatch
    <3> QED BY <2>1, <2>2, <2>3, <3>1, <3>2, <3>3 DEF TokensMatch
  <2>10. ASSUME NEW d \in Calls PROVE Matches(request'[d], live', issued')
    <3>1. CASE d = c
      BY <2>1, <2>2, <3>1, IdleMatches DEF IdentityInv
    <3>2. CASE d # c
      <4>1. request'[d] = request[d] /\ request[d] \in RequestType /\ Matches(request[d], live, issued)
        BY <2>1, <3>2 DEF IdentityInv
      <4>2. \A l \in Kinds : \A u \in live'[l] : u \in live[l] \/ u > issued
        BY <1>2, <2>8
      <4>3. issued <= issued + 1
        BY <1>2
      <4>4. Matches(request[d], live', issued + 1)
        <5> HIDE DEF rest
        <5> QED BY ONLY <1>2, <2>2, <4>1, <4>2, <4>3, StaysMatched
      <4> QED BY <2>1, <4>1, <4>4
    <3> QED BY <3>1, <3>2
  <2>11. MadeMatch'
    <3>1. identity # NoIdentity
      BY <2>1, IdleType DEF IdentityInv, MadeMatch
    <3>2. made \subseteq Tokens /\ \A u \in made : u <= issued + 1 /\ u # issued + 1
      <4>1. made \subseteq Tokens /\ \A u \in made : u <= issued
        BY DEF IdentityInv, MadeMatch
      <4>2. \A u \in made : u \in Nat
        BY <4>1, <2>2 DEF Tokens
      <4> QED BY <1>2, <4>1, <4>2
    <3>3. \A l \in Kinds \ {"activation"} : live'[l] \cap made = {}
      BY <2>8, <3>2 DEF IdentityInv, MadeMatch
    <3>4. \A d \in Calls : request'[d].op \in SaveOps => request'[d].save # NoIdentity
      BY <2>1, IdleType DEF IdentityInv, MadeMatch, SaveOps
    <3> QED BY <2>1, <3>1, <3>2, <3>3, <3>4 DEF MadeMatch
  <2> QED BY <2>1, <2>7, <2>9, <2>10, <2>11, IdleType DEF IdentityInv
<1> QED BY <1>3, <1>4

\* A token is stored for activation, before the identity is there or for a caller.
LEMMA ActivationStored ==
  ASSUME IdentitiesAssumption, IdentityInv, issued < MaxTokens, issued' = issued + 1,
         live' = [live EXCEPT !["activation"] = @ \cup {issued + 1}],
         UNCHANGED <<request, spent, twofold>>
  PROVE  /\ TokensMatch' /\ \A c \in Calls : Matches(request[c], live', issued')
         /\ live'["activation"] = live["activation"] \cup {issued + 1}
         /\ \A l \in Kinds \ {"activation"} : live'[l] = live[l]
         /\ \A t \in made : t <= issued + 1 /\ t # issued + 1
         /\ issued + 1 \in Tokens /\ "activation" \in Kinds
<1>2. issued \in Nat /\ MaxTokens \in Nat /\ issued + 1 \in Nat /\ "activation" \in Kinds
  BY DEF IdentityInv, TokensMatch, IdentitiesAssumption, Kinds
<1>4. issued + 1 \in Tokens /\ issued' \in 0 .. MaxTokens
  BY <1>2 DEF Tokens
<1>5. /\ live' \in [Kinds -> SUBSET Tokens]
      /\ live'["activation"] = live["activation"] \cup {issued + 1}
      /\ \A l \in Kinds \ {"activation"} : live'[l] = live[l]
  BY <1>2, <1>4 DEF IdentityInv, TokensMatch
<1>6. \A l \in Kinds : \A u \in live'[l] : u \in live[l] \/ u = issued + 1
  BY <1>5
<1>a. \A l \in Kinds : \A u \in live[l] : u <= issued /\ u \in Nat
  BY DEF IdentityInv, TokensMatch, Tokens
<1>7. TokensMatch'
  <2>1. spent' \subseteq Tokens /\ \A u \in spent' : u <= issued' /\ u # issued + 1
    BY <1>2 DEF IdentityInv, TokensMatch, Tokens
  <2>2. \A l \in Kinds : \A u \in live'[l] : u <= issued' /\ u \notin spent'
    BY <1>2, <1>6, <1>a, <2>1 DEF IdentityInv, TokensMatch
  <2>3. \A l, m \in Kinds : l # m => live'[l] \cap live'[m] = {}
    BY <1>2, <1>5, <1>a DEF IdentityInv, TokensMatch
  <2> QED BY <1>4, <1>5, <2>1, <2>2, <2>3 DEF TokensMatch
<1>9. \A c \in Calls : Matches(request[c], live', issued')
  <2>1. \A l \in Kinds : \A u \in live'[l] : u \in live[l] \/ u > issued
    BY <1>2, <1>6
  <2>2. issued <= issued + 1
    BY <1>2
  <2> QED BY <1>2, <2>1, <2>2, StaysMatched DEF IdentityInv
<1>10. \A t \in made : t <= issued + 1 /\ t # issued + 1
  BY <1>2 DEF IdentityInv, MadeMatch, Tokens
<1> QED BY <1>2, <1>4, <1>5, <1>7, <1>9, <1>10

LEMMA RegisterStep ==
  ASSUME IdentitiesAssumption, IdentityInv, NEW active \in BOOLEAN, Register(active)
  PROVE  IdentityInv'
<1>1. /\ issued < MaxTokens /\ issued' = issued + 1 /\ identity = NoIdentity
      /\ live' = [live EXCEPT !["activation"] = @ \cup {issued + 1}]
      /\ UNCHANGED <<request, made, spent, twofold>>
      /\ identity' = [password |-> NoPassword, active |-> active, failed |-> 0]
  BY DEF Register
<1>2. identity' \in Identity
  BY <1>1 DEF Identity, IdentitiesAssumption
<1>3. identity' \in IdentityRows /\ identity' # NoIdentity
  BY <1>2, NotARow DEF IdentityRows
<1>4. /\ TokensMatch' /\ \A c \in Calls : Matches(request[c], live', issued')
      /\ live'["activation"] = live["activation"] \cup {issued + 1}
      /\ \A l \in Kinds \ {"activation"} : live'[l] = live[l]
      /\ \A t \in made : t <= issued + 1 /\ t # issued + 1
      /\ "activation" \in Kinds
  BY <1>1, ActivationStored
<1>5. \A l \in Kinds : live[l] \subseteq made
  BY <1>1 DEF IdentityInv, MadeMatch
<1>6. OneOfAKind'
  BY <1>1, <1>4, <1>5 DEF OneOfAKind
<1>7. MadeMatch'
  BY <1>1, <1>3, <1>4 DEF IdentityInv, MadeMatch
<1> QED BY <1>1, <1>3, <1>4, <1>6, <1>7 DEF IdentityInv

LEMMA TestTokenStep ==
  ASSUME IdentitiesAssumption, IdentityInv, MakeTestToken
  PROVE  IdentityInv'
<1>1. /\ issued < MaxTokens /\ issued' = issued + 1
      /\ live' = [live EXCEPT !["activation"] = @ \cup {issued + 1}]
      /\ made' = made \cup {issued + 1}
      /\ UNCHANGED <<identity, request, spent, twofold>>
  BY DEF MakeTestToken
<1>4. /\ TokensMatch' /\ \A c \in Calls : Matches(request[c], live', issued')
      /\ live'["activation"] = live["activation"] \cup {issued + 1}
      /\ \A l \in Kinds \ {"activation"} : live'[l] = live[l]
      /\ \A t \in made : t <= issued + 1 /\ t # issued + 1
      /\ issued + 1 \in Tokens /\ "activation" \in Kinds
  BY <1>1, ActivationStored
<1>5. issued + 1 <= issued' /\ \A l \in Kinds : \A t \in live[l] : t # issued + 1
  BY <1>1 DEF IdentityInv, TokensMatch, Tokens
<1>6. OneOfAKind'
  <2>1. \A l \in Kinds : live'[l] \ made' \subseteq live[l] \ made
    BY <1>1, <1>4
  <2> QED BY <1>1, <2>1 DEF IdentityInv, OneOfAKind
<1>7. MadeMatch'
  <2>1. made' \subseteq Tokens /\ \A t \in made' : t <= issued'
    BY <1>1, <1>4, <1>5 DEF IdentityInv, MadeMatch
  <2>2. \A k \in Kinds \ {"activation"} : live'[k] \cap made' = {}
    BY <1>1, <1>4, <1>5 DEF IdentityInv, MadeMatch
  <2>3. identity = NoIdentity => \A k \in Kinds : live'[k] \subseteq made'
    BY <1>1, <1>4 DEF IdentityInv, MadeMatch
  <2> QED BY <1>1, <2>1, <2>2, <2>3 DEF IdentityInv, MadeMatch
<1> QED BY <1>1, <1>4, <1>6, <1>7 DEF IdentityInv

LEMMA ExpireStep == ASSUME IdentityInv, ExpireReset PROVE IdentityInv'
<1>1. /\ live' = [live EXCEPT !["reset"] = {}]
      /\ UNCHANGED <<identity, issued, request, made, spent, twofold>>
  BY DEF ExpireReset
<1>2. live' \in [Kinds -> SUBSET Tokens] /\ \A k \in Kinds : live'[k] \subseteq live[k]
  BY <1>1 DEF IdentityInv, TokensMatch, Kinds
<1>3. issued \in Nat
  BY DEF IdentityInv, TokensMatch
<1>4. \A c \in Calls : Matches(request[c], live', issued)
  BY <1>2, <1>3, StaysMatched DEF IdentityInv
<1>5. MadeMatch'
  BY <1>1, <1>2 DEF IdentityInv, MadeMatch
<1> QED BY <1>1, <1>2, <1>4, <1>5 DEF IdentityInv, TokensMatch, OneOfAKind

-----------------------------------------------------------------------------
\* The rows that a request may be about to write.
LEMMA RowChanges ==
  ASSUME IdentitiesAssumption, NEW old \in IdentityRows \ {NoIdentity}
  PROVE  /\ \A active \in BOOLEAN :
              /\ [old EXCEPT !.active = active] \in IdentityRows \ {NoIdentity}
              /\ [old EXCEPT !.active = active].password = old.password
         /\ \A p \in Passwords :
              /\ [old EXCEPT !.password = p] \in IdentityRows \ {NoIdentity}
              /\ [old EXCEPT !.password = p].active = old.active
              /\ [old EXCEPT !.password = p, !.active = TRUE] \in IdentityRows \ {NoIdentity}
         /\ \A n \in 0 .. MaxFailedLogins :
              /\ [old EXCEPT !.failed = n] \in IdentityRows \ {NoIdentity}
              /\ [old EXCEPT !.failed = n].password = old.password
              /\ [old EXCEPT !.failed = n].active = old.active
<1>1. old \in Identity
  BY RowTypes
<1> QED BY <1>1, NotARow DEF Identity, IdentityRows

LEMMA SaveOpsAre ==
  /\ "fail" \in SaveOps /\ "login" \in SaveOps /\ "change" \in SaveOps
  /\ "update" \in SaveOps /\ "activate" \in SaveOps /\ "confirm" \in SaveOps
BY DEF SaveOps

LEMMA IdentityStep == IdentitiesAssumption /\ IdentityInv /\ [IdentitiesNext]_identityVars => IdentityInv'
<1> SUFFICES ASSUME IdentitiesAssumption, IdentityInv, [IdentitiesNext]_identityVars PROVE IdentityInv'
  OBVIOUS
<1>0. /\ identity \in IdentityRows /\ 0 \in 0 .. issued /\ \A k \in Kinds : live[k] \subseteq 1 .. issued
  BY DEF IdentityInv, TokensMatch, Tokens
<1>1. ASSUME NEW c \in Calls, NEW active \in BOOLEAN, UpdateEmployee(c, active)
      PROVE  IdentityInv'
  <2> DEFINE save == [identity EXCEPT !.active = active]
  <2>1. Begin(c, "update", save, 0) /\ identity # NoIdentity
    BY <1>1 DEF UpdateEmployee, Begin
  <2>2. save \in IdentityRows \ {NoIdentity} /\ save.password = identity.password
    BY <1>0, <2>1, RowChanges
  <2> HIDE DEF save
  <2> QED BY <1>0, <2>1, <2>2, SaveOpsAre, BeginStep
<1>2. ASSUME NEW c \in Calls, NEW right \in BOOLEAN, NEW lapsed \in BOOLEAN,
             Login(c, right, lapsed)
      PROVE  IdentityInv'
  <2>1. identity # NoIdentity /\ identity \in Identity /\ Failures(lapsed) < MaxFailedLogins
    BY <1>0, <1>2, RowTypes DEF Login
  <2>2. 0 \in 0 .. MaxFailedLogins /\ Failures(lapsed) + 1 \in 0 .. MaxFailedLogins
    BY <2>1 DEF Failures, Identity, IdentitiesAssumption
  <2>3. ASSUME NEW op \in {"login", "fail"}, NEW n \in 0 .. MaxFailedLogins,
               Begin(c, op, [identity EXCEPT !.failed = n], 0)
        PROVE  IdentityInv'
    <3> DEFINE save == [identity EXCEPT !.failed = n]
    <3>1. save \in IdentityRows \ {NoIdentity} /\ save.password = identity.password /\ save.active = identity.active
      BY <1>0, <2>1, RowChanges
    <3>2. Begin(c, op, save, 0)
      BY <2>3
    <3> HIDE DEF save
    <3> QED BY <1>0, <3>1, <3>2, SaveOpsAre, BeginStep
  <2> QED BY <1>2, <2>2, <2>3 DEF Login
<1>3. ASSUME NEW c \in Calls, NEW t \in Tokens, RefreshToken(c, t) PROVE IdentityInv'
  <2>1. /\ t \in live["refresh"] /\ request' = [request EXCEPT ![c] = Replacing("refresh", t)]
        /\ UNCHANGED <<identity, live, issued, made, spent, twofold>>
    BY <1>3 DEF RefreshToken, BeginReplace
  <2>2. t \in 0 .. issued /\ "refresh" \in Kinds
    BY <2>1 DEF IdentityInv, TokensMatch, Tokens, Kinds
  <2>3. Replacing("refresh", t).op \notin SaveOps /\ identity # NoIdentity
    BY <1>3 DEF Replacing, Idle, SaveOps, RefreshToken
  <2> QED BY <1>0, <2>1, <2>2, <2>3, ReplaceStep, RequestMoves
<1>4. ASSUME NEW c \in Calls, NEW t \in Tokens, NEW p \in Passwords, ActivateAccount(c, t, p)
      PROVE  IdentityInv'
  <2> DEFINE save == [identity EXCEPT !.password = p, !.active = TRUE]
  <2>1. /\ Begin(c, "activate", save, t) /\ identity # NoIdentity
        /\ t \in live[TokenKind("activate")] /\ t \in live["activation"]
    BY <1>4 DEF ActivateAccount, Begin, TokenKind
  <2>2. t \in 0 .. issued
    BY <2>1 DEF IdentityInv, TokensMatch, Tokens, Kinds
  <2>3. save \in IdentityRows \ {NoIdentity}
    BY <1>0, <2>1, RowChanges
  <2> HIDE DEF save
  <2> QED BY <2>1, <2>2, <2>3, SaveOpsAre, BeginStep
<1>5. ASSUME NEW c \in Calls, NEW t \in Tokens, NEW p \in Passwords, ConfirmPasswordReset(c, t, p)
      PROVE  IdentityInv'
  <2> DEFINE save == [identity EXCEPT !.password = p]
  <2>1. /\ Begin(c, "confirm", save, t) /\ identity # NoIdentity
        /\ t \in live[TokenKind("confirm")] /\ t \in live["reset"]
    BY <1>5 DEF ConfirmPasswordReset, Begin, TokenKind
  <2>2. t \in 0 .. issued
    BY <2>1 DEF IdentityInv, TokensMatch, Tokens, Kinds
  <2>3. save \in IdentityRows \ {NoIdentity} /\ save.active = identity.active
    BY <1>0, <2>1, RowChanges
  <2> HIDE DEF save
  <2> QED BY <2>1, <2>2, <2>3, SaveOpsAre, BeginStep
<1>6. ASSUME NEW c \in Calls, NEW p \in Passwords, ChangePassword(c, p) PROVE IdentityInv'
  <2> DEFINE save == [identity EXCEPT !.password = p]
  <2>1. Begin(c, "change", save, 0) /\ identity # NoIdentity
    BY <1>6 DEF ChangePassword
  <2>2. save \in IdentityRows \ {NoIdentity} /\ save.active = identity.active
    BY <1>0, <2>1, RowChanges
  <2> HIDE DEF save
  <2> QED BY <1>0, <2>1, <2>2, SaveOpsAre, BeginStep
<1>7. ASSUME NEW c \in Calls, ResendActivation(c) \/ RequestPasswordReset(c) PROVE IdentityInv'
  <2>1. PICK k \in {"activation", "reset"} : BeginReplace(c, k, 0)
    BY <1>7 DEF ResendActivation, RequestPasswordReset
  <2>2. /\ k \in Kinds /\ request' = [request EXCEPT ![c] = Replacing(k, 0)]
        /\ UNCHANGED <<identity, live, issued, made, spent, twofold>>
    BY <2>1 DEF BeginReplace, Kinds
  <2>3. Replacing(k, 0).op \notin SaveOps /\ identity # NoIdentity
    BY <2>1 DEF Replacing, Idle, SaveOps, BeginReplace
  <2> QED BY <1>0, <2>2, <2>3, ReplaceStep, RequestMoves
<1>8. ASSUME NEW c \in Calls, Abort(c) PROVE IdentityInv'
  <2>1. Idle \in RequestType /\ Matches(Idle, live, issued)
    BY IdleType, IdleMatches DEF IdentityInv, TokensMatch
  <2>2. Idle.op \notin SaveOps /\ identity # NoIdentity
    BY <1>8, IdleType DEF SaveOps, Abort, IdentityInv, MadeMatch
  <2> QED BY <1>8, <2>1, <2>2, RequestMoves DEF Abort, IdentityInv
<1>9. ASSUME NEW c \in Calls, DeactivateEmployee(c) PROVE IdentityInv'
  BY <1>1, <1>9 DEF DeactivateEmployee
<1>10. CASE UNCHANGED identityVars
  BY <1>10 DEF identityVars, IdentityInv, TokensMatch, OneOfAKind, MadeMatch
<1> QED BY <1>1, <1>2, <1>3, <1>4, <1>5, <1>6, <1>7, <1>8, <1>9, <1>10,
           RegisterStep, TestTokenStep, ExpireStep, SavesStep, TokensStep DEF IdentitiesNext

\* What every request under way will write, and where its token may still be stored, is
\* as IdentityInv says, however many requests overlap.
THEOREM IdentityInvariant == IdentitiesAssumption => (IdentitiesSpec => []IdentityInv)
<1> SUFFICES ASSUME IdentitiesAssumption PROVE IdentitiesSpec => []IdentityInv
  OBVIOUS
<1>1. IdentitiesInit => IdentityInv
  BY IdentityInit
<1>2. IdentityInv /\ [IdentitiesNext]_identityVars => IdentityInv'
  BY IdentityStep
<1> QED BY <1>1, <1>2, PTL DEF IdentitiesSpec

-----------------------------------------------------------------------------
\* What a step may do to the password and the activity of the row.
LEMMA EntitledStep ==
  ASSUME IdentitiesAssumption, IdentityInv, IdentityInv', IdentitiesNext, ~ stale', identity # NoIdentity
  PROVE  /\ identity'.password # identity.password =>
              \E c \in Calls : /\ Ends(c)
                               /\ \/ BySentToken(c) \/ ByTestToken(c)
                                  \/ request[c].op = "change" /\ request[c].row.password = identity.password
         /\ identity'.active /\ ~ identity.active =>
              \E c \in Calls : Ends(c) /\ (BySentToken(c) \/ ByTestToken(c) \/ request[c].op = "update")
         /\ \A k \in Kinds, t, u \in Tokens : {t, u} \subseteq live'[k] \ made' => t = u \/ twofold'
<1>1. \A k \in Kinds, t, u \in Tokens : {t, u} \subseteq live'[k] \ made' => t = u \/ twofold'
  BY DEF IdentityInv, OneOfAKind
<1>2. CASE \E c \in Calls : SaveIdentity(c)
  <2>1. PICK c \in Calls : SaveIdentity(c)
    BY <1>2
  <2> DEFINE r == request[c]
  <2>2. /\ r.op \in {"fail", "change", "update", "login"} /\ identity' = r.save
        /\ identity = r.row /\ Matches(r, live, issued)
    BY <2>1 DEF SaveIdentity, WriteRow, IdentityInv
  <2>3. r.op # "login" => Ends(c)
    BY <2>1, <2>2 DEF SaveIdentity, Ends, IdentityInv, Idle
  <2> HIDE DEF r
  <2>4. identity'.password # identity.password => r.op = "change"
    BY <2>2 DEF Matches
  <2>5. identity'.active # identity.active => r.op = "update"
    BY <2>2 DEF Matches
  <2> QED BY <1>1, <2>2, <2>3, <2>4, <2>5 DEF r
<1>3. CASE \E c \in Calls : SaveByToken(c)
  <2>1. PICK c \in Calls : SaveByToken(c)
    BY <1>3
  <2>2. /\ request[c].op \in {"activate", "confirm"}
        /\ request[c].token \in live[TokenKind(request[c].op)]
        /\ request' = [request EXCEPT ![c] = Idle]
    BY <2>1 DEF SaveByToken
  <2>3. request[c].token \in Tokens \ spent
    BY <2>2 DEF IdentityInv, TokensMatch, TokenKind, Kinds
  <2>4. request[c].op = "confirm" => request[c].token \notin made
    BY <2>2 DEF IdentityInv, MadeMatch, TokenKind, Kinds
  <2>5. BySentToken(c) \/ ByTestToken(c)
    BY <2>2, <2>3, <2>4 DEF BySentToken, ByTestToken
  <2>6. Ends(c)
    BY <2>2 DEF Ends, Idle, IdentityInv
  <2> QED BY <1>1, <2>5, <2>6
<1>4. CASE UNCHANGED identity
  BY <1>1, <1>4
<1>5. ASSUME NEW active \in BOOLEAN, Register(active) PROVE FALSE
  BY <1>5 DEF Register
<1> QED
  BY <1>2, <1>3, <1>4, <1>5
     DEF IdentitiesNext, ExpireReset, MakeTestToken, UpdateEmployee, DeactivateEmployee, Login, RefreshToken,
         ActivateAccount, ConfirmPasswordReset, ChangePassword, ResendActivation,
         RequestPasswordReset, DeleteTokens, InsertToken, Abort, Begin, BeginReplace

\* A password changes only by a token that nobody has used, by the test token of the
\* identity, which anyone may present, or by the password that is stored; an identity
\* becomes active likewise; a test token sets a password only with an activation; and of
\* the links sent only the last one is valid: for any number of overlapping requests, up
\* to the first write that rests on a row or a token that was gone by then.
THEOREM ChangesAreAlwaysEntitled == IdentitiesAssumption => (IdentitiesSpec => ChangesAreEntitled)
<1> SUFFICES ASSUME IdentitiesAssumption PROVE IdentitiesSpec => ChangesAreEntitled
  OBVIOUS
<1>1. IdentityInv /\ IdentityInv' /\ [IdentitiesNext]_identityVars =>
        [ \/ stale' \/ identity = NoIdentity
          \/ /\ identity'.password # identity.password =>
                  \E c \in Calls : /\ Ends(c)
                                   /\ \/ BySentToken(c) \/ ByTestToken(c)
                                      \/ request[c].op = "change" /\ request[c].row.password = identity.password
             /\ identity'.active /\ ~ identity.active =>
                  \E c \in Calls : Ends(c) /\ (BySentToken(c) \/ ByTestToken(c) \/ request[c].op = "update")
             /\ \A k \in Kinds, t, u \in Tokens : {t, u} \subseteq live'[k] \ made' => t = u \/ twofold' ]_identityVars
  BY EntitledStep
<1>2. IdentitiesSpec => []IdentityInv
  BY IdentityInvariant
<1> QED BY <1>1, <1>2, PTL DEF IdentitiesSpec, ChangesAreEntitled

-----------------------------------------------------------------------------

\* What a request that will write the row has computed from the row it read.
SaveFollows(r) ==
    /\ r.op = "settings" => r.row # NoRow /\ r.save # NoRow /\ r.save.used = r.row.used
    /\ r.op = "employee" /\ r.save # NoRow /\ r.save.supervisor => r.save.used = 0
    /\ r.op = "employee" /\ r.save # NoRow /\ ~ r.save.supervisor =>
         r.save.used = IF r.row = NoRow THEN 0 ELSE r.row.used

\* Nothing is charged to an employee who is no actuary.
LimitMatches == IF actuary = NoRow THEN charged = 0 ELSE actuary.used = charged

FundsManaged ==
    funds => \/ kept \/ actuary.supervisor
             \/ \E c \in ActuaryCalls : actuaryRequest[c].op = "transfer"

ActuaryInv ==
    /\ ActuaryTypeOK
    /\ \A c \in ActuaryCalls : SaveFollows(actuaryRequest[c])
    /\ ~ outdated => LimitMatches /\ FundsManaged

RequestOK ==
    actuaryRequest \in [ActuaryCalls -> [op : {"idle", "settings", "employee", "transfer", "increment", "reset",
                                "fund"}, row : ActuaryRows, save : ActuaryRows]]

USE DEF RequestOK

-----------------------------------------------------------------------------
Actuary == [agent : BOOLEAN, supervisor : BOOLEAN, used : 0 .. MaxUsed]

\* The row of an actuary is told from the absent one by a limit within its bound.
LEMMA RowKinds ==
  ASSUME ActuariesAssumption
  PROVE  /\ NoRow \in ActuaryRows /\ NoRow.agent = FALSE /\ NoRow.supervisor = FALSE
         /\ \A old : old \in Actuary => old \in ActuaryRows /\ old # NoRow
         /\ \A old \in ActuaryRows : old # NoRow => old \in Actuary
<1>1. NoRow.used = MaxUsed + 1 /\ NoRow.agent = FALSE /\ NoRow.supervisor = FALSE
  BY DEF NoRow
<1>2. MaxUsed + 1 \notin 0 .. MaxUsed
  BY DEF ActuariesAssumption
<1>3. \A old \in Actuary : old # NoRow
  BY <1>1, <1>2 DEF Actuary
<1> QED BY <1>1, <1>3 DEF ActuaryRows, Actuary

LEMMA ActuaryInit == ActuariesAssumption /\ ActuariesInit => ActuaryInv
<1> SUFFICES ASSUME ActuariesAssumption, ActuariesInit PROVE ActuaryInv
  OBVIOUS
<1>1. 0 \in 0 .. MaxUsed /\ NoRow \in ActuaryRows /\ NoRow.supervisor = FALSE
  <2>1. 0 \in 0 .. MaxUsed
    BY DEF ActuariesAssumption
  <2> QED BY <2>1, RowKinds
<1>2. ActuaryTypeOK
  <2>1. RequestOK
    BY <1>1 DEF ActuariesInit, IdleActuary
  <2>2. actuary \in ActuaryRows /\ charged \in 0 .. MaxUsed
    BY <1>1 DEF ActuariesInit
  <2>3. {funds, outdated, kept} \subseteq BOOLEAN
    BY DEF ActuariesInit
  <2> QED BY <2>1, <2>2, <2>3 DEF ActuaryTypeOK
<1>3. \A c \in ActuaryCalls : SaveFollows(actuaryRequest[c])
  BY DEF ActuariesInit, IdleActuary, SaveFollows
<1> QED BY <1>2, <1>3 DEF ActuariesInit, ActuaryInv, LimitMatches, FundsManaged

\* A row that was changed in nothing but its roles is a row.
LEMMA RolesChanged ==
  ASSUME ActuariesAssumption, NEW old \in ActuaryRows \ {NoRow}, NEW agent \in BOOLEAN,
         NEW supervisor \in BOOLEAN
  PROVE  LET new == [old EXCEPT !.agent = agent, !.supervisor = supervisor]
         IN  new \in ActuaryRows /\ new # NoRow /\ new.used = old.used
<1> DEFINE new == [old EXCEPT !.agent = agent, !.supervisor = supervisor]
<1>1. old \in Actuary
  BY RowKinds
<1>2. new \in Actuary /\ new.used = old.used
  BY <1>1 DEF Actuary
<1> QED BY <1>2, RowKinds

LEMMA RowAssigned ==
  ASSUME ActuariesAssumption, NEW old \in ActuaryRows, NEW agent \in BOOLEAN, NEW supervisor \in BOOLEAN
  PROVE  LET new == Assigned(old, agent, supervisor)
         IN  /\ new \in ActuaryRows
             /\ new # NoRow /\ new.supervisor => new.used = 0
             /\ new # NoRow /\ ~ new.supervisor =>
                  new.used = IF old = NoRow THEN 0 ELSE old.used
<1>1. old # NoRow => old.used \in 0 .. MaxUsed
  BY RowKinds DEF Actuary
<1>2. 0 \in 0 .. MaxUsed
  BY DEF ActuariesAssumption
<1>3. agent \/ supervisor => Assigned(old, agent, supervisor) \in Actuary
  BY <1>1, <1>2 DEF Assigned, Actuary
<1> QED BY <1>1, <1>2, <1>3, RowKinds DEF Assigned

\* A request that reads the row changes nothing else.
LEMMA ReadStep ==
  ASSUME ActuariesAssumption, ActuaryInv, NEW c \in ActuaryCalls, NEW save \in ActuaryRows,
         NEW op \in {"settings", "employee", "increment", "reset", "fund"},
         Read(c, op, save), SaveFollows([op |-> op, row |-> actuary, save |-> save])
  PROVE  ActuaryInv'
<1>1. RequestOK'
  BY DEF Read, ActuaryInv, ActuaryTypeOK
<1>2. \A d \in ActuaryCalls : SaveFollows(actuaryRequest'[d])
  BY DEF Read, ActuaryInv, ActuaryTypeOK
<1>3. FundsManaged => FundsManaged'
  BY DEF Read, FundsManaged, IdleActuary, ActuaryInv, ActuaryTypeOK
<1> QED BY <1>1, <1>2, <1>3 DEF Read, ActuaryInv, ActuaryTypeOK, LimitMatches

\* A request that returns leaves nothing to be written, and no funds to be transferred
\* unless it was to transfer them.
LEMMA ReturnStep ==
  ASSUME ActuaryTypeOK, \A d \in ActuaryCalls : SaveFollows(actuaryRequest[d]), NEW c \in ActuaryCalls, ReturnActuary(c),
         NoRow \in ActuaryRows
  PROVE  /\ RequestOK'
         /\ \A d \in ActuaryCalls : SaveFollows(actuaryRequest'[d])
         /\ \A d \in ActuaryCalls \ {c} : actuaryRequest'[d] = actuaryRequest[d]
BY DEF ReturnActuary, IdleActuary, SaveFollows, ActuaryTypeOK

LEMMA ActuaryStep == ActuariesAssumption /\ ActuaryInv /\ [ActuariesNext]_actuaryVars => ActuaryInv'
<1> SUFFICES ASSUME ActuariesAssumption, ActuaryInv, [ActuariesNext]_actuaryVars PROVE ActuaryInv'
  OBVIOUS
<1> USE DEF ActuaryInv
<1>0. NoRow \in ActuaryRows
  BY DEF ActuaryRows
<1>1. CASE ResetAllUsedLimits
  BY <1>1 DEF ResetAllUsedLimits, ActuaryTypeOK, LimitMatches, FundsManaged, ActuaryRows, NoRow,
              ActuariesAssumption
<1>2. ASSUME NEW c \in ActuaryCalls, NEW agent \in BOOLEAN, NEW supervisor \in BOOLEAN,
             FindSettings(c, agent, supervisor) \/ FindEmployee(c, agent, supervisor)
      PROVE  ActuaryInv'
  <2>1. actuary \in ActuaryRows
    BY DEF ActuaryTypeOK
  <2>2. CASE FindSettings(c, agent, supervisor)
    <3> DEFINE new == [actuary EXCEPT !.agent = agent, !.supervisor = supervisor]
    <3>1. actuary # NoRow /\ Read(c, "settings", new)
      BY <2>2 DEF FindSettings
    <3>2. new \in ActuaryRows /\ new # NoRow /\ new.used = actuary.used
      BY <2>1, <3>1, RolesChanged
    <3>3. SaveFollows([op |-> "settings", row |-> actuary, save |-> new])
      BY <3>1, <3>2 DEF SaveFollows
    <3> HIDE DEF new
    <3> QED BY <3>1, <3>2, <3>3, ReadStep
  <2>3. CASE FindEmployee(c, agent, supervisor)
    BY <2>1, <2>3, RowAssigned, ReadStep DEF FindEmployee, SaveFollows
  <2> QED BY <1>2, <2>2, <2>3
<1>3. ASSUME NEW c \in ActuaryCalls, NEW op \in {"increment", "reset"}, FindAgent(c, op)
      PROVE  ActuaryInv'
  BY <1>0, <1>3, ReadStep DEF FindAgent, SaveFollows
<1>4. ASSUME NEW c \in ActuaryCalls, FindSupervisor(c) PROVE ActuaryInv'
  BY <1>0, <1>4, ReadStep DEF FindSupervisor, SaveFollows
<1>5. ASSUME NEW c \in ActuaryCalls, UpdateActuarySettings(c) PROVE ActuaryInv'
  <2> DEFINE r == actuaryRequest[c]
  <2>1. /\ r.op = "settings" /\ r.save \in ActuaryRows /\ r.row # NoRow /\ r.save # NoRow
        /\ r.save.used = r.row.used
    BY <1>5 DEF UpdateActuarySettings, ActuaryTypeOK, SaveFollows
  <2>2. /\ RequestOK'
        /\ \A d \in ActuaryCalls : SaveFollows(actuaryRequest'[d])
        /\ \A d \in ActuaryCalls \ {c} : actuaryRequest'[d] = actuaryRequest[d]
    <3>1. CASE r.row.supervisor /\ ~ r.save.supervisor
      BY <1>5, <3>1 DEF UpdateActuarySettings, ActuaryTypeOK, SaveFollows
    <3>2. CASE ~ (r.row.supervisor /\ ~ r.save.supervisor)
      BY <1>0, <1>5, <3>2, ReturnStep DEF UpdateActuarySettings
    <3> QED BY <3>1, <3>2
  <2>3. actuary' = r.save /\ charged' = charged /\ funds' = funds /\ kept' = kept
        /\ outdated' \in BOOLEAN
    BY <1>5 DEF UpdateActuarySettings, SaveActuary, ActuaryTypeOK
  <2>4. ASSUME ~ outdated' PROVE LimitMatches'
    BY <1>5, <2>1, <2>3, <2>4 DEF UpdateActuarySettings, SaveActuary, LimitMatches
  <2>5. ASSUME ~ outdated' PROVE FundsManaged'
    <3>1. ~ outdated /\ actuary = r.row
      BY <1>5, <2>5 DEF UpdateActuarySettings, SaveActuary
    <3>2. CASE r.row.supervisor /\ ~ r.save.supervisor
      <4>1. actuaryRequest'[c].op = "transfer"
        BY <1>5, <3>2 DEF UpdateActuarySettings, ActuaryTypeOK
      <4> QED BY <4>1 DEF FundsManaged
    <3>3. CASE ~ (r.row.supervisor /\ ~ r.save.supervisor)
      BY <2>1, <2>2, <2>3, <3>1, <3>3 DEF FundsManaged
    <3> QED BY <3>2, <3>3
  <2> QED BY <2>1, <2>2, <2>3, <2>4, <2>5 DEF ActuaryTypeOK
<1>6. ASSUME NEW c \in ActuaryCalls, UpdateEmployeeRoles(c) PROVE ActuaryInv'
  <2> DEFINE r == actuaryRequest[c]
  <2>1. r.op = "employee" /\ r.save \in ActuaryRows
    BY <1>6 DEF UpdateEmployeeRoles, ActuaryTypeOK
  <2>2. /\ RequestOK'
        /\ \A d \in ActuaryCalls : SaveFollows(actuaryRequest'[d])
        /\ \A d \in ActuaryCalls \ {c} : actuaryRequest'[d] = actuaryRequest[d]
    BY <1>0, <1>6, ReturnStep DEF UpdateEmployeeRoles
  <2>3. /\ actuary' = r.save /\ funds' = funds /\ outdated' \in BOOLEAN
        /\ charged' = IF r.save = NoRow \/ r.save.supervisor THEN 0 ELSE charged
        /\ kept' = (kept \/ (funds /\ ~ r.save.supervisor))
    BY <1>6 DEF UpdateEmployeeRoles, SaveActuary, ActuaryTypeOK
  <2>4. ASSUME ~ outdated' PROVE LimitMatches'
    <3>1. ~ outdated /\ actuary = r.row
      BY <1>6, <2>4 DEF UpdateEmployeeRoles, SaveActuary
    <3> QED BY <2>1, <2>3, <3>1 DEF LimitMatches, SaveFollows
  <2>5. FundsManaged'
    BY <2>3 DEF FundsManaged
  <2>6. r.save.supervisor \in BOOLEAN /\ charged' \in 0 .. MaxUsed
    <3>1. r.save.supervisor \in BOOLEAN
      BY <2>1, RowKinds DEF Actuary
    <3>2. charged \in 0 .. MaxUsed /\ 0 \in 0 .. MaxUsed
      BY DEF ActuaryTypeOK, ActuariesAssumption
    <3> QED BY <2>3, <3>1, <3>2
  <2> QED BY <2>1, <2>2, <2>3, <2>4, <2>5, <2>6 DEF ActuaryTypeOK
<1>7. ASSUME NEW c \in ActuaryCalls, TransferFunds(c) \/ CreateFund(c) \/ AbortActuary(c) PROVE ActuaryInv'
  <2>1. ReturnActuary(c) /\ UNCHANGED <<actuary, charged, outdated>>
    BY <1>7 DEF TransferFunds, CreateFund, AbortActuary
  <2>2. /\ RequestOK'
        /\ \A d \in ActuaryCalls : SaveFollows(actuaryRequest'[d])
        /\ \A d \in ActuaryCalls \ {c} : actuaryRequest'[d] = actuaryRequest[d]
    BY <1>0, <2>1, ReturnStep
  <2>3. {funds', kept'} \subseteq BOOLEAN
    BY <1>7 DEF TransferFunds, CreateFund, AbortActuary, ActuaryTypeOK, ActuaryRows, NoRow
  <2>4. LimitMatches => LimitMatches'
    BY <2>1 DEF LimitMatches
  <2>5. FundsManaged => FundsManaged'
    <3>1. CASE TransferFunds(c)
      BY <2>2, <3>1 DEF TransferFunds, FundsManaged
    <3>2. CASE CreateFund(c)
      BY <2>2, <3>2 DEF CreateFund, FundsManaged
    <3>3. CASE AbortActuary(c)
      BY <2>2, <3>3 DEF AbortActuary, FundsManaged
    <3> QED BY <1>7, <3>1, <3>2, <3>3
  <2> QED BY <2>1, <2>2, <2>3, <2>4, <2>5 DEF ActuaryTypeOK
<1>8. ASSUME NEW c \in ActuaryCalls, IncrementUsedLimit(c) \/ ResetUsedLimit(c) PROVE ActuaryInv'
  <2>1. ReturnActuary(c) /\ UNCHANGED <<funds, outdated, kept>>
    BY <1>8 DEF IncrementUsedLimit, ResetUsedLimit
  <2>2. /\ RequestOK'
        /\ \A d \in ActuaryCalls : SaveFollows(actuaryRequest'[d])
        /\ \A d \in ActuaryCalls \ {c} : actuaryRequest'[d] = actuaryRequest[d]
    BY <1>0, <2>1, ReturnStep
  <2>3. actuaryRequest[c].op \in {"increment", "reset"}
    BY <1>8 DEF IncrementUsedLimit, ResetUsedLimit
  <2>4. /\ actuary' \in ActuaryRows /\ charged' \in 0 .. MaxUsed
        /\ actuary'.supervisor = actuary.supervisor
        /\ LimitMatches => LimitMatches'
    <3> actuary \in ActuaryRows /\ charged \in 0 .. MaxUsed /\ 0 \in 0 .. MaxUsed
      BY DEF ActuaryTypeOK, ActuariesAssumption
    <3>1. CASE IncrementUsedLimit(c)
      <4>1. CASE actuary.agent
        <5>1. actuary # NoRow /\ actuary \in Actuary
          BY <4>1, RowKinds
        <5>2. /\ actuary' = [actuary EXCEPT !.used = @ + 1] /\ charged' = charged + 1
              /\ actuary.used # MaxUsed /\ charged < MaxUsed
          BY <3>1, <4>1 DEF IncrementUsedLimit
        <5>3. actuary' \in Actuary /\ charged' \in 0 .. MaxUsed
          BY <5>1, <5>2 DEF Actuary, ActuariesAssumption
        <5>4. actuary'.supervisor = actuary.supervisor /\ actuary'.used = actuary.used + 1
          BY <5>1, <5>2 DEF Actuary
        <5> QED BY <5>1, <5>2, <5>3, <5>4, RowKinds DEF LimitMatches
      <4>2. CASE ~ actuary.agent
        BY <3>1, <4>2 DEF IncrementUsedLimit, LimitMatches
      <4> QED BY <4>1, <4>2
    <3>2. CASE ResetUsedLimit(c)
      <4>1. charged' = 0 /\ actuary' = IF actuary = NoRow THEN NoRow ELSE [actuary EXCEPT !.used = 0]
        BY <3>2 DEF ResetUsedLimit
      <4>2. CASE actuary = NoRow
        BY <4>1, <4>2 DEF LimitMatches
      <4>3. CASE actuary # NoRow
        <5>1. actuary \in Actuary
          BY <4>3, RowKinds
        <5>2. /\ actuary' \in Actuary /\ actuary'.used = 0
              /\ actuary'.supervisor = actuary.supervisor
          BY <4>1, <4>3, <5>1 DEF Actuary
        <5> QED BY <4>1, <5>2, RowKinds DEF LimitMatches
      <4> QED BY <4>2, <4>3
    <3> QED BY <1>8, <3>1, <3>2
  <2>5. FundsManaged => FundsManaged'
    BY <2>1, <2>2, <2>3, <2>4 DEF FundsManaged
  <2> QED BY <2>1, <2>2, <2>4, <2>5 DEF ActuaryTypeOK
<1>9. CASE UNCHANGED actuaryVars
  BY <1>9 DEF actuaryVars, ActuaryTypeOK, LimitMatches, FundsManaged
<1> QED BY <1>1, <1>2, <1>3, <1>4, <1>5, <1>6, <1>7, <1>8, <1>9 DEF ActuariesNext

\* The row, the limit and every request under way have the types and agree as
\* ActuaryInv says, however many requests overlap and whatever the bound on purchases.
THEOREM ActuaryInvariant == ActuariesAssumption => (ActuariesSpec => []ActuaryInv)
<1> SUFFICES ASSUME ActuariesAssumption PROVE ActuariesSpec => []ActuaryInv
  OBVIOUS
<1>1. ActuariesInit => ActuaryInv
  BY ActuaryInit
<1>2. ActuaryInv /\ [ActuariesNext]_actuaryVars => ActuaryInv'
  BY ActuaryStep
<1> QED BY <1>1, <1>2, PTL DEF ActuariesSpec

\* UsedLimit is what was bought since it was reset, and funds stay with a supervisor,
\* up to the first update that overwrites the row with an older view of it.
THEOREM ActuaryIsAlwaysExact == ActuariesAssumption => (ActuariesSpec => []ActuaryIsExact)
<1> SUFFICES ASSUME ActuariesAssumption PROVE ActuariesSpec => []ActuaryIsExact
  OBVIOUS
<1>1. ActuaryInv => ActuaryIsExact
  BY DEF ActuaryInv, ActuaryIsExact, LimitMatches, FundsManaged
<1> QED BY <1>1, ActuaryInvariant, PTL

-----------------------------------------------------------------------------
(* Types.  The invariants have those of most components; what follows adds   *)
(* the history variables of taxes and the flags of the users' requests.      *)

LEMMA OrderTypes == OrderTyped => Trade!OrderTypeOK
<1> SUFFICES ASSUME OrderTyped PROVE Trade!OrderTypeOK
  OBVIOUS
<1>1. ASSUME NEW w \in Workers
      PROVE  /\ worker[w].at \in {"idle", "postpone", "fail", "record", "tax", "save",
                                  "ownership", "upsert"}
             /\ worker[w].at # "idle" => worker[w].order \in TradeOrders /\ worker[w].copy \in Trade!Rows
             /\ \A o \in DOMAIN worker[w].batch :
                  o \in TradeOrders /\ worker[w].batch[o] \in Trade!Rows
  <2>1. worker[w] \in WorkStates /\ WorkMatches(worker[w])
    BY DEF OrderTyped
  <2>2. /\ worker[w].at \in WorkSteps /\ worker[w].order \in TradeOrders \cup {Trade!NoOrder}
        /\ worker[w].copy \in Trade!Rows /\ worker[w].batch \in Batches
    BY <2>1 DEF WorkStates
  <2>3. PICK S \in SUBSET TradeOrders : worker[w].batch \in [S -> Trade!Rows]
    BY <2>2 DEF Batches
  <2>4. worker[w].at # "idle" => worker[w].order \in TradeOrders
    BY <2>1, <2>2 DEF WorkMatches
  <2>5. worker[w].at \in {"idle", "postpone", "fail", "record", "tax", "save", "ownership", "upsert"}
    BY <2>2 DEF WorkSteps, CopySteps, MoveSteps
  <2> QED BY <2>2, <2>3, <2>4, <2>5
<1>2. \A c \in OrderCalls : oCall[c].op \in {"idle", "approve", "decline", "cancel"}
  BY DEF OrderTyped, CallStates
<1>3. /\ row \in [TradeOrders -> Trade!Rows]
      /\ owned \in [TradeHolders -> [amount : Nat, reserved : Nat]]
      /\ usedLimit \in Nat /\ approved \in Nat
  BY DEF OrderTyped
<1>4. /\ {oPaid, recorded, moved, commissions} \subseteq [TradeOrders -> Nat]
      /\ {transferred, pledged} \subseteq [TradeHolders -> Nat]
  BY DEF OrderTyped
<1>5. oDisturbed \cup oOverlapped \cup short \subseteq TradeOrders /\ oClash \subseteq TradeHolders
  BY DEF OrderTyped
<1> QED BY <1>1, <1>2, <1>3, <1>4, <1>5 DEF Trade!OrderTypeOK

-----------------------------------------------------------------------------
(* Taxes: what is collected was owed, and what is relieved is not negative *)

TaxKinds ==
    /\ \A k \in Others : \A t \in collector[k].todo : t.amount > 0
    /\ added \in [Taxpayers -> Nat] /\ relieved \in [Taxpayers -> Nat]
    /\ collected \in [Taxpayers -> Nat]
    /\ tDisturbed \subseteq Taxpayers /\ tOverlapped \subseteq Taxpayers
    /\ doubled \subseteq Taxpayers /\ eroded \subseteq Taxpayers

\* Relief takes no more than there is.
LEMMA TotalReduced ==
  ASSUME NEW s \in Seq(Nat), NEW n \in Nat
  PROVE  Tax!Total(s) - Tax!Total([i \in DOMAIN s |-> Tax!Minus(s[i], n)]) \in Nat
<1>1. PICK D : D = DOMAIN s
  OBVIOUS
<1>2. D = 1 .. Len(s) /\ Len(s) \in Nat
  BY <1>1
<1>3. IsFiniteSet(D) /\ s \in [D -> Int] /\ \A i \in D : s[i] \in Nat
  <2>1. IsFiniteSet(D)
    BY <1>2, FS_Interval
  <2>2. s \in [D -> Nat]
    BY <1>2
  <2> QED BY <2>1, <2>2
<1>4. PICK r : r = [i \in D |-> Tax!Minus(s[i], n)]
  OBVIOUS
<1>5. r \in [D -> Int] /\ \A i \in D : r[i] <= s[i]
  BY <1>3, <1>4 DEF Tax!Minus
<1>6. /\ SumFunctionOnSet(r, D) \in Int /\ SumFunctionOnSet(s, D) \in Int
      /\ SumFunctionOnSet(r, D) <= SumFunctionOnSet(s, D)
  BY ONLY <1>3, <1>5, SumMonotone
<1>7. Tax!Total(s) = SumFunctionOnSet(s, D) /\ Tax!Total(r) = SumFunctionOnSet(r, D)
  BY <1>1, <1>5, TaxSameSum DEF Tax!Total
<1>8. Tax!Total(s) - Tax!Total(r) \in Nat
  BY <1>6, <1>7
<1> QED BY <1>1, <1>4, <1>8

LEMMA TaxKindsStep ==
  ASSUME TaxInv, TaxInv', TaxKinds, Tax!Next
  PROVE  TaxKinds'
<1>0. TaxTyped /\ TaxAmounts \subseteq Nat
  BY TaxConstants DEF TaxInv
<1>1. ASSUME NEW p \in Taxpayers, NEW n \in TaxAmounts, Tax!ReduceTaxOwed(p, n)
      PROVE  TaxKinds'
  <2>1. n \in Nat /\ owed \in [Taxpayers -> Seq(Nat)] /\ owed[p] \in Seq(Nat)
    BY <1>0, TaxTypes
  <2>2. PICK s : s = [i \in DOMAIN owed[p] |-> Tax!Minus(owed[p][i], n)]
    OBVIOUS
  <2>3. owed' = [owed EXCEPT ![p] = s]
    BY <1>1, <2>2 DEF Tax!ReduceTaxOwed, Tax!Each
  <2>4. owed'[p] = s
    BY <2>1, <2>3
  <2>5. PICK d \in Nat : d = Tax!Total(owed[p]) - Tax!Total(s)
    BY <2>1, <2>2, TotalReduced
  <2>6. relieved' = [relieved EXCEPT ![p] = relieved[p] + Tax!Owed(p) - Tax!Total(owed'[p])]
    BY <1>1 DEF Tax!ReduceTaxOwed
  <2>7. relieved[p] + Tax!Owed(p) - Tax!Total(owed'[p]) \in Nat
    <3>1. relieved[p] \in Nat
      BY DEF TaxKinds
    <3>2. s \in Seq(Nat)
      BY <2>1, <2>2, EachTyped
    <3>3. Tax!Total(owed[p]) \in Int /\ Tax!Total(s) \in Int
      BY <2>1, <3>2, TotalTyped
    <3>4. Tax!Owed(p) = Tax!Total(owed[p]) /\ Tax!Total(owed'[p]) = Tax!Total(s)
      BY <2>4 DEF Tax!Owed
    <3> QED BY <3>1, <3>3, <3>4, <2>5
  <2>8. relieved' \in [Taxpayers -> Nat]
    BY <2>6, <2>7 DEF TaxKinds
  <2>9. /\ collector' = collector /\ added' = added /\ collected' = collected
        /\ tDisturbed' = tDisturbed /\ tOverlapped' = tOverlapped /\ doubled' = doubled
        /\ eroded' \subseteq eroded \cup {p}
    BY <1>1 DEF Tax!ReduceTaxOwed
  <2> QED BY <2>8, <2>9 DEF TaxKinds
<1>2. ASSUME NEW c \in Pair, NEW p \in Taxpayers, NEW n \in TaxAmounts, Tax!AddTaxOwed(c, p, n)
      PROVE  TaxKinds'
  <2>1. n \in Nat /\ added[p] \in Nat
    BY <1>0 DEF TaxKinds
  <2>2. added' = added \/ added' = [added EXCEPT ![p] = added[p] + n]
    BY <1>2 DEF Tax!AddTaxOwed
  <2>3. added' \in [Taxpayers -> Nat]
    BY <2>1, <2>2 DEF TaxKinds
  <2>4. /\ collector' = collector /\ relieved' = relieved /\ collected' = collected
        /\ tDisturbed' = tDisturbed /\ tOverlapped' = tOverlapped /\ doubled' = doubled
        /\ eroded' = eroded
    BY <1>2 DEF Tax!AddTaxOwed
  <2> QED BY <2>3, <2>4 DEF TaxKinds
<1>3. ASSUME NEW c \in Pair, Tax!CreateTaxRow(c) PROVE TaxKinds'
  <2>1. PICK p, n : p = recorder[c].payer /\ n = recorder[c].amount
    OBVIOUS
  <2>2. recorder[c] \in TaxItems
    BY <1>0, <1>3, TaxTypes DEF Tax!CreateTaxRow
  <2>3. p \in Taxpayers /\ n \in Nat /\ added[p] \in Nat
    BY <2>1, <2>2, ItemTyped DEF TaxKinds
  <2>4. /\ added' = added \/ added' = [added EXCEPT ![p] = added[p] + n]
        /\ doubled' \subseteq doubled \cup {p}
    BY <1>3, <2>1 DEF Tax!CreateTaxRow
  <2>5. added' \in [Taxpayers -> Nat]
    BY <2>3, <2>4 DEF TaxKinds
  <2>6. /\ collector' = collector /\ relieved' = relieved /\ collected' = collected
        /\ tDisturbed' = tDisturbed /\ tOverlapped' = tOverlapped /\ eroded' = eroded
    BY <1>3 DEF Tax!CreateTaxRow
  <2> QED BY <2>3, <2>4, <2>5, <2>6 DEF TaxKinds
<1>4. ASSUME NEW k \in Others, Tax!CollectTaxes(k) PROVE TaxKinds'
  <2> DEFINE rows == UNION {{[payer |-> p, row |-> i, amount |-> owed[p][i]] :
                               i \in {i \in DOMAIN owed[p] : owed[p][i] > 0}} : p \in Taxpayers}
  <2>1. collector' = [collector EXCEPT ![k] = [at |-> "next", todo |-> rows, item |-> Tax!NoTax]]
    BY <1>4 DEF Tax!CollectTaxes
  <2>2. \A t \in rows : t.amount > 0 /\ t.payer \in Taxpayers
    OBVIOUS
  <2>3. tOverlapped' \subseteq tOverlapped \cup {t.payer : t \in rows}
    BY <1>4 DEF Tax!CollectTaxes
  <2> HIDE DEF rows
  <2>4. collector \in [Others -> TaxRuns]
    BY <1>0, TaxTypes
  <2>5. \A j \in Others : \A t \in collector'[j].todo : t.amount > 0
    BY <2>1, <2>2, <2>4 DEF TaxKinds
  <2>6. /\ added' = added /\ relieved' = relieved /\ collected' = collected
        /\ tDisturbed' = tDisturbed /\ doubled' = doubled /\ eroded' = eroded
    BY <1>4 DEF Tax!CollectTaxes
  <2> QED BY <2>2, <2>3, <2>5, <2>6 DEF TaxKinds
<1>5. ASSUME NEW k \in Others, NEW t \in collector[k].todo, Tax!CollectSingleTax(k, t)
      PROVE  TaxKinds'
  <2>1. collector \in [Others -> TaxRuns] /\ collector[k] \in TaxRuns
    BY <1>0, TaxTypes
  <2>2. t.payer \in Taxpayers /\ t.amount \in Nat /\ collected[t.payer] \in Nat
    BY <2>1, RunTyped, ItemTyped DEF TaxKinds
  <2>3. PICK s \in {"paid", "unpaid"}, got \in BOOLEAN :
          /\ collector' = [collector EXCEPT ![k] =
                             [at |-> s, todo |-> collector[k].todo \ {t}, item |-> t]]
          /\ collected' = [collected EXCEPT ![t.payer] =
                             IF got THEN collected[t.payer] + t.amount ELSE collected[t.payer]]
          /\ tDisturbed' \subseteq tDisturbed \cup {t.payer}
    BY <1>5 DEF Tax!CollectSingleTax
  <2>4. \A j \in Others : \A u \in collector'[j].todo : u.amount > 0
    BY <2>1, <2>3 DEF TaxKinds
  <2>5. collected' \in [Taxpayers -> Nat]
    BY <2>2, <2>3 DEF TaxKinds
  <2>6. /\ added' = added /\ relieved' = relieved /\ tOverlapped' = tOverlapped
        /\ doubled' = doubled /\ eroded' = eroded
    BY <1>5 DEF Tax!CollectSingleTax
  <2> QED BY <2>2, <2>3, <2>4, <2>5, <2>6 DEF TaxKinds
<1>6. ASSUME NEW k \in Others, Tax!RecordCollectionResult(k) \/ Tax!FailCollection(k)
      PROVE  TaxKinds'
  <2>1. collector \in [Others -> TaxRuns] /\ collector[k] \in TaxRuns
    BY <1>0, TaxTypes
  <2>2. PICK x : collector' = [collector EXCEPT ![k] = x] /\ x.todo \subseteq collector[k].todo
    BY <1>6 DEF Tax!RecordCollectionResult, Tax!FailCollection, Tax!Rest, Tax!Idle
  <2>3. \A j \in Others : \A u \in collector'[j].todo : u.amount > 0
    BY <2>1, <2>2 DEF TaxKinds
  <2>4. collector[k].at \in {"paid", "unpaid"} => collector[k].item.payer \in Taxpayers
    BY <2>1, RunTyped, ItemTyped, <1>0, TaxTypes DEF CollectionMatches
  <2>5. tDisturbed' \subseteq tDisturbed \cup {p \in {collector[k].item.payer} : collector[k].at = "paid"}
    BY <1>6 DEF Tax!RecordCollectionResult, Tax!FailCollection, Tax!history
  <2>6. /\ added' = added /\ relieved' = relieved /\ collected' = collected
        /\ tOverlapped' = tOverlapped /\ doubled' = doubled /\ eroded' = eroded
    BY <1>6 DEF Tax!RecordCollectionResult, Tax!FailCollection, Tax!history
  <2> QED BY <2>3, <2>4, <2>5, <2>6 DEF TaxKinds
<1> QED BY <1>1, <1>2, <1>3, <1>4, <1>5, <1>6 DEF Tax!Next

LEMMA TaxKindsTyped == TaxTyped /\ TaxKinds => Tax!TaxTypeOK
<1> SUFFICES ASSUME TaxTyped, TaxKinds PROVE Tax!TaxTypeOK
  OBVIOUS
<1>1. \A p \in Taxpayers : owed[p] \in Seq(Nat)
  BY TaxTypes
<1>2. \A c \in Pair : recorder[c] = Tax!NoTax \/ recorder[c].payer \in Taxpayers
  BY TaxTypes, ItemTyped
<1>3. ASSUME NEW k \in Others
      PROVE  /\ collector[k].at \in {"idle", "next", "paid", "unpaid"}
             /\ \A t \in collector[k].todo : t.payer \in Taxpayers /\ t.amount \in Nat \ {0}
  <2>1. collector[k].at \in TaxSteps /\ collector[k].todo \subseteq TaxItems
    BY TaxTypes, RunTyped
  <2> QED BY <2>1, ItemTyped DEF TaxKinds, TaxSteps
<1>4. /\ {added, relieved, collected} \subseteq [Taxpayers -> Nat]
      /\ tDisturbed \cup tOverlapped \cup doubled \cup eroded \subseteq Taxpayers
  BY DEF TaxKinds
<1> QED BY <1>1, <1>2, <1>3, <1>4 DEF Tax!TaxTypeOK

LEMMA TaxKindsInitially == Tax!Init => TaxKinds
<1> SUFFICES ASSUME Tax!Init PROVE TaxKinds
  OBVIOUS
<1>1. \A k \in Others : collector[k].todo = {}
  BY DEF Tax!Init, Tax!Idle
<1>2. /\ added \in [Taxpayers -> Nat] /\ relieved \in [Taxpayers -> Nat]
      /\ collected \in [Taxpayers -> Nat]
  <2>1. added = [p \in Taxpayers |-> 0] /\ relieved = added /\ collected = added
    BY DEF Tax!Init
  <2> QED BY <2>1
<1>3. tDisturbed = {} /\ tOverlapped = {} /\ doubled = {} /\ eroded = {}
  BY DEF Tax!Init
<1> QED BY <1>1, <1>2, <1>3 DEF TaxKinds

LEMMA TaxKindsStays ==
  ASSUME TaxKinds, UNCHANGED dueVars PROVE TaxKinds'
BY DEF TaxKinds, dueVars

\* The flags of the users' requests.
UserFlags == stale \in BOOLEAN /\ twofold \in BOOLEAN

LEMMA UserFlagsInitially == IdentitiesInit => UserFlags
BY DEF IdentitiesInit, UserFlags

LEMMA UserFlagsStep ==
  ASSUME UserFlags, [IdentitiesNext]_identityVars PROVE UserFlags'
<1>1. ASSUME NEW c \in Calls, SaveIdentity(c) PROVE UserFlags'
  BY <1>1 DEF UserFlags, SaveIdentity, WriteRow
<1>2. ASSUME NEW c \in Calls, SaveByToken(c) PROVE UserFlags'
  BY <1>2 DEF UserFlags, SaveByToken
<1>3. ASSUME NEW c \in Calls, InsertToken(c) PROVE UserFlags'
  BY <1>3 DEF UserFlags, InsertToken
<1>4. ASSUME UNCHANGED <<stale, twofold>> PROVE UserFlags'
  BY <1>4 DEF UserFlags
<1>5. \/ UNCHANGED <<stale, twofold>>
      \/ \E c \in Calls : SaveIdentity(c) \/ SaveByToken(c) \/ InsertToken(c)
  <2>1. /\ \A c, op, save, token : Begin(c, op, save, token) => UNCHANGED <<stale, twofold>>
        /\ \A c, kind, token : BeginReplace(c, kind, token) => UNCHANGED <<stale, twofold>>
    BY DEF Begin, BeginReplace
  <2>2. ASSUME NEW active, Register(active) PROVE UNCHANGED <<stale, twofold>>
    BY <2>2 DEF Register
  <2>3. CASE ExpireReset \/ MakeTestToken
    BY <2>3 DEF ExpireReset, MakeTestToken
  <2>4. ASSUME NEW c, NEW active, UpdateEmployee(c, active) PROVE UNCHANGED <<stale, twofold>>
    BY <2>1, <2>4 DEF UpdateEmployee
  <2>5. ASSUME NEW c, DeactivateEmployee(c) \/ ResendActivation(c) \/ RequestPasswordReset(c)
        PROVE  UNCHANGED <<stale, twofold>>
    BY <2>1, <2>5 DEF DeactivateEmployee, UpdateEmployee, ResendActivation, RequestPasswordReset
  <2>6. ASSUME NEW c, NEW right, NEW lapsed, Login(c, right, lapsed)
        PROVE  UNCHANGED <<stale, twofold>>
    BY <2>1, <2>6 DEF Login
  <2>7. ASSUME NEW c, NEW t, NEW p,
               \/ RefreshToken(c, t) \/ ActivateAccount(c, t, p) \/ ConfirmPasswordReset(c, t, p)
               \/ ChangePassword(c, p)
        PROVE  UNCHANGED <<stale, twofold>>
    BY <2>1, <2>7 DEF RefreshToken, ActivateAccount, ConfirmPasswordReset, ChangePassword
  <2>8. ASSUME NEW c, DeleteTokens(c) \/ Abort(c) PROVE UNCHANGED <<stale, twofold>>
    BY <2>8 DEF DeleteTokens, Abort
  <2>9. CASE UNCHANGED identityVars
    BY <2>9 DEF identityVars
  <2> QED BY <2>2, <2>3, <2>4, <2>5, <2>6, <2>7, <2>8, <2>9 DEF IdentitiesNext
<1> QED BY <1>1, <1>2, <1>3, <1>4, <1>5

LEMMA UserTypes == IdentitiesAssumption /\ IdentityInv /\ UserFlags => IdentityTypeOK
<1> SUFFICES ASSUME IdentitiesAssumption, IdentityInv, UserFlags PROVE IdentityTypeOK
  OBVIOUS
<1>1. /\ identity \in IdentityRows /\ request \in [Calls -> RequestType]
      /\ live \in [Kinds -> SUBSET Tokens] /\ issued \in 0 .. MaxTokens /\ MaxTokens \in Nat
      /\ spent \subseteq Tokens /\ made \subseteq Tokens
  BY DEF IdentityInv, TokensMatch, MadeMatch, IdentitiesAssumption
<1>2. ASSUME NEW c \in Calls
      PROVE  /\ request[c].op \in {"idle", "fail", "login", "change", "update", "activate",
                                   "confirm", "replace", "insert"}
             /\ {request[c].row, request[c].save} \subseteq IdentityRows
             /\ request[c].token \in 0 .. issued /\ request[c].kind \in Kinds
             /\ request[c].seen \subseteq Tokens
  <2>1. request[c] \in RequestType
    BY <1>1
  <2>2. /\ request[c].op \in Ops /\ request[c].row \in IdentityRows
        /\ request[c].save \in IdentityRows /\ request[c].token \in 0 .. MaxTokens
        /\ request[c].kind \in Kinds /\ request[c].seen \in SUBSET Tokens
    BY <2>1 DEF RequestType
  <2>3. request[c].token <= issued
    BY DEF IdentityInv, Matches
  <2>4. request[c].token \in 0 .. issued
    BY <1>1, <2>2, <2>3
  <2> QED BY <2>2, <2>4 DEF Ops
<1>3. {stale, twofold} \subseteq BOOLEAN
  BY DEF UserFlags
<1> QED BY <1>1, <1>2, <1>3 DEF IdentityTypeOK

-----------------------------------------------------------------------------
(* The theorems of the components that MCTrading instantiates *)

TradingInv == RecurInv /\ AlertInv /\ DividendInv /\ TaxInv /\ SessionInv

\* What a step of the whole does to each component.
LEMMA TradingSteps ==
  ASSUME [TradingNext]_tradingVars
  PROVE  /\ [Recur!Next]_recurVars /\ [Alert!Next]_alertVars /\ [Payout!Next]_payoutVars
         /\ [Tax!Next]_dueVars /\ [Session!Next]_hourVars
         /\ [IdentitiesNext]_identityVars /\ [ActuariesNext]_actuaryVars /\ [Next]_vars
BY DEF TradingNext, RunAgreement, RunOrders, RunTaxes, RunFund, RunRecurring, RunAlerts,
       RunDividends, RunIdentity, RunActuary, RunSessions, RunOptions, tradingVars

\* TradingInv holds throughout: what each job, request and collection holds agrees with
\* what it has read and not yet written.
THEOREM TradingInvariant == TradingSpec => []TradingInv
<1>1. TradingInit => TradingInv
  BY RecurInitially, AlertInitially, DividendsInitially, TaxInitially,
     SessionsInitially DEF TradingInit, TradingInv
<1>2. TradingInv /\ [TradingNext]_tradingVars => TradingInv'
  BY TradingSteps, RecurStep, AlertStep, DividendStep, TaxStep, SessionStep
     DEF TradingInv
<1> QED BY <1>1, <1>2, PTL DEF TradingSpec

\* Every run of a recurring order is ordered or skipped once, as long as nobody overwrote
\* the row while the scheduler worked (RecurringOrderService.ProcessDue).
THEOREM RunsAlwaysAccounted == TradingSpec => []Recur!RunsAccounted
<1>1. TradingInv => Recur!RunsAccounted
  BY DEF TradingInv, RecurInv
<1> QED BY <1>1, TradingInvariant, PTL

\* A price alert sends one e-mail: none before it is triggered, and one after unless the
\* server stopped before it was sent (PriceAlertService.fire).
THEOREM AlwaysNotifiedOnce == TradingSpec => []Alert!NotifiedOnce
<1>1. TradingInv => Alert!NotifiedOnce
  BY DEF TradingInv, AlertInv
<1> QED BY <1>1, TradingInvariant, PTL

\* An order is filled at its limit or better, and only after the listing's price has
\* reached its stop (OrderService.processOrder).
THEOREM AlwaysFilledAtItsPrice == TradingSpec => []Session!FilledAtItsPrice
<1>1. TradingInv => Session!FilledAtItsPrice
  BY DEF TradingInv, SessionInv
<1> QED BY <1>1, TradingInvariant, PTL

\* Runs are ordered or skipped once, an alert is notified once, an order is filled at its
\* price; and, if the delays fit in a session, an approved order finds the exchange open
\* by its next opening, or as much later as the exchange is ahead of the server
\* (OrderService.processOrder, NextOpen).
THEOREM ScheduledAlwaysOnce == WaitsFit => (TradingSpec => []ScheduledOnce)
<1> SUFFICES ASSUME WaitsFit PROVE TradingSpec => []ScheduledOnce
  OBVIOUS
<1>1. TradingInit => TimeMatches
  BY TimeInitially DEF TradingInit
<1>2. TradingInv /\ TradingInv' /\ TimeMatches /\ [TradingNext]_tradingVars => TimeMatches'
  BY TradingSteps, TimeStep DEF TradingInv
<1>3. TradingInv /\ TimeMatches => ScheduledOnce
  BY TimeImplied DEF TradingInv, RecurInv, AlertInv, SessionInv, ScheduledOnce
<1> QED BY <1>1, <1>2, <1>3, TradingInvariant, PTL DEF TradingSpec

\* A dividend is paid to an owner once, and a fund distributes at most the part it does
\* not reinvest.  With the other part it buys no more shares than that was worth when the
\* run started, and it spends on them no more than that as long as no ask was above the
\* price and no portion was bought twice (DividendPayoutService, resolveExecutionPrice).
THEOREM DividendsAlwaysExact == TradingSpec => []DividendsExact
<1>1. TradingInv => DividendsExact
  BY DividendInvExact DEF TradingInv, DividendsExact
<1> QED BY <1>1, TradingInvariant, PTL

\* The tax recorded for a payer is owed, collected or relieved, once, as long as no two
\* actors overlapped on it (TaxService).
THEOREM TaxAlwaysAccounted == TradingSpec => []TaxAccounted
<1>1. TradingInv => TaxAccounted
  BY TaxImplied DEF TradingInv, TaxAccounted
<1> QED BY <1>1, TradingInvariant, PTL

\* Every reachable state of trading-service and user-service has its types: a request
\* holds what is a row, tax relieved is never negative, and the time an order is put off
\* to exists, for any week with a day of trade (exchange.go, NextOpen).
THEOREM TradingTypesAlways == TradingSpec => []TradingTypeOK
<1> DEFINE Inv == /\ TaxKinds /\ AgreementInv /\ UserFlags /\ IdentityInv /\ ActuaryInv
<1>0. AgreementAssumption /\ IdentitiesAssumption /\ ActuariesAssumption
  BY AgreementAssumption, TradingAssumption
<1>1. TradingInit => Inv
  BY <1>0, TaxKindsInitially, AgreementInitially, UserFlagsInitially, IdentityInit, ActuaryInit
     DEF TradingInit
<1>2. TradingInv /\ TradingInv' /\ Inv /\ [TradingNext]_tradingVars => Inv'
  <2> SUFFICES ASSUME TradingInv, TradingInv', Inv, [TradingNext]_tradingVars PROVE Inv'
    OBVIOUS
  <2>1. TaxKinds'
    <3>1. CASE Tax!Next
      BY <3>1, TaxKindsStep DEF TradingInv
    <3>2. CASE UNCHANGED dueVars
      BY <3>2, TaxKindsStays
    <3> QED BY <3>1, <3>2, TradingSteps
  <2>2. AgreementInv'
    BY <1>0, TradingSteps, AgreementSteps
  <2>3. UserFlags' /\ IdentityInv' /\ ActuaryInv'
    BY <1>0, TradingSteps, UserFlagsStep, IdentityStep, ActuaryStep
  <2> QED BY <2>1, <2>2, <2>3
<1>3. TradingInv /\ Inv /\ OrderInv /\ OptionInv /\ FundInv => TradingTypeOK
  <2> SUFFICES ASSUME TradingInv, Inv, OrderInv, OptionInv, FundInv PROVE TradingTypeOK
    OBVIOUS
  <2>1. Trade!OrderTypeOK /\ Exercise!ExerciseTypeOK
    BY OrderTypes DEF OrderInv, OptionInv
  <2>2. Tax!TaxTypeOK
    BY TaxKindsTyped DEF TradingInv, TaxInv
  <2>3. /\ Recur!RecurringTypeOK /\ Alert!AlertTypeOK /\ Payout!DividendTypeOK
        /\ Fund!FundTypeOK /\ Session!SessionTypeOK
    BY DEF TradingInv, FundInv, RecurInv, AlertInv, DividendInv, FundTyped, SessionInv
  <2>4. IdentityTypeOK /\ ActuaryTypeOK /\ AgreementTypeOK
    BY <1>0, UserTypes DEF ActuaryInv, AgreementInv
  <2> QED BY <2>1, <2>2, <2>3, <2>4 DEF TradingTypeOK
<1> HIDE DEF Inv
<1> QED BY <1>1, <1>2, <1>3, TradingInvariant, OrderInvariant, OptionInvariant, FundInvariant, PTL
       DEF TradingSpec
=============================================================================
