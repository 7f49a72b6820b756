------------------------------ MODULE Actuaries ------------------------------
(***************************************************************************)
(* An employee of user-service as an actuary: the row with the roles and    *)
(* the limit used up, and the investment funds that trading-service keeps   *)
(* under the employee's name.                                               *)
(*                                                                          *)
(* The limit is increased and reset by single UPDATE statements; roles are  *)
(* changed by reading the row, without a lock, and writing back all of it.  *)
(* The module follows one employee who is not an administrator.             *)
(***************************************************************************)
EXTENDS Naturals

CONSTANTS
    ActuaryCalls, \* requests served at a time
    MaxUsed       \* bound on what is bought between two resets

ActuariesAssumption == MaxUsed \in Nat

VARIABLES
    actuary,        \* the row
    funds,          \* the employee manages funds
    actuaryRequest, \* what each request has read
    charged,        \* history: bought since the limit was reset or the role was given up
    outdated,       \* history: the row was overwritten with an older view of it
    kept            \* history: funds stayed with, or came to, one who is not a supervisor

actuaryVars == <<actuary, funds, actuaryRequest, charged, outdated, kept>>

NoRow == [agent |-> FALSE, supervisor |-> FALSE, used |-> MaxUsed + 1]
ActuaryRows  == [agent : BOOLEAN, supervisor : BOOLEAN, used : 0 .. MaxUsed] \cup {NoRow}
IdleActuary  == [op |-> "idle", row |-> NoRow, save |-> NoRow]

ActuaryTypeOK ==
    /\ actuary \in ActuaryRows /\ {funds, outdated, kept} \subseteq BOOLEAN
    /\ actuaryRequest \in [ActuaryCalls ->
         [op : {"idle", "settings", "employee", "transfer", "increment", "reset", "fund"},
          row : ActuaryRows, save : ActuaryRows]]
    /\ charged \in 0 .. MaxUsed

ActuariesInit ==
    /\ actuary = NoRow /\ funds = FALSE /\ actuaryRequest = [c \in ActuaryCalls |-> IdleActuary]
    /\ charged = 0 /\ outdated = FALSE /\ kept = FALSE

-----------------------------------------------------------------------------
Read(c, op, save) ==
    /\ actuaryRequest[c] = IdleActuary
    /\ actuaryRequest' = [actuaryRequest EXCEPT ![c] = [op |-> op, row |-> actuary, save |-> save]]
    /\ UNCHANGED <<actuary, funds, charged, outdated, kept>>

ReturnActuary(c) == actuaryRequest' = [actuaryRequest EXCEPT ![c] = IdleActuary]

\* Save writes all columns, and inserts the row again if it is gone.
SaveActuary(c) ==
    /\ actuary' = actuaryRequest[c].save
    /\ outdated' = (outdated \/ actuary # actuaryRequest[c].row)

-----------------------------------------------------------------------------
(* Roles *)

\* The settings change the flags one by one, and nothing else.
FindSettings(c, agent, supervisor) ==
    /\ actuary # NoRow
    /\ Read(c, "settings", [actuary EXCEPT !.agent = agent, !.supervisor = supervisor])

UpdateActuarySettings(c) ==
    /\ actuaryRequest[c].op = "settings" /\ SaveActuary(c)
    /\ IF actuaryRequest[c].row.supervisor /\ ~ actuaryRequest[c].save.supervisor
       THEN actuaryRequest' = [actuaryRequest EXCEPT ![c].op = "transfer"]
       ELSE ReturnActuary(c)
    /\ UNCHANGED <<funds, charged, kept>>

\* Trading-service renames the funds, or the call fails; nobody repeats it.
TransferFunds(c) ==
    /\ actuaryRequest[c].op = "transfer"
    /\ \/ funds' = FALSE /\ UNCHANGED kept
       \/ kept' = (kept \/ funds) /\ UNCHANGED funds
    /\ ReturnActuary(c)
    /\ UNCHANGED <<actuary, charged, outdated>>

\* A mutated form: the row is built anew.
AssignedAnew(row, agent, supervisor) ==
    IF agent \/ supervisor THEN [agent |-> agent, supervisor |-> supervisor, used |-> 0] ELSE NoRow

\* The row that UpdateEmployee stores, whatever it was asked to change.
Assigned(row, agent, supervisor) ==
    IF ~ agent /\ ~ supervisor THEN NoRow
    ELSE [agent |-> agent, supervisor |-> supervisor,
          used |-> IF supervisor \/ row = NoRow THEN 0 ELSE row.used]

FindEmployee(c, agent, supervisor) ==
    /\ ~ (agent /\ supervisor)
    /\ Read(c, "employee", Assigned(actuary, agent, supervisor))

UpdateEmployeeRoles(c) ==
    LET save == actuaryRequest[c].save IN
    /\ actuaryRequest[c].op = "employee" /\ SaveActuary(c)
    /\ charged' = (IF save = NoRow \/ save.supervisor THEN 0 ELSE charged)
    /\ kept' = (kept \/ (funds /\ ~ save.supervisor))
    /\ ReturnActuary(c)
    /\ UNCHANGED funds

-----------------------------------------------------------------------------
(* The limit *)

FindAgent(c, op) == actuary.agent /\ Read(c, op, NoRow)

IncrementUsedLimit(c) ==
    /\ actuaryRequest[c].op = "increment" /\ actuary.used # MaxUsed /\ charged < MaxUsed
    /\ IF actuary.agent
       THEN actuary' = [actuary EXCEPT !.used = @ + 1] /\ charged' = charged + 1
       ELSE UNCHANGED <<actuary, charged>>
    /\ ReturnActuary(c) /\ UNCHANGED <<funds, outdated, kept>>

ResetUsedLimit(c) ==
    /\ actuaryRequest[c].op = "reset"
    /\ actuary' = IF actuary = NoRow THEN NoRow ELSE [actuary EXCEPT !.used = 0]
    /\ charged' = 0
    /\ ReturnActuary(c) /\ UNCHANGED <<funds, outdated, kept>>

\* The scheduler, at the end of a day.
ResetAllUsedLimits ==
    /\ actuary.agent
    /\ actuary' = [actuary EXCEPT !.used = 0] /\ charged' = 0
    /\ UNCHANGED <<funds, actuaryRequest, outdated, kept>>

-----------------------------------------------------------------------------
\* A fund is created for one who was a supervisor when the request came in.
FindSupervisor(c) == actuary.supervisor /\ Read(c, "fund", NoRow)

CreateFund(c) ==
    /\ actuaryRequest[c].op = "fund"
    /\ funds' = TRUE /\ kept' = (kept \/ ~ actuary.supervisor)
    /\ ReturnActuary(c)
    /\ UNCHANGED <<actuary, charged, outdated>>

\* A write fails or the process stops; what was to follow is not made up for.
AbortActuary(c) ==
    /\ actuaryRequest[c] # IdleActuary
    /\ kept' = (kept \/ (funds /\ actuaryRequest[c].op = "transfer"))
    /\ ReturnActuary(c)
    /\ UNCHANGED <<actuary, funds, charged, outdated>>

ActuariesNext ==
    \/ ResetAllUsedLimits
    \/ \E c \in ActuaryCalls :
         \/ \E agent, supervisor \in BOOLEAN :
              FindSettings(c, agent, supervisor) \/ FindEmployee(c, agent, supervisor)
         \/ \E op \in {"increment", "reset"} : FindAgent(c, op)
         \/ UpdateActuarySettings(c) \/ TransferFunds(c) \/ UpdateEmployeeRoles(c)
         \/ IncrementUsedLimit(c) \/ ResetUsedLimit(c)
         \/ FindSupervisor(c) \/ CreateFund(c) \/ AbortActuary(c)

ActuariesSpec == ActuariesInit /\ [][ActuariesNext]_actuaryVars

-----------------------------------------------------------------------------
(* Properties *)

\* The limit used up is what was bought since it was reset, whatever happens to the
\* roles in between, and funds are managed by a supervisor: unless the row was
\* overwritten with an older view of it (which takes no more than an update of the
\* employee's phone number that overlaps a purchase), or the call that transfers the
\* funds failed, or the role was taken away by UpdateEmployee, which makes no such call,
\* or while a fund was being created.
ActuaryIsExact ==
    ~ outdated =>
      /\ actuary # NoRow => actuary.used = charged
      /\ funds => \/ kept \/ actuary.supervisor
                  \/ \E c \in ActuaryCalls : actuaryRequest[c].op = "transfer"
==============================================================================
