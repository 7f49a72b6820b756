----------------------------- MODULE PriceAlerts -----------------------------
(***************************************************************************)
(* A price alert of trading-service: a scheduler compares the price of the  *)
(* listing with the threshold, marks the alert as triggered and has its     *)
(* owner notified by a goroutine of its own.  Alerts do not depend on each  *)
(* other, so that the module follows one.                                   *)
(***************************************************************************)
EXTENDS Naturals

VARIABLES
    alert,     \* the row: "none", "active" or "triggered"
    met,       \* whether the price of the listing meets the condition
    checker,   \* how far CheckAndFire is with the alert it has read
    notifying, \* goroutines that send the e-mail
    notified,  \* history: e-mails handed over for the alert
    created,   \* history: the alert was created
    lost       \* history: the process stopped, or a mark or an e-mail failed

alertVars == <<alert, met, checker, notifying, notified, created, lost>>

AlertTypeOK ==
    /\ alert \in {"none", "active", "triggered"} /\ checker \in {"idle", "firing", "marked"}
    /\ {notifying, notified} \subseteq Nat /\ {met, created, lost} \subseteq BOOLEAN

Init ==
    /\ alert = "none" /\ met \in BOOLEAN /\ checker = "idle"
    /\ notifying = 0 /\ notified = 0 /\ created = FALSE /\ lost = FALSE

-----------------------------------------------------------------------------
CreateAlert ==
    /\ ~ created /\ created' = TRUE /\ alert' = "active"
    /\ UNCHANGED <<met, checker, notifying, notified, lost>>

DeleteAlert ==
    /\ alert # "none" /\ alert' = "none"
    /\ UNCHANGED <<met, checker, notifying, notified, created, lost>>

RefreshPrice ==
    /\ met' = ~ met
    /\ UNCHANGED <<alert, checker, notifying, notified, created, lost>>

\* The alert and the price of its listing are read together.
FindAllActive ==
    /\ checker = "idle" /\ alert = "active" /\ met
    /\ checker' = "firing"
    /\ UNCHANGED <<alert, met, notifying, notified, created, lost>>

\* An UPDATE by id; when it fails the alert is left to the next tick, and when it has
\* taken effect and reports an error nobody is notified.
MarkTriggered ==
    LET marked == IF alert = "none" THEN "none" ELSE "triggered" IN
    /\ checker = "firing"
    /\ \/ alert' = marked /\ checker' = "marked" /\ UNCHANGED lost
       \/ alert' = alert /\ checker' = "idle" /\ UNCHANGED lost
       \/ alert' = marked /\ checker' = "idle" /\ lost' = TRUE
    /\ UNCHANGED <<met, notifying, notified, created>>

NotifyPriceAlert ==
    /\ checker = "marked"
    /\ checker' = "idle" /\ notifying' = notifying + 1
    /\ UNCHANGED <<alert, met, notified, created, lost>>

\* The recipient is looked up and the e-mail sent, once; a failure is logged.
Send ==
    /\ notifying > 0 /\ notifying' = notifying - 1
    /\ \/ notified' = notified + 1 /\ UNCHANGED lost
       \/ lost' = TRUE /\ UNCHANGED notified
    /\ UNCHANGED <<alert, met, checker, created>>

Crash ==
    /\ checker' = "idle" /\ notifying' = 0
    /\ lost' = (lost \/ checker = "marked" \/ notifying > 0)
    /\ UNCHANGED <<alert, met, notified, created>>

Next ==
    \/ CreateAlert \/ DeleteAlert \/ RefreshPrice
    \/ FindAllActive \/ MarkTriggered \/ NotifyPriceAlert \/ Send \/ Crash

Spec == Init /\ [][Next]_alertVars

-----------------------------------------------------------------------------
(* Properties *)

\* An alert that fires is notified once, also when the price comes and goes and the
\* process stops and starts: never twice, and not at all only when the e-mail failed
\* or the process stopped behind the mark.
NotifiedOnce ==
    LET under == notifying + (IF checker = "marked" THEN 1 ELSE 0) IN
    /\ notified + under <= 1
    /\ alert = "active" => notified + under = 0
    /\ alert = "triggered" /\ ~ lost => notified + under = 1
==============================================================================
