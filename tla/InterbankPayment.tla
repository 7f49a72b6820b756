-------------------------- MODULE InterbankPayment --------------------------
(***************************************************************************)
(* Payments from an account of one bank to an account of another: the two-  *)
(* phase commit of interbank-service, with its prepared transactions, its   *)
(* outbox and its inbox.                                                    *)
(*                                                                          *)
(* The payer's bank coordinates.  Its processor reserves the money and      *)
(* leaves a NEW_TX in the outbox; outbox workers deliver it, and commit or  *)
(* roll back what they are answered.  The payee's bank prepares, commits    *)
(* and rolls back when it is told to.  Three kinds of actors take the       *)
(* steps: the request that initiates a payment, which has the payment's     *)
(* name; the workers of the payer's bank; the handlers of the payee's bank, *)
(* each of which serves one HTTP request at a time.                         *)
(*                                                                          *)
(* A read or a write of the database and a call of the banking-service are  *)
(* one action each: a transaction of interbank-service locks nothing that   *)
(* it only reads, so that others come between its reads and its write.      *)
(***************************************************************************)
EXTENDS Naturals

CONSTANTS
    Payments,     \* payments, each also the request that initiates it
    Workers,      \* outbox workers, one per running interbank-service
    Handlers,     \* HTTP requests the payee's bank serves at a time
    MaxAttempts,  \* OutboxMaxAttempts
    Faults,       \* what may fail, see below
    MaxFaults     \* and how often

\* "crash": a process dies, or the cancelled context of a request ends it;
\* "slow": a worker is still at a row when its lease has lapsed; "lost": a
\* message between the banks, or its answer, is lost; "failure": a call of the
\* database or of the banking-service fails; "lost_answer": a call of the
\* banking-service is executed and its answer is lost.
AllFaults == {"crash", "slow", "lost", "failure", "lost_answer"}

NoActor == "no actor"
Actors  == Payments \cup Workers \cup Handlers

ASSUME PaymentAssumption ==
    /\ MaxAttempts \in Nat \ {0} /\ MaxFaults \in Nat
    /\ Faults \subseteq AllFaults
    /\ Payments \cap Workers = {} /\ Payments \cap Handlers = {}
    /\ Workers \cap Handlers = {}
    /\ Payments # {} /\ NoActor \notin Actors

Banks    == {"payer", "payee"}
Messages == {"NEW", "COMMIT", "ROLLBACK"}

VARIABLES
    record,     \* status of the PreparedTransaction of a payment in each bank
    posting,    \* status of its InterbankCashPosting in each bank
    willing,    \* whether banking can reserve the posting in each bank
    outbox,     \* rows of outbound_messages of the payer's bank
    inbox,      \* answers kept in inbound_messages of the payee's bank
    banking,    \* status of the payment's Transaction in the payer's bank
    actor,      \* where each actor is
    faults,     \* how many faults there have been
    disturbed   \* payments a call for which has failed, or lost its answer

bankVars  == <<record, posting>>
faultVars == <<faults, disturbed>>
vars == <<bankVars, willing, outbox, inbox, banking, actor, faultVars>>

RecordStates  == {"NONE", "PREPARING", "PREPARED", "COMMITTED", "ROLLED_BACK"}
PostingStates == {"NONE", "PREPARED", "COMMITTED", "ROLLED_BACK"}
Replies       == {"YES", "NO", "DONE", "LATER", "ERROR"}

InitiatorPlaces == {"new", "reserve", "confirm", "refuse", "enqueue", "reject", "end"}
WorkerPlaces  == {"idle", "send", "wait", "retry", "commit", "bankCommit", "saveCommit",
                  "enqueue", "rollback", "bankRollback", "saveRollback", "reportPaid",
                  "reportFailed", "sync", "syncWait", "markSent", "markFailed"}
HandlerPlaces == {"idle", "prepare", "create", "reserve", "confirm", "refuse", "vote", "commit",
                  "bankCommit", "saveCommit", "rollback", "bankRollback", "saveRollback",
                  "answer"}
Places == InitiatorPlaces \cup WorkerPlaces \cup HandlerPlaces

\* msg is the message an actor works at; attempts, giveUp (the NEW_TX is being
\* given up) and fresh (it has inserted the COMMIT_TX itself) belong to workers,
\* caller and reply to handlers.
Jobs == [at : Places, pay : Payments, msg : Messages, attempts : Nat,
         giveUp : BOOLEAN, fresh : BOOLEAN, caller : Workers \cup {NoActor},
         reply : Replies]

Job(place, p) == [at |-> place, pay |-> p, msg |-> "NEW", attempts |-> 0,
                  giveUp |-> FALSE, fresh |-> FALSE, caller |-> NoActor,
                  reply |-> "ERROR"]

Idle == Job("idle", CHOOSE p \in Payments : TRUE)

Rows  == [status : {"NONE", "PENDING", "SENT", "FAILED"}, attempts : Nat, leased : BOOLEAN]
NoRow == [status |-> "NONE", attempts |-> 0, leased |-> FALSE]

PaymentTypeOK ==
    /\ record \in [Banks -> [Payments -> RecordStates]]
    /\ posting \in [Banks -> [Payments -> PostingStates]]
    /\ willing \in [Banks -> [Payments -> BOOLEAN]]
    /\ outbox \in [Payments -> [Messages -> Rows]]
    /\ inbox \in [Payments -> [Messages -> Replies]]
    /\ banking \in [Payments -> {"PROCESSING", "COMPLETED", "REJECTED"}]
    /\ actor \in [Actors -> Jobs]
    /\ faults \in Nat /\ disturbed \subseteq Payments

\* An inbox entry that does not exist reads "ERROR": errors are never kept.
Init ==
    /\ record = [b \in Banks |-> [p \in Payments |-> "NONE"]]
    /\ posting = [b \in Banks |-> [p \in Payments |-> "NONE"]]
    /\ willing \in [Banks -> [Payments -> BOOLEAN]]
    /\ outbox = [p \in Payments |-> [m \in Messages |-> NoRow]]
    /\ inbox = [p \in Payments |-> [m \in Messages |-> "ERROR"]]
    /\ banking = [p \in Payments |-> "PROCESSING"]
    /\ actor = [a \in Actors |-> IF a \in Payments THEN Job("new", a) ELSE Idle]
    /\ faults = 0 /\ disturbed = {}

-----------------------------------------------------------------------------
(* Helpers *)

At(a, place) == actor[a].at = place
Pay(a)       == actor[a].pay
Bank(a)      == IF a \in Handlers THEN "payee" ELSE "payer"

Go(a, place)    == actor' = [actor EXCEPT ![a].at = place]
GiveUp(a)       == actor' = [actor EXCEPT ![a].at = "rollback", ![a].giveUp = TRUE]
Reply(h, place, reply) == actor' = [actor EXCEPT ![h].at = place, ![h].reply = reply]

SaveRecord(a, status)  == record' = [record EXCEPT ![Bank(a)][Pay(a)] = status]
SavePosting(a, status) == posting' = [posting EXCEPT ![Bank(a)][Pay(a)] = status]

Record(a)  == record[Bank(a)][Pay(a)]
Posting(a) == posting[Bank(a)][Pay(a)]

Fault(kind) == kind \in Faults /\ faults < MaxFaults /\ faults' = faults + 1

\* A call that reports an error, having failed or having lost its answer.
Disturbs(a, kind) == Fault(kind) /\ disturbed' = disturbed \cup {Pay(a)}
Fails(a)          == Disturbs(a, "failure")
Unanswered(a)     == Disturbs(a, "lost_answer")

\* Enqueue: a row with this key that exists already is left alone.
Enqueue(p, m) ==
    outbox' = IF outbox[p][m].status = "NONE"
              THEN [outbox EXCEPT ![p][m] = [NoRow EXCEPT !.status = "PENDING"]]
              ELSE outbox

-----------------------------------------------------------------------------
(* PrepareLocalTransaction, by the initiating request and by handlers *)

\* Phase 1 of a payment that is initiated: its id is new.
Initiate(p) ==
    /\ At(p, "new")
    /\ \/ SaveRecord(p, "PREPARING") /\ Go(p, "reserve") /\ UNCHANGED faultVars
       \/ Fails(p) /\ Go(p, "reject") /\ UNCHANGED record
    /\ UNCHANGED <<posting, willing, outbox, inbox, banking>>

\* Phase 1 of a NEW_TX that arrives.
Prepare(h) ==
    /\ At(h, "prepare")
    /\ \/ Record(h) = "NONE" /\ Go(h, "create") /\ UNCHANGED faultVars
       \/ Record(h) = "PREPARING" /\ Go(h, "reserve") /\ UNCHANGED faultVars
       \/ /\ Record(h) \in {"PREPARED", "COMMITTED"}
          /\ Reply(h, "vote", "YES") /\ UNCHANGED faultVars
       \/ Record(h) = "ROLLED_BACK" /\ Reply(h, "vote", "NO") /\ UNCHANGED faultVars
       \/ Fails(h) /\ Go(h, "answer")
    /\ UNCHANGED <<bankVars, willing, outbox, inbox, banking>>

\* Of two handlers that have found no record, one finds its key taken.
Create(h) ==
    /\ At(h, "create")
    /\ \/ /\ Record(h) = "NONE"
          /\ SaveRecord(h, "PREPARING") /\ Go(h, "reserve") /\ UNCHANGED faultVars
       \/ Record(h) # "NONE" /\ Go(h, "answer") /\ UNCHANGED <<record, faultVars>>
       \/ Fails(h) /\ Go(h, "answer") /\ UNCHANGED record
    /\ UNCHANGED <<posting, willing, outbox, inbox, banking>>

\* Mutant of Reserve: a posting that exists is refused.
ReserveOnce(a) ==
    /\ At(a, "reserve")
    /\ \/ /\ Posting(a) = "NONE" /\ willing[Bank(a)][Pay(a)]
          /\ SavePosting(a, "PREPARED") /\ Go(a, "confirm") /\ UNCHANGED faultVars
       \/ /\ Posting(a) # "NONE" \/ ~willing[Bank(a)][Pay(a)]
          /\ Go(a, "refuse") /\ UNCHANGED <<posting, faultVars>>
    /\ UNCHANGED <<record, willing, outbox, inbox, banking>>

\* Phase 2, InterbankCashService.Prepare: a posting is reserved unless it is.
Reserve(a) ==
    LET known == Posting(a) \in {"PREPARED", "COMMITTED"}
        taken == willing[Bank(a)][Pay(a)] /\ ~known
    IN  /\ At(a, "reserve")
        /\ \/ known /\ Go(a, "confirm") /\ UNCHANGED <<posting, faultVars>>
           \/ taken /\ SavePosting(a, "PREPARED") /\ Go(a, "confirm") /\ UNCHANGED faultVars
           \/ ~known /\ ~taken /\ Go(a, "refuse") /\ UNCHANGED <<posting, faultVars>>
           \/ Fails(a) /\ Go(a, "refuse") /\ UNCHANGED posting
           \/ taken /\ Unanswered(a) /\ SavePosting(a, "PREPARED") /\ Go(a, "refuse")
        /\ UNCHANGED <<record, willing, outbox, inbox, banking>>

\* Where phase 3 leads to, and where an error in it.
Confirmed(a) == IF a \in Handlers THEN Reply(a, "vote", "YES") ELSE Go(a, "enqueue")
Broken(a)    == Go(a, IF a \in Handlers THEN "answer" ELSE "reject")

\* Phase 3 writes the record it read in phase 1, whatever has become of it.
Confirm(a) ==
    /\ At(a, "confirm")
    /\ \/ SaveRecord(a, "PREPARED") /\ Confirmed(a) /\ UNCHANGED faultVars
       \/ Fails(a) /\ Broken(a) /\ UNCHANGED record
    /\ UNCHANGED <<posting, willing, outbox, inbox, banking>>

\* So does a vote NO, whose one posting is not among the effects to undo.
Refuse(a) ==
    /\ At(a, "refuse")
    /\ \/ SaveRecord(a, "ROLLED_BACK") /\ UNCHANGED faultVars
       \/ Fails(a) /\ UNCHANGED record
    /\ IF a \in Handlers THEN Reply(a, "vote", "NO") ELSE Go(a, "reject")
    /\ UNCHANGED <<posting, willing, outbox, inbox, banking>>

\* PrepareAndEnqueueNewTx after a vote YES, then the answer to banking.
EnqueueNewTx(p) ==
    /\ At(p, "enqueue")
    /\ \/ Enqueue(p, "NEW") /\ Go(p, "end") /\ UNCHANGED faultVars
       \/ Fails(p) /\ Go(p, "reject") /\ UNCHANGED outbox
    /\ UNCHANGED <<bankVars, willing, inbox, banking>>

\* processInterbank: a definite error rejects the payment, one that may only
\* be a lost answer leaves it as it is.
Reject(p) ==
    /\ At(p, "reject")
    /\ \/ banking' = [banking EXCEPT ![p] = "REJECTED"] /\ UNCHANGED faultVars
       \/ Unanswered(p) /\ UNCHANGED banking
    /\ Go(p, "end")
    /\ UNCHANGED <<bankVars, willing, outbox, inbox>>

-----------------------------------------------------------------------------
(* CommitLocalTransaction and RollbackLocalTransaction *)

\* Where a worker or a handler goes when its transaction fails.
Abort(a) == Go(a, IF a \in Handlers THEN "answer" ELSE "markSent")

\* A handler's answer is kept in the transaction that it is the result of.
Keep(h, reply) ==
    /\ inbox' = [inbox EXCEPT ![Pay(h)][actor[h].msg] = reply]
    /\ Reply(h, "answer", reply)

\* What follows a local commit with nothing to do, in the same transaction:
\* a worker still enqueues its COMMIT_TX, a handler keeps its answer.
Conclude(a, reply) ==
    IF a \in Handlers THEN Keep(a, reply) ELSE Go(a, "enqueue") /\ UNCHANGED inbox

Concluded == {"NONE", "PREPARING", "COMMITTED"}

\* Mutant of ReadForCommit: a transaction that is rolled back is over, too.
ReadTakesAnyEnd(a) ==
    /\ At(a, "commit")
    /\ \/ Record(a) # "PREPARED" /\ Conclude(a, "DONE") /\ UNCHANGED faultVars
       \/ Record(a) = "PREPARED" /\ Go(a, "bankCommit") /\ UNCHANGED <<inbox, faultVars>>
       \/ Fails(a) /\ Abort(a) /\ UNCHANGED inbox
    /\ UNCHANGED <<bankVars, willing, outbox, banking>>

\* A transaction that is not prepared yet is answered with 202.
ReadForCommit(a) ==
    /\ At(a, "commit")
    /\ \/ /\ Record(a) \in Concluded
          /\ Conclude(a, IF Record(a) = "COMMITTED" THEN "DONE" ELSE "LATER")
          /\ UNCHANGED faultVars
       \/ Record(a) = "ROLLED_BACK" /\ Abort(a) /\ UNCHANGED <<inbox, faultVars>>
       \/ Record(a) = "PREPARED" /\ Go(a, "bankCommit") /\ UNCHANGED <<inbox, faultVars>>
       \/ Fails(a) /\ Abort(a) /\ UNCHANGED inbox
    /\ UNCHANGED <<bankVars, willing, outbox, banking>>

\* Mutant of BankCommit: its errors are logged and no more.
BankCommitIgnoresErrors(a) ==
    /\ At(a, "bankCommit")
    /\ \/ Posting(a) \in {"PREPARED", "COMMITTED"} /\ SavePosting(a, "COMMITTED") /\ UNCHANGED faultVars
       \/ Posting(a) \notin {"PREPARED", "COMMITTED"} /\ UNCHANGED <<posting, faultVars>>
       \/ Fails(a) /\ UNCHANGED posting
    /\ Go(a, "saveCommit")
    /\ UNCHANGED <<record, willing, outbox, inbox, banking>>

\* InterbankCashService.Commit: rolled back postings are refused.
BankCommit(a) ==
    LET possible == Posting(a) \in {"PREPARED", "COMMITTED"}
    IN  /\ At(a, "bankCommit")
        /\ \/ /\ possible /\ SavePosting(a, "COMMITTED")
              /\ Go(a, "saveCommit") /\ UNCHANGED faultVars
           \/ ~possible /\ Abort(a) /\ UNCHANGED <<posting, faultVars>>
           \/ Fails(a) /\ Abort(a) /\ UNCHANGED posting
           \/ possible /\ Unanswered(a) /\ SavePosting(a, "COMMITTED") /\ Abort(a)
        /\ UNCHANGED <<record, willing, outbox, inbox, banking>>

\* A worker enqueues the COMMIT_TX in the transaction that saves the record.
SaveCommit(a) ==
    /\ At(a, "saveCommit")
    /\ \/ /\ SaveRecord(a, "COMMITTED")
          /\ IF a \in Handlers
             THEN Keep(a, "DONE") /\ UNCHANGED outbox
             ELSE /\ Enqueue(Pay(a), "COMMIT")
                  /\ actor' = [actor EXCEPT ![a].at = "reportPaid",
                         ![a].fresh = outbox[Pay(a)]["COMMIT"].status = "NONE"]
                  /\ UNCHANGED inbox
          /\ UNCHANGED faultVars
       \/ Fails(a) /\ Abort(a) /\ UNCHANGED <<record, outbox, inbox>>
    /\ UNCHANGED <<posting, willing, banking>>

\* The follow-up of a worker whose local transaction has found nothing to do.
EnqueueFollowUp(w) ==
    LET m == IF actor[w].giveUp THEN "ROLLBACK" ELSE "COMMIT"
    IN  /\ At(w, "enqueue")
        /\ \/ /\ Enqueue(Pay(w), m)
              /\ actor' = [actor EXCEPT
                     ![w].at = IF m = "COMMIT" THEN "reportPaid" ELSE "reportFailed",
                     ![w].fresh = outbox[Pay(w)][m].status = "NONE"]
              /\ UNCHANGED faultVars
           \/ /\ Fails(w) /\ Go(w, IF m = "COMMIT" THEN "markSent" ELSE "reportFailed")
              /\ UNCHANGED outbox
        /\ UNCHANGED <<bankVars, willing, inbox, banking>>

ReadForRollback(a) ==
    /\ At(a, "rollback")
    /\ \/ /\ Record(a) \in {"NONE", "ROLLED_BACK"}
          /\ IF a \in Handlers THEN Keep(a, "DONE")
             ELSE Go(a, IF actor[a].giveUp THEN "enqueue" ELSE "reportFailed") /\ UNCHANGED inbox
          /\ UNCHANGED faultVars
       \/ /\ Record(a) = "COMMITTED"
          /\ Go(a, IF a \in Handlers THEN "answer" ELSE "reportFailed")
          /\ UNCHANGED <<inbox, faultVars>>
       \/ /\ Record(a) \in {"PREPARING", "PREPARED"} /\ Go(a, "bankRollback")
          /\ UNCHANGED <<inbox, faultVars>>
       \/ /\ Fails(a) /\ Go(a, IF a \in Handlers THEN "answer" ELSE "reportFailed")
          /\ UNCHANGED inbox
    /\ UNCHANGED <<bankVars, willing, outbox, banking>>

\* InterbankCashService.Rollback releases a prepared posting and refuses all
\* others; nobody asks which.
BankRollback(a) ==
    /\ At(a, "bankRollback")
    /\ \/ Posting(a) = "PREPARED" /\ SavePosting(a, "ROLLED_BACK") /\ UNCHANGED faultVars
       \/ Posting(a) # "PREPARED" /\ UNCHANGED <<posting, faultVars>>
       \/ Fails(a) /\ UNCHANGED posting
    /\ Go(a, "saveRollback")
    /\ UNCHANGED <<record, willing, outbox, inbox, banking>>

\* A worker that gives up enqueues the ROLLBACK_TX in the same transaction, and
\* reports the payment failed whether the transaction succeeds or not.
SaveRollback(a) ==
    /\ At(a, "saveRollback")
    /\ \/ /\ SaveRecord(a, "ROLLED_BACK")
          /\ IF actor[a].giveUp THEN Enqueue(Pay(a), "ROLLBACK") ELSE UNCHANGED outbox
          /\ IF a \in Handlers THEN Keep(a, "DONE") ELSE Go(a, "reportFailed") /\ UNCHANGED inbox
          /\ UNCHANGED faultVars
       \/ /\ Fails(a) /\ Go(a, IF a \in Handlers THEN "answer" ELSE "reportFailed")
          /\ UNCHANGED <<record, outbox, inbox>>
    /\ UNCHANGED <<posting, willing, banking>>

-----------------------------------------------------------------------------
(* OutboxWorker *)

\* NextBatch leases what is due; a retry is due some time after it is put off.
Claim(w, p, m) ==
    /\ At(w, "idle")
    /\ outbox[p][m].status = "PENDING" /\ ~outbox[p][m].leased
    /\ outbox' = [outbox EXCEPT ![p][m].leased = TRUE]
    /\ actor' = [actor EXCEPT ![w] =
           [Job("send", p) EXCEPT !.msg = m, !.attempts = outbox[p][m].attempts]]
    /\ UNCHANGED <<bankVars, willing, inbox, banking, faultVars>>

LeaseLapses(p, m) ==
    /\ outbox[p][m].status = "PENDING" /\ outbox[p][m].leased
    /\ IF \E w \in Workers : ~At(w, "idle") /\ Pay(w) = p /\ actor[w].msg = m
       THEN Fault("slow") /\ UNCHANGED disturbed
       ELSE UNCHANGED faultVars
    /\ outbox' = [outbox EXCEPT ![p][m].leased = FALSE]
    /\ UNCHANGED <<bankVars, willing, inbox, banking, actor>>

\* A request that arrives, and the look of processInbound and ProcessNewTx
\* into the inbox: an answer that is kept there is repeated, 202 is not.
Accepted(w, m) ==
    LET p    == Pay(w)
        kept == inbox[p][m]
        place == CASE kept \notin {"ERROR", "LATER"} -> "answer"
                   [] m = "NEW" -> "prepare"
                   [] m = "COMMIT" -> "commit"
                   [] m = "ROLLBACK" -> "rollback"
    IN  [Job(place, p) EXCEPT !.msg = m, !.caller = w,
             !.reply = IF place = "answer" THEN kept ELSE "ERROR"]

Send(w, h) ==
    /\ At(w, "send") /\ At(h, "idle")
    /\ actor' = [actor EXCEPT ![w].at = "wait", ![h] = Accepted(w, actor[w].msg)]
    /\ UNCHANGED <<bankVars, willing, outbox, inbox, banking, faultVars>>

\* SendCommitTx, without waiting for the worker that will find the row.
SendCommit(w, h) ==
    /\ At(w, "sync") /\ At(h, "idle")
    /\ actor' = [actor EXCEPT ![w].at = "syncWait", ![h] = Accepted(w, "COMMIT")]
    /\ UNCHANGED <<bankVars, willing, outbox, inbox, banking, faultVars>>


\* Mutant of Heard: whatever a COMMIT_TX or ROLLBACK_TX is answered is enough.
HeardTrustsAnyAnswer(w, reply) ==
    CASE At(w, "syncWait")                           -> "markSent"
      [] At(w, "wait") /\ reply = "YES"              -> "commit"
      [] At(w, "wait") /\ reply = "NO"               -> "rollback"
      [] At(w, "wait") /\ actor[w].msg # "NEW"       -> "markSent"
      [] OTHER                                       -> "retry"

\* Where an answer, or its absence, sends the worker that waits for it.  Of a
\* SendCommitTx every answer below 400 is a success, 202 too.
Heard(w, reply) ==
    CASE At(w, "syncWait")                    -> "markSent"
      [] At(w, "wait") /\ reply = "YES"       -> "commit"
      [] At(w, "wait") /\ reply = "NO"        -> "rollback"
      [] At(w, "wait") /\ reply = "DONE"      -> "markSent"
      [] OTHER                                -> "retry"

\* The row a SendCommitTx has delivered is marked, if this worker has made it:
\* the id of another's row is not known.
MarksCommit(w, reply) ==
    w # NoActor /\ At(w, "syncWait") /\ reply \in {"DONE", "LATER"} /\ actor[w].fresh

MarkCommitSent(w, reply) ==
    IF MarksCommit(w, reply)
    THEN outbox' = [outbox EXCEPT ![Pay(w)]["COMMIT"].status = "SENT"]
    ELSE UNCHANGED outbox

\* A handler answers.  ProcessNewTx keeps a vote just before it is sent, if it
\* can; nobody may be waiting for it any more.
Answer(h) ==
    LET w     == actor[h].caller
        reply == actor[h].reply
    IN  /\ \/ /\ At(h, "vote")
              /\ inbox' = [inbox EXCEPT ![Pay(h)]["NEW"] = reply]
              /\ UNCHANGED <<outbox, faultVars>>
           \/ /\ At(h, "answer")
              /\ MarkCommitSent(w, reply)
              /\ UNCHANGED <<inbox, faultVars>>
           \/ /\ At(h, "vote") \/ (At(h, "answer") /\ MarksCommit(w, reply))
              /\ Fails(h) /\ UNCHANGED <<inbox, outbox>>
        /\ actor' = IF w = NoActor THEN [actor EXCEPT ![h] = Idle]
                    ELSE [actor EXCEPT ![h] = Idle, ![w].at = Heard(w, reply)]
        /\ UNCHANGED <<bankVars, willing, banking>>

\* An actor goes on without the answer it may be waiting for.
Leave(w, job) ==
    actor' = [a \in Actors |->
        CASE a = w -> job
          [] a # w /\ actor[a].caller = w -> [actor[a] EXCEPT !.caller = NoActor]
          [] OTHER -> actor[a]]

\* A worker hears nothing: the request is lost, its handler has died, or the
\* answer does not come in time.
NoAnswer(w) ==
    /\ actor[w].at \in {"send", "sync", "wait", "syncWait"}
    /\ IF actor[w].at \in {"wait", "syncWait"} /\ \A h \in Handlers : actor[h].caller # w
       THEN UNCHANGED faultVars
       ELSE Fault("lost") /\ UNCHANGED disturbed
    /\ Leave(w, [actor[w] EXCEPT !.at = IF @ \in {"send", "wait"} THEN "retry" ELSE "markSent"])
    /\ UNCHANGED <<bankVars, willing, outbox, inbox, banking>>

\* Mutant of Retry: a NEW_TX is given up like any other message.
RetryForgetsReservation(w) ==
    LET attempts == actor[w].attempts + 1
    IN  /\ At(w, "retry")
        /\ \/ attempts >= MaxAttempts /\ Go(w, "markFailed") /\ UNCHANGED outbox
           \/ /\ attempts < MaxAttempts
              /\ outbox' = [outbox EXCEPT ![Pay(w)][actor[w].msg].attempts = attempts,
                                          ![Pay(w)][actor[w].msg].leased = FALSE]
              /\ actor' = [actor EXCEPT ![w] = Idle]
        /\ UNCHANGED <<bankVars, willing, inbox, banking, faultVars>>

\* rescheduleOrFail
Retry(w) ==
    LET p == Pay(w)
        m == actor[w].msg
        attempts == actor[w].attempts + 1
    IN  /\ At(w, "retry")
        /\ \/ /\ attempts >= MaxAttempts /\ m = "NEW" /\ GiveUp(w)
              /\ UNCHANGED outbox
           \/ /\ attempts >= MaxAttempts /\ m # "NEW" /\ Go(w, "markFailed")
              /\ UNCHANGED outbox
           \/ /\ attempts < MaxAttempts
              /\ outbox' = [outbox EXCEPT ![p][m].attempts = attempts, ![p][m].leased = FALSE]
              /\ actor' = [actor EXCEPT ![w] = Idle]
        /\ UNCHANGED <<bankVars, willing, inbox, banking, faultVars>>

\* finalizePayment: banking takes the first outcome it is told of.
Report(w, place, status, next) ==
    /\ At(w, place)
    /\ \/ banking' = [banking EXCEPT ![Pay(w)] = IF @ = "PROCESSING" THEN status ELSE @]
          /\ UNCHANGED faultVars
       \/ Fails(w) /\ UNCHANGED banking
    /\ Go(w, next)
    /\ UNCHANGED <<bankVars, willing, outbox, inbox>>

ReportPaid(w) == Report(w, "reportPaid", "COMPLETED", "sync")

ReportFailed(w) ==
    Report(w, "reportFailed", "REJECTED", IF actor[w].giveUp THEN "markFailed" ELSE "markSent")

\* MarkSent and MarkFailed overwrite whatever status the row has.
Mark(w, place, status) ==
    /\ At(w, place)
    /\ \/ /\ outbox' = [outbox EXCEPT ![Pay(w)][actor[w].msg].status = status,
                                      ![Pay(w)][actor[w].msg].leased = FALSE]
          /\ UNCHANGED faultVars
       \/ Fails(w) /\ UNCHANGED outbox
    /\ actor' = [actor EXCEPT ![w] = Idle]
    /\ UNCHANGED <<bankVars, willing, inbox, banking>>

\* Mutant of MarkFailed: a status that rows do not have.
MarkGivenUp(w) == Mark(w, "markFailed", "GIVEN_UP")

MarkSent(w)   == Mark(w, "markSent", "SENT")
MarkFailed(w) == Mark(w, "markFailed", "FAILED")

-----------------------------------------------------------------------------
(* Failures *)

\* The row a worker was at stays leased until the lease lapses.
Crash(a) ==
    /\ Fault("crash")
    /\ actor[a].at \notin {"idle", "new", "end"}
    /\ Leave(a, IF a \in Payments THEN Job("end", a) ELSE Idle)
    /\ UNCHANGED <<bankVars, willing, outbox, inbox, banking, disturbed>>

-----------------------------------------------------------------------------
InitiatePayment(p) ==
    Initiate(p) \/ Reserve(p) \/ Confirm(p) \/ Refuse(p) \/ EnqueueNewTx(p) \/ Reject(p)

LocalTransaction(a) ==
    \/ ReadForCommit(a) \/ BankCommit(a) \/ SaveCommit(a)
    \/ ReadForRollback(a) \/ BankRollback(a) \/ SaveRollback(a)

Work(w) ==
    \/ \E p \in Payments, m \in Messages : Claim(w, p, m)
    \/ \E h \in Handlers : Send(w, h) \/ SendCommit(w, h)
    \/ NoAnswer(w) \/ Retry(w)
    \/ LocalTransaction(w) \/ EnqueueFollowUp(w)
    \/ ReportPaid(w) \/ ReportFailed(w) \/ MarkSent(w) \/ MarkFailed(w)

Handle(h) ==
    \/ Prepare(h) \/ Create(h) \/ Reserve(h) \/ Confirm(h) \/ Refuse(h)
    \/ LocalTransaction(h) \/ Answer(h)

Next ==
    \/ \E p \in Payments : InitiatePayment(p)
    \/ \E w \in Workers : Work(w)
    \/ \E h \in Handlers : Handle(h)
    \/ \E p \in Payments, m \in Messages : LeaseLapses(p, m)
    \/ \E a \in Actors : Crash(a)

Spec == Init /\ [][Next]_vars

-----------------------------------------------------------------------------
(* Properties *)

Committed(b, p) == posting[b][p] = "COMMITTED"

\* The payee's bank credits nothing that the payer's bank has not debited,
\* whatever is lost, repeated, reordered, overtaken or given up.
CreditIsBacked == \A p \in Payments : Committed("payee", p) => Committed("payer", p)

\* A payment that banking shows as completed is debited, and a COMMIT_TX for
\* the payee's bank has been written down.
CompletedIsPaid == \A p \in Payments : banking[p] = "COMPLETED" =>
    Committed("payer", p) /\ outbox[p]["COMMIT"].status # "NONE"

\* A COMMIT_TX is marked as sent only if the payee has been credited, although
\* an answer that asks for a retransmission counts as a success on one path.
SentCommitIsCredited == \A p \in Payments :
    outbox[p]["COMMIT"].status = "SENT" => Committed("payee", p)

\* A payer who is debited can still have his payee credited, unless a ROLLBACK_TX
\* is on its way or a call has failed: the payee's bank holds what it has voted
\* for through repeated and overlapping deliveries.
PaidCanBeCredited == \A p \in Payments :
    Committed("payer", p) /\ outbox[p]["ROLLBACK"].status = "NONE" /\ p \notin disturbed =>
        /\ record["payee"][p] \in {"PREPARED", "COMMITTED"}
        /\ posting["payee"][p] \in {"PREPARED", "COMMITTED"}

Dealt(p) == outbox[p]["NEW"].status \in {"SENT", "FAILED"}
Held(p)  == posting["payer"][p] = "PREPARED"

\* Crashes, delays and losses between the banks leave none of the payer's money
\* reserved behind a NEW_TX that is dealt with.
UndisturbedIsFreed == \A p \in Payments : Dealt(p) /\ p \notin disturbed => ~Held(p)

\* Nor do calls that fail: a NEW_TX is only marked when its vote has taken effect.
DealtIsFreed == \A p \in Payments : Dealt(p) => ~Held(p)

\* A payment that banking shows as rejected is not debited.
RejectedIsUnpaid == \A p \in Payments : banking[p] = "REJECTED" => ~Committed("payer", p)

-----------------------------------------------------------------------------
(* The invariant behind CreditIsBacked, CompletedIsPaid, SentCommitIsCredited *)

Settled(b, p) == record[b][p] \in {"PREPARED", "COMMITTED", "ROLLED_BACK"}
HasRow(p, m)  == outbox[p][m].status # "NONE"

\* What a COMMIT_TX stands for: the payer is debited, the payee's bank has voted.
Backed(p) == Committed("payer", p) /\ Settled("payee", p)

RecordsMatch == \A b \in Banks, p \in Payments :
    record[b][p] = "COMMITTED" => Committed(b, p)

RowsMatch == \A p \in Payments :
    /\ \A m \in Messages : HasRow(p, m) => Settled("payer", p)
    /\ HasRow(p, "COMMIT") => Backed(p)
    /\ banking[p] = "COMPLETED" => HasRow(p, "COMMIT")

\* What an answer to a message says of the payee's bank.
AnswerMatches(p, m, reply) ==
    /\ reply \in {"YES", "NO"} => m = "NEW"
    /\ reply = "YES" => Settled("payee", p)
    /\ m = "COMMIT" => reply \in {"DONE", "ERROR"}
    /\ m = "COMMIT" /\ reply = "DONE" => Committed("payee", p)

InboxMatches == \A p \in Payments, m \in Messages : AnswerMatches(p, m, inbox[p][m])

InitiatorsMatch == \A p \in Payments :
    /\ Pay(p) = p
    /\ At(p, "new") => \A m \in Messages : ~HasRow(p, m)
    /\ At(p, "enqueue") => Settled("payer", p)

Deciding == WorkerPlaces \ {"idle", "send", "wait", "retry", "markSent", "markFailed"}

WorkerMatches(w) ==
    /\ ~At(w, "idle") => HasRow(Pay(w), actor[w].msg)
    /\ actor[w].at \in Deciding => actor[w].msg = "NEW"
    /\ At(w, "markSent") /\ actor[w].msg = "COMMIT" => Committed("payee", Pay(w))
    /\ actor[w].at \in {"commit", "bankCommit"} => Settled("payee", Pay(w))
    /\ At(w, "saveCommit") \/ (At(w, "enqueue") /\ ~actor[w].giveUp) => Backed(Pay(w))
    /\ actor[w].at \in {"reportPaid", "sync", "syncWait"} => HasRow(Pay(w), "COMMIT")

HandlerMatches(h) ==
    /\ AnswerMatches(Pay(h), actor[h].msg, actor[h].reply)
    /\ actor[h].msg = "COMMIT" => Backed(Pay(h))
    /\ actor[h].at \in {"prepare", "create", "reserve", "confirm", "refuse", "vote"} => actor[h].msg = "NEW"
    /\ actor[h].at \in {"commit", "bankCommit", "saveCommit"} => actor[h].msg = "COMMIT"
    /\ actor[h].at \in {"rollback", "bankRollback", "saveRollback"} => actor[h].msg = "ROLLBACK"
    /\ At(h, "saveCommit") => Committed("payee", Pay(h))
    /\ ~actor[h].giveUp

\* A handler's caller waits for it, and for no other.
CallerMatches(h) ==
    LET w == actor[h].caller
    IN  w # NoActor =>
            /\ Pay(w) = Pay(h)
            /\ \/ At(w, "wait") /\ actor[w].msg = actor[h].msg
               \/ At(w, "syncWait") /\ actor[h].msg = "COMMIT"
            /\ \A k \in Handlers \ {h} : actor[k].caller # w

\* Behind every message, answer and place there is what it claims: the
\* strengthening of the three properties that is kept by every step.
PaymentInv ==
    /\ RecordsMatch /\ RowsMatch /\ InboxMatches /\ InitiatorsMatch
    /\ \A w \in Workers : WorkerMatches(w)
    /\ \A h \in Handlers : HandlerMatches(h) /\ CallerMatches(h)
    /\ CreditIsBacked /\ SentCommitIsCredited
=============================================================================
