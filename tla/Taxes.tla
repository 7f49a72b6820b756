------------------------------- MODULE Taxes -------------------------------
(***************************************************************************)
(* The tax on capital gains of trading-service: what is owed accumulates in *)
(* a row per account and employee, and is collected by the monthly job or   *)
(* by a supervisor who triggers the collection.                             *)
(*                                                                          *)
(* A collection reads all rows that owe something, and then pays them one   *)
(* by one at banking-service and subtracts what was paid.  Amounts are in   *)
(* the currency of the account, into which RecordTax and ReduceTax convert  *)
(* theirs.                                                                  *)
(***************************************************************************)
EXTENDS Naturals, Sequences, FiniteSets, Functions

CONSTANTS
    Taxpayers,  \* an account, for a client or for one employee
    Actuaries,  \* those for an employee: the index on the rows is unique for them
    Amounts,    \* what one event adds or takes off
    Recorders,  \* events recorded at a time
    Collectors, \* collections at a time
    MaxTax      \* bound on the tax recorded for a taxpayer

TaxesAssumption ==
    /\ Actuaries \subseteq Taxpayers /\ Amounts \subseteq Nat \ {0} /\ MaxTax \in Nat
    /\ IsFiniteSet(Collectors) /\ "no taxpayer" \notin Taxpayers

VARIABLES
    owed,       \* TaxOwed of each AccumulatedTax row of a taxpayer
    recorder,   \* a RecordTax that has found no row to update
    collector,  \* the rows a collection has read, and the one it works on
    added,      \* history: tax recorded
    relieved,   \* history: tax taken off for losses
    collected,  \* history: tax paid at the bank
    disturbed,  \* history: taxpayers whose payment was not answered or not recorded
    overlapped, \* history: taxpayers two collections worked on at a time
    doubled,    \* history: taxpayers with two rows
    eroded      \* history: taxpayers relieved while a collection was under way

history == <<added, relieved, collected, disturbed, overlapped, doubled, eroded>>
taxVars == <<owed, recorder, collector, history>>

NoTax == [payer |-> "no taxpayer", row |-> 0, amount |-> 0]
Idle  == [at |-> "idle", todo |-> {}, item |-> NoTax]

TaxTypeOK ==
    /\ \A p \in Taxpayers : owed[p] \in Seq(Nat)
    /\ \A c \in Recorders : recorder[c] = NoTax \/ recorder[c].payer \in Taxpayers
    /\ \A k \in Collectors :
         /\ collector[k].at \in {"idle", "next", "paid", "unpaid"}
         /\ \A t \in collector[k].todo : t.payer \in Taxpayers /\ t.amount \in Nat \ {0}
    /\ {added, relieved, collected} \subseteq [Taxpayers -> Nat]
    /\ disturbed \cup overlapped \cup doubled \cup eroded \subseteq Taxpayers

Init ==
    /\ owed = [p \in Taxpayers |-> <<>>]
    /\ recorder = [c \in Recorders |-> NoTax] /\ collector = [k \in Collectors |-> Idle]
    /\ added = [p \in Taxpayers |-> 0] /\ relieved = added /\ collected = added
    /\ disturbed = {} /\ overlapped = {} /\ doubled = {} /\ eroded = {}

-----------------------------------------------------------------------------
Minus(n, m)  == IF n > m THEN n - m ELSE 0
Each(s, Op(_)) == [i \in DOMAIN s |-> Op(s[i])]
Total(s)     == SumFunctionOnSet(s, DOMAIN s)
Owed(p)      == Total(owed[p])

\* A collection has read a row of p, and not subtracted it yet.
Collecting(k, p) == \E t \in collector[k].todo \cup {collector[k].item} : t.payer = p

-----------------------------------------------------------------------------
(* RecordTax: an UPDATE, and an INSERT if it found nothing.  The NULL of a    *)
(* client's EmployeeID keeps no second row out.                              *)

AddTaxOwed(c, p, n) ==
    /\ recorder[c] = NoTax /\ added[p] + n <= MaxTax
    /\ \/ /\ owed[p] # <<>>
          /\ owed' = [owed EXCEPT ![p] = Each(@, LAMBDA m : m + n)]
          /\ added' = [added EXCEPT ![p] = @ + n]
          /\ UNCHANGED recorder
       \/ /\ owed[p] = <<>>
          /\ recorder' = [recorder EXCEPT ![c] = [payer |-> p, row |-> 0, amount |-> n]]
          /\ UNCHANGED <<owed, added>>
    /\ UNCHANGED <<collector, relieved, collected, disturbed, overlapped, doubled, eroded>>

CreateTaxRow(c) ==
    LET p == recorder[c].payer  n == recorder[c].amount IN
    /\ recorder[c] # NoTax
    /\ recorder' = [recorder EXCEPT ![c] = NoTax]
    /\ IF p \in Actuaries /\ owed[p] # <<>> THEN UNCHANGED <<owed, added, doubled>>
       ELSE /\ owed' = [owed EXCEPT ![p] = Append(@, n)]
            /\ added' = [added EXCEPT ![p] = @ + n]
            /\ doubled' = IF owed[p] = <<>> THEN doubled ELSE doubled \cup {p}
    /\ UNCHANGED <<collector, relieved, collected, disturbed, overlapped, eroded>>

\* ReduceTax, for the premium of an option that expired unused; never below zero.
ReduceTaxOwed(p, n) ==
    /\ owed[p] # <<>>
    /\ owed' = [owed EXCEPT ![p] = Each(@, LAMBDA m : Minus(m, n))]
    /\ relieved' = [relieved EXCEPT ![p] = @ + Owed(p) - Total(owed'[p])]
    /\ eroded' = IF \E k \in Collectors : Collecting(k, p) THEN eroded \cup {p} ELSE eroded
    /\ UNCHANGED <<recorder, collector, added, collected, disturbed, overlapped, doubled>>

-----------------------------------------------------------------------------
(* CollectTaxes *)

CollectTaxes(k) ==
    /\ collector[k] = Idle
    /\ LET rows == UNION {{[payer |-> p, row |-> i, amount |-> owed[p][i]] :
                              i \in {i \in DOMAIN owed[p] : owed[p][i] > 0}} : p \in Taxpayers}
       IN  /\ rows # {}
           /\ collector' = [collector EXCEPT ![k] = [at |-> "next", todo |-> rows, item |-> NoTax]]
           /\ overlapped' = overlapped \cup
                {t.payer : t \in {t \in rows : \E j \in Collectors \ {k} : Collecting(j, t.payer)}}
    /\ UNCHANGED <<owed, recorder, added, relieved, collected, disturbed, doubled, eroded>>

\* The payment is made, refused, or made without an answer.
CollectSingleTax(k, t) ==
    /\ collector[k].at = "next" /\ t \in collector[k].todo
    /\ \E s \in {"paid", "unpaid"}, made \in BOOLEAN :
         /\ s = "paid" => made
         /\ collector' = [collector EXCEPT ![k] =
                            [at |-> s, todo |-> collector[k].todo \ {t}, item |-> t]]
         /\ collected' = [collected EXCEPT ![t.payer] = IF made THEN @ + t.amount ELSE @]
         /\ disturbed' = IF made /\ s = "unpaid" THEN disturbed \cup {t.payer} ELSE disturbed
    /\ UNCHANGED <<owed, recorder, added, relieved, overlapped, doubled, eroded>>

Rest(k) ==
    IF collector[k].todo = {} THEN Idle
    ELSE [at |-> "next", todo |-> collector[k].todo, item |-> NoTax]

\* A mutated form: the row is cleared, as ClearTax would.
ClearedAll(n, amount) == 0

\* What was collected is subtracted from what is owed by now.
Cleared(n, amount) == Minus(n, amount)

RecordCollectionResult(k) ==
    LET t == collector[k].item IN
    /\ collector[k].at \in {"paid", "unpaid"}
    /\ owed' = IF collector[k].at = "unpaid" THEN owed
               ELSE [owed EXCEPT ![t.payer] = Each(@, LAMBDA m : Cleared(m, t.amount))]
    /\ collector' = [collector EXCEPT ![k] = Rest(k)]
    /\ UNCHANGED <<recorder, history>>

\* The result cannot be recorded: the collection ends here.
FailCollection(k) ==
    /\ collector[k].at \in {"paid", "unpaid"}
    /\ collector' = [collector EXCEPT ![k] = Idle]
    /\ disturbed' = IF collector[k].at = "paid" THEN disturbed \cup {collector[k].item.payer}
                    ELSE disturbed
    /\ UNCHANGED <<owed, recorder, added, relieved, collected, overlapped, doubled, eroded>>

Next ==
    \/ \E p \in Taxpayers, n \in Amounts :
         ReduceTaxOwed(p, n) \/ \E c \in Recorders : AddTaxOwed(c, p, n)
    \/ \E c \in Recorders : CreateTaxRow(c)
    \/ \E k \in Collectors :
         \/ CollectTaxes(k) \/ RecordCollectionResult(k) \/ FailCollection(k)
         \/ \E t \in collector[k].todo : CollectSingleTax(k, t)

Spec == Init /\ [][Next]_taxVars

-----------------------------------------------------------------------------
(* Properties *)

\* Tax paid and not yet subtracted.
Unrecorded(p) ==
    SumFunctionOnSet([k \in Collectors |->
        IF collector[k].at = "paid" /\ collector[k].item.payer = p
        THEN collector[k].item.amount ELSE 0], Collectors)

\* Every tax recorded is owed, collected or relieved, once: events that are recorded
\* during a collection are neither forgotten nor collected with it.  Taxpayers whose
\* payment or its record was lost, that two collections worked on, that have two rows
\* or were relieved during a collection are exempt.
TaxAccounted ==
    \A p \in Taxpayers \ (disturbed \cup overlapped \cup doubled \cup eroded) :
        added[p] + Unrecorded(p) = Owed(p) + collected[p] + relieved[p]
=============================================================================
