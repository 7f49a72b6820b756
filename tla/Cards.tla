-------------------------------- MODULE Cards --------------------------------
(***************************************************************************)
(* Cards of banking-service: a client requests a card and confirms the      *)
(* request with a code; cards are blocked, unblocked and deactivated.       *)
(*                                                                          *)
(* Each call reads first and writes afterwards, with nothing locked: what   *)
(* the counts and the rows said may have changed when it writes.            *)
(***************************************************************************)
EXTENDS Naturals, FiniteSets

CONSTANTS
    Personal,    \* personal accounts
    Business,    \* business accounts
    CardIds,     \* cards that may be created
    RequestIds,  \* card requests that may be made
    CardCalls,   \* calls served at a time
    MaxPersonal, \* MaxPersonalCardsPerAccount
    MaxBusiness  \* MaxBusinessCardsPerPerson

CardAccounts == Personal \cup Business
Nothing  == "nothing"

CardsAssumption ==
    /\ MaxPersonal \in Nat \ {0} /\ MaxBusiness \in Nat \ {0}
    /\ Personal \cap Business = {}
    /\ Nothing \notin CardAccounts \cup CardIds \cup RequestIds

VARIABLES
    card,        \* rows of cards, NoCard for one that does not exist
    cardRequest, \* rows of card_requests
    cardCall,    \* where each call is, and the row it has read
    crowded      \* history: accounts whose cards two calls have worked at together

cardVars == <<card, cardRequest, cardCall, crowded>>

CardStatuses == {"Active", "Blocked", "Deactivated"}
\* owner: the card is the account owner's, not an authorized person's.
CardRows    == [account : CardAccounts, status : CardStatuses, owner : BOOLEAN]
RequestRows == [account : CardAccounts, used : BOOLEAN, expired : BOOLEAN, owner : BOOLEAN]
NoCard    == [account |-> Nothing, status |-> "Active", owner |-> TRUE]
NoRequest == [account |-> Nothing, used |-> FALSE, expired |-> FALSE, owner |-> TRUE]
IdleCardCall == [at |-> "idle", id |-> Nothing, account |-> Nothing, owner |-> TRUE]

CardTypeOK ==
    /\ card \in [CardIds -> CardRows \cup {NoCard}]
    /\ cardRequest \in [RequestIds -> RequestRows \cup {NoRequest}]
    /\ \A c \in CardCalls :
         /\ cardCall[c].at \in {"idle", "request", "confirm", "Blocked", "Active", "Deactivated"}
         /\ cardCall[c].id \in CardIds \cup RequestIds \cup {Nothing}
    /\ crowded \subseteq CardAccounts

CardsInit ==
    /\ card = [c \in CardIds |-> NoCard]
    /\ cardRequest = [r \in RequestIds |-> NoRequest]
    /\ cardCall = [c \in CardCalls |-> IdleCardCall]
    /\ crowded = {}

-----------------------------------------------------------------------------
(* Helpers *)

Exists(row) == row.account # Nothing
\* CountNonDeactivatedByAccountNumber, and the owner's cards of a business account.
Valid(a) == {c \in CardIds : Exists(card[c]) /\ card[c].account = a
                               /\ card[c].status # "Deactivated"}
Owners(a) == {c \in Valid(a) : card[c].owner}

\* Mutant: one card more than the limit.
RoomForOneMore(a, owner) ==
    /\ a \in Personal => Cardinality(Valid(a)) <= MaxPersonal
    /\ a \in Business /\ owner => Cardinality(Owners(a)) <= MaxBusiness

Room(a, owner) ==
    /\ a \in Personal => Cardinality(Valid(a)) < MaxPersonal
    /\ a \in Business /\ owner => Cardinality(Owners(a)) < MaxBusiness

Pending(a) == {r \in RequestIds : Exists(cardRequest[r]) /\ cardRequest[r].account = a
                                    /\ ~cardRequest[r].used /\ ~cardRequest[r].expired}

Begin(c, place, id, a, owner) ==
    /\ cardCall[c] = IdleCardCall
    /\ cardCall' = [cardCall EXCEPT ![c] =
         [at |-> place, id |-> id, account |-> a, owner |-> owner]]
    /\ crowded' = IF \E d \in CardCalls : cardCall[d].account = a
                     THEN crowded \cup {a} ELSE crowded

EndCall(c) == cardCall' = [cardCall EXCEPT ![c] = IdleCardCall]

-----------------------------------------------------------------------------
(* Requests *)

\* Personal accounts have no authorized persons.
RequestCard(c, a, owner) ==
    /\ a \in Personal => owner
    /\ Pending(a) = {} /\ Room(a, owner)
    /\ Begin(c, "request", Nothing, a, owner)
    /\ UNCHANGED <<card, cardRequest>>

InsertRequest(c, r) ==
    /\ cardCall[c].at = "request" /\ ~Exists(cardRequest[r])
    /\ cardRequest' = [cardRequest EXCEPT ![r] =
         [account |-> cardCall[c].account, used |-> FALSE, expired |-> FALSE,
          owner |-> cardCall[c].owner]]
    /\ EndCall(c) /\ UNCHANGED <<card, crowded>>

\* confirmationCodeTTL after it was made.
Expire(r) ==
    /\ Exists(cardRequest[r]) /\ ~cardRequest[r].expired
    /\ cardRequest' = [cardRequest EXCEPT ![r].expired = TRUE]
    /\ UNCHANGED <<card, cardCall, crowded>>

ConfirmCardRequest(c, r) ==
    /\ Exists(cardRequest[r]) /\ ~cardRequest[r].used /\ ~cardRequest[r].expired
    /\ Room(cardRequest[r].account, cardRequest[r].owner)
    /\ Begin(c, "confirm", r, cardRequest[r].account, cardRequest[r].owner)
    /\ UNCHANGED <<card, cardRequest>>

NewCard(a, owner) == [account |-> a, status |-> "Active", owner |-> owner]

\* One transaction creates the card and marks the request used.
CreateCard(c, id) ==
    /\ cardCall[c].at = "confirm" /\ ~Exists(card[id])
    /\ card' = [card EXCEPT ![id] = NewCard(cardCall[c].account, cardCall[c].owner)]
    /\ cardRequest' = [cardRequest EXCEPT ![cardCall[c].id].used = TRUE]
    /\ EndCall(c) /\ UNCHANGED crowded

\* An account may be opened with a card (GenerateCard).
CreateAccountWithCard(a, id) ==
    /\ ~Exists(card[id])
    /\ \A k \in CardIds : Exists(card[k]) => card[k].account # a
    /\ \A r \in RequestIds : Exists(cardRequest[r]) => cardRequest[r].account # a
    /\ \A c \in CardCalls : cardCall[c].account # a
    /\ card' = [card EXCEPT ![id] = NewCard(a, TRUE)]
    /\ UNCHANGED <<cardRequest, cardCall, crowded>>

-----------------------------------------------------------------------------
(* Status *)

\* BlockCard, UnblockCard and DeactivateCard, by the status they set.
MayBecome(status) ==
    CASE status = "Blocked"     -> {"Active"}
      [] status = "Active"      -> {"Blocked"}
      [] status = "Deactivated" -> {"Active", "Blocked"}

ReadCard(c, id, status) ==
    /\ Exists(card[id]) /\ card[id].status \in MayBecome(status)
    /\ Begin(c, status, id, card[id].account, card[id].owner)
    /\ UNCHANGED <<card, cardRequest>>

\* The whole row is saved with the new status.
SaveCard(c) ==
    /\ cardCall[c].at \in CardStatuses
    /\ card' = [card EXCEPT ![cardCall[c].id].status = cardCall[c].at]
    /\ EndCall(c) /\ UNCHANGED <<cardRequest, crowded>>

Fail(c) ==
    /\ cardCall[c] # IdleCardCall
    /\ EndCall(c) /\ UNCHANGED <<card, cardRequest, crowded>>

CardsNext ==
    \/ \E c \in CardCalls, a \in CardAccounts, owner \in BOOLEAN : RequestCard(c, a, owner)
    \/ \E c \in CardCalls, r \in RequestIds : InsertRequest(c, r) \/ ConfirmCardRequest(c, r)
    \/ \E r \in RequestIds : Expire(r)
    \/ \E c \in CardCalls, id \in CardIds : CreateCard(c, id)
    \/ \E a \in CardAccounts, id \in CardIds : CreateAccountWithCard(a, id)
    \/ \E c \in CardCalls, id \in CardIds, status \in CardStatuses : ReadCard(c, id, status)
    \/ \E c \in CardCalls : SaveCard(c) \/ Fail(c)

CardsSpec == CardsInit /\ [][CardsNext]_cardVars

-----------------------------------------------------------------------------
(* Properties *)

\* Unless two calls worked at the cards of an account together, a personal
\* account has at most MaxPersonal cards that are not deactivated, the owner of
\* a business account at most MaxBusiness, and no account has more than one
\* request that can still be confirmed: also when requests expire, cards are
\* deactivated and requested anew.
CardsAreLimited ==
    \A a \in CardAccounts \ crowded :
      /\ a \in Personal => Cardinality(Valid(a)) <= MaxPersonal
      /\ a \in Business => Cardinality(Owners(a)) <= MaxBusiness
      /\ Cardinality(Pending(a)) <= 1
==============================================================================
