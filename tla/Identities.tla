------------------------------ MODULE Identities ------------------------------
(***************************************************************************)
(* An identity of user-service: its row (password, whether it is active,    *)
(* failed logins), the tokens that were sent for it and its session.        *)
(*                                                                          *)
(* Every request reads the row without a lock and writes back all of its    *)
(* columns.  Tokens are replaced in a transaction that deletes those it     *)
(* sees and inserts its own.  An activation token is sent, or it is made for *)
(* a caller who presents the test token of the identity.  Identities do not *)
(* depend on each other, so that the module follows one.                    *)
(***************************************************************************)
EXTENDS Naturals

CONSTANTS
    Calls,           \* requests served at a time
    Passwords,
    MaxFailedLogins, \* failed logins after which the identity is blocked for a while
    MaxTokens        \* bound on the tokens issued

IdentitiesAssumption ==
    Passwords # {} /\ MaxFailedLogins \in Nat \ {0} /\ MaxTokens \in Nat

VARIABLES
    identity,  \* the row
    live,      \* the stored tokens of each kind
    issued,    \* tokens issued so far
    request,   \* what each request has read
    made,      \* history: tokens made on the spot, which were sent to nobody
    spent,     \* history: tokens that changed the identity or its session
    stale,     \* history: a write rests on a row or a token that was gone by then
    twofold    \* history: a token was sent while another of its kind was stored

identityVars == <<identity, live, issued, request, made, spent, stale, twofold>>

Kinds  == {"activation", "reset", "refresh"}
Tokens == 1 .. MaxTokens

NoPassword == "no password"
Identity   == [password : Passwords \cup {NoPassword}, active : BOOLEAN, failed : 0 .. MaxFailedLogins]
NoIdentity == [password |-> NoPassword, active |-> FALSE, failed |-> MaxFailedLogins + 1]
IdentityRows       == Identity \cup {NoIdentity}
Idle == [op |-> "idle", row |-> NoIdentity, save |-> NoIdentity, token |-> 0,
         kind |-> "refresh", seen |-> {}]

IdentityTypeOK ==
    /\ identity \in IdentityRows /\ live \in [Kinds -> SUBSET Tokens] /\ issued \in 0 .. MaxTokens
    /\ \A c \in Calls :
         /\ request[c].op \in {"idle", "fail", "login", "change", "update", "activate",
                               "confirm", "replace", "insert"}
         /\ {request[c].row, request[c].save} \subseteq IdentityRows
         /\ request[c].token \in 0 .. issued /\ request[c].kind \in Kinds
         /\ request[c].seen \subseteq Tokens
    /\ {made, spent} \subseteq SUBSET Tokens /\ {stale, twofold} \subseteq BOOLEAN

IdentitiesInit ==
    /\ identity = NoIdentity /\ live = [k \in Kinds |-> {}] /\ issued = 0
    /\ request = [c \in Calls |-> Idle]
    /\ made = {} /\ spent = {} /\ stale = FALSE /\ twofold = FALSE

-----------------------------------------------------------------------------
\* A request has read the row, and will store the row save.
Begin(c, op, save, token) ==
    /\ request[c] = Idle /\ identity # NoIdentity
    /\ request' = [request EXCEPT ![c] =
         [Idle EXCEPT !.op = op, !.row = identity, !.save = save, !.token = token]]
    /\ UNCHANGED <<identity, live, issued, made, spent, stale, twofold>>

\* A request is about to replace the tokens of a kind.
Replacing(kind, token) == [Idle EXCEPT !.op = "replace", !.kind = kind, !.token = token]

BeginReplace(c, kind, token) ==
    /\ request[c] = Idle /\ identity # NoIdentity
    /\ request' = [request EXCEPT ![c] = Replacing(kind, token)]
    /\ UNCHANGED <<identity, live, issued, made, spent, stale, twofold>>

\* Save writes all columns.
WriteRow(c) ==
    /\ identity' = request[c].save
    /\ stale' = (stale \/ identity # request[c].row)

-----------------------------------------------------------------------------
(* Employees and clients *)

\* The e-mail address and the user name are unique: there is one row.
Register(active) ==
    /\ identity = NoIdentity /\ issued < MaxTokens
    /\ identity' = [password |-> NoPassword, active |-> active, failed |-> 0]
    /\ issued' = issued + 1
    /\ live' = [live EXCEPT !["activation"] = @ \cup {issued'}]
    /\ UNCHANGED <<request, made, spent, stale, twofold>>

\* UpdateEmployee stores the row when the address, the name or the activity changes.
UpdateEmployee(c, active) == Begin(c, "update", [identity EXCEPT !.active = active], 0)

DeactivateEmployee(c) == UpdateEmployee(c, FALSE)

-----------------------------------------------------------------------------
(* Login and sessions *)

\* Failed logins count within a window of time, which may have passed.
Failures(lapsed) == IF lapsed THEN 0 ELSE identity.failed

Login(c, right, lapsed) ==
    /\ identity # NoIdentity /\ identity.active
    /\ Failures(lapsed) < MaxFailedLogins
    /\ \/ /\ right /\ identity.password # NoPassword
          /\ Begin(c, "login", [identity EXCEPT !.failed = 0], 0)
       \/ /\ ~ right
          /\ Begin(c, "fail", [identity EXCEPT !.failed = Failures(lapsed) + 1], 0)

\* The token is found and has not expired, and the identity is active.
RefreshToken(c, t) ==
    /\ t \in live["refresh"] /\ identity # NoIdentity /\ identity.active
    /\ BeginReplace(c, "refresh", t)

-----------------------------------------------------------------------------
(* Activation and passwords *)

\* ActivateAccount begins so for the token "test-token-" with the number of an identity,
\* whoever presents it: unless one is stored, a token of that text is stored, before it
\* is known whether there is such an identity.
MakeTestToken ==
    /\ live["activation"] \cap made = {} /\ issued < MaxTokens
    /\ issued' = issued + 1
    /\ live' = [live EXCEPT !["activation"] = @ \cup {issued'}]
    /\ made' = made \cup {issued'}
    /\ UNCHANGED <<identity, request, spent, stale, twofold>>

\* It goes on alike with a token that was sent and one that was made.
ActivateAccount(c, t, p) ==
    /\ t \in live["activation"]
    /\ Begin(c, "activate", [identity EXCEPT !.password = p, !.active = TRUE], t)

ResendActivation(c) ==
    /\ identity # NoIdentity /\ ~ identity.active
    /\ BeginReplace(c, "activation", 0)

RequestPasswordReset(c) == BeginReplace(c, "reset", 0)

ConfirmPasswordReset(c, t, p) ==
    /\ t \in live["reset"]
    /\ Begin(c, "confirm", [identity EXCEPT !.password = p], t)

\* A reset token that has expired is deleted with all others.
ExpireReset ==
    /\ live["reset"] # {}
    /\ live' = [live EXCEPT !["reset"] = {}]
    /\ UNCHANGED <<identity, issued, request, made, spent, stale, twofold>>

\* The caller gives the password that is stored, and another one.
ChangePassword(c, p) ==
    /\ identity # NoIdentity /\ identity.password \in Passwords \ {p}
    /\ Begin(c, "change", [identity EXCEPT !.password = p], 0)

-----------------------------------------------------------------------------
(* What a request writes *)

SaveIdentity(c) ==
    /\ request[c].op \in {"fail", "change", "update", "login"}
    /\ WriteRow(c)
    /\ request' = [request EXCEPT ![c] =
         IF @.op = "login" THEN Replacing("refresh", 0) ELSE Idle]
    /\ UNCHANGED <<live, issued, made, spent, twofold>>

TokenKind(op) == IF op = "activate" THEN "activation" ELSE "reset"

\* A mutated form: the reset tokens are left to expire.
RemainingUntilExpiry(op, t) ==
    IF op = "activate" THEN [live EXCEPT !["activation"] = @ \ {t}] ELSE live

\* The tokens left after the activation or the reset by token t, in one transaction.
Remaining(op, t) ==
    [live EXCEPT ![TokenKind(op)] = IF op = "activate" THEN @ \ {t} ELSE {}]

SaveByToken(c) ==
    /\ request[c].op \in {"activate", "confirm"}
    /\ identity' = request[c].save
    /\ stale' = (stale \/ identity # request[c].row
                       \/ request[c].token \notin live[TokenKind(request[c].op)])
    /\ live' = Remaining(request[c].op, request[c].token)
    /\ spent' = spent \cup {request[c].token}
    /\ request' = [request EXCEPT ![c] = Idle]
    /\ UNCHANGED <<issued, made, twofold>>

\* DELETE, of the tokens committed so far
DeleteTokens(c) ==
    /\ request[c].op = "replace"
    /\ request' = [request EXCEPT ![c].op = "insert", ![c].seen = live[request[c].kind]]
    /\ UNCHANGED <<identity, live, issued, made, spent, stale, twofold>>

\* INSERT, and COMMIT
InsertToken(c) ==
    LET k == request[c].kind  rest == live[k] \ request[c].seen IN
    /\ request[c].op = "insert" /\ issued < MaxTokens
    /\ issued' = issued + 1
    /\ live' = [live EXCEPT ![k] = rest \cup {issued'}]
    /\ spent' = spent \cup ({request[c].token} \ {0})
    /\ twofold' = (twofold \/ rest \ made # {})
    /\ request' = [request EXCEPT ![c] = Idle]
    /\ UNCHANGED <<identity, made, stale>>

\* A write fails or the process stops: open transactions are rolled back.
Abort(c) ==
    /\ request[c] # Idle
    /\ request' = [request EXCEPT ![c] = Idle]
    /\ UNCHANGED <<identity, live, issued, made, spent, stale, twofold>>

IdentitiesNext ==
    \/ \E active \in BOOLEAN : Register(active)
    \/ ExpireReset \/ MakeTestToken
    \/ \E c \in Calls :
         \/ \E active \in BOOLEAN : UpdateEmployee(c, active)
         \/ DeactivateEmployee(c)
         \/ \E right, lapsed \in BOOLEAN : Login(c, right, lapsed)
         \/ \E t \in Tokens : RefreshToken(c, t)
         \/ \E t \in Tokens, p \in Passwords : ActivateAccount(c, t, p) \/ ConfirmPasswordReset(c, t, p)
         \/ \E p \in Passwords : ChangePassword(c, p)
         \/ ResendActivation(c) \/ RequestPasswordReset(c)
         \/ SaveIdentity(c) \/ SaveByToken(c) \/ DeleteTokens(c) \/ InsertToken(c) \/ Abort(c)

IdentitiesSpec == IdentitiesInit /\ [][IdentitiesNext]_identityVars

-----------------------------------------------------------------------------
(* Properties *)

\* The request that a step ends.
Ends(c) == request[c] # Idle /\ request'[c] = Idle

\* It came with a token that nobody has used before: one sent for that purpose, or one
\* made for the caller, with which it activates.
BySentToken(c) == request[c].token \in Tokens \ (spent \cup made)
ByTestToken(c) == request[c].op = "activate" /\ request[c].token \in made \ spent

\* The password changes only for a token sent for that purpose, for the test token of
\* the identity, or for one who knew the password; an inactive identity becomes active
\* only for a token of these two kinds or by an update; neither by the other requests,
\* whatever they have read.  No token serves twice.  And once a link was sent, those sent
\* before it are void, unless two requests replaced them together.  Nothing is claimed
\* once a write rested on what was gone.
ChangesAreEntitled ==
    [][ \/ stale' \/ identity = NoIdentity
        \/ /\ identity'.password # identity.password =>
                \E c \in Calls : /\ Ends(c)
                                 /\ \/ BySentToken(c) \/ ByTestToken(c)
                                    \/ request[c].op = "change" /\ request[c].row.password = identity.password
           /\ identity'.active /\ ~ identity.active =>
                \E c \in Calls : Ends(c) /\ (BySentToken(c) \/ ByTestToken(c) \/ request[c].op = "update")
           /\ \A k \in Kinds, t, u \in Tokens :
                {t, u} \subseteq live'[k] \ made' => t = u \/ twofold' ]_identityVars
==============================================================================
