------------------------------ MODULE BankLink ------------------------------
(***************************************************************************)
(* Linking bank accounts to one user's wallet: initiateBankLink keeps a    *)
(* session in Redis under a token, verifyPinAndSendOTP and confirmBankLink *)
(* read the session, and write back or delete what they have read.         *)
(* Requests run concurrently; each awaited call that reads or writes state *)
(* is a step.                                                              *)
(***************************************************************************)
EXTENDS Integers

CONSTANTS
    Accounts, \* active bank accounts whose details the user knows
    Tokens,   \* link tokens, drawn at random by initiateBankLink
    Requests, \* requests in progress
    MaxTries  \* wrong codes for a session: 5

LinkAssumption == MaxTries \in Nat \ {0}

VARIABLES
    drawn,    \* tokens that were handed out
    session,  \* session[t]: BANK_LINK_SESSION(t), or NoSession
    links,    \* LinkedBankAccount rows: [account, isDefault]
    request   \* request[q]: what request q does, see Idle

linkVars == <<drawn, session, links, request>>
-----------------------------------------------------------------------------
NoSession == [step |-> "NONE"]
Sessions == [step : {"PENDING_PIN", "PENDING_OTP"}, account : Accounts, tries : 0 .. MaxTries]

\* A request at step "at" has read session "seen" of token "token"; "first" is
\* isFirstAccount.
Idle == [at |-> "idle"]
Busy(at, t, first) == [at |-> at, token |-> t, seen |-> session[t], first |-> first]

Linked == {l.account : l \in links}

Init ==
    /\ drawn = {} /\ links = {}
    /\ session = [t \in Tokens |-> NoSession]
    /\ request = [q \in Requests |-> Idle]

Moves(q, at) == request' = [request EXCEPT ![q].at = at]
Ends(q) == request' = [request EXCEPT ![q] = Idle]
Stores(t, s) == session' = [session EXCEPT ![t] = s]
-----------------------------------------------------------------------------
\* initiateBankLink.  Another session for the same account may be under way.
InitiateBankLink(t, a) ==
    /\ t \notin drawn /\ a \notin Linked
    /\ drawn' = drawn \cup {t}
    /\ Stores(t, [step |-> "PENDING_PIN", account |-> a, tries |-> 0])
    /\ UNCHANGED <<links, request>>

\* verifyPinAndSendOTP
VerifyPin(q, t) ==
    /\ request[q] = Idle /\ session[t].step = "PENDING_PIN"
    /\ request' = [request EXCEPT ![q] = Busy("pin", t, FALSE)]
    /\ UNCHANGED <<drawn, session, links>>

\* The PIN is right: the session that was read is stored with a code, whatever
\* has become of it since, and the code is e-mailed.
SendOtp(q) ==
    /\ request[q].at = "pin"
    /\ Stores(request[q].token,
              [step |-> "PENDING_OTP", account |-> request[q].seen.account, tries |-> 0])
    /\ Ends(q)
    /\ UNCHANGED <<drawn, links>>

PinFails(q) ==
    /\ request[q].at = "pin"
    /\ Ends(q)
    /\ UNCHANGED <<drawn, session, links>>

\* confirmBankLink
ConfirmBankLink(q, t) ==
    /\ request[q] = Idle /\ session[t].step = "PENDING_OTP"
    /\ request' = [request EXCEPT ![q] = Busy("otp", t, FALSE)]
    /\ UNCHANGED <<drawn, session, links>>

\* Attempts beyond MaxTries are told apart nowhere.
OneMore(n) == IF n >= MaxTries THEN MaxTries ELSE n + 1

\* A wrong code is counted in the session that was read.
WrongOtp(q) ==
    /\ request[q].at = "otp"
    /\ Stores(request[q].token, [request[q].seen EXCEPT !.tries = OneMore(@)])
    /\ \/ OneMore(request[q].seen.tries) = MaxTries /\ Moves(q, "drop")
       \/ OneMore(request[q].seen.tries) < MaxTries /\ Ends(q)
    /\ UNCHANGED <<drawn, links>>

\* Mutant: the first account is looked for with the count after the insertion.
CountOneTooMany(q) ==
    /\ request[q].at = "otp"
    /\ request' = [request EXCEPT ![q].at = "create", ![q].first = (\E l \in links : links = {l})]
    /\ UNCHANGED <<drawn, session, links>>

\* The right code: is this the user's first linked account?
CountLinks(q) ==
    /\ request[q].at = "otp"
    /\ request' = [request EXCEPT ![q].at = "create", ![q].first = (links = {})]
    /\ UNCHANGED <<drawn, session, links>>

\* A user and an account are linked at most once: @@unique([userId, accountId]).
CreateLink(q) ==
    /\ request[q].at = "create" /\ request[q].seen.account \notin Linked
    /\ links' = links \cup {[account |-> request[q].seen.account, isDefault |-> request[q].first]}
    /\ Moves(q, "drop")
    /\ UNCHANGED <<drawn, session>>

CreateFails(q) ==
    /\ request[q].at = "create"
    /\ Ends(q)
    /\ UNCHANGED <<drawn, session, links>>

\* The session is deleted, after linking or after too many wrong codes.
DropSession(q) ==
    /\ request[q].at = "drop"
    /\ Stores(request[q].token, NoSession)
    /\ Ends(q)
    /\ UNCHANGED <<drawn, links>>

SessionExpires(t) ==
    /\ session[t] # NoSession
    /\ Stores(t, NoSession)
    /\ UNCHANGED <<drawn, links, request>>
-----------------------------------------------------------------------------
Next ==
    \/ \E t \in Tokens, a \in Accounts : InitiateBankLink(t, a)
    \/ \E q \in Requests, t \in Tokens : VerifyPin(q, t) \/ ConfirmBankLink(q, t)
    \/ \E q \in Requests :
          \/ SendOtp(q) \/ PinFails(q) \/ WrongOtp(q) \/ CountLinks(q)
          \/ CreateLink(q) \/ CreateFails(q) \/ DropSession(q)
    \/ \E t \in Tokens : SessionExpires(t)

Spec == Init /\ [][Next]_linkVars
-----------------------------------------------------------------------------
(* Properties *)

Steps == {"pin", "otp", "create", "drop"}

TypeOK ==
    /\ drawn \subseteq Tokens
    /\ session \in [Tokens -> Sessions \cup {NoSession}]
    /\ links \subseteq [account : Accounts, isDefault : BOOLEAN]
    /\ \A l, m \in links : l.account = m.account => l = m
    /\ request \in [Requests -> {Idle} \cup
                       [at : Steps, token : Tokens, seen : Sessions, first : BOOLEAN]]

\* A user with linked accounts always has a default one, whichever of several
\* confirmations that counted links at the same time comes first.  That there is
\* only one is not true: both may have counted none.
HasDefault == links # {} => \E l \in links : l.isDefault
=============================================================================
