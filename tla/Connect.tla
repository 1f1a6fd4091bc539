------------------------------ MODULE Connect -------------------------------
(***************************************************************************)
(* How one partner gets to know a user's wallet: the partner opens an      *)
(* onboarding session for one of its users, the wallet's owner completes   *)
(* it, which links the wallet and yields a code, and the partner exchanges *)
(* the code for the wallet.  Requests run concurrently, each statement and *)
(* each transaction is a step.  A user's wallet is represented by the user.*)
(***************************************************************************)
EXTENDS FiniteSets

CONSTANTS
    Sessions,     \* onboarding sessions, which the partner may open
    PartnerUsers, \* the partner's own users,
    Owners,       \* and those of the wallet system
    ForUser,      \* ForUser[s]: the partner's user that session s is for
    Email,        \* Email[s]: the owner whose address the partner gave for s
    Visits,       \* requests in progress
    Codes,        \* connect codes, drawn at random
    NoCode        \* authCode is null

ConnectAssumption ==
    /\ ForUser \in [Sessions -> PartnerUsers]
    /\ Email \in [Sessions -> Owners]
    /\ NoCode \notin Codes

VARIABLES
    onboarding,   \* ConnectOnboardingSession rows: [status, code]
    overdue,      \* sessions whose expiresAt has passed
    usable,       \* owners whose wallet is ACTIVE
    partnerLinks, \* PartnerWalletLink rows of the partner: [user, owner]
    visit,        \* visit[q]: what request q does and awaits, see Away
    drawnCodes,   \* codes that were drawn
    everLinked,   \* history: the links there have been
    disclosed     \* history: what exchanges have told the partner, as links

connectVars ==
    <<onboarding, overdue, usable, partnerLinks, visit, drawnCodes, everLinked, disclosed>>
-----------------------------------------------------------------------------
SessionStatus == {"none", "PENDING", "COMPLETED", "EXPIRED"}

Away == [at |-> "away"]
Busy(at, s) == [at |-> at, session |-> s]

\* What completing s links: the addresses must agree.
LinkOf(s) == [user |-> ForUser[s], owner |-> Email[s]]

Init ==
    /\ onboarding = [s \in Sessions |-> [status |-> "none", code |-> NoCode]]
    /\ overdue = {} /\ usable = {} /\ partnerLinks = {} /\ drawnCodes = {}
    /\ everLinked = {} /\ disclosed = {}
    /\ visit = [q \in Visits |-> Away]

Starts(q, at, s) == visit[q] = Away /\ visit' = [visit EXCEPT ![q] = Busy(at, s)]
Ends(q, at) == visit[q].at = at /\ visit' = [visit EXCEPT ![q] = Away]
-----------------------------------------------------------------------------
CreateOnboardingSession(s) ==
    /\ onboarding[s].status = "none"
    /\ onboarding' = [onboarding EXCEPT ![s].status = "PENDING"]
    /\ UNCHANGED <<overdue, usable, partnerLinks, visit, drawnCodes, everLinked, disclosed>>

\* getOnboardingSession and completeOnboardingSession find a session that is
\* PENDING and too old.
FindOverdue(q, s) ==
    /\ onboarding[s].status = "PENDING" /\ s \in overdue
    /\ Starts(q, "expire", s)
    /\ UNCHANGED <<onboarding, overdue, usable, partnerLinks, drawnCodes, everLinked, disclosed>>

\* They write EXPIRED by id, over whatever it has become.
WriteExpired(q) ==
    /\ Ends(q, "expire")
    /\ onboarding' = [onboarding EXCEPT ![visit[q].session].status = "EXPIRED"]
    /\ UNCHANGED <<overdue, usable, partnerLinks, drawnCodes, everLinked, disclosed>>

\* completeOnboardingSession, by the owner of the address.
CompleteOnboarding(q, s) ==
    /\ onboarding[s].status = "PENDING" /\ s \notin overdue
    /\ Starts(q, "user", s)
    /\ UNCHANGED <<onboarding, overdue, usable, partnerLinks, drawnCodes, everLinked, disclosed>>

ReadUser(q) ==
    /\ visit[q].at = "user" /\ Email[visit[q].session] \in usable
    /\ visit' = [visit EXCEPT ![q].at = "link"]
    /\ UNCHANGED <<onboarding, overdue, usable, partnerLinks, drawnCodes, everLinked, disclosed>>

\* @@unique([partnerId, partnerUserId]) is what the upsert looks for, and
\* @@unique([partnerId, userId]) refuses an owner linked to another.
Linkable(l) == \A m \in partnerLinks : m.owner = l.owner => m.user = l.user

\* Mutant: the session is completed although the link is refused.
LinkOrNot(q, c) ==
    LET s == visit[q].session
        l == LinkOf(s) IN
    /\ Ends(q, "link") /\ c \notin drawnCodes
    /\ drawnCodes' = drawnCodes \cup {c}
    /\ partnerLinks' = IF Linkable(l)
                       THEN {m \in partnerLinks : m.user # l.user} \cup {l}
                       ELSE partnerLinks
    /\ everLinked' = everLinked \cup partnerLinks'
    /\ onboarding' = [onboarding EXCEPT ![s] = [status |-> "COMPLETED", code |-> c]]
    /\ UNCHANGED <<overdue, usable, disclosed>>

\* One transaction; the status of the session is not looked at again.
LinkWallet(q, c) ==
    LET s == visit[q].session
        l == LinkOf(s) IN
    /\ Ends(q, "link") /\ c \notin drawnCodes /\ Linkable(l)
    /\ drawnCodes' = drawnCodes \cup {c}
    /\ partnerLinks' = {m \in partnerLinks : m.user # l.user} \cup {l}
    /\ everLinked' = everLinked \cup {l}
    /\ onboarding' = [onboarding EXCEPT ![s] = [status |-> "COMPLETED", code |-> c]]
    /\ UNCHANGED <<overdue, usable, disclosed>>

\* Refused, or the process dies.
VisitFails(q) ==
    /\ visit[q].at \in {"expire", "user", "link", "clear"}
    /\ Ends(q, visit[q].at)
    /\ UNCHANGED <<onboarding, overdue, usable, partnerLinks, drawnCodes, everLinked, disclosed>>
-----------------------------------------------------------------------------
\* exchangeToken
ExchangeToken(q, s) ==
    /\ onboarding[s].status = "COMPLETED" /\ onboarding[s].code # NoCode
    /\ Starts(q, "clear", s)
    /\ UNCHANGED <<onboarding, overdue, usable, partnerLinks, drawnCodes, everLinked, disclosed>>

\* The code is cleared by id, be it the one that was exchanged, none, or a newer
\* one; the partner is told the wallet the session names.
ClearCode(q) ==
    /\ Ends(q, "clear")
    /\ onboarding' = [onboarding EXCEPT ![visit[q].session].code = NoCode]
    /\ disclosed' = disclosed \cup {LinkOf(visit[q].session)}
    /\ UNCHANGED <<overdue, usable, partnerLinks, drawnCodes, everLinked>>

TimePasses(s) ==
    /\ onboarding[s].status # "none" /\ s \notin overdue
    /\ overdue' = overdue \cup {s}
    /\ UNCHANGED <<onboarding, usable, partnerLinks, visit, drawnCodes, everLinked, disclosed>>

\* PIN, KYC and deletion: see Accounts.
WalletTurns(o) ==
    /\ usable' = IF o \in usable THEN usable \ {o} ELSE usable \cup {o}
    /\ UNCHANGED <<onboarding, overdue, partnerLinks, visit, drawnCodes, everLinked, disclosed>>
-----------------------------------------------------------------------------
Next ==
    \/ \E s \in Sessions : CreateOnboardingSession(s) \/ TimePasses(s)
    \/ \E q \in Visits, s \in Sessions :
          FindOverdue(q, s) \/ CompleteOnboarding(q, s) \/ ExchangeToken(q, s)
    \/ \E q \in Visits :
          WriteExpired(q) \/ ReadUser(q) \/ VisitFails(q) \/ ClearCode(q)
    \/ \E q \in Visits, c \in Codes : LinkWallet(q, c)
    \/ \E o \in Owners : WalletTurns(o)

Spec == Init /\ [][Next]_connectVars
-----------------------------------------------------------------------------
(* Properties *)

Pairs == [user : PartnerUsers, owner : Owners]

TypeOK ==
    /\ onboarding \in [Sessions -> [status : SessionStatus, code : Codes \cup {NoCode}]]
    /\ overdue \subseteq Sessions /\ usable \subseteq Owners /\ drawnCodes \subseteq Codes
    /\ partnerLinks \subseteq Pairs /\ everLinked \subseteq Pairs /\ disclosed \subseteq Pairs
    /\ visit \in [Visits -> {Away} \cup
                     [at : {"expire", "user", "link", "clear"}, session : Sessions]]

\* Whatever the order of completions, expiries and exchanges of several sessions
\* for the same people, the partner is told of a wallet only if its owner linked
\* it to that very user of the partner; and no two users of the partner share a
\* wallet, and none has two.
DisclosedWasLinked ==
    /\ disclosed \subseteq everLinked
    /\ \A l, m \in partnerLinks : (l.user = m.user \/ l.owner = m.owner) => l = m
=============================================================================
