------------------------------ MODULE Sessions ------------------------------
(***************************************************************************)
(* The sessions of one user: loginUser, verifyLoginOtp, refreshToken and   *)
(* logOut of the auth service with token.service, and the end of           *)
(* deleteAccountWithOtp.  Every awaited call of Redis is a step; a         *)
(* pipeline, which Redis gets at once and whose commands write different   *)
(* keys, is one.  Whether the password, the device and the code let a      *)
(* login pass is the environment's choice (Otp models the codes).  A       *)
(* session stands for its access and its refresh token, which are issued   *)
(* together; the CSRF token is written with them and never read.           *)
(***************************************************************************)
EXTENDS Integers

CONSTANTS
    Clients,     \* requests at a time,
    DeviceOf,    \* each from a device
    MaxSessions, \* bounds the checked behaviours
    NoDevice

\* Sessions are numbered as they are issued.
SessionIds == 1 .. MaxSessions
Devices == {DeviceOf[c] : c \in Clients}

SessionsAssumption == NoDevice \notin Devices /\ MaxSessions \in Nat

VARIABLES
    issuedTo, \* issuedTo[s]: the device session s was issued to, or NoDevice
    fresh,    \* sessions whose access token has not expired,
    refresh,  \* whose refresh token is in Redis,
    listed,   \* which are in the set TOKEN_USER,
    revoked,  \* and which BLACKLIST_ACCESS names
    doing,    \* doing[c]: what c awaits next, why, and the sessions it has read
    raced     \* sessions issued while some revocation had read the set, but not
              \* cleared it

tokens == <<issuedTo, fresh, refresh, listed, revoked, raced>>
sessionVars == <<tokens, doing>>
-----------------------------------------------------------------------------
Resting == [at |-> "rest", way |-> "none", seen |-> {}]

Init ==
    /\ issuedTo = [s \in SessionIds |-> NoDevice]
    /\ fresh = {} /\ refresh = {} /\ listed = {} /\ revoked = {} /\ raced = {}
    /\ doing = [c \in Clients |-> Resting]

Starts(c, at, way, seen) ==
    /\ doing[c] = Resting
    /\ doing' = [doing EXCEPT ![c] = [at |-> at, way |-> way, seen |-> seen]]

\* The sessions it has read have served.
Moves(c, from, to) ==
    /\ doing[c].at = from
    /\ doing' = [doing EXCEPT ![c].at = to, ![c].seen = {}]

Ends(c, from) == doing[c].at = from /\ doing' = [doing EXCEPT ![c] = Resting]
-----------------------------------------------------------------------------
\* loginUser from a trusted device, or verifyLoginOtp with the right code, comes
\* to revokeAllUserSessions;
Login(c) ==
    /\ Starts(c, "list", "login", {})
    /\ UNCHANGED tokens

\* so does deleteAccountWithOtp, after its transaction.
DeleteAccount(c) ==
    /\ Starts(c, "list", "delete", {})
    /\ UNCHANGED tokens
-----------------------------------------------------------------------------
\* Mutant: the set is cleared as it is read.
ListAndClear(c) ==
    /\ doing[c].at = "list"
    /\ doing' = [doing EXCEPT ![c].at = "revoke", ![c].seen = listed]
    /\ listed' = {}
    /\ UNCHANGED <<issuedTo, fresh, refresh, revoked, raced>>

\* revokeAllUserSessions reads the set,
ListSessions(c) ==
    /\ doing[c].at = "list"
    /\ doing' = [doing EXCEPT ![c].at = "revoke", ![c].seen = listed]
    /\ UNCHANGED tokens

\* blacklists what it has read,
RevokeSessions(c) ==
    /\ Moves(c, "revoke", "clear")
    /\ revoked' = revoked \cup doing[c].seen
    /\ UNCHANGED <<issuedTo, fresh, refresh, listed, raced>>

\* and deletes the set, whatever is in it by then.
ClearSessions(c) ==
    /\ \/ doing[c].way = "login" /\ Moves(c, "clear", "issue")
       \/ doing[c].way = "delete" /\ Ends(c, "clear")
    /\ listed' = {}
    /\ UNCHANGED <<issuedTo, fresh, refresh, revoked, raced>>

\* issueTokens, its pipeline. (verifyEmailAndCreateUser issues the first session
\* of an account without revoking; a login that finds no session does the same.)
Revoking == {c \in Clients : doing[c].at \in {"revoke", "clear"}}

IssueTokens(c) ==
    /\ Ends(c, "issue")
    /\ \E s \in SessionIds :
          /\ {t \in SessionIds : issuedTo[t] # NoDevice} = 1 .. s - 1
          /\ issuedTo' = [issuedTo EXCEPT ![s] = DeviceOf[c]]
          /\ fresh' = fresh \cup {s}
          /\ refresh' = refresh \cup {s}
          /\ listed' = listed \cup {s}
          /\ raced' = IF Revoking # {} THEN raced \cup {s} ELSE raced
    /\ UNCHANGED revoked
-----------------------------------------------------------------------------
\* rotateTokens: the refresh token is read, and must be of this device;
RotateTokens(c) ==
    /\ \E s \in refresh :
          /\ issuedTo[s] = DeviceOf[c]
          /\ Starts(c, "spend", "rotate", {s})
    /\ UNCHANGED tokens

\* it is deleted, whether or not another request has spent it meanwhile.
SpendToken(c) ==
    /\ Moves(c, "spend", "issue")
    /\ refresh' = refresh \ doing[c].seen
    /\ UNCHANGED <<issuedTo, fresh, listed, revoked, raced>>

\* logOut, past authMiddleware, with both cookies: revokeSession
LogOut(c) ==
    /\ \E s \in fresh \ revoked :
          /\ issuedTo[s] = DeviceOf[c]
          /\ Starts(c, "logout", "logout", {s})
    /\ UNCHANGED tokens

\* deletes the refresh token,
DropRefresh(c) ==
    /\ doing[c].at = "logout" /\ doing' = [doing EXCEPT ![c].at = "ban"]
    /\ refresh' = refresh \ doing[c].seen
    /\ UNCHANGED <<issuedTo, fresh, listed, revoked, raced>>

\* and blacklists the session, which stays in the set.
BanSession(c) ==
    /\ Ends(c, "ban")
    /\ revoked' = revoked \cup doing[c].seen
    /\ UNCHANGED <<issuedTo, fresh, refresh, listed, raced>>

\* A call throws, or the process dies.
RequestFails(c) ==
    /\ doing[c] # Resting
    /\ doing' = [doing EXCEPT ![c] = Resting]
    /\ UNCHANGED tokens
-----------------------------------------------------------------------------
\* An access token expires after 15 minutes; what is blacklisted stays so for as
\* long from then on, so that the token expires first.
AccessExpires(s) ==
    /\ s \in fresh /\ fresh' = fresh \ {s}
    /\ UNCHANGED <<issuedTo, refresh, listed, revoked, raced, doing>>

BlacklistExpires(s) ==
    /\ s \in revoked \ fresh /\ revoked' = revoked \ {s}
    /\ UNCHANGED <<issuedTo, fresh, refresh, listed, raced, doing>>

\* A refresh token lives for a week,
RefreshExpires(s) ==
    /\ s \in refresh \ fresh /\ refresh' = refresh \ {s}
    /\ UNCHANGED <<issuedTo, fresh, listed, revoked, raced, doing>>

\* and the set for a week from the last token on.
ListExpires ==
    /\ listed # {} /\ fresh = {} /\ refresh = {}
    /\ listed' = {}
    /\ UNCHANGED <<issuedTo, fresh, refresh, revoked, raced, doing>>
-----------------------------------------------------------------------------
TokenStep(c) ==
    \/ Login(c) \/ DeleteAccount(c)
    \/ ListSessions(c) \/ RevokeSessions(c) \/ ClearSessions(c) \/ IssueTokens(c)
    \/ RotateTokens(c) \/ SpendToken(c)
    \/ LogOut(c) \/ DropRefresh(c) \/ BanSession(c)
    \/ RequestFails(c)

Next ==
    \/ \E c \in Clients : TokenStep(c)
    \/ \E s \in SessionIds : AccessExpires(s) \/ BlacklistExpires(s) \/ RefreshExpires(s)
    \/ ListExpires

Spec == Init /\ [][Next]_sessionVars
-----------------------------------------------------------------------------
(* Properties *)

Stops == {"rest", "list", "revoke", "clear", "issue", "spend", "logout", "ban"}
Ways == {"none", "login", "delete", "rotate", "logout"}

TypeOK ==
    /\ issuedTo \in [SessionIds -> Devices \cup {NoDevice}]
    /\ UNION {fresh, refresh, listed, revoked, raced} \subseteq
          {s \in SessionIds : issuedTo[s] # NoDevice}
    /\ doing \in [Clients -> [at : Stops, way : Ways, seen : SUBSET SessionIds]]

\* However revocations overlap, with each other, with logins, rotations and
\* logouts, and wherever they stop: a session whose access token is good is
\* blacklisted, or in the set where the next revocation finds it. Only one that
\* was issued in the midst of a revocation may be in neither.
NoSessionLost == fresh \subseteq listed \cup revoked \cup raced
=============================================================================
