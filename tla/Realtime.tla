------------------------------ MODULE Realtime ------------------------------
(***************************************************************************)
(* One browser tab and realtime-service: AuthProvider connects the tab's   *)
(* WebSocketClient when the user turns out to be logged in and disconnects *)
(* it when not, the client reconnects with growing delays, and the server  *)
(* keeps the accepted sockets it sends events to.  A socket may be lost at *)
(* any time, by either side, the network or a restart.  What the handlers  *)
(* of one page do is atomic; what they wait for comes in any order.        *)
(***************************************************************************)
EXTENDS Naturals

CONSTANTS
    Sockets,     \* WebSocket objects that exist at a time; bounds the checks
    NoSocket,    \* the client's ws is null
    MaxAttempts, \* maxReconnectAttempts: 5
    MaxFetches,  \* token requests under way, and
    MaxTimers    \* timers that run at a time; bound the checks

RealtimeAssumption ==
    /\ NoSocket \notin Sockets
    /\ {MaxAttempts, MaxFetches, MaxTimers} \subseteq Nat

VARIABLES
    auth,      \* AuthProvider: "loading", "in" or "out"
    fetching,  \* getWebSocketToken requests under way
    state,     \* state[n]: "none", "connecting", "open", or the close event to
               \* come: "ended", or "refused" with code 1008
    outdated,  \* sockets opened with a token older than 15 min
    ws,        \* the socket the client holds; one that has ended counts as none
    token,     \* the client's token: "none", "valid" or "expired"
    reconnectAttempts,
    timers,    \* reconnect timers that are running; none is ever cleared
    registered,\* the server's connections of this user
    excused    \* no token came, or the server refused it

clientVars == <<state, outdated, ws, token, reconnectAttempts, timers>>
rtVars == <<auth, fetching, clientVars, registered, excused>>
-----------------------------------------------------------------------------
Init ==
    /\ auth = "loading" /\ fetching = 0
    /\ state = [n \in Sockets |-> "none"] /\ outdated = {}
    /\ ws = NoSocket /\ token = "none"
    /\ reconnectAttempts = 0 /\ timers = 0
    /\ registered = {} /\ excused = FALSE

Live(n) == state[n] \in {"connecting", "open"}
Connected == ws # NoSocket /\ state[ws] = "open"

\* connect, with token t.  A socket that is still connecting is left alone, and
\* no longer held.
Connect(t) ==
    \/ Connected /\ UNCHANGED <<state, outdated, ws, token>>
    \/ /\ ~Connected
       /\ \E n \in Sockets :
             /\ state[n] = "none" /\ n \notin registered
             /\ state' = [state EXCEPT ![n] = "connecting"]
             /\ outdated' = IF t = "expired" THEN outdated \cup {n} ELSE outdated \ {n}
             /\ ws' = n
       /\ token' = t

\* disconnect: the close event is yet to come.
Disconnect ==
    /\ reconnectAttempts' = MaxAttempts
    /\ state' = [n \in Sockets |-> IF n = ws /\ Live(n) THEN "ended" ELSE state[n]]
    /\ ws' = NoSocket
    /\ UNCHANGED <<outdated, token, timers>>
-----------------------------------------------------------------------------
\* The user is fetched, or fetched again.
AuthLoads ==
    /\ auth # "loading"
    /\ auth' = "loading"
    /\ UNCHANGED <<fetching, clientVars, registered, excused>>

\* The effect of AuthProvider runs.
AuthIn ==
    /\ auth = "loading" /\ (Connected \/ fetching < MaxFetches)
    /\ auth' = "in"
    /\ fetching' = IF Connected THEN fetching ELSE fetching + 1
    /\ UNCHANGED <<clientVars, registered, excused>>

AuthOut ==
    /\ auth = "loading"
    /\ auth' = "out"
    /\ Disconnect
    /\ UNCHANGED <<fetching, registered, excused>>

\* The token arrives, whatever has become of the user by now.
TokenArrives ==
    /\ fetching > 0
    /\ fetching' = fetching - 1
    /\ Connect("valid")
    /\ UNCHANGED <<auth, reconnectAttempts, timers, registered, excused>>

TokenFails ==
    /\ fetching > 0
    /\ fetching' = fetching - 1
    /\ excused' = TRUE
    /\ UNCHANGED <<auth, clientVars, registered>>

TokenExpires ==
    /\ token = "valid"
    /\ token' = "expired"
    /\ UNCHANGED <<auth, fetching, state, outdated, ws, reconnectAttempts, timers>>
    /\ UNCHANGED <<registered, excused>>
-----------------------------------------------------------------------------
\* The handshake succeeds, and onopen runs; only then does the server look at
\* the token, and close the connection or register it.
Opens(n) ==
    /\ state[n] = "connecting"
    /\ reconnectAttempts' = 0
    /\ \/ /\ n \in outdated
          /\ state' = [state EXCEPT ![n] = "refused"]
          /\ UNCHANGED registered
       \/ /\ n \notin outdated
          /\ state' = [state EXCEPT ![n] = "open"]
          /\ registered' = registered \cup {n}
    /\ UNCHANGED <<auth, fetching, outdated, ws, token, timers, excused>>

Lost(n) ==
    /\ Live(n)
    /\ state' = [state EXCEPT ![n] = "ended"]
    /\ UNCHANGED <<auth, fetching, outdated, ws, token, reconnectAttempts, timers>>
    /\ UNCHANGED <<registered, excused>>

\* The server's close or error event.
Deregister(n) ==
    /\ n \in registered /\ state[n] # "open"
    /\ registered' = registered \ {n}
    /\ UNCHANGED <<auth, fetching, clientVars, excused>>

Released(n) == ws' = IF ws = n THEN NoSocket ELSE ws

\* Mutant: the fifth attempt is the last that is not made.
ReconnectLess ==
    IF reconnectAttempts + 1 < MaxAttempts
    THEN reconnectAttempts' = reconnectAttempts + 1 /\ timers' = timers + 1
    ELSE UNCHANGED <<reconnectAttempts, timers>>

\* attemptReconnect
AttemptReconnect ==
    IF reconnectAttempts < MaxAttempts
    THEN reconnectAttempts' = reconnectAttempts + 1 /\ timers' = timers + 1
    ELSE UNCHANGED <<reconnectAttempts, timers>>

\* onclose, of any of the client's sockets
OnClose(n) ==
    /\ state[n] = "ended" /\ timers < MaxTimers
    /\ state' = [state EXCEPT ![n] = "none"]
    /\ Released(n)
    /\ AttemptReconnect
    /\ UNCHANGED <<auth, fetching, outdated, token, registered, excused>>

OnRefused(n) ==
    /\ state[n] = "refused"
    /\ state' = [state EXCEPT ![n] = "none"]
    /\ Released(n)
    /\ excused' = TRUE
    /\ UNCHANGED <<auth, fetching, outdated, token, reconnectAttempts, timers, registered>>

\* The timer of attemptReconnect, after a logout as well.
ReconnectTimer ==
    /\ timers > 0 /\ token # "none"
    /\ timers' = timers - 1
    /\ Connect(token)
    /\ UNCHANGED <<auth, fetching, reconnectAttempts, registered, excused>>
-----------------------------------------------------------------------------
Next ==
    \/ AuthLoads \/ AuthIn \/ AuthOut
    \/ TokenArrives \/ TokenFails \/ TokenExpires \/ ReconnectTimer
    \/ \E n \in Sockets :
          Opens(n) \/ Lost(n) \/ Deregister(n) \/ OnClose(n) \/ OnRefused(n)

Spec == Init /\ [][Next]_rtVars
-----------------------------------------------------------------------------
(* Properties *)

TypeOK ==
    /\ auth \in {"loading", "in", "out"}
    /\ fetching \in 0 .. MaxFetches
    /\ state \in [Sockets -> {"none", "connecting", "open", "ended", "refused"}]
    /\ outdated \subseteq Sockets /\ registered \subseteq Sockets
    /\ ws \in Sockets \cup {NoSocket}
    /\ token \in {"none", "valid", "expired"}
    /\ reconnectAttempts \in 0 .. MaxAttempts /\ timers \in 0 .. MaxTimers
    /\ excused \in BOOLEAN
    /\ \A n \in registered : state[n] # "connecting"

\* A tab of a logged-in user that has no connection is about to get one, has
\* used up its attempts, or could not authenticate: however losses, refetches of
\* the user, logouts and late tokens interleave, no other state leaves it deaf.
\* (A tab of a user who has logged out may well be connected.)
NeverForgotten ==
    auth = "in" =>
        \/ \E n \in Sockets : state[n] # "none"
        \/ timers > 0 \/ fetching > 0
        \/ reconnectAttempts = MaxAttempts \/ excused
=============================================================================
