-------------------------------- MODULE Tabs --------------------------------
(***************************************************************************)
(* The browser tabs of one user.  BroadcastLeader elects among them, over  *)
(* a BroadcastChannel, the one that keeps the WebSocket; WsProvider makes  *)
(* the tab that is promoted connect and the one that is demoted disconnect.*)
(*                                                                         *)
(* Time advances in steps of 500 ms.  A message reaches a tab, and a timer *)
(* that is due fires, before it advances; in which order is open.  The     *)
(* messages of one tab reach another in the order they were posted.        *)
(*                                                                         *)
(* No layout of user-ui mounts WsProvider at this commit: AuthProvider     *)
(* connects every tab on its own (Realtime).  The module says what the     *)
(* election does once it is mounted.                                       *)
(***************************************************************************)
EXTENDS Integers, Sequences

CONSTANTS
    Ids,           \* ids of the tabs that may be opened; compared with >
    ElectionWait,  \* 500 ms, the time others have to object,
    BeatEvery,     \* 2 s between heartbeats, and
    FailoverAfter  \* 5 s without one before a follower stands, in steps

ASSUME TabsAssumption ==
    /\ Ids \subseteq Nat
    /\ {ElectionWait, BeatEvery, FailoverAfter} \subseteq Nat \ {0}

VARIABLES
    phase,     \* "unopened", "open", "destroyed": WsProvider let go of it, or
               \* "gone" with its page
    leader,    \* tabs whose isLeader is true
    electing,  \* tabs whose isElectionInProgress is true
    elections, \* elections[t]: when t's election timers are due; none is cleared
    beat,      \* beat[t]: when its heartbeat interval is due, or Off
    failover,  \* failover[t]: when its failover timer is due, or Off
    connected, \* tabs that told their WebSocket client to connect
    inbox      \* inbox[r][s]: what s posted and r has not handled

timers == <<elections, beat, failover>>
vars == <<phase, leader, electing, timers, connected, inbox>>
-----------------------------------------------------------------------------
Off == -1
Open == {t \in Ids : phase[t] = "open"}
Alive == {t \in Ids : phase[t] \in {"open", "destroyed"}}

Init ==
    /\ phase = [t \in Ids |-> "unopened"]
    /\ leader = {} /\ electing = {} /\ connected = {}
    /\ elections = [t \in Ids |-> {}]
    /\ beat = [t \in Ids |-> Off]
    /\ failover = [t \in Ids |-> Off]
    /\ inbox = [r \in Ids |-> [s \in Ids |-> <<>>]]

\* The inboxes after t posts m: a channel does not hear itself.
Posted(box, t, m) ==
    [r \in Ids |-> [s \in Ids |->
        IF s = t /\ r \in Open \ {t} THEN Append(box[r][s], m) ELSE box[r][s]]]

\* startElection.  The leader does not stand.
Stand(t, box) ==
    /\ electing' = electing \cup ({t} \ leader)
    /\ elections' = [elections EXCEPT ![t] =
                        IF t \in leader THEN @ ELSE @ \cup {ElectionWait}]
    /\ inbox' = IF t \in leader THEN box ELSE Posted(box, t, "ELECTION")

\* promote
Promote(t) ==
    /\ electing' = electing \ {t}
    /\ leader' = leader \cup {t}
    /\ connected' = connected \cup {t}
    /\ beat' = [beat EXCEPT ![t] = BeatEvery]
    /\ failover' = [failover EXCEPT ![t] = Off]

\* Mutant: a tab that yields does not watch for the winner's heartbeats.
DemoteUnwatched(t) ==
    /\ electing' = electing \ {t}
    /\ leader' = leader \ {t}
    /\ connected' = connected \ ({t} \cap leader)
    /\ beat' = [beat EXCEPT ![t] = IF t \in leader THEN Off ELSE @]
    /\ UNCHANGED failover

\* demote
Demote(t) ==
    /\ electing' = electing \ {t}
    /\ leader' = leader \ {t}
    /\ connected' = connected \ ({t} \cap leader)
    /\ beat' = [beat EXCEPT ![t] = IF t \in leader THEN Off ELSE @]
    /\ failover' = [failover EXCEPT ![t] = FailoverAfter]
-----------------------------------------------------------------------------
\* The constructor subscribes to the channel and stands.
OpenTab(t) ==
    /\ phase[t] = "unopened"
    /\ phase' = [phase EXCEPT ![t] = "open"]
    /\ Stand(t, inbox)
    /\ UNCHANGED <<leader, beat, failover, connected>>

Handle(r, s, m) ==
    /\ r \in Open /\ inbox[r][s] # <<>> /\ Head(inbox[r][s]) = m

Rest(r, s) == [inbox EXCEPT ![r][s] = Tail(@)]

\* Mutant: a leader does not look at the heartbeats of another.
HeartbeatUnheeded(r, s) ==
    /\ Handle(r, s, "HEARTBEAT")
    /\ inbox' = Rest(r, s)
    /\ failover' = [failover EXCEPT ![r] = IF r \in leader THEN @ ELSE FailoverAfter]
    /\ UNCHANGED <<phase, leader, electing, elections, beat, connected>>

\* A leader yields to a higher id; a follower learns that its leader lives.
OnHeartbeat(r, s) ==
    /\ Handle(r, s, "HEARTBEAT")
    /\ inbox' = Rest(r, s)
    /\ \/ r \in leader /\ s > r /\ Demote(r)
       \/ r \in leader /\ ~ s > r
          /\ UNCHANGED <<leader, electing, beat, failover, connected>>
       \/ r \notin leader
          /\ failover' = [failover EXCEPT ![r] = FailoverAfter]
          /\ UNCHANGED <<leader, electing, beat, connected>>
    /\ UNCHANGED <<phase, elections>>

\* A leader answers with a heartbeat; others yield to a higher id, or challenge.
OnElection(r, s) ==
    /\ Handle(r, s, "ELECTION")
    /\ \/ /\ r \in leader
          /\ inbox' = Posted(Rest(r, s), r, "HEARTBEAT")
          /\ UNCHANGED <<leader, electing, timers, connected>>
       \/ /\ r \notin leader /\ s > r
          /\ Demote(r)
          /\ inbox' = Rest(r, s)
          /\ UNCHANGED elections
       \/ /\ r \notin leader /\ ~ s > r
          /\ Stand(r, Rest(r, s))
          /\ UNCHANGED <<leader, beat, failover, connected>>
    /\ UNCHANGED phase

OnResign(r, s) ==
    /\ Handle(r, s, "RESIGN")
    /\ Stand(r, Rest(r, s))
    /\ UNCHANGED <<phase, leader, beat, failover, connected>>
-----------------------------------------------------------------------------
\* The callback of startElection's timer.  One left over from an earlier
\* election ends a later one early; destroy clears none.
ElectionTimer(t) ==
    /\ t \in Alive /\ 0 \in elections[t]
    /\ elections' = [elections EXCEPT ![t] = @ \ {0}]
    /\ \/ t \in electing /\ Promote(t)
       \/ t \notin electing
          /\ UNCHANGED <<leader, electing, beat, failover, connected>>
    /\ UNCHANGED <<phase, inbox>>

\* The interval of a leader; one that was destroyed posts to a closed channel,
\* which throws.
BeatTimer(t) ==
    /\ t \in Alive /\ beat[t] = 0
    /\ beat' = [beat EXCEPT ![t] = BeatEvery]
    /\ inbox' = IF t \in Open THEN Posted(inbox, t, "HEARTBEAT") ELSE inbox
    /\ UNCHANGED <<phase, leader, electing, elections, failover, connected>>

FailoverTimer(t) ==
    /\ t \in Open /\ failover[t] = 0
    /\ failover' = [failover EXCEPT ![t] = Off]
    /\ Stand(t, inbox)
    /\ UNCHANGED <<phase, leader, beat, connected>>
-----------------------------------------------------------------------------
Silenced(t) == [r \in Ids |-> [s \in Ids |-> IF r = t THEN <<>> ELSE inbox[r][s]]]

\* destroy, and WsProvider's cleanup disconnects.  isLeader and
\* isElectionInProgress stay as they are, and so do the election timers.
Destroy(t) ==
    /\ t \in Open
    /\ phase' = [phase EXCEPT ![t] = "destroyed"]
    /\ beat' = [beat EXCEPT ![t] = Off]
    /\ failover' = [failover EXCEPT ![t] = Off]
    /\ connected' = connected \ {t}
    /\ inbox' = IF t \in leader THEN Posted(Silenced(t), t, "RESIGN") ELSE Silenced(t)
    /\ UNCHANGED <<leader, electing, elections>>

\* The page is closed or crashes: React runs no cleanup, nobody resigns.
PageGone(t) ==
    /\ t \in Alive
    /\ phase' = [phase EXCEPT ![t] = "gone"]
    /\ leader' = leader \ {t} /\ electing' = electing \ {t}
    /\ connected' = connected \ {t}
    /\ elections' = [elections EXCEPT ![t] = {}]
    /\ beat' = [beat EXCEPT ![t] = Off]
    /\ failover' = [failover EXCEPT ![t] = Off]
    /\ inbox' = Silenced(t)

\* Mutant: timers that are off run too.
SoonerAnyway(n) == n - 1

Sooner(n) == IF n = Off THEN Off ELSE n - 1

\* 500 ms pass.
Tick ==
    /\ \A r, s \in Ids : inbox[r][s] = <<>>
    /\ \A t \in Alive : 0 \notin elections[t] \cup {beat[t], failover[t]}
    /\ elections' = [t \in Ids |-> {n - 1 : n \in elections[t]}]
    /\ beat' = [t \in Ids |-> Sooner(beat[t])]
    /\ failover' = [t \in Ids |-> Sooner(failover[t])]
    /\ UNCHANGED <<phase, leader, electing, connected, inbox>>
-----------------------------------------------------------------------------
OnMessage(r, s) == OnHeartbeat(r, s) \/ OnElection(r, s) \/ OnResign(r, s)

OnTimer(t) == ElectionTimer(t) \/ BeatTimer(t) \/ FailoverTimer(t)

Step ==
    \/ \E r, s \in Ids : OnMessage(r, s)
    \/ \E t \in Ids : OnTimer(t)
    \/ Tick

Next ==
    \/ Step
    \/ \E t \in Ids : OpenTab(t) \/ Destroy(t) \/ PageGone(t)

Spec == Init /\ [][Next]_vars

\* The browser delivers messages, fires timers and lets time pass; users need
\* neither open nor close tabs.
FairSpec == Spec /\ WF_vars(Step)
-----------------------------------------------------------------------------
(* Properties *)

Phases == {"unopened", "open", "destroyed", "gone"}

TypeOK ==
    /\ phase \in [Ids -> Phases]
    /\ leader \subseteq Ids /\ electing \subseteq Ids /\ connected \subseteq Ids
    /\ elections \in [Ids -> SUBSET (0 .. ElectionWait)]
    /\ beat \in [Ids -> {Off} \cup 0 .. BeatEvery]
    /\ failover \in [Ids -> {Off} \cup 0 .. FailoverAfter]
    /\ inbox \in [Ids -> [Ids -> Seq({"HEARTBEAT", "ELECTION", "RESIGN"})]]

\* Whatever the order of messages and timers, no open tab is left with nothing
\* to wake it: it leads and beats, or stands with a timer running, or watches.
NeverStranded ==
    \A t \in Open :
        \/ t \in leader /\ beat[t] # Off
        \/ t \notin leader /\ (failover[t] # Off \/ (t \in electing /\ elections[t] # {}))

\* Once tabs are no longer opened or closed, exactly one of those that are open
\* keeps the WebSocket, and it is their leader.  It need not be the one with the
\* highest id: a follower that hears heartbeats never stands against them.
OneConnection ==
    Open # {} => \E t \in Open : connected \cap Open = {t} /\ leader \cap Open = {t}
ConnectionSettles == <>[]OneConnection
=============================================================================
