----------------------------- MODULE TabsProofs -----------------------------
(***************************************************************************)
(* Proofs about Tabs, for any set of tabs and any of the three intervals:  *)
(* no open tab is ever left without a timer that wakes it.  QuietInv is    *)
(* what makes that inductive: a tab whose page is not there has no timer   *)
(* and leads nobody, so that it starts from nothing when it opens.         *)
(***************************************************************************)
EXTENDS Tabs, TLAPS

Messages == {"HEARTBEAT", "ELECTION", "RESIGN"}
Boxes == [Ids -> [Ids -> Seq(Messages)]]

TabsOK ==
    /\ phase \in [Ids -> Phases]
    /\ leader \subseteq Ids /\ electing \subseteq Ids /\ connected \subseteq Ids
    /\ elections \in [Ids -> SUBSET (0 .. ElectionWait)]
    /\ beat \in [Ids -> {Off} \cup 0 .. BeatEvery]
    /\ failover \in [Ids -> {Off} \cup 0 .. FailoverAfter]

QuietInv ==
    \A t \in Ids \ Alive :
        /\ t \notin leader /\ elections[t] = {}
        /\ beat[t] = Off /\ failover[t] = Off

TabsInv == TabsOK /\ QuietInv /\ NeverStranded
IInv == TabsInv /\ inbox \in Boxes
-----------------------------------------------------------------------------
\* The invariant holds before any tab is opened.
LEMMA InitInv == Init => IInv
  BY TabsAssumption DEF Init, IInv, TabsInv, TabsOK, QuietInv, NeverStranded, Boxes,
     Phases, Open, Alive, Off

\* Posting a message and emptying an inbox keep the inboxes well typed.
LEMMA PostedType ==
  ASSUME NEW box \in Boxes, NEW t \in Ids, NEW m \in Messages
  PROVE  Posted(box, t, m) \in Boxes
  BY DEF Boxes, Posted

LEMMA SilencedType == ASSUME inbox \in Boxes, NEW t \in Ids PROVE Silenced(t) \in Boxes
  BY DEF Boxes, Silenced

\* So does handling the first message of an inbox.
LEMMA RestType ==
  ASSUME inbox \in Boxes, NEW r \in Ids, NEW s \in Ids, inbox[r][s] # <<>>
  PROVE  Rest(r, s) \in Boxes
<1>1. Tail(inbox[r][s]) \in Seq(Messages)
  BY DEF Boxes
<1> QED
  BY <1>1 DEF Boxes, Rest

\* The inboxes stay well typed.
LEMMA InboxStep == inbox \in Boxes /\ [Next]_vars => inbox' \in Boxes
<1> SUFFICES ASSUME inbox \in Boxes, [Next]_vars PROVE inbox' \in Boxes
  OBVIOUS
<1> USE DEF Messages
<1>1. ASSUME NEW t \in Ids, OpenTab(t) \/ FailoverTimer(t) PROVE inbox' \in Boxes
  BY <1>1, PostedType DEF OpenTab, FailoverTimer, Stand
<1>2. ASSUME NEW r \in Ids, NEW s \in Ids, OnMessage(r, s) PROVE inbox' \in Boxes
  <2>1. Rest(r, s) \in Boxes
    BY <1>2, RestType DEF OnMessage, OnHeartbeat, OnElection, OnResign, Handle
  <2>2. inbox' \in {Rest(r, s), Posted(Rest(r, s), r, "HEARTBEAT"), Posted(Rest(r, s), r, "ELECTION")}
    BY <1>2 DEF OnMessage, OnHeartbeat, OnElection, OnResign, Stand
  <2> QED
    BY <2>1, <2>2, PostedType
<1>3. ASSUME NEW t \in Ids, ElectionTimer(t) \/ BeatTimer(t) PROVE inbox' \in Boxes
  BY <1>3, PostedType DEF ElectionTimer, BeatTimer
<1>4. ASSUME NEW t \in Ids, Destroy(t) \/ PageGone(t) PROVE inbox' \in Boxes
  BY <1>4, PostedType, SilencedType DEF Destroy, PageGone
<1>5. CASE Tick \/ UNCHANGED vars
  BY <1>5 DEF Tick, vars
<1> QED
  BY <1>1, <1>2, <1>3, <1>4, <1>5 DEF Next, Step, OnTimer
-----------------------------------------------------------------------------
\* A tab that stands has an election timer; the leader, who does not, beats.
LEMMA StandKeeps ==
  ASSUME TabsInv, NEW t \in Open, NEW box, Stand(t, box),
         UNCHANGED <<phase, leader, beat, connected>>,
         failover' \in {failover, [failover EXCEPT ![t] = Off]}
  PROVE  TabsInv'
  BY TabsAssumption DEF TabsInv, TabsOK, QuietInv, NeverStranded, Open, Alive, Off, Stand, Phases

\* A tab that yields watches.
LEMMA DemoteKeeps ==
  ASSUME TabsInv, NEW t \in Open, Demote(t), UNCHANGED <<phase, elections>>
  PROVE  TabsInv'
  BY TabsAssumption DEF TabsInv, TabsOK, QuietInv, NeverStranded, Open, Alive, Off, Demote, Phases

\* What a message makes a tab do leaves it with a timer.
LEMMA MessageKeeps ==
  ASSUME TabsInv, NEW r \in Ids, NEW s \in Ids, OnMessage(r, s)
  PROVE  TabsInv'
<1>0. r \in Open
  BY DEF OnMessage, OnHeartbeat, OnElection, OnResign, Handle
<1>1. CASE OnHeartbeat(r, s)
  <2>1. CASE Demote(r)
    BY <1>0, <1>1, <2>1, DemoteKeeps DEF OnHeartbeat
  <2>2. CASE UNCHANGED <<leader, electing, beat, failover, connected>>
    BY <1>1, <2>2 DEF OnHeartbeat, TabsInv, TabsOK, QuietInv, NeverStranded, Open, Alive
  <2>3. CASE /\ failover' = [failover EXCEPT ![r] = FailoverAfter]
             /\ r \notin leader /\ UNCHANGED <<leader, electing, beat, connected>>
    BY <1>0, <1>1, <2>3, TabsAssumption
    DEF OnHeartbeat, TabsInv, TabsOK, QuietInv, NeverStranded, Open, Alive, Off
  <2> QED
    BY <1>1, <2>1, <2>2, <2>3 DEF OnHeartbeat
<1>2. CASE OnElection(r, s)
  <2>1. CASE UNCHANGED <<leader, electing, timers, connected>>
    BY <1>2, <2>1 DEF OnElection, timers, TabsInv, TabsOK, QuietInv, NeverStranded, Open, Alive
  <2>2. CASE Demote(r) /\ UNCHANGED elections
    BY <1>0, <1>2, <2>2, DemoteKeeps DEF OnElection
  <2>3. CASE Stand(r, Rest(r, s)) /\ UNCHANGED <<leader, beat, failover, connected>>
    BY <1>0, <1>2, <2>3, StandKeeps DEF OnElection
  <2> QED
    BY <1>2, <2>1, <2>2, <2>3 DEF OnElection
<1>3. CASE OnResign(r, s)
  BY <1>0, <1>3, StandKeeps DEF OnResign
<1> QED
  BY <1>1, <1>2, <1>3 DEF OnMessage

\* A timer that fires is set anew, or makes its tab stand or lead.
LEMMA TimerKeeps ==
  ASSUME TabsInv, NEW t \in Ids, OnTimer(t)
  PROVE  TabsInv'
<1> USE TabsAssumption DEF TabsInv, TabsOK, QuietInv, NeverStranded, Open, Alive, Off, Phases
<1>1. CASE ElectionTimer(t) /\ t \in electing
  <2>1. TabsOK'
    <3>1. elections' \in [Ids -> SUBSET (0 .. ElectionWait)]
      BY <1>1 DEF ElectionTimer
    <3>2. beat' \in [Ids -> {Off} \cup 0 .. BeatEvery]
      BY <1>1 DEF ElectionTimer, Promote
    <3>3. failover' \in [Ids -> {Off} \cup 0 .. FailoverAfter]
      BY <1>1 DEF ElectionTimer, Promote
    <3> QED
      BY <1>1, <3>1, <3>2, <3>3 DEF ElectionTimer, Promote
  <2>2. QuietInv'
    BY <1>1 DEF ElectionTimer, Promote
  <2>3. ASSUME NEW u \in Open PROVE u = t => u \in leader' /\ beat'[u] # Off
    BY <1>1 DEF ElectionTimer, Promote
  <2>4. NeverStranded'
    BY <1>1, <2>3 DEF ElectionTimer, Promote
  <2> QED
    BY <2>1, <2>2, <2>4
<1>2. CASE ElectionTimer(t) /\ t \notin electing
  BY <1>2 DEF ElectionTimer
<1>3. CASE BeatTimer(t)
  BY <1>3 DEF BeatTimer
<1>4. CASE FailoverTimer(t)
  BY <1>4, StandKeeps DEF FailoverTimer
<1> QED
  BY <1>1, <1>2, <1>3, <1>4 DEF OnTimer

\* A tab opens standing, and leaves nothing behind.
LEMMA PageKeeps ==
  ASSUME TabsInv, NEW t \in Ids, OpenTab(t) \/ Destroy(t) \/ PageGone(t)
  PROVE  TabsInv'
<1> USE TabsAssumption DEF TabsInv, TabsOK, QuietInv, NeverStranded, Open, Alive, Off, Phases
<1>1. CASE OpenTab(t)
  BY <1>1 DEF OpenTab, Stand
<1>2. CASE Destroy(t)
  BY <1>2 DEF Destroy
<1>3. CASE PageGone(t)
  BY <1>3 DEF PageGone
<1> QED
  BY <1>1, <1>2, <1>3

\* Time passes only while no timer is due, so that none passes unnoticed.
LEMMA TickKeeps == TabsInv /\ Tick => TabsInv'
<1> SUFFICES ASSUME TabsInv, Tick PROVE TabsInv'
  OBVIOUS
<1> USE TabsAssumption DEF TabsInv, TabsOK, QuietInv, NeverStranded, Open, Alive, Off, Phases
<1>1. \A t \in Ids : /\ 0 \notin elections[t] /\ beat[t] # 0 /\ failover[t] # 0
                     /\ (beat'[t] = Off <=> beat[t] = Off)
                     /\ (failover'[t] = Off <=> failover[t] = Off)
                     /\ beat'[t] \in {Off} \cup 0 .. BeatEvery
                     /\ failover'[t] \in {Off} \cup 0 .. FailoverAfter
  BY DEF Tick, Sooner
<1>2. \A t \in Ids : /\ elections'[t] = {n - 1 : n \in elections[t]}
                     /\ elections'[t] \subseteq 0 .. ElectionWait
                     /\ elections[t] = {} <=> elections'[t] = {}
  BY <1>1 DEF Tick
<1> QED
  BY <1>1, <1>2 DEF Tick

\* The inductive invariant holds in every behaviour.
LEMMA Invariant == Spec => []IInv
<1>1. TabsInv /\ UNCHANGED vars => TabsInv'
  BY DEF TabsInv, TabsOK, QuietInv, NeverStranded, Open, Alive, vars, timers
<1>2. IInv /\ [Next]_vars => IInv'
  BY <1>1, InboxStep, MessageKeeps, TimerKeeps, PageKeeps, TickKeeps DEF Next, Step, IInv
<1> QED
  BY <1>2, InitInv, PTL DEF Spec
-----------------------------------------------------------------------------
\* Tabs, timers and inboxes are well typed: no timer is later than it was set.
THEOREM TypeCorrect == Spec => []TypeOK
<1>1. IInv => TypeOK
  BY DEF IInv, TabsInv, TabsOK, TypeOK, Boxes, Messages
<1> QED
  BY <1>1, Invariant, PTL

\* In whatever order messages arrive, timers fire and tabs come and go: an open
\* tab beats, watches, or awaits the end of its election (BroadcastLeader).
THEOREM NoneStranded == Spec => []NeverStranded
<1>1. IInv => NeverStranded
  BY DEF IInv, TabsInv
<1> QED
  BY <1>1, Invariant, PTL
=============================================================================
