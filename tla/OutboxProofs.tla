---------------------------- MODULE OutboxProofs ----------------------------
(***************************************************************************)
(* Proofs about Outbox, for any number of events and workers, any batch    *)
(* size and any set of faults.  One invariant, BatchInv, carries them: an  *)
(* event in some batch is PROCESSING, or PUBLISHED without its worker      *)
(* knowing; no claim can select either.                                    *)
(***************************************************************************)
EXTENDS Outbox, TLAPS

IInv == TypeOK /\ BatchInv

\* The invariant holds before any event exists.
LEMMA InitInv == Init => IInv
  BY OutboxAssumption DEF Init, IInv, TypeOK, BatchInv, ClaimedOnce, MarkedWasSent, OutboxStatus

\* Every step keeps the types.
LEMMA TypeStep == TypeOK /\ [Next]_vars => TypeOK'
<1> SUFFICES ASSUME TypeOK, [Next]_vars PROVE TypeOK'
  OBVIOUS
<1> USE OutboxAssumption DEF TypeOK, OutboxStatus
<1>1. ASSUME NEW e \in Events, Enqueue(e) \/ BecomeDue(e) PROVE TypeOK'
  BY <1>1 DEF Enqueue, BecomeDue
<1>2. ASSUME NEW w \in Workers, NEW C \in SUBSET Events, Claim(w, C) \/ ClaimLost(w, C)
      PROVE  TypeOK'
  BY <1>2 DEF Claim, ClaimLost, Select
<1>3. ASSUME NEW w \in Workers, NEW e \in Events, Take(w, e) PROVE TypeOK'
  BY <1>3 DEF Take
<1>4. ASSUME NEW w \in Workers, PublishOk(w) PROVE TypeOK'
  BY <1>4 DEF PublishOk
<1>5. ASSUME NEW w \in Workers, PublishFails(w) PROVE TypeOK'
  BY <1>5 DEF PublishFails, MaySend
<1>6. ASSUME NEW w \in Workers, MarkPublished(w) PROVE TypeOK'
  BY <1>6 DEF MarkPublished, Done
<1>7. ASSUME NEW w \in Workers, MarkThrows(w) PROVE TypeOK'
  BY <1>7 DEF MarkThrows, MayWrite
<1>8. ASSUME NEW w \in Workers, MarkFailed(w) PROVE TypeOK'
  BY <1>8 DEF MarkFailed, Done
<1>9. ASSUME NEW w \in Workers, TickFails(w) \/ WorkerStops(w) PROVE TypeOK'
  BY <1>9 DEF TickFails, WorkerStops, Forget, MaySend, MayWrite
<1>10. CASE UNCHANGED vars
  BY <1>10 DEF vars
<1> QED
  BY <1>1, <1>2, <1>3, <1>4, <1>5, <1>6, <1>7, <1>8, <1>9, <1>10 DEF Next, WorkerStep

\* What a worker does to its own batch and event takes nothing from another's:
\* the batch of every other worker stays what it was.
LEMMA BatchStep == IInv /\ [Next]_vars => BatchInv'
<1> SUFFICES ASSUME TypeOK, BatchInv, [Next]_vars PROVE BatchInv'
  BY DEF IInv
<1> USE OutboxAssumption DEF TypeOK, OutboxStatus, BatchInv, ClaimedOnce, MarkedWasSent, InHand
<1>1. ASSUME NEW e \in Events, Enqueue(e) \/ BecomeDue(e) PROVE BatchInv'
  BY <1>1 DEF Enqueue, BecomeDue
<1>2. ASSUME NEW w \in Workers, NEW C \in SUBSET Events, Claim(w, C) \/ ClaimLost(w, C)
      PROVE  BatchInv'
  <2> USE DEF Select
  <2>1. \A e \in C : \A v \in Workers : e \notin batch[v]
    BY <1>2 DEF Claim, ClaimLost, Claimable
  <2>2. ClaimedOnce'
    BY <1>2, <2>1 DEF Claim, ClaimLost
  <2>3. \A v \in Workers : \A e \in batch'[v] : InHand(v, e)'
    BY <1>2, <2>1 DEF Claim, ClaimLost
  <2>4. \A v \in Workers : at'[v] = "marking" => now'[v] \in sent' /\ status'[now'[v]] = "PROCESSING"
    BY <1>2, <2>1 DEF Claim, ClaimLost
  <2> QED
    BY <1>2, <2>2, <2>3, <2>4 DEF Claim, ClaimLost
<1>3. ASSUME NEW w \in Workers, NEW e \in Events, Take(w, e) PROVE BatchInv'
  BY <1>3 DEF Take
<1>4. ASSUME NEW w \in Workers, PublishOk(w) PROVE BatchInv'
  BY <1>4 DEF PublishOk
<1>5. ASSUME NEW w \in Workers, PublishFails(w) PROVE BatchInv'
  BY <1>5 DEF PublishFails, MaySend
<1>6. ASSUME NEW w \in Workers, MarkPublished(w) PROVE BatchInv'
  BY <1>6 DEF MarkPublished, Done
<1>7. ASSUME NEW w \in Workers, MarkThrows(w) PROVE BatchInv'
  BY <1>7 DEF MarkThrows, MayWrite
<1>8. ASSUME NEW w \in Workers, MarkFailed(w) PROVE BatchInv'
  BY <1>8 DEF MarkFailed, Done
<1>9. ASSUME NEW w \in Workers, TickFails(w) \/ WorkerStops(w) PROVE BatchInv'
  BY <1>9 DEF TickFails, WorkerStops, Forget, MaySend, MayWrite
<1>10. CASE UNCHANGED vars
  BY <1>10 DEF vars
<1> QED
  BY <1>1, <1>2, <1>3, <1>4, <1>5, <1>6, <1>7, <1>8, <1>9, <1>10 DEF Next, WorkerStep

\* The inductive invariant holds in every behaviour.
LEMMA Invariant == Spec => []IInv
<1>1. IInv /\ [Next]_vars => IInv'
  BY TypeStep, BatchStep DEF IInv
<1> QED
  BY <1>1, InitInv, PTL DEF Spec
-----------------------------------------------------------------------------
\* Every row, batch and worker is well typed, and a worker is idle exactly when
\* it has dealt with all it claimed (claimPendingOutboxEvents, processOutboxBatch).
THEOREM TypeCorrect == Spec => []TypeOK
  BY Invariant, PTL DEF IInv

\* No two dispatchers hold the same event, whatever fails and is retried: the
\* claim is one statement and selects no PROCESSING row.
THEOREM ClaimsDisjoint == Spec => []ClaimedOnce
<1>1. IInv => ClaimedOnce
  BY DEF IInv, BatchInv
<1> QED
  BY <1>1, Invariant, PTL

\* A row marked PUBLISHED was published before (processOutboxBatch awaits
\* publishMessage first).
THEOREM MarkedIsSent == Spec => []MarkedWasSent
<1>1. IInv => MarkedWasSent
  BY DEF IInv, BatchInv
<1> QED
  BY <1>1, Invariant, PTL

\* A published event goes back to FAILED only by the worker that sent it and whose
\* own mark threw: neither markOutboxEventFailed nor a claim, both of which write by
\* id or status alone, undoes what another worker has marked.
THEOREM OnlyUnsureReopen == Spec => ReopenedOnlyIfUnsure
<1> DEFINE Reopens(e) == status[e] = "PUBLISHED" /\ status'[e] # "PUBLISHED"
<1>1. IInv /\ [Next]_vars => [\A e \in Events : Reopens(e) => e \in unsure]_vars
  <2> SUFFICES ASSUME TypeOK, BatchInv, Next, NEW e \in Events, Reopens(e)
               PROVE  e \in unsure
    BY DEF IInv
  <2> USE OutboxAssumption DEF TypeOK, BatchInv, InHand
  <2>1. ASSUME NEW f \in Events, Enqueue(f) \/ BecomeDue(f) PROVE FALSE
    BY <2>1 DEF Enqueue, BecomeDue
  <2>2. ASSUME NEW w \in Workers, NEW C \in SUBSET Events, Claim(w, C) \/ ClaimLost(w, C)
        PROVE  FALSE
    BY <2>2 DEF Claim, ClaimLost, Select, Claimable
  <2>3. ASSUME NEW w \in Workers, MarkPublished(w) \/ MarkThrows(w) PROVE FALSE
    BY <2>3 DEF MarkPublished, MarkThrows, MayWrite
  <2>4. ASSUME NEW w \in Workers, MarkFailed(w) \/ TickFails(w) \/ WorkerStops(w)
        PROVE  e \in unsure
    BY <2>4 DEF MarkFailed, TickFails, WorkerStops, MayWrite
  <2>5. ASSUME NEW w \in Workers,
               (\E f \in Events : Take(w, f)) \/ PublishOk(w) \/ PublishFails(w)
        PROVE  FALSE
    BY <2>5 DEF Take, PublishOk, PublishFails
  <2> QED
    BY <2>1, <2>2, <2>3, <2>4, <2>5 DEF Next, WorkerStep
<1> QED
  BY <1>1, Invariant, PTL DEF Spec, ReopenedOnlyIfUnsure
=============================================================================
