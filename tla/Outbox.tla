------------------------------- MODULE Outbox -------------------------------
(***************************************************************************)
(* The transactional outbox.  A payment inserts its event together with    *)
(* the money it moves; the dispatcher of worker-service claims a batch     *)
(* every 5 s, and publishes and marks its events one by one.  A claim is   *)
(* one SQL statement; publishing, marking and marking as failed are awaits *)
(* of their own, and a worker may stop between any two of them.  A call    *)
(* that throws, or whose worker dies, may have done what it was to do: it  *)
(* is the answer that was lost.                                            *)
(***************************************************************************)
EXTENDS Integers, FiniteSets

CONSTANTS
    Events,   \* rows of outbox_events that may be inserted
    Workers,  \* worker-service processes; isRunning keeps one tick in each
    Limit,    \* events claimed at a time, 20 in the code
    Nothing,  \* the event of a worker that handles none
    Faults    \* which of the fault classes below can strike

FaultClasses == {"publish",   \* publishMessage throws
                 "store",     \* a statement throws, executed or not
                 "stop"}      \* a worker dies or is told to (SIGTERM: exit)

ASSUME OutboxAssumption ==
    /\ Limit \in Nat \ {0}
    /\ Nothing \notin Events
    /\ Faults \subseteq FaultClasses

VARIABLES
    status, \* outbox_events.status; "none" before the row exists
    due,    \* FAILED events whose available_at has passed
    batch,  \* batch[w]: events claimed by w that it has not dealt with
    at,     \* at[w]: what w awaits
    now,    \* now[w]: the event it is about
    sent,   \* history: events that reached the exchange
    unsure  \* history: events whose marking threw since they were last claimed

vars == <<status, due, batch, at, now, sent, unsure>>
-----------------------------------------------------------------------------
OutboxStatus == {"none", "PENDING", "PROCESSING", "PUBLISHED", "FAILED"}

Init ==
    /\ status = [e \in Events |-> "none"]
    /\ due = {}
    /\ batch = [w \in Workers |-> {}]
    /\ at = [w \in Workers |-> "idle"]
    /\ now = [w \in Workers |-> Nothing]
    /\ sent = {} /\ unsure = {}

\* enqueueOutboxEventTx commits with the payment it is part of.
Enqueue(e) ==
    /\ status[e] = "none"
    /\ status' = [status EXCEPT ![e] = "PENDING"]
    /\ UNCHANGED <<due, batch, at, now, sent, unsure>>

\* (Mutants: PROCESSING is in the IN list; FAILED is not.)
ClaimableAnyway(e) == status[e] \in {"PENDING", "PROCESSING"} \/ e \in due
ClaimableOnce(e) == status[e] = "PENDING"
Claimable(e) == status[e] = "PENDING" \/ e \in due

\* The one statement of claimPendingOutboxEvents.  FOR UPDATE SKIP LOCKED passes
\* over rows another claim has locked, and created_at is the start of the
\* inserting transaction: the order of commits does not decide what is claimed.
Select(C) ==
    /\ C # {} /\ Cardinality(C) <= Limit /\ \A e \in C : Claimable(e)
    /\ status' = [e \in Events |-> IF e \in C THEN "PROCESSING" ELSE status[e]]
    /\ due' = due \ C
    /\ unsure' = unsure \ C

Claim(w, C) ==
    /\ at[w] = "idle"
    /\ Select(C)
    /\ batch' = [batch EXCEPT ![w] = C]
    /\ at' = [at EXCEPT ![w] = "working"]
    /\ UNCHANGED <<now, sent>>

\* The rows are claimed, but their worker is never told.
ClaimLost(w, C) ==
    /\ {"store", "stop"} \cap Faults # {}
    /\ at[w] = "idle"
    /\ Select(C)
    /\ UNCHANGED <<batch, at, now, sent>>

\* RETURNING gives the rows in no particular order.
Take(w, e) ==
    /\ at[w] = "working" /\ e \in batch[w]
    /\ at' = [at EXCEPT ![w] = "publishing"]
    /\ now' = [now EXCEPT ![w] = e]
    /\ UNCHANGED <<status, due, batch, sent, unsure>>

PublishOk(w) ==
    /\ at[w] = "publishing"
    /\ sent' = sent \cup {now[w]}
    /\ at' = [at EXCEPT ![w] = "marking"]
    /\ UNCHANGED <<status, due, batch, now, unsure>>

MaySend(w) == sent' \in {sent, sent \cup {now[w]}}
MayWrite(w, s) == status' \in {status, [status EXCEPT ![now[w]] = s]}

\* It throws, though a copy may have been buffered (see Topup!Publish).
PublishFails(w) ==
    /\ "publish" \in Faults
    /\ at[w] = "publishing"
    /\ MaySend(w)
    /\ at' = [at EXCEPT ![w] = "failing"]
    /\ UNCHANGED <<status, due, batch, now, unsure>>

\* (Mutant: processOutboxBatch returns after its first event.)
DoneAndReturn(w) ==
    /\ batch' = [batch EXCEPT ![w] = @ \ {now[w]}]
    /\ at' = [at EXCEPT ![w] = "idle"]
    /\ now' = [now EXCEPT ![w] = Nothing]

Done(w) ==
    /\ batch' = [batch EXCEPT ![w] = @ \ {now[w]}]
    /\ at' = [at EXCEPT ![w] = IF batch[w] = {now[w]} THEN "idle" ELSE "working"]
    /\ now' = [now EXCEPT ![w] = Nothing]

MarkPublished(w) ==
    /\ at[w] = "marking"
    /\ status' = [status EXCEPT ![now[w]] = "PUBLISHED"]
    /\ Done(w)
    /\ UNCHANGED <<due, sent, unsure>>

\* The update throws: the catch marks as FAILED what has been published, and may
\* be marked so.
MarkThrows(w) ==
    /\ "store" \in Faults
    /\ at[w] = "marking"
    /\ MayWrite(w, "PUBLISHED")
    /\ unsure' = unsure \cup {now[w]}
    /\ at' = [at EXCEPT ![w] = "failing"]
    /\ UNCHANGED <<due, batch, now, sent>>

\* (Mutant: an event that may have been sent is taken for sent.)
MarkFailedAsPublished(w) ==
    /\ at[w] = "failing"
    /\ status' = [status EXCEPT ![now[w]] = "PUBLISHED"]
    /\ Done(w)
    /\ UNCHANGED <<due, sent, unsure>>

\* By id alone: whatever the row says.
MarkFailed(w) ==
    /\ at[w] = "failing"
    /\ status' = [status EXCEPT ![now[w]] = "FAILED"]
    /\ Done(w)
    /\ UNCHANGED <<due, sent, unsure>>

Forget(w) ==
    /\ batch' = [batch EXCEPT ![w] = {}]
    /\ at' = [at EXCEPT ![w] = "idle"]
    /\ now' = [now EXCEPT ![w] = Nothing]

\* Marking as failed throws: processOutboxBatch ends, the rest of the batch
\* stays PROCESSING.
TickFails(w) ==
    /\ "store" \in Faults
    /\ at[w] = "failing"
    /\ MayWrite(w, "FAILED")
    /\ Forget(w)
    /\ UNCHANGED <<due, sent, unsure>>

\* What the worker has sent off to the broker or the database may arrive yet.
WorkerStops(w) ==
    /\ "stop" \in Faults
    /\ \/ at[w] = "working" /\ UNCHANGED <<status, sent>>
       \/ at[w] = "publishing" /\ MaySend(w) /\ UNCHANGED status
       \/ at[w] = "marking" /\ MayWrite(w, "PUBLISHED") /\ UNCHANGED sent
       \/ at[w] = "failing" /\ MayWrite(w, "FAILED") /\ UNCHANGED sent
    /\ Forget(w)
    /\ UNCHANGED <<due, unsure>>

\* available_at passes.
BecomeDue(e) ==
    /\ status[e] = "FAILED" /\ e \notin due
    /\ due' = due \cup {e}
    /\ UNCHANGED <<status, batch, at, now, sent, unsure>>
-----------------------------------------------------------------------------
WorkerStep(w) ==
    \/ \E C \in SUBSET Events : Claim(w, C)
    \/ \E e \in Events : Take(w, e)
    \/ PublishOk(w) \/ PublishFails(w)
    \/ MarkPublished(w) \/ MarkThrows(w) \/ MarkFailed(w) \/ TickFails(w)

Next ==
    \/ \E e \in Events : Enqueue(e) \/ BecomeDue(e)
    \/ \E w \in Workers :
          WorkerStep(w) \/ WorkerStops(w) \/ \E C \in SUBSET Events : ClaimLost(w, C)

Spec == Init /\ [][Next]_vars

\* The tick is repeated and goes on; delays pass; an event that is tried again
\* and again is published and marked in the end: brokers and databases recover.
Fairness ==
    /\ \A w \in Workers :
          /\ WF_vars(WorkerStep(w))
          /\ SF_vars(PublishOk(w)) /\ SF_vars(MarkPublished(w))
    /\ \A e \in Events : WF_vars(BecomeDue(e))

FairSpec == Spec /\ Fairness
-----------------------------------------------------------------------------
(* Properties *)

TypeOK ==
    /\ status \in [Events -> OutboxStatus] /\ due \subseteq Events
    /\ batch \in [Workers -> SUBSET Events]
    /\ at \in [Workers -> {"idle", "working", "publishing", "marking", "failing"}]
    /\ now \in [Workers -> Events \cup {Nothing}]
    /\ \A w \in Workers : at[w] = "idle" <=> batch[w] = {}
    /\ \A w \in Workers : at[w] \in {"publishing", "marking", "failing"} => now[w] \in batch[w]
    /\ {sent, unsure} \subseteq SUBSET Events

\* Workers that run at once never work on the same event, retries included.
ClaimedOnce == \A v, w \in Workers : v # w => batch[v] \cap batch[w] = {}

\* An event is marked PUBLISHED only when it has reached the exchange: whatever
\* fails between publishing and marking, no event is lost as if it were sent.
MarkedWasSent == \A e \in Events : status[e] = "PUBLISHED" => e \in sent

\* A published event is sent once more only by the dispatcher that published it
\* and did not learn that its mark was written (the catch then writes FAILED by id
\* alone): no competing, slow or restarted dispatcher, and no retry that was due,
\* undoes a mark that another has made.
ReopenedOnlyIfUnsure ==
    [][\A e \in Events :
          status[e] = "PUBLISHED" /\ status'[e] # "PUBLISHED" => e \in unsure]_vars

\* In the end every event has reached the exchange and is marked as published for
\* good, however often its mark was lost and it was sent again; or it is left
\* PROCESSING by a worker that stopped, or whose tick failed, and that no claim
\* ever selects again.
Stranded(e) ==
    /\ status[e] = "PROCESSING"
    /\ \A w \in Workers : e \notin batch[w]
EventsSettle ==
    \A e \in Events :
        status[e] = "PENDING" ~> [](status[e] = "PUBLISHED" /\ e \in sent) \/ []Stranded(e)
-----------------------------------------------------------------------------
\* Why they hold: an event in a batch is PROCESSING, and what is claimable is not,
\* unless it was marked and its worker, not knowing, is about to mark it FAILED.
InHand(w, e) ==
    \/ status[e] = "PROCESSING"
    \/ status[e] = "PUBLISHED" /\ at[w] = "failing" /\ now[w] = e /\ e \in unsure
BatchInv ==
    /\ ClaimedOnce
    /\ \A w \in Workers : \A e \in batch[w] : InHand(w, e)
    /\ \A e \in due : status[e] = "FAILED"
    /\ \A w \in Workers : at[w] = "marking" => now[w] \in sent /\ status[now[w]] = "PROCESSING"
    /\ MarkedWasSent
=============================================================================
