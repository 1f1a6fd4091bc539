----------------------------- MODULE Publisher ------------------------------
(***************************************************************************)
(* Publishing in one process: publishMessage runs retryWithBackoff inside  *)
(* one CircuitBreaker, over the one channel that connection.ts keeps and   *)
(* opens again when it was lost.  The broker, the network and amqplib's    *)
(* write buffer are the environment.                                       *)
(***************************************************************************)
EXTENDS Integers

CONSTANTS
    Calls,            \* callers that publish, each one message at a time
    MaxAttempts,      \* of retryWithBackoff: 4
    FailureThreshold, \* failed calls that open the breaker: 5
    SuccessThreshold  \* calls that close a half-open one: 2

PublisherAssumption ==
    {MaxAttempts, FailureThreshold, SuccessThreshold} \subseteq Nat \ {0}

VARIABLES
    circuit,   \* the breaker's state
    failures,  \* its failureCount,
    successes, \* its successCount, and
    resetDue,  \* whether, while OPEN, resetTimeoutMs have passed since openedAt
    broker,    \* "up", "down", or "slow": it does not drain the write buffer
    channel,   \* "none", "opening": channelPromise is pending, or "open"
    stage,     \* stage[p]: "idle", "attempt", "awaiting" the channel, "thrown",
               \* or "backoff"
    attempt,   \* attempt[p]: of retryWithBackoff, from 1
    handed,    \* handed[p]: how often p's message went into a channel's buffer
    outcome    \* outcome[p]: how p's last call ended: "sent" or "failed"

breaker == <<circuit, failures, successes, resetDue>>
calls == <<stage, attempt, handed, outcome>>
pubVars == <<breaker, broker, channel, calls>>

-----------------------------------------------------------------------------
Init ==
    /\ circuit = "CLOSED" /\ failures = 0 /\ successes = 0 /\ resetDue = FALSE
    /\ broker = "up" /\ channel = "none"
    /\ stage = [p \in Calls |-> "idle"]
    /\ attempt = [p \in Calls |-> 1]
    /\ handed = [p \in Calls |-> 0]
    /\ outcome = [p \in Calls |-> "failed"]

\* Mutant: the breaker never tries again.
CanAttemptClosed == circuit # "OPEN"

\* canAttemptRequest
CanAttempt == circuit # "OPEN" \/ resetDue

\* transitionToOpen
ToOpen ==
    /\ circuit' = "OPEN" /\ resetDue' = FALSE /\ successes' = 0

\* execute, when the operation resolves.
CountSuccess ==
    \/ /\ circuit = "HALF_OPEN" /\ successes + 1 >= SuccessThreshold
       /\ circuit' = "CLOSED" /\ failures' = 0 /\ successes' = 0
       /\ UNCHANGED resetDue
    \/ /\ circuit = "HALF_OPEN" /\ successes + 1 < SuccessThreshold
       /\ successes' = successes + 1
       /\ UNCHANGED <<circuit, failures, resetDue>>
    \/ /\ circuit # "HALF_OPEN"
       /\ failures' = 0
       /\ UNCHANGED <<circuit, successes, resetDue>>

\* execute, when it rejects: a call that was admitted before the breaker
\* opened may end only now, and opens it anew.
CountFailure ==
    \/ /\ circuit = "HALF_OPEN"
       /\ ToOpen
       /\ UNCHANGED failures
    \/ /\ circuit # "HALF_OPEN" /\ failures + 1 >= FailureThreshold
       /\ failures' = failures + 1
       /\ ToOpen
    \/ /\ circuit # "HALF_OPEN" /\ failures + 1 < FailureThreshold
       /\ failures' = failures + 1
       /\ UNCHANGED <<circuit, successes, resetDue>>
-----------------------------------------------------------------------------
\* A call while the breaker is open.
Refuse(p) ==
    /\ stage[p] = "idle" /\ ~CanAttempt
    /\ outcome' = [outcome EXCEPT ![p] = "failed"]
    /\ handed' = [handed EXCEPT ![p] = 0]
    /\ UNCHANGED <<breaker, broker, channel, stage, attempt>>

Begin(p) ==
    /\ stage[p] = "idle" /\ CanAttempt
    /\ stage' = [stage EXCEPT ![p] = "attempt"]
    /\ attempt' = [attempt EXCEPT ![p] = 1]
    /\ handed' = [handed EXCEPT ![p] = 0]
    /\ \/ circuit = "OPEN"
          /\ circuit' = "HALF_OPEN" /\ failures' = 0 /\ successes' = 0
          /\ resetDue' = FALSE
       \/ circuit # "OPEN" /\ UNCHANGED breaker
    /\ UNCHANGED <<broker, channel, outcome>>

\* getRabbitMQChannel without a channel: all share one promise.
AwaitChannel(p) ==
    /\ stage[p] = "attempt" /\ channel # "open"
    /\ stage' = [stage EXCEPT ![p] = "awaiting"]
    /\ channel' = "opening"
    /\ UNCHANGED <<breaker, broker, attempt, handed, outcome>>

\* channel.publish buffered the message and had room for more.
WriteOk(p) ==
    /\ stage[p] = "attempt" /\ channel = "open" /\ broker # "slow"
    /\ handed' = [handed EXCEPT ![p] = @ + 1]
    /\ stage' = [stage EXCEPT ![p] = "idle"]
    /\ outcome' = [outcome EXCEPT ![p] = "sent"]
    /\ CountSuccess
    /\ UNCHANGED <<broker, channel, attempt>>

\* It buffered the message and answered false, for its buffer is full: the
\* attempt throws although the message will be sent.
WriteFull(p) ==
    /\ stage[p] = "attempt" /\ channel = "open" /\ broker # "up"
    /\ handed' = [handed EXCEPT ![p] = @ + 1]
    /\ stage' = [stage EXCEPT ![p] = "thrown"]
    /\ UNCHANGED <<breaker, broker, channel, attempt, outcome>>

\* Mutant: one attempt more than maxAttempts.
RetryOnceMore(p) ==
    /\ stage[p] = "thrown" /\ attempt[p] <= MaxAttempts
    /\ stage' = [stage EXCEPT ![p] = "backoff"]
    /\ UNCHANGED <<breaker, broker, channel, attempt, handed, outcome>>

Retry(p) ==
    /\ stage[p] = "thrown" /\ attempt[p] < MaxAttempts
    /\ stage' = [stage EXCEPT ![p] = "backoff"]
    /\ UNCHANGED <<breaker, broker, channel, attempt, handed, outcome>>

Wake(p) ==
    /\ stage[p] = "backoff"
    /\ stage' = [stage EXCEPT ![p] = "attempt"]
    /\ attempt' = [attempt EXCEPT ![p] = @ + 1]
    /\ UNCHANGED <<breaker, broker, channel, handed, outcome>>

GiveUp(p) ==
    /\ stage[p] = "thrown" /\ attempt[p] >= MaxAttempts
    /\ stage' = [stage EXCEPT ![p] = "idle"]
    /\ outcome' = [outcome EXCEPT ![p] = "failed"]
    /\ CountFailure
    /\ UNCHANGED <<broker, channel, attempt, handed>>
-----------------------------------------------------------------------------
\* The promise resolves, and every call that awaits it goes on.
ChannelOpens ==
    /\ channel = "opening" /\ broker # "down"
    /\ channel' = "open"
    /\ stage' = [p \in Calls |-> IF stage[p] = "awaiting" THEN "attempt" ELSE stage[p]]
    /\ UNCHANGED <<breaker, broker, attempt, handed, outcome>>

\* It rejects, for all of them; the next attempt asks for a new one.
ChannelFails ==
    /\ channel = "opening" /\ broker = "down"
    /\ channel' = "none"
    /\ stage' = [p \in Calls |-> IF stage[p] = "awaiting" THEN "thrown" ELSE stage[p]]
    /\ UNCHANGED <<breaker, broker, attempt, handed, outcome>>

\* resetConnection: the "error" and "close" events.
LinkLost ==
    /\ channel = "open" /\ broker = "down"
    /\ channel' = "none"
    /\ UNCHANGED <<breaker, broker, calls>>

BrokerTurns(b) ==
    /\ broker' = b
    /\ UNCHANGED <<breaker, channel, calls>>

\* 30 s after it opened.
ResetTimeout ==
    /\ circuit = "OPEN" /\ ~resetDue
    /\ resetDue' = TRUE
    /\ UNCHANGED <<circuit, failures, successes, broker, channel, calls>>
-----------------------------------------------------------------------------
Call(p) == Begin(p) \/ Refuse(p)

CallStep(p) ==
    AwaitChannel(p) \/ WriteOk(p) \/ WriteFull(p) \/ Retry(p) \/ Wake(p) \/ GiveUp(p)

LinkStep == ChannelOpens \/ ChannelFails

Next ==
    \/ \E p \in Calls : Call(p) \/ CallStep(p)
    \/ LinkStep \/ LinkLost \/ ResetTimeout
    \/ \E b \in {"up", "down", "slow"} : BrokerTurns(b)

Spec == Init /\ [][Next]_pubVars

\* Calls keep coming and go on, connecting ends, and time passes; the broker
\* need not come back.
FairSpec ==
    /\ Spec
    /\ \A p \in Calls : WF_pubVars(Call(p)) /\ WF_pubVars(CallStep(p))
    /\ WF_pubVars(LinkStep) /\ WF_pubVars(ResetTimeout)
-----------------------------------------------------------------------------
(* Properties *)

\* Only an open breaker waits for its timeout.
ResetOK == resetDue \in (IF circuit = "OPEN" THEN BOOLEAN ELSE {FALSE})

TypeOK ==
    /\ circuit \in {"CLOSED", "OPEN", "HALF_OPEN"}
    /\ failures \in Nat /\ successes \in 0 .. SuccessThreshold - 1
    /\ circuit = "CLOSED" => failures < FailureThreshold
    /\ ResetOK
    /\ broker \in {"up", "down", "slow"}
    /\ channel \in {"none", "opening", "open"}
    /\ stage \in [Calls -> {"idle", "attempt", "awaiting", "thrown", "backoff"}]
    /\ attempt \in [Calls -> 1 .. MaxAttempts]
    /\ handed \in [Calls -> 0 .. MaxAttempts]
    /\ outcome \in [Calls -> {"sent", "failed"}]

\* publishMessage keeps the promise of Delivery: it never tells a caller that a
\* message was sent that no channel has taken, hands over at most MaxAttempts
\* copies of it, and none once it has answered, whatever the breaker does meanwhile.
Promise == INSTANCE Delivery WITH
    Most <- MaxAttempts,
    copies <- handed,
    told <- [p \in Calls |-> IF stage[p] = "idle" THEN outcome[p] ELSE "pending"]
PublishKeepsPromise == Promise!Spec

\* Once the broker stays up, the breaker closes for good: neither calls that
\* were admitted before it opened and fail late, nor calls that all come in while
\* it is half open, keep it from recovering.
BreakerRecovers == <>[](broker = "up") => <>[](circuit = "CLOSED")
=============================================================================
