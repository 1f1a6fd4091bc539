---------------------------- MODULE Idempotency -----------------------------
(***************************************************************************)
(* The Idempotency-Key header in front of top-ups, transfers and           *)
(* withdrawals: idempotencyMiddleware looks a key up before the handler    *)
(* runs and stores the answer after it was sent, without waiting.  The     *)
(* Redis key is the client's key alone; whose it is and what was asked is  *)
(* kept in the value.  Requests run concurrently in any number of services.*)
(*                                                                         *)
(* The middleware comes before validate, which puts the parsed body in the *)
(* place of the one that was sent: what is looked up is the body as sent,  *)
(* and what is stored the body as the handler had it.                      *)
(***************************************************************************)
EXTENDS Naturals

CONSTANTS
    Requests,  \* HTTP requests
    HeaderKey, \* HeaderKey[r]: the Idempotency-Key they carry
    Whose,     \* Whose[r]: the user and the path, as one value
    Body,      \* Body[r]: the body as sent (and hashed: one value for equal texts)
    Parsed,    \* Parsed[b]: what validate makes of b: trimmed, unknown keys stripped,
               \* keys in the order of the schema
    NoRecord   \* there is no key in Redis

Keys == {HeaderKey[r] : r \in Requests}

\* The body when the handler runs and its answer is stored: req.body = parsed.data.
Validated(r) == Parsed[Body[r]]

\* The stored value: of whom and what, and which run of the handler answered.
Record(r) == [of |-> Whose[r], body |-> Validated(r), from |-> r]

\* To trim, strip and order once more changes nothing.
IdempotencyAssumption ==
    \A r \in Requests : Parsed[Validated(r)] = Validated(r) /\ NoRecord # Record(r)

VARIABLES
    record, \* record[k]: IDEMPOTENCY(k), the answer to a request, or NoRecord
    serving,\* serving[r]: "new", "checked", "answered" or "refused" by the handler,
            \* or "replayed"
    storing,\* answers whose storing is under way
    answer  \* answer[r]: the request whose handler computed what r was told

idemVars == <<record, serving, storing, answer>>
-----------------------------------------------------------------------------
Init ==
    /\ record = [k \in Keys |-> NoRecord]
    /\ serving = [r \in Requests |-> "new"]
    /\ storing = {}
    /\ answer = [r \in Requests |-> r]

\* Mutant: the key alone decides.
SameKey(r) == record[HeaderKey[r]] # NoRecord

\* checkIdempotency, given the body as it was sent: not even an identical repeat is
\* a duplicate unless validate leaves the body as it is.
IsDuplicate(r) ==
    LET kept == record[HeaderKey[r]]
    IN  kept # NoRecord /\ kept.of = Whose[r] /\ kept.body = Body[r]

Replay(r) ==
    /\ serving[r] = "new" /\ IsDuplicate(r)
    /\ serving' = [serving EXCEPT ![r] = "replayed"]
    /\ answer' = [answer EXCEPT ![r] = record[HeaderKey[r]].from]
    /\ UNCHANGED <<record, storing>>

PassOn(r) ==
    /\ serving[r] = "new" /\ ~IsDuplicate(r)
    /\ serving' = [serving EXCEPT ![r] = "checked"]
    /\ UNCHANGED <<record, storing, answer>>

\* The handler answers 2xx: the answer is sent, and its storing begins.
Answer(r) ==
    /\ serving[r] = "checked"
    /\ serving' = [serving EXCEPT ![r] = "answered"]
    /\ storing' = storing \cup {r}
    /\ UNCHANGED <<record, answer>>

\* Any other status, validate's 400 included.
Refuse(r) ==
    /\ serving[r] = "checked"
    /\ serving' = [serving EXCEPT ![r] = "refused"]
    /\ UNCHANGED <<record, storing, answer>>

\* storeIdempotencyResponse: the last one to arrive stays, whoever it is.
Store(r) ==
    /\ r \in storing
    /\ storing' = storing \ {r}
    /\ record' = [record EXCEPT ![HeaderKey[r]] = Record(r)]
    /\ UNCHANGED <<serving, answer>>

\* It fails, which nobody notices, or the process dies.
StoreFails(r) ==
    /\ r \in storing
    /\ storing' = storing \ {r}
    /\ UNCHANGED <<record, serving, answer>>

RecordExpires(k) ==
    /\ record[k] # NoRecord
    /\ record' = [record EXCEPT ![k] = NoRecord]
    /\ UNCHANGED <<serving, storing, answer>>
-----------------------------------------------------------------------------
Next ==
    \/ \E r \in Requests :
          \/ Replay(r) \/ PassOn(r) \/ Answer(r) \/ Refuse(r)
          \/ Store(r) \/ StoreFails(r)
    \/ \E k \in Keys : RecordExpires(k)

Spec == Init /\ [][Next]_idemVars
-----------------------------------------------------------------------------
(* Properties *)

TypeOK ==
    /\ record \in [Keys -> {Record(r) : r \in Requests} \cup {NoRecord}]
    /\ serving \in [Requests -> {"new", "checked", "answered", "refused", "replayed"}]
    /\ storing \subseteq Requests
    /\ answer \in [Requests -> Requests]

\* Although the key is shared by all users and paths, the body that is looked up is
\* not the one that was stored, and the answers of two requests that passed the
\* check together are stored in any order: what is replayed to a client is the
\* success of a request of the same user, for the same path, and of a body that
\* asked the handler for the same.  (Not true: that the handler runs once per key,
\* or that an identical repeat is recognised.)
ReplaysOwnSuccess ==
    \A r \in Requests : serving[r] = "replayed" =>
        LET f == answer[r]
        IN  serving[f] = "answered" /\ Whose[f] = Whose[r] /\ Validated(f) = Validated(r)
=============================================================================
