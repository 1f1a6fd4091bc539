-------------------------------- MODULE Otp ---------------------------------
(***************************************************************************)
(* One-time codes by e-mail, and the counters and locks in Redis that      *)
(* limit how often one address may ask for a code and guess it: otp.ts as  *)
(* the login service uses it (registration, PIN, password and account      *)
(* deletion differ only in what the right code unlocks).  Requests run     *)
(* concurrently, each awaited Redis call is a step, and each key expires   *)
(* on its own.                                                             *)
(***************************************************************************)
EXTENDS Integers

CONSTANTS
    Requesters,  \* loginUser from an unknown device, and resendLoginOtp
    Guessers,    \* verifyLoginOtp
    MaxRequests, \* OTP_MAX_REQUESTS: 2
    MaxAttempts  \* OTP_MAX_ATTEMPTS: 5

OtpAssumption == {MaxRequests, MaxAttempts} \subseteq Nat \ {0}

VARIABLES
    requests, requestsTtl,   \* OTP_REQUESTS_COUNT, and whether it has an expiry
    attempts, attemptsTtl,   \* OTP_FAILED_ATTEMPTS, likewise
    locked, spamLocked, cooldown, \* whether the three keys exist
    code,      \* whether OTP_LOGIN holds a code
    asking,    \* asking[r]: what requester r awaits next, or "idle"
    guessing   \* guessing[g]: likewise for a guesser

limits == <<requests, requestsTtl, attempts, attemptsTtl, locked, spamLocked, cooldown>>
otpVars == <<limits, code, asking, guessing>>
-----------------------------------------------------------------------------
Init ==
    /\ requests = 0 /\ requestsTtl = FALSE
    /\ attempts = 0 /\ attemptsTtl = FALSE
    /\ locked = FALSE /\ spamLocked = FALSE /\ cooldown = FALSE
    /\ code = FALSE
    /\ asking = [r \in Requesters |-> "idle"]
    /\ guessing = [g \in Guessers |-> "idle"]

Asks(r, from, to) == asking[r] = from /\ asking' = [asking EXCEPT ![r] = to]

Guesses(g, from, to) == guessing[g] = from /\ guessing' = [guessing EXCEPT ![g] = to]
-----------------------------------------------------------------------------
\* enforceOtpRequestRestrictions lets the request pass.
AskForCode(r) ==
    /\ ~locked /\ ~spamLocked /\ ~cooldown
    /\ Asks(r, "idle", "count")
    /\ UNCHANGED <<limits, code, guessing>>

\* trackOtpRequest: INCR
CountRequest(r) ==
    /\ Asks(r, "count", IF requests = 0 THEN "expire"
                        ELSE IF requests + 1 > MaxRequests THEN "spam" ELSE "cool")
    /\ requests' = requests + 1
    /\ UNCHANGED <<requestsTtl, attempts, attemptsTtl, locked, spamLocked, cooldown>>
    /\ UNCHANGED <<code, guessing>>

\* EXPIRE, by the one that counted 1; the key may be gone by then.
ExpireRequests(r) ==
    /\ Asks(r, "expire", IF 1 > MaxRequests THEN "spam" ELSE "cool")
    /\ requestsTtl' = (requests > 0)
    /\ UNCHANGED <<requests, attempts, attemptsTtl, locked, spamLocked, cooldown>>
    /\ UNCHANGED <<code, guessing>>

\* The request is refused.
LockSpam(r) ==
    /\ Asks(r, "spam", "idle")
    /\ spamLocked' = TRUE
    /\ UNCHANGED <<requests, requestsTtl, attempts, attemptsTtl, locked, cooldown>>
    /\ UNCHANGED <<code, guessing>>

CoolDown(r) ==
    /\ Asks(r, "cool", "store")
    /\ cooldown' = TRUE
    /\ UNCHANGED <<requests, requestsTtl, attempts, attemptsTtl, locked, spamLocked>>
    /\ UNCHANGED <<code, guessing>>

\* A new code replaces the old one, and is e-mailed.
StoreCode(r) ==
    /\ Asks(r, "store", "idle")
    /\ code' = TRUE
    /\ UNCHANGED <<limits, guessing>>

\* resendLoginOtp finds no code to replace, or publishing throws.
RequestFails(r) ==
    /\ Asks(r, "store", "idle")
    /\ UNCHANGED <<limits, code, guessing>>
-----------------------------------------------------------------------------
\* verifyLoginOtp: only the lock after wrong guesses is looked at.
Guess(g) ==
    /\ ~locked
    /\ Guesses(g, "idle", "read")
    /\ UNCHANGED <<limits, code, asking>>

ReadCode(g) ==
    /\ Guesses(g, "read", IF code THEN "compare" ELSE "idle")
    /\ UNCHANGED <<limits, code, asking>>

WrongGuess(g) ==
    /\ Guesses(g, "compare", "count")
    /\ UNCHANGED <<limits, code, asking>>

\* Mutant: the first wrong guess is not the one that sets the expiry.
CountLate(g) ==
    /\ Guesses(g, "count", IF attempts = 1 THEN "expire"
                           ELSE IF attempts + 1 >= MaxAttempts THEN "lock" ELSE "idle")
    /\ attempts' = attempts + 1
    /\ UNCHANGED <<requests, requestsTtl, attemptsTtl, locked, spamLocked, cooldown>>
    /\ UNCHANGED <<code, asking>>

\* trackOtpFailure: INCR
CountFailure(g) ==
    /\ Guesses(g, "count", IF attempts = 0 THEN "expire"
                           ELSE IF attempts + 1 >= MaxAttempts THEN "lock" ELSE "idle")
    /\ attempts' = attempts + 1
    /\ UNCHANGED <<requests, requestsTtl, attemptsTtl, locked, spamLocked, cooldown>>
    /\ UNCHANGED <<code, asking>>

ExpireAttempts(g) ==
    /\ Guesses(g, "expire", IF 1 >= MaxAttempts THEN "lock" ELSE "idle")
    /\ attemptsTtl' = (attempts > 0)
    /\ UNCHANGED <<requests, requestsTtl, attempts, locked, spamLocked, cooldown>>
    /\ UNCHANGED <<code, asking>>

LockOut(g) ==
    /\ Guesses(g, "lock", "drop")
    /\ locked' = TRUE
    /\ UNCHANGED <<requests, requestsTtl, attempts, attemptsTtl, spamLocked, cooldown>>
    /\ UNCHANGED <<code, asking>>

\* The code is deleted, whichever it is by now.
DropCode(g) ==
    /\ Guesses(g, "drop", "idle")
    /\ code' = FALSE
    /\ UNCHANGED <<limits, asking>>

RightGuess(g) ==
    /\ Guesses(g, "compare", "clear")
    /\ code' = FALSE
    /\ UNCHANGED <<limits, asking>>

\* Mutant: the counter of wrong guesses is kept, the lock is not.
ClearKeepingAttempts(g) ==
    /\ Guesses(g, "clear", "idle")
    /\ requests' = 0 /\ requestsTtl' = FALSE
    /\ locked' = FALSE /\ spamLocked' = FALSE /\ cooldown' = FALSE
    /\ UNCHANGED <<attempts, attemptsTtl, code, asking>>

\* clearOtpTracking: one DEL for all five keys.  The caller goes on to log in.
ClearTracking(g) ==
    /\ Guesses(g, "clear", "idle")
    /\ requests' = 0 /\ requestsTtl' = FALSE
    /\ attempts' = 0 /\ attemptsTtl' = FALSE
    /\ locked' = FALSE /\ spamLocked' = FALSE /\ cooldown' = FALSE
    /\ UNCHANGED <<code, asking>>
-----------------------------------------------------------------------------
RequestsExpire ==
    /\ requestsTtl
    /\ requests' = 0 /\ requestsTtl' = FALSE
    /\ UNCHANGED <<attempts, attemptsTtl, locked, spamLocked, cooldown>>
    /\ UNCHANGED <<code, asking, guessing>>

AttemptsExpire ==
    /\ attemptsTtl
    /\ attempts' = 0 /\ attemptsTtl' = FALSE
    /\ UNCHANGED <<requests, requestsTtl, locked, spamLocked, cooldown>>
    /\ UNCHANGED <<code, asking, guessing>>

\* A lock lasts 30 min from when it was last set, the window of wrong guesses
\* 10 min from the first: the window that led to the lock ends before it.
LockExpires ==
    /\ locked /\ attempts < MaxAttempts
    /\ locked' = FALSE
    /\ UNCHANGED <<requests, requestsTtl, attempts, attemptsTtl, spamLocked, cooldown>>
    /\ UNCHANGED <<code, asking, guessing>>

\* Likewise.
SpamLockExpires ==
    /\ spamLocked /\ requests <= MaxRequests
    /\ spamLocked' = FALSE
    /\ UNCHANGED <<requests, requestsTtl, attempts, attemptsTtl, locked, cooldown>>
    /\ UNCHANGED <<code, asking, guessing>>

CooldownExpires ==
    /\ cooldown
    /\ cooldown' = FALSE
    /\ UNCHANGED <<requests, requestsTtl, attempts, attemptsTtl, locked, spamLocked>>
    /\ UNCHANGED <<code, asking, guessing>>

CodeExpires ==
    /\ code
    /\ code' = FALSE
    /\ UNCHANGED <<limits, asking, guessing>>
-----------------------------------------------------------------------------
AskStep(r) ==
    \/ CountRequest(r) \/ ExpireRequests(r) \/ LockSpam(r)
    \/ CoolDown(r) \/ StoreCode(r) \/ RequestFails(r)

GuessStep(g) ==
    \/ ReadCode(g) \/ WrongGuess(g) \/ CountFailure(g) \/ ExpireAttempts(g)
    \/ LockOut(g) \/ DropCode(g) \/ RightGuess(g) \/ ClearTracking(g)

Next ==
    \/ \E r \in Requesters : AskForCode(r) \/ AskStep(r)
    \/ \E g \in Guessers : Guess(g) \/ GuessStep(g)
    \/ RequestsExpire \/ AttemptsExpire \/ LockExpires
    \/ SpamLockExpires \/ CooldownExpires \/ CodeExpires

Spec == Init /\ [][Next]_otpVars

\* Redis answers, so that every request goes on, and keys expire.  Nobody has to
\* ask or guess.
FairSpec ==
    /\ Spec
    /\ \A r \in Requesters : WF_otpVars(AskStep(r))
    /\ \A g \in Guessers : WF_otpVars(GuessStep(g))
    /\ WF_otpVars(RequestsExpire) /\ WF_otpVars(AttemptsExpire)
    /\ WF_otpVars(LockExpires) /\ WF_otpVars(SpamLockExpires)
-----------------------------------------------------------------------------
(* Properties *)

FlagsOK == {requestsTtl, attemptsTtl, locked, spamLocked, cooldown, code} \subseteq BOOLEAN

TypeOK ==
    /\ {requests, attempts} \subseteq Nat
    /\ FlagsOK
    /\ asking \in [Requesters -> {"idle", "count", "expire", "spam", "cool", "store"}]
    /\ guessing \in [Guessers -> {"idle", "read", "compare", "count", "expire",
                                  "lock", "drop", "clear"}]

\* However requests interleave with the expiry of keys and with a right guess
\* that clears them: while the counter of wrong guesses is at its limit, the
\* address is locked, or the guess that reached the limit is about to lock it.
LockHolds ==
    attempts >= MaxAttempts =>
        locked \/ \E g \in Guessers : guessing[g] \in {"lock", "expire"}

\* No counter is left without an expiry but by the request that is about to set
\* it, so that no address is locked out for good: both counters start anew again
\* and again, and so do the locks that hang on them.
LimitsLift ==
    []<>(requests = 0) /\ []<>(attempts = 0) /\ []<>(~locked) /\ []<>(~spamLocked)
=============================================================================
