------------------------------ MODULE Accounts ------------------------------
(***************************************************************************)
(* The life of one user's account: the PIN, which auth-service keeps, the  *)
(* status of the wallet, which pin.service, kyc.service and                *)
(* account.service all write, the one-time codes that reset a PIN and      *)
(* delete an account, and the pause between PIN changes.  Requests run     *)
(* concurrently over READ COMMITTED; a transaction that has updated the    *)
(* user's row keeps others from updating it until it ends.                 *)
(***************************************************************************)
EXTENDS Naturals

CONSTANTS
    Callers, \* requests in progress
    Nobody   \* no request

AccountsAssumption == Nobody \notin Callers

VARIABLES
    hasPin,   \* users.hashed_pin is not null
    wallet,   \* wallets.status and is_frozen
    kyc,      \* the user has a KYC profile; they are approved when submitted
    active,   \* users.is_active
    codes,    \* the one-time codes in Redis: for what they may be used
    paused,   \* PIN_CHANGE_COOLDOWN exists
    userRow,  \* the request whose transaction has updated the user's row, or Nobody
    op        \* op[q]: what request q does and awaits, see Idle

accountVars == <<hasPin, wallet, kyc, active, codes, paused, userRow, op>>
-----------------------------------------------------------------------------
WalletStatus == {"PENDING_PIN", "PENDING_KYC", "ACTIVE", "CLOSED"}
Uses == {"PIN_RESET", "ACCOUNT_DELETE"}
Kinds == {"set", "reset", "remove", "delete"}

\* "seen" is the wallet status the transaction has read.
Idle == [at |-> "idle", for |-> "none", seen |-> "PENDING_PIN"]

\* The account as verifyEmailAndCreateUser leaves it.
Init ==
    /\ hasPin = FALSE /\ kyc = FALSE /\ active = TRUE
    /\ wallet = [status |-> "PENDING_PIN", frozen |-> TRUE]
    /\ codes = {} /\ paused = FALSE /\ userRow = Nobody
    /\ op = [q \in Callers |-> Idle]

Moves(q, from, to) == op[q].at = from /\ op' = [op EXCEPT ![q].at = to]
Starts(q, at, for) ==
    /\ op[q] = Idle
    /\ op' = [op EXCEPT ![q] = [at |-> at, for |-> for, seen |-> Idle.seen]]
Ends(q, from) == op[q].at = from /\ op' = [op EXCEPT ![q] = Idle]

users == <<hasPin, active>>
rows == <<users, wallet, kyc>>
-----------------------------------------------------------------------------
\* requestForgotPinOtp, requestDeleteAccountOtp.  The limits are Otp's; whether
\* the balance is zero, without which there is no deletion, is left open.
RequestCode(q, use) ==
    /\ \/ use = "PIN_RESET" /\ hasPin
       \/ use = "ACCOUNT_DELETE" /\ active
    /\ Starts(q, "code", use)
    /\ UNCHANGED <<rows, codes, paused, userRow>>

\* resendForgotPinOtp, resendDeleteAccountOtp
ResendCode(q, use) ==
    /\ use \in codes
    /\ use = "ACCOUNT_DELETE" => active
    /\ Starts(q, "code", use)
    /\ UNCHANGED <<rows, codes, paused, userRow>>

\* The code is stored, whatever was used, dropped or deleted in the meantime.
StoreCode(q) ==
    /\ Ends(q, "code")
    /\ codes' = codes \cup {op[q].for}
    /\ UNCHANGED <<rows, paused, userRow>>

\* It expires, or is dropped after too many wrong guesses.
CodeGoes(use) ==
    /\ use \in codes
    /\ codes' = codes \ {use}
    /\ UNCHANGED <<rows, paused, userRow, op>>
-----------------------------------------------------------------------------
\* setWalletPin, resetPinWithOtp, removeWalletPin and deleteAccountWithOtp up to
\* their transactions.
SetPin(q) ==
    /\ ~hasPin
    /\ Starts(q, "update", "set")
    /\ UNCHANGED <<rows, codes, paused, userRow>>

ResetPin(q) ==
    /\ "PIN_RESET" \in codes
    /\ Starts(q, "update", "reset")
    /\ UNCHANGED <<rows, codes, paused, userRow>>

RemovePin(q) ==
    /\ hasPin
    /\ Starts(q, "update", "remove")
    /\ UNCHANGED <<rows, codes, paused, userRow>>

\* The transaction finds the user active before it updates the row.
DeleteAccount(q) ==
    /\ "ACCOUNT_DELETE" \in codes /\ active
    /\ Starts(q, "update", "delete")
    /\ UNCHANGED <<rows, codes, paused, userRow>>

\* The transaction updates the user's row first, or waits until it may.
UpdateUser(q) ==
    /\ userRow = Nobody
    /\ userRow' = q
    /\ Moves(q, "update", "wallet")
    /\ UNCHANGED <<rows, codes, paused>>

\* It reads the wallet, as it is committed by now.
ReadWallet(q) ==
    /\ op[q].at = "wallet"
    /\ op' = [op EXCEPT ![q].at = "commit", ![q].seen = wallet.status]
    /\ UNCHANGED <<rows, codes, paused, userRow>>

\* Mutant: the wallet keeps its status when the PIN goes.
StatusKept(q) ==
    IF op[q].for \in {"set", "reset"} /\ op[q].seen = "PENDING_PIN"
    THEN "PENDING_KYC" ELSE wallet.status

\* The status a transaction writes, if it does: that which it read decides.
StatusAfter(q) ==
    CASE op[q].for \in {"set", "reset"} /\ op[q].seen = "PENDING_PIN" -> "PENDING_KYC"
      [] op[q].for \in {"set", "reset"} /\ op[q].seen # "PENDING_PIN" -> wallet.status
      [] op[q].for = "remove" -> "PENDING_PIN"
      [] op[q].for = "delete" -> "CLOSED"

\* Every transaction ends with the update of the wallet.
CommitAccount(q) ==
    /\ op[q].at = "commit"
    /\ hasPin' = (op[q].for \in {"set", "reset"} \/ (op[q].for = "delete" /\ hasPin))
    /\ active' = (active /\ op[q].for # "delete")
    /\ wallet' = [status |-> StatusAfter(q), frozen |-> wallet.frozen \/ op[q].for = "delete"]
    /\ userRow' = Nobody
    /\ op' = [op EXCEPT ![q] = IF op[q].for \in {"set", "remove"} THEN Idle
                               ELSE [@ EXCEPT !.at = "cleanup"]]
    /\ UNCHANGED <<kyc, codes, paused>>

\* The transaction throws, as it does when an account with money is to be
\* deleted, or the process dies and PostgreSQL rolls it back.
AbortAccount(q) ==
    /\ op[q].at \in {"update", "wallet", "commit"}
    /\ Ends(q, op[q].at)
    /\ userRow' = IF userRow = q THEN Nobody ELSE userRow
    /\ UNCHANGED <<rows, codes, paused>>

\* The code has served.
Cleanup(q) ==
    /\ Ends(q, "cleanup")
    /\ codes' = codes \ {IF op[q].for = "reset" THEN "PIN_RESET" ELSE "ACCOUNT_DELETE"}
    /\ UNCHANGED <<rows, paused, userRow>>
-----------------------------------------------------------------------------
\* changeWalletPin
ChangePin(q) ==
    /\ hasPin /\ ~paused
    /\ Starts(q, "change", "change")
    /\ UNCHANGED <<rows, codes, paused, userRow>>

\* One statement, which does not look whether the PIN is still there.
WritePin(q) ==
    /\ userRow = Nobody
    /\ Moves(q, "change", "pause")
    /\ hasPin' = TRUE
    /\ UNCHANGED <<active, wallet, kyc, codes, paused, userRow>>

PauseChanges(q) ==
    /\ Ends(q, "pause")
    /\ paused' = TRUE
    /\ UNCHANGED <<rows, codes, userRow>>

PauseEnds ==
    /\ paused
    /\ paused' = FALSE
    /\ UNCHANGED <<rows, codes, userRow, op>>

\* A request ends early: Redis does not answer, or the process dies.
RequestStops(q) ==
    /\ op[q].at \in {"code", "cleanup", "change", "pause"}
    /\ Ends(q, op[q].at)
    /\ UNCHANGED <<rows, codes, paused, userRow>>
-----------------------------------------------------------------------------
\* submitKyc: the profile is unique to the user, the status is not looked at.
SubmitKyc ==
    /\ ~kyc
    /\ kyc' = TRUE
    /\ wallet' = [status |-> "ACTIVE", frozen |-> FALSE]
    /\ UNCHANGED <<users, codes, paused, userRow, op>>
-----------------------------------------------------------------------------
PinStep(q) ==
    \/ SetPin(q) \/ ResetPin(q) \/ RemovePin(q) \/ DeleteAccount(q)
    \/ UpdateUser(q) \/ ReadWallet(q) \/ CommitAccount(q) \/ AbortAccount(q) \/ Cleanup(q)
    \/ ChangePin(q) \/ WritePin(q) \/ PauseChanges(q)
    \/ StoreCode(q) \/ RequestStops(q)

Next ==
    \/ \E q \in Callers : PinStep(q)
    \/ \E q \in Callers, use \in Uses : RequestCode(q, use) \/ ResendCode(q, use)
    \/ \E use \in Uses : CodeGoes(use)
    \/ PauseEnds \/ SubmitKyc

Spec == Init /\ [][Next]_accountVars
-----------------------------------------------------------------------------
(* Properties *)

Steps == {"idle", "code", "update", "wallet", "commit", "cleanup", "change", "pause"}

TypeOK ==
    /\ {hasPin, kyc, active, paused} \subseteq BOOLEAN
    /\ wallet \in [status : WalletStatus, frozen : BOOLEAN]
    /\ codes \subseteq Uses
    /\ userRow \in Callers \cup {Nobody}
    /\ op \in [Callers -> [at : Steps, for : Kinds \cup Uses \cup {"change", "none"},
                           seen : WalletStatus]]
    /\ \A q \in Callers : op[q].at \in {"wallet", "commit"} <=> userRow = q

\* A wallet that waits for KYC has a PIN: of the transactions that set, reset and
\* remove it and of a KYC approval none undoes half of what another did.
PendingKycHasPin == wallet.status = "PENDING_KYC" => hasPin
=============================================================================
