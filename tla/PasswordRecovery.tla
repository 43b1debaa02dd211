-------------------------- MODULE PasswordRecovery --------------------------
(***************************************************************************)
(* The recovery of one user's password: password_request keeps a challenge *)
(* in Redis under the user's key and mails its code; password_confirm      *)
(* reads the challenge, writes it back with one attempt more and its ten   *)
(* minutes begun anew, compares the code, changes the password and deletes *)
(* the key.  Each of those is a call of its own, and the key is neither    *)
(* locked nor compared when it is written.                                 *)
(*                                                                         *)
(* Codes are numbered in the order they are requested; 0 is a wrong code.  *)
(***************************************************************************)
EXTENDS Integers, Functions

CONSTANTS
    Request,      \* requests the API serves at the same time
    Attempts,     \* 5
    Life,         \* 600 s
    Overlapping,  \* do requests overlap?
    MaxTime,      \* bound: the clock
    MaxCodes,     \* bound: codes requested
    MaxGuesses,   \* bound: codes compared
    MaxFailures   \* bound: processes that die, mails that are not sent and
                  \* changes of a password that are refused

VARIABLES
    now,
    challenge,  \* Redis: password:reset:<tenant>:<email>
    request,    \* each request: the user's code, and the challenge it has read
    born,       \* when each code was requested (history)
    mailed,     \* the codes the user has
    compared,   \* how often a code has been compared with each (history)
    used,       \* when each code has changed the password, how often (history)
    failures

vars == <<now, challenge, request, born, mailed, compared, used, failures>>

Code == 1..MaxCodes
None == [code |-> 0, attempts |-> 0, until |-> 0]
IdleRequest == [pc |-> "idle", code |-> 0, read |-> None]

TypeOK ==
    LET Challenge == [code: {0} \cup Code, attempts: 0..(Attempts + 1), until: Nat] IN
    /\ now \in 0..MaxTime
    /\ challenge \in Challenge
    /\ request \in [Request -> [pc: {"idle", "mail", "write", "drop", "change", "delete"},
                                code: {0} \cup Code, read: Challenge]]
    /\ born \in [Code -> {-1} \cup 0..MaxTime] /\ mailed \subseteq Code
    /\ compared \in [Code -> Nat]
    /\ used \in [Code -> [times: Nat, last: 0..MaxTime]]
    /\ failures \in Nat

Init ==
    /\ now = 0 /\ challenge = None
    /\ request = [r \in Request |-> IdleRequest]
    /\ born = [k \in Code |-> -1] /\ mailed = {}
    /\ compared = [k \in Code |-> 0]
    /\ used = [k \in Code |-> [times |-> 0, last |-> 0]]
    /\ failures = 0

-----------------------------------------------------------------------------
\* Redis: what GET answers, and SETEX.
Kept == IF challenge.until > now THEN challenge ELSE None
For(k, attempts) == [code |-> k, attempts |-> attempts, until |-> now + Life]

Ready(r) ==
    /\ request[r].pc = "idle"
    /\ Overlapping \/ \A o \in Request : request[o].pc = "idle"

Goes(r, pc) == request' = [request EXCEPT ![r].pc = pc]
Ends(r) == request' = [request EXCEPT ![r] = IdleRequest]
Fails == failures < MaxFailures /\ failures' = failures + 1

\* Mutant of Ask: a challenge that is still kept is not replaced.
AskOnce(r) ==
    \E k \in Code :
        /\ Ready(r) /\ born[k] = -1 /\ \A j \in Code : j < k => born[j] # -1
        /\ born' = [born EXCEPT ![k] = now]
        /\ challenge' = IF Kept = None THEN For(k, 0) ELSE challenge
        /\ request' = [request EXCEPT ![r] = [pc |-> "mail", code |-> k, read |-> None]]
        /\ UNCHANGED <<now, mailed, compared, used, failures>>

\* password_request, for a user that is active: a new code replaces the last.
Ask(r) ==
    \E k \in Code :
        /\ Ready(r) /\ born[k] = -1 /\ \A j \in Code : j < k => born[j] # -1
        /\ born' = [born EXCEPT ![k] = now]
        /\ challenge' = For(k, 0)
        /\ request' = [request EXCEPT ![r] = [pc |-> "mail", code |-> k, read |-> None]]
        /\ UNCHANGED <<now, mailed, compared, used, failures>>

\* send_recovery_email.
Mail(r) ==
    /\ request[r].pc = "mail"
    /\ mailed' = mailed \cup {request[r].code}
    /\ Ends(r)
    /\ UNCHANGED <<now, challenge, born, compared, used, failures>>

\* Mutant of Confirm: the limit compares the attempts there were before.
ConfirmOnceMore(r, k) ==
    /\ Ready(r) /\ Kept # None
    /\ request' = [request EXCEPT ![r] =
           [pc |-> IF Kept.attempts > Attempts THEN "drop" ELSE "write", code |-> k,
            read |-> [Kept EXCEPT !.attempts = @ + 1]]]
    /\ UNCHANGED <<now, challenge, born, mailed, compared, used, failures>>

\* password_confirm: without a challenge the answer is 400, and so it is after
\* five attempts, which forget it.
Confirm(r, k) ==
    /\ Ready(r) /\ Kept # None
    /\ LET read == [Kept EXCEPT !.attempts = @ + 1] IN
       request' = [request EXCEPT ![r] =
           [pc |-> IF read.attempts > Attempts THEN "drop" ELSE "write", code |-> k, read |-> read]]
    /\ UNCHANGED <<now, challenge, born, mailed, compared, used, failures>>

\* Mutant of Write: the attempt is not counted.
WriteSame(r) ==
    LET read == request[r].read IN
    /\ request[r].pc = "write" /\ FoldFunction(+, 0, compared) < MaxGuesses
    /\ challenge' = For(read.code, read.attempts - 1)
    /\ compared' = [compared EXCEPT ![read.code] = @ + 1]
    /\ IF request[r].code = read.code THEN Goes(r, "change") ELSE Ends(r)
    /\ UNCHANGED <<now, born, mailed, used, failures>>

\* The attempt is written and the code compared.
Write(r) ==
    LET read == request[r].read IN
    /\ request[r].pc = "write" /\ FoldFunction(+, 0, compared) < MaxGuesses
    /\ challenge' = For(read.code, read.attempts)
    /\ compared' = [compared EXCEPT ![read.code] = @ + 1]
    /\ IF request[r].code = read.code THEN Goes(r, "change") ELSE Ends(r)
    /\ UNCHANGED <<now, born, mailed, used, failures>>

\* reset_password.
Change(r) ==
    /\ request[r].pc = "change"
    /\ used' = [used EXCEPT ![request[r].code] = [times |-> @.times + 1, last |-> now]]
    /\ Goes(r, "delete")
    /\ UNCHANGED <<now, challenge, born, mailed, compared, failures>>

\* Mutant of Delete: the request ends with the change of the password.
DeleteNothing(r) ==
    /\ request[r].pc \in {"delete", "drop"}
    /\ Ends(r)
    /\ UNCHANGED <<now, challenge, born, mailed, compared, used, failures>>

Delete(r) ==
    /\ request[r].pc \in {"delete", "drop"}
    /\ challenge' = None
    /\ Ends(r)
    /\ UNCHANGED <<now, born, mailed, compared, used, failures>>

\* The mail cannot be sent, the user is not active any more, or the process
\* dies before the password is changed.
Fail(r) ==
    /\ request[r].pc \in {"mail", "write", "change"} /\ Fails
    /\ Ends(r)
    /\ UNCHANGED <<now, challenge, born, mailed, compared, used>>

\* The grain of the clock is minutes, and a request is over within it.
Tick ==
    /\ \A r \in Request : request[r].pc = "idle"
    /\ now < MaxTime /\ now' = now + 1
    /\ UNCHANGED <<challenge, request, born, mailed, compared, used, failures>>

Next ==
    \/ \E r \in Request :
          \/ Ask(r) \/ Mail(r) \/ Write(r) \/ Change(r) \/ Delete(r) \/ Fail(r)
          \/ \E k \in {0} \cup mailed : Confirm(r, k)
    \/ Tick

Spec == Init /\ [][Next]_vars

-----------------------------------------------------------------------------
\* api/auth_flows.py:218, "solo puede utilizarse una vez": a code changes the
\* password once.
CodeUsedOnce == \A k \in Code : used[k].times <= 1

\* api/auth_flows.py:218, "Caduca en 10 minutos": and not later than that.
CodeExpires == \A k \in Code : used[k].times > 0 => used[k].last < born[k] + Life

\* Not more than five codes are compared with a challenge (password_confirm).
GuessesBounded == \A k \in Code : compared[k] <= Attempts

\* The attempts, each of which gives a code its ten minutes again, do not keep
\* it for ever: an hour after it was requested it is of no use.
CodeDies ==
    \A k \in Code : used[k].times > 0 => used[k].last < born[k] + (Attempts + 1) * Life

\* The code that works is the one requested last, so that the last mail a user
\* receives is never about a code the API has forgotten for an older one.
LatestCodeWorks ==
    (Kept # None) => \A k \in Code : born[k] # -1 => k <= Kept.code
=============================================================================
