--------------------------- MODULE ProviderRequests ---------------------------
(***************************************************************************)
(* The calls to the Gmail API and to Microsoft Graph (GmailClient._request *)
(* and MicrosoftGraphClient.request), made at the same time by processes   *)
(* that work for one account: up to four attempts, with the waits the      *)
(* provider asks for, and one new access token, which the account's token  *)
(* manager gives.  Time is counted from now: a tick brings every deadline  *)
(* nearer.                                                                 *)
(***************************************************************************)
EXTENDS Integers, FiniteSetsExt

CONSTANTS
    Client,      \* processes
    MaxAttempts, \* 4
    MaxDelay,    \* 30 s
    MaxRevoked,  \* bound: access tokens the provider stops accepting
    MaxCalls     \* bound: calls of each client

VARIABLES
    provider,  \* "gmail" or "graph"
    call,      \* each client's call
    stored,    \* the account's access token, as a number
    accepted,  \* the provider accepts this token and those after it
    refreshes  \* tokens the token service has given (history)

vars == <<provider, call, stored, accepted, refreshes>>

None == -1
Deadline == {None} \cup 0..(MaxDelay + 1)
Outcome == {"none", "ok", "refused", "unauthorized", "transient", "reauth"}
\* retryAt: what a transient error carries.  deadline: how long the provider does not
\* want to be asked, asked: how many requests were sent, first: the token the call
\* began with (history).
NoCall == [pc |-> "idle", attempt |-> 0, refreshed |-> FALSE, token |-> 0, wait |-> 0,
           retryAt |-> None, outcome |-> "none", deadline |-> 0, asked |-> 0,
           first |-> 0, calls |-> 0]

TypeOK ==
    /\ provider \in {"gmail", "graph"}
    /\ call \in [Client -> [pc: {"idle", "send", "refresh"}, attempt: 0..(MaxAttempts - 1),
                            refreshed: BOOLEAN, token: 0..MaxRevoked, wait: 0..MaxDelay,
                            retryAt: Deadline, outcome: Outcome, deadline: 0..(MaxDelay + 1),
                            asked: Nat, first: 0..MaxRevoked, calls: 0..MaxCalls]]
    /\ stored \in 0..MaxRevoked /\ accepted \in 0..MaxRevoked
    /\ refreshes \in Nat

Init ==
    /\ provider \in {"gmail", "graph"}
    /\ call = [c \in Client |-> NoCall]
    /\ stored = 0 /\ accepted = 0 /\ refreshes = 0

-----------------------------------------------------------------------------
\* provider_client: a client takes the account's token, as another has left it.
Begin(c) ==
    /\ call[c].pc = "idle" /\ call[c].calls < MaxCalls
    /\ call' = [call EXCEPT ![c] = [NoCall EXCEPT
                   !.pc = "send", !.token = stored, !.first = stored,
                   !.calls = call[c].calls + 1]]
    /\ UNCHANGED <<provider, stored, accepted, refreshes>>

Sends(c) == call[c].pc = "send" /\ call[c].wait = 0
Asks(c) == [call EXCEPT ![c].asked = @ + 1]

Ok(c) ==
    /\ Sends(c) /\ call[c].token >= accepted
    /\ call' = [Asks(c) EXCEPT ![c].pc = "idle", ![c].outcome = "ok"]
    /\ UNCHANGED <<provider, stored, accepted, refreshes>>

\* 400, 403, 404, 410, ... or an answer of more than 30 MiB (bounded_request).
Refused(c) ==
    /\ Sends(c)
    /\ call' = [Asks(c) EXCEPT ![c].pc = "idle", ![c].outcome = "refused"]
    /\ UNCHANGED <<provider, stored, accepted, refreshes>>

\* Mutant of MayRefresh: a token is refreshed each time it is not accepted.
MayRefreshAgain(c) == TRUE

MayRefresh(c) == ~call[c].refreshed

\* 401: the first of a call is answered with another token, at once.
Unauthorized(c) ==
    /\ Sends(c) /\ call[c].token < accepted
    /\ call' = IF MayRefresh(c)
               THEN [Asks(c) EXCEPT ![c].pc = "refresh"]
               ELSE [Asks(c) EXCEPT ![c].pc = "idle", ![c].outcome = "unauthorized"]
    /\ UNCHANGED <<provider, stored, accepted, refreshes>>

\* Mutant of GmailRetryAt: the header alone.
GmailRetryAtHeader(header, body) == header

\* The later of Retry-After and of the time in Gmail's message.
GmailRetryAt(header, body) == Max({header, body})

\* Retry-After.
MicrosoftRetryAt(header) == header

\* _retry_delay: a wait the provider has asked for, or a random one; Gmail's is never
\* shorter than either.
Delays(attempt, retryAt) ==
    LET jitter == {d \in 0..MaxDelay : d <= 2^attempt} IN
    IF retryAt = None THEN jitter
    ELSE IF provider = "gmail" THEN {Max({j, retryAt}) : j \in jitter} ELSE {retryAt}

\* Mutant of Retry: the last attempt's error has no deadline.
RetryForgets(c, retryAt, told) ==
    LET n == call[c].attempt + 1
        failed == [call EXCEPT ![c].asked = @ + 1, ![c].deadline = told] IN
    IF n = MaxAttempts \/ retryAt > MaxDelay
    THEN call' = [failed EXCEPT ![c].pc = "idle", ![c].outcome = "transient"]
    ELSE \E d \in Delays(call[c].attempt, retryAt) :
            call' = [failed EXCEPT ![c].attempt = n, ![c].wait = d]

\* Mutant of Retry: a request without an answer is no attempt.
RetryUncounted(c, retryAt, told) ==
    IF retryAt > MaxDelay
    THEN call' = [call EXCEPT ![c].pc = "idle", ![c].outcome = "transient"]
    ELSE \E d \in Delays(call[c].attempt, retryAt) :
            call' = [call EXCEPT ![c].deadline = told, ![c].wait = d]

\* An attempt has failed; the fourth is the last, and nobody waits for long.
Retry(c, retryAt, told) ==
    LET n == call[c].attempt + 1
        failed == [call EXCEPT ![c].asked = @ + 1, ![c].deadline = told] IN
    IF n = MaxAttempts \/ retryAt > MaxDelay
    THEN call' = [failed EXCEPT ![c].pc = "idle", ![c].outcome = "transient",
                                ![c].retryAt = retryAt]
    ELSE \E d \in Delays(call[c].attempt, retryAt) :
            call' = [failed EXCEPT ![c].attempt = n, ![c].wait = d]

\* Gmail: 429, 5xx or a 403 that is a rate limit, with or without a time to come back.
GmailUnavailable(c, header, body) ==
    /\ provider = "gmail" /\ Sends(c)
    /\ Retry(c, GmailRetryAt(header, body), Max({0, header, body}))
    /\ UNCHANGED <<provider, stored, accepted, refreshes>>

\* Graph: 429 or 5xx.
GraphUnavailable(c, header) ==
    /\ provider = "graph" /\ Sends(c)
    /\ Retry(c, MicrosoftRetryAt(header), Max({0, header}))
    /\ UNCHANGED <<provider, stored, accepted, refreshes>>

\* No answer: the error carries no deadline.
NetworkFails(c) ==
    /\ Sends(c) /\ Retry(c, None, 0)
    /\ UNCHANGED <<provider, stored, accepted, refreshes>>

\* Mutant of Manager: the token that was not accepted is not told to the manager.
ManagerUntold(rejected) == stored

\* Mutant of Manager: each request refreshes.
ManagerAlways(rejected) == stored + 1

\* access_token(rejected): the stored token if it is another, or a new one.
Manager(rejected) == IF stored # rejected THEN stored ELSE stored + 1

Refresh(c) ==
    /\ call[c].pc = "refresh"
    /\ stored' = Manager(call[c].token)
    /\ refreshes' = IF stored' = stored THEN refreshes ELSE refreshes + 1
    /\ call' = [call EXCEPT ![c].pc = "send", ![c].refreshed = TRUE, ![c].token = stored']
    /\ UNCHANGED <<provider, accepted>>

\* _token_error, _token: the token service does not answer, or refuses the grant.
RefreshFails(c, outcome) ==
    /\ call[c].pc = "refresh" /\ outcome \in {"transient", "refused", "reauth"}
    /\ call' = [call EXCEPT ![c].pc = "idle", ![c].outcome = outcome]
    /\ UNCHANGED <<provider, stored, accepted, refreshes>>

-----------------------------------------------------------------------------
\* The stored token expires or is withdrawn.
Revoke ==
    /\ accepted <= stored /\ accepted < MaxRevoked
    /\ accepted' = stored + 1
    /\ UNCHANGED <<provider, call, stored, refreshes>>

\* Nothing is sent in the moment that passes: a request is made as soon as it may be.
Tick ==
    /\ \E c \in Client : call[c].wait > 0 \/ call[c].deadline > 0
    /\ call' = [c \in Client |-> [call[c] EXCEPT !.wait = Max({0, @ - 1}),
                                                 !.deadline = Max({0, @ - 1})]]
    /\ UNCHANGED <<provider, stored, accepted, refreshes>>

Answer(c) ==
    \/ Ok(c) \/ Refused(c) \/ Unauthorized(c) \/ NetworkFails(c)
    \/ \E h, b \in Deadline : GmailUnavailable(c, h, b)
    \/ \E h \in Deadline : GraphUnavailable(c, h)
    \/ Refresh(c) \/ \E o \in Outcome : RefreshFails(c, o)

Next ==
    \/ \E c \in Client : Begin(c) \/ Answer(c)
    \/ Revoke \/ Tick

Spec == Init /\ [][Next]_vars
\* A request is answered or times out, and time passes.
FairSpec == Spec /\ WF_vars(Tick) /\ \A c \in Client : WF_vars(Answer(c))

-----------------------------------------------------------------------------
\* Within a call nothing is sent before the time the provider has asked to wait for:
\* a random delay never shortens it, and a call that would have to wait for more than
\* thirty seconds ends instead (test_short_json_retry_deadline_is_honored_before_next_request).
HonoursDeadline ==
    \A c \in Client :
        call'[c].asked > call[c].asked /\ call[c].asked > 0 => call[c].deadline = 0
DeadlineHonoured == [][HonoursDeadline]_vars

\* A transient error carries the time the provider has asked to wait for, with which
\* the worker sets the account's cooldown
\* (test_long_retry_after_releases_worker_and_preserves_retry_deadline).
DeadlineCarried ==
    \A c \in Client : call[c].outcome = "transient" => call[c].deadline <= Max({0, call[c].retryAt})

\* A call sends five requests at most: four attempts, and one again with another
\* token, whatever mixture of errors it meets.
RequestsBounded == \A c \in Client : call[c].asked <= MaxAttempts + 1

\* Clients that hold the same token when it ceases to be accepted get one new token
\* between them: the first refreshes it, the others take what it has stored.
OneRefreshPerToken == refreshes <= accepted

\* A call fails for its authorization only if the token it began with and the one
\* after that are both revoked: one that expires is replaced.
OneExpiryIsSurvived ==
    \A c \in Client : call[c].outcome = "unauthorized" => accepted >= call[c].first + 2

\* A call comes to an end.
CallEnds == \A c \in Client : call[c].pc # "idle" ~> call[c].pc = "idle"
=============================================================================
