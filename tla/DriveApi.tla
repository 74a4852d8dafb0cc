------------------------------ MODULE DriveApi ------------------------------
(***************************************************************************)
(* DriveAPIService of the JS SDK (js/sdk/src/internal/apiService): every   *)
(* request goes through fetch, which retries by what went wrong and shares *)
(* three counters with all other requests of the client; listeners are     *)
(* told when the client is throttled or offline.  Requests to a public     *)
(* link go through SharingPublicSessionHttpClient, which logs in again     *)
(* when the session has expired.  The two requests of that are sent by the *)
(* DriveAPIService of the main client: it has counters and events of its   *)
(* own, which are not modelled here, and is known by what its fetch does   *)
(* with a request: answer, throw, or try again.                            *)
(*                                                                         *)
(* A counter is known up to its limit plus one.  Time is known by whether  *)
(* the cool-down of a limit is still running.                              *)
(***************************************************************************)
EXTENDS Integers, FiniteSets

CONSTANTS
    Requests,
    Public,        \* requests sent with the session of a public link
    Blobs,         \* requests for blocks: fetchBlob instead of fetchJson
    MaxAttempts,   \* MAX_TIMEOUT_ERROR_RETRY_ATTEMPTS, MAX_NETWORK_...
    Max429, Max5xx, MaxOffline,   \* TOO_MANY_SUBSEQUENT_..._ERRORS
    MaxSessions    \* bound: sessions the server hands out

ASSUME DriveApiConstants ==
    /\ Public \subseteq Requests /\ Blobs \subseteq Requests
    /\ IsFiniteSet(Requests)
    /\ MaxAttempts \in Nat \ {0, 1}   \* a failed request is always tried twice
    /\ {Max429, Max5xx, MaxOffline, MaxSessions} \subseteq Nat \ {0}

VARIABLES
    pc,         \* per request, where fetch stands
    attempt,    \* per request, min(attempt, MaxAttempts)
    aborted,    \* per request in flight, signal.aborted
    used,       \* per request, the session it was sent with
    tooManyRequests, serverErrors, offlineErrors,   \* the subsequent...Counter
    recent429, recent5xx,   \* the last error is younger than the cool-down
    session,    \* SharingPublicLinkSession: its session
    live,       \* server: sessions that have not expired
    issued,     \* server: sessions handed out
    throttled, paused,      \* history: events told minus events taken back
    failures,   \* history, per request: failures other than offline and 429
    storm       \* history: 429s since the limit was reached

counters == <<tooManyRequests, serverErrors, offlineErrors, recent429, recent5xx,
              throttled, paused, storm>>
sessions == <<session, live, issued>>
vars == <<pc, attempt, aborted, used, counters, sessions, failures>>

Init ==
    /\ pc = [r \in Requests |-> "start"]
    /\ attempt = [r \in Requests |-> 0]
    /\ aborted = [r \in Requests |-> FALSE]
    /\ used = [r \in Requests |-> 0]
    /\ tooManyRequests = 0 /\ serverErrors = 0 /\ offlineErrors = 0
    /\ recent429 = FALSE /\ recent5xx = FALSE
    /\ session = 1 /\ live = {1} /\ issued = {1}
    /\ throttled = 0 /\ paused = 0 /\ storm = 0
    /\ failures = [r \in Requests |-> 0]

\* A counter moves on, up to one more than its limit.
Count(counter, limit) == IF counter <= limit THEN counter + 1 ELSE counter

HasReachedServerErrorLimit == serverErrors >= Max5xx /\ recent5xx
HasReachedTooManyRequestsErrorLimit == tooManyRequests >= Max429 /\ recent429

Done(r) ==
    /\ pc' = [pc EXCEPT ![r] = "done"]
    /\ attempt' = [attempt EXCEPT ![r] = 0]
    /\ used' = [used EXCEPT ![r] = 0]
    /\ aborted' = [aborted EXCEPT ![r] = FALSE]

\* fetch calls itself again, after a while.
Again(r) ==
    /\ pc' = [pc EXCEPT ![r] = "start"]
    /\ attempt' = [attempt EXCEPT ![r] = IF @ < MaxAttempts THEN @ + 1 ELSE @]
    /\ UNCHANGED <<used, aborted>>

-----------------------------------------------------------------------------
(* The counters and the events.                                            *)

\* tooManyRequestsErrorHappened.
TooManyRequestsErrorHappened ==
    /\ tooManyRequests' = Count(tooManyRequests, Max429)
    /\ recent429' = TRUE
    /\ throttled' = IF tooManyRequests' = Max429 THEN throttled + 1 ELSE throttled
    /\ storm' = IF tooManyRequests >= Max429 /\ recent429 THEN storm + 1 ELSE 0

\* clearSubsequentTooManyRequestsError.
ClearSubsequentTooManyRequestsError ==
    /\ throttled' = IF tooManyRequests >= Max429 THEN throttled - 1 ELSE throttled
    /\ tooManyRequests' = 0
    /\ recent429' = FALSE
    /\ storm' = 0

\* serverErrorHappened and clearSubsequentServerErrors.
ServerErrorHappened ==
    /\ serverErrors' = Count(serverErrors, Max5xx)
    /\ recent5xx' = TRUE

ClearSubsequentServerErrors ==
    /\ serverErrors' = 0
    /\ recent5xx' = FALSE

\* Mutant: the event is told from the limit on, not once.
OfflineErrorHappenedAgain ==
    /\ offlineErrors' = Count(offlineErrors, MaxOffline)
    /\ paused' = IF offlineErrors' >= MaxOffline THEN paused + 1 ELSE paused

\* offlineErrorHappened.
OfflineErrorHappened ==
    /\ offlineErrors' = Count(offlineErrors, MaxOffline)
    /\ paused' = IF offlineErrors' = MaxOffline THEN paused + 1 ELSE paused

\* clearSubsequentOfflineErrors.
ClearSubsequentOfflineErrors ==
    /\ paused' = IF offlineErrors >= MaxOffline THEN paused - 1 ELSE paused
    /\ offlineErrors' = 0

-----------------------------------------------------------------------------
(* fetch.                                                                  *)

\* Mutant: a retry does not look at the signal.
SendDeaf(r) ==
    /\ pc[r] = "start"
    /\ \/ aborted[r] /\ attempt[r] = 0 /\ Done(r)
       \/ /\ HasReachedServerErrorLimit \/ HasReachedTooManyRequestsErrorLimit
          /\ Done(r)
       \/ /\ ~HasReachedServerErrorLimit /\ ~HasReachedTooManyRequestsErrorLimit
          /\ pc' = [pc EXCEPT ![r] = "sent"]
          /\ used' = [used EXCEPT ![r] = session]
          /\ UNCHANGED <<attempt, aborted>>
    /\ UNCHANGED <<counters, sessions, failures>>

\* Mutant: the limits are looked at by the first attempt only.
SendUnchecked(r) ==
    /\ pc[r] = "start"
    /\ \/ aborted[r] /\ Done(r)
       \/ /\ ~aborted[r] /\ attempt[r] = 0 /\ HasReachedTooManyRequestsErrorLimit
          /\ Done(r)
       \/ /\ ~aborted[r] /\ (attempt[r] = 0 => ~HasReachedTooManyRequestsErrorLimit)
          /\ pc' = [pc EXCEPT ![r] = "sent"]
          /\ used' = [used EXCEPT ![r] = session]
          /\ UNCHANGED <<attempt, aborted>>
    /\ UNCHANGED <<counters, sessions, failures>>

\* The early returns, and the call of the HTTP client.
Send(r) ==
    /\ pc[r] = "start"
    /\ \/ aborted[r] /\ Done(r)
       \/ /\ ~aborted[r] /\ (HasReachedServerErrorLimit \/ HasReachedTooManyRequestsErrorLimit)
          /\ Done(r)
       \/ /\ ~aborted[r] /\ ~HasReachedServerErrorLimit /\ ~HasReachedTooManyRequestsErrorLimit
          /\ pc' = [pc EXCEPT ![r] = "sent"]
          /\ used' = [used EXCEPT ![r] = session]
          /\ UNCHANGED <<attempt, aborted>>
    /\ UNCHANGED <<counters, sessions, failures>>

InFlight(r) == pc[r] \in {"sent", "resent"}

\* One of the two requests of reauth is on its way, or waits to be sent again.
Reauthenticating(r) == pc[r] \in {"info", "infoAgain", "auth", "authAgain"}

\* The session of a request to a public link is refused.
Expired(r) == r \in Public /\ used[r] \notin live

\* An answer that is neither 429 nor 5xx, a success or an error of the API: 401
\* too when the request was for a block, or had been repeated.
AnswerFinal(r) ==
    /\ InFlight(r)
    /\ Expired(r) => pc[r] = "resent" \/ r \in Blobs
    /\ Done(r)
    /\ ClearSubsequentOfflineErrors
    /\ ClearSubsequentTooManyRequestsError
    /\ ClearSubsequentServerErrors
    /\ UNCHANGED <<sessions, failures>>

Answer429(r) ==
    /\ InFlight(r)
    /\ ClearSubsequentOfflineErrors
    /\ TooManyRequestsErrorHappened
    /\ Again(r)
    /\ UNCHANGED <<serverErrors, recent5xx, sessions, failures>>

\* "Automatically re-try 5xx glitches on the server, but only once".
Answer5xx(r) ==
    /\ InFlight(r)
    /\ ClearSubsequentOfflineErrors
    /\ ClearSubsequentTooManyRequestsError
    /\ ServerErrorHappened
    /\ IF attempt[r] > 0 THEN Done(r) ELSE Again(r)
    /\ failures' = [failures EXCEPT ![r] = @ + 1]
    /\ UNCHANGED <<sessions>>

\* The HTTP client throws: offline is retried for ever, a timeout and a network
\* error while there are attempts left, anything else once.  What reauth throws
\* passes through it; that is never an offline error.
Offline(r) ==
    /\ InFlight(r)
    /\ OfflineErrorHappened
    /\ Again(r)
    /\ UNCHANGED <<tooManyRequests, serverErrors, recent429, recent5xx,
                   throttled, storm, sessions, failures>>

ThrowTransient(r) ==
    /\ InFlight(r) \/ pc[r] \in {"info", "auth"}
    /\ IF attempt[r] + 1 < MaxAttempts \/ attempt[r] = 0 THEN Again(r) ELSE Done(r)
    /\ failures' = [failures EXCEPT ![r] = @ + 1]
    /\ UNCHANGED <<counters, sessions>>

ThrowOther(r) ==
    /\ InFlight(r) \/ Reauthenticating(r)
    /\ IF attempt[r] = 0 THEN Again(r) ELSE Done(r)
    /\ failures' = [failures EXCEPT ![r] = @ + 1]
    /\ UNCHANGED <<counters, sessions>>

\* The HTTP client rejects a request whose signal aborts.
ThrowAbort(r) ==
    /\ InFlight(r) /\ aborted[r]
    /\ Done(r)
    /\ UNCHANGED <<counters, sessions, failures>>

-----------------------------------------------------------------------------
(* SharingPublicSessionHttpClient.                                         *)

\* fetchJson: 401, and the first request of reauth.
AnswerUnauthorized(r) ==
    /\ pc[r] = "sent" /\ Expired(r) /\ r \notin Blobs
    /\ pc' = [pc EXCEPT ![r] = "info"]
    /\ UNCHANGED <<attempt, aborted, used, counters, sessions, failures>>

\* The two requests carry no signal, and the service of the main client retries
\* them like any other: offline and 429 without limit.
ReauthAgain(r) ==
    /\ \E p \in {<<"info", "infoAgain">>, <<"infoAgain", "info">>,
                 <<"auth", "authAgain">>, <<"authAgain", "auth">>} :
        pc[r] = p[1] /\ pc' = [pc EXCEPT ![r] = p[2]]
    /\ UNCHANGED <<attempt, aborted, used, counters, sessions, failures>>

\* init is answered, and auth is sent.
Reauth(r) ==
    /\ pc[r] = "info"
    /\ pc' = [pc EXCEPT ![r] = "auth"]
    /\ UNCHANGED <<attempt, aborted, used, counters, sessions, failures>>

\* auth is answered with a new session, and the request is sent a second time.  A
\* server proof that is not the expected one throws (ThrowOther).
Authenticated(r) ==
    /\ pc[r] = "auth"
    /\ \E s \in (1..MaxSessions) \ issued :
        /\ live' = live \cup {s} /\ issued' = issued \cup {s}
        /\ session' = s
        /\ used' = [used EXCEPT ![r] = s]
    /\ pc' = [pc EXCEPT ![r] = "resent"]
    /\ UNCHANGED <<attempt, aborted, counters, failures>>

-----------------------------------------------------------------------------
(* The caller, the server and time.                                        *)

Abort(r) ==
    /\ pc[r] # "done" /\ ~aborted[r]
    /\ aborted' = [aborted EXCEPT ![r] = TRUE]
    /\ UNCHANGED <<pc, attempt, used, counters, sessions, failures>>

SessionExpires ==
    /\ session \in live
    /\ live' = live \ {session}
    /\ UNCHANGED <<pc, attempt, aborted, used, counters, session, issued, failures>>

\* The cool-down of both limits is over.
CooledDown ==
    /\ recent429 \/ recent5xx
    /\ recent429' = FALSE /\ recent5xx' = FALSE /\ storm' = 0
    /\ UNCHANGED <<pc, attempt, aborted, used, tooManyRequests, serverErrors,
                   offlineErrors, throttled, paused, sessions, failures>>

Fetch(r) ==
    \/ Send(r) \/ AnswerFinal(r) \/ Answer429(r) \/ Answer5xx(r)
    \/ Offline(r) \/ ThrowTransient(r) \/ ThrowOther(r) \/ ThrowAbort(r)
    \/ AnswerUnauthorized(r) \/ ReauthAgain(r) \/ Reauth(r) \/ Authenticated(r)

Next ==
    \/ \E r \in Requests : Fetch(r) \/ Abort(r)
    \/ SessionExpires \/ CooledDown

Spec == Init /\ [][Next]_vars

\* Timers fire and the HTTP client answers or throws.
FairSpec == Spec /\ \A r \in Requests : WF_vars(Fetch(r))

-----------------------------------------------------------------------------
(* Properties.                                                             *)

TypeOK ==
    /\ pc \in [Requests -> {"start", "sent", "info", "infoAgain", "auth", "authAgain",
                            "resent", "done"}]
    /\ attempt \in [Requests -> 0..MaxAttempts]
    /\ aborted \in [Requests -> BOOLEAN]
    /\ used \in [Requests -> 0..MaxSessions]
    /\ tooManyRequests \in 0..(Max429 + 1)
    /\ serverErrors \in 0..(Max5xx + 1)
    /\ offlineErrors \in 0..(MaxOffline + 1)
    /\ recent429 \in BOOLEAN /\ recent5xx \in BOOLEAN
    /\ session \in 1..MaxSessions
    /\ live \subseteq 1..MaxSessions /\ issued \subseteq 1..MaxSessions
    /\ throttled \in Int /\ paused \in Int /\ storm \in Nat
    /\ failures \in [Requests -> Nat]

\* SDKEvents: whatever the requests meet between each other's awaits, the events
\* alternate, and the last one told is true: requestsThrottled while the limit of
\* 429s is reached, transfersPaused while the limit of offline errors is.
EventsTellTheTruth ==
    /\ throttled = IF tooManyRequests >= Max429 THEN 1 ELSE 0
    /\ paused = IF offlineErrors >= MaxOffline THEN 1 ELSE 0

\* "if too many subsequent 429s, stop further requests": from then until the
\* cool-down is over, the server still refuses at most what was on its way.
StormEnds == storm <= Cardinality({r \in Requests : pc[r] \in {"start", "done"}})

\* Retries are bounded: apart from waiting out offline and 429, no request fails
\* more often than MaxAttempts times, whatever mix of errors it meets.
RetriesAreBounded == \A r \in Requests : failures[r] <= MaxAttempts

\* "Request aborted": an abort ends a request whatever the network does, also one that
\* is retried without limit while the client is offline or throttled.  Only reauth is
\* deaf: a request that is aborted there ends with it, or never when the two requests
\* of reauth are retried for ever.
AbortEndsRequest ==
    \A r \in Requests : aborted[r] ~> (pc[r] = "done" \/ []Reauthenticating(r))

\* What the shared counters are for: whatever errors the requests meet together, a
\* storm of 429s ends and retries are bounded.
WithinLimits == TypeOK /\ StormEnds /\ RetriesAreBounded
=============================================================================
