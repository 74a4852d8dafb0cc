--------------------------- MODULE ServicesProofs ---------------------------
(***************************************************************************)
(* Proofs about the API service of the JS SDK (DriveApi), for any number   *)
(* of requests and any limits, and about the services that ServiceParts    *)
(* explores side by side, for any number of subscribers, events, users and *)
(* callers.                                                                *)
(***************************************************************************)
EXTENDS DriveApi, ServiceParts, TLAPS, FiniteSetTheorems, SequenceTheorems

-----------------------------------------------------------------------------
(* The API service: types.                                                 *)

\* A counter stays between 0 and its limit plus one.
LEMMA CountType ==
    ASSUME NEW limit \in Nat, NEW c \in 0..(limit + 1)
    PROVE  Count(c, limit) \in 0..(limit + 1)
BY DEF Count

\* What the end of an attempt leaves of the request's own variables.
LEMMA EndType ==
    ASSUME TypeOK, NEW r \in Requests, Done(r) \/ Again(r)
    PROVE  /\ pc' \in [Requests -> {"start", "sent", "info", "infoAgain", "auth", "authAgain",
                                    "resent", "done"}]
           /\ attempt' \in [Requests -> 0..MaxAttempts]
           /\ aborted' \in [Requests -> BOOLEAN]
           /\ used' \in [Requests -> 0..MaxSessions]
<1>1. CASE Done(r)
  <2>1. aborted' \in [Requests -> BOOLEAN]
    BY <1>1 DEF TypeOK, Done
  <2> QED
    BY <1>1, <2>1, DriveApiConstants DEF TypeOK, Done
<1>2. CASE Again(r)
  BY <1>2, DriveApiConstants DEF TypeOK, Again
<1> QED
  BY <1>1, <1>2

\* What a failure adds to a request's count of failures.
LEMMA FailureType ==
    ASSUME TypeOK, NEW r \in Requests, failures' = [failures EXCEPT ![r] = @ + 1]
    PROVE  failures' \in [Requests -> Nat]
BY DEF TypeOK

\* No step of a request, the caller, the server or time leaves the types.
LEMMA TypeCorrectStep == TypeOK /\ [Next]_vars => TypeOK'
<1> SUFFICES ASSUME TypeOK, [Next]_vars PROVE TypeOK'
  OBVIOUS
<1> USE DriveApiConstants
<1>1. ASSUME NEW r \in Requests, Send(r) PROVE TypeOK'
  <2>1. CASE Done(r)
    BY <1>1, <2>1, EndType DEF Send, TypeOK, counters, sessions
  <2>2. CASE ~Done(r)
    BY <1>1, <2>2 DEF Send, TypeOK, counters, sessions
  <2> QED
    BY <2>1, <2>2
<1>2. ASSUME NEW r \in Requests, AnswerFinal(r) PROVE TypeOK'
  <2>1. recent429' \in BOOLEAN /\ recent5xx' \in BOOLEAN
    BY <1>2 DEF AnswerFinal, ClearSubsequentTooManyRequestsError, ClearSubsequentServerErrors
  <2> QED
    BY <1>2, <2>1, EndType DEF AnswerFinal, TypeOK, sessions, ClearSubsequentOfflineErrors,
       ClearSubsequentTooManyRequestsError, ClearSubsequentServerErrors
<1>3. ASSUME NEW r \in Requests, Answer429(r) PROVE TypeOK'
  <2>1. tooManyRequests' \in 0..(Max429 + 1)
    BY <1>3, CountType DEF Answer429, TooManyRequestsErrorHappened, TypeOK
  <2> QED
    BY <1>3, <2>1, EndType DEF Answer429, TypeOK, sessions, ClearSubsequentOfflineErrors,
       TooManyRequestsErrorHappened
<1>4. ASSUME NEW r \in Requests, Answer5xx(r) PROVE TypeOK'
  <2>1. serverErrors' \in 0..(Max5xx + 1)
    BY <1>4, CountType DEF Answer5xx, ServerErrorHappened, TypeOK
  <2>2. failures' \in [Requests -> Nat]
    BY <1>4, FailureType DEF Answer5xx
  <2>3. Done(r) \/ Again(r)
    BY <1>4 DEF Answer5xx
  <2>4. recent429' \in BOOLEAN /\ recent5xx' \in BOOLEAN
    BY <1>4 DEF Answer5xx, ClearSubsequentTooManyRequestsError, ServerErrorHappened
  <2> QED
    BY <1>4, <2>1, <2>2, <2>3, <2>4, EndType DEF Answer5xx, TypeOK, sessions, ClearSubsequentOfflineErrors,
       ClearSubsequentTooManyRequestsError, ServerErrorHappened
<1>5. ASSUME NEW r \in Requests, Offline(r) PROVE TypeOK'
  <2>1. offlineErrors' \in 0..(MaxOffline + 1)
    BY <1>5, CountType DEF Offline, OfflineErrorHappened, TypeOK
  <2> QED
    BY <1>5, <2>1, EndType DEF Offline, TypeOK, sessions, OfflineErrorHappened
<1>6. ASSUME NEW r \in Requests, ThrowTransient(r) \/ ThrowOther(r) PROVE TypeOK'
  <2>1. failures' \in [Requests -> Nat]
    BY <1>6, FailureType DEF ThrowTransient, ThrowOther
  <2>2. Done(r) \/ Again(r)
    BY <1>6 DEF ThrowTransient, ThrowOther
  <2> QED
    BY <1>6, <2>1, <2>2, EndType DEF ThrowTransient, ThrowOther, TypeOK, counters, sessions
<1>7. ASSUME NEW r \in Requests, ThrowAbort(r) PROVE TypeOK'
  BY <1>7, EndType DEF ThrowAbort, TypeOK, counters, sessions
<1>8. ASSUME NEW r \in Requests, AnswerUnauthorized(r) PROVE TypeOK'
  BY <1>8 DEF AnswerUnauthorized, TypeOK, counters, sessions
<1>9. ASSUME NEW r \in Requests, ReauthAgain(r) \/ Reauth(r) PROVE TypeOK'
  <2>1. \E to \in {"info", "infoAgain", "auth", "authAgain"} : pc' = [pc EXCEPT ![r] = to]
    BY <1>9 DEF ReauthAgain, Reauth
  <2>2. UNCHANGED <<attempt, aborted, used, counters, sessions, failures>>
    BY <1>9 DEF ReauthAgain, Reauth
  <2> QED
    BY <2>1, <2>2 DEF TypeOK, counters, sessions
<1>14. ASSUME NEW r \in Requests, Authenticated(r) PROVE TypeOK'
  <2>1. PICK s \in (1..MaxSessions) \ issued :
            /\ live' = live \cup {s} /\ issued' = issued \cup {s}
            /\ session' = s
            /\ used' = [used EXCEPT ![r] = s]
    BY <1>14 DEF Authenticated
  <2> QED
    BY <1>14, <2>1 DEF Authenticated, TypeOK, counters
<1>10. ASSUME NEW r \in Requests, Abort(r) PROVE TypeOK'
  BY <1>10 DEF Abort, TypeOK, counters, sessions
<1>11. CASE SessionExpires
  BY <1>11 DEF SessionExpires, TypeOK, counters
<1>12. CASE CooledDown
  BY <1>12 DEF CooledDown, TypeOK, sessions
<1>13. CASE UNCHANGED vars
  BY <1>13 DEF vars, TypeOK, counters, sessions
<1> QED
  BY <1>1, <1>2, <1>3, <1>4, <1>5, <1>6, <1>7, <1>8, <1>9, <1>10, <1>11, <1>12, <1>13,
     <1>14 DEF Next, Fetch

\* The variables of the API service keep their types, for any number of requests.
THEOREM ApiTypeCorrect == Spec => []TypeOK
<1>1. Init => TypeOK
  <2> SUFFICES ASSUME Init PROVE TypeOK
    OBVIOUS
  <2>1. /\ recent429 \in BOOLEAN /\ recent5xx \in BOOLEAN
        /\ aborted \in [Requests -> BOOLEAN]
    BY DEF Init
  <2> QED
    BY <2>1, DriveApiConstants DEF Init, TypeOK
<1> QED
  BY <1>1, TypeCorrectStep, PTL DEF Spec

-----------------------------------------------------------------------------
(* The events.  What is told is a function of the counter: each of the two *)
(* conjuncts is moved by three operators only.                             *)

\* throttled follows the counter of 429s.
ThrottledIsTrue == throttled = IF tooManyRequests >= Max429 THEN 1 ELSE 0

\* paused follows the counter of offline errors.
PausedIsTrue == paused = IF offlineErrors >= MaxOffline THEN 1 ELSE 0

\* requestsThrottled is told once, at the limit, and taken back with the counter.
LEMMA ThrottledStep ==
    ASSUME TypeOK, ThrottledIsTrue,
           \/ TooManyRequestsErrorHappened
           \/ ClearSubsequentTooManyRequestsError
           \/ UNCHANGED <<tooManyRequests, throttled>>
    PROVE  ThrottledIsTrue'
BY DriveApiConstants DEF TypeOK, ThrottledIsTrue, TooManyRequestsErrorHappened,
   ClearSubsequentTooManyRequestsError, Count

\* transfersPaused is told once, at the limit, and taken back with the counter.
LEMMA PausedStep ==
    ASSUME TypeOK, PausedIsTrue,
           \/ OfflineErrorHappened
           \/ ClearSubsequentOfflineErrors
           \/ UNCHANGED <<offlineErrors, paused>>
    PROVE  PausedIsTrue'
BY DriveApiConstants DEF TypeOK, PausedIsTrue, OfflineErrorHappened,
   ClearSubsequentOfflineErrors, Count

\* SDKEvents: in whatever order requests succeed, are refused and fail, the last
\* event told of throttling and of pausing is true, and none is told twice.
THEOREM EventsAreTrue == Spec => []EventsTellTheTruth
<1>1. Init => EventsTellTheTruth
  BY DriveApiConstants DEF Init, EventsTellTheTruth
<1>2. TypeOK /\ EventsTellTheTruth /\ [Next]_vars => EventsTellTheTruth'
  <2> SUFFICES ASSUME TypeOK, EventsTellTheTruth, [Next]_vars PROVE EventsTellTheTruth'
    OBVIOUS
  <2>1. ThrottledIsTrue /\ PausedIsTrue
    BY DEF EventsTellTheTruth, ThrottledIsTrue, PausedIsTrue
  <2>2. \/ TooManyRequestsErrorHappened
        \/ ClearSubsequentTooManyRequestsError
        \/ UNCHANGED <<tooManyRequests, throttled>>
    BY DEF Next, Fetch, Send, AnswerFinal, Answer429, Answer5xx, Offline, ThrowTransient,
       ThrowOther, ThrowAbort, AnswerUnauthorized, ReauthAgain, Reauth, Authenticated, Abort,
       SessionExpires, CooledDown, vars, counters
  <2>3. \/ OfflineErrorHappened
        \/ ClearSubsequentOfflineErrors
        \/ UNCHANGED <<offlineErrors, paused>>
    BY DEF Next, Fetch, Send, AnswerFinal, Answer429, Answer5xx, Offline, ThrowTransient,
       ThrowOther, ThrowAbort, AnswerUnauthorized, ReauthAgain, Reauth, Authenticated, Abort,
       SessionExpires, CooledDown, vars, counters
  <2>4. ThrottledIsTrue' /\ PausedIsTrue'
    BY <2>1, <2>2, <2>3, ThrottledStep, PausedStep
  <2> QED
    BY <2>4 DEF EventsTellTheTruth, ThrottledIsTrue, PausedIsTrue
<1> QED
  BY <1>1, <1>2, ApiTypeCorrect, PTL DEF Spec

-----------------------------------------------------------------------------
(* The limits.  StormEnds and RetriesAreBounded are not inductive: the     *)
(* first needs that no storm is counted while the limit is not reached     *)
(* (else a request sent then would leave the waiting ones), the second     *)
(* what the attempts still to come can add.                                *)

Waiting == {r \in Requests : pc[r] \in {"start", "done"}}

StormNeedsLimit == ~HasReachedTooManyRequestsErrorLimit => storm = 0

\* A request that is not done has failed at most once per attempt, and never as
\* often as MaxAttempts.
FailuresAreCounted ==
    \A r \in Requests :
        IF pc[r] = "done" THEN failures[r] <= MaxAttempts
        ELSE failures[r] <= attempt[r] /\ failures[r] < MaxAttempts

LimitsInv == StormNeedsLimit /\ StormEnds /\ FailuresAreCounted

\* A storm that does not grow stays bounded while no request leaves the waiting ones.
LEMMA WaitingGrows ==
    ASSUME TypeOK, TypeOK', StormEnds, Waiting \subseteq Waiting', storm' <= storm
    PROVE  StormEnds'
<1>1. IsFiniteSet(Waiting')
  BY FS_Subset, DriveApiConstants DEF Waiting
<1>2. Cardinality(Waiting) <= Cardinality(Waiting')
  BY <1>1, FS_Subset
<1>3. IsFiniteSet(Waiting) /\ Cardinality(Waiting) \in Nat /\ Cardinality(Waiting') \in Nat
  BY <1>1, FS_Subset, FS_CardinalityType
<1>4. storm <= Cardinality(Waiting)
  BY DEF StormEnds, Waiting
<1>5. storm' <= Cardinality(Waiting')
  BY <1>2, <1>3, <1>4 DEF TypeOK
<1> QED
  BY <1>5 DEF StormEnds, Waiting

\* No storm is bounded by any set of waiting requests.
LEMMA NoStorm ==
    ASSUME storm' = 0
    PROVE  StormEnds'
<1>1. IsFiniteSet(Waiting')
  BY FS_Subset, DriveApiConstants DEF Waiting
<1>2. Cardinality(Waiting') \in Nat
  BY <1>1, FS_CardinalityType
<1> QED
  BY <1>2 DEF StormEnds, Waiting

\* After every attempt the request waits or is done.
LEMMA EndWaits ==
    ASSUME TypeOK, NEW r \in Requests, Done(r) \/ Again(r)
    PROVE  Waiting' = Waiting \cup {r}
<1>1. \A q \in Requests : pc'[q] = IF q = r THEN pc'[r] ELSE pc[q]
  BY DEF TypeOK, Done, Again
<1>2. pc'[r] \in {"start", "done"}
  BY DEF TypeOK, Done, Again
<1> QED
  BY <1>1, <1>2 DEF Waiting

\* Every step preserves the bound on the storm.
LEMMA StormStep ==
    ASSUME TypeOK, TypeOK', StormNeedsLimit, StormEnds, [Next]_vars
    PROVE  StormNeedsLimit' /\ StormEnds'
<1> USE DEF StormNeedsLimit, HasReachedTooManyRequestsErrorLimit
<1>1. ASSUME NEW r \in Requests, Send(r) PROVE StormNeedsLimit' /\ StormEnds'
  <2>1. StormNeedsLimit' /\ storm' = storm
    BY <1>1 DEF Send, counters
  <2>2. CASE Done(r)
    BY <2>1, <2>2, EndWaits, WaitingGrows DEF TypeOK
  <2>3. CASE ~Done(r)
    <3>1. storm = 0
      BY <1>1, <2>3 DEF Send
    <3> QED
      BY <2>1, <3>1, NoStorm
  <2> QED
    BY <2>2, <2>3
<1>2. ASSUME NEW r \in Requests, AnswerFinal(r) \/ Answer5xx(r)
      PROVE  StormNeedsLimit' /\ StormEnds'
  <2>1. storm' = 0
    BY <1>2 DEF AnswerFinal, Answer5xx, ClearSubsequentTooManyRequestsError
  <2> QED
    BY <2>1, NoStorm
<1>3. ASSUME NEW r \in Requests, Answer429(r) PROVE StormNeedsLimit' /\ StormEnds'
  <2>1. CASE HasReachedTooManyRequestsErrorLimit
    <3>1. storm' = storm + 1 /\ tooManyRequests' >= Max429 /\ recent429'
      BY <1>3, <2>1, DriveApiConstants DEF Answer429, TooManyRequestsErrorHappened, Count, TypeOK
    <3>2. r \notin Waiting /\ Waiting' = Waiting \cup {r}
      BY <1>3, EndWaits DEF Answer429, InFlight, Waiting
    <3>3. IsFiniteSet(Waiting)
      BY FS_Subset, DriveApiConstants DEF Waiting
    <3>4. Cardinality(Waiting') = Cardinality(Waiting) + 1 /\ Cardinality(Waiting) \in Nat
      BY <3>2, <3>3, FS_AddElement, FS_CardinalityType
    <3>5. storm <= Cardinality(Waiting)
      BY DEF StormEnds, Waiting
    <3>6. storm' <= Cardinality(Waiting')
      BY <3>1, <3>4, <3>5 DEF TypeOK
    <3> QED
      BY <3>1, <3>6 DEF StormEnds, Waiting
  <2>2. CASE ~HasReachedTooManyRequestsErrorLimit
    <3>1. storm' = 0
      BY <1>3, <2>2 DEF Answer429, TooManyRequestsErrorHappened
    <3> QED
      BY <3>1, NoStorm
  <2> QED
    BY <2>1, <2>2
<1>4. ASSUME NEW r \in Requests,
             Offline(r) \/ ThrowTransient(r) \/ ThrowOther(r) \/ ThrowAbort(r)
      PROVE  StormNeedsLimit' /\ StormEnds'
  <2>1. Done(r) \/ Again(r)
    BY <1>4 DEF Offline, ThrowTransient, ThrowOther, ThrowAbort
  <2>2. StormNeedsLimit' /\ storm' = storm
    BY <1>4 DEF Offline, ThrowTransient, ThrowOther, ThrowAbort, counters
  <2> QED
    BY <2>1, <2>2, EndWaits, WaitingGrows DEF TypeOK
<1>5. ASSUME NEW r \in Requests,
             AnswerUnauthorized(r) \/ ReauthAgain(r) \/ Reauth(r) \/ Authenticated(r)
      PROVE  StormNeedsLimit' /\ StormEnds'
  <2>1. StormNeedsLimit' /\ storm' = storm
    BY <1>5 DEF AnswerUnauthorized, ReauthAgain, Reauth, Authenticated, counters
  <2>2. Waiting' = Waiting
    BY <1>5 DEF AnswerUnauthorized, ReauthAgain, Reauth, Authenticated, Waiting, TypeOK
  <2> QED
    BY <2>1, <2>2, WaitingGrows DEF TypeOK
<1>6. ASSUME NEW r \in Requests, Abort(r) PROVE StormNeedsLimit' /\ StormEnds'
  BY <1>6 DEF Abort, counters, StormEnds
<1>7. CASE SessionExpires
  BY <1>7 DEF SessionExpires, counters, StormEnds
<1>8. CASE CooledDown
  BY <1>8, NoStorm DEF CooledDown
<1>9. CASE UNCHANGED vars
  BY <1>9 DEF vars, counters, StormEnds
<1> QED
  BY <1>1, <1>2, <1>3, <1>4, <1>5, <1>6, <1>7, <1>8, <1>9 DEF Next, Fetch

\* The failures of one attempt are within what the attempts allow.
LEMMA FailureStep ==
    ASSUME TypeOK, FailuresAreCounted, NEW r \in Requests, pc[r] # "done",
           failures' = [failures EXCEPT ![r] = @ + 1],
           \/ Done(r)
           \/ Again(r) /\ (attempt[r] = 0 \/ attempt[r] + 1 < MaxAttempts)
    PROVE  FailuresAreCounted'
<1>1. failures[r] <= attempt[r] /\ failures[r] < MaxAttempts
  BY DEF FailuresAreCounted
<1>2. \A q \in Requests : q # r =>
        pc'[q] = pc[q] /\ attempt'[q] = attempt[q] /\ failures'[q] = failures[q]
  BY DEF TypeOK, Done, Again
<1>3. CASE Done(r)
  <2>1. pc'[r] = "done" /\ failures'[r] <= MaxAttempts
    BY <1>1, <1>3, DriveApiConstants DEF Done, TypeOK
  <2> QED
    BY <1>2, <2>1 DEF FailuresAreCounted
<1>4. CASE Again(r) /\ (attempt[r] = 0 \/ attempt[r] + 1 < MaxAttempts)
  <2>1. attempt'[r] = attempt[r] + 1 /\ pc'[r] = "start"
    BY <1>4, DriveApiConstants DEF Again, TypeOK
  <2>2. failures'[r] = failures[r] + 1
    BY DEF TypeOK
  <2>3. failures'[r] <= attempt'[r] /\ failures'[r] < MaxAttempts
    BY <1>1, <1>4, <2>1, <2>2, DriveApiConstants DEF TypeOK
  <2> QED
    BY <1>2, <2>1, <2>3 DEF FailuresAreCounted
<1> QED
  BY <1>3, <1>4

\* An attempt that ends without a failure keeps the count.
LEMMA NoFailureStep ==
    ASSUME TypeOK, FailuresAreCounted, NEW r \in Requests, pc[r] # "done",
           UNCHANGED failures, Done(r) \/ Again(r)
    PROVE  FailuresAreCounted'
<1>1. failures[r] <= attempt[r] /\ failures[r] < MaxAttempts
  BY DEF FailuresAreCounted
<1>2. \A q \in Requests : q # r => pc'[q] = pc[q] /\ attempt'[q] = attempt[q]
  BY DEF TypeOK, Done, Again
<1>3. pc'[r] = "done" \/ attempt'[r] >= attempt[r]
  BY DriveApiConstants DEF TypeOK, Done, Again
<1>4. attempt[r] \in Nat /\ attempt'[r] \in Nat /\ failures[r] \in Nat
  BY DriveApiConstants DEF TypeOK, Done, Again
<1>5. IF pc'[r] = "done" THEN failures[r] <= MaxAttempts
      ELSE failures[r] <= attempt'[r] /\ failures[r] < MaxAttempts
  BY <1>1, <1>3, <1>4, DriveApiConstants
<1> QED
  BY <1>2, <1>5 DEF FailuresAreCounted

\* Every step keeps the failures of every request within its attempts.
LEMMA FailuresStep ==
    ASSUME TypeOK, FailuresAreCounted, [Next]_vars
    PROVE  FailuresAreCounted'
<1>1. ASSUME NEW r \in Requests, Send(r) PROVE FailuresAreCounted'
  <2>1. pc[r] # "done" /\ UNCHANGED failures
    BY <1>1 DEF Send
  <2>2. CASE Done(r)
    BY <2>1, <2>2, NoFailureStep
  <2>3. CASE ~Done(r)
    BY <1>1, <2>3 DEF Send, TypeOK, FailuresAreCounted
  <2> QED
    BY <2>2, <2>3
<1>2. ASSUME NEW r \in Requests, AnswerFinal(r) \/ Answer429(r) \/ Offline(r) \/ ThrowAbort(r)
      PROVE  FailuresAreCounted'
  <2>1. pc[r] # "done" /\ UNCHANGED failures /\ (Done(r) \/ Again(r))
    BY <1>2 DEF AnswerFinal, Answer429, Offline, ThrowAbort, InFlight
  <2> QED
    BY <2>1, NoFailureStep
<1>3. ASSUME NEW r \in Requests, Answer5xx(r) \/ ThrowTransient(r) \/ ThrowOther(r)
      PROVE  FailuresAreCounted'
  <2>1. pc[r] # "done" /\ failures' = [failures EXCEPT ![r] = @ + 1]
    BY <1>3 DEF Answer5xx, ThrowTransient, ThrowOther, InFlight, Reauthenticating
  <2>2. \/ Done(r)
        \/ Again(r) /\ (attempt[r] = 0 \/ attempt[r] + 1 < MaxAttempts)
    BY <1>3 DEF Answer5xx, ThrowTransient, ThrowOther, TypeOK
  <2> QED
    BY <2>1, <2>2, FailureStep
<1>4. ASSUME NEW r \in Requests,
             AnswerUnauthorized(r) \/ ReauthAgain(r) \/ Reauth(r) \/ Authenticated(r)
      PROVE  FailuresAreCounted'
  BY <1>4 DEF AnswerUnauthorized, ReauthAgain, Reauth, Authenticated, TypeOK, FailuresAreCounted
<1>5. UNCHANGED <<pc, attempt, failures>> => FailuresAreCounted'
  BY DEF FailuresAreCounted
<1> QED
  BY <1>1, <1>2, <1>3, <1>4, <1>5 DEF Next, Fetch, Abort, SessionExpires, CooledDown, vars

\* What the counters are for, with any number of requests side by side: a storm
\* of 429s ends with the requests that were on their way, and no request fails more
\* often than MaxAttempts times.
THEOREM LimitsHold == Spec => []WithinLimits
<1>1. Init => LimitsInv
  <2> SUFFICES ASSUME Init PROVE LimitsInv
    OBVIOUS
  <2>1. IsFiniteSet(Waiting)
    BY FS_Subset, DriveApiConstants DEF Waiting
  <2>2. Cardinality(Waiting) \in Nat
    BY <2>1, FS_CardinalityType
  <2>3. storm <= Cardinality(Waiting)
    BY <2>2 DEF Init
  <2>4. FailuresAreCounted
    BY DriveApiConstants DEF Init, FailuresAreCounted
  <2> QED
    BY <2>3, <2>4 DEF Init, LimitsInv, StormNeedsLimit, StormEnds, Waiting
<1>2. TypeOK /\ TypeOK' /\ LimitsInv /\ [Next]_vars => LimitsInv'
  BY StormStep, FailuresStep DEF LimitsInv
<1>3. TypeOK /\ LimitsInv => WithinLimits
  <2> SUFFICES ASSUME TypeOK, LimitsInv PROVE RetriesAreBounded
    BY DEF LimitsInv, WithinLimits
  <2> SUFFICES ASSUME NEW r \in Requests PROVE failures[r] <= MaxAttempts
    BY DEF RetriesAreBounded
  <2>1. failures[r] \in Nat
    BY DEF TypeOK
  <2> QED
    BY <2>1, DriveApiConstants DEF LimitsInv, FailuresAreCounted
<1> QED
  BY <1>1, <1>2, <1>3, ApiTypeCorrect, PTL DEF Spec


-----------------------------------------------------------------------------
(* The volume of the user.                                                 *)

CallerPhases == {"idle", "asking", "creating", "decrypting", "address", "failed", "done"}

\* What a caller knows when the server's volume is v.
CallerOf(v) ==
    {r \in [phase : CallerPhases, want : {"ids", "address"}, ids : {0, v}, result : {0, v}] :
        r.phase \in {"decrypting", "address"} => r.ids = 1}

\* The server has at most one volume and keeps it; every id on its way is its id.
SharesInv ==
    /\ volume \in {0, 1} /\ volumeMade = volume
    /\ myFilesIds \in {0, volume}
    /\ shareKeys \in [VolumeIds -> 0 .. 2] /\ \A v \in VolumeIds : shareKeys[v] \in {0, v}
    /\ volumeCache \subseteq {volume} \ {0}
    /\ caller \in [RootCallers -> CallerOf(volume)]

LEMMA SharesStart == SharesInit => SharesInv
BY DEF SharesInit, SharesInv, VolumeIds, NoCaller, CallerOf, CallerPhases

LEMMA SharesKeep == SharesInv /\ [SharesNext]_sharesVars => SharesInv'
<1> SUFFICES ASSUME SharesInv, [SharesNext]_sharesVars PROVE SharesInv'
  OBVIOUS
<1> USE DEF SharesInv, VolumeIds, ServerSame, CacheSame
<1>1. CASE OtherCreatesVolume
  BY <1>1 DEF OtherCreatesVolume, PostVolumes, CallerOf
<1>2. CASE GetSharePrivateKey
  BY <1>2 DEF GetSharePrivateKey
<1>3. CASE UNCHANGED sharesVars
  BY <1>3 DEF sharesVars
<1>4. ASSUME NEW c \in RootCallers, GetRootIDs(c) \/ CallerStep(c) \/ VolumeRequestFails(c)
      PROVE  SharesInv'
  <2>1. caller[c] \in CallerOf(volume)
    OBVIOUS
  <2>2. caller' = [caller EXCEPT ![c] = caller'[c]]
    <3>1. \A r : Moves(c, r) => caller' = [caller EXCEPT ![c] = caller'[c]]
      BY DEF Moves
    <3> QED
      BY <1>4, <3>1 DEF CallerStep, GetRootIDs, GetMyFiles, StoreMyFiles, CreateVolume, GetMemberEmailKey,
         AsksAgain, VolumeRequestFails
  <2>3. caller'[c] \in CallerOf(volume')
    <3> USE DEF Moves, CallerOf, CallerPhases
    <3>1. CASE GetRootIDs(c)
      <4>1. PICK want \in {"ids", "address"} :
                LET r == [NoCaller EXCEPT !.want = want] IN
                Moves(c, IF myFilesIds # 0
                           THEN [r EXCEPT !.ids = myFilesIds, !.result = IF want = "ids" THEN myFilesIds ELSE 0,
                                          !.phase = IF want = "ids" THEN "done" ELSE "address"]
                           ELSE [r EXCEPT !.phase = "asking"])
        BY <3>1 DEF GetRootIDs
      <4>2. UNCHANGED volume /\ myFilesIds \in {0, volume}
        BY <3>1 DEF GetRootIDs
      <4>3. CASE myFilesIds = 0
        <5>1. caller'[c] = [phase |-> "asking", want |-> want, ids |-> 0, result |-> 0]
          BY <4>1, <4>3 DEF NoCaller
        <5> QED
          BY <4>2, <5>1
      <4>4. CASE myFilesIds = 1
        <5> DEFINE r == [NoCaller EXCEPT !.want = want]
                   next == [r EXCEPT !.ids = myFilesIds, !.result = IF want = "ids" THEN myFilesIds ELSE 0,
                                     !.phase = IF want = "ids" THEN "done" ELSE "address"]
        <5>1. caller'[c] = next
          BY <4>1, <4>4
        <5>2. r \in [phase : CallerPhases, want : {"ids", "address"}, ids : {0, 1}, result : {0, 1}]
          BY DEF NoCaller
        <5> HIDE DEF r
        <5>3. next \in CallerOf(1)
          BY <4>4, <5>2
        <5> QED
          BY <4>2, <4>4, <5>1, <5>3
      <4> QED
        BY <4>2, <4>3, <4>4
    <3>2. CASE GetMyFiles(c)
      BY <2>1, <3>2 DEF GetMyFiles, In
    <3>3. CASE StoreMyFiles(c)
      BY <2>1, <3>3 DEF StoreMyFiles, WithIds
    <3>4. CASE CreateVolume(c)
      <4>1. CASE volume = 0
        <5>1. volume' = 1 /\ Moves(c, WithIds(c, 1))
          BY <3>4, <4>1 DEF CreateVolume, PostVolumes
        <5> QED
          BY <2>1, <4>1, <5>1 DEF WithIds
      <4>2. CASE volume # 0
        BY <2>1, <3>4, <4>2 DEF CreateVolume, In
      <4> QED
        BY <4>1, <4>2
    <3>5. CASE GetMemberEmailKey(c)
      BY <2>1, <3>5 DEF GetMemberEmailKey, In
    <3>6. CASE AsksAgain(c)
      BY <2>1, <3>6 DEF AsksAgain, In
    <3>7. CASE VolumeRequestFails(c)
      BY <2>1, <3>7 DEF VolumeRequestFails, In, PostVolumes
    <3> QED
      BY <1>4, <3>1, <3>2, <3>3, <3>4, <3>5, <3>6, <3>7 DEF CallerStep
  <2>4. /\ volume' \in {0, 1} /\ volumeMade' = volume' /\ (volume' = volume \/ volume = 0)
        /\ myFilesIds' \in {0, volume'} /\ volumeCache' \subseteq {volume'} \ {0}
        /\ shareKeys' \in [VolumeIds -> 0 .. 2] /\ \A v \in VolumeIds : shareKeys'[v] \in {0, v}
    BY <1>4, <2>1 DEF CallerStep, GetRootIDs, GetMyFiles, StoreMyFiles, CreateVolume, GetMemberEmailKey,
       AsksAgain, VolumeRequestFails, PostVolumes, CallerOf
  <2>5. CallerOf(volume) \subseteq CallerOf(volume')
    BY <2>4 DEF CallerOf
  <2> QED
    BY <2>2, <2>3, <2>4, <2>5
<1> QED
  BY <1>1, <1>2, <1>3, <1>4 DEF SharesNext


-----------------------------------------------------------------------------
(* The event managers: the inductive invariant.                            *)

Phases == {"unused", "starting", "waiting", "asking", "telling", "off"}
EventRecord == [type : {"node", "refresh", "forward", "remove", "shared"}, id : Int]
ManagerRecord ==
    [phase : Phases, listeners : Seq(Listeners), latest : Int, anchor : Int, queue : Seq(EventRecord),
     next : Nat \ {0}, more : BOOLEAN, broken : BOOLEAN]

\* Those whose subscription was made.
Subscribed == {s \in Subscribers : subscriber[s].state \notin {"none", "creating"}}

EventTypes ==
    /\ watched \in Managers /\ scope \in {"volume", "core"}
    /\ log \in Seq({"node", "silent"}) /\ expired \in 0 .. Len(log)
    /\ revoked \in BOOLEAN /\ (revoked => scope = "volume")
    /\ persisted \in {Undefined, 0}
    /\ manager \in [Managers -> ManagerRecord]
    /\ created \in Nat /\ current \in 0 .. created /\ created <= Cardinality(Subscribed)
    /\ \A m \in Managers : manager[m].phase = "unused" <=> m > created
    /\ subscriber \in [Subscribers -> [state : {"none", "creating", "on", "disposed", "over"}, at : Nat]]
    /\ \A s \in Subscribers : subscriber[s].at <= created
    /\ seen \in [Managers -> [Listeners -> Int]]
    /\ told \in [Managers -> SUBSET Int] /\ skipped \in [Managers -> SUBSET Listeners]

\* An id of the log; none after the volume was removed.
IsId(id) == id \in 0 .. Len(log) \/ (id = NoId /\ revoked)

\* What a manager goes by are ids of the log.
IdsInv(m) ==
    LET r == manager[m] IN
    /\ r.latest = Undefined \/ IsId(r.latest)
    /\ r.phase \in {"waiting", "asking", "telling"} => IsId(r.latest)
    /\ r.phase = "starting" => persisted = Undefined
    /\ r.phase \in {"asking", "telling"} => IsId(r.anchor)
    /\ r.phase = "telling" => \A i \in 1 .. Len(r.queue) : IsId(r.queue[i].id)

Covers(e, id) == \/ e.type = "node" /\ id = e.id
                 \/ e.type \in {"refresh", "shared"} /\ id \in 1 .. e.id

\* Up to an event of the page, and up to where the page ends, everything was told or
\* waits before it.
LostInv(m) ==
    LET r == manager[m] IN
    (r.phase # "unused" /\ persisted = 0) =>
        /\ \A id \in 1 .. r.latest : log[id] = "node" => id \in told[m]
        /\ r.phase = "asking" => \A id \in 1 .. r.anchor : log[id] = "node" => id \in told[m]
        /\ r.phase = "telling" =>
              /\ \A i \in 1 .. Len(r.queue) : \A id \in 1 .. r.queue[i].id :
                    log[id] = "node" => id \in told[m] \/ \E j \in 1 .. i : Covers(r.queue[j], id)
              /\ \A id \in 1 .. r.anchor :
                    log[id] = "node" => id \in told[m] \/ \E j \in 1 .. Len(r.queue) : Covers(r.queue[j], id)

\* The listeners are the subscribers, once each, after the cache; who is missing was
\* skipped.
ListInv(m) ==
    LET ls == manager[m].listeners IN
    manager[m].phase # "unused" =>
        /\ \A i, j \in 1 .. Len(ls) : ls[i] = ls[j] => i = j
        /\ \A i \in 1 .. Len(ls) : ls[i] # Cache => subscriber[ls[i]] = [state |-> "on", at |-> m]
        /\ \A i \in 1 .. Len(ls) : ls[i] = Cache => i = 1
        /\ \A l \in Listeners : (l = Cache \/ subscriber[l] = [state |-> "on", at |-> m]) =>
              l \in skipped[m] \/ \E i \in 1 .. Len(ls) : ls[i] = l

\* While an event is told, the listeners before the next one have seen it; the others
\* have seen the one before.
SeenInv(m) ==
    LET r == manager[m] IN
    /\ r.phase \in {"waiting", "asking", "telling"} =>
          \A i \in 1 .. Len(r.listeners) :
              \/ r.listeners[i] \in skipped[m]
              \/ seen[m][r.listeners[i]] = IF r.phase = "telling" /\ r.queue # <<>> /\ i < r.next
                                             THEN r.queue[1].id ELSE r.latest
    /\ (r.phase = "telling" /\ r.queue # <<>> /\ r.next > 1) =>
          \A i \in 1 .. Len(r.listeners) : r.listeners[i] = Cache => seen[m][Cache] = r.queue[1].id

ManagerInv(m) == IdsInv(m) /\ LostInv(m) /\ ListInv(m) /\ SeenInv(m)
EventsInv == EventTypes /\ \A m \in Managers : ManagerInv(m)

-----------------------------------------------------------------------------
(* The events of a page.                                                   *)

Rank(S, x) == Cardinality({j \in S : j < x})

\* The numbers of a finite set have the ranks from 0 on, in their order.
LEMMA RanksAre ==
    ASSUME NEW S \in SUBSET Int, IsFiniteSet(S)
    PROVE  /\ Cardinality(S) \in Nat
           /\ \A x \in S : Rank(S, x) \in 0 .. Cardinality(S) - 1
           /\ \A x, y \in S : x < y => Rank(S, x) < Rank(S, y)
           /\ \A x, y \in S : Rank(S, x) = Rank(S, y) => x = y
           /\ \A i \in 1 .. Cardinality(S) : \E x \in S : Rank(S, x) = i - 1
<1>1. Cardinality(S) \in Nat
  BY FS_CardinalityType
<1>2. ASSUME NEW x \in S
      PROVE  Rank(S, x) \in 0 .. Cardinality(S) - 1
  <2> DEFINE T == {j \in S : j < x}
  <2>1. T \in SUBSET S /\ x \notin T
    OBVIOUS
  <2> HIDE DEF T
  <2>2. IsFiniteSet(T) /\ Cardinality(T) <= Cardinality(S) /\ (Cardinality(S) = Cardinality(T) => S = T)
    BY <2>1, FS_Subset
  <2>3. Cardinality(T) \in Nat
    BY <2>2, FS_CardinalityType
  <2>4. Cardinality(T) # Cardinality(S)
    BY <2>1, <2>2
  <2> QED
    BY <1>1, <2>2, <2>3, <2>4 DEF Rank, T
<1>3. ASSUME NEW x \in S, NEW y \in S, x < y
      PROVE  Rank(S, x) < Rank(S, y)
  <2> DEFINE T == {j \in S : j < x}
             U == {j \in S : j < y}
  <2>1. T \in SUBSET U /\ U \in SUBSET S /\ x \in U /\ x \notin T
    <3>1. ~(x < x) /\ \A j \in S : j < x => j < y
      BY <1>3
    <3> QED
      BY <1>3, <3>1
  <2> HIDE DEF T, U
  <2>2. IsFiniteSet(U)
    BY <2>1, FS_Subset
  <2>3. Cardinality(T) <= Cardinality(U) /\ (Cardinality(U) = Cardinality(T) => U = T) /\ IsFiniteSet(T)
    BY <2>1, <2>2, FS_Subset
  <2>4. Cardinality(T) \in Nat /\ Cardinality(U) \in Nat
    BY <2>2, <2>3, FS_CardinalityType
  <2> QED
    BY <2>1, <2>3, <2>4 DEF Rank, T, U
<1>4. \A x, y \in S : Rank(S, x) = Rank(S, y) => x = y
  <2>1. \A x, y \in S : x = y \/ x < y \/ y < x
    OBVIOUS
  <2> QED
    BY <1>1, <1>2, <1>3, <2>1
<1>5. ASSUME NEW i \in 1 .. Cardinality(S)
      PROVE  \E x \in S : Rank(S, x) = i - 1
  <2> DEFINE f == [x \in S |-> Rank(S, x) + 1]
             R == 1 .. Cardinality(S)
  <2>1. f \in Injection(S, R)
    <3>1. f \in [S -> R]
      BY <1>1, <1>2
    <3>2. \A x, y \in S : f[x] = f[y] => x = y
      BY <1>1, <1>2, <1>4
    <3> QED
      BY <3>1, <3>2 DEF Injection, IsInjective
  <2>2. IsFiniteSet(R) /\ Cardinality(R) = Cardinality(S)
    BY <1>1, FS_Interval
  <2> HIDE DEF f, R
  <2>3. f \in Surjection(S, R)
    BY <2>1, <2>2, FS_Injection
  <2>4. i \in R
    BY DEF R
  <2>5. PICK x \in S : f[x] = i
    BY <2>3, <2>4 DEF Surjection
  <2> QED
    BY <1>1, <1>2, <2>5 DEF f
<1> QED
  BY <1>1, <1>2, <1>3, <1>4, <1>5

\* A page tells of every node event between its anchor and its end, in their order.
LEMMA PageIs ==
    ASSUME log \in Seq({"node", "silent"}), NEW a \in 0 .. Len(log)
    PROVE  /\ PageEnd(a) \in a .. Len(log)
           /\ PageEvents(a) \in Seq(EventRecord)
           /\ \A i \in 1 .. Len(PageEvents(a)) :
                 PageEvents(a)[i].type = "node" /\ PageEvents(a)[i].id \in a + 1 .. PageEnd(a)
           /\ \A id \in a + 1 .. PageEnd(a) : log[id] = "node" =>
                 \E i \in 1 .. Len(PageEvents(a)) : PageEvents(a)[i].id = id
           /\ \A i, j \in 1 .. Len(PageEvents(a)) :
                 PageEvents(a)[i].id < PageEvents(a)[j].id => i < j
<1> DEFINE S == PageIds(a)
           P == PageEvents(a)
           n == Cardinality(S)
           At(i) == CHOOSE id \in S : Rank(S, id) = i - 1
<1>1. PageEnd(a) \in a .. Len(log)
  BY DriveEventsConstants DEF PageEnd
<1>2. S \in SUBSET (a + 1 .. PageEnd(a)) /\ S \in SUBSET Int
  BY <1>1 DEF PageIds
<1>3. IsFiniteSet(S)
  <2>1. IsFiniteSet(a + 1 .. PageEnd(a))
    BY <1>1, FS_Interval
  <2> QED
    BY <1>2, <2>1, FS_Subset
<1>4. P = [i \in 1 .. n |-> [type |-> "node", id |-> At(i)]]
  BY DEF PageEvents, Rank
<1>5. \A id \in a + 1 .. PageEnd(a) : log[id] = "node" => id \in S
  BY DEF PageIds
<1> HIDE DEF S, P
<1>6. /\ n \in Nat
      /\ \A x \in S : Rank(S, x) \in 0 .. n - 1
      /\ \A x, y \in S : x < y => Rank(S, x) < Rank(S, y)
      /\ \A x, y \in S : Rank(S, x) = Rank(S, y) => x = y
      /\ \A i \in 1 .. n : \E x \in S : Rank(S, x) = i - 1
  BY <1>2, <1>3, RanksAre
<1> HIDE DEF n
<1>7. \A i \in 1 .. n : At(i) \in S /\ Rank(S, At(i)) = i - 1
  BY <1>6
<1>8. \A x \in S : Rank(S, x) + 1 \in 1 .. n /\ At(Rank(S, x) + 1) = x
  BY <1>6, <1>7
<1> HIDE DEF At
<1>9. /\ P \in Seq(EventRecord) /\ Len(P) = n
      /\ \A i \in 1 .. n : P[i].type = "node" /\ P[i].id = At(i)
  <2>1. \A i \in 1 .. n : [type |-> "node", id |-> At(i)] \in EventRecord
    BY <1>2, <1>7 DEF EventRecord
  <2> QED
    BY <1>4, <1>6, <2>1
<1>10. \A i, j \in 1 .. n : At(i) < At(j) => i < j
  <2> SUFFICES ASSUME NEW i \in 1 .. n, NEW j \in 1 .. n, At(i) < At(j) PROVE i < j
    OBVIOUS
  <2>1. Rank(S, At(i)) < Rank(S, At(j))
    BY <1>6, <1>7
  <2> QED
    BY <1>6, <1>7, <2>1
<1>11. \A id \in a + 1 .. PageEnd(a) : log[id] = "node" => \E i \in 1 .. n : P[i].id = id
  BY <1>5, <1>8, <1>9
<1>12. \A i, j \in 1 .. n : P[i].id < P[j].id => i < j
  BY <1>9, <1>10
<1>13. \A i \in 1 .. n : P[i].type = "node" /\ P[i].id \in a + 1 .. PageEnd(a)
  BY <1>2, <1>7, <1>9
<1> HIDE DEF n
<1> QED
  BY <1>1, <1>9, <1>11, <1>12, <1>13 DEF P


-----------------------------------------------------------------------------
(* The event managers: the steps.                                          *)

\* dispose removes the callback, or the last listener when it is not there.
LEMMA WithoutIs ==
    ASSUME NEW ls \in Seq(Listeners), NEW s \in Subscribers
    PROVE  /\ Without(ls, s) \in Seq(Listeners)
           /\ ls = <<>> => Without(ls, s) = <<>>
           /\ ls # <<>> => \E p \in 1 .. Len(ls) :
                 /\ Len(Without(ls, s)) = Len(ls) - 1
                 /\ \A i \in 1 .. Len(ls) - 1 : Without(ls, s)[i] = IF i < p THEN ls[i] ELSE ls[i + 1]
                 /\ ls[p] = s \/ (p = Len(ls) /\ \A i \in 1 .. Len(ls) : ls[i] # s)
<1>1. CASE ls = <<>>
  BY <1>1 DEF Without
<1>2. CASE ls # <<>>
  <2>1. Len(ls) \in Nat \ {0} /\ DOMAIN ls = 1 .. Len(ls)
    BY <1>2
  <2>2. PICK p \in 1 .. Len(ls) :
            /\ Without(ls, s) = RemoveAt(ls, p)
            /\ ls[p] = s \/ (p = Len(ls) /\ \A i \in 1 .. Len(ls) : ls[i] # s)
    <3>1. CASE s \in ToSet(ls)
      <4> DEFINE q == CHOOSE i \in DOMAIN ls : ls[i] = s
      <4>1. \E i \in DOMAIN ls : ls[i] = s
        BY <3>1 DEF ToSet
      <4>2. q \in DOMAIN ls /\ ls[q] = s
        BY <4>1
      <4>3. Without(ls, s) = RemoveAt(ls, q)
        BY <1>2, <3>1 DEF Without
      <4>4. q \in 1 .. Len(ls)
        BY <2>1, <4>2
      <4> HIDE DEF q
      <4> QED
        BY <4>2, <4>3, <4>4, Zenon
    <3>2. CASE s \notin ToSet(ls)
      <4>1. Without(ls, s) = RemoveAt(ls, Len(ls))
        BY <1>2, <3>2 DEF Without
      <4>2. \A i \in 1 .. Len(ls) : ls[i] # s
        BY <2>1, <3>2 DEF ToSet
      <4>3. Len(ls) \in 1 .. Len(ls)
        BY <2>1
      <4> QED
        BY <4>1, <4>2, <4>3
    <3> QED
      BY <3>1, <3>2
  <2>8. p \in 1 .. Len(ls)
    OBVIOUS
  <2> DEFINE front == SubSeq(ls, 1, p - 1)
             back == SubSeq(ls, p + 1, Len(ls))
  <2>3. Without(ls, s) = front \o back
    BY <2>2 DEF RemoveAt
  <2>4. /\ front \in Seq(Listeners) /\ Len(front) = p - 1
        /\ \A i \in 1 .. p - 1 : front[i] = ls[i]
    BY <2>1, <2>8
  <2>5. /\ back \in Seq(Listeners) /\ Len(back) = Len(ls) - p
        /\ \A i \in 1 .. Len(ls) - p : back[i] = ls[p + i]
    <3>1. p + 1 \in Int /\ Len(ls) \in Int /\ \A i \in p + 1 .. Len(ls) : ls[i] \in Listeners
      BY <2>1, <2>8
    <3>2. /\ back \in Seq(Listeners)
          /\ Len(back) = IF p + 1 <= Len(ls) THEN Len(ls) - (p + 1) + 1 ELSE 0
          /\ \A i \in 1 .. Len(ls) - (p + 1) + 1 : back[i] = ls[p + 1 + i - 1]
      BY <3>1, SubSeqProperties
    <3> HIDE DEF back
    <3>5. Len(back) = IF p + 1 <= Len(ls) THEN Len(ls) - (p + 1) + 1 ELSE 0
      BY <3>2
    <3>6. Len(ls) \in Nat /\ p \in Nat /\ p <= Len(ls)
      BY <2>1, <2>8
    <3> DEFINE b == Len(back)
               k == Len(ls)
    <3> HIDE DEF b, k
    <3>7. b = IF p + 1 <= k THEN k - (p + 1) + 1 ELSE 0
      BY <3>5 DEF b, k
    <3>8. k \in Nat /\ p \in Nat /\ p <= k
      BY <3>6 DEF k
    <3>9. b = k - p
      BY <3>7, <3>8
    <3>3. Len(back) = Len(ls) - p
      BY <3>9 DEF b, k
    <3>4. \A i \in 1 .. Len(ls) - p : back[i] = ls[p + i]
      <4> SUFFICES ASSUME NEW i \in 1 .. Len(ls) - p PROVE back[i] = ls[p + i]
        OBVIOUS
      <4>1. i \in 1 .. Len(ls) - (p + 1) + 1 /\ p + 1 + i - 1 = p + i
        BY <2>1, <2>8
      <4>2. back[i] = ls[p + 1 + i - 1]
        BY <3>2, <4>1
      <4> QED
        BY <4>1, <4>2
    <3> QED
      BY <3>2, <3>3, <3>4
  <2> HIDE DEF front, back
  <2>6. /\ Without(ls, s) \in Seq(Listeners)
        /\ Len(Without(ls, s)) = Len(ls) - 1
    <3>1. front \in Seq(Listeners) /\ back \in Seq(Listeners)
      BY <2>4, <2>5
    <3>2. front \o back \in Seq(Listeners) /\ Len(front \o back) = Len(front) + Len(back)
      BY <3>1, ConcatProperties
    <3>3. Len(front) = p - 1 /\ Len(back) = Len(ls) - p
      BY <2>4, <2>5
    <3> QED
      BY <2>1, <2>8, <2>3, <3>2, <3>3
  <2>7. ASSUME NEW i \in 1 .. Len(ls) - 1
        PROVE  Without(ls, s)[i] = IF i < p THEN ls[i] ELSE ls[i + 1]
    <3>1. CASE i < p
      BY <2>1, <2>8, <2>3, <2>4, <2>5, <3>1
    <3>2. CASE i >= p
      <4>1. i - (p - 1) \in 1 .. Len(ls) - p /\ p + (i - (p - 1)) = i + 1
        BY <2>1, <2>8, <3>2
      <4>2. Without(ls, s)[i] = back[i - (p - 1)]
        BY <2>1, <2>8, <2>3, <2>4, <2>5, <3>2
      <4>3. back[i - (p - 1)] = ls[p + (i - (p - 1))]
        BY <2>5, <4>1
      <4>4. ~(i < p)
        BY <2>1, <2>8, <3>2
      <4> QED
        BY <4>1, <4>2, <4>3, <4>4
    <3> QED
      BY <2>1, <2>8, <3>1, <3>2
  <2> QED
    BY <1>2, <2>2, <2>6, <2>7
<1> QED
  BY <1>1, <1>2


\* The fields of manager m after a step of its own.
FieldsAre(m, phase, latest, anchor, queue, next) ==
    /\ manager'[m].phase = phase /\ manager'[m].latest = latest /\ manager'[m].anchor = anchor
    /\ manager'[m].queue = queue /\ manager'[m].next = next

\* What every step of a manager leaves alone.
OwnStep(m) ==
    /\ manager' = [manager EXCEPT ![m] = manager'[m]] /\ manager'[m] \in ManagerRecord
    /\ manager'[m].listeners = manager[m].listeners
    /\ manager[m].phase # "unused" /\ manager'[m].phase # "unused"
    /\ UNCHANGED <<watched, scope, log, expired, revoked, persisted, created, current, subscriber, skipped>>

Starts(m) ==
    /\ manager[m].phase = "starting"
    /\ FieldsAre(m, "waiting", Len(log), manager[m].anchor, manager[m].queue, manager[m].next)
    /\ seen' = [seen EXCEPT ![m] = [l \in Listeners |-> Len(log)]] /\ UNCHANGED told

\* start or a listener threw.
Stops(m) ==
    /\ FieldsAre(m, "off", manager[m].latest, manager[m].anchor, manager[m].queue, manager[m].next)
    /\ UNCHANGED <<seen, told>>

Polls(m) ==
    /\ manager[m].phase = "waiting"
    /\ FieldsAre(m, "asking", manager[m].latest, manager[m].latest, manager[m].queue, manager[m].next)
    /\ UNCHANGED <<seen, told>>

Gives(m) ==
    /\ manager[m].phase = "asking"
    /\ FieldsAre(m, "waiting", manager[m].latest, manager[m].anchor, manager[m].queue, manager[m].next)
    /\ UNCHANGED <<seen, told>>

\* A page came; what it holds is said below.
Gets(m) ==
    /\ manager[m].phase = "asking" /\ manager'[m].phase = "telling"
    /\ manager'[m].latest = manager[m].latest /\ manager'[m].next = 1
    /\ UNCHANGED <<seen, told>>

Tells(m) ==
    /\ manager[m].phase = "telling" /\ manager[m].queue # <<>>
    /\ manager[m].next <= Len(manager[m].listeners)
    /\ FieldsAre(m, "telling", manager[m].latest, manager[m].anchor, manager[m].queue, manager[m].next + 1)
    /\ seen' = [seen EXCEPT ![m][manager[m].listeners[manager[m].next]] = manager[m].queue[1].id]
    /\ UNCHANGED told

Finishes(m) ==
    /\ manager[m].phase = "telling" /\ manager[m].queue # <<>>
    /\ manager[m].next > Len(manager[m].listeners)
    /\ FieldsAre(m, "telling", manager[m].queue[1].id, manager[m].anchor, Tail(manager[m].queue), 1)
    /\ told' = [told EXCEPT ![m] = told'[m]] /\ told[m] \subseteq told'[m] /\ told'[m] \subseteq Int
    /\ \A id \in Int : Covers(manager[m].queue[1], id) => id \in told'[m]
    /\ UNCHANGED seen

TurnsPage(m) ==
    /\ manager[m].phase = "telling" /\ manager[m].queue = <<>>
    /\ manager'[m].phase \in {"asking", "waiting"} /\ manager'[m].latest = manager[m].latest
    /\ manager'[m].phase = "asking" => manager'[m].anchor = manager[m].anchor
    /\ UNCHANGED <<seen, told>>

\* The page of an answer: its events, where it ends.
Page(m, events, end) ==
    manager'[m].queue = events /\ manager'[m].anchor = end

PageOf(m) ==
    LET a == manager[m].anchor IN
    \/ revoked /\ Page(m, <<[type |-> "remove", id |-> NoId]>>, NoId)
    \/ /\ a \in 0 .. Len(log)
       /\ \/ Page(m, <<[type |-> "refresh", id |-> Len(log)]>>, Len(log))
          \/ Page(m, <<[type |-> "shared", id |-> PageEnd(a)]>>, PageEnd(a))
          \/ PageEvents(a) = <<>> /\ Page(m, <<[type |-> "forward", id |-> PageEnd(a)]>>, PageEnd(a))
          \/ Page(m, PageEvents(a), PageEnd(a))

OwnCases(m) ==
    \/ Starts(m) \/ Stops(m) \/ Polls(m) \/ Gives(m) \/ (Gets(m) /\ PageOf(m))
    \/ Tells(m) \/ Finishes(m) \/ TurnsPage(m)

OwnActions(m) ==
    ManagerStep(m) \/ StartFails(m) \/ PollFails(m) \/ VolumeGone(m) \/ ListenerThrows(m)

\* A step that changes the record of a manager by Update.
LEMMA Updated ==
    ASSUME EventTypes, NEW m \in Managers, NEW r \in ManagerRecord, Update(m, r),
           r.phase # "unused", manager[m].phase # "unused", r.listeners = manager[m].listeners,
           UNCHANGED <<watched, scope, log, expired, revoked, persisted, created, current, subscriber, skipped>>
    PROVE  OwnStep(m) /\ manager'[m] = r
BY DEF Update, EventTypes, OwnStep

LEMMA OwnStepIs ==
    ASSUME EventTypes, NEW m \in Managers, IdsInv(m), OwnActions(m)
    PROVE  OwnStep(m) /\ OwnCases(m)
<1> DEFINE r == manager[m]
           a == r.anchor
<1>1. /\ r \in ManagerRecord /\ m \in DOMAIN manager /\ Len(log) \in Nat
      /\ r.phase # "unused" => r.phase \in Phases
  BY DEF EventTypes, ManagerRecord
<1> USE DEF History, ServerUnchanged
<1>2. CASE StartWithLatest(m)
  <2> DEFINE k == Len(log)
             n == [r EXCEPT !.phase = "waiting", !.latest = k]
  <2>5. k \in Int
    BY <1>1
  <2> HIDE DEF k
  <2>1. /\ n \in ManagerRecord /\ n.phase = "waiting" /\ n.latest = k /\ n.anchor = r.anchor
        /\ n.queue = r.queue /\ n.next = r.next /\ n.listeners = r.listeners
    BY <1>1, <2>5 DEF ManagerRecord, Phases
  <2>2. Update(m, n)
    BY <1>2 DEF StartWithLatest, k
  <2> HIDE DEF n
  <2>3. OwnStep(m) /\ manager'[m] = n
    BY <1>2, <2>1, <2>2, Updated DEF StartWithLatest
  <2>4. Starts(m)
    BY <1>2, <2>1, <2>3 DEF StartWithLatest, Starts, FieldsAre, k
  <2> QED
    BY <2>3, <2>4 DEF OwnCases
<1>3. CASE StartFails(m) \/ ListenerThrows(m)
  <2> DEFINE n == [r EXCEPT !.phase = "off"]
  <2>1. /\ n \in ManagerRecord /\ n.phase = "off" /\ n.latest = r.latest /\ n.anchor = r.anchor
        /\ n.queue = r.queue /\ n.next = r.next /\ n.listeners = r.listeners
    BY <1>1 DEF ManagerRecord, Phases
  <2>2. Update(m, n)
    BY <1>3 DEF StartFails, ListenerThrows
  <2> HIDE DEF n
  <2>3. OwnStep(m) /\ manager'[m] = n
    BY <1>3, <2>1, <2>2, Updated DEF StartFails, ListenerThrows
  <2>4. Stops(m)
    BY <1>3, <2>1, <2>3 DEF StartFails, ListenerThrows, Stops, FieldsAre
  <2> QED
    BY <2>3, <2>4 DEF OwnCases
<1>4. CASE NextPoll(m)
  <2> DEFINE n == [r EXCEPT !.phase = "asking", !.anchor = r.latest]
  <2>1. /\ n \in ManagerRecord /\ n.phase = "asking" /\ n.latest = r.latest /\ n.anchor = r.latest
        /\ n.queue = r.queue /\ n.next = r.next /\ n.listeners = r.listeners
    BY <1>1 DEF ManagerRecord, Phases
  <2>2. Update(m, n)
    BY <1>4 DEF NextPoll
  <2> HIDE DEF n
  <2>3. OwnStep(m) /\ manager'[m] = n
    BY <1>4, <2>1, <2>2, Updated DEF NextPoll
  <2>4. Polls(m)
    BY <1>4, <2>1, <2>3 DEF NextPoll, Polls, FieldsAre
  <2> QED
    BY <2>3, <2>4 DEF OwnCases
<1>5. CASE PollFails(m)
  <2> DEFINE n == [r EXCEPT !.phase = "waiting", !.more = FALSE]
  <2>1. /\ n \in ManagerRecord /\ n.phase = "waiting" /\ n.latest = r.latest /\ n.anchor = r.anchor
        /\ n.queue = r.queue /\ n.next = r.next /\ n.listeners = r.listeners
    BY <1>1 DEF ManagerRecord, Phases
  <2>2. Update(m, n)
    BY <1>5 DEF PollFails
  <2> HIDE DEF n
  <2>3. OwnStep(m) /\ manager'[m] = n
    BY <1>5, <2>1, <2>2, Updated DEF PollFails
  <2>4. Gives(m)
    BY <1>5, <2>1, <2>3 DEF PollFails, Gives, FieldsAre
  <2> QED
    BY <2>3, <2>4 DEF OwnCases
<1>6. CASE NotifyListener(m)
  <2> DEFINE n == [r EXCEPT !.next = @ + 1]
  <2>1. /\ n \in ManagerRecord /\ n.phase = r.phase /\ n.latest = r.latest /\ n.anchor = r.anchor
        /\ n.queue = r.queue /\ n.next = r.next + 1 /\ n.listeners = r.listeners
    BY <1>1 DEF ManagerRecord
  <2>2. Update(m, n) /\ TheEvent(m) = r.queue[1] /\ r.phase = "telling"
    BY <1>6 DEF NotifyListener, TheEvent
  <2> HIDE DEF n
  <2>3. OwnStep(m) /\ manager'[m] = n
    BY <1>6, <2>1, <2>2, Updated DEF NotifyListener
  <2>4. Tells(m)
    BY <1>6, <2>1, <2>2, <2>3 DEF NotifyListener, Tells, FieldsAre
  <2> QED
    BY <2>3, <2>4 DEF OwnCases
<1>7. CASE EventDone(m)
  <2> DEFINE k == TheEvent(m).id
             rest == Tail(r.queue)
             n == [r EXCEPT !.latest = k, !.queue = rest, !.next = 1]
  <2>1. /\ r.phase = "telling" /\ r.queue # <<>> /\ r.queue \in Seq(EventRecord)
        /\ TheEvent(m) = r.queue[1] /\ TheEvent(m) \in EventRecord
        /\ Tail(r.queue) \in Seq(EventRecord)
    BY <1>1, <1>7 DEF EventDone, TheEvent, ManagerRecord
  <2>2. /\ n \in ManagerRecord /\ n.phase = r.phase /\ n.latest = r.queue[1].id /\ n.anchor = r.anchor
        /\ n.queue = Tail(r.queue) /\ n.next = 1 /\ n.listeners = r.listeners
    <3>1. k \in Int /\ rest \in Seq(EventRecord) /\ k = r.queue[1].id /\ rest = Tail(r.queue)
      BY <2>1 DEF EventRecord
    <3> HIDE DEF k, rest
    <3>2. n \in ManagerRecord
      <4> DEFINE n0 == [r EXCEPT !.latest = k, !.queue = rest]
      <4>1. n0 \in ManagerRecord
        BY <1>1, <3>1 DEF ManagerRecord
      <4>2. n = [n0 EXCEPT !.next = 1]
        OBVIOUS
      <4> HIDE DEF n0, n
      <4> QED
        BY <4>1, <4>2 DEF ManagerRecord
    <3>3. n.phase = r.phase /\ n.latest = k /\ n.anchor = r.anchor
      BY <1>1 DEF ManagerRecord
    <3>4. n.queue = rest /\ n.next = 1 /\ n.listeners = r.listeners
      BY <1>1 DEF ManagerRecord
    <3> QED
      BY <3>1, <3>2, <3>3, <3>4, Zenon
  <2>3. Update(m, n)
    BY <1>7 DEF EventDone
  <2> HIDE DEF n
  <2>4. OwnStep(m) /\ manager'[m] = n
    BY <1>7, <2>1, <2>2, <2>3, Updated DEF EventDone
  <2>5. PICK more : /\ told' = [told EXCEPT ![m] = @ \cup more] /\ more \subseteq Int
                    /\ \A id \in Int : Covers(r.queue[1], id) => id \in more
    <3> DEFINE more == CASE TheEvent(m).type = "node" -> {TheEvent(m).id}
                         [] TheEvent(m).type \in {"refresh", "shared"} -> 1 .. TheEvent(m).id
                         [] OTHER -> {}
    <3>1. told' = [told EXCEPT ![m] = @ \cup more]
      BY <1>7 DEF EventDone
    <3>2. TheEvent(m).id \in Int
      BY <2>1 DEF EventRecord
    <3>3. more \subseteq Int
      BY <3>2
    <3>4. \A id \in Int : Covers(r.queue[1], id) => id \in more
      BY <2>1, <3>2 DEF Covers
    <3> QED
      BY <3>1, <3>3, <3>4
  <2>6. Finishes(m)
    <3>1. told \in [Managers -> SUBSET Int]
      BY DEF EventTypes
    <3>2. told'[m] = told[m] \cup more /\ told' = [told EXCEPT ![m] = told'[m]]
      BY <2>5, <3>1
    <3>3. UNCHANGED seen /\ r.next > Len(r.listeners)
      BY <1>7 DEF EventDone
    <3>4. FieldsAre(m, "telling", r.queue[1].id, r.anchor, Tail(r.queue), 1)
      BY <2>1, <2>2, <2>4 DEF FieldsAre
    <3> QED
      BY <2>1, <2>5, <3>1, <3>2, <3>3, <3>4 DEF Finishes
  <2> QED
    BY <2>4, <2>6 DEF OwnCases
<1>8. CASE PageDone(m)
  <2> DEFINE ph == IF r.more /\ ~r.broken THEN "asking" ELSE "waiting"
             an == IF r.more THEN r.anchor ELSE 0
             n == [r EXCEPT !.phase = ph, !.anchor = an, !.more = FALSE, !.broken = FALSE]
  <2>1. /\ n \in ManagerRecord /\ n.phase \in {"asking", "waiting"} /\ n.latest = r.latest
        /\ n.phase = "asking" => n.anchor = r.anchor
        /\ n.listeners = r.listeners
    <3>1. ph \in {"asking", "waiting"} /\ ph \in Phases
      BY DEF Phases
    <3>2. an \in Int
      BY <1>1 DEF ManagerRecord
    <3>3. ph = "asking" => an = r.anchor
      OBVIOUS
    <3> HIDE DEF ph, an
    <3>4. n \in ManagerRecord
      BY <1>1, <3>1, <3>2 DEF ManagerRecord
    <3>5. n.phase = ph /\ n.latest = r.latest /\ n.anchor = an /\ n.listeners = r.listeners
      BY <1>1 DEF ManagerRecord
    <3> QED
      BY <3>1, <3>3, <3>4, <3>5
  <2>2. Update(m, n) /\ r.phase = "telling" /\ r.queue = <<>>
    BY <1>8 DEF PageDone
  <2> HIDE DEF n
  <2>3. OwnStep(m) /\ manager'[m] = n
    BY <1>8, <2>1, <2>2, Updated DEF PageDone
  <2>4. TurnsPage(m)
    BY <1>8, <2>1, <2>2, <2>3 DEF PageDone, TurnsPage
  <2> QED
    BY <2>3, <2>4 DEF OwnCases
<1>9. ASSUME NEW events \in Seq(EventRecord), NEW end \in Int, NEW more \in BOOLEAN, NEW broken \in BOOLEAN,
             r.phase = "asking", Telling(m, events, end, more, broken),
             UNCHANGED <<watched, scope, log, expired, revoked, persisted, created, current, subscriber, skipped>>,
             UNCHANGED <<seen, told>>
      PROVE  OwnStep(m) /\ Gets(m) /\ Page(m, events, end)
  <2> DEFINE n == [r EXCEPT !.phase = "telling", !.queue = events, !.next = 1,
                     !.anchor = end, !.more = more, !.broken = broken]
  <2>1. /\ n \in ManagerRecord /\ n.phase = "telling" /\ n.latest = r.latest /\ n.anchor = end
        /\ n.queue = events /\ n.next = 1 /\ n.listeners = r.listeners
    <3>1. n \in ManagerRecord
      <4> DEFINE n0 == [r EXCEPT !.phase = "telling", !.queue = events]
                 n2 == [n0 EXCEPT !.next = 1]
                 n1 == [n2 EXCEPT !.anchor = end]
      <4>1. n0 \in ManagerRecord
        BY <1>1 DEF ManagerRecord, Phases
      <4>2. n = [n1 EXCEPT !.more = more, !.broken = broken]
        OBVIOUS
      <4> HIDE DEF n0, n
      <4>4. n2 \in ManagerRecord
        BY <4>1, SMTT(40) DEF ManagerRecord
      <4> HIDE DEF n2
      <4>3. n1 \in ManagerRecord
        BY <4>4 DEF ManagerRecord
      <4> HIDE DEF n1
      <4> QED
        BY <4>2, <4>3 DEF ManagerRecord
    <3>2. n.phase = "telling" /\ n.latest = r.latest /\ n.anchor = end
      BY <1>1 DEF ManagerRecord
    <3>3. n.queue = events /\ n.next = 1 /\ n.listeners = r.listeners
      BY <1>1 DEF ManagerRecord
    <3> QED
      BY <3>1, <3>2, <3>3
  <2>2. Update(m, n)
    BY <1>9 DEF Telling
  <2> HIDE DEF n
  <2>3. OwnStep(m) /\ manager'[m] = n
    BY <1>9, <2>1, <2>2, Updated
  <2> QED
    BY <1>9, <2>1, <2>3 DEF Gets, Page
<1>10. CASE VolumeGone(m)
  <2> DEFINE q == <<[type |-> "remove", id |-> NoId]>>
  <2>1. q \in Seq(EventRecord) /\ NoId \in Int
    BY DEF EventRecord, NoId
  <2>2. Telling(m, q, NoId, FALSE, TRUE) /\ revoked /\ r.phase = "asking"
    BY <1>10 DEF VolumeGone
  <2> HIDE DEF q
  <2>3. OwnStep(m) /\ Gets(m) /\ Page(m, q, NoId)
    BY <1>9, <1>10, <2>1, <2>2 DEF VolumeGone
  <2> QED
    BY <2>2, <2>3 DEF OwnCases, PageOf, q
<1>11. CASE VolumeEvents(m) \/ CoreEvents(m)
  <2>1. r.phase = "asking" /\ a \in 0 .. Len(log)
    <3>1. r.phase = "asking" /\ (a # NoId \/ scope = "core")
      BY <1>11 DEF VolumeEvents, CoreEvents
    <3> QED
      BY <3>1 DEF IdsInv, IsId, EventTypes
  <2>2. PageEnd(a) \in a .. Len(log) /\ PageEvents(a) \in Seq(EventRecord)
    BY <2>1, PageIs DEF EventTypes
  <2> DEFINE q1 == <<[type |-> "refresh", id |-> Len(log)]>>
             q2 == <<[type |-> "shared", id |-> PageEnd(a)]>>
             q3 == <<[type |-> "forward", id |-> PageEnd(a)]>>
  <2>3. /\ q1 \in Seq(EventRecord) /\ q2 \in Seq(EventRecord) /\ q3 \in Seq(EventRecord)
        /\ <<>> \in Seq(EventRecord)
    BY <1>1, <2>1, <2>2 DEF EventRecord
  <2>4. PICK events \in Seq(EventRecord), end \in Int, more \in BOOLEAN :
            /\ Telling(m, events, end, more, FALSE)
            /\ \/ events = q1 /\ end = Len(log)
               \/ events = q2 /\ end = PageEnd(a)
               \/ events = q3 /\ end = PageEnd(a) /\ PageEvents(a) = <<>>
               \/ events = PageEvents(a) /\ end = PageEnd(a)
    <3>1. Len(log) \in Int /\ PageEnd(a) \in Int /\ (PageEnd(a) < Len(log)) \in BOOLEAN
      BY <1>1, <2>1, <2>2
    <3> HIDE DEF q1, q2, q3
    <3>2. CASE VolumeEvents(m)
      <4>1. \/ Telling(m, q1, Len(log), FALSE, FALSE)
            \/ PageEvents(a) = <<>> /\ Telling(m, q3, PageEnd(a), FALSE, FALSE)
            \/ Telling(m, PageEvents(a), PageEnd(a), PageEnd(a) < Len(log), FALSE)
        BY <3>2 DEF VolumeEvents, q1, q3
      <4> QED
        BY <2>2, <2>3, <3>1, <4>1
    <3>3. CASE CoreEvents(m)
      <4>1. \/ Telling(m, q2, PageEnd(a), FALSE, FALSE)
            \/ PageEvents(a) = <<>> /\ Telling(m, q3, PageEnd(a), FALSE, FALSE)
            \/ PageEvents(a) = <<>> /\ Telling(m, <<>>, PageEnd(a), FALSE, FALSE)
        BY <3>3 DEF CoreEvents, GetDriveEventsFromCoreEvent, q2, q3
      <4> QED
        BY <2>2, <2>3, <3>1, <4>1
    <3> QED
      BY <1>11, <3>2, <3>3
  <2> HIDE DEF q1, q2, q3
  <2>5. OwnStep(m) /\ Gets(m) /\ Page(m, events, end)
    BY <1>9, <1>11, <2>1, <2>4 DEF VolumeEvents, CoreEvents
  <2> QED
    BY <2>1, <2>4, <2>5 DEF OwnCases, PageOf, q1, q2, q3
<1> QED
  BY <1>2, <1>3, <1>4, <1>5, <1>6, <1>7, <1>8, <1>10, <1>11 DEF OwnActions, ManagerStep


\* What another step may change around manager m: the log grows, access goes, other
\* subscriptions come and go.
Around(m) ==
    /\ manager'[m] = manager[m] /\ seen'[m] = seen[m] /\ told'[m] = told[m] /\ skipped'[m] = skipped[m]
    /\ persisted' = persisted /\ (revoked => revoked')
    /\ Len(log') \in Nat /\ Len(log) <= Len(log') /\ \A id \in 1 .. Len(log) : log'[id] = log[id]
    /\ \A s \in Subscribers : subscriber'[s] = [state |-> "on", at |-> m] <=> subscriber[s] = [state |-> "on", at |-> m]

\* Steps elsewhere leave a manager right.
LEMMA AroundKeeps ==
    ASSUME EventTypes, NEW m \in Managers, ManagerInv(m), Around(m)
    PROVE  ManagerInv(m)'
<1> DEFINE r == manager[m]
<1>1. /\ r \in ManagerRecord /\ Len(log) \in Nat /\ Len(r.queue) \in Nat /\ Len(r.listeners) \in Nat
      /\ \A i \in 1 .. Len(r.queue) : r.queue[i] \in EventRecord
      /\ \A i \in 1 .. Len(r.listeners) : r.listeners[i] \in Listeners
  BY DEF EventTypes, ManagerRecord
<1>2. \A id \in Int : IsId(id) => IsId(id)' /\ (1 .. id \subseteq 1 .. Len(log))
  BY <1>1 DEF Around, IsId, NoId
<1>3. IdsInv(m)'
  <2>1. \A i \in 1 .. Len(r.queue) : r.queue[i].id \in Int
    BY <1>1 DEF EventRecord
  <2>2. r.latest \in Int /\ r.anchor \in Int
    BY <1>1 DEF ManagerRecord
  <2>3. manager'[m] = r /\ persisted' = persisted
    BY DEF Around
  <2> QED
    BY <1>2, <2>1, <2>2, <2>3 DEF ManagerInv, IdsInv
<1>4. LostInv(m)'
  <2>1. r.latest \in Int /\ r.anchor \in Int /\ \A i \in 1 .. Len(r.queue) : r.queue[i].id \in Int
    BY <1>1 DEF EventRecord, ManagerRecord
  <2>2. \A id \in 1 .. r.latest : log'[id] = log[id]
    BY <1>2, <2>1 DEF ManagerInv, IdsInv, Around, Undefined
  <2>3. r.phase \in {"asking", "telling"} => \A id \in 1 .. r.anchor : log'[id] = log[id]
    BY <1>2, <2>1 DEF ManagerInv, IdsInv, Around
  <2>4. r.phase = "telling" => \A i \in 1 .. Len(r.queue) : \A id \in 1 .. r.queue[i].id : log'[id] = log[id]
    BY <1>2, <2>1 DEF ManagerInv, IdsInv, Around
  <2>5. manager'[m] = r /\ persisted' = persisted /\ told'[m] = told[m]
    BY DEF Around
  <2>6. LostInv(m)
    BY DEF ManagerInv
  <2> QED
    BY <2>2, <2>3, <2>4, <2>5, <2>6 DEF LostInv, Covers
<1>5. ListInv(m)'
  <2>1. manager'[m] = r /\ skipped'[m] = skipped[m]
    BY DEF Around
  <2>2. \A i \in 1 .. Len(r.listeners) : r.listeners[i] # Cache => r.listeners[i] \in Subscribers
    BY <1>1 DEF Listeners
  <2>3. \A l \in Listeners : l = Cache \/ l \in Subscribers
    BY DEF Listeners
  <2> QED
    BY <2>1, <2>2, <2>3 DEF ManagerInv, ListInv, Around
<1>6. SeenInv(m)'
  BY DEF ManagerInv, SeenInv, Around
<1> QED
  BY <1>3, <1>4, <1>5, <1>6 DEF ManagerInv

-----------------------------------------------------------------------------
(* The event managers: a step of a manager keeps it right.                 *)

\* The ids.
LEMMA OwnIds ==
    ASSUME EventTypes, NEW m \in Managers, ManagerInv(m), OwnStep(m), OwnCases(m)
    PROVE  IdsInv(m)'
<1> DEFINE r == manager[m]
           n == manager'[m]
<1>1. /\ r \in ManagerRecord /\ n \in ManagerRecord /\ Len(log) \in Nat /\ Len(r.queue) \in Nat
      /\ Len(n.queue) \in Nat
  <2>1. r \in ManagerRecord /\ n \in ManagerRecord /\ Len(log) \in Nat
    BY DEF EventTypes, OwnStep
  <2>2. r.queue \in Seq(EventRecord) /\ n.queue \in Seq(EventRecord)
    BY <2>1 DEF ManagerRecord
  <2> QED
    BY <2>1, <2>2
<1>2. /\ \A id : IsId(id)' <=> IsId(id)
      /\ persisted' = persisted /\ log' = log
  BY DEF OwnStep, IsId
<1>3. IdsInv(m)
  BY DEF ManagerInv
<1>4. IsId(Len(log))
  BY <1>1 DEF IsId
<1>5. CASE Starts(m)
  BY <1>2, <1>4, <1>5 DEF Starts, FieldsAre, IdsInv
<1>6. CASE Stops(m)
  BY <1>2, <1>3, <1>6 DEF Stops, FieldsAre, IdsInv
<1>7. CASE Polls(m)
  BY <1>2, <1>3, <1>7 DEF Polls, FieldsAre, IdsInv
<1>8. CASE Gives(m)
  BY <1>2, <1>3, <1>8 DEF Gives, FieldsAre, IdsInv
<1>9. CASE Gets(m) /\ PageOf(m)
  <2> DEFINE a == r.anchor
  <2>1. IsId(n.anchor) /\ \A i \in 1 .. Len(n.queue) : IsId(n.queue[i].id)
    <3>1. CASE revoked /\ Page(m, <<[type |-> "remove", id |-> NoId]>>, NoId)
      BY <3>1 DEF Page, IsId
    <3>2. CASE a \in 0 .. Len(log) /\ Page(m, PageEvents(a), PageEnd(a))
      <4>1. PageEnd(a) \in a .. Len(log) /\ \A i \in 1 .. Len(PageEvents(a)) : PageEvents(a)[i].id \in a + 1 .. PageEnd(a)
        BY <3>2, PageIs DEF EventTypes
      <4> QED
        BY <1>1, <3>2, <4>1 DEF Page, IsId
    <3>3. ASSUME a \in 0 .. Len(log), NEW t, NEW e \in {Len(log), PageEnd(a)}, Page(m, <<[type |-> t, id |-> e]>>, e)
          PROVE  IsId(n.anchor) /\ \A i \in 1 .. Len(n.queue) : IsId(n.queue[i].id)
      <4>1. PageEnd(a) \in a .. Len(log)
        BY <3>3, PageIs DEF EventTypes
      <4>2. IsId(e)
        BY <1>1, <3>3, <4>1 DEF IsId
      <4>3. n.anchor = e /\ Len(n.queue) = 1 /\ n.queue[1].id = e
        BY <3>3 DEF Page
      <4> QED
        BY <4>2, <4>3
    <3> QED
      BY <1>9, <3>1, <3>2, <3>3 DEF PageOf
  <2>2. n.phase = "telling" /\ n.latest = r.latest /\ r.phase = "asking"
    BY <1>9 DEF Gets
  <2> QED
    BY <1>2, <1>3, <2>1, <2>2 DEF IdsInv
<1>10. CASE Tells(m)
  BY <1>2, <1>3, <1>10 DEF Tells, FieldsAre, IdsInv
<1>11. CASE Finishes(m)
  <2>1. /\ r.phase = "telling" /\ r.queue # <<>> /\ n.queue = Tail(r.queue) /\ n.phase = "telling"
        /\ n.latest = r.queue[1].id /\ n.anchor = r.anchor
    BY <1>11 DEF Finishes, FieldsAre
  <2>2. r.queue \in Seq(EventRecord)
    BY <1>1 DEF ManagerRecord
  <2>3. /\ 1 \in 1 .. Len(r.queue) /\ Len(n.queue) = Len(r.queue) - 1
        /\ \A i \in 1 .. Len(n.queue) : n.queue[i] = r.queue[i + 1] /\ i + 1 \in 1 .. Len(r.queue)
    BY <2>1, <2>2
  <2>4. \A i \in 1 .. Len(r.queue) : IsId(r.queue[i].id)
    BY <1>3, <2>1 DEF IdsInv
  <2> QED
    BY <1>2, <1>3, <2>1, <2>3, <2>4 DEF IdsInv
<1>12. CASE TurnsPage(m)
  BY <1>2, <1>3, <1>12 DEF TurnsPage, IdsInv
<1> QED
  BY <1>5, <1>6, <1>7, <1>8, <1>9, <1>10, <1>11, <1>12 DEF OwnCases


\* Nothing is lost: the telling part of LostInv, for what a page holds.
Kept(m, queue, upTo) ==
    \A id \in 1 .. upTo :
        log[id] = "node" => id \in told[m] \/ \E j \in 1 .. Len(queue) : Covers(queue[j], id)

KeptBefore(m, queue) ==
    \A i \in 1 .. Len(queue) : \A id \in 1 .. queue[i].id :
        log[id] = "node" => id \in told[m] \/ \E j \in 1 .. i : Covers(queue[j], id)

\* A page tells of all that happened between its anchor and its end.
LEMMA PageKeeps ==
    ASSUME EventTypes, NEW m \in Managers, PageOf(m),
           \A id \in 1 .. manager[m].anchor : log[id] = "node" => id \in told[m]
    PROVE  /\ Kept(m, manager'[m].queue, manager'[m].anchor)
           /\ KeptBefore(m, manager'[m].queue)
<1> DEFINE a == manager[m].anchor
           q == manager'[m].queue
           e == manager'[m].anchor
<1>1. CASE revoked /\ Page(m, <<[type |-> "remove", id |-> NoId]>>, NoId)
  <2>1. e = NoId /\ Len(q) = 1 /\ q[1].id = NoId /\ \A id \in 1 .. NoId : FALSE
    BY <1>1 DEF Page, NoId
  <2> QED
    BY <2>1 DEF Kept, KeptBefore
<1>2. ASSUME a \in 0 .. Len(log)
      PROVE  /\ PageEnd(a) \in a .. Len(log) /\ Len(log) \in Nat
             /\ \A id \in a + 1 .. PageEnd(a) : log[id] = "node" =>
                   \E i \in 1 .. Len(PageEvents(a)) : PageEvents(a)[i].id = id
  <2>1. log \in Seq({"node", "silent"})
    BY DEF EventTypes
  <2>2. Len(log) \in Nat
    BY <2>1
  <2> QED
    BY <1>2, <2>1, <2>2, PageIs, Zenon
<1>3. ASSUME a \in 0 .. Len(log), NEW t \in {"refresh", "shared"}, NEW k \in Int, Page(m, <<[type |-> t, id |-> k]>>, k)
      PROVE  Kept(m, q, e) /\ KeptBefore(m, q)
  <2>1. e = k /\ Len(q) = 1 /\ q[1].id = k /\ q[1].type = t
    BY <1>3 DEF Page
  <2>2. \A id \in 1 .. k : Covers(q[1], id)
    BY <2>1 DEF Covers
  <2> QED
    BY <2>1, <2>2 DEF Kept, KeptBefore
<1>4. CASE a \in 0 .. Len(log) /\ PageEvents(a) = <<>> /\ Page(m, <<[type |-> "forward", id |-> PageEnd(a)]>>, PageEnd(a))
  <2>1. e = PageEnd(a) /\ Len(q) = 1 /\ q[1].id = PageEnd(a)
    BY <1>4 DEF Page
  <2>2. \A id \in a + 1 .. PageEnd(a) : log[id] # "node"
    BY <1>2, <1>4
  <2>3. \A id \in 1 .. PageEnd(a) : log[id] = "node" => id \in told[m]
    BY <1>2, <1>4, <2>2
  <2> QED
    BY <2>1, <2>3 DEF Kept, KeptBefore
<1>5. CASE a \in 0 .. Len(log) /\ Page(m, PageEvents(a), PageEnd(a))
  <2>1. e = PageEnd(a) /\ q = PageEvents(a)
    BY <1>5 DEF Page
  <2>2. /\ q \in Seq(EventRecord)
        /\ \A i \in 1 .. Len(q) : q[i].type = "node" /\ q[i].id \in a + 1 .. e
        /\ \A id \in a + 1 .. e : log[id] = "node" => \E i \in 1 .. Len(q) : q[i].id = id
        /\ \A i, j \in 1 .. Len(q) : q[i].id < q[j].id => i < j
        /\ e \in a .. Len(log)
    <3>1. log \in Seq({"node", "silent"}) /\ a \in 0 .. Len(log)
      BY <1>5 DEF EventTypes
    <3> DEFINE p == PageEvents(a)
               z == PageEnd(a)
    <3>2. /\ p \in Seq(EventRecord)
          /\ \A i \in 1 .. Len(p) : p[i].type = "node" /\ p[i].id \in a + 1 .. z
          /\ \A id \in a + 1 .. z : log[id] = "node" => \E i \in 1 .. Len(p) : p[i].id = id
          /\ \A i, j \in 1 .. Len(p) : p[i].id < p[j].id => i < j
          /\ z \in a .. Len(log)
      BY <3>1, PageIs, Zenon
    <3>3. e = z /\ q = p
      BY <2>1
    <3> HIDE DEF p, z, q, e
    <3> QED
      BY <3>2, <3>3
  <2>3. Len(q) \in Nat /\ a \in Nat /\ Len(log) \in Nat
    BY <1>2, <1>5, <2>2
  <2>4. \A i \in 1 .. Len(q) : Covers(q[i], q[i].id)
    BY <2>2 DEF Covers
  <2>5. \A id \in 1 .. e : log[id] = "node" => id \in told[m] \/ \E i \in 1 .. Len(q) : q[i].id = id
    <3> SUFFICES ASSUME NEW id \in 1 .. e, log[id] = "node", id \notin told[m]
                 PROVE  \E i \in 1 .. Len(q) : q[i].id = id
      OBVIOUS
    <3>1. id \in a + 1 .. e
      BY <2>2, <2>3
    <3> QED
      BY <2>2, <3>1
  <2>6. Kept(m, q, e)
    BY <2>4, <2>5 DEF Kept
  <2>7. KeptBefore(m, q)
    <3> SUFFICES ASSUME NEW i \in 1 .. Len(q), NEW id \in 1 .. q[i].id, log[id] = "node", id \notin told[m]
                 PROVE  \E j \in 1 .. i : Covers(q[j], id)
      BY DEF KeptBefore
    <3>1. id \in 1 .. e /\ q[i].id \in Int /\ id \in Int /\ id <= q[i].id
      BY <2>2, <2>3
    <3>2. PICK j \in 1 .. Len(q) : q[j].id = id
      BY <2>5, <3>1
    <3>3. CASE id = q[i].id
      BY <2>3, <2>4, <3>3
    <3>4. CASE id < q[i].id
      <4>1. j < i
        BY <2>2, <3>2, <3>4
      <4> QED
        BY <2>3, <2>4, <3>2, <4>1
    <3> QED
      BY <3>1, <3>3, <3>4
  <2> QED
    BY <2>6, <2>7
<1>6. CASE a \in 0 .. Len(log) /\ Page(m, <<[type |-> "refresh", id |-> Len(log)]>>, Len(log))
  BY <1>2, <1>3, <1>6
<1>7. CASE a \in 0 .. Len(log) /\ Page(m, <<[type |-> "shared", id |-> PageEnd(a)]>>, PageEnd(a))
  <2>1. PageEnd(a) \in Int
    BY <1>2, <1>7
  <2> QED
    BY <1>3, <1>7, <2>1
<1> QED
  BY <1>1, <1>4, <1>5, <1>6, <1>7 DEF PageOf

\* No event is lost between two polls or two pages.
LEMMA OwnLost ==
    ASSUME EventTypes, NEW m \in Managers, ManagerInv(m), OwnStep(m), OwnCases(m)
    PROVE  LostInv(m)'
<1> DEFINE r == manager[m]
           n == manager'[m]
<1>1. /\ r \in ManagerRecord /\ n \in ManagerRecord /\ Len(r.queue) \in Nat /\ r.queue \in Seq(EventRecord)
  BY DEF EventTypes, ManagerRecord, OwnStep
<1>2. log' = log /\ persisted' = persisted /\ r.phase # "unused" /\ n.phase # "unused"
  BY DEF OwnStep
<1> SUFFICES ASSUME persisted = 0 PROVE LostInv(m)'
  BY <1>2 DEF LostInv
<1>3. /\ \A id \in 1 .. r.latest : log[id] = "node" => id \in told[m]
      /\ r.phase = "asking" => \A id \in 1 .. r.anchor : log[id] = "node" => id \in told[m]
      /\ r.phase = "telling" => Kept(m, r.queue, r.anchor) /\ KeptBefore(m, r.queue)
  BY <1>2 DEF ManagerInv, LostInv, Kept, KeptBefore
<1>4. SUFFICES /\ \A id \in 1 .. n.latest : log[id] = "node" => id \in told'[m]
               /\ n.phase = "asking" => \A id \in 1 .. n.anchor : log[id] = "node" => id \in told'[m]
               /\ n.phase = "telling" =>
                    /\ \A i \in 1 .. Len(n.queue) : \A id \in 1 .. n.queue[i].id :
                          log[id] = "node" => id \in told'[m] \/ \E j \in 1 .. i : Covers(n.queue[j], id)
                    /\ \A id \in 1 .. n.anchor :
                          log[id] = "node" => id \in told'[m] \/ \E j \in 1 .. Len(n.queue) : Covers(n.queue[j], id)
  BY <1>2 DEF LostInv, Covers
<1>5. CASE Starts(m)
  BY <1>5 DEF Starts, ManagerInv, IdsInv, Undefined
<1>6. CASE Stops(m)
  BY <1>3, <1>6 DEF Stops, FieldsAre
<1>7. CASE Polls(m)
  BY <1>3, <1>7 DEF Polls, FieldsAre
<1>8. CASE Gives(m)
  BY <1>3, <1>8 DEF Gives, FieldsAre
<1>9. CASE Gets(m) /\ PageOf(m)
  <2>1. r.phase = "asking" /\ n.phase = "telling" /\ n.latest = r.latest /\ told' = told
    BY <1>9 DEF Gets
  <2>2. Kept(m, n.queue, n.anchor) /\ KeptBefore(m, n.queue)
    BY <1>3, <1>9, <2>1, PageKeeps
  <2> QED
    BY <1>3, <2>1, <2>2 DEF Kept, KeptBefore
<1>10. CASE Tells(m)
  <2>1. /\ r.phase = "telling" /\ n.phase = "telling" /\ n.latest = r.latest /\ n.anchor = r.anchor
        /\ n.queue = r.queue /\ told' = told
    BY <1>10 DEF Tells, FieldsAre
  <2> QED
    BY <1>3, <2>1 DEF Kept, KeptBefore
<1>11. CASE Finishes(m)
  <2>1. /\ r.phase = "telling" /\ r.queue # <<>> /\ n.queue = Tail(r.queue) /\ n.phase = "telling"
        /\ n.latest = r.queue[1].id /\ n.anchor = r.anchor
        /\ told[m] \subseteq told'[m] /\ \A id \in Int : Covers(r.queue[1], id) => id \in told'[m]
    BY <1>11 DEF Finishes, FieldsAre
  <2> DEFINE k == Len(r.queue)
  <2>2. /\ k \in Nat \ {0} /\ Len(n.queue) = k - 1
        /\ \A i \in 1 .. k - 1 : n.queue[i] = r.queue[i + 1]
        /\ \A i \in 1 .. k : r.queue[i].id \in Int
    <3>1. \A i \in 1 .. k : r.queue[i] \in EventRecord
      BY <1>1
    <3>2. k \in Nat \ {0} /\ Len(n.queue) = k - 1
      BY <1>1, <2>1
    <3>3. \A i \in 1 .. k - 1 : n.queue[i] = r.queue[i + 1]
      BY <1>1, <2>1
    <3> QED
      BY <3>1, <3>2, <3>3 DEF EventRecord
  <2>3. Kept(m, r.queue, r.anchor) /\ KeptBefore(m, r.queue)
    BY <1>3, <2>1
  <2> HIDE DEF k
  <2>4. ASSUME NEW i \in 0 .. k - 1, NEW id \in Int, id \in told[m] \/ \E j \in 1 .. i + 1 : Covers(r.queue[j], id)
        PROVE  id \in told'[m] \/ \E j \in 1 .. i : Covers(n.queue[j], id)
    <3> SUFFICES ASSUME id \notin told'[m] PROVE \E j \in 1 .. i : Covers(n.queue[j], id)
      OBVIOUS
    <3>1. PICK j \in 1 .. i + 1 : Covers(r.queue[j], id)
      BY <2>1, <2>4
    <3>2. j # 1
      BY <2>1, <3>1
    <3>3. j - 1 \in 1 .. i /\ j - 1 \in 1 .. k - 1 /\ (j - 1) + 1 = j
      BY <2>2, <3>2
    <3>4. n.queue[j - 1] = r.queue[j]
      BY <2>2, <3>3
    <3> QED
      BY <3>1, <3>3, <3>4
  <2>5. \A id \in 1 .. n.latest : log[id] = "node" => id \in told'[m]
    <3> SUFFICES ASSUME NEW id \in 1 .. r.queue[1].id, log[id] = "node" PROVE id \in told'[m]
      BY <2>1
    <3>1. id \in told[m] \/ \E j \in 1 .. 1 : Covers(r.queue[j], id)
      BY <2>2, <2>3 DEF KeptBefore, k
    <3>2. id \in Int
      BY <2>2
    <3> QED
      BY <2>1, <3>1, <3>2
  <2>6. ASSUME NEW i \in 1 .. Len(n.queue), NEW id \in 1 .. n.queue[i].id, log[id] = "node"
        PROVE  id \in told'[m] \/ \E j \in 1 .. i : Covers(n.queue[j], id)
    <3>1. i \in 1 .. k - 1 /\ i \in 0 .. k - 1 /\ i + 1 \in 1 .. k /\ n.queue[i] = r.queue[i + 1]
      BY <2>2
    <3>2. id \in Int /\ id \in 1 .. r.queue[i + 1].id
      BY <2>2, <3>1
    <3>3. id \in told[m] \/ \E j \in 1 .. i + 1 : Covers(r.queue[j], id)
      BY <2>3, <2>6, <3>1, <3>2 DEF KeptBefore, k
    <3> QED
      BY <2>4, <3>1, <3>2, <3>3
  <2>7. ASSUME NEW id \in 1 .. r.anchor, log[id] = "node"
        PROVE  id \in told'[m] \/ \E j \in 1 .. Len(n.queue) : Covers(n.queue[j], id)
    <3>1. id \in told[m] \/ \E j \in 1 .. k : Covers(r.queue[j], id)
      BY <2>3, <2>7 DEF Kept, k
    <3>2. k - 1 \in 0 .. k - 1 /\ (k - 1) + 1 = k
      BY <2>2
    <3>3. id \in Int
      BY <1>1 DEF ManagerRecord
    <3> QED
      BY <2>2, <2>4, <3>1, <3>2, <3>3
  <2> QED
    BY <2>1, <2>5, <2>6, <2>7
<1>12. CASE TurnsPage(m)
  <2>1. /\ r.phase = "telling" /\ r.queue = <<>> /\ n.phase \in {"asking", "waiting"} /\ n.latest = r.latest
        /\ n.phase = "asking" => n.anchor = r.anchor
        /\ told' = told
    BY <1>12 DEF TurnsPage
  <2>2. \A id \in 1 .. r.anchor : log[id] = "node" => id \in told[m]
    BY <1>3, <2>1 DEF Kept
  <2> QED
    BY <1>3, <2>1, <2>2
<1> QED
  BY <1>5, <1>6, <1>7, <1>8, <1>9, <1>10, <1>11, <1>12 DEF OwnCases


\* The listeners are called in their order, each once.
LEMMA OwnSeen ==
    ASSUME EventTypes, NEW m \in Managers, ManagerInv(m), OwnStep(m), OwnCases(m)
    PROVE  SeenInv(m)'
<1> DEFINE r == manager[m]
           n == manager'[m]
           ls == r.listeners
<1>1. /\ r \in ManagerRecord /\ ls \in Seq(Listeners) /\ Len(ls) \in Nat /\ r.next \in Nat \ {0}
      /\ \A i \in 1 .. Len(ls) : ls[i] \in Listeners
      /\ seen \in [Managers -> [Listeners -> Int]]
  BY DEF EventTypes, ManagerRecord
<1>2. n.listeners = ls /\ skipped' = skipped /\ r.phase # "unused"
  BY DEF OwnStep
<1>3. /\ r.phase \in {"waiting", "asking", "telling"} =>
            \A i \in 1 .. Len(ls) :
                \/ ls[i] \in skipped[m]
                \/ seen[m][ls[i]] = IF r.phase = "telling" /\ r.queue # <<>> /\ i < r.next
                                      THEN r.queue[1].id ELSE r.latest
      /\ (r.phase = "telling" /\ r.queue # <<>> /\ r.next > 1) =>
            \A i \in 1 .. Len(ls) : ls[i] = Cache => seen[m][Cache] = r.queue[1].id
  BY DEF ManagerInv, SeenInv
<1>4. SUFFICES /\ n.phase \in {"waiting", "asking", "telling"} =>
                    \A i \in 1 .. Len(ls) :
                        \/ ls[i] \in skipped[m]
                        \/ seen'[m][ls[i]] = IF n.phase = "telling" /\ n.queue # <<>> /\ i < n.next
                                              THEN n.queue[1].id ELSE n.latest
               /\ (n.phase = "telling" /\ n.queue # <<>> /\ n.next > 1) =>
                    \A i \in 1 .. Len(ls) : ls[i] = Cache => seen'[m][Cache] = n.queue[1].id
  BY <1>2 DEF SeenInv
<1>5. CASE Starts(m)
  <2>1. n.phase = "waiting" /\ n.latest = Len(log) /\ \A l \in Listeners : seen'[m][l] = Len(log)
    BY <1>1, <1>5 DEF Starts, FieldsAre
  <2> QED
    BY <1>1, <2>1
<1>6. CASE Stops(m)
  BY <1>6 DEF Stops, FieldsAre
<1>7. CASE Polls(m)
  BY <1>3, <1>7 DEF Polls, FieldsAre
<1>8. CASE Gives(m)
  BY <1>3, <1>8 DEF Gives, FieldsAre
<1>9. CASE Gets(m) /\ PageOf(m)
  <2>1. r.phase = "asking" /\ n.phase = "telling" /\ n.latest = r.latest /\ n.next = 1 /\ seen' = seen
    BY <1>9 DEF Gets
  <2> QED
    BY <1>3, <2>1
<1>10. CASE Tells(m)
  <2> DEFINE k == r.next
             e == r.queue[1].id
  <2>1. /\ r.phase = "telling" /\ r.queue # <<>> /\ k \in 1 .. Len(ls) /\ n.phase = "telling"
        /\ n.latest = r.latest /\ n.queue = r.queue /\ n.next = k + 1
        /\ seen' = [seen EXCEPT ![m][ls[k]] = e]
    BY <1>1, <1>10 DEF Tells, FieldsAre
  <2> HIDE DEF k, e
  <2>2. seen'[m][ls[k]] = e /\ \A l \in Listeners : l # ls[k] => seen'[m][l] = seen[m][l]
    BY <1>1, <2>1
  <2>3. /\ \A i, j \in 1 .. Len(ls) : ls[i] = ls[j] => i = j
        /\ \A i \in 1 .. Len(ls) : ls[i] = Cache => i = 1
    BY <1>2 DEF ManagerInv, ListInv
  <2>4. ASSUME NEW i \in 1 .. Len(ls), ls[i] \notin skipped[m]
        PROVE  seen'[m][ls[i]] = IF i < k + 1 THEN e ELSE r.latest
    <3>1. CASE i = k
      BY <1>1, <2>1, <2>2, <3>1
    <3>2. CASE i # k
      <4>1. seen'[m][ls[i]] = seen[m][ls[i]]
        BY <1>1, <2>1, <2>2, <2>3, <3>2
      <4>2. seen[m][ls[i]] = IF i < k THEN e ELSE r.latest
        BY <1>3, <2>1, <2>4 DEF k, e
      <4>3. i < k + 1 <=> i < k
        BY <1>1, <2>1, <3>2
      <4> QED
        BY <4>1, <4>2, <4>3
    <3> QED
      BY <3>1, <3>2
  <2>5. ASSUME NEW i \in 1 .. Len(ls), ls[i] = Cache
        PROVE  seen'[m][Cache] = e
    <3>1. i = 1
      BY <2>3, <2>5
    <3>2. CASE k = 1
      BY <2>2, <2>5, <3>1, <3>2
    <3>3. CASE k # 1
      <4>1. k > 1 /\ ls[k] # Cache
        BY <2>1, <2>3, <3>3
      <4>2. seen[m][Cache] = e
        BY <1>3, <2>1, <2>5, <4>1 DEF k, e
      <4> QED
        BY <1>1, <2>2, <2>5, <4>1, <4>2
    <3> QED
      BY <3>2, <3>3
  <2> QED
    BY <2>1, <2>4, <2>5 DEF e
<1>11. CASE Finishes(m)
  <2>1. /\ r.phase = "telling" /\ r.queue # <<>> /\ r.next > Len(ls) /\ n.phase = "telling"
        /\ n.latest = r.queue[1].id /\ n.next = 1 /\ seen' = seen
    BY <1>11 DEF Finishes, FieldsAre
  <2>2. \A i \in 1 .. Len(ls) : i < r.next /\ ~(i < 1)
    BY <1>1, <2>1
  <2> QED
    BY <1>3, <2>1, <2>2
<1>12. CASE TurnsPage(m)
  <2>1. /\ r.phase = "telling" /\ r.queue = <<>> /\ n.phase \in {"asking", "waiting"} /\ n.latest = r.latest
        /\ seen' = seen
    BY <1>12 DEF TurnsPage
  <2> QED
    BY <1>3, <2>1
<1> QED
  BY <1>5, <1>6, <1>7, <1>8, <1>9, <1>10, <1>11, <1>12 DEF OwnCases

LEMMA OwnKeeps ==
    ASSUME EventTypes, NEW m \in Managers, ManagerInv(m), OwnActions(m)
    PROVE  ManagerInv(m)'
<1>1. OwnStep(m) /\ OwnCases(m)
  BY OwnStepIs DEF ManagerInv
<1>2. ListInv(m)'
  BY <1>1 DEF OwnStep, ManagerInv, ListInv
<1> QED
  BY <1>1, <1>2, OwnIds, OwnLost, OwnSeen DEF ManagerInv

-----------------------------------------------------------------------------
(* The event managers: subscriptions.                                      *)

\* A subscription to a manager that runs.
LEMMA AddListenerKeeps ==
    ASSUME EventTypes, NEW m \in Managers, NEW s \in Subscribers, ManagerInv(m), manager[m].phase # "unused",
           AddListener(m, s), subscriber[s].state = "none",
           subscriber' = [subscriber EXCEPT ![s] = [state |-> "on", at |-> m]],
           UNCHANGED <<log, revoked, persisted>>
    PROVE  ManagerInv(m)'
<1> DEFINE r == manager[m]
           n == manager'[m]
           ls == r.listeners
           k == Len(ls) + 1
<1>1. /\ r \in ManagerRecord /\ ls \in Seq(Listeners) /\ Len(ls) \in Nat /\ r.next \in Nat \ {0}
      /\ \A i \in 1 .. Len(ls) : ls[i] \in Listeners
      /\ seen \in [Managers -> [Listeners -> Int]] /\ skipped \in [Managers -> SUBSET Listeners]
      /\ manager \in [Managers -> ManagerRecord]
  <2>1. /\ manager \in [Managers -> ManagerRecord] /\ r \in ManagerRecord
        /\ seen \in [Managers -> [Listeners -> Int]] /\ skipped \in [Managers -> SUBSET Listeners]
    BY DEF EventTypes
  <2>2. ls \in Seq(Listeners) /\ r.next \in Nat \ {0}
    BY <2>1 DEF ManagerRecord
  <2> QED
    BY <2>1, <2>2
<1>2. /\ n.phase = r.phase /\ n.latest = r.latest /\ n.anchor = r.anchor /\ n.queue = r.queue /\ n.next = r.next
      /\ n.listeners = Append(ls, s) /\ told' = told
  BY <1>1 DEF AddListener, ManagerRecord
<1>3. /\ Len(n.listeners) = k /\ n.listeners[k] = s /\ \A i \in 1 .. Len(ls) : n.listeners[i] = ls[i]
      /\ 1 .. k = 1 .. Len(ls) \cup {k} /\ s \in Listeners /\ s # Cache
  BY <1>1, <1>2 DEF Listeners, Subscribers, Cache
<1>4. seen'[m][s] = r.latest /\ \A l \in Listeners : l # s => seen'[m][l] = seen[m][l]
  BY <1>1, <1>3 DEF AddListener
<1>5. /\ \A l \in Listeners : l # s => (l \in skipped'[m] <=> l \in skipped[m])
      /\ (r.phase = "telling" /\ k < r.next) => s \in skipped'[m]
  BY <1>1 DEF AddListener
<1>6. /\ \A i, j \in 1 .. Len(ls) : ls[i] = ls[j] => i = j
      /\ \A i \in 1 .. Len(ls) : ls[i] # Cache => subscriber[ls[i]] = [state |-> "on", at |-> m]
      /\ \A i \in 1 .. Len(ls) : ls[i] = Cache => i = 1
      /\ \A l \in Listeners : (l = Cache \/ subscriber[l] = [state |-> "on", at |-> m]) =>
            l \in skipped[m] \/ \E i \in 1 .. Len(ls) : ls[i] = l
  BY DEF ManagerInv, ListInv
<1>7. /\ subscriber'[s] = [state |-> "on", at |-> m]
      /\ \A l \in Listeners : l # s /\ l # Cache => subscriber'[l] = subscriber[l]
  BY DEF EventTypes, Listeners
<1>8. \A i \in 1 .. Len(ls) : ls[i] # s
  BY <1>3, <1>6
<1>9. IdsInv(m)' /\ LostInv(m)'
  <2>1. IdsInv(m)'
    BY <1>2 DEF ManagerInv, IdsInv, IsId
  <2>2. LostInv(m)'
    BY <1>2 DEF ManagerInv, LostInv, Covers
  <2> QED
    BY <2>1, <2>2
<1> HIDE DEF r, n, k
<1>10. ListInv(m)'
  <2>1. ASSUME NEW i \in 1 .. k, NEW j \in 1 .. k, n.listeners[i] = n.listeners[j]
        PROVE  i = j
    <3>1. (i \in 1 .. Len(ls) \/ i = k) /\ (j \in 1 .. Len(ls) \/ j = k)
      BY <1>3
    <3>2. /\ i \in 1 .. Len(ls) => n.listeners[i] = ls[i] /\ ls[i] # s
          /\ j \in 1 .. Len(ls) => n.listeners[j] = ls[j] /\ ls[j] # s
          /\ n.listeners[k] = s
      BY <1>3, <1>8
    <3>3. CASE i = k \/ j = k
      BY <2>1, <3>1, <3>2, <3>3
    <3>4. CASE i \in 1 .. Len(ls) /\ j \in 1 .. Len(ls)
      BY <1>6, <2>1, <3>2, <3>4
    <3> QED
      BY <3>1, <3>3, <3>4
  <2>2. ASSUME NEW i \in 1 .. k, n.listeners[i] # Cache
        PROVE  subscriber'[n.listeners[i]] = [state |-> "on", at |-> m]
    <3>1. CASE i = k
      BY <1>3, <1>7, <3>1
    <3>2. CASE i \in 1 .. Len(ls)
      <4>1. n.listeners[i] = ls[i] /\ ls[i] # s /\ ls[i] \in Listeners
        BY <1>1, <1>3, <1>8, <3>2
      <4>2. subscriber[ls[i]] = [state |-> "on", at |-> m]
        BY <1>6, <2>2, <3>2, <4>1
      <4> QED
        BY <1>7, <2>2, <4>1, <4>2
    <3> QED
      BY <1>3, <3>1, <3>2
  <2>3. \A i \in 1 .. k : n.listeners[i] = Cache => i = 1
    BY <1>3, <1>6
  <2>4. ASSUME NEW l \in Listeners, l = Cache \/ subscriber'[l] = [state |-> "on", at |-> m]
        PROVE  l \in skipped'[m] \/ \E i \in 1 .. k : n.listeners[i] = l
    <3>1. CASE l = s
      BY <1>3, <3>1
    <3>2. CASE l # s
      <4>1. l = Cache \/ subscriber[l] = [state |-> "on", at |-> m]
        BY <1>7, <2>4, <3>2
      <4>2. l \in skipped[m] \/ \E i \in 1 .. Len(ls) : ls[i] = l
        BY <1>6, <4>1
      <4> QED
        BY <1>3, <1>5, <3>2, <4>2
    <3> QED
      BY <3>1, <3>2
  <2> QED
    BY <1>3, <2>1, <2>2, <2>3, <2>4 DEF ListInv, n
<1>11. SeenInv(m)'
  <2>1. ASSUME r.phase \in {"waiting", "asking", "telling"}, NEW i \in 1 .. k
        PROVE  \/ n.listeners[i] \in skipped'[m]
               \/ seen'[m][n.listeners[i]] = IF r.phase = "telling" /\ r.queue # <<>> /\ i < r.next
                                               THEN r.queue[1].id ELSE r.latest
    <3>1. CASE i = k
      BY <1>3, <1>4, <1>5, <3>1
    <3>2. CASE i # k
      <4>1. i \in 1 .. Len(ls)
        BY <1>3, <3>2
      <4>2. n.listeners[i] = ls[i] /\ ls[i] # s /\ ls[i] \in Listeners
        BY <1>1, <1>3, <1>8, <4>1
      <4>3. seen'[m][ls[i]] = seen[m][ls[i]] /\ (ls[i] \in skipped'[m] <=> ls[i] \in skipped[m])
        BY <1>4, <1>5, <4>2
      <4>4. \/ ls[i] \in skipped[m]
            \/ seen[m][ls[i]] = IF r.phase = "telling" /\ r.queue # <<>> /\ i < r.next
                                  THEN r.queue[1].id ELSE r.latest
        BY <2>1, <4>1 DEF ManagerInv, SeenInv, r
      <4> QED
        BY <4>2, <4>3, <4>4
    <3> QED
      BY <3>1, <3>2
  <2>2. ASSUME r.phase = "telling", r.queue # <<>>, r.next > 1, NEW i \in 1 .. k, n.listeners[i] = Cache
        PROVE  seen'[m][Cache] = r.queue[1].id
    <3>1. i \in 1 .. Len(ls) /\ ls[i] = Cache
      BY <1>3, <2>2
    <3>2. seen[m][Cache] = r.queue[1].id
      BY <2>2, <3>1 DEF ManagerInv, SeenInv, r
    <3>3. Cache \in Listeners
      BY DEF Listeners
    <3> QED
      BY <1>3, <1>4, <3>2, <3>3
  <2> QED
    BY <1>2, <1>3, <2>1, <2>2 DEF SeenInv, n
<1> QED
  BY <1>9, <1>10, <1>11 DEF ManagerInv


\* A new manager, with the cache and the subscriber it was made for.
LEMMA CreateKeeps ==
    ASSUME EventTypes, NEW m \in Managers, NEW s \in Subscribers, CreateEventManager(s), created + 1 = m
    PROVE  ManagerInv(m)' /\ manager'[m] \in ManagerRecord /\ manager'[m].phase # "unused"
<1> DEFINE n == manager'[m]
           two == <<Cache, s>>
<1>1. /\ n = NewManager(two, persisted) /\ seen'[m] = [l \in Listeners |-> persisted] /\ persisted' = persisted
      /\ subscriber'[s] = [state |-> "on", at |-> m]
      /\ \A l \in Subscribers : l # s => subscriber'[l] = subscriber[l]
  BY DEF CreateEventManager, EventTypes, ServerUnchanged
<1>2. /\ two \in Seq(Listeners) /\ Len(two) = 2 /\ two[1] = Cache /\ two[2] = s /\ s \in Listeners /\ s # Cache
      /\ Cache \in Listeners
  BY DEF Listeners, Subscribers, Cache
<1>3. \A l \in Subscribers : subscriber'[l] = [state |-> "on", at |-> m] => l = s
  <2> SUFFICES ASSUME NEW l \in Subscribers, l # s PROVE subscriber'[l] # [state |-> "on", at |-> m]
    OBVIOUS
  <2>1. subscriber[l].at \in Nat /\ subscriber[l].at <= created /\ created \in Nat
    BY DEF EventTypes
  <2> QED
    BY <1>1, <2>1
<1>4. /\ n.phase = (IF persisted = Undefined THEN "starting" ELSE "asking") /\ n.listeners = two
      /\ n.latest = persisted /\ n.anchor = persisted /\ n.queue = <<>> /\ n.next = 1
  BY <1>1 DEF NewManager
<1>5. persisted \in {Undefined, 0} /\ Len(log) \in Nat
  BY DEF EventTypes
<1>6. n \in ManagerRecord /\ n.phase # "unused"
  <2>1. persisted \in Int
    BY <1>5 DEF Undefined
  <2> HIDE DEF two
  <2>2. n.phase # "unused"
    BY <1>4
  <2> QED
    BY <1>1, <1>2, <2>1, <2>2 DEF NewManager, ManagerRecord, Phases
<1> HIDE DEF two, n
<1>7. IdsInv(m)'
  <2>1. log' = log
    BY DEF CreateEventManager, ServerUnchanged
  <2> QED
    BY <1>1, <1>4, <1>5, <2>1 DEF IdsInv, IsId, n, Undefined
<1>8. LostInv(m)'
  BY <1>1, <1>4 DEF LostInv, n
<1>9. ListInv(m)'
  <2>1. \A i \in 1 .. 2 : i = 1 \/ i = 2
    OBVIOUS
  <2>2. \A l \in Listeners : l = Cache \/ l \in Subscribers
    BY DEF Listeners
  <2>3. \A l \in Listeners : (l = Cache \/ subscriber'[l] = [state |-> "on", at |-> m]) => \E i \in 1 .. 2 : two[i] = l
    BY <1>2, <1>3, <2>2
  <2>4. \A i, j \in 1 .. 2 : two[i] = two[j] => i = j
    BY <1>2, <2>1
  <2>5. \A i \in 1 .. 2 : two[i] # Cache => subscriber'[two[i]] = [state |-> "on", at |-> m]
    BY <1>1, <1>2, <2>1
  <2>6. \A i \in 1 .. 2 : two[i] = Cache => i = 1
    BY <1>2, <2>1
  <2> QED
    <3>1. n.listeners = two /\ Len(two) = 2
      BY <1>2, <1>4
    <3> QED
      BY <2>3, <2>4, <2>5, <2>6, <3>1 DEF ListInv, n
<1>10. SeenInv(m)'
  <2>1. \A i \in 1 .. 2 : two[i] \in Listeners
    BY <1>2
  <2> QED
    BY <1>1, <1>2, <1>4, <2>1 DEF SeenInv, n
<1> QED
  BY <1>6, <1>7, <1>8, <1>9, <1>10 DEF ManagerInv, n

\* A dispose, the second one of a subscription and one in the middle of an event too.
LEMMA DisposeKeeps ==
    ASSUME EventTypes, NEW m \in Managers, NEW s \in Subscribers, ManagerInv(m), Dispose(s), subscriber[s].at = m
    PROVE  ManagerInv(m)' /\ manager'[m] \in ManagerRecord /\ skipped'[m] \subseteq Listeners
<1> DEFINE r == manager[m]
           n == manager'[m]
           ls == r.listeners
           ns == n.listeners
<1>1. /\ manager \in [Managers -> ManagerRecord] /\ r \in ManagerRecord
      /\ skipped \in [Managers -> SUBSET Listeners]
      /\ subscriber \in [Subscribers -> [state : {"none", "creating", "on", "disposed", "over"}, at : Nat]]
  BY DEF EventTypes
<1>2. ls \in Seq(Listeners) /\ r.next \in Nat \ {0} /\ Len(ls) \in Nat /\ \A i \in 1 .. Len(ls) : ls[i] \in Listeners
  BY <1>1 DEF ManagerRecord
<1>3. /\ n.phase = r.phase /\ n.latest = r.latest /\ n.anchor = r.anchor /\ n.queue = r.queue /\ n.next = r.next
      /\ ns = Without(ls, s)
  BY <1>1 DEF Dispose, ManagerRecord
<1>4. n \in ManagerRecord
  <2>1. Without(ls, s) \in Seq(Listeners)
    BY <1>2, WithoutIs
  <2>2. n = [r EXCEPT !.listeners = Without(ls, s)]
    BY <1>1 DEF Dispose
  <2> HIDE DEF ls, n
  <2> QED
    BY <1>1, <2>1, <2>2 DEF ManagerRecord
<1>5. /\ skipped'[m] = skipped[m] \cup MissedBy(m, s) /\ seen' = seen /\ told' = told /\ log' = log
      /\ revoked' = revoked /\ persisted' = persisted
  BY <1>1 DEF Dispose, ServerUnchanged
<1>6. /\ \A l \in Subscribers : l # s => subscriber'[l] = subscriber[l]
      /\ subscriber'[s].state # "on"
  BY <1>1 DEF Dispose
<1>7. skipped'[m] \subseteq Listeners
  <2>1. ToSet(ls) \subseteq Listeners
    BY <1>2 DEF ToSet
  <2>2. r.next <= Len(ls) => r.next \in 1 .. Len(ls)
    BY <1>2
  <2>3. MissedBy(m, s) \subseteq Listeners
    BY <1>2, <2>1, <2>2 DEF MissedBy
  <2> QED
    BY <1>1, <1>5, <2>3
<1>8. IdsInv(m)' /\ LostInv(m)'
  <2>3. /\ n.phase = r.phase /\ n.latest = r.latest /\ n.anchor = r.anchor /\ n.queue = r.queue
        /\ told' = told /\ log' = log /\ revoked' = revoked /\ persisted' = persisted
    BY <1>3, <1>5
  <2>1. IdsInv(m)'
    BY <2>3 DEF ManagerInv, IdsInv, IsId
  <2>2. LostInv(m)'
    BY <2>3 DEF ManagerInv, LostInv, Covers
  <2> QED
    BY <2>1, <2>2
<1>9. CASE r.phase = "unused"
  <2>1. ListInv(m)' /\ SeenInv(m)'
    BY <1>3, <1>9 DEF ListInv, SeenInv
  <2> QED
    BY <1>4, <1>7, <1>8, <2>1 DEF ManagerInv
<1> SUFFICES ASSUME r.phase # "unused" PROVE ManagerInv(m)'
  BY <1>4, <1>7, <1>9
<1>10. /\ \A i, j \in 1 .. Len(ls) : ls[i] = ls[j] => i = j
       /\ \A i \in 1 .. Len(ls) : ls[i] # Cache => subscriber[ls[i]] = [state |-> "on", at |-> m]
       /\ \A i \in 1 .. Len(ls) : ls[i] = Cache => i = 1
       /\ \A l \in Listeners : (l = Cache \/ subscriber[l] = [state |-> "on", at |-> m]) =>
             l \in skipped[m] \/ \E i \in 1 .. Len(ls) : ls[i] = l
  BY DEF ManagerInv, ListInv
<1>11. s # Cache /\ \A l \in Listeners : l = Cache \/ l \in Subscribers
  BY DEF Subscribers, Cache, Listeners
<1>12. \A l \in Listeners : (l = Cache \/ subscriber'[l] = [state |-> "on", at |-> m]) =>
            l # s /\ (l = Cache \/ subscriber[l] = [state |-> "on", at |-> m])
  BY <1>6, <1>11
<1>13. CASE ls = <<>>
  <2>1. ns = <<>>
    BY <1>2, <1>3, <1>13, WithoutIs
  <2>2. ListInv(m)'
    BY <1>5, <1>10, <1>12, <1>13, <2>1 DEF ListInv
  <2>3. SeenInv(m)'
    BY <2>1 DEF SeenInv
  <2> QED
    BY <1>8, <2>2, <2>3 DEF ManagerInv
<1>14. CASE ls # <<>>
  <2>1. PICK p \in 1 .. Len(ls) :
            /\ Len(Without(ls, s)) = Len(ls) - 1
            /\ \A i \in 1 .. Len(ls) - 1 : Without(ls, s)[i] = IF i < p THEN ls[i] ELSE ls[i + 1]
            /\ ls[p] = s \/ (p = Len(ls) /\ \A i \in 1 .. Len(ls) : ls[i] # s)
    BY <1>2, <1>14, WithoutIs
  <2> DEFINE was(i) == IF i < p THEN i ELSE i + 1
  <2>2. p \in 1 .. Len(ls)
    OBVIOUS
  <2>3. /\ Len(ns) = Len(ls) - 1
        /\ \A i \in 1 .. Len(ns) : ns[i] = ls[was(i)] /\ was(i) \in 1 .. Len(ls) /\ was(i) # p /\ was(i) # 0
        /\ \A i, j \in 1 .. Len(ns) : was(i) = was(j) => i = j
        /\ \A i \in 1 .. Len(ns) : was(i) = 1 => i = 1
        /\ \A i \in 1 .. Len(ns) : was(i) = i \/ (was(i) = i + 1 /\ p <= i /\ p < Len(ls))
        /\ \A k \in 1 .. Len(ls) : k # p => \E i \in 1 .. Len(ns) : was(i) = k
    <3>1. Len(ns) = Len(ls) - 1 /\ \A i \in 1 .. Len(ls) - 1 : ns[i] = IF i < p THEN ls[i] ELSE ls[i + 1]
      BY <1>3, <2>1
    <3>2. \A i \in 1 .. Len(ls) - 1 : ns[i] = ls[was(i)] /\ was(i) \in 1 .. Len(ls) /\ was(i) # p /\ was(i) # 0
      BY <1>2, <2>2, <3>1
    <3>3. /\ \A i, j \in 1 .. Len(ls) - 1 : was(i) = was(j) => i = j
          /\ \A i \in 1 .. Len(ls) - 1 : was(i) = 1 => i = 1
          /\ \A i \in 1 .. Len(ls) - 1 : was(i) = i \/ (was(i) = i + 1 /\ p <= i /\ p < Len(ls))
      BY <1>2, <2>2
    <3>4. ASSUME NEW k \in 1 .. Len(ls), k # p PROVE \E i \in 1 .. Len(ls) - 1 : was(i) = k
      <4>1. CASE k < p
        BY <1>2, <2>2, <4>1
      <4>2. CASE k > p
        <5>1. k - 1 \in 1 .. Len(ls) - 1 /\ was(k - 1) = k
          BY <1>2, <2>2, <4>2
        <5> QED
          BY <5>1
      <4> QED
        BY <2>2, <3>4, <4>1, <4>2
    <3> QED
      BY <3>1, <3>2, <3>3, <3>4
  <2> HIDE DEF was
  <2>4. \A k \in 1 .. Len(ls) : k # p => ls[k] # s
    BY <1>10, <2>1, <2>2
  <2>5. ListInv(m)'
    <3>1. ASSUME NEW i \in 1 .. Len(ns), NEW j \in 1 .. Len(ns), ns[i] = ns[j]
          PROVE  i = j
      <4>1. was(i) \in 1 .. Len(ls) /\ was(j) \in 1 .. Len(ls) /\ ls[was(i)] = ls[was(j)]
        BY <2>3, <3>1
      <4>2. was(i) = was(j)
        BY <1>10, <4>1
      <4> QED
        BY <2>3, <4>2
    <3>2. ASSUME NEW i \in 1 .. Len(ns), ns[i] # Cache
          PROVE  subscriber'[ns[i]] = [state |-> "on", at |-> m]
      <4>1. was(i) \in 1 .. Len(ls) /\ ns[i] = ls[was(i)] /\ ns[i] # s /\ ns[i] \in Listeners
        <5>1. was(i) \in 1 .. Len(ls) /\ ns[i] = ls[was(i)] /\ was(i) # p
          BY <2>3
        <5> QED
          BY <1>2, <2>4, <5>1
      <4>2. subscriber[ns[i]] = [state |-> "on", at |-> m]
        BY <1>10, <3>2, <4>1
      <4> QED
        BY <1>6, <1>11, <3>2, <4>1, <4>2
    <3>3. ASSUME NEW i \in 1 .. Len(ns), ns[i] = Cache
          PROVE  i = 1
      <4>1. was(i) \in 1 .. Len(ls) /\ ls[was(i)] = Cache
        BY <2>3, <3>3
      <4>2. was(i) = 1
        BY <1>10, <4>1
      <4> QED
        BY <2>3, <4>2
    <3>4. ASSUME NEW l \in Listeners, l = Cache \/ subscriber'[l] = [state |-> "on", at |-> m]
          PROVE  l \in skipped'[m] \/ \E i \in 1 .. Len(ns) : ns[i] = l
      <4>1. l # s /\ (l \in skipped[m] \/ \E i \in 1 .. Len(ls) : ls[i] = l)
        BY <1>10, <1>12, <3>4
      <4>2. CASE l \in skipped[m]
        BY <1>5, <4>2
      <4>3. ASSUME NEW k \in 1 .. Len(ls), ls[k] = l, k # p
            PROVE  \E i \in 1 .. Len(ns) : ns[i] = l
        <5>1. PICK i \in 1 .. Len(ns) : was(i) = k
          BY <2>3, <4>3
        <5>2. ns[i] = ls[was(i)]
          BY <2>3
        <5> QED
          BY <4>3, <5>1, <5>2
      <4>4. CASE ls[p] = l
        <5>1. l \in ToSet(ls)
          BY <1>2, <2>2, <4>4 DEF ToSet
        <5>2. l \notin ToSet(ns)
          <6>1. \A i \in 1 .. Len(ns) : ns[i] # l
            BY <1>10, <2>2, <2>3, <4>4
          <6>2. DOMAIN ns = 1 .. Len(ns)
            BY <1>4 DEF ManagerRecord
          <6> QED
            BY <6>1, <6>2 DEF ToSet
        <5>3. l \in MissedBy(m, s)
          BY <1>3, <4>1, <5>1, <5>2 DEF MissedBy
        <5> QED
          BY <1>5, <5>3
      <4> QED
        BY <4>1, <4>2, <4>3, <4>4
    <3> QED
      BY <3>1, <3>2, <3>3, <3>4 DEF ListInv
  <2>6. SeenInv(m)'
    <3>1. ASSUME r.phase \in {"waiting", "asking", "telling"}, NEW i \in 1 .. Len(ns), ns[i] \notin skipped'[m]
          PROVE  seen[m][ns[i]] = IF r.phase = "telling" /\ r.queue # <<>> /\ i < r.next
                                    THEN r.queue[1].id ELSE r.latest
      <4> DEFINE k == was(i)
      <4>1. k \in 1 .. Len(ls) /\ ns[i] = ls[k] /\ (k = i \/ (k = i + 1 /\ p <= i /\ p < Len(ls))) /\ i \in Nat
        BY <2>3
      <4> HIDE DEF k
      <4>2. ls[k] \notin skipped[m] /\ ls[k] \notin MissedBy(m, s)
        BY <1>5, <3>1, <4>1
      <4>3. seen[m][ls[k]] = IF r.phase = "telling" /\ r.queue # <<>> /\ k < r.next
                               THEN r.queue[1].id ELSE r.latest
        BY <3>1, <4>1, <4>2 DEF ManagerInv, SeenInv
      <4>4. r.phase = "telling" => (k < r.next <=> i < r.next)
        <5> SUFFICES ASSUME r.phase = "telling", ~(k < r.next), i < r.next PROVE FALSE
          BY <1>2, <4>1
        <5>1. k = r.next /\ k = i + 1 /\ p <= i /\ p < Len(ls)
          BY <1>2, <4>1
        <5>2. ls[p] = s
          BY <1>2, <2>1, <5>1
        <5>3. p \in {j \in 1 .. r.next - 1 : j <= Len(ls) /\ ls[j] = s}
          BY <1>2, <2>2, <4>1, <5>1, <5>2
        <5>4. r.next <= Len(ls)
          BY <1>2, <4>1, <5>1
        <5>5. ls[k] \in MissedBy(m, s)
          BY <5>1, <5>3, <5>4 DEF MissedBy
        <5> QED
          BY <4>2, <5>5
      <4> QED
        BY <4>1, <4>3, <4>4
    <3>2. ASSUME r.phase = "telling", r.queue # <<>>, r.next > 1, NEW i \in 1 .. Len(ns), ns[i] = Cache
          PROVE  seen[m][Cache] = r.queue[1].id
      <4>1. was(i) \in 1 .. Len(ls) /\ ls[was(i)] = Cache
        BY <2>3, <3>2
      <4> QED
        BY <3>2, <4>1 DEF ManagerInv, SeenInv
    <3>3. seen' = seen /\ n.phase = r.phase /\ n.latest = r.latest /\ n.queue = r.queue /\ n.next = r.next
      BY <1>3, <1>5
    <3> QED
      BY <3>1, <3>2, <3>3 DEF SeenInv
  <2> QED
    BY <1>8, <2>5, <2>6 DEF ManagerInv
<1> QED
  BY <1>13, <1>14


-----------------------------------------------------------------------------
(* The event managers: every step.                                         *)

\* There are no more managers than subscriptions made.
LEMMA SubscribedIs ==
    ASSUME EventTypes
    PROVE  /\ Cardinality(Subscribed) \in Nat /\ created \in 0 .. NSubscribers
           /\ \A s \in Subscribers : s \notin Subscribed =>
                 /\ Cardinality(Subscribed \cup {s}) = Cardinality(Subscribed) + 1
                 /\ Cardinality(Subscribed) + 1 <= NSubscribers
<1>1. IsFiniteSet(Subscribers) /\ Cardinality(Subscribers) = NSubscribers /\ NSubscribers \in Nat
  BY FS_Interval, DriveEventsConstants DEF Subscribers
<1>2. \A S \in SUBSET Subscribers : IsFiniteSet(S) /\ Cardinality(S) \in Nat /\ Cardinality(S) <= NSubscribers
  <2> SUFFICES ASSUME NEW S \in SUBSET Subscribers
               PROVE  IsFiniteSet(S) /\ Cardinality(S) \in Nat /\ Cardinality(S) <= NSubscribers
    OBVIOUS
  <2>1. IsFiniteSet(S) /\ Cardinality(S) <= Cardinality(Subscribers)
    BY <1>1, FS_Subset
  <2> QED
    BY <1>1, <2>1, FS_CardinalityType
<1>3. Subscribed \in SUBSET Subscribers
  BY DEF Subscribed
<1>4. ASSUME NEW s \in Subscribers, s \notin Subscribed
      PROVE  /\ Cardinality(Subscribed \cup {s}) = Cardinality(Subscribed) + 1
             /\ Cardinality(Subscribed) + 1 <= NSubscribers
  <2>1. Cardinality(Subscribed \cup {s}) = Cardinality(Subscribed) + 1
    BY <1>2, <1>3, <1>4, FS_AddElement
  <2>2. Subscribed \cup {s} \in SUBSET Subscribers
    BY <1>3
  <2> QED
    BY <1>2, <2>1, <2>2
<1>5. created \in 0 .. NSubscribers
  <2>1. created \in Nat /\ created <= Cardinality(Subscribed)
    BY DEF EventTypes
  <2>2. Cardinality(Subscribed) \in Nat /\ Cardinality(Subscribed) <= NSubscribers
    BY <1>2, <1>3
  <2> QED
    BY <1>1, <2>1, <2>2
<1> QED
  BY <1>2, <1>3, <1>4, <1>5

\* The server's steps.
LEMMA ServerKeeps ==
    ASSUME EventsInv, EventHappens \/ EventsExpire \/ AccessRevoked \/ UNCHANGED eventsVars
    PROVE  EventsInv'
<1>1. EventTypes /\ log \in Seq({"node", "silent"}) /\ Len(log) \in Nat /\ expired \in 0 .. Len(log)
  BY DEF EventsInv, EventTypes
<1>2. UNCHANGED <<watched, scope, persisted, manager, created, current, subscriber, seen, told, skipped>>
  BY DEF EventHappens, EventsExpire, AccessRevoked, eventsVars, History
<1>3. /\ log' \in Seq({"node", "silent"}) /\ expired' \in 0 .. Len(log')
      /\ Len(log') \in Nat /\ Len(log) <= Len(log') /\ \A id \in 1 .. Len(log) : log'[id] = log[id]
  <2>1. CASE log' = log
    BY <1>1, <2>1 DEF EventHappens, EventsExpire, AccessRevoked, eventsVars
  <2>2. CASE EventHappens
    <3>1. PICK k \in {"node", "silent"} : log' = Append(log, k)
      BY <2>2 DEF EventHappens
    <3>2. expired' = expired
      BY <2>2 DEF EventHappens
    <3> QED
      BY <1>1, <3>1, <3>2
  <2> QED
    BY <2>1, <2>2 DEF EventsExpire, AccessRevoked, eventsVars
<1>4. revoked' \in BOOLEAN /\ (revoked' => scope = "volume") /\ (revoked => revoked')
  <2>1. revoked \in BOOLEAN /\ (revoked => scope = "volume")
    BY <1>1 DEF EventTypes
  <2>2. revoked' = revoked \/ (revoked' = TRUE /\ scope = "volume")
    BY DEF EventHappens, EventsExpire, AccessRevoked, eventsVars
  <2>3. CASE revoked' = revoked
    BY <2>1, <2>3, Zenon
  <2>4. CASE revoked' = TRUE /\ scope = "volume"
    BY <2>4, Zenon
  <2> QED
    BY <2>2, <2>3, <2>4
<1>5. EventTypes'
  <2>1. Subscribed' = Subscribed
    BY <1>2 DEF Subscribed
  <2> QED
    BY <1>1, <1>2, <1>3, <1>4, <2>1 DEF EventTypes
<1>6. ASSUME NEW m \in Managers PROVE ManagerInv(m)'
  <2>1. Around(m)
    BY <1>2, <1>3, <1>4 DEF Around
  <2> QED
    BY <1>1, <2>1, AroundKeeps DEF EventsInv
<1> QED
  BY <1>5, <1>6 DEF EventsInv

\* The steps of the polled manager.
LEMMA ManagerKeeps ==
    ASSUME EventsInv, OwnActions(watched)
    PROVE  EventsInv'
<1>0. PICK w \in Managers : w = watched
  BY DEF EventsInv, EventTypes
<1>1. EventTypes /\ w \in Managers /\ ManagerInv(w) /\ OwnActions(w)
  BY <1>0 DEF EventsInv
<1>2. OwnStep(w) /\ OwnCases(w)
  BY <1>1, OwnStepIs DEF ManagerInv
<1>3. ManagerInv(w)'
  BY <1>1, OwnKeeps
<1>4. /\ manager' = [manager EXCEPT ![w] = manager'[w]] /\ manager'[w] \in ManagerRecord
      /\ manager[w].phase # "unused" /\ manager'[w].phase # "unused"
      /\ UNCHANGED <<watched, scope, log, expired, revoked, persisted, created, current, subscriber, skipped>>
  BY <1>2 DEF OwnStep
<1>5. /\ manager \in [Managers -> ManagerRecord] /\ seen \in [Managers -> [Listeners -> Int]]
      /\ told \in [Managers -> SUBSET Int] /\ Len(log) \in Nat
  BY <1>1 DEF EventTypes
<1>6. /\ seen' \in [Managers -> [Listeners -> Int]] /\ told' \in [Managers -> SUBSET Int]
      /\ \A m \in Managers : m # w => seen'[m] = seen[m] /\ told'[m] = told[m]
  <2>1. CASE UNCHANGED <<seen, told>>
    BY <1>5, <2>1
  <2>2. CASE Starts(w)
    <3>1. seen' = [seen EXCEPT ![w] = [l \in Listeners |-> Len(log)]] /\ told' = told
      BY <2>2 DEF Starts
    <3>2. [l \in Listeners |-> Len(log)] \in [Listeners -> Int]
      BY <1>5
    <3> QED
      BY <1>5, <3>1, <3>2
  <2>3. CASE Tells(w)
    <3> DEFINE l == manager[w].listeners[manager[w].next]
               e == manager[w].queue[1].id
    <3>1. seen' = [seen EXCEPT ![w][l] = e] /\ told' = told /\ manager[w].queue # <<>>
      BY <2>3 DEF Tells
    <3>2. manager[w].queue \in Seq(EventRecord)
      BY <1>1, <1>5 DEF ManagerRecord
    <3>3. e \in Int
      <4>1. manager[w].queue[1] \in EventRecord
        BY <3>1, <3>2
      <4> QED
        BY <4>1 DEF EventRecord
    <3> HIDE DEF l, e
    <3> QED
      BY <1>1, <1>5, <3>1, <3>3
  <2>4. CASE Finishes(w)
    BY <1>1, <1>5, <2>4 DEF Finishes
  <2> QED
    BY <1>2, <2>1, <2>2, <2>3, <2>4 DEF OwnCases, Stops, Polls, Gives, Gets, TurnsPage
<1>7. EventTypes'
  <2>1. manager' \in [Managers -> ManagerRecord] /\ \A m \in Managers : m # w => manager'[m] = manager[m]
    BY <1>1, <1>4, <1>5
  <2>2. \A m \in Managers : manager'[m].phase = "unused" <=> m > created
    BY <1>1, <1>4, <2>1 DEF EventTypes
  <2>3. Subscribed' = Subscribed
    BY <1>4 DEF Subscribed
  <2> QED
    BY <1>1, <1>4, <1>6, <2>1, <2>2, <2>3 DEF EventTypes
<1>8. ASSUME NEW m \in Managers, m # w PROVE ManagerInv(m)'
  <2>1. Around(m)
    BY <1>4, <1>5, <1>6, <1>8 DEF Around
  <2> QED
    BY <1>1, <2>1, AroundKeeps DEF EventsInv
<1> QED
  BY <1>3, <1>7, <1>8 DEF EventsInv


\* subscribe and dispose.
LEMMA SubscriptionKeeps ==
    ASSUME EventsInv, NEW s \in Subscribers, SubscribeToEvents(s) \/ CreateEventManager(s) \/ Dispose(s)
    PROVE  EventsInv'
<1> DEFINE On(m) == [state |-> "on", at |-> m]
           States == {"none", "creating", "on", "disposed", "over"}
           OnlyAt(w) ==
             /\ manager' \in [Managers -> ManagerRecord] /\ seen' \in [Managers -> [Listeners -> Int]]
             /\ skipped' \in [Managers -> SUBSET Listeners]
             /\ subscriber' \in [Subscribers -> [state : States, at : Nat]]
             /\ created' \in Nat /\ current' \in 0 .. created' /\ created' <= Cardinality(Subscribed')
             /\ \A t \in Subscribers : subscriber'[t].at <= created'
             /\ \A m \in Managers : manager'[m].phase = "unused" <=> m > created'
             /\ \A m \in Managers : m # w =>
                   /\ manager'[m] = manager[m] /\ seen'[m] = seen[m] /\ skipped'[m] = skipped[m]
                   /\ \A t \in Subscribers : subscriber'[t] = On(m) <=> subscriber[t] = On(m)
<1>1. /\ EventTypes /\ \A m \in Managers : ManagerInv(m)
      /\ manager \in [Managers -> ManagerRecord] /\ subscriber \in [Subscribers -> [state : States, at : Nat]]
      /\ seen \in [Managers -> [Listeners -> Int]] /\ told \in [Managers -> SUBSET Int]
      /\ skipped \in [Managers -> SUBSET Listeners] /\ Len(log) \in Nat
      /\ created \in Nat /\ current \in 0 .. created /\ watched \in Managers /\ persisted \in {Undefined, 0}
      /\ \A t \in Subscribers : subscriber[t].at <= created
      /\ \A m \in Managers : manager[m].phase = "unused" <=> m > created
  BY DEF EventsInv, EventTypes
<1>2. UNCHANGED <<watched, scope, log, expired, revoked, persisted, told>>
  BY DEF SubscribeToEvents, CreateEventManager, Dispose, ServerUnchanged, History, AddListener
<1>3. created \in 0 .. NSubscribers /\ Cardinality(Subscribed) \in Nat /\ created <= Cardinality(Subscribed)
  BY <1>1, SubscribedIs DEF EventTypes
<1>10. s \notin Subscribed => /\ Cardinality(Subscribed \cup {s}) = Cardinality(Subscribed) + 1
                              /\ Cardinality(Subscribed) + 1 <= NSubscribers
  <2>1. EventTypes
    BY <1>1
  <2> QED
    BY <2>1, SubscribedIs
<1>4. s \in Listeners /\ s # Cache /\ Undefined \in Int
  BY DEF Listeners, Subscribers, Cache, Undefined
\* What is left to show when the step is at manager w, or at none.
<1>5. ASSUME NEW w \in Managers \cup {0}, OnlyAt(w), w # 0 => ManagerInv(w)'
      PROVE  EventsInv'
  <2>1. EventTypes'
    <3>1. EventTypes
      BY <1>1
    <3> QED
      BY <1>2, <1>5, <3>1 DEF EventTypes
  <2>2. ASSUME NEW m \in Managers, m # w PROVE ManagerInv(m)'
    <3>1. Around(m)
      BY <1>1, <1>2, <1>5, <2>2 DEF Around
    <3> QED
      BY <1>1, <3>1, AroundKeeps
  <2>3. \A m \in Managers : m # 0
    BY DEF Managers
  <2> QED
    BY <1>5, <2>1, <2>2, <2>3 DEF EventsInv
<1>6. CASE SubscribeToEvents(s) /\ current # 0
  <2>1. PICK w \in Managers : w = current
    BY <1>1, <1>3, <1>6, DriveEventsConstants DEF Managers
  <2>2. w \in Nat /\ w <= created
    BY <1>1, <2>1 DEF Managers
  <2>3. /\ AddListener(w, s) /\ subscriber' = [subscriber EXCEPT ![s] = On(w)] /\ subscriber[s].state = "none"
        /\ created' = created /\ current' = current
    BY <1>6, <2>1 DEF SubscribeToEvents
  <2>4. manager[w].phase # "unused"
    BY <1>1, <2>2
  <2>5. ManagerInv(w)'
    BY <1>1, <1>2, <2>3, <2>4, AddListenerKeeps
  <2>6. manager' = [manager EXCEPT ![w].listeners = Append(@, s)]
    BY <2>3 DEF AddListener
  <2>7. manager'[w] \in ManagerRecord /\ manager'[w].phase = manager[w].phase
    <3> DEFINE r == manager[w]
               ls == Append(r.listeners, s)
    <3>1. manager'[w] = [r EXCEPT !.listeners = ls] /\ r \in ManagerRecord
      BY <1>1, <2>6
    <3>2. ls \in Seq(Listeners)
      BY <1>4, <3>1 DEF ManagerRecord
    <3> HIDE DEF r, ls
    <3>3. manager'[w] \in ManagerRecord /\ manager'[w].phase = r.phase
      BY <3>1, <3>2 DEF ManagerRecord
    <3> QED
      BY <3>3 DEF r
  <2>8. manager' \in [Managers -> ManagerRecord] /\ \A m \in Managers : m # w => manager'[m] = manager[m]
    <3>1. manager' = [manager EXCEPT ![w] = manager'[w]]
      BY <1>1, <2>6
    <3> QED
      BY <1>1, <2>7, <3>1
  <2>9. /\ seen' \in [Managers -> [Listeners -> Int]] /\ \A m \in Managers : m # w => seen'[m] = seen[m]
    <3>1. manager[w].latest \in Int
      BY <1>1 DEF ManagerRecord
    <3> QED
      BY <1>1, <1>4, <2>3, <3>1 DEF AddListener
  <2>10. skipped' \in [Managers -> SUBSET Listeners] /\ \A m \in Managers : m # w => skipped'[m] = skipped[m]
    BY <1>1, <1>4, <2>3 DEF AddListener
  <2>11. /\ subscriber' \in [Subscribers -> [state : States, at : Nat]]
         /\ \A t \in Subscribers : subscriber'[t].at <= created'
         /\ \A m \in Managers : m # w =>
               \A t \in Subscribers : subscriber'[t] = On(m) <=> subscriber[t] = On(m)
    BY <1>1, <2>2, <2>3
  <2>12. created' <= Cardinality(Subscribed')
    <3>1. s \notin Subscribed
      BY <2>3 DEF Subscribed
    <3>2. Subscribed' = Subscribed \cup {s}
      BY <1>1, <2>3 DEF Subscribed
    <3> QED
      BY <1>3, <1>10, <2>3, <3>1, <3>2
  <2>13. \A m \in Managers : manager'[m].phase = "unused" <=> m > created'
    BY <1>1, <2>3, <2>7, <2>8
  <2>14. OnlyAt(w)
    BY <1>1, <2>3, <2>8, <2>9, <2>10, <2>11, <2>12, <2>13
  <2> HIDE DEF OnlyAt
  <2> QED
    BY <1>5, <2>5, <2>14
<1>7. CASE SubscribeToEvents(s) /\ current = 0
  <2>1. /\ subscriber' = [subscriber EXCEPT ![s].state = "creating"] /\ subscriber[s].state = "none"
        /\ UNCHANGED <<manager, seen, told, skipped, created, current>>
    BY <1>7 DEF SubscribeToEvents, History
  <2>2. subscriber'[s].state = "creating" /\ subscriber'[s].at = subscriber[s].at
    BY <1>1, <2>1
  <2>3. \A t \in Subscribers : t # s => subscriber'[t] = subscriber[t]
    BY <1>1, <2>1
  <2>4. /\ subscriber' \in [Subscribers -> [state : States, at : Nat]]
        /\ \A t \in Subscribers : subscriber'[t].at <= created'
    BY <1>1, <2>1
  <2>5. \A m \in Managers : \A t \in Subscribers : subscriber'[t] = On(m) <=> subscriber[t] = On(m)
    BY <2>1, <2>2, <2>3
  <2>6. Subscribed' = Subscribed
    BY <2>1, <2>2, <2>3 DEF Subscribed
  <2>7. OnlyAt(0)
    BY <1>1, <1>3, <2>1, <2>4, <2>5, <2>6
  <2> HIDE DEF OnlyAt
  <2> QED
    BY <1>5, <2>7
<1>8. CASE CreateEventManager(s)
  <2>1. s \notin Subscribed
    BY <1>8 DEF Subscribed, CreateEventManager
  <2>2. created + 1 <= Cardinality(Subscribed) + 1 /\ Cardinality(Subscribed) + 1 <= NSubscribers
    BY <1>3, <1>10, <2>1
  <2>3. PICK w \in Managers : w = created + 1
    BY <1>1, <1>3, <2>2, DriveEventsConstants DEF Managers
  <2>4. /\ created' = w /\ current' = w /\ subscriber' = [subscriber EXCEPT ![s] = On(w)]
        /\ manager' = [manager EXCEPT ![w] = manager'[w]] /\ skipped' = skipped
        /\ seen' = [seen EXCEPT ![w] = [l \in Listeners |-> persisted]]
    BY <1>1, <1>8, <2>3 DEF CreateEventManager
  <2>5. ManagerInv(w)' /\ manager'[w] \in ManagerRecord /\ manager'[w].phase # "unused"
    BY <1>1, <1>8, <2>3, CreateKeeps
  <2>6. /\ manager' \in [Managers -> ManagerRecord] /\ \A m \in Managers : m # w => manager'[m] = manager[m]
    BY <1>1, <2>4, <2>5
  <2>7. seen' \in [Managers -> [Listeners -> Int]] /\ \A m \in Managers : m # w => seen'[m] = seen[m]
    BY <1>1, <1>4, <2>4
  <2>8. /\ subscriber' \in [Subscribers -> [state : States, at : Nat]]
        /\ \A t \in Subscribers : subscriber'[t].at <= created'
    BY <1>1, <2>3, <2>4
  <2>9. ASSUME NEW m \in Managers, m # w, NEW t \in Subscribers
        PROVE  subscriber'[t] = On(m) <=> subscriber[t] = On(m)
    <3>1. CASE t = s
      <4>1. subscriber[s].state = "creating"
        BY <1>8 DEF CreateEventManager
      <4>2. subscriber'[s].at = w
        BY <1>1, <2>4
      <4> QED
        BY <2>9, <3>1, <4>1, <4>2
    <3>2. CASE t # s
      BY <1>1, <2>4, <3>2
    <3> QED
      BY <3>1, <3>2
  <2>10. created' <= Cardinality(Subscribed')
    <3>1. Subscribed' = Subscribed \cup {s}
      BY <1>1, <2>4 DEF Subscribed
    <3> QED
      BY <1>3, <1>10, <2>1, <2>2, <2>3, <2>4, <3>1
  <2>11. \A m \in Managers : manager'[m].phase = "unused" <=> m > created'
    <3>1. \A m \in Managers : m # w => (m > w <=> m > created)
      BY <1>1, <2>3 DEF Managers
    <3>2. ~(w > w)
      BY DEF Managers
    <3> QED
      BY <1>1, <2>4, <2>5, <2>6, <3>1, <3>2
  <2>12. current' \in 0 .. created' /\ created' \in Nat
    BY <2>4 DEF Managers
  <2>13. OnlyAt(w)
    BY <1>1, <2>4, <2>6, <2>7, <2>8, <2>9, <2>10, <2>11, <2>12
  <2> HIDE DEF OnlyAt
  <2> QED
    BY <1>5, <2>5, <2>13
<1>9. CASE Dispose(s)
  <2>1. PICK w \in Managers : w = watched
    BY <1>1
  <2>2. /\ subscriber[s].at = w /\ subscriber[s].state \in {"on", "disposed"}
        /\ manager' = [manager EXCEPT ![w].listeners = Without(@, s)]
        /\ skipped' = [skipped EXCEPT ![w] = skipped'[w]]
        /\ UNCHANGED <<created, current, seen, told>>
    BY <1>1, <1>9, <2>1 DEF Dispose
  <2>3. ManagerInv(w)' /\ manager'[w] \in ManagerRecord /\ skipped'[w] \subseteq Listeners
    BY <1>1, <1>9, <2>2, DisposeKeeps
  <2>4. manager'[w].phase = manager[w].phase /\ manager' = [manager EXCEPT ![w] = manager'[w]]
    BY <1>1, <2>2 DEF ManagerRecord
  <2>5. /\ manager' \in [Managers -> ManagerRecord] /\ \A m \in Managers : m # w => manager'[m] = manager[m]
    BY <1>1, <2>3, <2>4
  <2>6. skipped' \in [Managers -> SUBSET Listeners] /\ \A m \in Managers : m # w => skipped'[m] = skipped[m]
    BY <1>1, <2>2, <2>3
  <2>7. /\ subscriber'[s].state \in {"disposed", "over"} /\ subscriber'[s].at = w
        /\ subscriber'[s] \in [state : States, at : Nat]
        /\ subscriber' = [subscriber EXCEPT ![s] = subscriber'[s]]
    <3> DEFINE st == IF subscriber[s].state = "on" THEN "disposed" ELSE "over"
    <3>1. subscriber' = [subscriber EXCEPT ![s].state = st]
      BY <1>9 DEF Dispose
    <3>2. st \in {"disposed", "over"}
      OBVIOUS
    <3> HIDE DEF st
    <3>3. subscriber[s] \in [state : States, at : Nat]
      BY <1>1
    <3>4. subscriber'[s] = [subscriber[s] EXCEPT !.state = st] /\ subscriber' = [subscriber EXCEPT ![s] = subscriber'[s]]
      BY <1>1, <3>1
    <3>5. subscriber'[s].state = st /\ subscriber'[s].at = w /\ subscriber'[s] \in [state : States, at : Nat]
      BY <2>2, <3>2, <3>3, <3>4
    <3> QED
      BY <3>2, <3>4, <3>5
  <2>8. \A t \in Subscribers : t # s => subscriber'[t] = subscriber[t]
    BY <1>1, <2>7
  <2>9. /\ subscriber' \in [Subscribers -> [state : States, at : Nat]]
        /\ \A t \in Subscribers : subscriber'[t].at <= created'
    <3>1. \A t \in Subscribers : subscriber'[t] \in [state : States, at : Nat] /\ subscriber'[t].at = subscriber[t].at
      BY <1>1, <2>2, <2>7, <2>8
    <3>2. DOMAIN subscriber' = Subscribers /\ subscriber' = [t \in Subscribers |-> subscriber'[t]]
      BY <1>1, <2>7
    <3>3. \A t \in Subscribers : subscriber'[t].at <= created'
      BY <1>1, <2>2, <3>1
    <3> HIDE DEF States
    <3> QED
      BY <3>1, <3>2, <3>3
  <2>10. ASSUME NEW m \in Managers, m # w, NEW t \in Subscribers
         PROVE  subscriber'[t] = On(m) <=> subscriber[t] = On(m)
    BY <2>2, <2>7, <2>8, <2>10
  <2>11. Subscribed' = Subscribed
    BY <2>2, <2>7, <2>8 DEF Subscribed
  <2>12. \A m \in Managers : manager'[m].phase = "unused" <=> m > created'
    BY <1>1, <2>2, <2>4, <2>5
  <2>13. OnlyAt(w)
    BY <1>1, <1>3, <2>2, <2>5, <2>6, <2>9, <2>10, <2>11, <2>12
  <2> HIDE DEF OnlyAt
  <2> QED
    BY <1>5, <2>3, <2>13
<1> QED
  BY <1>6, <1>7, <1>8, <1>9


LEMMA EventsStart == EventsInit => EventsInv
<1> SUFFICES ASSUME EventsInit PROVE EventsInv
  OBVIOUS
<1>1. Subscribed = {} /\ Cardinality(Subscribed) = 0
  BY FS_EmptySet DEF EventsInit, Subscribed
<1>2. /\ Unused \in ManagerRecord /\ Unused.phase = "unused" /\ Unused.latest = Undefined
  <2>1. <<>> \in Seq(Listeners) /\ <<>> \in Seq(EventRecord)
    OBVIOUS
  <2> DEFINE f == NewManager(<<>>, Undefined)
  <2>2. f = [phase |-> "starting", listeners |-> <<>>, latest |-> Undefined, anchor |-> Undefined,
             queue |-> <<>>, next |-> 1, more |-> FALSE, broken |-> FALSE]
    BY DEF NewManager
  <2>3. f \in ManagerRecord /\ f.latest = Undefined
    <3>1. "starting" \in Phases /\ Undefined \in Int /\ 1 \in Nat \ {0}
      BY DEF Phases, Undefined
    <3>2. ASSUME NEW u \in Int, NEW a \in BOOLEAN, NEW b \in BOOLEAN
          PROVE  [phase |-> "starting", listeners |-> <<>>, latest |-> u, anchor |-> u,
                  queue |-> <<>>, next |-> 1, more |-> a, broken |-> b] \in ManagerRecord
      BY <2>1, <3>1 DEF ManagerRecord
    <3>3. f \in ManagerRecord
      BY <2>2, <3>1, <3>2, Zenon
    <3> QED
      BY <2>2, <3>3
  <2> HIDE DEF f
  <2>4. Unused = [f EXCEPT !.phase = "unused"]
    BY DEF Unused, f
  <2> QED
    BY <2>3, <2>4 DEF ManagerRecord, Phases
<1>3. /\ manager = [m \in Managers |-> Unused]
      /\ created = 0 /\ current = 0 /\ log = <<>> /\ expired = 0 /\ revoked = FALSE
  BY DEF EventsInit
<1>4. EventTypes
  <2>1. \A m \in Managers : m > 0
    BY DEF Managers
  <2>2. Undefined \in Int
    BY DEF Undefined
  <2>3. manager \in [Managers -> ManagerRecord] /\ \A m \in Managers : manager[m].phase = "unused"
    BY <1>2, <1>3
  <2>4. /\ seen \in [Managers -> [Listeners -> Int]]
        /\ told \in [Managers -> SUBSET Int] /\ skipped \in [Managers -> SUBSET Listeners]
    BY <2>2 DEF EventsInit
  <2>5. /\ subscriber \in [Subscribers -> [state : {"none", "creating", "on", "disposed", "over"}, at : Nat]]
        /\ \A s \in Subscribers : subscriber[s].at <= created
    BY DEF EventsInit
  <2>6. revoked \in BOOLEAN /\ ~revoked
    BY <1>3, Zenon
  <2>7. log \in Seq({"node", "silent"}) /\ expired \in 0 .. Len(log)
    BY <1>3
  <2> QED
    BY <1>1, <1>3, <2>1, <2>3, <2>4, <2>5, <2>6, <2>7 DEF EventTypes, EventsInit
<1>5. ASSUME NEW m \in Managers PROVE ManagerInv(m)
  <2>1. manager[m].phase = "unused" /\ manager[m].latest = Undefined
    BY <1>2, <1>3
  <2> QED
    BY <2>1 DEF ManagerInv, IdsInv, LostInv, ListInv, SeenInv
<1> QED
  BY <1>4, <1>5 DEF EventsInv

LEMMA EventsKeep == EventsInv /\ [EventsNext]_eventsVars => EventsInv'
<1> SUFFICES ASSUME EventsInv, [EventsNext]_eventsVars PROVE EventsInv'
  OBVIOUS
<1>1. CASE EventHappens \/ EventsExpire \/ AccessRevoked \/ UNCHANGED eventsVars
  BY <1>1, ServerKeeps
<1>2. CASE \E s \in Subscribers : SubscribeToEvents(s) \/ CreateEventManager(s) \/ Dispose(s)
  BY <1>2, SubscriptionKeeps
<1>3. CASE OwnActions(watched)
  BY <1>3, ManagerKeeps
<1> QED
  BY <1>1, <1>2, <1>3 DEF EventsNext, OwnActions

\* What the invariant is for.
LEMMA EventsMean == EventsInv => EventsTypeOK /\ EventsAreTold
<1> SUFFICES ASSUME EventsInv PROVE EventsTypeOK /\ EventsAreTold
  OBVIOUS
<1>1. EventTypes /\ \A m \in Managers : ManagerInv(m)
  BY DEF EventsInv
<1>2. \A m \in Managers : manager[m] \in ManagerRecord
  BY <1>1 DEF EventTypes
<1>3. EventsTypeOK
  <2>1. created \in 0 .. NSubscribers
    BY <1>1, SubscribedIs
  <2>2. ASSUME NEW m \in Managers
        PROVE  /\ manager[m].phase \in Phases /\ manager[m].listeners \in Seq(Listeners)
               /\ manager[m].latest \in {Undefined, NoId} \cup 0 .. Len(log)
    <3>1. manager[m].phase \in Phases /\ manager[m].listeners \in Seq(Listeners)
      BY <1>2 DEF ManagerRecord
    <3>2. manager[m].latest \in {Undefined, NoId} \cup 0 .. Len(log)
      BY <1>1 DEF ManagerInv, IdsInv, IsId
    <3> QED
      BY <3>1, <3>2
  <2> QED
    BY <1>1, <2>1, <2>2 DEF EventsTypeOK, EventTypes, Phases
<1>4. NothingLost
  BY <1>1 DEF NothingLost, ManagerInv, LostInv
<1>5. LatestIsSeen
  <2> SUFFICES ASSUME NEW m \in Managers, manager[m].phase \in {"waiting", "asking"}, NEW l \in Listeners,
                      l = Cache \/ subscriber[l] = [state |-> "on", at |-> m], l \notin skipped[m]
               PROVE  seen[m][l] = manager[m].latest
    BY DEF LatestIsSeen
  <2>1. PICK i \in 1 .. Len(manager[m].listeners) : manager[m].listeners[i] = l
    BY <1>1 DEF ManagerInv, ListInv
  <2> QED
    BY <1>1, <2>1 DEF ManagerInv, SeenInv
<1>6. CacheBeforeApplication
  <2> SUFFICES ASSUME NEW m \in Managers, NEW i \in 1 .. Len(manager[m].listeners),
                      manager[m].phase = "telling", manager[m].queue # <<>>, i < manager[m].next,
                      Cache \in ToSet(manager[m].listeners)
               PROVE  seen[m][Cache] = TheEvent(m).id
    BY DEF CacheBeforeApplication
  <2>1. manager[m].queue \in Seq(EventRecord) /\ manager[m].listeners \in Seq(Listeners) /\ manager[m].next \in Nat
    BY <1>2 DEF ManagerRecord
  <2>2. PICK j \in 1 .. Len(manager[m].listeners) : manager[m].listeners[j] = Cache
    BY <2>1 DEF ToSet
  <2>3. manager[m].next > 1
    BY <2>1
  <2>4. TheEvent(m) = manager[m].queue[1]
    BY <2>1 DEF TheEvent
  <2> QED
    BY <1>1, <2>2, <2>3, <2>4 DEF ManagerInv, SeenInv
<1> QED
  BY <1>3, <1>4, <1>5, <1>6 DEF EventsAreTold

-----------------------------------------------------------------------------
(* The loading of nodes: the inductive invariant.                          *)

LoadSteps == Ended \cup {"wait", "fetch", "keys", "fetchParent", "decryptParent", "decrypt"}

LoadTypes ==
    /\ asked \subseteq Family /\ existing \subseteq Family /\ target \in Family /\ keyed \in BOOLEAN
    /\ answer \in Seq(Family)
    /\ loading \subseteq Family /\ keyCache \subseteq nodeCache
    /\ job \in [Jobs -> LoadSteps]
    /\ batchEnd \in {"running", "ok", "thrown"} /\ removed \subseteq Family

\* What the API told of is known to exist: what is still to be pulled, what is being
\* decrypted, the parent when it was fetched, and so what is in the cache.
ToldExists ==
    /\ \A i \in 1 .. Len(answer) : answer[i] \in existing
    /\ \A j \in Jobs : /\ job[j] \in {"keys", "fetchParent", "decryptParent", "decrypt"} => NodeOf(j) \in existing
                       /\ job[j] = "decryptParent" => ParentNode \in existing
    /\ nodeCache \subseteq existing

\* A node of the batch that exists is still to be pulled, or has a job that was begun.
NoneOverlooked ==
    batchEnd = "running" =>
        \A n \in asked \cap existing : (\E i \in 1 .. Len(answer) : answer[i] = n) \/ job[n] # "idle"

LoadInv == LoadTypes /\ ToldExists /\ NoneOverlooked /\ OnlyMissingIsRemoved

LEMMA LoadStart == LoadingInit => LoadInv
<1> SUFFICES ASSUME LoadingInit PROVE LoadInv
  OBVIOUS
<1> DEFINE S == asked \cap existing
<1>1. asked \subseteq Family /\ existing \subseteq Family /\ target \in Family /\ keyed \in BOOLEAN
  <2>1. existing \subseteq Family
    BY DEF LoadingInit, Family
  <2> QED
    BY <2>1, NodesLoadingConstants DEF LoadingInit
<1>2. S \subseteq Family /\ IsFiniteSet(S) /\ Cardinality(S) \in Nat
  <2>1. IsFiniteSet(Family)
    BY NodesLoadingConstants, FS_AddElement DEF Family
  <2> QED
    BY <1>1, <2>1, FS_Subset, FS_CardinalityType
<1>3. answer \in [1 .. Cardinality(S) -> S] /\ ToSet(answer) = S
  BY DEF LoadingInit, InAnyOrder
<1>4. /\ answer \in Seq(Family) /\ Len(answer) = Cardinality(S) /\ DOMAIN answer = 1 .. Len(answer)
      /\ \A i \in 1 .. Len(answer) : answer[i] \in S
  <2> HIDE DEF S
  <2> QED
    BY <1>2, <1>3
<1>5. \A n \in S : \E i \in 1 .. Len(answer) : answer[i] = n
  BY <1>3, <1>4 DEF ToSet
<1>6. /\ job \in [Jobs -> LoadSteps]
      /\ \A j \in Jobs : job[j] \in {"wait", "idle"}
  BY DEF LoadingInit, LoadSteps, Ended
<1>7. loading = {} /\ nodeCache = {} /\ keyCache = {} /\ batchEnd = "running" /\ removed = {}
  BY DEF LoadingInit
<1> QED
  BY <1>1, <1>4, <1>5, <1>6, <1>7 DEF LoadInv, LoadTypes, ToldExists, NoneOverlooked, OnlyMissingIsRemoved

\* Beginning or going on with a job overlooks nothing.
LEMMA JobKeeps ==
    ASSUME LoadInv, NEW j \in Jobs, NEW s \in LoadSteps \ {"idle"}, Step(j, s),
           UNCHANGED <<asked, existing, keyed, target, answer, batchEnd, removed>>,
           loading' \subseteq Family, nodeCache' \subseteq existing, keyCache' \subseteq nodeCache',
           s \in {"keys", "fetchParent", "decryptParent", "decrypt"} => NodeOf(j) \in existing,
           s = "decryptParent" => ParentNode \in existing
    PROVE  LoadInv'
<1>1. job' \in [Jobs -> LoadSteps] /\ job'[j] = s /\ \A k \in Jobs \ {j} : job'[k] = job[k]
  BY DEF LoadInv, LoadTypes, Step
<1>2. LoadTypes'
  BY <1>1 DEF LoadInv, LoadTypes
<1>3. ToldExists'
  <2>1. \A k \in Jobs : NodeOf(k)' = NodeOf(k)
    BY DEF NodeOf
  <2> QED
    BY <1>1, <2>1 DEF LoadInv, ToldExists
<1>4. NoneOverlooked'
  BY <1>1 DEF LoadInv, LoadTypes, NoneOverlooked, Jobs
<1>5. OnlyMissingIsRemoved'
  BY DEF LoadInv, OnlyMissingIsRemoved
<1> QED
  BY <1>2, <1>3, <1>4, <1>5 DEF LoadInv

LEMMA LoadKeep == LoadInv /\ [LoadingStep]_loadingVars => LoadInv'
<1> SUFFICES ASSUME LoadInv, [LoadingStep]_loadingVars PROVE LoadInv'
  OBVIOUS
<1> USE DEF LoadSteps, Ended, Inputs
<1>0. LoadTypes /\ ToldExists /\ ParentNode \in Family /\ Single \in Jobs /\ Family \subseteq Jobs
  BY DEF LoadInv, Family, Jobs
<1>1. CASE UNCHANGED loadingVars
  BY <1>1 DEF loadingVars, LoadInv, LoadTypes, ToldExists, NoneOverlooked, OnlyMissingIsRemoved, NodeOf
<1>2. CASE DebounceTimeout
  <2>1. loading' \subseteq Family
    BY <1>0, <1>2 DEF DebounceTimeout, FinishedLoadingNode, LoadTypes
  <2> QED
    BY <1>2, <2>1 DEF DebounceTimeout, LoadInv, LoadTypes, ToldExists, NoneOverlooked, OnlyMissingIsRemoved, NodeOf
<1>3. CASE PullNode
  <2>1. /\ answer # <<>> /\ answer' = Tail(answer) /\ job' = [job EXCEPT ![answer[1]] = "keys"]
        /\ loading' = loading \cup {answer[i] : i \in 1 .. IF Len(answer) > 1 THEN 2 ELSE 1}
        /\ UNCHANGED <<asked, existing, keyed, target, nodeCache, keyCache, batchEnd, removed>>
    BY <1>0, <1>3 DEF PullNode, Step, LoadingNode, LoadTypes
  <2>2. /\ Len(answer) \in Nat \ {0} /\ answer' \in Seq(Family) /\ Len(answer') = Len(answer) - 1
        /\ \A i \in 1 .. Len(answer') : answer'[i] = answer[i + 1]
        /\ \A i \in 1 .. Len(answer) : answer[i] \in Family
    BY <1>0, <2>1 DEF LoadTypes
  <2> DEFINE n == answer[1]
  <2>3. n \in existing /\ n \in Jobs /\ NodeOf(n) = n
    BY <1>0, <2>2, NodesLoadingConstants DEF ToldExists, NodeOf
  <2>4. job' \in [Jobs -> LoadSteps] /\ job'[n] = "keys" /\ \A k \in Jobs \ {n} : job'[k] = job[k]
    BY <1>0, <2>1, <2>3 DEF LoadTypes
  <2>5. LoadTypes'
    <3>1. \A i \in 1 .. (IF Len(answer) > 1 THEN 2 ELSE 1) : answer[i] \in Family
      BY <2>2
    <3> QED
      BY <1>0, <2>1, <2>2, <2>4, <3>1 DEF LoadTypes
  <2>6. ToldExists'
    <3>1. \A k \in Jobs : NodeOf(k)' = NodeOf(k)
      BY <2>1 DEF NodeOf
    <3>2. \A i \in 1 .. Len(answer') : answer'[i] \in existing
      BY <1>0, <2>2 DEF ToldExists
    <3>3. ASSUME NEW k \in Jobs
          PROVE  /\ job'[k] \in {"keys", "fetchParent", "decryptParent", "decrypt"} => NodeOf(k)' \in existing'
                 /\ job'[k] = "decryptParent" => ParentNode \in existing'
      BY <1>0, <2>1, <2>3, <2>4, <3>1 DEF ToldExists
    <3> QED
      BY <1>0, <2>1, <3>2, <3>3 DEF ToldExists
  <2>7. NoneOverlooked'
    <3> SUFFICES ASSUME batchEnd = "running", NEW m \in asked \cap existing, m # n, job[m] = "idle"
                 PROVE  \E i \in 1 .. Len(answer') : answer'[i] = m
      <4>1. asked \cap existing \subseteq Jobs
        BY <1>0 DEF LoadTypes
      <4> QED
        BY <2>1, <2>4, <4>1 DEF NoneOverlooked
    <3>1. PICK i \in 1 .. Len(answer) : answer[i] = m
      BY DEF LoadInv, NoneOverlooked
    <3>2. i - 1 \in 1 .. Len(answer')
      BY <2>2, <3>1
    <3>3. answer'[i - 1] = answer[(i - 1) + 1] /\ (i - 1) + 1 = i
      BY <2>2, <3>1, <3>2
    <3> QED
      BY <3>1, <3>2, <3>3
  <2> QED
    BY <2>1, <2>5, <2>6, <2>7 DEF LoadInv, OnlyMissingIsRemoved
<1>4. CASE BatchEnds
  <2>1. /\ answer = <<>> /\ Decrypting = {} /\ batchEnd = "running" /\ batchEnd' \in {"ok", "thrown"}
        /\ UNCHANGED <<asked, existing, keyed, target, answer, loading, keyCache, job>>
    BY <1>4 DEF BatchEnds
  <2>2. removed' \subseteq Family /\ removed' \cap existing = {} /\ nodeCache' = nodeCache
    <3>1. CASE UNCHANGED <<removed, nodeCache>>
      BY <1>0, <3>1 DEF LoadInv, LoadTypes, OnlyMissingIsRemoved
    <3>2. CASE ~UNCHANGED <<removed, nodeCache>>
      <4> DEFINE missing == asked \ {n \in Family : job[n] \in {"done", "degraded"}}
      <4>1. /\ \A n \in Family : job[n] # "failed"
            /\ removed' = missing /\ nodeCache' = nodeCache \ missing
        BY <1>4, <3>2 DEF BatchEnds
      <4>2. \A n \in asked \cap existing : job[n] # "idle"
        BY <2>1 DEF LoadInv, NoneOverlooked
      <4>3. \A n \in Family : job[n] \in Ended
        BY <2>1 DEF Decrypting
      <4>4. missing \cap existing = {}
        BY <1>0, <4>1, <4>2, <4>3 DEF LoadTypes
      <4> QED
        BY <1>0, <4>1, <4>4 DEF LoadTypes, ToldExists
    <3> QED
      BY <3>1, <3>2
  <2> QED
    BY <1>0, <2>1, <2>2 DEF LoadInv, LoadTypes, ToldExists, NoneOverlooked, OnlyMissingIsRemoved, NodeOf
<1>5. CASE GetNode
  <2>1. PICK s \in {"done", "fetch"} : Step(Single, s) /\ loading' \subseteq Family
    BY <1>0, <1>5 DEF GetNode, LoadingNode, LoadTypes
  <2> QED
    BY <1>0, <1>5, <2>1, JobKeeps DEF GetNode, LoadTypes, ToldExists
<1>6. CASE LoadNodeFetched
  <2>1. PICK s \in {"keys", "failed"} : Step(Single, s) /\ (s = "keys" => NodeOf(Single) \in existing)
    BY <1>6 DEF LoadNodeFetched, NodeOf
  <2>2. loading' \subseteq Family
    BY <1>0, <1>6 DEF LoadNodeFetched, FinishedLoadingNode, LoadTypes
  <2> QED
    BY <1>0, <1>6, <2>1, <2>2, JobKeeps DEF LoadNodeFetched, LoadTypes, ToldExists
<1>7. ASSUME NEW j \in Jobs, GetParentKeys(j) PROVE LoadInv'
  <2>1. PICK s \in {"decrypt", "fetchParent"} : Step(j, s) /\ loading' \subseteq Family
    BY <1>0, <1>7 DEF GetParentKeys, LoadingNode, LoadTypes
  <2>2. NodeOf(j) \in existing
    BY <1>0, <1>7 DEF GetParentKeys, ToldExists
  <2> QED
    BY <1>0, <1>7, <2>1, <2>2, JobKeeps DEF GetParentKeys, LoadTypes, ToldExists
<1>8. ASSUME NEW j \in Jobs, LoadParentFetched(j) PROVE LoadInv'
  <2>1. PICK s \in {"decryptParent", "failed"} : Step(j, s) /\ (s = "decryptParent" => ParentNode \in existing)
    BY <1>8 DEF LoadParentFetched
  <2>2. NodeOf(j) \in existing /\ loading' \subseteq Family
    BY <1>0, <1>8 DEF LoadParentFetched, ToldExists, FinishedLoadingNode, LoadTypes
  <2> QED
    BY <1>0, <1>8, <2>1, <2>2, JobKeeps DEF LoadParentFetched, LoadTypes, ToldExists
<1>9. ASSUME NEW n \in existing, StoreNode(n)
      PROVE  loading' \subseteq Family /\ nodeCache' \subseteq existing /\ keyCache' \subseteq nodeCache'
  BY <1>0, <1>9 DEF StoreNode, FinishedLoadingNode, LoadTypes, ToldExists
<1>10. ASSUME NEW j \in Jobs, DecryptParent(j) PROVE LoadInv'
  <2>1. PICK s \in {"decrypt", "degraded"} : Step(j, s)
    BY <1>10 DEF DecryptParent
  <2>2. NodeOf(j) \in existing /\ ParentNode \in existing
    BY <1>0, <1>10 DEF DecryptParent, ToldExists
  <2> QED
    BY <1>0, <1>9, <1>10, <2>1, <2>2, JobKeeps DEF DecryptParent
<1>11. ASSUME NEW j \in Jobs, DecryptLoaded(j) PROVE LoadInv'
  <2>1. NodeOf(j) \in existing /\ Step(j, "done")
    BY <1>0, <1>11 DEF DecryptLoaded, ToldExists
  <2> QED
    BY <1>0, <1>9, <1>11, <2>1, JobKeeps DEF DecryptLoaded
<1> QED
  BY <1>1, <1>2, <1>3, <1>4, <1>5, <1>6, <1>7, <1>8, <1>10, <1>11 DEF LoadingStep

-----------------------------------------------------------------------------
(* The cached lists of shared nodes: the inductive invariant.              *)

Uids == Listed \cup {Blank}
UidLists == (SUBSET Uids) \cup {NotLoaded}
WriteRecord == [phase : {"idle", "answer", "write", "store"}, type : {"node", "sharedWithMe", "refresh"}, node : Listed,
                add : BOOLEAN, base : UidLists]
ShareEvent == [type : {"node", "sharedWithMe", "refresh"}, node : Listed, shared : BOOLEAN]
ListingRecord == [phase : {"idle", "api", "store"}, next : Nat \ {0}, loaded : SUBSET Listed]
RaceKinds == {"listing", "raced"}

\* An event that adds a node to the list or removes it is being handled.
Changing == handler.phase \in {"write", "store"} /\ handler.type = "node"

ListTypes ==
    /\ list \in {"byMe", "withMe"} /\ emptyIsNone \in BOOLEAN /\ shared \in SUBSET Listed
    /\ shareEvents \in Seq(ShareEvent)
    /\ \A i \in 1 .. Len(shareEvents) : shareEvents[i].type = "node" => list = "byMe"
    /\ memory \in UidLists /\ stored \in UidLists /\ stored # {Blank}
    /\ listing \in ListingRecord /\ \A n \in listing.loaded : n < listing.next
    /\ own \in WriteRecord /\ (own.phase \in {"write", "store"} => IsLoaded(own.base))
    /\ handler \in WriteRecord /\ (Changing => IsLoaded(handler.base) /\ list = "byMe") /\ handler.phase # "answer"
    /\ handler.phase = "write" => handler.type = "node" /\ IsLoaded(memory)
    /\ (handler.phase = "store" /\ handler.type # "node") => list = "withMe"
    /\ races \subseteq RaceKinds

\* An event that is still to be handled will put node n right, or the whole list.
Puts(e, n) == e.node = n \/ e.type = "refresh" \/ list = "withMe"
Waits(n) == \E i \in 1 .. Len(shareEvents) : Puts(shareEvents[i], n)

\* The last event of a node tells how the node is.
EventsTrue ==
    \A i \in 1 .. Len(shareEvents) : shareEvents[i].type = "node" =>
        \/ \E j \in i + 1 .. Len(shareEvents) : Puts(shareEvents[j], shareEvents[i].node)
        \/ shareEvents[i].shared <=> shareEvents[i].node \in shared

HandlerTrue == Changing => Waits(handler.node) \/ (handler.add <=> handler.node \in shared)

\* None of the races happened; a race of the listing does not count before its end.
NoRace == races \subseteq {"listing"}

\* A node that no event waits for is in the list in memory when it is in the server's.
Writing(n) == handler.phase = "write" /\ handler.node = n
MemoryTrue ==
    (NoRace /\ IsLoaded(memory)) =>
        /\ memory \subseteq Listed
        /\ \A n \in Listed : Waits(n) \/ Writing(n) \/ (n \in memory <=> n \in shared)

\* What is in memory is stored, or is on its way.
StoredFollows == (NoRace /\ (IsLoaded(memory) \/ Storing # {})) => Joined(memory) \in {stored} \cup Storing

\* What will be read when there is nothing in memory.
StoredTrue ==
    (NoRace /\ ~IsLoaded(memory) /\ Storing = {} /\ IsLoaded(Split(stored))) =>
        /\ stored \subseteq Listed \/ shareEvents # <<>>
        /\ \A n \in Listed : Waits(n) \/ (n \in stored <=> n \in shared)

\* The same for the pages a listing has read.
ListingTrue ==
    (listing.phase = "api" /\ "listing" \notin races) =>
        \A n \in Listed : n < listing.next => Waits(n) \/ (n \in listing.loaded <=> n \in shared)

ListsInv ==
    ListTypes /\ EventsTrue /\ HandlerTrue /\ MemoryTrue /\ StoredFollows /\ StoredTrue /\ ListingTrue

-----------------------------------------------------------------------------
(* The cached lists of shared nodes: the proof.                            *)

LEMMA ListConstants ==
    /\ 1 \in Listed /\ Blank \notin Listed /\ NListed \in Nat
    /\ \A S \in SUBSET Uids : IsLoaded(S)
    /\ ~IsLoaded(NotLoaded)
    /\ NotLoaded # {} /\ NotLoaded # {Blank}
<1>1. NListed \in Nat \ {0}
  BY SharingListsConstants
<1>2. NListed + 1 \notin Uids /\ NListed + 1 \in NotLoaded
  BY <1>1 DEF Uids, Listed, Blank, NotLoaded
<1> QED
  BY <1>1, <1>2 DEF Listed, Blank, IsLoaded, Uids

LEMMA NothingIs ==
    /\ NoWrite \in WriteRecord /\ NoWrite.phase = "idle" /\ NoWrite.type = "node"
    /\ NoListing \in ListingRecord /\ NoListing.phase = "idle" /\ NoListing.loaded = {} /\ NoListing.next = 1
BY ListConstants DEF NoWrite, WriteRecord, UidLists, NoListing, ListingRecord

\* What is stored of a list.
LEMMA JoinedIs ==
    ASSUME NEW S \in UidLists
    PROVE  /\ Joined(S) \in UidLists /\ Joined(S) # {Blank}
           /\ IsLoaded(S) => S \in SUBSET Uids /\ IsLoaded(Joined(S))
           /\ ~IsLoaded(S) => S = NotLoaded /\ Joined(S) = NotLoaded
           /\ S \in SUBSET Listed => Joined(S) = S /\ IsLoaded(S)
           /\ \A n \in Listed : n \in Joined(S) <=> n \in S
<1>1. (S = {Blank} /\ Joined(S) = {}) \/ (S # {Blank} /\ Joined(S) = S)
  BY DEF Joined
<1>2. {} \in SUBSET Uids /\ SUBSET Listed \subseteq SUBSET Uids
  BY DEF Uids
<1>3. IsLoaded(S) \/ S = NotLoaded
  BY ListConstants DEF UidLists
<1>4. IsLoaded(S) => S \in SUBSET Uids
  BY ListConstants DEF UidLists
<1>5. S \in SUBSET Listed => S # {Blank}
  BY ListConstants
<1>6. \A n \in Listed : n # Blank
  BY ListConstants
<1> QED
  BY <1>1, <1>2, <1>3, <1>4, <1>5, <1>6, ListConstants DEF UidLists

\* What is read of an entry.
LEMMA SplitIs ==
    ASSUME stored \in UidLists, stored # {Blank}
    PROVE  /\ Split(stored) \in UidLists
           /\ IsLoaded(Split(stored)) => Joined(Split(stored)) = stored /\ IsLoaded(stored)
           /\ (IsLoaded(Split(stored)) /\ ~HasBlank(Split(stored))) =>
                 Split(stored) = stored /\ Split(stored) \subseteq Listed
<1>1. \/ stored # {} /\ Split(stored) = stored
      \/ stored = {} /\ Split(stored) = NotLoaded
      \/ stored = {} /\ Split(stored) = {Blank}
  BY DEF Split
<1>2. {Blank} \in SUBSET Uids /\ {} \in SUBSET Uids /\ IsLoaded({Blank}) /\ IsLoaded({})
  BY ListConstants DEF Uids
<1>3. IsLoaded(stored) => stored \in SUBSET Uids
  BY ListConstants DEF UidLists
<1> QED
  BY <1>1, <1>2, <1>3, ListConstants DEF UidLists, Joined, HasBlank, Uids

\* What getNodeUids returns.
LEMMA GetIs ==
    ASSUME ListTypes
    PROVE  /\ GetNodeUids \in UidLists
           /\ IsLoaded(memory) => GetNodeUids = memory
           /\ ~IsLoaded(memory) => GetNodeUids = Split(stored)
<1>1. memory \in UidLists /\ Split(stored) \in UidLists
  BY SplitIs DEF ListTypes
<1> QED
  BY <1>1 DEF GetNodeUids

\* The entries on their way.
LEMMA StoringIs ==
    ASSUME ListTypes
    PROVE  /\ \A e \in Storing : e \in UidLists /\ e # {Blank}
           /\ \A e \in OwnEntry \cup ListingEntry : IsLoaded(e)
           /\ (Changing /\ handler.phase = "store") => HandlerEntry = {Joined(Applied(handler))}
           /\ (handler.phase = "store" /\ handler.type # "node") => HandlerEntry = {NotLoaded}
           /\ handler.phase # "store" => HandlerEntry = {}
           /\ own.phase # "store" => OwnEntry = {}
           /\ listing.phase # "store" => ListingEntry = {}
<1>1. ASSUME NEW w \in WriteRecord, IsLoaded(w.base) PROVE Applied(w) \in SUBSET Uids
  <2>1. w.base \in SUBSET Uids /\ w.node \in Uids
    BY <1>1, ListConstants DEF WriteRecord, UidLists, Uids
  <2> QED
    BY <2>1 DEF Applied
<1>2. ASSUME NEW w \in WriteRecord, IsLoaded(w.base)
      PROVE  Joined(Applied(w)) \in UidLists /\ Joined(Applied(w)) # {Blank} /\ IsLoaded(Joined(Applied(w)))
  <2>1. Applied(w) \in UidLists /\ IsLoaded(Applied(w))
    BY <1>1, <1>2, ListConstants DEF UidLists
  <2> QED
    BY <2>1, JoinedIs
<1>3. /\ own \in WriteRecord /\ handler \in WriteRecord
      /\ own.phase = "store" => IsLoaded(own.base)
      /\ (handler.phase = "store" /\ handler.type = "node") => IsLoaded(handler.base)
      /\ listing.loaded \in SUBSET Listed
  BY DEF ListTypes, Changing, ListingRecord
<1>4. listing.loaded \in UidLists /\ listing.loaded # {Blank} /\ IsLoaded(listing.loaded)
  BY <1>3, ListConstants DEF UidLists, Uids
<1>5. \A e \in OwnEntry : e \in UidLists /\ e # {Blank} /\ IsLoaded(e)
  BY <1>2, <1>3 DEF OwnEntry
<1>6. \A e \in ListingEntry : e \in UidLists /\ e # {Blank} /\ IsLoaded(e)
  BY <1>4 DEF ListingEntry
<1>7. \A e \in HandlerEntry : e \in UidLists /\ e # {Blank}
  BY <1>2, <1>3, ListConstants DEF HandlerEntry, UidLists
<1> QED
  BY <1>5, <1>6, <1>7 DEF Storing, OwnEntry, HandlerEntry, ListingEntry, Changing

\* What a listing on its way has read and what is told of a node now agree, or it is a race.
LEMMA MissesIs ==
    ASSUME ListTypes, NEW n \in Listed, NEW v \in BOOLEAN
    PROVE  /\ MissedByList(n, v) \subseteq {"listing"}
           /\ ("listing" \notin MissedByList(n, v) /\ listing.phase = "api" /\ n < listing.next) =>
                 (n \in listing.loaded <=> v)
<1>1. listing.next \in Nat /\ n \in Nat
  BY DEF ListTypes, ListingRecord, Listed
<1>2. CASE v = TRUE
  BY <1>1, <1>2 DEF MissedByList, Misses
<1>3. CASE v = FALSE
  BY <1>1, <1>3 DEF MissedByList, Misses
<1> QED
  BY <1>2, <1>3

LEMMA LateIs ==
    ASSUME ListTypes, ~Late
    PROVE  Waits(own.node) \/ (own.add <=> own.node \in shared)
<1>1. own.add \in BOOLEAN /\ DOMAIN shareEvents = 1 .. Len(shareEvents)
  BY DEF ListTypes, WriteRecord
<1>2. CASE \E i \in DOMAIN shareEvents : shareEvents[i].node = own.node
  BY <1>1, <1>2 DEF Waits, Puts
<1>3. CASE ~((own.node \in shared) # own.add)
  <2>1. CASE own.add = TRUE
    BY <1>3, <2>1
  <2>2. CASE own.add = FALSE
    BY <1>3, <2>2
  <2> QED
    BY <1>1, <2>1, <2>2
<1> QED
  BY <1>2, <1>3 DEF Late

LEMMA SameWaits ==
    ASSUME UNCHANGED <<shareEvents, list>>
    PROVE  \A n : Waits(n)' <=> Waits(n)
BY DEF Waits, Puts

\* What stays is seen the same.
LEMMA SameStoring ==
    ASSUME own' = own \/ (own.phase # "store" /\ own'.phase # "store"),
           handler' = handler \/ (handler.phase # "store" /\ handler'.phase # "store"),
           listing' = listing \/ (listing.phase # "store" /\ listing'.phase # "store")
    PROVE  Storing' = Storing
<1>1. OwnEntry' = OwnEntry
  BY DEF OwnEntry, Joined, Applied, Blank
<1>2. HandlerEntry' = HandlerEntry
  BY DEF HandlerEntry, Joined, Applied, Blank, NotLoaded
<1>3. ListingEntry' = ListingEntry
  BY DEF ListingEntry
<1> QED
  BY <1>1, <1>2, <1>3 DEF Storing

\* Where the lists stay, only more may wait.
LEMMA SameLists ==
    ASSUME ListsInv, UNCHANGED <<memory, stored, emptyIsNone>>, Storing' = Storing, races \subseteq races' \cup {"listing"},
           \A n : Waits(n) => Waits(n)', \A n \in Listed : Writing(n) => Writing(n)',
           \A n \in Listed : Waits(n)' \/ (n \in shared' <=> n \in shared),
           shareEvents # <<>> => shareEvents' # <<>>
    PROVE  MemoryTrue' /\ StoredFollows' /\ StoredTrue'
<1>1. NoRace' => NoRace
  BY DEF NoRace
<1>2. /\ IsLoaded(memory)' <=> IsLoaded(memory)
      /\ Split(stored)' = Split(stored) /\ Joined(memory)' = Joined(memory)
      /\ IsLoaded(Split(stored))' <=> IsLoaded(Split(stored))
  BY DEF IsLoaded, NotLoaded, Split, Blank, Joined
<1>3. MemoryTrue'
  BY <1>1, <1>2 DEF ListsInv, MemoryTrue
<1>4. StoredFollows'
  BY <1>1, <1>2 DEF ListsInv, StoredFollows
<1>5. StoredTrue'
  BY <1>1, <1>2 DEF ListsInv, StoredTrue
<1> QED
  BY <1>3, <1>4, <1>5

\* Reading the list changes nothing in it, or is one of the races.
LEMMA ReadingIs ==
    ASSUME ListsInv, Remember(GetNodeUids), (races \cup Misread) \subseteq races', UNCHANGED emptyIsNone
    PROVE  /\ memory' \in UidLists /\ (NoRace' => NoRace)
           /\ IsLoaded(memory) => IsLoaded(memory')
           /\ IsLoaded(GetNodeUids) => memory' = GetNodeUids /\ IsLoaded(memory')
           /\ ~IsLoaded(GetNodeUids) => memory' = memory /\ ~IsLoaded(memory')
           /\ (NoRace' /\ IsLoaded(memory')) =>
                 /\ memory' \subseteq Listed /\ Joined(memory') \in {stored} \cup Storing
                 /\ \A n \in Listed : Waits(n) \/ Writing(n) \/ (n \in memory' <=> n \in shared)
           /\ (NoRace' /\ ~IsLoaded(memory') /\ Storing # {}) => Joined(memory') \in {stored} \cup Storing
<1> DEFINE G == GetNodeUids
<1>0. ListTypes /\ memory \in UidLists /\ stored \in UidLists /\ stored # {Blank}
  BY DEF ListsInv, ListTypes
<1>1. G \in UidLists /\ (IsLoaded(memory) => G = memory) /\ (~IsLoaded(memory) => G = Split(stored))
  BY <1>0, GetIs
<1>2. memory' = IF IsLoaded(G) THEN G ELSE memory
  BY DEF Remember
<1>3. /\ NoRace' => NoRace
      /\ (NoRace' /\ IsLoaded(G)) => ~HasBlank(G) /\ (IsLoaded(memory) \/ Storing = {})
  BY DEF NoRace, Misread
<1> HIDE DEF G
<1>4. CASE IsLoaded(memory)
  <2>1. memory' = memory /\ G = memory /\ IsLoaded(G)
    BY <1>1, <1>2, <1>4
  <2>2. Joined(memory') = Joined(memory)
    BY <2>1
  <2>3. IsLoaded(memory')
    BY <1>4, <2>1
  <2> QED
    BY <1>0, <1>3, <1>4, <2>1, <2>2, <2>3 DEF ListsInv, MemoryTrue, StoredFollows, G
<1>5. CASE ~IsLoaded(memory) /\ IsLoaded(G)
  <2>1. memory' = G /\ G = Split(stored) /\ IsLoaded(memory')
    BY <1>1, <1>2, <1>5
  <2>2. ASSUME NoRace'
        PROVE  /\ memory' \subseteq Listed /\ Joined(memory') = stored
               /\ \A n \in Listed : Waits(n) \/ (n \in memory' <=> n \in shared)
    <3>1. NoRace /\ ~HasBlank(G) /\ Storing = {}
      BY <1>3, <1>5, <2>2
    <3>2. G = stored /\ G \subseteq Listed /\ Joined(G) = stored
      BY <1>0, <1>5, <2>1, <3>1, SplitIs
    <3>3. Joined(memory') = Joined(G)
      BY <2>1
    <3>4. \A n \in Listed : Waits(n) \/ (n \in stored <=> n \in shared)
      BY <1>5, <2>1, <3>1 DEF ListsInv, StoredTrue
    <3> QED
      BY <2>1, <3>2, <3>3, <3>4
  <2> QED
    BY <1>1, <1>3, <1>5, <2>1, <2>2 DEF G
<1>6. CASE ~IsLoaded(memory) /\ ~IsLoaded(G)
  <2>1. memory' = memory /\ Joined(memory') = Joined(memory) /\ ~IsLoaded(memory')
    BY <1>2, <1>6
  <2> QED
    BY <1>0, <1>3, <1>6, <2>1 DEF ListsInv, StoredFollows, G
<1> QED
  BY <1>4, <1>5, <1>6

\* The same where nothing else happens to the lists.
LEMMA ReadingKeeps ==
    ASSUME ListsInv, Remember(GetNodeUids), (races \cup Misread) \subseteq races',
           UNCHANGED <<stored, emptyIsNone, shared, shareEvents, list, handler>>, Storing' = Storing
    PROVE  MemoryTrue' /\ StoredFollows' /\ StoredTrue'
<1>1. /\ NoRace' => NoRace
      /\ ~IsLoaded(memory') => memory' = memory
      /\ (NoRace' /\ IsLoaded(memory')) =>
            /\ memory' \subseteq Listed /\ Joined(memory') \in {stored} \cup Storing
            /\ \A n \in Listed : Waits(n) \/ Writing(n) \/ (n \in memory' <=> n \in shared)
      /\ (NoRace' /\ ~IsLoaded(memory') /\ Storing # {}) => Joined(memory') \in {stored} \cup Storing
  BY ReadingIs
<1>2. (\A n : Waits(n)' <=> Waits(n)) /\ \A n : Writing(n)' <=> Writing(n)
  BY SameWaits DEF Writing
<1>3. MemoryTrue'
  BY <1>1, <1>2 DEF MemoryTrue, IsLoaded, NotLoaded
<1>4. StoredFollows'
  BY <1>1 DEF StoredFollows, IsLoaded, NotLoaded, Joined, Blank
<1>5. StoredTrue'
  <2>1. Split(stored)' = Split(stored)
    BY DEF Split, Blank, NotLoaded
  <2> QED
    BY <1>1, <1>2, <2>1 DEF ListsInv, StoredTrue, IsLoaded, NotLoaded
<1> QED
  BY <1>3, <1>4, <1>5

\* A new event is the last one.
LEMMA ChangeIs ==
    ASSUME ListTypes, NEW n \in Listed, ShareChanges(n), UNCHANGED list
    PROVE  /\ shared' \in SUBSET Listed /\ \A m \in Listed \ {n} : m \in shared' <=> m \in shared
           /\ shareEvents' \in Seq(ShareEvent) /\ Len(shareEvents) \in Nat /\ Len(shareEvents') = Len(shareEvents) + 1
           /\ \A i \in 1 .. Len(shareEvents) : shareEvents'[i] = shareEvents[i]
           /\ shareEvents'[Len(shareEvents) + 1].type = "node" => list = "byMe"
           /\ shareEvents'[Len(shareEvents) + 1].node = n
           /\ shareEvents'[Len(shareEvents) + 1].shared <=> n \in shared'
<1> DEFINE e == [type |-> IF list = "byMe" THEN "node" ELSE "sharedWithMe", node |-> n, shared |-> n \in shared']
<1>1. shareEvents' = Append(shareEvents, e) /\ shareEvents \in Seq(ShareEvent)
  BY DEF ShareChanges, ListTypes
<1>2. shared' = IF n \in shared THEN shared \ {n} ELSE shared \cup {n}
  BY DEF ShareChanges
<1>3. (n \in shared') \in BOOLEAN
  OBVIOUS
<1>4. e \in ShareEvent /\ e.node = n /\ (e.type = "node" => list = "byMe")
  <2>1. CASE n \in shared'
    BY <2>1 DEF ShareEvent
  <2>2. CASE ~(n \in shared')
    BY <2>2 DEF ShareEvent
  <2> QED
    BY <2>1, <2>2
<1>5. e.shared <=> n \in shared'
  BY Zenon
<1>6. shared' \in SUBSET Listed /\ \A m \in Listed \ {n} : m \in shared' <=> m \in shared
  BY <1>2 DEF ListTypes
<1> HIDE DEF e
<1>7. /\ shareEvents' \in Seq(ShareEvent) /\ Len(shareEvents) \in Nat /\ Len(shareEvents') = Len(shareEvents) + 1
      /\ \A i \in 1 .. Len(shareEvents) : shareEvents'[i] = shareEvents[i]
      /\ shareEvents'[Len(shareEvents) + 1] = e
  BY <1>1, <1>4
<1> QED
  BY <1>4, <1>5, <1>6, <1>7

LEMMA ChangeKeeps ==
    ASSUME ListsInv, NEW n \in Listed, ShareChanges(n),
           UNCHANGED <<list, emptyIsNone, memory, stored, listing, handler, races>>,
           own' \in WriteRecord, own'.phase \in {"write", "store"} => IsLoaded(own'.base),
           own' = own \/ (own.phase # "store" /\ own'.phase # "store")
    PROVE  ListsInv'
<1> DEFINE L == Len(shareEvents)
<1>0. ListTypes
  BY DEF ListsInv
<1>1. /\ shared' \in SUBSET Listed /\ \A m \in Listed \ {n} : m \in shared' <=> m \in shared
      /\ shareEvents' \in Seq(ShareEvent) /\ L \in Nat /\ Len(shareEvents') = L + 1
      /\ \A i \in 1 .. L : shareEvents'[i] = shareEvents[i]
      /\ shareEvents'[L + 1].type = "node" => list = "byMe"
      /\ shareEvents'[L + 1].node = n
      /\ shareEvents'[L + 1].shared <=> n \in shared'
  BY <1>0, ChangeIs
<1> HIDE DEF L
<1>2. /\ \A m : Waits(m) => Waits(m)'
      /\ Waits(n)'
  <2>1. ASSUME NEW m, Waits(m) PROVE Waits(m)'
    <3>1. PICK i \in 1 .. L : Puts(shareEvents[i], m)
      BY <2>1 DEF Waits, L
    <3>2. i \in 1 .. L + 1 /\ shareEvents'[i] = shareEvents[i]
      BY <1>1, <3>1
    <3> QED
      BY <1>1, <3>1, <3>2 DEF Waits, Puts
  <2>2. L + 1 \in 1 .. L + 1
    BY <1>1
  <2>3. Waits(n)'
    BY <1>1, <2>2 DEF Waits, Puts
  <2> QED
    BY <2>1, <2>3
<1>3. MemoryTrue' /\ StoredFollows' /\ StoredTrue'
  <2>1. Storing' = Storing
    BY SameStoring
  <2>2. shareEvents' # <<>>
    BY <1>1
  <2>3. \A m \in Listed : Waits(m)' \/ (m \in shared' <=> m \in shared)
    BY <1>1, <1>2
  <2>4. \A m \in Listed : Writing(m) => Writing(m)'
    BY DEF Writing
  <2> QED
    BY <1>2, <2>1, <2>2, <2>3, <2>4, SameLists
<1>4. ListTypes'
  <2>1. \A i \in 1 .. Len(shareEvents') : shareEvents'[i].type = "node" => list = "byMe"
    <3>1. \A i \in 1 .. Len(shareEvents') : i \in 1 .. L \/ i = L + 1
      BY <1>1
    <3> QED
      BY <1>0, <1>1, <3>1 DEF ListTypes, L
  <2> QED
    BY <1>0, <1>1, <2>1 DEF ListTypes, IsLoaded, Changing, NotLoaded
<1>5. EventsTrue'
  <2> SUFFICES ASSUME NEW i \in 1 .. L + 1, shareEvents'[i].type = "node"
               PROVE  \/ \E j \in i + 1 .. L + 1 : Puts(shareEvents[j], shareEvents[i].node)'
                      \/ shareEvents'[i].shared <=> shareEvents'[i].node \in shared'
    BY <1>1 DEF EventsTrue
  <2>1. CASE i = L + 1
    BY <1>1, <2>1
  <2>2. CASE i \in 1 .. L
    <3>1. shareEvents'[i] = shareEvents[i]
      BY <1>1, <2>2
    <3>2. CASE \E j \in i + 1 .. L : Puts(shareEvents[j], shareEvents[i].node)
      <4>1. PICK j \in i + 1 .. L : Puts(shareEvents[j], shareEvents[i].node)
        BY <3>2
      <4>2. j \in 1 .. L /\ j \in i + 1 .. L + 1
        BY <1>1
      <4> QED
        BY <1>1, <3>1, <4>1, <4>2 DEF Puts
    <3>3. CASE shareEvents[i].node = n
      <4>1. L + 1 \in i + 1 .. L + 1
        BY <1>1, <2>2
      <4> QED
        BY <1>1, <3>1, <3>3, <4>1 DEF Puts
    <3>4. CASE /\ shareEvents[i].node # n
               /\ shareEvents[i].shared <=> shareEvents[i].node \in shared
      <4>0. shareEvents \in Seq(ShareEvent)
        BY <1>0 DEF ListTypes
      <4>1. shareEvents[i] \in ShareEvent
        BY <2>2, <4>0 DEF L
      <4>2. shareEvents[i].node \in Listed
        BY <4>1 DEF ShareEvent
      <4> QED
        BY <1>1, <3>1, <3>4, <4>2
    <3> QED
      BY <2>2, <3>1, <3>2, <3>3, <3>4 DEF ListsInv, EventsTrue, L
  <2> QED
    BY <1>1, <2>1, <2>2
<1>6. HandlerTrue'
  BY <1>0, <1>1, <1>2 DEF ListsInv, HandlerTrue, ListTypes, WriteRecord, Changing
<1>7. ListingTrue'
  BY <1>1, <1>2 DEF ListsInv, ListingTrue
<1> QED
  BY <1>3, <1>4, <1>5, <1>6, <1>7 DEF ListsInv

LEMMA ReplacedKeeps == ListsInv /\ EventsReplaced => ListsInv'
<1> SUFFICES ASSUME ListsInv, EventsReplaced PROVE ListsInv'
  OBVIOUS
<1> DEFINE e == [type |-> "refresh", node |-> 1, shared |-> FALSE]
<1>0. ListTypes
  BY DEF ListsInv
<1>1. /\ shareEvents' = <<e>>
      /\ UNCHANGED <<list, emptyIsNone, shared, memory, stored, listing, own, handler, races>>
  BY DEF EventsReplaced
<1>2. e \in ShareEvent /\ e.type = "refresh"
  BY ListConstants DEF ShareEvent
<1> HIDE DEF e
<1>3. shareEvents' \in Seq(ShareEvent) /\ Len(shareEvents') = 1 /\ shareEvents'[1] = e /\ shareEvents' # <<>>
  BY <1>1, <1>2
<1>4. \A n : Waits(n)'
  BY <1>2, <1>3 DEF Waits, Puts
<1>5. \A i \in 1 .. Len(shareEvents') : shareEvents'[i].type # "node"
  BY <1>2, <1>3
<1>6. ListTypes'
  BY <1>0, <1>1, <1>3, <1>5 DEF ListTypes, IsLoaded, Changing, NotLoaded
<1>7. MemoryTrue' /\ StoredFollows' /\ StoredTrue'
  <2>1. Storing' = Storing
    BY <1>1, SameStoring
  <2>2. \A m \in Listed : Writing(m) => Writing(m)'
    BY <1>1 DEF Writing
  <2> QED
    BY <1>1, <1>3, <1>4, <2>1, <2>2, SameLists
<1> QED
  BY <1>4, <1>5, <1>6, <1>7 DEF ListsInv, EventsTrue, HandlerTrue, ListingTrue

\* Where the events and the handler stay, so does what they tell.
LEMMA EventsStay ==
    ASSUME ListsInv, UNCHANGED <<list, shared, shareEvents, handler>>
    PROVE  EventsTrue' /\ HandlerTrue'
<1>1. \A n : Waits(n)' <=> Waits(n)
  BY SameWaits
<1>2. EventsTrue'
  BY DEF ListsInv, EventsTrue, Puts
<1>3. HandlerTrue'
  BY <1>1 DEF ListsInv, HandlerTrue, Changing
<1> QED
  BY <1>2, <1>3

LEMMA ListingKeeps == ListsInv /\ (BeginListing \/ ReadPage \/ ListingFails) => ListsInv'
<1> SUFFICES ASSUME ListsInv, BeginListing \/ ReadPage \/ ListingFails PROVE ListsInv'
  OBVIOUS
<1>0. /\ ListTypes
      /\ listing \in ListingRecord /\ (\A n \in listing.loaded : n < listing.next)
      /\ races \subseteq RaceKinds
  BY DEF ListsInv, ListTypes
<1>1. CASE BeginListing
  <2>1. /\ Remember(GetNodeUids) /\ races' = races \cup Misread
        /\ UNCHANGED <<list, emptyIsNone, shared, shareEvents, stored, own, handler>>
        /\ listing' = listing \/ listing' = [NoListing EXCEPT !.phase = "api"]
        /\ listing.phase = "idle"
    BY <1>1 DEF BeginListing
  <2>2. /\ listing' \in ListingRecord /\ (listing'.phase = "api" => listing'.next = 1)
        /\ (\A n \in listing'.loaded : n < listing'.next) /\ listing'.phase # "store"
    BY <1>0, <2>1 DEF ListingRecord, NoListing
  <2>3. Storing' = Storing
    BY <2>1, <2>2, SameStoring
  <2>4. MemoryTrue' /\ StoredFollows' /\ StoredTrue'
    BY <2>1, <2>3, ReadingKeeps
  <2>5. Misread \subseteq RaceKinds
    BY DEF Misread, RaceKinds
  <2>6. memory' \in UidLists /\ (IsLoaded(memory) => IsLoaded(memory'))
    BY <2>1, ReadingIs
  <2>7. ListTypes'
    BY <1>0, <2>1, <2>2, <2>5, <2>6 DEF ListTypes, Changing, IsLoaded, NotLoaded
  <2>8. ListingTrue'
    BY <2>2 DEF ListingTrue, Listed
  <2> QED
    BY <2>1, <2>4, <2>7, <2>8, EventsStay DEF ListsInv
<1>2. CASE ReadPage
  <2> DEFINE k == listing.next
             page == IF k \in shared THEN listing.loaded \cup {k} ELSE listing.loaded
  <2>1. /\ listing.phase = "api" /\ k <= NListed /\ listing' = [listing EXCEPT !.next = k + 1, !.loaded = page]
        /\ UNCHANGED <<list, emptyIsNone, shared, shareEvents, memory, stored, own, handler, races>>
    BY <1>2 DEF ReadPage
  <2>2. k \in Listed /\ listing.loaded \in SUBSET Listed
    <3>1. k \in Nat \ {0} /\ listing.loaded \in SUBSET Listed
      BY <1>0 DEF ListingRecord
    <3> QED
      BY <2>1, <3>1, ListConstants DEF Listed
  <2>3. /\ listing' \in ListingRecord /\ listing'.phase = "api" /\ listing'.next = k + 1 /\ listing'.loaded = page
        /\ \A n \in listing'.loaded : n < listing'.next
    <3>1. page \in SUBSET Listed /\ k + 1 \in Nat \ {0}
      BY <2>2 DEF Listed
    <3>2. \A n \in page : n < k + 1
      BY <1>0, <2>2 DEF Listed
    <3>3. listing' \in ListingRecord /\ listing'.phase = "api" /\ listing'.next = k + 1 /\ listing'.loaded = page
      <4> HIDE DEF k, page
      <4> QED
        BY <1>0, <2>1, <3>1 DEF ListingRecord
    <3> QED
      BY <3>2, <3>3
  <2>4. ListingTrue'
    <3> SUFFICES ASSUME "listing" \notin races, NEW n \in Listed, n < k + 1
                 PROVE  Waits(n) \/ (n \in page <=> n \in shared)
      BY <2>1, <2>3, SameWaits DEF ListingTrue
    <3>1. CASE n = k
      <4>1. k \notin listing.loaded
        BY <1>0, <2>2 DEF ListTypes, Listed
      <4> QED
        BY <3>1, <4>1
    <3>2. CASE n # k
      <4>1. n < k
        BY <2>2, <3>2 DEF Listed
      <4>2. Waits(n) \/ (n \in listing.loaded <=> n \in shared)
        BY <2>1, <4>1 DEF ListsInv, ListingTrue
      <4> QED
        BY <3>2, <4>2
    <3> QED
      BY <3>1, <3>2
  <2>5. MemoryTrue' /\ StoredFollows' /\ StoredTrue'
    <3>1. Storing' = Storing
      BY <2>1, <2>3, SameStoring
    <3>2. \A m \in Listed : Writing(m) => Writing(m)'
      BY <2>1 DEF Writing
    <3> QED
      BY <2>1, <3>1, <3>2, SameWaits, SameLists
  <2>6. ListTypes'
    BY <1>0, <2>1, <2>3 DEF ListTypes, Changing, IsLoaded, NotLoaded
  <2> QED
    BY <2>1, <2>4, <2>5, <2>6, EventsStay DEF ListsInv
<1>3. CASE ListingFails
  <2>1. /\ listing' = NoListing /\ races' = races \ {"listing"} /\ listing.phase = "api"
        /\ UNCHANGED <<list, emptyIsNone, shared, shareEvents, memory, stored, own, handler>>
    BY <1>3 DEF ListingFails
  <2>2. ListingTrue' /\ listing' \in ListingRecord /\ listing'.phase = "idle" /\ listing'.loaded = {}
    BY <2>1, NothingIs DEF ListingTrue
  <2>3. MemoryTrue' /\ StoredFollows' /\ StoredTrue'
    <3>1. Storing' = Storing
      BY <2>1, <2>2, SameStoring
    <3>2. (\A m \in Listed : Writing(m) => Writing(m)') /\ races \subseteq races' \cup {"listing"}
      BY <2>1 DEF Writing
    <3> QED
      BY <2>1, <3>1, <3>2, SameWaits, SameLists
  <2>4. ListTypes'
    BY <1>0, <2>1, <2>2 DEF ListTypes, Changing, IsLoaded, NotLoaded
  <2> QED
    BY <2>1, <2>2, <2>3, <2>4, EventsStay DEF ListsInv
<1> QED
  BY <1>1, <1>2, <1>3

LEMMA ListingDoneKeeps == ListsInv /\ ListingDone => ListsInv'
<1> SUFFICES ASSUME ListsInv, ListingDone PROVE ListsInv'
  OBVIOUS
<1> DEFINE S == listing.loaded
<1>0. ListTypes
  BY DEF ListsInv
<1>1. /\ listing.phase = "api" /\ listing.next > NListed
      /\ memory' = S /\ listing' = [listing EXCEPT !.phase = "store"]
      /\ races' = IF "listing" \in races THEN {"raced"} ELSE {}
      /\ UNCHANGED <<list, emptyIsNone, shared, shareEvents, stored, own, handler>>
  BY DEF ListingDone
<1>2. S \in SUBSET Listed /\ listing.next \in Nat /\ S \in UidLists
  BY <1>0 DEF ListTypes, ListingRecord, UidLists, Uids
<1>3. IsLoaded(S) /\ Joined(S) = S
  BY <1>2, JoinedIs
<1>4. /\ listing' \in ListingRecord /\ listing'.phase = "store" /\ listing'.loaded = S
      /\ \A n \in listing'.loaded : n < listing'.next
  BY <1>0, <1>1 DEF ListTypes, ListingRecord
<1>5. \A n : Waits(n)' <=> Waits(n)
  BY <1>1, SameWaits
<1>6. IsLoaded(memory') /\ Joined(memory') = S /\ S \in Storing' /\ memory' \subseteq Listed
  <2>1. Joined(memory') = Joined(S)
    BY <1>1
  <2>2. S \in ListingEntry'
    BY <1>4 DEF ListingEntry
  <2> QED
    BY <1>1, <1>2, <1>3, <2>1, <2>2 DEF Storing
<1> HIDE DEF S
<1>7. ListTypes'
  BY <1>0, <1>1, <1>2, <1>4, <1>6 DEF ListTypes, IsLoaded, NotLoaded, Changing, RaceKinds
<1>8. MemoryTrue'
  <2> SUFFICES ASSUME "listing" \notin races, NEW n \in Listed PROVE Waits(n) \/ (n \in S <=> n \in shared)
    BY <1>1, <1>5, <1>6 DEF MemoryTrue, NoRace
  <2>1. n < listing.next
    BY <1>1, <1>2, ListConstants DEF Listed
  <2> QED
    BY <1>1, <2>1 DEF ListsInv, ListingTrue, S
<1>9. StoredFollows' /\ StoredTrue'
  <2>1. Joined(memory)' = Joined(memory') /\ (IsLoaded(memory)' <=> IsLoaded(memory'))
    BY DEF Joined, IsLoaded, NotLoaded, Blank
  <2> QED
    BY <1>6, <2>1 DEF StoredFollows, StoredTrue
<1>10. ListingTrue'
  BY <1>4 DEF ListingTrue
<1> QED
  BY <1>1, <1>7, <1>8, <1>9, <1>10, EventsStay DEF ListsInv

\* A writer whose entry was stored, or not.
LEMMA StoreKeeps ==
    ASSUME ListsInv, NEW entries \in SUBSET UidLists, NEW underway, StoreEntry(entries, underway),
           {Blank} \notin entries, underway = Storing',
           UNCHANGED <<list, emptyIsNone, shared, shareEvents, memory>>, \A n \in Listed : Writing(n) => Writing(n)'
    PROVE  /\ MemoryTrue' /\ StoredFollows' /\ StoredTrue'
           /\ stored' \in UidLists /\ stored' # {Blank}
           /\ races \subseteq races' /\ races' \subseteq RaceKinds
<1>0. ListTypes /\ stored \in UidLists /\ stored # {Blank} /\ races \subseteq RaceKinds /\ memory \in UidLists
  BY DEF ListsInv, ListTypes
<1>1. /\ stored' \in entries \/ stored' = stored
      /\ races' = races \cup (IF Joined(memory) \in {stored'} \cup underway THEN {} ELSE {"raced"})
  BY DEF StoreEntry
<1>2. stored' \in UidLists /\ stored' # {Blank} /\ races \subseteq races' /\ races' \subseteq RaceKinds
  BY <1>0, <1>1 DEF RaceKinds
<1>3. NoRace' => NoRace /\ Joined(memory) \in {stored'} \cup underway
  BY <1>1 DEF NoRace
<1>4. \A n : Waits(n)' <=> Waits(n)
  BY SameWaits
<1>5. /\ IsLoaded(memory)' <=> IsLoaded(memory)
      /\ Joined(memory)' = Joined(memory)
      /\ (IsLoaded(Split(stored)))' <=> IsLoaded(Split(stored'))
  BY DEF IsLoaded, NotLoaded, Split, Blank, Joined
<1>6. MemoryTrue'
  BY <1>3, <1>4, <1>5 DEF ListsInv, MemoryTrue
<1>7. StoredFollows'
  BY <1>3, <1>5 DEF StoredFollows
<1>8. StoredTrue'
  <2> SUFFICES ASSUME NoRace', ~IsLoaded(memory), Storing' = {}, IsLoaded(Split(stored')) PROVE FALSE
    BY <1>5 DEF StoredTrue
  <2>1. Joined(memory) = NotLoaded /\ stored' = NotLoaded
    BY <1>0, <1>3, JoinedIs
  <2>2. Split(stored') = NotLoaded
    BY <2>1, ListConstants DEF Split
  <2> QED
    BY <2>2, ListConstants
<1> QED
  BY <1>2, <1>6, <1>7, <1>8

\* When the first event is taken, the others still wait.
LEMMA TakenIs ==
    ASSUME ListsInv, shareEvents # <<>>, shareEvents' = Tail(shareEvents), UNCHANGED <<list, shared>>
    PROVE  /\ shareEvents' \in Seq(ShareEvent) /\ TheShareEvent = shareEvents[1] /\ TheShareEvent \in ShareEvent
           /\ TheShareEvent.type = "node" => list = "byMe"
           /\ \A i \in 1 .. Len(shareEvents') : shareEvents'[i].type = "node" => list = "byMe"
           /\ \A n : Waits(n) => Waits(n)' \/ Puts(TheShareEvent, n)
           /\ TheShareEvent.type = "node" =>
                 \A n : n = TheShareEvent.node => Waits(n)' \/ (TheShareEvent.shared <=> n \in shared)
           /\ EventsTrue'
<1>0. /\ shareEvents \in Seq(ShareEvent)
      /\ \A i \in 1 .. Len(shareEvents) : shareEvents[i].type = "node" => list = "byMe"
  BY DEF ListsInv, ListTypes
<1>1. /\ shareEvents' \in Seq(ShareEvent) /\ Len(shareEvents) \in Nat \ {0}
      /\ Len(shareEvents') = Len(shareEvents) - 1
      /\ \A i \in 1 .. Len(shareEvents') : shareEvents'[i] = shareEvents[i + 1]
      /\ TheShareEvent = shareEvents[1] /\ shareEvents[1] \in ShareEvent
  BY <1>0 DEF TheShareEvent
<1>2. \A i \in 2 .. Len(shareEvents) : i - 1 \in 1 .. Len(shareEvents') /\ shareEvents'[i - 1] = shareEvents[i]
  <2> SUFFICES ASSUME NEW i \in 2 .. Len(shareEvents)
               PROVE  i - 1 \in 1 .. Len(shareEvents') /\ shareEvents'[i - 1] = shareEvents[i]
    OBVIOUS
  <2>1. i - 1 \in 1 .. Len(shareEvents') /\ (i - 1) + 1 = i
    BY <1>1
  <2> QED
    BY <1>1, <2>1
<1>3. ASSUME NEW n, NEW i \in 2 .. Len(shareEvents), Puts(shareEvents[i], n)
      PROVE  Waits(n)'
  <2>1. i - 1 \in 1 .. Len(shareEvents') /\ Puts(shareEvents'[i - 1], n)
    BY <1>2, <1>3
  <2> QED
    BY <2>1 DEF Waits, Puts
<1>4. ASSUME NEW n, Waits(n) PROVE Waits(n)' \/ Puts(TheShareEvent, n)
  <2>1. PICK i \in 1 .. Len(shareEvents) : Puts(shareEvents[i], n)
    BY <1>4 DEF Waits
  <2>2. i = 1 \/ i \in 2 .. Len(shareEvents)
    BY <1>1
  <2> QED
    BY <1>1, <1>3, <2>1, <2>2
<1>5. 1 \in 1 .. Len(shareEvents)
  BY <1>1
<1>6. ASSUME TheShareEvent.type = "node", NEW n, n = TheShareEvent.node
      PROVE  Waits(n)' \/ (TheShareEvent.shared <=> n \in shared)
  <2>1. CASE \E j \in 1 + 1 .. Len(shareEvents) : Puts(shareEvents[j], shareEvents[1].node)
    <3>1. PICK j \in 2 .. Len(shareEvents) : Puts(shareEvents[j], shareEvents[1].node)
      BY <2>1
    <3> QED
      BY <1>1, <1>3, <1>6, <3>1
  <2> QED
    BY <1>1, <1>5, <1>6, <2>1 DEF ListsInv, EventsTrue
<1>7. \A i \in 1 .. Len(shareEvents') : shareEvents'[i].type = "node" => list = "byMe"
  <2> SUFFICES ASSUME NEW i \in 1 .. Len(shareEvents') PROVE shareEvents'[i].type = "node" => list = "byMe"
    OBVIOUS
  <2>1. i + 1 \in 1 .. Len(shareEvents)
    BY <1>1
  <2> QED
    BY <1>0, <1>1, <2>1
<1>8. EventsTrue'
  <2> SUFFICES ASSUME NEW i \in 1 .. Len(shareEvents'), shareEvents'[i].type = "node"
               PROVE  \/ \E j \in i + 1 .. Len(shareEvents') : Puts(shareEvents'[j], shareEvents'[i].node)
                      \/ shareEvents'[i].shared <=> shareEvents'[i].node \in shared
    BY DEF EventsTrue, Puts
  <2>1. i + 1 \in 1 .. Len(shareEvents) /\ shareEvents'[i] = shareEvents[i + 1]
    BY <1>1
  <2>2. CASE \E j \in (i + 1) + 1 .. Len(shareEvents) : Puts(shareEvents[j], shareEvents[i + 1].node)
    <3>1. PICK j \in (i + 1) + 1 .. Len(shareEvents) : Puts(shareEvents[j], shareEvents[i + 1].node)
      BY <2>2
    <3>2. j \in 2 .. Len(shareEvents) /\ j - 1 \in i + 1 .. Len(shareEvents')
      BY <1>1, <2>1
    <3> QED
      BY <1>2, <2>1, <3>1, <3>2
  <2> QED
    BY <2>1, <2>2 DEF ListsInv, EventsTrue
<1> QED
  BY <1>0, <1>1, <1>4, <1>5, <1>6, <1>7, <1>8

\* Of a listing on its way nothing is believed that an event contradicts.
LEMMA ListingHears ==
    ASSUME ListsInv, UNCHANGED <<list, shared, listing>>, races \subseteq races',
           \A n \in Listed : (Waits(n) /\ ~Waits(n)') => MissedByList(n, n \in shared) \subseteq races'
    PROVE  ListingTrue'
<1> SUFFICES ASSUME listing.phase = "api", "listing" \notin races', NEW n \in Listed, n < listing.next, ~Waits(n)'
             PROVE  n \in listing.loaded <=> n \in shared
  BY DEF ListingTrue
<1>1. CASE Waits(n)
  <2>1. "listing" \notin MissedByList(n, n \in shared)
    BY <1>1
  <2>2. ListTypes /\ (n \in shared) \in BOOLEAN
    BY DEF ListsInv
  <2> QED
    BY <2>1, <2>2, MissesIs
<1>2. CASE ~Waits(n)
  BY <1>2 DEF ListsInv, ListingTrue
<1> QED
  BY <1>1, <1>2

\* Which pages a listing missed, for all nodes together.
LEMMA AllMissed ==
    ASSUME ListTypes
    PROVE  /\ UNION {MissedByList(n, n \in shared) : n \in Listed} \subseteq {"listing"}
           /\ \A m \in Listed : MissedByList(m, m \in shared) \subseteq
                                    UNION {MissedByList(n, n \in shared) : n \in Listed}
<1>1. \A m \in Listed : MissedByList(m, m \in shared) \subseteq {"listing"}
  BY DEF MissedByList
<1> QED
  BY <1>1, Zenon

LEMMA ListingStoresKeep == ListsInv /\ ListingStores => ListsInv'
<1> SUFFICES ASSUME ListsInv, ListingStores PROVE ListsInv'
  OBVIOUS
<1>0. ListTypes
  BY DEF ListsInv
<1>1. /\ listing.phase = "store" /\ StoreEntry(ListingEntry, OwnEntry \cup HandlerEntry) /\ listing' = NoListing
      /\ UNCHANGED <<list, emptyIsNone, shared, shareEvents, memory, own, handler>>
  BY DEF ListingStores
<1>2. ListingEntry \in SUBSET UidLists /\ {Blank} \notin ListingEntry
  BY <1>0, StoringIs DEF Storing
<1>3. OwnEntry \cup HandlerEntry = Storing'
  BY <1>1, NothingIs DEF Storing, OwnEntry, HandlerEntry, ListingEntry, Joined, Applied, Blank, NotLoaded
<1>4. \A n \in Listed : Writing(n) => Writing(n)'
  BY <1>1 DEF Writing
<1>5. /\ MemoryTrue' /\ StoredFollows' /\ StoredTrue'
      /\ stored' \in UidLists /\ stored' # {Blank}
      /\ races \subseteq races' /\ races' \subseteq RaceKinds
  BY <1>1, <1>2, <1>3, <1>4, StoreKeeps
<1>6. ListTypes'
  BY <1>0, <1>1, <1>5, NothingIs DEF ListTypes, IsLoaded, NotLoaded, Changing
<1>7. ListingTrue'
  BY <1>1, NothingIs DEF ListingTrue
<1> QED
  BY <1>1, <1>5, <1>6, <1>7, EventsStay DEF ListsInv

LEMMA OwnStoresKeep == ListsInv /\ OwnStores => ListsInv'
<1> SUFFICES ASSUME ListsInv, OwnStores PROVE ListsInv'
  OBVIOUS
<1>0. ListTypes
  BY DEF ListsInv
<1>1. /\ own.phase = "store" /\ StoreEntry(OwnEntry, HandlerEntry \cup ListingEntry) /\ own' = NoWrite
      /\ UNCHANGED <<list, emptyIsNone, shared, shareEvents, memory, listing, handler>>
  BY DEF OwnStores
<1>2. OwnEntry \in SUBSET UidLists /\ {Blank} \notin OwnEntry
  BY <1>0, StoringIs DEF Storing
<1>3. HandlerEntry \cup ListingEntry = Storing'
  BY <1>1, NothingIs DEF Storing, OwnEntry, HandlerEntry, ListingEntry, Joined, Applied, Blank, NotLoaded
<1>4. \A n \in Listed : Writing(n) => Writing(n)'
  BY <1>1 DEF Writing
<1>5. /\ MemoryTrue' /\ StoredFollows' /\ StoredTrue'
      /\ stored' \in UidLists /\ stored' # {Blank}
      /\ races \subseteq races' /\ races' \subseteq RaceKinds
  BY <1>1, <1>2, <1>3, <1>4, StoreKeeps
<1>6. ListTypes'
  BY <1>0, <1>1, <1>5, NothingIs DEF ListTypes, IsLoaded, NotLoaded, Changing
<1>7. ListingTrue'
  BY <1>1, <1>5, SameWaits DEF ListsInv, ListingTrue
<1> QED
  BY <1>1, <1>5, <1>6, <1>7, EventsStay DEF ListsInv

LEMMA HandlerStoresKeep == ListsInv /\ HandlerStores => ListsInv'
<1> SUFFICES ASSUME ListsInv, HandlerStores PROVE ListsInv'
  OBVIOUS
<1>0. ListTypes
  BY DEF ListsInv
<1>1. /\ handler.phase = "store" /\ StoreEntry(HandlerEntry, OwnEntry \cup ListingEntry) /\ handler' = NoWrite
      /\ UNCHANGED <<list, emptyIsNone, shared, shareEvents, memory, listing, own>>
  BY DEF HandlerStores
<1>2. HandlerEntry \in SUBSET UidLists /\ {Blank} \notin HandlerEntry
  BY <1>0, StoringIs DEF Storing
<1>3. OwnEntry \cup ListingEntry = Storing'
  BY <1>1, NothingIs DEF Storing, OwnEntry, HandlerEntry, ListingEntry, Joined, Applied, Blank, NotLoaded
<1>4. \A n \in Listed : ~Writing(n)
  BY <1>1 DEF Writing
<1>5. /\ MemoryTrue' /\ StoredFollows' /\ StoredTrue'
      /\ stored' \in UidLists /\ stored' # {Blank}
      /\ races \subseteq races' /\ races' \subseteq RaceKinds
  BY <1>1, <1>2, <1>3, <1>4, StoreKeeps
<1>6. ListTypes'
  BY <1>0, <1>1, <1>5, NothingIs DEF ListTypes, IsLoaded, NotLoaded, Changing
<1>7. ListingTrue'
  BY <1>1, <1>5, SameWaits DEF ListsInv, ListingTrue
<1>8. EventsTrue' /\ HandlerTrue'
  BY <1>1, NothingIs DEF ListsInv, EventsTrue, HandlerTrue, Changing, Puts
<1> QED
  BY <1>5, <1>6, <1>7, <1>8 DEF ListsInv

LEMMA AnsweredKeeps == ListsInv /\ OwnAnswered => ListsInv'
<1> SUFFICES ASSUME ListsInv, OwnAnswered PROVE ListsInv'
  OBVIOUS
<1> DEFINE G == GetNodeUids
           missed == MissedByList(own.node, own.add)
           late == IF Late THEN {"raced"} ELSE {}
<1>0. /\ ListTypes /\ own \in WriteRecord /\ own.node \in Listed /\ own.add \in BOOLEAN
      /\ races \subseteq RaceKinds /\ own.phase = "answer"
  BY DEF ListsInv, ListTypes, WriteRecord, OwnAnswered
<1>1. /\ Remember(GetNodeUids) /\ races' = ((races \cup missed) \cup late) \cup Misread
      /\ own' = IF IsLoaded(G) THEN [own EXCEPT !.phase = "write", !.base = G] ELSE NoWrite
      /\ UNCHANGED <<list, emptyIsNone, shared, shareEvents, stored, listing, handler>>
  BY DEF OwnAnswered
<1>2. missed \subseteq RaceKinds /\ late \subseteq RaceKinds /\ Misread \subseteq RaceKinds
  <2>1. missed \subseteq {"listing"}
    BY <1>0, MissesIs
  <2> HIDE DEF missed
  <2> QED
    BY <2>1 DEF RaceKinds, Misread
<1> HIDE DEF missed, late
<1>3. races' \subseteq RaceKinds /\ (races \cup Misread) \subseteq races'
  BY <1>0, <1>1, <1>2
<1>4. G \in UidLists
  BY <1>0, GetIs
<1>5. own' \in WriteRecord /\ (own'.phase \in {"write", "store"} => IsLoaded(own'.base)) /\ own'.phase # "store"
  <2> HIDE DEF G
  <2>2. CASE IsLoaded(G)
    <3>1. own' = [own EXCEPT !.phase = "write", !.base = G]
      BY <1>1, <2>2
    <3>2. own' \in WriteRecord /\ own'.base = G /\ own'.phase = "write"
      BY <1>0, <1>4, <3>1 DEF WriteRecord
    <3> QED
      BY <2>2, <3>2 DEF IsLoaded, NotLoaded
  <2>3. CASE ~IsLoaded(G)
    BY <1>1, <2>3, NothingIs
  <2> QED
    BY <2>2, <2>3
<1>6. MemoryTrue' /\ StoredFollows' /\ StoredTrue'
  <2>1. Storing' = Storing
    BY <1>0, <1>1, <1>5, SameStoring
  <2> QED
    BY <1>1, <1>3, <2>1, ReadingKeeps
<1>7. memory' \in UidLists /\ (IsLoaded(memory) => IsLoaded(memory'))
  BY <1>1, <1>3, ReadingIs
<1>8. ListTypes'
  BY <1>0, <1>1, <1>3, <1>5, <1>7 DEF ListTypes, Changing, IsLoaded, NotLoaded
<1>9. ListingTrue'
  <2>1. "listing" \notin races' => "listing" \notin races
    BY <1>1
  <2> QED
    BY <1>1, <2>1, SameWaits DEF ListsInv, ListingTrue
<1> QED
  BY <1>1, <1>6, <1>8, <1>9, EventsStay DEF ListsInv

\* What addNodeUid and removeNodeUid leave in memory, when nobody else wrote since the
\* list was read.
LEMMA WriteIs ==
    ASSUME ListsInv, NEW w \in WriteRecord, IsLoaded(w.base), w.phase = "write",
           NEW late, late \subseteq {"raced"}, Write(w, late), UNCHANGED <<shared, emptyIsNone>>
    PROVE  /\ memory' \in UidLists /\ AfterWrite(w) \in WriteRecord
           /\ IsLoaded(memory) => IsLoaded(memory')
           /\ races' \subseteq RaceKinds /\ races \subseteq races'
           /\ \/ AfterWrite(w) = NoWrite /\ memory' = memory
              \/ /\ AfterWrite(w) = [w EXCEPT !.phase = "store"] /\ memory' = Applied(w) /\ IsLoaded(memory')
           /\ NoRace' =>
                 /\ NoRace /\ late = {} /\ IsLoaded(memory) /\ IsLoaded(memory') /\ memory' \subseteq Listed
                 /\ \A n \in Listed \ {w.node} : n \in memory' <=> n \in memory
                 /\ w.node \in memory' <=> w.add
<1> DEFINE A == Applied(w)
           missed == MissedByList(w.node, w.add)
           over == IF memory # w.base THEN {"raced"} ELSE {}
<1>0. ListTypes /\ memory \in UidLists
  BY DEF ListsInv, ListTypes
<1>1. w.node \in Listed /\ w.add \in BOOLEAN /\ w.base \in SUBSET Uids
  BY DEF WriteRecord, UidLists, IsLoaded
<1>2. /\ A \in SUBSET Uids /\ \A n \in Listed \ {w.node} : n \in A <=> n \in w.base
      /\ w.node \in A <=> w.add
      /\ w.base \subseteq Listed => A \subseteq Listed
  <2>1. CASE w.add = TRUE
    BY <1>1, <2>1 DEF Applied, Uids
  <2>2. CASE w.add = FALSE
    BY <1>1, <2>2 DEF Applied, Uids
  <2> QED
    BY <1>1, <2>1, <2>2
<1>3. /\ \/ A # w.base /\ memory' = A /\ AfterWrite(w) = [w EXCEPT !.phase = "store"]
         \/ A = w.base /\ memory' = memory /\ AfterWrite(w) = NoWrite
      /\ races' = ((races \cup missed) \cup late) \cup over
  BY DEF Write, AfterWrite
<1>4. missed \subseteq {"listing"} /\ over \subseteq {"raced"} /\ (over = {} => memory = w.base)
  BY <1>0, <1>1, MissesIs
<1>5. races \subseteq RaceKinds
  BY <1>0 DEF ListTypes
<1>6. IsLoaded(A) /\ A \in UidLists
  BY <1>2, ListConstants DEF UidLists
<1>7. [w EXCEPT !.phase = "store"] \in WriteRecord /\ NoWrite \in WriteRecord
  BY NothingIs DEF WriteRecord
<1>8. A = Applied(w)
  OBVIOUS
<1> HIDE DEF A, missed, over
<1>9. races' \subseteq RaceKinds /\ races \subseteq races'
  BY <1>3, <1>4, <1>5 DEF RaceKinds
<1>10. ASSUME NoRace'
       PROVE  /\ NoRace /\ late = {} /\ IsLoaded(memory) /\ IsLoaded(memory') /\ memory' \subseteq Listed
              /\ \A n \in Listed \ {w.node} : n \in memory' <=> n \in memory
              /\ w.node \in memory' <=> w.add
  <2>1. NoRace /\ late = {} /\ over = {}
    BY <1>3, <1>4, <1>10 DEF NoRace
  <2>2. memory = w.base /\ memory' = A
    BY <1>3, <1>4, <2>1
  <2>3. IsLoaded(memory) /\ IsLoaded(memory')
    BY <1>6, <2>2
  <2>4. memory \subseteq Listed
    BY <2>1, <2>3 DEF ListsInv, MemoryTrue
  <2> QED
    BY <1>2, <2>1, <2>2, <2>3, <2>4
<1>11. /\ memory' \in UidLists /\ AfterWrite(w) \in WriteRecord
       /\ IsLoaded(memory) => IsLoaded(memory')
       /\ \/ AfterWrite(w) = NoWrite /\ memory' = memory
          \/ /\ AfterWrite(w) = [w EXCEPT !.phase = "store"] /\ memory' = Applied(w) /\ IsLoaded(memory')
  BY <1>0, <1>3, <1>6, <1>7, <1>8
<1> QED
  BY <1>9, <1>10, <1>11

\* The entry on its way is that of the new list.
LEMMA EntryAfter ==
    ASSUME NEW w \in WriteRecord, AfterWrite(w) = [w EXCEPT !.phase = "store"]
    PROVE  /\ AfterWrite(w).phase = "store" /\ AfterWrite(w).type = w.type /\ AfterWrite(w).base = w.base
           /\ AfterWrite(w).node = w.node /\ (AfterWrite(w).add <=> w.add)
           /\ Applied(AfterWrite(w)) = Applied(w)
<1>1. /\ AfterWrite(w).phase = "store" /\ AfterWrite(w).type = w.type /\ AfterWrite(w).base = w.base
      /\ AfterWrite(w).node = w.node /\ AfterWrite(w).add = w.add
  BY DEF WriteRecord
<1> QED
  BY <1>1 DEF Applied

LEMMA OwnWritesKeep == ListsInv /\ OwnWrites => ListsInv'
<1> SUFFICES ASSUME ListsInv, OwnWrites PROVE ListsInv'
  OBVIOUS
<1> DEFINE late == IF Late THEN {"raced"} ELSE {}
<1>0. ListTypes /\ own \in WriteRecord /\ IsLoaded(own.base) /\ own.node \in Listed /\ own.phase = "write"
  BY DEF ListsInv, ListTypes, OwnWrites, WriteRecord
<1>1. /\ Write(own, late) /\ own' = AfterWrite(own)
      /\ UNCHANGED <<list, emptyIsNone, shared, shareEvents, stored, listing, handler>>
  BY DEF OwnWrites
<1>2. late \subseteq {"raced"} /\ (late = {} => Waits(own.node) \/ (own.add <=> own.node \in shared))
  BY <1>0, LateIs
<1> HIDE DEF late
<1>3. /\ memory' \in UidLists /\ own' \in WriteRecord
      /\ IsLoaded(memory) => IsLoaded(memory')
      /\ races' \subseteq RaceKinds /\ races \subseteq races'
      /\ \/ own' = NoWrite /\ memory' = memory
         \/ /\ own' = [own EXCEPT !.phase = "store"] /\ memory' = Applied(own) /\ IsLoaded(memory')
      /\ NoRace' =>
            /\ NoRace /\ late = {} /\ IsLoaded(memory) /\ IsLoaded(memory') /\ memory' \subseteq Listed
            /\ \A n \in Listed \ {own.node} : n \in memory' <=> n \in memory
            /\ own.node \in memory' <=> own.add
  BY <1>0, <1>1, <1>2, WriteIs
<1>4. \A n : Waits(n)' <=> Waits(n)
  BY <1>1, SameWaits
<1>5. own'.phase \in {"write", "store"} => IsLoaded(own'.base)
  <2>1. own' = NoWrite \/ own'.base = own.base
    BY <1>0, <1>3 DEF WriteRecord
  <2> QED
    BY <1>0, <2>1, NothingIs
<1>6. ListTypes'
  BY <1>0, <1>1, <1>3, <1>5 DEF ListTypes, IsLoaded, NotLoaded, Changing
<1>7. MemoryTrue'
  <2> SUFFICES ASSUME NoRace', NEW n \in Listed
               PROVE  Waits(n) \/ Writing(n) \/ (n \in memory' <=> n \in shared)
    BY <1>1, <1>3, <1>4 DEF MemoryTrue, Writing
  <2>1. CASE n = own.node
    BY <1>2, <1>3, <2>1
  <2>2. CASE n # own.node
    BY <1>3, <2>2 DEF ListsInv, MemoryTrue
  <2> QED
    BY <2>1, <2>2
<1>8. StoredFollows' /\ StoredTrue'
  <2>1. (IsLoaded(memory)' <=> IsLoaded(memory')) /\ Joined(memory)' = Joined(memory')
    BY DEF IsLoaded, NotLoaded, Joined, Blank
  <2>2. CASE own' = NoWrite /\ memory' = memory
    <3>1. Storing' = Storing
      BY <1>0, <1>1, <2>2, NothingIs, SameStoring
    <3>2. Joined(memory') = Joined(memory)
      BY <2>2
    <3>3. NoRace' => NoRace /\ IsLoaded(memory) /\ IsLoaded(memory') /\ Joined(memory) \in {stored} \cup Storing
      BY <1>3 DEF ListsInv, StoredFollows
    <3> QED
      BY <1>1, <2>1, <3>1, <3>2, <3>3 DEF StoredFollows, StoredTrue
  <2>3. CASE own' = [own EXCEPT !.phase = "store"] /\ memory' = Applied(own) /\ IsLoaded(memory')
    <3>1. own'.phase = "store" /\ Applied(own') = Applied(own)
      BY <1>0, <1>1, <2>3, EntryAfter
    <3>2. OwnEntry' = {Joined(Applied(own'))}
      BY <3>1 DEF OwnEntry, Joined, Applied, Blank
    <3>3. Joined(memory') \in Storing' /\ Storing' # {}
      BY <2>3, <3>1, <3>2 DEF Storing
    <3> QED
      BY <2>1, <3>3 DEF StoredFollows, StoredTrue
  <2> QED
    BY <1>3, <2>2, <2>3
<1>9. ListingTrue'
  BY <1>1, <1>3, <1>4 DEF ListsInv, ListingTrue
<1> QED
  BY <1>1, <1>6, <1>7, <1>8, <1>9, EventsStay DEF ListsInv

LEMMA HandlerWritesKeep == ListsInv /\ HandlerWrites => ListsInv'
<1> SUFFICES ASSUME ListsInv, HandlerWrites PROVE ListsInv'
  OBVIOUS
<1>0. /\ ListTypes /\ handler \in WriteRecord /\ IsLoaded(handler.base) /\ handler.node \in Listed
      /\ handler.phase = "write" /\ handler.type = "node" /\ list = "byMe" /\ Changing /\ IsLoaded(memory)
  BY DEF ListsInv, ListTypes, HandlerWrites, WriteRecord, Changing
<1>1. /\ Write(handler, {}) /\ handler' = AfterWrite(handler)
      /\ UNCHANGED <<list, emptyIsNone, shared, shareEvents, stored, listing, own>>
  BY DEF HandlerWrites
<1>2. Waits(handler.node) \/ (handler.add <=> handler.node \in shared)
  BY <1>0 DEF ListsInv, HandlerTrue
<1>3. /\ memory' \in UidLists /\ handler' \in WriteRecord
      /\ IsLoaded(memory) => IsLoaded(memory')
      /\ races' \subseteq RaceKinds /\ races \subseteq races'
      /\ \/ handler' = NoWrite /\ memory' = memory
         \/ /\ handler' = [handler EXCEPT !.phase = "store"] /\ memory' = Applied(handler) /\ IsLoaded(memory')
      /\ NoRace' =>
            /\ NoRace /\ IsLoaded(memory) /\ IsLoaded(memory') /\ memory' \subseteq Listed
            /\ \A n \in Listed \ {handler.node} : n \in memory' <=> n \in memory
            /\ handler.node \in memory' <=> handler.add
  BY <1>0, <1>1, WriteIs
<1>4. \A n : Waits(n)' <=> Waits(n)
  BY <1>1, SameWaits
<1>5. \/ handler' = NoWrite /\ handler'.phase = "idle" /\ handler'.type = "node"
      \/ /\ handler'.phase = "store" /\ handler'.type = "node" /\ handler'.base = handler.base
         /\ handler'.node = handler.node /\ (handler'.add <=> handler.add) /\ Applied(handler') = Applied(handler)
  BY <1>0, <1>1, <1>3, NothingIs, EntryAfter
<1>6. ListTypes'
  BY <1>0, <1>1, <1>3, <1>5 DEF ListTypes, IsLoaded, NotLoaded, Changing
<1>7. MemoryTrue'
  <2> SUFFICES ASSUME NoRace', NEW n \in Listed
               PROVE  Waits(n) \/ (n \in memory' <=> n \in shared)
    BY <1>1, <1>3, <1>4 DEF MemoryTrue
  <2>1. CASE n = handler.node
    BY <1>2, <1>3, <2>1
  <2>2. CASE n # handler.node
    BY <1>3, <2>2 DEF ListsInv, MemoryTrue, Writing
  <2> QED
    BY <2>1, <2>2
<1>8. StoredFollows' /\ StoredTrue'
  <2>1. (IsLoaded(memory)' <=> IsLoaded(memory')) /\ Joined(memory)' = Joined(memory') /\ IsLoaded(memory')
    BY <1>0, <1>3 DEF IsLoaded, NotLoaded, Joined, Blank
  <2>2. CASE handler' = NoWrite /\ memory' = memory
    <3>1. Storing' = Storing
      BY <1>0, <1>1, <2>2, NothingIs, SameStoring
    <3>2. Joined(memory') = Joined(memory)
      BY <2>2
    <3>3. NoRace' => Joined(memory) \in {stored} \cup Storing
      BY <1>3 DEF ListsInv, StoredFollows
    <3> QED
      BY <1>1, <2>1, <3>1, <3>2, <3>3 DEF StoredFollows, StoredTrue
  <2>3. CASE handler' = [handler EXCEPT !.phase = "store"] /\ memory' = Applied(handler)
    <3>0. handler'.phase = "store" /\ handler'.type = "node" /\ Applied(handler') = Applied(handler)
      BY <1>0, <1>1, <2>3, EntryAfter
    <3>1. Joined(Applied(handler')) = Joined(memory')
      BY <2>3, <3>0
    <3>2. HandlerEntry' = {Joined(Applied(handler'))}
      BY <3>0 DEF HandlerEntry, Joined, Applied, Blank
    <3>3. Joined(memory') \in Storing' /\ Storing' # {}
      BY <3>1, <3>2 DEF Storing
    <3> QED
      BY <2>1, <3>3 DEF StoredFollows, StoredTrue
  <2> QED
    BY <1>3, <2>2, <2>3
<1>9. EventsTrue' /\ HandlerTrue'
  <2>1. EventsTrue'
    BY <1>1 DEF ListsInv, EventsTrue, Puts
  <2>2. HandlerTrue'
    BY <1>1, <1>2, <1>4, <1>5 DEF HandlerTrue, Changing
  <2> QED
    BY <2>1, <2>2
<1>10. ListingTrue'
  BY <1>1, <1>3, <1>4 DEF ListsInv, ListingTrue
<1> QED
  BY <1>6, <1>7, <1>8, <1>9, <1>10 DEF ListsInv

LEMMA ForgottenKeeps == ListsInv /\ (HandleSharedWithMe \/ HandleRefreshByMe) => ListsInv'
<1> SUFFICES ASSUME ListsInv, HandleSharedWithMe \/ HandleRefreshByMe PROVE ListsInv'
  OBVIOUS
<1> DEFINE missed == UNION {MissedByList(n, n \in shared) : n \in Listed}
<1>0. ListTypes /\ handler \in WriteRecord /\ races \subseteq RaceKinds
  BY DEF ListsInv, ListTypes
<1>1. /\ handler.phase = "idle" /\ shareEvents # <<>> /\ shareEvents' = Tail(shareEvents)
      /\ TheShareEvent.type # "node"
      /\ UNCHANGED <<list, emptyIsNone, shared, stored, listing, own>>
      /\ races' \in {races \cup missed, (races \cup {"raced"}) \cup missed}
  BY DEF HandleSharedWithMe, HandleRefreshByMe
<1>2. missed \subseteq {"listing"} /\ \A m \in Listed : MissedByList(m, m \in shared) \subseteq missed
  BY <1>0, AllMissed
<1> HIDE DEF missed
<1>3. races' \subseteq RaceKinds /\ races \subseteq races' /\ missed \subseteq races'
  BY <1>0, <1>1, <1>2 DEF RaceKinds
<1>4. /\ shareEvents' \in Seq(ShareEvent) /\ EventsTrue' /\ TheShareEvent \in ShareEvent
      /\ \A i \in 1 .. Len(shareEvents') : shareEvents'[i].type = "node" => list = "byMe"
  BY <1>1, TakenIs
<1>5. ListingTrue'
  BY <1>1, <1>2, <1>3, ListingHears
<1>6. CASE HandleSharedWithMe
  <2> DEFINE type == TheShareEvent.type
  <2>1. memory' = NotLoaded /\ list = "withMe" /\ handler' = [NoWrite EXCEPT !.phase = "store", !.type = type]
    BY <1>6 DEF HandleSharedWithMe
  <2>2. type \in {"sharedWithMe", "refresh"}
    BY <1>1, <1>4 DEF ShareEvent
  <2> HIDE DEF type
  <2>3. handler' \in WriteRecord /\ handler'.phase = "store" /\ handler'.type = type
    BY <2>1, <2>2, NothingIs DEF WriteRecord
  <2>4. ~IsLoaded(memory') /\ memory' \in UidLists /\ Joined(memory') = NotLoaded
    BY <2>1, JoinedIs, ListConstants DEF UidLists
  <2>5. ListTypes'
    BY <1>0, <1>1, <1>3, <1>4, <2>1, <2>2, <2>3, <2>4 DEF ListTypes, IsLoaded, NotLoaded, Changing
  <2>6. HandlerEntry' = {NotLoaded}
    BY <2>2, <2>3 DEF HandlerEntry, NotLoaded
  <2>7. (IsLoaded(memory)' <=> IsLoaded(memory')) /\ Joined(memory)' = Joined(memory') /\ Joined(memory') \in Storing'
    BY <2>4, <2>6 DEF IsLoaded, NotLoaded, Joined, Blank, Storing
  <2>8. MemoryTrue' /\ StoredFollows' /\ StoredTrue'
    BY <2>4, <2>7 DEF MemoryTrue, StoredFollows, StoredTrue
  <2>9. HandlerTrue'
    BY <2>2, <2>3 DEF HandlerTrue, Changing
  <2> QED
    BY <1>4, <1>5, <2>5, <2>8, <2>9 DEF ListsInv
<1>7. CASE HandleRefreshByMe
  <2>1. UNCHANGED <<memory, handler>> /\ "raced" \in races'
    BY <1>7 DEF HandleRefreshByMe
  <2>2. ListTypes'
    BY <1>0, <1>1, <1>3, <1>4, <2>1 DEF ListTypes, IsLoaded, NotLoaded, Changing
  <2>3. MemoryTrue' /\ StoredFollows' /\ StoredTrue'
    BY <2>1 DEF MemoryTrue, StoredFollows, StoredTrue, NoRace
  <2>4. HandlerTrue'
    BY <1>1, <2>1 DEF HandlerTrue, Changing
  <2> QED
    BY <1>4, <1>5, <2>2, <2>3, <2>4 DEF ListsInv
<1> QED
  BY <1>6, <1>7

LEMMA SharedByMeKeeps == ListsInv /\ HandleSharedByMe => ListsInv'
<1> SUFFICES ASSUME ListsInv, HandleSharedByMe PROVE ListsInv'
  OBVIOUS
<1> DEFINE G == GetNodeUids
           e == TheShareEvent
           missed == MissedByList(e.node, e.shared)
<1>0. ListTypes /\ races \subseteq RaceKinds
  BY DEF ListsInv, ListTypes
<1>1. /\ handler.phase = "idle" /\ shareEvents # <<>> /\ shareEvents' = Tail(shareEvents) /\ e.type = "node"
      /\ Remember(G) /\ races' = (races \cup missed) \cup Misread
      /\ handler' = IF IsLoaded(G)
                      THEN [NoWrite EXCEPT !.phase = "write", !.node = e.node, !.add = e.shared, !.base = G]
                      ELSE NoWrite
      /\ UNCHANGED <<list, emptyIsNone, shared, stored, listing, own>>
  BY DEF HandleSharedByMe
<1>2. /\ shareEvents' \in Seq(ShareEvent) /\ e \in ShareEvent /\ list = "byMe"
      /\ \A i \in 1 .. Len(shareEvents') : shareEvents'[i].type = "node" => list = "byMe"
      /\ \A n : Waits(n) => Waits(n)' \/ Puts(e, n)
      /\ \A n : n = e.node => Waits(n)' \/ (e.shared <=> n \in shared)
      /\ EventsTrue'
  BY <1>1, TakenIs
<1>3. e.node \in Listed /\ e.shared \in BOOLEAN
  BY <1>2 DEF ShareEvent
<1>4. \A n : Puts(e, n) => n = e.node
  BY <1>1, <1>2 DEF Puts
<1>5. /\ missed \subseteq {"listing"} /\ races \subseteq races' /\ missed \subseteq races' /\ races' \subseteq RaceKinds
      /\ (races \cup Misread) \subseteq races'
  <2>1. missed \subseteq {"listing"}
    BY <1>0, <1>3, MissesIs
  <2> HIDE DEF missed
  <2> QED
    BY <1>0, <1>1, <2>1 DEF RaceKinds, Misread
<1>6. /\ memory' \in UidLists /\ (NoRace' => NoRace)
      /\ IsLoaded(memory) => IsLoaded(memory')
      /\ IsLoaded(G) => memory' = G /\ IsLoaded(memory')
      /\ ~IsLoaded(G) => memory' = memory /\ ~IsLoaded(memory')
      /\ (NoRace' /\ IsLoaded(memory')) =>
            /\ memory' \subseteq Listed /\ Joined(memory') \in {stored} \cup Storing
            /\ \A n \in Listed : Waits(n) \/ Writing(n) \/ (n \in memory' <=> n \in shared)
      /\ (NoRace' /\ ~IsLoaded(memory') /\ Storing # {}) => Joined(memory') \in {stored} \cup Storing
      /\ G \in UidLists
  BY <1>0, <1>1, <1>5, ReadingIs, GetIs
<1>61. ~IsLoaded(G) => ~IsLoaded(Split(stored)) /\ ~IsLoaded(memory)
  BY <1>0, GetIs
<1> HIDE DEF G, e, missed
<1>7. /\ handler' \in WriteRecord /\ handler'.type = "node" /\ handler'.phase \in {"idle", "write"}
      /\ handler'.phase = "write" => IsLoaded(handler'.base) /\ IsLoaded(memory')
      /\ IsLoaded(G) => handler'.phase = "write" /\ handler'.node = e.node /\ (handler'.add <=> e.shared)
      /\ ~IsLoaded(G) => handler'.phase = "idle"
  <2>2. CASE IsLoaded(G)
    <3>1. handler' = [NoWrite EXCEPT !.phase = "write", !.node = e.node, !.add = e.shared, !.base = G]
      BY <1>1, <2>2
    <3>2. /\ handler' \in WriteRecord /\ handler'.phase = "write" /\ handler'.node = e.node /\ handler'.base = G
          /\ handler'.add = e.shared /\ handler'.type = "node"
      BY <1>3, <1>6, <3>1, NothingIs DEF WriteRecord
    <3> QED
      BY <1>6, <2>2, <3>2 DEF IsLoaded, NotLoaded
  <2>3. CASE ~IsLoaded(G)
    BY <1>1, <2>3, NothingIs
  <2> QED
    BY <2>2, <2>3
<1>8. ListTypes'
  BY <1>0, <1>1, <1>2, <1>5, <1>6, <1>7 DEF ListTypes, IsLoaded, NotLoaded, Changing
<1>9. HandlerTrue'
  <2> SUFFICES ASSUME handler'.phase = "write", NEW n, n = handler'.node
               PROVE  Waits(n)' \/ (handler'.add <=> n \in shared)
    BY <1>1, <1>7 DEF HandlerTrue, Changing
  <2> QED
    BY <1>2, <1>7
<1>10. MemoryTrue'
  <2> SUFFICES ASSUME NoRace', IsLoaded(memory'), NEW n \in Listed, ~Waits(n)', ~Writing(n)'
               PROVE  n \in memory' <=> n \in shared
    BY <1>1, <1>6 DEF MemoryTrue, IsLoaded, NotLoaded
  <2>1. IsLoaded(G) /\ n # e.node
    BY <1>6, <1>7 DEF Writing
  <2>2. ~Waits(n) /\ ~Writing(n)
    BY <1>1, <1>2, <1>4, <2>1 DEF Writing
  <2> QED
    BY <1>6, <2>2
<1>11. StoredFollows' /\ StoredTrue'
  <2>1. Storing' = Storing
    BY <1>1, <1>7, SameStoring
  <2>2. /\ (IsLoaded(memory)' <=> IsLoaded(memory')) /\ Joined(memory)' = Joined(memory')
        /\ (IsLoaded(Split(stored)))' <=> IsLoaded(Split(stored))
    BY <1>1 DEF IsLoaded, NotLoaded, Joined, Blank, Split
  <2>3. StoredFollows'
    BY <1>1, <1>6, <2>1, <2>2 DEF StoredFollows
  <2>4. StoredTrue'
    BY <1>6, <1>61, <2>2 DEF StoredTrue
  <2> QED
    BY <2>3, <2>4
<1>12. ListingTrue'
  <2> SUFFICES ASSUME NEW n \in Listed, Waits(n), ~Waits(n)'
               PROVE  MissedByList(n, n \in shared) \subseteq races'
    BY <1>1, <1>5, ListingHears
  <2>1. n = e.node /\ (e.shared <=> n \in shared)
    BY <1>2, <1>4
  <2>2. MissedByList(n, n \in shared) = missed
    <3>1. CASE n \in shared
      <4>1. e.shared = TRUE /\ (n \in shared) = TRUE
        BY <1>3, <2>1, <3>1
      <4> QED
        BY <2>1, <4>1 DEF missed
    <3>2. CASE ~(n \in shared)
      <4>1. e.shared = FALSE /\ (n \in shared) = FALSE
        BY <1>3, <2>1, <3>2
      <4> QED
        BY <2>1, <4>1 DEF missed
    <3> QED
      BY <3>1, <3>2
  <2> QED
    BY <1>5, <2>2
<1> QED
  BY <1>2, <1>8, <1>9, <1>10, <1>11, <1>12 DEF ListsInv

\* What was being handled when the application ended is told again.
LEMMA AgainIs ==
    ASSUME ListsInv, UNCHANGED <<list, shared>>, handler.phase \in {"write", "store"},
           shareEvents' = <<[type |-> handler.type, node |-> handler.node, shared |-> handler.add]>> \o shareEvents
    PROVE  /\ shareEvents' \in Seq(ShareEvent) /\ shareEvents' # <<>>
           /\ \A i \in 1 .. Len(shareEvents') : shareEvents'[i].type = "node" => list = "byMe"
           /\ \A n : Waits(n) => Waits(n)'
           /\ \A n : n = handler.node => Waits(n)'
           /\ ~Changing => \A n : Waits(n)'
           /\ EventsTrue'
<1> DEFINE e == [type |-> handler.type, node |-> handler.node, shared |-> handler.add]
           L == Len(shareEvents)
<1>0. /\ shareEvents \in Seq(ShareEvent) /\ handler.node \in Listed /\ handler.add \in BOOLEAN
      /\ handler.type \in {"node", "sharedWithMe", "refresh"}
      /\ handler.type = "node" => list = "byMe" /\ Changing
      /\ handler.type # "node" => list = "withMe"
      /\ \A i \in 1 .. Len(shareEvents) : shareEvents[i].type = "node" => list = "byMe"
  BY DEF ListsInv, ListTypes, WriteRecord, Changing
<1>1. e \in ShareEvent /\ e.type = handler.type /\ e.node = handler.node
  BY <1>0 DEF ShareEvent
<1>2. e.shared = handler.add
  BY Zenon
<1>3. shareEvents' = <<e>> \o shareEvents
  OBVIOUS
<1> HIDE DEF e
<1>4. /\ shareEvents' \in Seq(ShareEvent) /\ L \in Nat /\ Len(shareEvents') = L + 1 /\ shareEvents'[1] = e
      /\ \A i \in 2 .. L + 1 : shareEvents'[i] = shareEvents[i - 1]
  BY <1>0, <1>1, <1>3
<1> HIDE DEF L
<1>5. ASSUME NEW i \in 1 .. L PROVE i + 1 \in 2 .. L + 1 /\ i + 1 \in 1 .. L + 1 /\ shareEvents'[i + 1] = shareEvents[i]
  <2>1. i + 1 \in 2 .. L + 1 /\ (i + 1) - 1 = i
    BY <1>4
  <2> QED
    BY <1>4, <2>1
<1>6. \A n : Waits(n) => Waits(n)'
  <2> SUFFICES ASSUME NEW n, Waits(n) PROVE Waits(n)'
    OBVIOUS
  <2>1. PICK i \in 1 .. L : Puts(shareEvents[i], n)
    BY DEF Waits, L
  <2>2. i + 1 \in 1 .. Len(shareEvents') /\ Puts(shareEvents'[i + 1], n)
    BY <1>4, <1>5, <2>1
  <2> QED
    BY <2>2 DEF Waits, Puts
<1>7. 1 \in 1 .. Len(shareEvents')
  BY <1>4
<1>8. (\A n : n = handler.node => Waits(n)') /\ (~Changing => \A n : Waits(n)')
  BY <1>0, <1>1, <1>4, <1>7 DEF Waits, Puts
<1>9. \A i \in 1 .. L + 1 : i = 1 \/ (i - 1 \in 1 .. L /\ i = (i - 1) + 1)
  BY <1>4
<1>10. EventsTrue'
  <2> SUFFICES ASSUME NEW i \in 1 .. L + 1, shareEvents'[i].type = "node"
               PROVE  \/ \E j \in i + 1 .. L + 1 : Puts(shareEvents'[j], shareEvents'[i].node)
                      \/ shareEvents'[i].shared <=> shareEvents'[i].node \in shared
    BY <1>4 DEF EventsTrue, Puts
  <2>1. CASE i = 1
    <3>0. Changing
      BY <1>0, <1>1, <1>4, <2>1
    <3>1. CASE Waits(handler.node)
      <4>1. PICK j \in 1 .. L : Puts(shareEvents[j], handler.node)
        BY <3>1 DEF Waits, L
      <4>2. j + 1 \in i + 1 .. L + 1 /\ shareEvents'[j + 1] = shareEvents[j]
        BY <1>4, <1>5, <2>1
      <4> QED
        BY <1>1, <1>4, <2>1, <4>1, <4>2
    <3>2. CASE handler.add <=> handler.node \in shared
      BY <1>1, <1>2, <1>4, <2>1, <3>2
    <3> QED
      BY <3>0, <3>1, <3>2 DEF ListsInv, HandlerTrue
  <2>2. CASE i # 1
    <3> DEFINE k == i - 1
    <3>1. k \in 1 .. L /\ i = k + 1 /\ shareEvents'[i] = shareEvents[k]
      BY <1>5, <1>9, <2>2
    <3> HIDE DEF k
    <3>2. CASE \E j \in k + 1 .. L : Puts(shareEvents[j], shareEvents[k].node)
      <4>1. PICK j \in k + 1 .. L : Puts(shareEvents[j], shareEvents[k].node)
        BY <3>2
      <4>2. j \in 1 .. L /\ j + 1 \in i + 1 .. L + 1
        BY <1>4, <3>1
      <4> QED
        BY <1>5, <3>1, <4>1, <4>2
    <3> QED
      BY <3>1, <3>2 DEF ListsInv, EventsTrue, L
  <2> QED
    BY <2>1, <2>2
<1>11. \A i \in 1 .. Len(shareEvents') : shareEvents'[i].type = "node" => list = "byMe"
  <2> SUFFICES ASSUME NEW i \in 1 .. L + 1, shareEvents'[i].type = "node" PROVE list = "byMe"
    BY <1>4
  <2>1. CASE i = 1
    BY <1>0, <1>1, <1>4, <2>1
  <2>2. CASE i # 1
    <3> DEFINE k == i - 1
    <3>1. k \in 1 .. L /\ shareEvents'[i] = shareEvents[k]
      BY <1>5, <1>9, <2>2
    <3> HIDE DEF k
    <3> QED
      BY <1>0, <3>1 DEF L
  <2> QED
    BY <2>1, <2>2
<1>12. shareEvents' # <<>>
  BY <1>4
<1> QED
  BY <1>4, <1>6, <1>8, <1>10, <1>11, <1>12

LEMMA RestartKeeps == ListsInv /\ Restart => ListsInv'
<1> SUFFICES ASSUME ListsInv, Restart PROVE ListsInv'
  OBVIOUS
<1>0. /\ ListTypes /\ races \subseteq RaceKinds /\ handler.phase \in {"idle", "write", "store"}
      /\ memory \in UidLists /\ stored \in UidLists /\ stored # {Blank} /\ handler \in WriteRecord
  BY DEF ListsInv, ListTypes, WriteRecord
<1>1. /\ memory' = NotLoaded /\ listing' = NoListing /\ own' = NoWrite /\ handler' = NoWrite
      /\ races' = (races \ {"listing"}) \cup (IF Unsaved THEN {"raced"} ELSE {})
      /\ UNCHANGED <<list, emptyIsNone, shared, stored>>
  BY DEF Restart
<1>2. /\ shareEvents' \in Seq(ShareEvent)
      /\ \A i \in 1 .. Len(shareEvents') : shareEvents'[i].type = "node" => list = "byMe"
      /\ \A n : Waits(n) => Waits(n)'
      /\ shareEvents # <<>> => shareEvents' # <<>>
      /\ handler.phase \in {"write", "store"} =>
            /\ shareEvents' # <<>> /\ \A n : n = handler.node => Waits(n)'
            /\ ~Changing => \A n : Waits(n)'
      /\ EventsTrue'
  <2>1. CASE handler.phase = "idle"
    <3>1. shareEvents' = shareEvents
      BY <2>1 DEF Restart
    <3> QED
      BY <1>0, <1>1, <2>1, <3>1, SameWaits DEF ListTypes, ListsInv, EventsTrue, Puts
  <2>2. CASE handler.phase # "idle"
    <3>1. shareEvents' = <<[type |-> handler.type, node |-> handler.node, shared |-> handler.add]>> \o shareEvents
      BY <2>2 DEF Restart
    <3> QED
      BY <1>0, <1>1, <2>2, <3>1, AgainIs
  <2> QED
    BY <2>1, <2>2
<1>3. ~IsLoaded(memory') /\ memory' \in UidLists /\ races' \subseteq RaceKinds
  BY <1>0, <1>1, ListConstants DEF UidLists, RaceKinds
<1>4. ListTypes'
  BY <1>0, <1>1, <1>2, <1>3, NothingIs DEF ListTypes, IsLoaded, NotLoaded, Changing
<1>5. Storing' = {}
  BY <1>1, NothingIs DEF Storing, OwnEntry, HandlerEntry, ListingEntry
<1>6. (IsLoaded(memory)' <=> IsLoaded(memory')) /\ ((IsLoaded(Split(stored)))' <=> IsLoaded(Split(stored)))
  BY <1>1 DEF IsLoaded, NotLoaded, Split, Blank
<1>7. ASSUME NoRace', IsLoaded(Split(stored))
      PROVE  /\ stored \subseteq Listed \/ shareEvents' # <<>>
             /\ \A n \in Listed : Waits(n)' \/ (n \in stored <=> n \in shared)
  <2>1. NoRace /\ ~Unsaved /\ IsLoaded(stored)
    BY <1>0, <1>1, <1>7, SplitIs DEF NoRace
  <2>2. ASSUME IsLoaded(memory)
        PROVE  memory \subseteq Listed /\ \A n \in Listed : Waits(n)' \/ Writing(n) \/ (n \in memory <=> n \in shared)
    BY <1>2, <2>1, <2>2 DEF ListsInv, MemoryTrue
  <2>3. \A n \in Listed : Writing(n) => Waits(n)'
    BY <1>2 DEF Writing
  <2>4. CASE handler.phase = "store" /\ ~Changing
    BY <1>2, <2>4
  <2>5. CASE stored = Joined(memory)
    <3>1. IsLoaded(memory)
      BY <1>0, <2>1, <2>5, JoinedIs
    <3>2. stored = memory
      BY <1>0, <2>2, <2>5, <3>1, JoinedIs
    <3> QED
      BY <2>2, <2>3, <3>1, <3>2
  <2>6. CASE stored # Joined(memory) /\ handler.phase = "store" /\ Changing
    <3>1. HandlerEntry = {Joined(Applied(handler))} /\ handler.type = "node"
      BY <1>0, <2>6, StoringIs DEF Changing
    <3>2. OwnEntry \cup ListingEntry = {} /\ stored = Joined(handler.base)
      BY <2>1, <2>6, <3>1 DEF Unsaved
    <3>3. Joined(memory) = Joined(Applied(handler))
      BY <2>1, <2>6, <3>1, <3>2 DEF ListsInv, StoredFollows, Storing
    <3>4. handler.base \in SUBSET Uids /\ handler.base \in UidLists /\ handler.node \in Listed
      BY <1>0, <2>6 DEF ListTypes, Changing, WriteRecord, UidLists, IsLoaded
    <3>5. /\ Applied(handler) \in SUBSET Uids
          /\ \A n \in Listed \ {handler.node} : n \in Applied(handler) <=> n \in handler.base
      BY <3>4 DEF Applied, Uids
    <3>6. Applied(handler) \in UidLists /\ IsLoaded(Applied(handler))
      BY <3>5, ListConstants DEF UidLists
    <3>7. IsLoaded(Joined(Applied(handler))) /\ \A n \in Listed : n \in Joined(Applied(handler)) <=> n \in Applied(handler)
      BY <3>6, JoinedIs
    <3>8. IsLoaded(memory) /\ \A n \in Listed : n \in Joined(memory) <=> n \in memory
      BY <1>0, <3>3, <3>7, JoinedIs
    <3>9. \A n \in Listed : n \in stored <=> n \in handler.base
      BY <3>2, <3>4, JoinedIs
    <3>10. \A n \in Listed \ {handler.node} : n \in stored <=> n \in memory
      BY <3>3, <3>5, <3>7, <3>8, <3>9
    <3> QED
      BY <1>2, <2>2, <2>3, <2>6, <3>8, <3>10
  <2>7. CASE stored # Joined(memory) /\ handler.phase # "store"
    <3>1. OwnEntry \cup ListingEntry = {} /\ HandlerEntry = {}
      BY <1>0, <2>1, <2>7, StoringIs DEF Unsaved
    <3>2. Storing = {}
      BY <3>1 DEF Storing
    <3>3. ~IsLoaded(memory)
      BY <2>1, <2>7, <3>2 DEF ListsInv, StoredFollows
    <3> QED
      BY <1>2, <1>7, <2>1, <3>2, <3>3 DEF ListsInv, StoredTrue
  <2> QED
    BY <2>4, <2>5, <2>6, <2>7
<1>8. MemoryTrue' /\ StoredFollows' /\ StoredTrue'
  BY <1>1, <1>3, <1>5, <1>6, <1>7 DEF MemoryTrue, StoredFollows, StoredTrue
<1>9. HandlerTrue' /\ ListingTrue'
  BY <1>1, NothingIs DEF HandlerTrue, ListingTrue, Changing
<1> QED
  BY <1>2, <1>4, <1>8, <1>9 DEF ListsInv

LEMMA ListsStart == ListsInit => ListsInv
<1> SUFFICES ASSUME ListsInit PROVE ListsInv
  OBVIOUS
<1>1. /\ list \in {"byMe", "withMe"} /\ emptyIsNone \in BOOLEAN /\ shared \in SUBSET Listed /\ shareEvents = <<>>
      /\ memory = NotLoaded /\ stored \in {NotLoaded, shared}
      /\ listing = NoListing /\ own = NoWrite /\ handler = NoWrite /\ races = {}
  BY DEF ListsInit
<1>2. ~IsLoaded(memory) /\ memory \in UidLists /\ stored \in UidLists /\ stored # {Blank}
  BY <1>1, ListConstants DEF UidLists, Uids
<1>3. shareEvents \in Seq(ShareEvent) /\ Len(shareEvents) = 0
  BY <1>1
<1>4. ListTypes
  BY <1>1, <1>2, <1>3, NothingIs DEF ListTypes, Changing, RaceKinds
<1>5. Storing = {}
  BY <1>1, NothingIs DEF Storing, OwnEntry, HandlerEntry, ListingEntry
<1>6. StoredTrue
  <2> SUFFICES ASSUME IsLoaded(Split(stored)) PROVE stored = shared
    BY <1>1 DEF StoredTrue
  <2>1. IsLoaded(stored)
    BY <1>2, SplitIs
  <2> QED
    BY <1>1, <2>1, ListConstants
<1>7. MemoryTrue /\ StoredFollows
  BY <1>2, <1>5 DEF MemoryTrue, StoredFollows
<1> QED
  BY <1>1, <1>3, <1>4, <1>6, <1>7, NothingIs DEF ListsInv, EventsTrue, HandlerTrue, ListingTrue, Changing

LEMMA ListsKeep == ListsInv /\ [ListsNext]_listVars => ListsInv'
<1> SUFFICES ASSUME ListsInv, [ListsNext]_listVars PROVE ListsInv'
  OBVIOUS
<1>0. /\ ListTypes /\ own \in WriteRecord
      /\ own.phase \in {"write", "store"} => IsLoaded(own.base)
  BY DEF ListsInv, ListTypes
<1>1. CASE UNCHANGED listVars
  <2>1. (\A n : Waits(n)' <=> Waits(n)) /\ Storing' = Storing /\ \A n \in Listed : Writing(n) => Writing(n)'
    BY <1>1, SameWaits, SameStoring DEF listVars, Writing
  <2>2. MemoryTrue' /\ StoredFollows' /\ StoredTrue'
    BY <1>1, <2>1, SameLists DEF listVars
  <2> QED
    BY <1>1, <2>1, <2>2 DEF listVars, ListsInv, ListTypes, EventsTrue, HandlerTrue, ListingTrue, Puts,
                      IsLoaded, NotLoaded, Changing
<1>2. ASSUME NEW n \in Listed, OtherChanges(n) PROVE ListsInv'
  BY <1>0, <1>2, ChangeKeeps DEF OtherChanges, IsLoaded, NotLoaded
<1>3. ASSUME NEW n \in Listed, OwnChange(n) PROVE ListsInv'
  <2> DEFINE v == n \in shared'
  <2>1. own' = [NoWrite EXCEPT !.phase = "answer", !.node = n, !.add = v] /\ own.phase = "idle"
    BY <1>3 DEF OwnChange
  <2>2. own' \in WriteRecord
    <3>2. v \in BOOLEAN
      OBVIOUS
    <3> HIDE DEF v
    <3> QED
      BY <2>1, <3>2, NothingIs DEF WriteRecord
  <2>3. own'.phase = "answer"
    BY <2>1 DEF NoWrite
  <2> QED
    BY <1>3, <2>1, <2>2, <2>3, ChangeKeeps DEF OwnChange
<1> QED
  BY <1>1, <1>2, <1>3, ReplacedKeeps, ListingKeeps, ListingDoneKeeps, ListingStoresKeep, AnsweredKeeps, OwnWritesKeep,
     OwnStoresKeep, HandlerWritesKeep, HandlerStoresKeep, ForgottenKeeps, SharedByMeKeeps, RestartKeeps
     DEF ListsNext, ListStep

\* What the invariant is for.
LEMMA ListsMean == ListsInv => ListsTypeOK /\ CachedListIsServers
<1> SUFFICES ASSUME ListsInv PROVE ListsTypeOK /\ CachedListIsServers
  OBVIOUS
<1>0. ListTypes
  BY DEF ListsInv
<1>1. ListsTypeOK
  <2>1. NListed \in Nat
    BY ListConstants
  <2>2. \A S \in UidLists : S \subseteq 0 .. NListed + 1
    BY <2>1 DEF UidLists, Uids, Listed, Blank, NotLoaded
  <2> QED
    BY <1>0, <2>2 DEF ListTypes, ListsTypeOK, ListingRecord, RaceKinds
<1>2. CachedListIsServers
  <2> SUFFICES ASSUME ListsQuiet, races = {}
               PROVE  /\ IsLoaded(memory) => memory = shared
                      /\ IsLoaded(Split(stored)) => stored = shared
    BY DEF CachedListIsServers
  <2>1. (\A n : ~Waits(n) /\ ~Writing(n)) /\ NoRace /\ shared \in SUBSET Listed /\ shareEvents = <<>>
    BY <1>0 DEF ListsQuiet, Waits, Writing, NoRace, ListTypes
  <2>2. Storing = {}
    BY <1>0, StoringIs DEF ListsQuiet, Storing
  <2>3. CASE IsLoaded(memory)
    <3>1. memory = shared
      BY <2>1, <2>3 DEF ListsInv, MemoryTrue
    <3>2. stored = Joined(memory)
      BY <2>1, <2>2, <2>3 DEF ListsInv, StoredFollows
    <3>3. Joined(memory) = memory
      BY <1>0, <2>1, <3>1, JoinedIs DEF ListTypes
    <3> QED
      BY <3>1, <3>2, <3>3
  <2>4. CASE ~IsLoaded(memory)
    BY <2>1, <2>2, <2>4 DEF ListsInv, StoredTrue
  <2> QED
    BY <2>3, <2>4
<1> QED
  BY <1>1, <1>2

-----------------------------------------------------------------------------
(* Sharing a node: the inductive invariant.                                *)

EntryRecord == [kind : Kinds \cup {"none"}, role : Roles \cup {"no"}, id : Nat]
ShareRecord == [id : Nat, access : [People -> EntryRecord], link : Roles \cup {"no"}, linkId : Nat,
                editors : {"no", "yes"}]
InfoRecord == [shareId : Nat, access : [Kinds -> [People -> EntryRecord]], link : Roles \cup {"no"}, linkId : Nat]
SharingPhases == {"none", "info", "reading", "create", "editors", "users", "removed", "delete", "invitation",
                  "done", "failed"}
CallOfSharing == [request : Requested, phase : SharingPhases, proton : SUBSET People, info : InfoRecord,
                  left : SUBSET (Kinds \cup {"link"}), todo : SUBSET People, again : BOOLEAN]
NodeRecord == [known : Nat, fresh : BOOLEAN]

\* A share that was not made or is gone has nothing in it.
ShareSound(s, last) ==
    /\ s \in ShareRecord /\ s.id <= last
    /\ s.id = 0 => s = NoShare
    /\ s.linkId = 0 => s.link = "no"
    /\ \A u \in People : s.access[u].id <= last /\ (s.access[u].kind = "none" => s.access[u] = Nobody)

SharingTypes ==
    /\ ids \in Nat /\ faults \in Nat /\ ownVolume \in BOOLEAN /\ event \in BOOLEAN
    /\ node \in NodeRecord /\ call \in CallOfSharing /\ before \in ShareRecord
    /\ ShareSound(share, ids)

\* What each phase is reached with.
PhaseTrue ==
    /\ call.phase = "none" => share = before /\ touched = {} /\ swept = {}
    /\ call.phase \in {"create", "editors"} => call.request.op = "share"
    /\ call.phase = "users" => call.request.op \in {"share", "unshare"}
    /\ call.phase = "removed" => call.request.op = "unshare"
    /\ call.phase = "delete" => \/ call.request.op = "unshareAll"
                                \/ call.request.op = "unshare" /\ EmptyInfo(call.info)
    /\ call.phase = "invitation" => call.request.op \in {"convert", "resend"}
    /\ call.phase \notin {"reading", "failed"} => call.left = {}
    /\ \A u \in call.todo : Asked(u) # "no"
    /\ call.phase \in {"info", "reading", "create", "editors", "invitation"} => \A u \in People : Asked(u) # "no" => u \in call.todo
    /\ call.phase \in {"removed", "delete"} => call.todo = {} \/ call.request.op = "unshareAll"

\* A fresh node knows of the share; where an answer was lost, an event is on its way.
NodeTrue ==
    ("share" \notin touched /\ node.fresh) =>
        node.known = share.id \/ (event /\ faults > 0 /\ call.phase \in {"done", "failed"})

\* What was read is what is there, but for what others touched.
InfoTrue ==
    call.phase \in {"reading", "editors", "users", "removed", "delete", "invitation"} =>
        /\ "share" \notin touched => share.id # 0 /\ share.id = call.info.shareId
        /\ ("share" \notin touched /\ "link" \notin call.left /\ ownVolume) => call.info.linkId = share.linkId
        /\ \A u \in People, k \in Kinds \ call.left :
              Untouched(u) => call.info.access[k][u] = IF share.access[u].kind = k THEN share.access[u] ELSE Nobody

\* Who is done has what was asked for him.
TodoTrue ==
    call.phase \in {"info", "reading", "create", "editors", "users", "removed", "delete"} =>
        \A u \in People \ call.todo : (Asked(u) # "no" /\ Untouched(u)) =>
            /\ call.request.op = "share" => share.id # 0 /\ share.access[u].role = Asked(u)
            /\ call.request.op = "unshare" => share.access[u] = Nobody

\* Who is still to be done has what he had, and what others gave him.
WaitingTrue ==
    (call.phase \notin {"none", "done", "failed"} /\ call.request.op # "unshareAll") =>
        \A u \in call.todo : Untouched(u) => share.access[u] = before.access[u]

\* The flag and the link are as asked once they were set.
SettingsTrue ==
    "share" \notin touched =>
        /\ (call.phase = "users" /\ call.request.op = "share" /\ call.request.editors # "no") =>
              share.editors = call.request.editors
        /\ (call.phase \in {"removed", "delete"} /\ call.request.op = "unshare" /\ call.request.link = "remove"
              /\ ownVolume) => share.link = "no"

Spared == NobodyElse /\ OnlyLatecomersSwept /\ LinkIsKept

SharingInv ==
    /\ SharingTypes /\ PhaseTrue /\ NodeTrue /\ InfoTrue /\ TodoTrue /\ WaitingTrue /\ SettingsTrue
    /\ AskedIsDone /\ Spared

-----------------------------------------------------------------------------
(* Sharing a node: the proof.                                              *)

LEMMA SharingConstants ==
    /\ \A c \in Requested : /\ c.op \in Ops /\ c.editors \in {"no", "yes"}
                            /\ \A u \in People : c.users[u] \in Roles \cup {"no"}
                            /\ c.link \in Roles \cup {"no", "admin", "remove"}
                            /\ c.link = "remove" => c.op = "unshare"
                            /\ c.op \in {"convert", "resend"} =>
                                 \A u, v \in People : c.users[u] # "no" /\ c.users[v] # "no" => u = v
    /\ Nobody \in EntryRecord /\ Nobody.kind = "none" /\ Nobody.id = 0 /\ Nobody.role = "no"
    /\ NoShare \in ShareRecord /\ NoShare.id = 0 /\ NoShare.link = "no" /\ NoShare.linkId = 0
    /\ \A u \in People : NoShare.access[u] = Nobody
    /\ Refused.id = -1 /\ \A s \in ShareRecord : s # Refused
    /\ NoInfo \in InfoRecord /\ NoInfo.linkId = 0 /\ \A k \in Kinds, u \in People : NoInfo.access[k][u] = Nobody
    /\ \A last \in Nat : ShareSound(NoShare, last)
<1>1. \A c \in Requested : /\ c.op \in Ops /\ c.editors \in {"no", "yes"}
                           /\ \A u \in People : c.users[u] \in Roles \cup {"no"}
                           /\ c.link \in Roles \cup {"no", "admin", "remove"}
                           /\ c.link = "remove" => c.op = "unshare"
                           /\ c.op \in {"convert", "resend"} =>
                                \A u, v \in People : c.users[u] # "no" /\ c.users[v] # "no" => u = v
  BY NodeSharingConstants
<1>2. Nobody \in EntryRecord /\ Nobody.kind = "none" /\ Nobody.id = 0 /\ Nobody.role = "no"
  BY DEF Nobody, EntryRecord
<1>3. NoShare \in ShareRecord /\ NoShare.id = 0 /\ NoShare.link = "no" /\ NoShare.linkId = 0
      /\ \A u \in People : NoShare.access[u] = Nobody
  BY <1>2 DEF NoShare, ShareRecord
<1>4. Refused.id = -1 /\ \A s \in ShareRecord : s # Refused
  <2>1. Refused.id = -1
    BY DEF Refused, NoShare
  <2>2. \A s \in ShareRecord : s.id \in Nat
    BY DEF ShareRecord
  <2> QED
    BY <2>1, <2>2
<1>5. NoInfo \in InfoRecord /\ NoInfo.linkId = 0 /\ \A k \in Kinds, u \in People : NoInfo.access[k][u] = Nobody
  BY <1>2 DEF NoInfo, InfoRecord
<1>6. \A last \in Nat : ShareSound(NoShare, last)
  BY <1>2, <1>3 DEF ShareSound
<1> QED
  BY <1>1, <1>2, <1>3, <1>4, <1>5, <1>6

\* One entry of the share is replaced.
LEMMA WithIs ==
    ASSUME NEW s, NEW last \in Nat, NEW next \in Nat, ShareSound(s, last), last <= next, s.id # 0, NEW u \in People,
           NEW e \in EntryRecord, e.id <= next, e.kind = "none" => e = Nobody
    PROVE  /\ ShareSound(With(s, u, e), next) /\ With(s, u, e) \in ShareRecord
           /\ With(s, u, e).id = s.id /\ With(s, u, e).link = s.link /\ With(s, u, e).linkId = s.linkId
           /\ With(s, u, e).editors = s.editors
           /\ With(s, u, e).access[u] = e /\ \A w \in People \ {u} : With(s, u, e).access[w] = s.access[w]
<1> DEFINE t == With(s, u, e)
<1>1. s \in ShareRecord
  BY DEF ShareSound
<1>2. /\ t \in ShareRecord /\ t.id = s.id /\ t.link = s.link /\ t.linkId = s.linkId
      /\ t.editors = s.editors /\ t.access[u] = e /\ \A w \in People \ {u} : t.access[w] = s.access[w]
  BY <1>1 DEF With, ShareRecord
<1> HIDE DEF t
<1>3. s.id \in Nat /\ \A w \in People : s.access[w].id \in Nat
  BY <1>1 DEF ShareRecord, EntryRecord
<1>4. ShareSound(t, next)
  BY <1>2, <1>3 DEF ShareSound
<1> QED
  BY <1>2, <1>4 DEF t

\* What is known of the call.
LEMMA CallIs ==
    ASSUME SharingTypes
    PROVE  /\ call.request \in Requested /\ call.phase \in SharingPhases /\ call.info \in InfoRecord
           /\ call.left \in SUBSET (Kinds \cup {"link"}) /\ call.todo \in SUBSET People
           /\ \A k \in Kinds, u \in People : call.info.access[k][u] \in EntryRecord
           /\ \A u \in People : Asked(u) \in Roles \cup {"no"}
           /\ \A p \in SharingPhases :
                 /\ Goes(p) \in CallOfSharing /\ Goes(p).phase = p /\ Goes(p).request = call.request
                 /\ Goes(p).info = call.info /\ Goes(p).left = call.left /\ Goes(p).todo = call.todo
           /\ Failed \in CallOfSharing /\ Failed.phase = "failed" /\ Failed.request = call.request
           /\ Failed.todo = call.todo
<1>1. call \in CallOfSharing
  BY DEF SharingTypes
<1>2. /\ call.request \in Requested /\ call.phase \in SharingPhases /\ call.info \in InfoRecord
      /\ call.left \in SUBSET (Kinds \cup {"link"}) /\ call.todo \in SUBSET People
  BY <1>1 DEF CallOfSharing
<1>3. \A k \in Kinds, u \in People : call.info.access[k][u] \in EntryRecord
  BY <1>2 DEF InfoRecord
<1>4. \A u \in People : Asked(u) \in Roles \cup {"no"}
  BY <1>2, SharingConstants DEF Asked
<1>5. ASSUME NEW p \in SharingPhases
      PROVE  /\ Goes(p) \in CallOfSharing /\ Goes(p).phase = p /\ Goes(p).request = call.request
             /\ Goes(p).info = call.info /\ Goes(p).left = call.left /\ Goes(p).todo = call.todo
  BY <1>1 DEF Goes, CallOfSharing
<1>6. "failed" \in SharingPhases /\ Failed = Goes("failed")
  BY DEF SharingPhases, Failed
<1> QED
  BY <1>2, <1>3, <1>4, <1>5, <1>6

\* Those nobody asked for, and the link, are spared: what changes is what others did,
\* or people who are swept and came since the call began.
LEMMA SparedKeep ==
    ASSUME Spared, UNCHANGED ownVolume, touched \subseteq touched', swept \subseteq swept',
           call'.request = call.request,
           call.request.op = "unshare" => \A u \in swept' : u \in swept \/ ~Untouched(u)',
           call.request.op # "unshareAll" =>
              \A u \in People : Asked(u) = "no" =>
                  \/ share'.access[u] = share.access[u] /\ before'.access[u] = before.access[u]
                  \/ share'.access[u] = before'.access[u]
                  \/ u \in swept',
           (call.request.op # "unshareAll" /\ call.request.link = "no" /\ ownVolume /\ "share" \notin touched') =>
              share'.link = share.link /\ before'.link = before.link
    PROVE  Spared'
<1>1. \A u : Untouched(u)' => Untouched(u)
  BY DEF Untouched
<1>2. \A u : Asked(u)' = Asked(u)
  BY DEF Asked
<1>3. NobodyElse'
  <2> SUFFICES ASSUME call.request.op # "unshareAll", NEW u \in People, Asked(u) = "no"
               PROVE  share'.access[u] = before'.access[u] \/ u \in swept'
    BY <1>2 DEF NobodyElse
  <2> QED
    BY DEF Spared, NobodyElse
<1>4. LinkIsKept'
  BY DEF Spared, LinkIsKept
<1>5. OnlyLatecomersSwept'
  <2> SUFFICES ASSUME call.request.op = "unshare", NEW u \in swept' PROVE ~Untouched(u)'
    BY DEF OnlyLatecomersSwept
  <2> QED
    BY <1>1 DEF Spared, OnlyLatecomersSwept
<1> QED
  BY <1>3, <1>4, <1>5 DEF Spared

\* A call that fails leaves no other promise than to have spared the others.
LEMMA FailedKeeps ==
    ASSUME SharingInv, call' = Failed, UNCHANGED <<node, before, ownVolume, touched>>, call.phase # "none",
           swept \subseteq swept', call.request.op = "unshare" => swept' = swept,
           ids' \in Nat, faults' \in Nat, faults <= faults', event' \in BOOLEAN, event => event',
           ShareSound(share', ids'), share'.id = share.id \/ (event' /\ faults' > 0),
           call.request.op # "unshareAll" =>
              \A u \in People : Asked(u) = "no" => share'.access[u] = share.access[u],
           (call.request.op # "unshareAll" /\ call.request.link = "no" /\ ownVolume /\ "share" \notin touched) =>
              share'.link = share.link
    PROVE  SharingInv'
<1>1. SharingTypes /\ call'.phase = "failed" /\ call' \in CallOfSharing /\ call'.request = call.request
      /\ call'.todo = call.todo
  BY CallIs DEF SharingInv
<1>2. SharingTypes'
  BY <1>1 DEF SharingTypes
<1>3. PhaseTrue'
  BY <1>1 DEF PhaseTrue, SharingInv, Asked
<1>4. NodeTrue'
  <2>1. faults \in Nat
    BY <1>1 DEF SharingTypes
  <2> QED
    BY <1>1, <2>1 DEF SharingInv, NodeTrue
<1>5. Spared'
  BY <1>1, SparedKeep DEF SharingInv
<1>6. WaitingTrue' /\ SettingsTrue'
  BY <1>1 DEF WaitingTrue, SettingsTrue
<1> QED
  BY <1>1, <1>2, <1>3, <1>4, <1>5, <1>6 DEF SharingInv, InfoTrue, TodoTrue, AskedIsDone

\* Others change the share while the call is on its way, and leave a trace in touched.
LEMMA OtherKeeps ==
    ASSUME SharingInv, NEW what, NEW next, Other(what, next), ids' \in Nat, ids <= ids', event' \in BOOLEAN, ShareSound(share', ids'),
           what # {"share"} => /\ share'.id = share.id /\ share'.link = share.link /\ share'.linkId = share.linkId
                               /\ share'.editors = share.editors
                               /\ \A u \in People : u \notin what => share'.access[u] = share.access[u]
    PROVE  SharingInv'
<1>1. /\ call.phase \notin {"none", "done", "failed"} /\ touched' = touched \cup what
      /\ share' = next /\ UNCHANGED <<node, call, swept, ownVolume, faults>>
  BY DEF Other
<1>2. SharingTypes /\ call' \in CallOfSharing /\ before \in ShareRecord
  BY <1>1 DEF SharingInv, SharingTypes
\* What others do to the share they do to the share as it should be.
<1>13. /\ before' \in ShareRecord
       /\ what = {"share"} => before' = share'
       /\ what # {"share"} => /\ before'.link = before.link
                              /\ \A u \in People :
                                    before'.access[u] = IF u \in what THEN share'.access[u] ELSE before.access[u]
  <2>1. share' \in ShareRecord
    BY DEF ShareSound
  <2>2. CASE what = {"share"}
    BY <1>1, <2>1, <2>2 DEF Other
  <2>3. CASE what # {"share"}
    <3> DEFINE a == [u \in People |-> IF u \in what THEN next.access[u] ELSE before.access[u]]
    <3>1. before' = [before EXCEPT !.access = a]
      BY <2>3 DEF Other
    <3>2. a \in [People -> EntryRecord] /\ \A u \in People : a[u] = IF u \in what THEN next.access[u] ELSE before.access[u]
      BY <1>1, <1>2, <2>1 DEF ShareRecord
    <3> HIDE DEF a
    <3>3. before' \in ShareRecord /\ before'.access = a /\ before'.link = before.link
      BY <1>2, <3>1, <3>2 DEF ShareRecord
    <3> QED
      BY <1>1, <2>3, <3>2, <3>3
  <2> QED
    BY <2>2, <2>3
<1>3. SharingTypes'
  BY <1>1, <1>2, <1>13 DEF SharingTypes
<1>4. PhaseTrue'
  BY <1>1 DEF SharingInv, PhaseTrue, Asked, EmptyInfo
<1>5. "share" \notin touched' => "share" \notin touched /\ what # {"share"}
  BY <1>1
<1>6. \A u : Untouched(u)' => Untouched(u) /\ u \notin what /\ "share" \notin touched'
  BY <1>1 DEF Untouched
<1>7. \A u : Asked(u)' = Asked(u)
  BY <1>1 DEF Asked
<1>8. NodeTrue'
  BY <1>1, <1>5 DEF SharingInv, NodeTrue
<1>9. InfoTrue'
  BY <1>1, <1>5, <1>6 DEF SharingInv, InfoTrue
<1>10. TodoTrue'
  BY <1>1, <1>5, <1>6, <1>7 DEF SharingInv, TodoTrue
<1>11. Spared'
  <2>1. \A u \in People : \/ share'.access[u] = share.access[u] /\ before'.access[u] = before.access[u]
                          \/ share'.access[u] = before'.access[u]
    BY <1>13
  <2>2. "share" \notin touched' => share'.link = share.link /\ before'.link = before.link
    BY <1>5, <1>13
  <2> QED
    BY <1>1, <2>1, <2>2, SparedKeep DEF SharingInv
<1>12. AskedIsDone'
  BY <1>1 DEF AskedIsDone
<1>14. WaitingTrue'
  <2>1. ASSUME NEW u \in call.todo, Untouched(u)'
        PROVE  Untouched(u) /\ share'.access[u] = share.access[u] /\ before'.access[u] = before.access[u]
    <3>1. u \in People
      BY <1>2, CallIs
    <3> QED
      BY <1>5, <1>6, <1>13, <2>1, <3>1 DEF Untouched
  <2> QED
    BY <1>1, <2>1 DEF SharingInv, WaitingTrue
<1>15. SettingsTrue'
  BY <1>1, <1>5 DEF SharingInv, SettingsTrue
<1> QED
  BY <1>14, <1>15, <1>3, <1>4, <1>8, <1>9, <1>10, <1>11, <1>12 DEF SharingInv

LEMMA OthersKeep == SharingInv /\ OthersStep => SharingInv'
<1> SUFFICES ASSUME SharingInv, OthersStep PROVE SharingInv'
  OBVIOUS
<1>0. /\ SharingTypes /\ ids \in Nat /\ ids + 1 \in Nat /\ ids <= ids + 1 /\ event \in BOOLEAN
      /\ ShareSound(share, ids) /\ share \in ShareRecord
  BY DEF SharingInv, SharingTypes, ShareSound
<1>1. ShareSound(share, ids + 1)
  <2>1. share.id \in Nat /\ \A u \in People : share.access[u].id \in Nat
    BY <1>0 DEF ShareRecord, EntryRecord
  <2> QED
    BY <1>0, <2>1 DEF ShareSound
<1>2. CASE OtherShares
  <2>1. share' = [NoShare EXCEPT !.id = ids + 1] /\ Other({"share"}, share') /\ ids' = ids + 1 /\ event' = TRUE
    BY <1>2 DEF OtherShares, PostShares, Other
  <2>2. ShareSound(share', ids')
    <3>1. share' \in ShareRecord /\ share'.id = ids + 1 /\ share'.link = "no" /\ share'.access = NoShare.access
      BY <1>0, <2>1, SharingConstants DEF ShareRecord
    <3> QED
      BY <1>0, <2>1, <3>1, SharingConstants DEF ShareSound
  <2> QED
    BY <1>0, <2>1, <2>2, OtherKeeps
<1>3. CASE OtherUnshares \/ EmptyShareDeleted
  <2>1. share' = NoShare /\ Other({"share"}, share') /\ ids' = ids /\ event' = TRUE
    BY <1>3 DEF OtherUnshares, EmptyShareDeleted, Other
  <2> QED
    BY <1>0, <2>1, OtherKeeps, SharingConstants
<1>4. ASSUME NEW u \in People, NEW e \in EntryRecord, e.id <= ids', e.kind = "none" => e = Nobody,
             ids' \in {ids, ids + 1}, share.id # 0, share' = With(share, u, e), Other({u}, share'), UNCHANGED event
      PROVE  SharingInv'
  <2>1. ids' \in Nat /\ ids <= ids'
    BY <1>0, <1>4
  <2>2. /\ ShareSound(share', ids') /\ share'.id = share.id /\ share'.link = share.link /\ share'.linkId = share.linkId
        /\ share'.editors = share.editors /\ \A w \in People \ {u} : share'.access[w] = share.access[w]
    BY <1>0, <1>4, <2>1, WithIs
  <2> QED
    BY <1>0, <1>4, <2>1, <2>2, OtherKeeps
<1>5. \A u \in People : share.id = 0 => share.access[u] = Nobody
  BY <1>0, SharingConstants DEF ShareSound
<1>6. ASSUME NEW kind \in Kinds, NEW role \in Roles \cup {"no"}
      PROVE  /\ Entry(kind, role, ids + 1) \in EntryRecord /\ Entry(kind, role, ids + 1).id <= ids + 1
             /\ Entry(kind, role, ids + 1).kind # "none"
  BY <1>0 DEF Entry, EntryRecord, Kinds
<1>7. ASSUME NEW u \in People, OtherInvites(u) \/ Accepts(u) PROVE SharingInv'
  <2>1. share.access[u].role \in Roles \cup {"no"}
    BY <1>0 DEF ShareRecord, EntryRecord
  <2>2. PICK kind \in Kinds, role \in Roles \cup {"no"} :
           share' = With(share, u, Entry(kind, role, ids + 1)) /\ ids' = ids + 1 /\ Other({u}, share') /\ UNCHANGED event
    BY <1>7, <2>1 DEF OtherInvites, Accepts, Kinds, Roles, Other
  <2>3. share.id # 0
    BY <1>5, <1>7, SharingConstants DEF OtherInvites, Accepts
  <2> DEFINE e == Entry(kind, role, ids + 1)
  <2>4. e \in EntryRecord /\ e.id <= ids' /\ e.kind # "none" /\ share' = With(share, u, e)
    BY <1>6, <2>2
  <2> HIDE DEF e
  <2> QED
    BY <1>4, <2>2, <2>3, <2>4
<1>8. ASSUME NEW u \in People, OtherRemoves(u) PROVE SharingInv'
  <2>1. share' = With(share, u, Nobody) /\ ids' = ids /\ Other({u}, share') /\ UNCHANGED event /\ share.id # 0
    BY <1>5, <1>8 DEF OtherRemoves, Other
  <2> QED
    BY <1>0, <1>4, <2>1, SharingConstants
<1>9. ASSUME NEW u \in People, SignsUp(u) PROVE SharingInv'
  <2>1. Other({}, share') /\ UNCHANGED <<share, ids, event>>
    BY <1>9 DEF SignsUp, Other
  <2> QED
    BY <1>0, <2>1, OtherKeeps
<1> QED
  BY <1>2, <1>3, <1>7, <1>8, <1>9 DEF OthersStep

\* A call that returns has done what was asked, and has spared the others.
LEMMA DoneKeeps ==
    ASSUME SharingInv, call.phase # "none", call' \in CallOfSharing, call'.phase = "done", call'.request = call.request,
           call'.left = {}, call'.todo \subseteq call.todo, UNCHANGED <<before, ownVolume, touched>>,
           swept \subseteq swept', call.request.op = "unshare" => \A u \in swept' : u \in swept \/ ~Untouched(u),
           node' \in NodeRecord, NodeTrue', AskedIsDone', ids' \in Nat, faults' \in Nat, event' \in BOOLEAN,
           ShareSound(share', ids'),
           call.request.op # "unshareAll" =>
              \A u \in People : Asked(u) = "no" => share'.access[u] = share.access[u] \/ u \in swept',
           (call.request.op # "unshareAll" /\ call.request.link = "no" /\ ownVolume /\ "share" \notin touched) =>
              share'.link = share.link
    PROVE  SharingInv'
<1>1. SharingTypes'
  BY DEF SharingInv, SharingTypes
<1>2. PhaseTrue'
  BY DEF PhaseTrue, SharingInv, Asked
<1>3. Spared'
  BY SparedKeep DEF SharingInv, Untouched
<1>4. WaitingTrue' /\ SettingsTrue'
  BY DEF WaitingTrue, SettingsTrue
<1> QED
  BY <1>1, <1>2, <1>3, <1>4 DEF SharingInv, InfoTrue, TodoTrue

\* What is noted when a user is done.
LEMMA UserDoneIs ==
    ASSUME SharingTypes, NEW u \in People, NEW k \in Kinds, NEW e \in EntryRecord
    PROVE  /\ UserDone(u, k, e) \in CallOfSharing /\ UserDone(u, k, e).request = call.request
           /\ UserDone(u, k, e).phase = call.phase /\ UserDone(u, k, e).left = call.left
           /\ UserDone(u, k, e).todo = call.todo \ {u}
           /\ UserDone(u, k, e).info.shareId = call.info.shareId /\ UserDone(u, k, e).info.linkId = call.info.linkId
           /\ \A kk \in Kinds, w \in People :
                 UserDone(u, k, e).info.access[kk][w] = IF kk = k /\ w = u THEN e ELSE call.info.access[kk][w]
<1> DEFINE d == UserDone(u, k, e)
           a == [call.info.access EXCEPT ![k][u] = e]
           i == [call.info EXCEPT !.access = a]
<1>1. call \in CallOfSharing /\ call.info \in InfoRecord /\ call.info.access \in [Kinds -> [People -> EntryRecord]]
  BY DEF SharingTypes, CallOfSharing, InfoRecord
<1>2. /\ a \in [Kinds -> [People -> EntryRecord]]
      /\ \A kk \in Kinds, w \in People : a[kk][w] = IF kk = k /\ w = u THEN e ELSE call.info.access[kk][w]
  BY <1>1
<1> HIDE DEF a
<1>3. i \in InfoRecord /\ i.access = a /\ i.shareId = call.info.shareId /\ i.linkId = call.info.linkId
  BY <1>1, <1>2 DEF InfoRecord
<1>4. d = [call EXCEPT !.todo = call.todo \ {u}, !.info = i]
  BY <1>1 DEF UserDone, CallOfSharing, InfoRecord, a
<1> HIDE DEF i, d
<1>5. /\ d \in CallOfSharing /\ d.request = call.request /\ d.phase = call.phase /\ d.left = call.left
      /\ d.todo = call.todo \ {u} /\ d.info = i
  BY <1>1, <1>3, <1>4 DEF CallOfSharing
<1> QED
  BY <1>2, <1>3, <1>5 DEF d

\* One user is done: what is known of him is what is there, and it is what was asked.
LEMMA UserDoneKeeps ==
    ASSUME SharingInv, call.phase = "users", NEW u \in call.todo,
           UNCHANGED <<node, event, before, ownVolume, touched, swept, faults>>, ids' \in Nat,
           ShareSound(share', ids'), share'.id = share.id, share'.link = share.link, share'.linkId = share.linkId,
           share'.editors = share.editors, \A w \in People \ {u} : share'.access[w] = share.access[w],
           call' \in CallOfSharing, call'.request = call.request, call'.phase = "users", call'.left = {},
           call'.todo = call.todo \ {u},
           call'.info.shareId = call.info.shareId, call'.info.linkId = call.info.linkId,
           \A k \in Kinds, w \in People \ {u} : call'.info.access[k][w] = call.info.access[k][w],
           Untouched(u) =>
              /\ \A k \in Kinds :
                    call'.info.access[k][u] = IF share'.access[u].kind = k THEN share'.access[u] ELSE Nobody
              /\ call.request.op = "share" => share'.access[u].role = Asked(u)
              /\ call.request.op = "unshare" => share'.access[u] = Nobody
    PROVE  SharingInv'
<1>0. SharingTypes /\ Asked(u) # "no" /\ call.left = {} /\ call.todo \in SUBSET People
  BY CallIs DEF SharingInv, PhaseTrue
<1>1. \A w : Asked(w)' = Asked(w) /\ (Untouched(w)' <=> Untouched(w))
  BY DEF Asked, Untouched
<1>2. SharingTypes'
  BY <1>0 DEF SharingTypes
<1>3. PhaseTrue'
  BY <1>1 DEF SharingInv, PhaseTrue
<1>4. NodeTrue'
  BY DEF SharingInv, NodeTrue
<1>5. InfoTrue'
  <2>1. /\ "share" \notin touched => share.id # 0 /\ share.id = call.info.shareId
        /\ ("share" \notin touched /\ ownVolume) => call.info.linkId = share.linkId
        /\ \A w \in People, k \in Kinds :
              Untouched(w) => call.info.access[k][w] = IF share.access[w].kind = k THEN share.access[w] ELSE Nobody
    BY <1>0 DEF SharingInv, InfoTrue
  <2>2. ASSUME NEW w \in People, NEW k \in Kinds, Untouched(w)
        PROVE  call'.info.access[k][w] = IF share'.access[w].kind = k THEN share'.access[w] ELSE Nobody
    <3>1. CASE w = u
      BY <2>2, <3>1
    <3>2. CASE w # u
      BY <2>1, <2>2, <3>2
    <3> QED
      BY <3>1, <3>2
  <2> QED
    BY <1>1, <2>1, <2>2 DEF InfoTrue
<1>6. TodoTrue'
  <2>1. \A w \in People \ call.todo : (Asked(w) # "no" /\ Untouched(w)) =>
            /\ call.request.op = "share" => share.id # 0 /\ share.access[w].role = Asked(w)
            /\ call.request.op = "unshare" => share.access[w] = Nobody
    BY DEF SharingInv, TodoTrue
  <2>2. Untouched(u) => share.id # 0
    BY DEF SharingInv, InfoTrue, Untouched
  <2> SUFFICES ASSUME NEW w \in People, w \notin call.todo \ {u}, Asked(w) # "no", Untouched(w)
               PROVE  /\ call.request.op = "share" => share'.id # 0 /\ share'.access[w].role = Asked(w)
                      /\ call.request.op = "unshare" => share'.access[w] = Nobody
    BY <1>1 DEF TodoTrue
  <2>3. CASE w = u
    BY <2>2, <2>3
  <2>4. CASE w # u
    BY <2>1, <2>4
  <2> QED
    BY <2>3, <2>4
<1>7. Spared'
  BY <1>0, SparedKeep DEF SharingInv
<1>8. WaitingTrue'
  BY <1>0, <1>1 DEF SharingInv, WaitingTrue
<1>9. SettingsTrue'
  BY DEF SharingInv, SettingsTrue
<1> QED
  BY <1>2, <1>3, <1>4, <1>5, <1>6, <1>7, <1>8, <1>9 DEF SharingInv, AskedIsDone

\* A request about one user: it is executed and answered, or the call fails.
LEMMA UserExchange ==
    ASSUME SharingInv, call.phase = "users", NEW u \in call.todo, NEW k \in Kinds, NEW e \in EntryRecord, NEW result,
           Exchange(result, UserDone(u, k, e)), ids' \in {ids, ids + 1},
           UNCHANGED <<node, event, before, ownVolume, touched, swept>>,
           result # Refused =>
              /\ share.id # 0 /\ result = With(share, u, e) /\ e.id <= ids' /\ (e.kind = "none" => e = Nobody)
              /\ Untouched(u) =>
                    /\ \A kk \in Kinds \ {k} : call.info.access[kk][u] = Nobody /\ e.kind # kk
                    /\ e.kind = k \/ e = Nobody
                    /\ call.request.op = "share" => e.role = Asked(u)
                    /\ call.request.op = "unshare" => e = Nobody
    PROVE  SharingInv'
<1> DEFINE next == UserDone(u, k, e)
           t == With(share, u, e)
<1>0. /\ SharingTypes /\ u \in People /\ Asked(u) # "no" /\ call.left = {} /\ ids \in Nat /\ faults \in Nat
      /\ ShareSound(share, ids) /\ ids' \in Nat /\ ids <= ids' /\ event \in BOOLEAN
      /\ call.request.op # "unshareAll"
  <2>1. SharingTypes /\ ids \in Nat /\ faults \in Nat /\ ShareSound(share, ids) /\ event \in BOOLEAN
    BY DEF SharingInv, SharingTypes
  <2>2. Asked(u) # "no" /\ call.left = {} /\ call.request.op # "unshareAll"
    BY DEF SharingInv, PhaseTrue
  <2> QED
    BY <2>1, <2>2, CallIs
<1>1. result # Refused =>
         /\ ShareSound(t, ids') /\ t.id = share.id /\ t.link = share.link /\ t.linkId = share.linkId
         /\ t.editors = share.editors /\ t.access[u] = e /\ \A w \in People \ {u} : t.access[w] = share.access[w]
  BY <1>0, WithIs
<1>2. ShareSound(share, ids')
  <2>1. share.id \in Nat /\ \A w \in People : share.access[w].id \in Nat
    BY <1>0 DEF ShareSound, ShareRecord, EntryRecord
  <2> QED
    BY <1>0, <2>1 DEF ShareSound
<1>3. /\ next \in CallOfSharing /\ next.request = call.request /\ next.phase = "users" /\ next.left = {}
      /\ next.todo = call.todo \ {u}
      /\ next.info.shareId = call.info.shareId /\ next.info.linkId = call.info.linkId
      /\ \A kk \in Kinds, w \in People :
            next.info.access[kk][w] = IF kk = k /\ w = u THEN e ELSE call.info.access[kk][w]
  BY <1>0, UserDoneIs
<1>4. \/ result # Refused /\ share' = result /\ call' = next /\ UNCHANGED faults
      \/ /\ call' = Failed /\ faults' \in {faults, faults + 1}
         /\ share' = share \/ (share' = result /\ result # Refused)
  BY DEF Exchange
<1> HIDE DEF next, t
<1>5. CASE result # Refused /\ share' = result /\ call' = next /\ UNCHANGED faults
  <2>1. share' = t
    BY <1>5 DEF t
  <2>2. Nobody.kind \notin Kinds
    BY SharingConstants DEF Kinds
  <2>3. ASSUME Untouched(u), NEW kk \in Kinds
        PROVE  next.info.access[kk][u] = IF e.kind = kk THEN e ELSE Nobody
    BY <1>0, <1>3, <1>5, <2>2, <2>3
  <2> QED
    BY <1>0, <1>1, <1>3, <1>5, <2>1, <2>3, UserDoneKeeps
<1>6. CASE /\ call' = Failed /\ faults' \in {faults, faults + 1}
           /\ share' = share \/ (share' = result /\ result # Refused)
  <2>1. /\ ShareSound(share', ids') /\ share'.id = share.id /\ share'.link = share.link
        /\ \A w \in People \ {u} : share'.access[w] = share.access[w]
    BY <1>1, <1>2, <1>6 DEF t
  <2>2. faults' \in Nat /\ faults <= faults'
    BY <1>0, <1>6
  <2> QED
    BY <1>0, <1>6, <2>1, <2>2, FailedKeeps
<1> QED
  BY <1>4, <1>5, <1>6

\* A request that changes a role.
LEMMA RoleExchange ==
    ASSUME SharingInv, call.phase = "users", call.request.op = "share", NEW u \in call.todo, NEW k \in Kinds,
           Known(k, u), NEW result,
           result # Refused => /\ Has(share, call.info, k, u)
                               /\ result = With(share, u, [share.access[u] EXCEPT !.role = Asked(u)]),
           UpdateRole(u, k, result), UNCHANGED ids, UNCHANGED <<node, event, before, ownVolume, touched, swept>>
    PROVE  SharingInv'
<1> DEFINE i == call.info.access[k][u]
           e == [i EXCEPT !.role = Asked(u)]
<1>0. /\ SharingTypes /\ u \in People /\ call.left = {} /\ i \in EntryRecord /\ Asked(u) \in Roles \cup {"no"}
      /\ ShareSound(share, ids) /\ ids \in Nat /\ call \in CallOfSharing /\ faults \in Nat
  <2>1. SharingTypes /\ ShareSound(share, ids) /\ ids \in Nat /\ call \in CallOfSharing /\ faults \in Nat /\ call.left = {}
    BY DEF SharingInv, SharingTypes, PhaseTrue
  <2> QED
    BY <2>1, CallIs
<1>1. e \in EntryRecord /\ e.kind = i.kind /\ e.id = i.id /\ e.role = Asked(u)
  <2> HIDE DEF i
  <2> QED
    BY <1>0 DEF EntryRecord
<1>2. Untouched(u) => /\ share.id # 0 /\ share.access[u] = i /\ i.kind = k
                      /\ \A kk \in Kinds \ {k} : call.info.access[kk][u] = Nobody
  <2>1. Nobody.kind \notin Kinds /\ i # Nobody
    BY SharingConstants DEF Kinds, Known
  <2>2. Untouched(u) => \A kk \in Kinds :
            call.info.access[kk][u] = IF share.access[u].kind = kk THEN share.access[u] ELSE Nobody
    BY <1>0 DEF SharingInv, InfoTrue
  <2>3. Untouched(u) => share.id # 0
    BY DEF SharingInv, InfoTrue, Untouched
  <2> QED
    BY <2>1, <2>2, <2>3
<1>3. CASE i.role = Asked(u)
  <2>1. call' = [call EXCEPT !.todo = call.todo \ {u}] /\ UNCHANGED <<share, faults>>
    BY <1>3 DEF UpdateRole
  <2>2. /\ call' \in CallOfSharing /\ call'.request = call.request /\ call'.phase = "users" /\ call'.left = {}
        /\ call'.todo = call.todo \ {u} /\ call'.info = call.info
    BY <1>0, <2>1 DEF CallOfSharing
  <2>3. Untouched(u) => \A kk \in Kinds :
            call'.info.access[kk][u] = IF share'.access[u].kind = kk THEN share'.access[u] ELSE Nobody
    BY <1>2, <2>1, <2>2
  <2> QED
    BY <1>0, <1>2, <1>3, <2>1, <2>2, <2>3, UserDoneKeeps
<1>4. CASE i.role # Asked(u)
  <2>1. Exchange(result, UserDone(u, k, e))
    BY <1>4 DEF UpdateRole, RoleDone
  <2>2. ASSUME result # Refused
        PROVE  /\ share.id # 0 /\ result = With(share, u, e) /\ e.id <= ids /\ e.kind = k /\ k # "none"
    <3>1. share.id # 0 /\ share.access[u] = i /\ i.kind = k
      BY <2>2 DEF Has, Is
    <3>2. i.id <= ids
      BY <1>0, <3>1 DEF ShareSound
    <3> QED
      BY <1>1, <2>2, <3>1, <3>2 DEF Kinds
  <2> HIDE DEF e, i
  <2> QED
    BY <1>0, <1>1, <1>2, <2>1, <2>2, UserExchange
<1> QED
  BY <1>3, <1>4

\* A request that invites.
LEMMA InviteExchange ==
    ASSUME SharingInv, call.phase = "users", call.request.op = "share", NEW u \in call.todo,
           NEW k \in {"invitation", "external"}, NEW result,
           result # Refused => /\ Is(share, call.info) /\ share.access[u].kind = "none"
                               /\ result = With(share, u, Entry(k, Asked(u), ids + 1)),
           Exchange(result, UserDone(u, k, Entry(k, Asked(u), ids + 1))), NewId,
           UNCHANGED <<node, event, before, ownVolume, touched, swept>>
    PROVE  SharingInv'
<1> DEFINE e == Entry(k, Asked(u), ids + 1)
<1>0. SharingTypes /\ u \in People /\ call.left = {} /\ ids \in Nat /\ Asked(u) \in Roles \cup {"no"} /\ k \in Kinds
  <2>1. SharingTypes /\ ids \in Nat /\ call.left = {}
    BY DEF SharingInv, SharingTypes, PhaseTrue
  <2> QED
    BY <2>1, CallIs DEF Kinds
<1>1. e \in EntryRecord /\ e.kind = k /\ e.id = ids + 1 /\ e.role = Asked(u) /\ k # "none"
  BY <1>0 DEF EntryRecord, Entry, Kinds
<1>2. ids' = ids + 1 /\ e.id <= ids'
  BY <1>0, <1>1 DEF NewId
<1>3. (result # Refused /\ Untouched(u)) => \A kk \in Kinds : call.info.access[kk][u] = Nobody
  BY <1>0 DEF SharingInv, InfoTrue, Kinds
<1>4. result # Refused => share.id # 0
  BY DEF Is
<1> HIDE DEF e
<1>5. Exchange(result, UserDone(u, k, e)) /\ (result # Refused => result = With(share, u, e))
  BY DEF e
<1> QED
  BY <1>0, <1>1, <1>2, <1>3, <1>4, <1>5, UserExchange

LEMMA RequestsAre ==
    ASSUME NEW u \in People, NEW info, NEW role, ShareSound(share, ids)
    PROVE  /\ PutInvitation(share, info, u, role) # Refused =>
                 /\ Has(share, info, "invitation", u)
                 /\ PutInvitation(share, info, u, role) = With(share, u, [share.access[u] EXCEPT !.role = role])
           /\ PutExternalInvitation(share, info, u, role) # Refused =>
                 /\ Has(share, info, "external", u)
                 /\ PutExternalInvitation(share, info, u, role) = With(share, u, [share.access[u] EXCEPT !.role = role])
           /\ PutMember(share, info, u, role) # Refused =>
                 /\ Has(share, info, "member", u)
                 /\ PutMember(share, info, u, role) = With(share, u, [share.access[u] EXCEPT !.role = role])
<1>1. share \in ShareRecord
  BY DEF ShareSound
<1>2. [share EXCEPT !.access[u].role = role] = With(share, u, [share.access[u] EXCEPT !.role = role])
  BY <1>1 DEF With, ShareRecord, EntryRecord
<1>3. /\ PutInvitation(share, info, u, role) # Refused =>
                 /\ Has(share, info, "invitation", u)
                 /\ PutInvitation(share, info, u, role) = [share EXCEPT !.access[u].role = role]
      /\ PutExternalInvitation(share, info, u, role) # Refused =>
                 /\ Has(share, info, "external", u)
                 /\ PutExternalInvitation(share, info, u, role) = [share EXCEPT !.access[u].role = role]
      /\ PutMember(share, info, u, role) # Refused =>
                 /\ Has(share, info, "member", u)
                 /\ PutMember(share, info, u, role) = [share EXCEPT !.access[u].role = role]
  BY Zenon DEF PutInvitation, PutExternalInvitation, PutMember
<1> QED
  BY <1>2, <1>3

LEMMA ShareWithKeeps ==
    ASSUME SharingInv, NEW u \in People, ShareWithProtonUser(u) \/ ShareWithNonProtonUser(u)
    PROVE  SharingInv'
<1>0. /\ call.phase = "users" /\ call.request.op = "share" /\ u \in call.todo
      /\ UNCHANGED <<node, event, before, ownVolume, touched, swept>>
      /\ ShareSound(share, ids)
  BY DEF ShareWithProtonUser, ShareWithNonProtonUser, WorldUnchanged, SharingInv, SharingTypes
<1>1. ASSUME NEW k \in Kinds, Known(k, u), UNCHANGED ids,
             \/ k = "invitation" /\ UpdateRole(u, k, PutInvitation(share, call.info, u, Asked(u)))
             \/ k = "external" /\ UpdateRole(u, k, PutExternalInvitation(share, call.info, u, Asked(u)))
             \/ k = "member" /\ UpdateRole(u, k, PutMember(share, call.info, u, Asked(u)))
      PROVE  SharingInv'
  <2>1. CASE k = "invitation" /\ UpdateRole(u, k, PutInvitation(share, call.info, u, Asked(u)))
    <3> DEFINE result == PutInvitation(share, call.info, u, Asked(u))
    <3>1. result # Refused => Has(share, call.info, k, u) /\ result = With(share, u, [share.access[u] EXCEPT !.role = Asked(u)])
      BY <1>0, <2>1, RequestsAre
    <3>2. UpdateRole(u, k, result)
      BY <2>1
    <3> HIDE DEF result
    <3> QED
      BY <1>0, <1>1, <3>1, <3>2, RoleExchange
  <2>2. CASE k = "external" /\ UpdateRole(u, k, PutExternalInvitation(share, call.info, u, Asked(u)))
    <3> DEFINE result == PutExternalInvitation(share, call.info, u, Asked(u))
    <3>1. result # Refused => Has(share, call.info, k, u) /\ result = With(share, u, [share.access[u] EXCEPT !.role = Asked(u)])
      BY <1>0, <2>2, RequestsAre
    <3>2. UpdateRole(u, k, result)
      BY <2>2
    <3> HIDE DEF result
    <3> QED
      BY <1>0, <1>1, <3>1, <3>2, RoleExchange
  <2>3. CASE k = "member" /\ UpdateRole(u, k, PutMember(share, call.info, u, Asked(u)))
    <3> DEFINE result == PutMember(share, call.info, u, Asked(u))
    <3>1. result # Refused => Has(share, call.info, k, u) /\ result = With(share, u, [share.access[u] EXCEPT !.role = Asked(u)])
      BY <1>0, <2>3, RequestsAre
    <3>2. UpdateRole(u, k, result)
      BY <2>3
    <3> HIDE DEF result
    <3> QED
      BY <1>0, <1>1, <3>1, <3>2, RoleExchange
  <2> QED
    BY <1>1, <2>1, <2>2, <2>3
<1>2. CASE Exchange(PostInvitations(share, call.info, u, Asked(u), ids + 1),
                    UserDone(u, "invitation", Entry("invitation", Asked(u), ids + 1))) /\ NewId
  <2> DEFINE result == PostInvitations(share, call.info, u, Asked(u), ids + 1)
  <2>1. result # Refused => /\ Is(share, call.info) /\ share.access[u].kind = "none"
                            /\ result = With(share, u, Entry("invitation", Asked(u), ids + 1))
    BY Zenon DEF PostInvitations
  <2>2. Exchange(result, UserDone(u, "invitation", Entry("invitation", Asked(u), ids + 1)))
    BY <1>2
  <2> HIDE DEF result
  <2> QED
    BY <1>0, <1>2, <2>1, <2>2, InviteExchange
<1>3. CASE Exchange(PostExternalInvitations(share, call.info, u, Asked(u), ids + 1),
                    UserDone(u, "external", Entry("external", Asked(u), ids + 1))) /\ NewId
  <2> DEFINE result == PostExternalInvitations(share, call.info, u, Asked(u), ids + 1)
  <2>1. result # Refused => /\ Is(share, call.info) /\ share.access[u].kind = "none"
                            /\ result = With(share, u, Entry("external", Asked(u), ids + 1))
    BY Zenon DEF PostExternalInvitations
  <2>2. Exchange(result, UserDone(u, "external", Entry("external", Asked(u), ids + 1)))
    BY <1>3
  <2> HIDE DEF result
  <2> QED
    BY <1>0, <1>3, <2>1, <2>2, InviteExchange
<1>4. "invitation" \in Kinds /\ "external" \in Kinds /\ "member" \in Kinds
  BY DEF Kinds
<1> QED
  BY <1>1, <1>2, <1>3, <1>4 DEF ShareWithProtonUser, ShareWithNonProtonUser

\* A request that takes somebody's access away.
LEMMA RemoveExchange ==
    ASSUME SharingInv, call.phase = "users", call.request.op = "unshare", NEW u \in call.todo, NEW k \in Kinds,
           Known(k, u), NEW result,
           result # Refused => Has(share, call.info, k, u) /\ result = With(share, u, Nobody),
           Exchange(result, UserDone(u, k, Nobody)), UNCHANGED <<ids, node, event, before, ownVolume, touched, swept>>
    PROVE  SharingInv'
<1>0. SharingTypes /\ u \in People /\ call.left = {} /\ ids \in Nat
  <2>1. SharingTypes /\ ids \in Nat /\ call.left = {}
    BY DEF SharingInv, SharingTypes, PhaseTrue
  <2> QED
    BY <2>1, CallIs
<1>1. Nobody \in EntryRecord /\ Nobody.id <= ids' /\ Nobody.kind \notin Kinds
  BY <1>0, SharingConstants DEF Kinds
<1>2. Untouched(u) => \A kk \in Kinds \ {k} : call.info.access[kk][u] = Nobody
  <2>1. Untouched(u) => \A kk \in Kinds :
            call.info.access[kk][u] = IF share.access[u].kind = kk THEN share.access[u] ELSE Nobody
    BY <1>0 DEF SharingInv, InfoTrue
  <2> QED
    BY <2>1 DEF Known
<1>3. result # Refused => share.id # 0
  BY DEF Has, Is
<1> QED
  BY <1>0, <1>1, <1>2, <1>3, UserExchange

LEMMA UnshareWithKeeps ==
    ASSUME SharingInv, NEW u \in People, UnshareWithUser(u)
    PROVE  SharingInv'
<1>0. /\ call.phase = "users" /\ call.request.op = "unshare" /\ u \in call.todo
      /\ UNCHANGED <<ids, node, event, before, ownVolume, touched, swept>>
      /\ ShareSound(share, ids) /\ call.left = {} /\ ids \in Nat /\ call \in CallOfSharing /\ SharingTypes
  BY DEF UnshareWithUser, WorldUnchanged, SharingInv, SharingTypes, PhaseTrue
<1>1. "invitation" \in Kinds /\ "external" \in Kinds /\ "member" \in Kinds
  BY DEF Kinds
<1>2. CASE Known("invitation", u) /\ Exchange(DeleteInvitation(share, call.info, u), UserDone(u, "invitation", Nobody))
  <2> DEFINE result == DeleteInvitation(share, call.info, u)
  <2>1. result # Refused => Has(share, call.info, "invitation", u) /\ result = With(share, u, Nobody)
    BY Zenon DEF DeleteInvitation
  <2>2. Exchange(result, UserDone(u, "invitation", Nobody))
    BY <1>2
  <2> HIDE DEF result
  <2> QED
    BY <1>0, <1>1, <1>2, <2>1, <2>2, RemoveExchange
<1>3. CASE Known("external", u) /\ Exchange(DeleteExternalInvitation(share, call.info, u), UserDone(u, "external", Nobody))
  <2> DEFINE result == DeleteExternalInvitation(share, call.info, u)
  <2>1. result # Refused => Has(share, call.info, "external", u) /\ result = With(share, u, Nobody)
    BY Zenon DEF DeleteExternalInvitation
  <2>2. Exchange(result, UserDone(u, "external", Nobody))
    BY <1>3
  <2> HIDE DEF result
  <2> QED
    BY <1>0, <1>1, <1>3, <2>1, <2>2, RemoveExchange
<1>4. CASE Known("member", u) /\ Exchange(DeleteMember(share, call.info, u), UserDone(u, "member", Nobody))
  <2> DEFINE result == DeleteMember(share, call.info, u)
  <2>1. result # Refused => Has(share, call.info, "member", u) /\ result = With(share, u, Nobody)
    BY Zenon DEF DeleteMember
  <2>2. Exchange(result, UserDone(u, "member", Nobody))
    BY <1>4
  <2> HIDE DEF result
  <2> QED
    BY <1>0, <1>1, <1>4, <2>1, <2>2, RemoveExchange
<1>5. CASE /\ \A k \in Kinds : ~Known(k, u)
           /\ call' = [call EXCEPT !.todo = @ \ {u}] /\ UNCHANGED <<share, faults>>
  <2>1. /\ call' \in CallOfSharing /\ call'.request = call.request /\ call'.phase = "users" /\ call'.left = {}
        /\ call'.todo = call.todo \ {u} /\ call'.info = call.info
    BY <1>0, <1>5 DEF CallOfSharing
  <2>2. Untouched(u) => \A kk \in Kinds :
            call.info.access[kk][u] = IF share.access[u].kind = kk THEN share.access[u] ELSE Nobody
    BY <1>0 DEF SharingInv, InfoTrue
  <2>3. Untouched(u) => share.access[u] = Nobody
    <3>1. share.access[u].kind \in Kinds \cup {"none"} /\ (share.access[u].kind = "none" => share.access[u] = Nobody)
      BY <1>0 DEF ShareSound, ShareRecord, EntryRecord
    <3> QED
      BY <1>5, <2>2, <3>1 DEF Known
  <2> QED
    BY <1>0, <1>5, <2>1, <2>2, <2>3, UserDoneKeeps
<1> QED
  BY <1>2, <1>3, <1>4, <1>5 DEF UnshareWithUser

\* A request that ends in another phase, or with it the call.
LEMMA ExchangeIs ==
    ASSUME SharingTypes, NEW result, NEW next, Exchange(result, next)
    PROVE  /\ faults' \in Nat /\ faults <= faults'
           /\ \/ result # Refused /\ share' = result /\ call' = next /\ UNCHANGED faults
              \/ call' = Failed /\ (share' = share \/ (share' = result /\ result # Refused /\ faults' > 0))
<1>1. faults \in Nat
  BY DEF SharingTypes
<1>2. share # Refused
  BY SharingConstants DEF SharingTypes, ShareSound
<1>3. CASE result # Refused /\ share' = result /\ call' = next /\ UNCHANGED faults
  BY <1>1, <1>3
<1>4. CASE call' = Failed /\ UNCHANGED <<share, faults>>
  BY <1>1, <1>4
<1>5. CASE faults' = faults + 1 /\ share' \in {share, result} \ {Refused} /\ call' = Failed
  <2>1. faults' \in Nat /\ faults <= faults' /\ faults' > 0
    BY <1>1, <1>5
  <2> QED
    BY <1>5, <2>1
<1> QED
  BY <1>3, <1>4, <1>5 DEF Exchange

LEMMA ConvertKeeps ==
    ASSUME SharingInv, NEW u \in People, ConvertInvitation(u)
    PROVE  SharingInv'
<1> DEFINE e == Entry("invitation", call.info.access["external"][u].role, ids + 1)
           result == PostInvitationsFor(share, call.info, u, ids + 1)
           d == UserDone(u, "external", Nobody)
           next == [d EXCEPT !.phase = "done"]
<1>0. /\ call.phase = "invitation" /\ call.request.op = "convert" /\ u \in call.todo
      /\ UNCHANGED <<node, event, before, ownVolume, touched, swept>>
      /\ ShareSound(share, ids) /\ call.left = {} /\ ids \in Nat /\ call \in CallOfSharing /\ SharingTypes
      /\ Asked(u) # "no" /\ event \in BOOLEAN /\ faults \in Nat /\ node \in NodeRecord
  BY DEF ConvertInvitation, WorldUnchanged, SharingInv, SharingTypes, PhaseTrue
<1>1. CASE call' = Failed /\ UNCHANGED <<share, ids, faults>>
  BY <1>0, <1>1, FailedKeeps
<1>2. CASE Exchange(result, next) /\ NewId
  <2>0. "external" \in Kinds /\ "invitation" \in Kinds /\ "done" \in SharingPhases
    BY DEF Kinds, SharingPhases
  <2>1. e \in EntryRecord /\ e.id = ids + 1 /\ e.kind # "none"
    <3>1. call.info.access["external"][u] \in EntryRecord
      BY <1>0, <2>0, CallIs
    <3> QED
      BY <1>0, <3>1 DEF EntryRecord, Entry, Kinds
  <2>2. ids' = ids + 1 /\ ids' \in Nat /\ ids <= ids' /\ e.id <= ids'
    BY <1>0, <1>2, <2>1 DEF NewId
  <2>3. result # Refused => /\ share.id # 0 /\ result = With(share, u, e)
                            /\ e.kind = "invitation" /\ e.role = share.access[u].role
    BY DEF PostInvitationsFor, Has, Is, Entry
  <2>4. ShareSound(share, ids')
    <3>1. share.id \in Nat /\ \A w \in People : share.access[w].id \in Nat
      BY <1>0 DEF ShareSound, ShareRecord, EntryRecord
    <3> QED
      BY <1>0, <2>2, <3>1 DEF ShareSound
  <2>5. d \in CallOfSharing /\ d.request = call.request /\ d.left = call.left /\ d.todo = call.todo \ {u}
    BY <1>0, <2>0, SharingConstants, UserDoneIs
  <2>6. next \in CallOfSharing /\ next.phase = "done" /\ next.request = call.request /\ next.left = {}
        /\ next.todo \subseteq call.todo
    <3> HIDE DEF d
    <3> QED
      BY <1>0, <2>0, <2>5 DEF CallOfSharing
  <2> HIDE DEF e, result, d, next
  <2>7. result # Refused => /\ ShareSound(result, ids') /\ result.id = share.id /\ result.link = share.link
                            /\ result.access[u] = e /\ \A w \in People \ {u} : result.access[w] = share.access[w]
    BY <1>0, <2>1, <2>2, <2>3, WithIs
  <2>8. /\ faults' \in Nat /\ faults <= faults'
        /\ \/ result # Refused /\ share' = result /\ call' = next /\ UNCHANGED faults
           \/ call' = Failed /\ (share' = share \/ (share' = result /\ result # Refused /\ faults' > 0))
    BY <1>0, <1>2, ExchangeIs
  <2>9. /\ ShareSound(share', ids') /\ share'.id = share.id /\ share'.link = share.link
        /\ \A w \in People \ {u} : share'.access[w] = share.access[w]
    BY <2>4, <2>7, <2>8
  <2>10. CASE call' = Failed
    BY <1>0, <2>2, <2>8, <2>9, <2>10, FailedKeeps
  <2>11. CASE call' = next
    <3>1. NodeTrue'
      BY <1>0, <2>6, <2>8, <2>9, <2>11 DEF SharingInv, NodeTrue
    <3>2. AskedIsDone'
      <4>1. \A w \in People : Asked(w) # "no" => w = u
        <5>1. call.request \in Requested /\ u \in People
          BY <1>0, CallIs
        <5> QED
          BY <1>0, <5>1, SharingConstants DEF Asked
      <4>2. Untouched(u) => share.access[u] = before.access[u]
        BY <1>0 DEF SharingInv, WaitingTrue
      <4>3. share'.access[u].kind = "invitation" /\ share'.access[u].role = share.access[u].role
        BY <1>0, <2>3, <2>6, <2>7, <2>8, <2>11, CallIs
      <4>4. \A w : Asked(w)' = Asked(w) /\ (Untouched(w)' <=> Untouched(w))
        BY <1>0, <2>6, <2>11 DEF Asked, Untouched
      <4>5. SettingsDone'
        BY <1>0, <2>6, <2>11 DEF SettingsDone
      <4> QED
        BY <1>0, <2>6, <2>11, <4>1, <4>2, <4>3, <4>4, <4>5 DEF AskedIsDone, Served
    <3> QED
      BY <1>0, <2>2, <2>6, <2>8, <2>9, <2>11, <3>1, <3>2, DoneKeeps
  <2> QED
    BY <2>8, <2>10, <2>11
<1> QED
  BY <1>1, <1>2 DEF ConvertInvitation

LEMMA ResendKeeps ==
    ASSUME SharingInv, NEW u \in People, ResendInvitationEmail(u)
    PROVE  SharingInv'
<1>0. /\ call.phase = "invitation" /\ call.request.op = "resend"
      /\ UNCHANGED <<ids, node, event, before, ownVolume, touched, swept>>
      /\ ShareSound(share, ids) /\ call.left = {} /\ ids \in Nat /\ call \in CallOfSharing /\ SharingTypes
      /\ event \in BOOLEAN /\ faults \in Nat /\ node \in NodeRecord
      /\ \A w \in People : Asked(w) # "no" => w \in call.todo
  BY DEF ResendInvitationEmail, WorldUnchanged, SharingInv, SharingTypes, PhaseTrue
<1>1. CASE call' = Failed /\ UNCHANGED <<share, faults>>
  BY <1>0, <1>1, FailedKeeps
<1>2. ASSUME NEW k, Exchange(PostSendEmail(share, call.info, k, u), Goes("done")) PROVE SharingInv'
  <2> DEFINE result == PostSendEmail(share, call.info, k, u)
  <2>1. result # Refused => result = share
    BY DEF PostSendEmail
  <2>2. Exchange(result, Goes("done"))
    BY <1>2
  <2> HIDE DEF result
  <2>3. /\ faults' \in Nat /\ faults <= faults' /\ share' = share
        /\ \/ call' = Goes("done") /\ UNCHANGED faults
           \/ call' = Failed
    BY <1>0, <2>1, <2>2, ExchangeIs
  <2>4. Goes("done") \in CallOfSharing /\ Goes("done").phase = "done" /\ Goes("done").request = call.request
        /\ Goes("done").left = {} /\ Goes("done").todo \subseteq call.todo
    BY <1>0, CallIs DEF SharingPhases
  <2>5. CASE call' = Failed
    BY <1>0, <2>3, <2>5, FailedKeeps
  <2>6. CASE call' = Goes("done")
    <3>1. NodeTrue'
      BY <1>0, <2>3, <2>4, <2>6 DEF SharingInv, NodeTrue
    <3>2. AskedIsDone'
      <4>1. \A w : Asked(w)' = Asked(w) /\ (Untouched(w)' <=> Untouched(w))
        BY <1>0, <2>4, <2>6 DEF Asked, Untouched
      <4>2. \A w \in People : (Asked(w) # "no" /\ Untouched(w)) => share.access[w] = before.access[w]
        BY <1>0 DEF SharingInv, WaitingTrue
      <4> QED
        BY <1>0, <2>3, <2>4, <2>6, <4>1, <4>2 DEF AskedIsDone, Served, SettingsDone
    <3> QED
      BY <1>0, <2>3, <2>4, <2>6, <3>1, <3>2, DoneKeeps
  <2> QED
    BY <2>3, <2>5, <2>6
<1> QED
  BY <1>1, <1>2 DEF ResendInvitationEmail

Linked(s, role, id) == [s EXCEPT !.link = role, !.linkId = id]
Noted(phase, role, id) == [call EXCEPT !.phase = phase, !.info.link = role, !.info.linkId = id]

\* The share is as before but for its link.
LEMMA LinkIs ==
    ASSUME NEW s, NEW last \in Nat, NEW next \in Nat, ShareSound(s, last), last <= next, s.id # 0,
           NEW role \in Roles \cup {"no"}, NEW id \in Nat, id = 0 => role = "no"
    PROVE  /\ ShareSound(Linked(s, role, id), next) /\ Linked(s, role, id).id = s.id
           /\ Linked(s, role, id).access = s.access /\ Linked(s, role, id).editors = s.editors
           /\ Linked(s, role, id).link = role /\ Linked(s, role, id).linkId = id
<1> DEFINE t == Linked(s, role, id)
<1>1. s \in ShareRecord /\ s.id \in Nat /\ s.id <= last /\ \A w \in People : s.access[w].id \in Nat
  BY DEF ShareSound, ShareRecord, EntryRecord
<1>2. t \in ShareRecord /\ t.id = s.id /\ t.link = role /\ t.linkId = id /\ t.access = s.access /\ t.editors = s.editors
  BY <1>1 DEF ShareRecord, Linked
<1> HIDE DEF t
<1>3. ShareSound(t, next)
  BY <1>1, <1>2 DEF ShareSound
<1> QED
  BY <1>2, <1>3 DEF t

\* What is noted of the link.
LEMMA LinkNoted ==
    ASSUME SharingTypes, NEW phase \in SharingPhases, NEW role \in Roles \cup {"no"}, NEW id \in Nat
    PROVE  LET d == Noted(phase, role, id)
           IN  /\ d \in CallOfSharing /\ d.phase = phase /\ d.request = call.request /\ d.left = call.left
               /\ d.todo = call.todo /\ d.info.shareId = call.info.shareId /\ d.info.access = call.info.access
               /\ d.info.linkId = id
<1> DEFINE d == Noted(phase, role, id)
           i == [call.info EXCEPT !.link = role, !.linkId = id]
<1>1. call \in CallOfSharing /\ call.info \in InfoRecord
  BY DEF SharingTypes, CallOfSharing
<1>2. i \in InfoRecord /\ i.shareId = call.info.shareId /\ i.access = call.info.access /\ i.linkId = id
  BY <1>1 DEF InfoRecord
<1>3. d = [call EXCEPT !.phase = phase, !.info = i]
  BY <1>1 DEF CallOfSharing, InfoRecord, Noted
<1> HIDE DEF i, d
<1>4. /\ d \in CallOfSharing /\ d.phase = phase /\ d.request = call.request /\ d.left = call.left
      /\ d.todo = call.todo /\ d.info = i
  BY <1>1, <1>2, <1>3 DEF CallOfSharing
<1> QED
  BY <1>2, <1>4 DEF d

\* When nobody is left to do, the call ends, or goes on to what is left of the share.
LEMMA UsersDoneKeeps ==
    ASSUME SharingInv, call.phase = "users", call.todo = {},
           UNCHANGED <<node, event, before, ownVolume, touched, swept>>, faults' \in Nat, faults <= faults', ids' \in Nat,
           ShareSound(share', ids'), share'.id = share.id, share'.access = share.access,
           share'.editors = share.editors, call.request.link = "no" => share'.link = share.link,
           call' \in CallOfSharing, call'.request = call.request, call'.left = {}, call'.todo = {},
           \/ /\ call'.phase = "done" /\ call.request.op = "share"
              /\ call.request.link # "no" => ownVolume /\ share'.link = call.request.link
           \/ /\ call'.phase = "removed" /\ call.request.op = "unshare"
              /\ ("share" \notin touched /\ ownVolume /\ call.request.link = "remove") => share'.link = "no"
              /\ call'.info.shareId = call.info.shareId /\ call'.info.access = call.info.access
              /\ ("share" \notin touched /\ ownVolume) => call'.info.linkId = share'.linkId
    PROVE  SharingInv'
<1>0. SharingTypes /\ event \in BOOLEAN /\ faults \in Nat /\ node \in NodeRecord /\ call.left = {}
  BY DEF SharingInv, SharingTypes, PhaseTrue
<1>1. \A w : Asked(w)' = Asked(w) /\ (Untouched(w)' <=> Untouched(w))
  BY DEF Asked, Untouched
<1>2. NodeTrue'
  BY <1>0 DEF SharingInv, NodeTrue
<1>3. \A w \in People : (Asked(w) # "no" /\ Untouched(w)) =>
          /\ call.request.op = "share" => share.id # 0 /\ share.access[w].role = Asked(w)
          /\ call.request.op = "unshare" => share.access[w] = Nobody
  BY DEF SharingInv, TodoTrue
<1>4. CASE /\ call'.phase = "done" /\ call.request.op = "share"
           /\ call.request.link # "no" => ownVolume /\ share'.link = call.request.link
  <2>1. AskedIsDone'
    <3>1. "share" \notin touched => SettingsDone'
      BY <1>4 DEF SettingsDone, SharingInv, SettingsTrue
    <3> QED
      BY <1>1, <1>3, <1>4, <3>1 DEF AskedIsDone, Served
  <2> QED
    BY <1>0, <1>2, <1>4, <2>1, DoneKeeps
<1>5. CASE /\ call'.phase = "removed" /\ call.request.op = "unshare"
           /\ ("share" \notin touched /\ ownVolume /\ call.request.link = "remove") => share'.link = "no"
           /\ call'.info.shareId = call.info.shareId /\ call'.info.access = call.info.access
           /\ ("share" \notin touched /\ ownVolume) => call'.info.linkId = share'.linkId
  <2>1. SharingTypes'
    BY <1>0 DEF SharingTypes
  <2>2. PhaseTrue'
    BY <1>1, <1>5 DEF PhaseTrue
  <2>3. InfoTrue'
    BY <1>0, <1>1, <1>5 DEF SharingInv, InfoTrue
  <2>4. TodoTrue'
    BY <1>1, <1>3, <1>5 DEF TodoTrue
  <2>5. Spared'
    BY SparedKeep DEF SharingInv
  <2>6. AskedIsDone' /\ WaitingTrue' /\ SettingsTrue'
    BY <1>5 DEF AskedIsDone, WaitingTrue, SettingsTrue
  <2> QED
    BY <1>2, <2>1, <2>2, <2>3, <2>4, <2>5, <2>6 DEF SharingInv
<1> QED
  BY <1>4, <1>5

\* A request about the link.
LEMMA LinkExchange ==
    ASSUME SharingInv, call.phase = "users", call.todo = {}, call.request.link # "no",
           UNCHANGED <<node, event, before, ownVolume, touched, swept>>, ids' \in {ids, ids + 1},
           NEW role \in Roles \cup {"no"}, NEW id \in Nat, id = 0 => role = "no",
           NEW result, result # Refused => share.id # 0 /\ result = Linked(share, role, id),
           NEW phase \in {"done", "removed"}, phase = "removed" => call.request.op = "unshare" /\ role = "no",
           phase = "done" => call.request.op = "share" /\ ownVolume /\ role = call.request.link,
           Exchange(result, Noted(phase, role, id))
    PROVE  SharingInv'
<1> DEFINE d == Noted(phase, role, id)
<1>0. /\ SharingTypes /\ call.left = {} /\ ids \in Nat /\ ids' \in Nat /\ ids <= ids' /\ ShareSound(share, ids)
      /\ event \in BOOLEAN /\ call.request.op # "unshareAll"
  BY DEF SharingInv, SharingTypes, PhaseTrue
<1>1. result # Refused => /\ ShareSound(result, ids') /\ result.id = share.id /\ result.access = share.access
                          /\ result.linkId = id /\ result.link = role /\ result.editors = share.editors
  BY <1>0, LinkIs
<1>2. ShareSound(share, ids')
  <2>1. share.id \in Nat /\ \A w \in People : share.access[w].id \in Nat
    BY <1>0 DEF ShareSound, ShareRecord, EntryRecord
  <2> QED
    BY <1>0, <2>1 DEF ShareSound
<1>3. /\ d \in CallOfSharing /\ d.phase = phase /\ d.request = call.request /\ d.left = call.left
      /\ d.todo = call.todo /\ d.info.shareId = call.info.shareId /\ d.info.access = call.info.access
      /\ d.info.linkId = id
  BY <1>0, LinkNoted DEF SharingPhases
<1> HIDE DEF d
<1>4. /\ faults' \in Nat /\ faults <= faults'
      /\ \/ result # Refused /\ share' = result /\ call' = d
         \/ call' = Failed /\ (share' = share \/ (share' = result /\ result # Refused))
  BY <1>0, ExchangeIs DEF d
<1>5. ShareSound(share', ids') /\ share'.id = share.id /\ share'.access = share.access
  BY <1>1, <1>2, <1>4
<1>6. CASE call' = Failed
  BY <1>0, <1>4, <1>5, <1>6, FailedKeeps
<1>7. CASE result # Refused /\ share' = result /\ call' = d
  BY <1>0, <1>1, <1>3, <1>4, <1>5, <1>7, UsersDoneKeeps
<1> QED
  BY <1>4, <1>6, <1>7

LEMMA LinkKeeps == SharingInv /\ (SharePublicLink \/ RemoveSharedLink) => SharingInv'
<1> SUFFICES ASSUME SharingInv, SharePublicLink \/ RemoveSharedLink PROVE SharingInv'
  OBVIOUS
<1>0. /\ SharingTypes /\ call.left = {} /\ ids \in Nat /\ ids + 1 \in Nat /\ ids + 1 # 0 /\ ShareSound(share, ids)
      /\ event \in BOOLEAN /\ faults \in Nat /\ faults <= faults /\ share \in ShareRecord
      /\ call.phase = "users" /\ call.todo = {} /\ UNCHANGED <<node, event, before, ownVolume, touched, swept>>
  BY DEF SharePublicLink, RemoveSharedLink, WorldUnchanged, SharingInv, SharingTypes, PhaseTrue, ShareSound
<1>1. /\ call.request.link \in Roles \cup {"no", "admin", "remove"}
      /\ call.request.link = "remove" => call.request.op = "unshare"
  BY <1>0, CallIs, SharingConstants
<1>2. ASSUME NEW phase \in {"done", "removed"}, phase = "removed" => call.request.op = "unshare",
             phase = "done" => call.request.op = "share" /\ call.request.link = "no",
             (phase = "removed" /\ call.request.link = "remove") => call.info.linkId = 0,
             call' = Goes(phase), UNCHANGED <<share, faults, ids>>
      PROVE  SharingInv'
  <2>1. /\ call' \in CallOfSharing /\ call'.phase = phase /\ call'.request = call.request /\ call'.info = call.info
        /\ call'.left = {} /\ call'.todo = {}
    BY <1>0, <1>2, CallIs DEF SharingPhases
  <2>2. ("share" \notin touched /\ ownVolume) => call.info.linkId = share.linkId
    BY <1>0 DEF SharingInv, InfoTrue
  <2>3. share.linkId = 0 => share.link = "no"
    BY <1>0 DEF ShareSound
  <2> QED
    BY <1>0, <1>2, <2>1, <2>2, <2>3, UsersDoneKeeps
<1>3. CASE RemoveSharedLink
  <2>1. call.request.op = "unshare" /\ UNCHANGED ids
    BY <1>3 DEF RemoveSharedLink
  <2>2. CASE /\ ~(call.request.link = "remove" /\ call.info.linkId # 0)
             /\ call' = Goes("removed") /\ UNCHANGED <<share, faults>>
    BY <1>2, <2>1, <2>2
  <2>3. CASE /\ call.request.link = "remove"
             /\ Exchange(DeleteUrl(share, call.info), [call EXCEPT !.phase = "removed", !.info.link = "no", !.info.linkId = 0])
    <3> DEFINE result == DeleteUrl(share, call.info)
    <3>1. result # Refused => share.id # 0 /\ result = Linked(share, "no", 0)
      BY DEF DeleteUrl, Is, Linked
    <3>2. Exchange(result, Noted("removed", "no", 0))
      BY <2>3 DEF Noted
    <3> HIDE DEF result
    <3> QED
      BY <1>0, <2>1, <2>3, <3>1, <3>2, LinkExchange
  <2> QED
    BY <1>3, <2>2, <2>3 DEF RemoveSharedLink
<1>4. CASE SharePublicLink
  <2> DEFINE role == call.request.link
  <2>1. call.request.op = "share"
    BY <1>4 DEF SharePublicLink
  <2>2. CASE role = "no" /\ call' = Goes("done") /\ UNCHANGED <<share, ids, faults>>
    BY <1>2, <2>1, <2>2
  <2>3. CASE call' = Failed /\ UNCHANGED <<share, ids, faults>>
    BY <1>0, <2>3, FailedKeeps
  <2>4. CASE role # "no" /\ ~LinkRefused(role) /\ call.info.linkId # 0 /\ UpdateSharedLink(role)
    <3> DEFINE result == PutUrl(share, call.info, role)
               id == call.info.linkId
    <3>1. role \in Roles /\ id \in Nat
      BY <1>0, <1>1, <2>1, <2>4, CallIs DEF LinkRefused, InfoRecord
    <3>2. result # Refused => share.id # 0 /\ result = Linked(share, role, id)
      BY <1>0 DEF PutUrl, Is, ShareRecord, Linked
    <3>3. [call EXCEPT !.phase = "done", !.info.link = role] = Noted("done", role, id)
      <4>1. call \in CallOfSharing /\ call.info \in InfoRecord
        BY <1>0, CallIs DEF SharingTypes
      <4> QED
        BY <4>1 DEF CallOfSharing, InfoRecord, Noted
    <3>4. Exchange(result, Noted("done", role, id)) /\ ids' = ids
      BY <2>4, <3>3 DEF UpdateSharedLink
    <3> HIDE DEF result
    <3> QED
      BY <1>0, <2>1, <2>4, <3>1, <3>2, <3>4, LinkExchange DEF LinkRefused
  <2>5. CASE role # "no" /\ ~LinkRefused(role) /\ ShareViaLink(role)
    <3> DEFINE result == PostUrls(share, call.info, role, ids + 1)
    <3>1. role \in Roles
      BY <1>1, <2>1, <2>5 DEF LinkRefused
    <3>2. result # Refused => share.id # 0 /\ result = Linked(share, role, ids + 1)
      BY DEF PostUrls, Is, Linked
    <3>3. Exchange(result, Noted("done", role, ids + 1)) /\ ids' = ids + 1
      BY <2>5 DEF ShareViaLink, NewId, Noted
    <3> HIDE DEF result
    <3> QED
      BY <1>0, <2>1, <2>5, <3>1, <3>2, <3>3, LinkExchange DEF LinkRefused
  <2> QED
    BY <1>4, <2>2, <2>3, <2>4, <2>5 DEF SharePublicLink
<1> QED
  BY <1>3, <1>4

\* The call goes on to another phase with what it knows.
LEMMA GoesOnKeeps ==
    ASSUME SharingInv, call.phase \in {"reading", "editors", "removed"}, call.left = {}, NEW p \in SharingPhases,
           p \in {"editors", "users", "delete", "invitation"}, call' = Goes(p), PhaseTrue', SettingsTrue',
           UNCHANGED <<ids, node, event, before, ownVolume, touched, swept>>, faults' = faults,
           ShareSound(share', ids'), share'.id = share.id, share'.access = share.access,
           share'.link = share.link, share'.linkId = share.linkId
    PROVE  SharingInv'
<1>0. /\ SharingTypes /\ call' \in CallOfSharing /\ call'.phase = p /\ call'.request = call.request
      /\ call'.info = call.info /\ call'.left = {} /\ call'.todo = call.todo
  BY CallIs DEF SharingInv
<1>1. \A w : Asked(w)' = Asked(w) /\ (Untouched(w)' <=> Untouched(w))
  BY <1>0 DEF Asked, Untouched
<1>2. SharingTypes'
  BY <1>0 DEF SharingTypes
<1>3. NodeTrue'
  BY DEF SharingInv, NodeTrue
<1>4. InfoTrue'
  BY <1>0, <1>1 DEF SharingInv, InfoTrue
<1>5. TodoTrue'
  BY <1>0, <1>1 DEF SharingInv, TodoTrue
<1>6. Spared'
  BY <1>0, SparedKeep DEF SharingInv
<1>7. AskedIsDone'
  BY <1>0 DEF AskedIsDone
<1>8. WaitingTrue'
  BY <1>0, <1>1 DEF SharingInv, WaitingTrue
<1> QED
  BY <1>2, <1>3, <1>4, <1>5, <1>6, <1>7, <1>8 DEF SharingInv

LEMMA NothingLeftKeeps == SharingInv /\ NothingLeft => SharingInv'
<1> SUFFICES ASSUME SharingInv, NothingLeft PROVE SharingInv'
  OBVIOUS
<1>0. /\ SharingTypes /\ call.phase = "removed" /\ call.request.op = "unshare" /\ call.left = {} /\ call.todo = {}
      /\ UNCHANGED <<share, ids, node, event, faults, before, ownVolume, touched, swept>>
      /\ ShareSound(share, ids) /\ ids \in Nat /\ faults \in Nat /\ event \in BOOLEAN /\ node \in NodeRecord
  BY DEF NothingLeft, WorldUnchanged, SharingInv, SharingTypes, PhaseTrue
<1>1. CASE EmptyInfo(call.info) /\ call' = Goes("delete")
  <2>1. /\ call'.phase = "delete" /\ call'.request = call.request /\ call'.info = call.info /\ call'.left = {}
        /\ call'.todo = {}
    BY <1>0, <1>1, CallIs DEF SharingPhases
  <2>2. PhaseTrue'
    <3>1. EmptyInfo(call.info)'
      BY <1>1, <2>1 DEF EmptyInfo
    <3> QED
      BY <1>0, <2>1, <3>1 DEF PhaseTrue
  <2>3. SettingsTrue'
    BY <1>0, <2>1 DEF SharingInv, SettingsTrue
  <2> QED
    BY <1>0, <1>1, <2>2, <2>3, GoesOnKeeps DEF SharingPhases
<1>2. CASE call' = Goes("done")
  <2>1. /\ call' \in CallOfSharing /\ call'.phase = "done" /\ call'.request = call.request /\ call'.left = {}
        /\ call'.todo = {}
    BY <1>0, <1>2, CallIs DEF SharingPhases
  <2>2. NodeTrue'
    BY <1>0, <2>1 DEF SharingInv, NodeTrue
  <2>3. AskedIsDone'
    <3>1. "share" \notin touched => SettingsDone'
      BY <1>0, <2>1 DEF SharingInv, SettingsTrue, SettingsDone
    <3>2. \A w : Asked(w)' = Asked(w) /\ (Untouched(w)' <=> Untouched(w))
      BY <1>0, <2>1 DEF Asked, Untouched
    <3> QED
      BY <1>0, <2>1, <3>1, <3>2 DEF SharingInv, TodoTrue, AskedIsDone, Served
  <2> QED
    BY <1>0, <2>1, <2>2, <2>3, DoneKeeps
<1> QED
  BY <1>1, <1>2 DEF NothingLeft

LEMMA DeleteShareKeeps == SharingInv /\ DeleteShareWithForce => SharingInv'
<1> SUFFICES ASSUME SharingInv, DeleteShareWithForce PROVE SharingInv'
  OBVIOUS
<1>0. /\ SharingTypes /\ call.phase = "delete" /\ call.left = {} /\ call.request.op \in {"unshare", "unshareAll"}
      /\ UNCHANGED <<ids, before, ownVolume, touched>> /\ event \in BOOLEAN
      /\ swept' = swept \cup {u \in People : share'.access[u] # share.access[u]}
      /\ ShareSound(share, ids) /\ ids \in Nat /\ faults \in Nat /\ node \in NodeRecord
  BY DEF DeleteShareWithForce, SharingInv, SharingTypes, PhaseTrue
<1>1. ShareSound(NoShare, ids) /\ NoShare.link = "no" /\ NoShare.id = 0 /\ \A u \in People : NoShare.access[u] = Nobody
  BY <1>0, SharingConstants
\* What the call does not know of is not there, but for what others touched.
<1>2. call.request.op = "unshare" => /\ \A u \in People : Untouched(u) => share.access[u] = Nobody
                                     /\ ("share" \notin touched /\ ownVolume) => share.link = "no"
  <2>1. SUFFICES ASSUME call.request.op = "unshare"
                 PROVE  /\ \A u \in People : Untouched(u) => share.access[u] = Nobody
                        /\ ("share" \notin touched /\ ownVolume) => share.link = "no"
    OBVIOUS
  <2>2. call.info.linkId = 0 /\ \A k \in Kinds, u \in People : call.info.access[k][u] = Nobody
    BY <1>0, <2>1 DEF SharingInv, PhaseTrue, EmptyInfo
  <2>3. \A u \in People, k \in Kinds :
            Untouched(u) => call.info.access[k][u] = IF share.access[u].kind = k THEN share.access[u] ELSE Nobody
    BY <1>0 DEF SharingInv, InfoTrue
  <2>4. ("share" \notin touched /\ ownVolume) => share.linkId = 0
    BY <1>0, <2>2 DEF SharingInv, InfoTrue
  <2>5. \A u \in People : share.access[u].kind \in Kinds \cup {"none"}
                          /\ (share.access[u].kind = "none" => share.access[u] = Nobody)
    BY <1>0 DEF ShareSound, ShareRecord, EntryRecord
  <2> QED
    BY <1>0, <2>2, <2>3, <2>4, <2>5 DEF ShareSound
<1>3. PICK p \in {"done", "failed"} :
         /\ call' = Goes(p) /\ (p = "failed" => call.request.op = "unshareAll" /\ UNCHANGED node)
         /\ \/ share' = share /\ event' = event /\ UNCHANGED node /\ faults' \in {faults, faults + 1}
            \/ /\ p = "done" /\ share' = NoShare /\ event' = TRUE /\ faults' = faults
               /\ node'.fresh = FALSE /\ node' \in NodeRecord
            \/ share' = NoShare /\ event' = TRUE /\ UNCHANGED node /\ faults' = faults + 1
  <2>1. CASE share' = NoShare /\ event' = TRUE /\ call' = Goes("done") /\ NotifyNodeChanged /\ UNCHANGED faults
    BY <1>0, <2>1 DEF NotifyNodeChanged, NodeRecord
  <2>2. CASE /\ UNCHANGED faults \/ faults' = faults + 1
             /\ call' = Goes(IF call.request.op = "unshare" THEN "done" ELSE "failed")
             /\ \/ UNCHANGED <<share, event>>
                \/ faults' # faults /\ share' = DeleteShares(share, call.info) /\ share' # Refused /\ event' = TRUE
             /\ UNCHANGED node
    <3>1. DeleteShares(share, call.info) # Refused => DeleteShares(share, call.info) = NoShare
      BY DEF DeleteShares
    <3> QED
      BY <1>0, <2>2, <3>1
  <2> QED
    BY <2>1, <2>2 DEF DeleteShareWithForce
<1>4. /\ call' \in CallOfSharing /\ call'.phase = p /\ call'.request = call.request /\ call'.left = {}
      /\ call'.todo = call.todo
  BY <1>0, <1>3, CallIs DEF SharingPhases
<1>5. /\ faults' \in Nat /\ faults <= faults' /\ event' \in BOOLEAN /\ (event => event') /\ ShareSound(share', ids')
      /\ node' \in NodeRecord
  <2>1. faults' \in Nat /\ faults <= faults'
    <3>1. faults' \in {faults, faults + 1}
      BY <1>3
    <3> QED
      BY <1>0, <3>1
  <2>2. event' \in BOOLEAN /\ (event => event')
    <3>1. event' = event \/ event' = TRUE
      BY <1>3, Zenon
    <3> QED
      BY <1>0, <3>1
  <2>3. ShareSound(share', ids')
    <3>1. share' \in {share, NoShare} /\ ids' = ids
      BY <1>0, <1>3
    <3> QED
      BY <1>0, <1>1, <3>1
  <2>4. node' \in NodeRecord
    BY <1>0, <1>3
  <2> QED
    BY <2>1, <2>2, <2>3, <2>4
<1>6. /\ swept \subseteq swept' /\ \A u \in People : share'.access[u] = share.access[u] \/ u \in swept'
      /\ call.request.op = "unshare" => \A u \in swept' : u \in swept \/ ~Untouched(u)
      /\ (call.request.op # "unshareAll" /\ call.request.link = "no" /\ ownVolume /\ "share" \notin touched) =>
            share'.link = share.link
  BY <1>0, <1>1, <1>2, <1>3
<1>7. \/ UNCHANGED node /\ (share'.id = share.id \/ (event' /\ faults' > 0))
      \/ p = "done" /\ node'.fresh = FALSE
  <2>1. faults + 1 > 0
    BY <1>0
  <2> QED
    BY <1>0, <1>3, <2>1
<1>8. CASE p = "failed"
  BY <1>0, <1>3, <1>5, <1>6, <1>7, <1>8, FailedKeeps DEF Failed
<1>9. CASE p = "done"
  <2>1. NodeTrue'
    BY <1>0, <1>3, <1>4, <1>5, <1>7, <1>9 DEF SharingInv, NodeTrue
  <2>2. AskedIsDone'
    <3>1. \A w : Asked(w)' = Asked(w) /\ (Untouched(w)' <=> Untouched(w))
      BY <1>0, <1>4 DEF Asked, Untouched
    <3>2. \A w \in People : (call.request.op = "unshare" /\ Untouched(w)) => share'.access[w] = Nobody
      BY <1>1, <1>2, <1>3
    <3>3. "share" \notin touched => SettingsDone'
      <4>1. call.request.op = "unshareAll" => share' = NoShare
        <5>1. CASE DeleteShares(share, call.info) # Refused /\ share' = NoShare
          BY <5>1
        <5>2. CASE call' = Goes(IF call.request.op = "unshare" THEN "done" ELSE "failed")
          <6>1. "failed" \in SharingPhases /\ "failed" # "done"
            BY DEF SharingPhases
          <6> QED
            BY <1>0, <1>4, <1>9, <5>2, <6>1, CallIs
        <5> QED
          BY <5>1, <5>2 DEF DeleteShareWithForce
      <4>2. ("share" \notin touched /\ call.request.op = "unshare" /\ call.request.link = "remove" /\ ownVolume)
              => share'.link = "no"
        <5>1. ("share" \notin touched /\ call.request.op = "unshare" /\ call.request.link = "remove" /\ ownVolume)
                => share.link = "no"
          BY <1>0 DEF SharingInv, SettingsTrue
        <5> QED
          BY <1>1, <1>3, <5>1
      <4> QED
        BY <1>0, <1>1, <1>4, <4>1, <4>2 DEF SettingsDone
    <3> QED
      BY <1>0, <1>4, <3>1, <3>2, <3>3 DEF AskedIsDone, Served
  <2> QED
    BY <1>0, <1>4, <1>5, <1>6, <1>9, <2>1, <2>2, DoneKeeps
<1> QED
  BY <1>8, <1>9

LEMMA SetEditorsKeeps == SharingInv /\ SetEditorsCanShare => SharingInv'
<1> SUFFICES ASSUME SharingInv, SetEditorsCanShare PROVE SharingInv'
  OBVIOUS
<1> DEFINE editors == call.request.editors
           result == PutEditorsCanShare(share, call.info, editors)
           t == [share EXCEPT !.editors = editors]
<1>0. /\ SharingTypes /\ call.phase = "editors" /\ call.left = {} /\ call.request.op = "share"
      /\ UNCHANGED <<ids, node, event, before, ownVolume, touched, swept>> /\ event \in BOOLEAN
      /\ ShareSound(share, ids) /\ share \in ShareRecord /\ ids \in Nat /\ faults \in Nat
  BY DEF SetEditorsCanShare, WorldUnchanged, SharingInv, SharingTypes, PhaseTrue, ShareSound
<1>1. editors \in {"no", "yes"}
  BY <1>0, CallIs, SharingConstants
<1>2. share.id # 0 =>
         /\ ShareSound(t, ids) /\ t.id = share.id /\ t.access = share.access /\ t.link = share.link
         /\ t.linkId = share.linkId
  <2>1. /\ t \in ShareRecord /\ t.id = share.id /\ t.access = share.access /\ t.link = share.link
        /\ t.linkId = share.linkId
    BY <1>0, <1>1 DEF ShareRecord
  <2> HIDE DEF t
  <2> QED
    BY <1>0, <2>1 DEF ShareSound
<1>3. result # Refused => result = t /\ share.id # 0
  BY DEF PutEditorsCanShare, Is
<1> HIDE DEF result, t
<1>4. \/ /\ call' = Goes("users") /\ faults' = faults
         /\ share' = share \/ (share' = t /\ share.id # 0)
      \/ /\ call' = Failed /\ faults' \in Nat /\ faults <= faults'
         /\ share' = share \/ (share' = t /\ share.id # 0)
  <2>1. CASE call' = Goes("users") /\ UNCHANGED <<share, faults>>
    BY <2>1
  <2>2. CASE Exchange(result, Goes("users"))
    BY <1>0, <1>3, <2>2, ExchangeIs
  <2> QED
    BY <2>1, <2>2 DEF SetEditorsCanShare, result
<1>5. /\ ShareSound(share', ids') /\ share'.id = share.id /\ share'.access = share.access /\ share'.link = share.link
      /\ share'.linkId = share.linkId
  BY <1>0, <1>2, <1>4
<1>6. CASE call' = Failed /\ faults' \in Nat /\ faults <= faults'
  BY <1>0, <1>5, <1>6, FailedKeeps
<1>7. CASE call' = Goes("users") /\ faults' = faults
  <2>1. /\ call'.phase = "users" /\ call'.request = call.request /\ call'.left = {} /\ call'.todo = call.todo
    BY <1>0, <1>7, CallIs DEF SharingPhases
  <2>2. PhaseTrue'
    BY <1>0, <2>1 DEF SharingInv, PhaseTrue, Asked
  <2>3. editors # "no" => share'.editors = editors
    <3>1. CASE Exchange(result, Goes("users"))
      <4>1. \/ result # Refused /\ share' = result
            \/ call' = Failed
        BY <3>1 DEF Exchange
      <4>2. t.editors = editors
        BY <1>0 DEF ShareRecord, t
      <4>3. call' # Failed
        BY <1>0, <2>1, CallIs
      <4> QED
        BY <1>3, <4>1, <4>2, <4>3
    <3> QED
      BY <3>1 DEF SetEditorsCanShare, result
  <2>4. SettingsTrue'
    BY <1>0, <2>1, <2>3 DEF SettingsTrue
  <2> QED
    BY <1>0, <1>5, <1>7, <2>2, <2>4, GoesOnKeeps DEF SharingPhases
<1> QED
  BY <1>4, <1>6, <1>7

LEMMA CreateShareKeeps == SharingInv /\ CreateShare => SharingInv'
<1> SUFFICES ASSUME SharingInv, CreateShare PROVE SharingInv'
  OBVIOUS
<1>0. /\ SharingTypes /\ call.phase = "create" /\ call.left = {} /\ call.request.op = "share"
      /\ UNCHANGED <<before, ownVolume, touched, swept>> /\ event \in BOOLEAN /\ node \in NodeRecord
      /\ ShareSound(share, ids) /\ ids \in Nat /\ faults \in Nat /\ call \in CallOfSharing
      /\ \A u \in People : Asked(u) # "no" => u \in call.todo
      /\ \A u \in call.todo : Asked(u) # "no"
  BY DEF CreateShare, WorldUnchanged, SharingInv, SharingTypes, PhaseTrue
<1>1. CASE RefreshShare
  <2>1. /\ call' \in CallOfSharing /\ call'.phase = "info" /\ call'.request = call.request /\ call'.left = {}
        /\ call'.todo = call.todo /\ UNCHANGED <<share, ids, event, faults>>
    BY <1>0, <1>1 DEF RefreshShare, CallOfSharing, SharingPhases
  <2>2. node' \in NodeRecord /\ node'.fresh = FALSE
    BY <1>0, <1>1 DEF RefreshShare, NotifyNodeChanged, NodeRecord
  <2>3. \A w : Asked(w)' = Asked(w) /\ (Untouched(w)' <=> Untouched(w))
    BY <1>0, <2>1 DEF Asked, Untouched
  <2>4. SharingTypes'
    BY <1>0, <2>1, <2>2 DEF SharingTypes
  <2>5. PhaseTrue' /\ NodeTrue' /\ InfoTrue' /\ AskedIsDone'
    BY <1>0, <2>1, <2>2, <2>3 DEF PhaseTrue, NodeTrue, InfoTrue, AskedIsDone
  <2>6. TodoTrue'
    BY <1>0, <2>1, <2>3 DEF SharingInv, TodoTrue
  <2>7. Spared'
    BY <1>0, <2>1, SparedKeep DEF SharingInv
  <2>8. WaitingTrue' /\ SettingsTrue'
    BY <1>0, <2>1, <2>3 DEF SharingInv, WaitingTrue, SettingsTrue
  <2> QED
    BY <2>4, <2>5, <2>6, <2>7, <2>8 DEF SharingInv
<1>2. CASE share.id = 0 /\ ~RefreshShare
  <2> DEFINE new == [NoShare EXCEPT !.id = ids + 1]
             info == [NoInfo EXCEPT !.shareId = ids + 1]
             next == [call EXCEPT !.phase = "editors", !.info = info]
             result == PostShares(share, ids + 1)
  <2>1. /\ share = NoShare /\ share.id = 0 /\ share.link = "no" /\ share.linkId = 0
        /\ \A u \in People : share.access[u] = Nobody
    BY <1>0, <1>2, SharingConstants DEF ShareSound
  <2>2. /\ new \in ShareRecord /\ new.id = ids + 1 /\ new.link = "no" /\ new.linkId = 0
        /\ \A u \in People : new.access[u] = Nobody
    BY <1>0, SharingConstants DEF ShareRecord
  <2>3. result = new
    BY <1>2 DEF PostShares
  <2>4. /\ info \in InfoRecord /\ info.shareId = ids + 1 /\ info.linkId = 0
        /\ \A k \in Kinds, u \in People : info.access[k][u] = Nobody
    BY <1>0, SharingConstants DEF InfoRecord
  <2> HIDE DEF info
  <2>5. /\ next \in CallOfSharing /\ next.phase = "editors" /\ next.info = info /\ next.request = call.request
        /\ next.left = {} /\ next.todo = call.todo
    BY <1>0, <2>4 DEF CallOfSharing, SharingPhases
  <2>6. /\ Exchange(result, next)
        /\ IF share'.id = ids + 1 THEN NewId /\ event' = TRUE ELSE UNCHANGED <<ids, event>>
        /\ IF call'.phase = "editors" THEN NotifyNodeChanged ELSE UNCHANGED node
    BY <1>2 DEF CreateShare, info
  <2> HIDE DEF next, result, new
  <2>7. /\ faults' \in Nat /\ faults <= faults'
        /\ \/ share' = new /\ call' = next /\ UNCHANGED faults
           \/ call' = Failed /\ (share' = share \/ (share' = new /\ faults' > 0))
    BY <1>0, <2>3, <2>6, ExchangeIs
  <2>8. ShareSound(new, ids + 1) /\ ids + 1 # 0 /\ ids + 1 \in Nat
    BY <1>0, <2>2, SharingConstants DEF ShareSound
  <2>9. CASE share' = new /\ call' = next /\ UNCHANGED faults
    <3>1. ids' = ids + 1 /\ event' = TRUE /\ node' \in NodeRecord /\ node'.fresh = FALSE
      BY <1>0, <2>2, <2>5, <2>6, <2>9 DEF NewId, NotifyNodeChanged, NodeRecord
    <3>2. SharingTypes'
      BY <1>0, <2>5, <2>8, <2>9, <3>1 DEF SharingTypes
    <3>3. \A w : Asked(w)' = Asked(w)
      BY <2>5, <2>9 DEF Asked
    <3>4. PhaseTrue' /\ NodeTrue' /\ AskedIsDone'
      BY <1>0, <2>5, <2>9, <3>1, <3>3 DEF PhaseTrue, NodeTrue, AskedIsDone
    <3>5. InfoTrue'
      BY <2>2, <2>4, <2>5, <2>8, <2>9 DEF InfoTrue
    <3>6. TodoTrue'
      BY <1>0, <2>5, <2>9, <3>3 DEF TodoTrue
    <3>7. Spared'
      BY <1>0, <2>1, <2>2, <2>5, <2>9, SparedKeep DEF SharingInv
    <3>8. WaitingTrue' /\ SettingsTrue'
      <4>1. \A u \in call.todo : share'.access[u] = share.access[u] /\ u \in People
        BY <1>0, <2>1, <2>2, <2>9, CallIs
      <4>2. \A w : Untouched(w)' <=> Untouched(w)
        BY <1>0 DEF Untouched
      <4> QED
        BY <1>0, <2>5, <2>9, <4>1, <4>2 DEF SharingInv, WaitingTrue, SettingsTrue
    <3> QED
      BY <3>2, <3>4, <3>5, <3>6, <3>7, <3>8 DEF SharingInv
  <2>10. CASE call' = Failed /\ (share' = share \/ (share' = new /\ faults' > 0))
    <3>1. UNCHANGED node
      BY <1>0, <2>6, <2>10, CallIs
    <3>2. \/ share' = share /\ ids' = ids /\ event' = event
          \/ share' = new /\ ids' = ids + 1 /\ event' = TRUE /\ faults' > 0
      <4>1. ids + 1 # 0
        BY <2>8
      <4> QED
        BY <2>1, <2>2, <2>6, <2>10, <4>1 DEF NewId
    <3>3. ids' \in Nat /\ event' \in BOOLEAN /\ (event => event')
      <4>1. event' = event \/ event' = TRUE
        BY <3>2, Zenon
      <4>2. ids' \in {ids, ids + 1}
        BY <3>2
      <4> QED
        BY <1>0, <2>8, <4>1, <4>2
    <3>4. ShareSound(share', ids')
      BY <1>0, <2>8, <3>2
    <3>5. share'.id = share.id \/ (event' /\ faults' > 0)
      BY <3>2
    <3>6. share'.link = share.link /\ \A u \in People : share'.access[u] = share.access[u]
      BY <2>1, <2>2, <3>2
    <3> QED
      BY <1>0, <2>7, <2>10, <3>1, <3>3, <3>4, <3>5, <3>6, FailedKeeps
  <2> QED
    BY <2>7, <2>9, <2>10
<1> QED
  BY <1>1, <1>2 DEF CreateShare

LEMMA BeginCallKeeps ==
    ASSUME SharingInv, NEW c \in Requested, BeginCall(c)
    PROVE  SharingInv'
<1> DEFINE proton == {u \in People : u \in accounts /\ c.users[u] # "no"}
           todo == {u \in People : c.users[u] # "no"}
           new == [NoCall EXCEPT !.request = c, !.phase = "info", !.proton = proton, !.todo = todo]
<1>0. /\ SharingTypes /\ call.phase = "none" /\ call' = new /\ before' = share /\ touched' = {} /\ touched = {}
      /\ swept' = {} /\ share \in ShareRecord
      /\ UNCHANGED <<share, ids, ownVolume, node, event, faults>>
  BY DEF BeginCall, SharingInv, SharingTypes, PhaseTrue, ShareSound
<1>1. NoCall \in CallOfSharing /\ NoCall.left = {}
  <2>1. (CHOOSE cc \in Requested : TRUE) \in Requested
    OBVIOUS
  <2> QED
    BY <2>1, SharingConstants DEF NoCall, CallOfSharing, SharingPhases
<1>2. /\ new \in CallOfSharing /\ new.phase = "info" /\ new.request = c /\ new.left = {} /\ new.todo = todo
  <2>1. proton \in SUBSET People /\ todo \in SUBSET People
    OBVIOUS
  <2> HIDE DEF proton, todo
  <2> QED
    BY <1>1, <2>1 DEF CallOfSharing, SharingPhases
<1> HIDE DEF new
<1>3. SharingTypes'
  BY <1>0, <1>2 DEF SharingTypes
<1>4. \A u : Asked(u)' = c.users[u]
  BY <1>0, <1>2 DEF Asked
<1>5. PhaseTrue'
  BY <1>0, <1>2, <1>4 DEF PhaseTrue
<1>6. NodeTrue'
  BY <1>0 DEF SharingInv, NodeTrue
<1>7. InfoTrue' /\ AskedIsDone'
  BY <1>0, <1>2 DEF InfoTrue, AskedIsDone
<1>8. TodoTrue'
  BY <1>0, <1>2, <1>4 DEF TodoTrue
<1>9. Spared'
  BY <1>0 DEF Spared, NobodyElse, OnlyLatecomersSwept, LinkIsKept
<1>10. WaitingTrue' /\ SettingsTrue'
  BY <1>0, <1>2 DEF WaitingTrue, SettingsTrue
<1> QED
  BY <1>3, <1>5, <1>6, <1>7, <1>8, <1>9, <1>10 DEF SharingInv

LEMMA GetKeeps == SharingInv /\ GetSharedNode => SharingInv'
<1> SUFFICES ASSUME SharingInv, GetSharedNode PROVE SharingInv'
  OBVIOUS
<1> DEFINE known == IF node.fresh THEN node.known ELSE share.id
           op == call.request.op
           reading == [call EXCEPT !.phase = "reading", !.left = Kinds \cup {"link"},
                                   !.info = [NoInfo EXCEPT !.shareId = known]]
<1>0. /\ SharingTypes /\ call.phase = "info" /\ call.left = {} /\ node' = [known |-> known, fresh |-> TRUE]
      /\ UNCHANGED <<share, ids, event, faults, before, ownVolume, touched, swept>>
      /\ ShareSound(share, ids) /\ share.id \in Nat /\ node \in NodeRecord /\ call \in CallOfSharing
  BY DEF GetSharedNode, WorldUnchanged, SharingInv, SharingTypes, PhaseTrue, ShareSound, ShareRecord
<1>1. known \in Nat /\ ("share" \notin touched => known = share.id)
  BY <1>0 DEF SharingInv, NodeTrue, NodeRecord
<1>2. \/ call' = Failed
      \/ known # 0 /\ call' = reading
      \/ op = "share" /\ call' = Goes("create")
      \/ known = 0 /\ op \in {"unshare", "unshareAll"} /\ call' = Goes("done")
  BY DEF GetSharedNode
<1>3. /\ reading \in CallOfSharing /\ reading.phase = "reading" /\ reading.left = Kinds \cup {"link"}
      /\ reading.request = call.request /\ reading.todo = call.todo /\ reading.info.shareId = known
  <2> DEFINE info == [NoInfo EXCEPT !.shareId = known]
  <2>1. info \in InfoRecord /\ info.shareId = known
    BY <1>1, SharingConstants DEF InfoRecord
  <2> HIDE DEF info
  <2>2. /\ [call EXCEPT !.phase = "reading", !.left = Kinds \cup {"link"}, !.info = info] \in CallOfSharing
        /\ [call EXCEPT !.phase = "reading", !.left = Kinds \cup {"link"}, !.info = info].info = info
    BY <1>0, <2>1 DEF CallOfSharing, SharingPhases
  <2> QED
    BY <1>0, <2>1, <2>2 DEF CallOfSharing, info
<1>4. node' \in NodeRecord /\ node'.known = known
  BY <1>0, <1>1 DEF NodeRecord
<1> HIDE DEF reading, known
<1>5. NodeTrue'
  BY <1>0, <1>1, <1>4 DEF NodeTrue
<1>6. /\ call' \in CallOfSharing /\ call'.request = call.request /\ call'.todo = call.todo
      /\ call'.phase \in {"failed", "reading", "create", "done"}
  BY <1>0, <1>2, <1>3, CallIs DEF SharingPhases
<1>7. /\ call'.phase = "reading" => call' = reading /\ known # 0
      /\ call'.phase = "create" => op = "share"
      /\ call'.phase = "done" => known = 0 /\ op \in {"unshare", "unshareAll"}
      /\ call'.phase \in {"create", "done"} => call'.left = {}
  BY <1>0, <1>2, <1>3, CallIs DEF SharingPhases
<1>8. \A w : Asked(w)' = Asked(w) /\ (Untouched(w)' <=> Untouched(w))
  BY <1>0, <1>6 DEF Asked, Untouched
<1>9. SharingTypes'
  BY <1>0, <1>4, <1>6 DEF SharingTypes
<1>10. PhaseTrue'
  BY <1>0, <1>6, <1>7, <1>8 DEF SharingInv, PhaseTrue
<1>11. InfoTrue'
  BY <1>0, <1>1, <1>3, <1>6, <1>7 DEF InfoTrue
<1>12. TodoTrue'
  BY <1>0, <1>6, <1>8 DEF SharingInv, TodoTrue
<1>13. AskedIsDone'
  <2>1. ASSUME NEW u \in People, Untouched(u), known = 0 PROVE share.access[u] = Nobody
    BY <1>0, <1>1, <2>1, SharingConstants DEF Untouched, ShareSound
  <2>2. ("share" \notin touched /\ known = 0) => share = NoShare
    BY <1>0, <1>1 DEF ShareSound
  <2>3. (call'.phase = "done" /\ "share" \notin touched) => SettingsDone'
    BY <1>0, <1>6, <1>7, <2>2, SharingConstants DEF SettingsDone
  <2> QED
    BY <1>0, <1>6, <1>7, <1>8, <2>1, <2>3 DEF AskedIsDone, Served
<1>14. Spared'
  BY <1>0, <1>6, SparedKeep DEF SharingInv
<1>15. WaitingTrue' /\ SettingsTrue'
  BY <1>0, <1>6, <1>8 DEF SharingInv, WaitingTrue, SettingsTrue
<1> QED
  BY <1>5, <1>9, <1>10, <1>11, <1>12, <1>13, <1>14, <1>15 DEF SharingInv

\* A part of the share was read.
LEMMA ReadKeeps ==
    ASSUME SharingInv, call.phase = "reading", call' \in CallOfSharing, call'.phase = "reading",
           call'.request = call.request, call'.todo = call.todo, InfoTrue',
           UNCHANGED <<share, ids, node, event, faults, before, ownVolume, touched, swept>>
    PROVE  SharingInv'
<1>1. \A w : Asked(w)' = Asked(w) /\ (Untouched(w)' <=> Untouched(w))
  BY DEF Asked, Untouched
<1>2. SharingTypes' /\ NodeTrue' /\ AskedIsDone'
  BY DEF SharingInv, SharingTypes, NodeTrue, AskedIsDone
<1>3. PhaseTrue'
  BY <1>1 DEF SharingInv, PhaseTrue
<1>4. TodoTrue'
  BY <1>1 DEF SharingInv, TodoTrue
<1>5. Spared'
  BY SparedKeep DEF SharingInv
<1>6. WaitingTrue' /\ SettingsTrue'
  BY <1>1 DEF SharingInv, WaitingTrue, SettingsTrue
<1> QED
  BY <1>2, <1>3, <1>4, <1>5, <1>6 DEF SharingInv

LEMMA ReadsKeep ==
    ASSUME SharingInv, ReadPublicLink \/ \E k \in Kinds : ReadAccess(k)
    PROVE  SharingInv'
<1>0. /\ SharingTypes /\ call.phase = "reading" /\ call \in CallOfSharing /\ call.info \in InfoRecord
      /\ UNCHANGED <<share, ids, node, event, faults, before, ownVolume, touched, swept>>
      /\ ShareSound(share, ids) /\ share \in ShareRecord /\ ids \in Nat /\ faults \in Nat /\ event \in BOOLEAN
      /\ faults <= faults
  <2>1. /\ SharingTypes /\ call \in CallOfSharing /\ ShareSound(share, ids) /\ ids \in Nat /\ faults \in Nat
        /\ event \in BOOLEAN
    BY DEF SharingInv, SharingTypes
  <2>2. call.phase = "reading" /\ UNCHANGED <<share, ids, node, event, faults, before, ownVolume, touched, swept>>
    <3>1. CASE ReadPublicLink
      BY <3>1 DEF ReadPublicLink, WorldUnchanged
    <3>2. ASSUME NEW k \in Kinds, ReadAccess(k)
          PROVE  call.phase = "reading"
                 /\ UNCHANGED <<share, ids, node, event, faults, before, ownVolume, touched, swept>>
      BY <3>2, Zenon DEF ReadAccess, WorldUnchanged
    <3> QED
      BY <3>1, <3>2
  <2>3. call.info \in InfoRecord /\ share \in ShareRecord /\ faults <= faults
    BY <2>1 DEF ShareSound, CallOfSharing
  <2> QED
    BY <2>1, <2>2, <2>3
<1>1. \A w : (Untouched(w)' <=> Untouched(w))
  BY <1>0 DEF Untouched
<1>2. "link" \notin Kinds
  BY DEF Kinds
<1>3. CASE call' = Failed
  BY <1>0, <1>3, FailedKeeps
<1>4. ASSUME NEW k \in Kinds, ReadAccess(k), call' # Failed PROVE SharingInv'
  <2> DEFINE a == [u \in People |-> IF share.access[u].kind = k THEN share.access[u] ELSE Nobody]
             info == [call.info EXCEPT !.access[k] = a]
             next == [call EXCEPT !.left = call.left \ {k}, !.info = info]
  <2>1. call' = next
    <3>1. call' = [call EXCEPT !.left = call.left \ {k}, !.info.access[k] = a]
      BY <1>4 DEF ReadAccess
    <3> HIDE DEF a
    <3> QED
      BY <1>0, <3>1 DEF CallOfSharing, InfoRecord
  <2>2. a \in [People -> EntryRecord]
    BY <1>0, SharingConstants DEF ShareRecord
  <2>3. \A u \in People : a[u] = IF share.access[u].kind = k THEN share.access[u] ELSE Nobody
    OBVIOUS
  <2> HIDE DEF a
  <2>4. /\ info \in InfoRecord /\ info.shareId = call.info.shareId /\ info.linkId = call.info.linkId
        /\ info.access[k] = a /\ \A kk \in Kinds \ {k} : info.access[kk] = call.info.access[kk]
    BY <1>0, <2>2 DEF InfoRecord
  <2> HIDE DEF info
  <2>5. /\ next \in CallOfSharing /\ next.phase = "reading" /\ next.request = call.request /\ next.todo = call.todo
        /\ next.left = call.left \ {k} /\ next.info = info
    BY <1>0, <2>4 DEF CallOfSharing
  <2> HIDE DEF next
  <2>6. InfoTrue'
    <3>1. /\ "share" \notin touched => share.id # 0 /\ share.id = info.shareId
          /\ ("share" \notin touched /\ "link" \notin call.left /\ ownVolume) => info.linkId = share.linkId
      BY <1>0, <2>4 DEF SharingInv, InfoTrue
    <3>2. ASSUME NEW u \in People, NEW kk \in Kinds, kk \notin call.left \ {k}, Untouched(u)
          PROVE  info.access[kk][u] = IF share.access[u].kind = kk THEN share.access[u] ELSE Nobody
      <4>1. CASE kk = k
        BY <2>3, <2>4, <4>1
      <4>2. CASE kk # k
        BY <1>0, <2>4, <3>2, <4>2 DEF SharingInv, InfoTrue
      <4> QED
        BY <4>1, <4>2
    <3> QED
      BY <1>0, <1>1, <1>2, <2>1, <2>5, <3>1, <3>2 DEF InfoTrue
  <2> QED
    BY <1>0, <2>1, <2>5, <2>6, ReadKeeps
<1>5. ASSUME ReadPublicLink, call' # Failed PROVE SharingInv'
  <2>1. PICK role \in Roles \cup {"no"}, id \in Nat :
           /\ call' = [call EXCEPT !.left = call.left \ {"link"}, !.info = [call.info EXCEPT !.link = role, !.linkId = id]]
           /\ ownVolume => id = share.linkId
    <3>1. CASE ~ownVolume
      <4>1. call' = [call EXCEPT !.left = call.left \ {"link"}]
        BY <1>5, <3>1 DEF ReadPublicLink
      <4>2. /\ call.info.link \in Roles \cup {"no"} /\ call.info.linkId \in Nat
            /\ call.info = [call.info EXCEPT !.link = call.info.link, !.linkId = call.info.linkId]
        BY <1>0 DEF InfoRecord
      <4>3. [call EXCEPT !.left = call.left \ {"link"}] =
            [call EXCEPT !.left = call.left \ {"link"}, !.info = call.info]
        BY <1>0 DEF CallOfSharing
      <4>4. call' = [call EXCEPT !.left = call.left \ {"link"},
                                 !.info = [call.info EXCEPT !.link = call.info.link, !.linkId = call.info.linkId]]
        BY <4>1, <4>2, <4>3
      <4> QED
        BY <3>1, <4>2, <4>4, Zenon
    <3>2. CASE ownVolume
      <4>1. call' = [call EXCEPT !.left = call.left \ {"link"}, !.info.link = share.link, !.info.linkId = share.linkId]
        BY <1>5, <3>2 DEF ReadPublicLink
      <4>2. share.link \in Roles \cup {"no"} /\ share.linkId \in Nat
        BY <1>0 DEF ShareRecord
      <4>3. call' = [call EXCEPT !.left = call.left \ {"link"},
                                 !.info = [call.info EXCEPT !.link = share.link, !.linkId = share.linkId]]
        BY <1>0, <4>1 DEF CallOfSharing, InfoRecord
      <4> QED
        BY <4>2, <4>3, Zenon
    <3> QED
      BY <3>1, <3>2, Zenon
  <2> DEFINE info == [call.info EXCEPT !.link = role, !.linkId = id]
             next == [call EXCEPT !.left = call.left \ {"link"}, !.info = info]
  <2>2. /\ info \in InfoRecord /\ info.shareId = call.info.shareId /\ info.linkId = id
        /\ info.access = call.info.access
    BY <1>0 DEF InfoRecord
  <2> HIDE DEF info
  <2>3. /\ next \in CallOfSharing /\ next.phase = "reading" /\ next.request = call.request /\ next.todo = call.todo
        /\ next.left = call.left \ {"link"} /\ next.info = info
    BY <1>0, <2>2 DEF CallOfSharing
  <2>4. call' = next
    BY <2>1 DEF info
  <2> HIDE DEF next
  <2>5. InfoTrue'
    <3>1. /\ "share" \notin touched => share.id # 0 /\ share.id = call.info.shareId
          /\ \A u \in People, k \in Kinds \ call.left :
                Untouched(u) => call.info.access[k][u] = IF share.access[u].kind = k THEN share.access[u] ELSE Nobody
      BY <1>0 DEF SharingInv, InfoTrue
    <3>2. \A k \in Kinds : k \notin next.left => k \notin call.left
      BY <1>2, <2>3
    <3>3. call'.info.linkId = id /\ call'.info.shareId = call.info.shareId /\ call'.info.access = call.info.access
          /\ call'.left = next.left
      BY <2>2, <2>3, <2>4
    <3>4. ownVolume => call'.info.linkId = share.linkId
      BY <2>1, <3>3
    <3>5. \A u \in People, k \in Kinds \ call'.left :
             Untouched(u) => call'.info.access[k][u] = IF share.access[u].kind = k THEN share.access[u] ELSE Nobody
      BY <3>1, <3>2, <3>3
    <3> QED
      BY <1>0, <1>1, <3>1, <3>3, <3>4, <3>5 DEF InfoTrue
  <2> QED
    BY <1>0, <2>3, <2>4, <2>5, ReadKeeps
<1> QED
  BY <1>3, <1>4, <1>5

LEMMA InfoReadKeeps == SharingInv /\ SharingInfoRead => SharingInv'
<1> SUFFICES ASSUME SharingInv, SharingInfoRead PROVE SharingInv'
  OBVIOUS
<1> DEFINE p == CASE call.request.op = "share" -> "editors"
                  [] call.request.op = "unshare" -> "users"
                  [] call.request.op = "unshareAll" -> "delete"
                  [] OTHER -> "invitation"
<1>0. /\ SharingTypes /\ call.phase = "reading" /\ call.left = {}
      /\ UNCHANGED <<share, ids, node, event, faults, before, ownVolume, touched, swept>>
      /\ ShareSound(share, ids) /\ ids \in Nat /\ faults \in Nat /\ event \in BOOLEAN /\ faults <= faults
  BY DEF SharingInfoRead, WorldUnchanged, SharingInv, SharingTypes
<1>1. CASE call' = Failed
  BY <1>0, <1>1, FailedKeeps
<1>2. CASE call' = Goes(p)
  <2>1. call.request.op \in Ops
    BY <1>0, CallIs, SharingConstants
  <2>2. /\ p \in {"editors", "users", "delete", "invitation"}
        /\ p = "editors" => call.request.op = "share"
        /\ p = "users" => call.request.op = "unshare"
        /\ p = "delete" => call.request.op = "unshareAll"
        /\ p = "invitation" => call.request.op \in {"convert", "resend"}
    BY <2>1 DEF Ops
  <2> HIDE DEF p
  <2>3. p \in SharingPhases
    BY <2>2 DEF SharingPhases
  <2>4. /\ call'.phase = p /\ call'.request = call.request /\ call'.left = {} /\ call'.todo = call.todo
    BY <1>0, <1>2, <2>3, CallIs
  <2>5. PhaseTrue'
    BY <1>0, <2>2, <2>4 DEF SharingInv, PhaseTrue, Asked
  <2>6. SettingsTrue'
    BY <2>2, <2>4 DEF SettingsTrue
  <2> QED
    BY <1>0, <1>2, <2>2, <2>3, <2>5, <2>6, GoesOnKeeps
<1> QED
  BY <1>1, <1>2 DEF SharingInfoRead

\* Every step of the call, of others and of events keeps the invariant.
LEMMA SharingKeep == SharingInv /\ [SharingNext]_sharingVars => SharingInv'
<1> SUFFICES ASSUME SharingInv, [SharingNext]_sharingVars PROVE SharingInv'
  OBVIOUS
<1>1. CASE UNCHANGED sharingVars
  <2>1. UNCHANGED <<share, ids, ownVolume, node, event, call, faults, before, touched, swept>>
    BY <1>1 DEF sharingVars
  <2>2. \A w : Asked(w)' = Asked(w) /\ (Untouched(w)' <=> Untouched(w))
    BY <2>1 DEF Asked, Untouched
  <2>3. SharingTypes' /\ PhaseTrue'
    BY <2>1, <2>2 DEF SharingInv, SharingTypes, PhaseTrue, EmptyInfo
  <2>4. NodeTrue' /\ InfoTrue' /\ TodoTrue'
    BY <2>1, <2>2 DEF SharingInv, NodeTrue, InfoTrue, TodoTrue
  <2>5. AskedIsDone' /\ Spared'
    BY <2>1, <2>2 DEF SharingInv, AskedIsDone, Served, SettingsDone, Spared, NobodyElse, OnlyLatecomersSwept, LinkIsKept
  <2>6. WaitingTrue' /\ SettingsTrue'
    BY <2>1, <2>2 DEF SharingInv, WaitingTrue, SettingsTrue
  <2> QED
    BY <2>3, <2>4, <2>5, <2>6 DEF SharingInv
<1>2. CASE HandleNodeEvent
  <2>1. UNCHANGED <<share, ids, ownVolume, call, faults, before, touched, swept>> /\ event' = FALSE
    BY <1>2 DEF HandleNodeEvent, WorldUnchanged
  <2>2. node' \in NodeRecord /\ node'.fresh = FALSE
    BY <1>2 DEF HandleNodeEvent, SharingInv, SharingTypes, NodeRecord
  <2>3. \A w : Asked(w)' = Asked(w) /\ (Untouched(w)' <=> Untouched(w))
    BY <2>1 DEF Asked, Untouched
  <2>4. SharingTypes' /\ PhaseTrue'
    BY <2>1, <2>2, <2>3 DEF SharingInv, SharingTypes, PhaseTrue, EmptyInfo
  <2>5. NodeTrue' /\ InfoTrue' /\ TodoTrue'
    BY <2>1, <2>2, <2>3 DEF SharingInv, NodeTrue, InfoTrue, TodoTrue
  <2>6. AskedIsDone' /\ Spared'
    BY <2>1, <2>3 DEF SharingInv, AskedIsDone, Served, SettingsDone, Spared, NobodyElse, OnlyLatecomersSwept, LinkIsKept
  <2>7. WaitingTrue' /\ SettingsTrue'
    BY <2>1, <2>3 DEF SharingInv, WaitingTrue, SettingsTrue
  <2> QED
    BY <2>4, <2>5, <2>6, <2>7 DEF SharingInv
<1>3. CASE \E c \in Requested : BeginCall(c)
  BY <1>3, BeginCallKeeps
<1>4. CASE CallStep
  <2>1. CASE GetSharedNode \/ ReadPublicLink \/ SharingInfoRead \/ CreateShare \/ SetEditorsCanShare
             \/ (\E k \in Kinds : ReadAccess(k))
    BY <2>1, GetKeeps, ReadsKeep, InfoReadKeeps, CreateShareKeeps, SetEditorsKeeps
  <2>2. ASSUME NEW u \in People, ShareWithProtonUser(u) \/ ShareWithNonProtonUser(u) \/ UnshareWithUser(u)
                                   \/ ConvertInvitation(u) \/ ResendInvitationEmail(u)
        PROVE  SharingInv'
    BY <2>2, ShareWithKeeps, UnshareWithKeeps, ConvertKeeps, ResendKeeps
  <2>3. CASE SharePublicLink \/ RemoveSharedLink \/ NothingLeft \/ DeleteShareWithForce
    BY <2>3, LinkKeeps, NothingLeftKeeps, DeleteShareKeeps
  <2> QED
    BY <1>4, <2>1, <2>2, <2>3 DEF CallStep
<1>5. CASE OthersStep
  BY <1>5, OthersKeep
<1> QED
  BY <1>1, <1>2, <1>3, <1>4, <1>5 DEF SharingNext

\* The share to begin with: none, an empty one, one with somebody in it, or one with a link.
LEMMA SharingStart == SharingInit => SharingInv
<1> SUFFICES ASSUME SharingInit PROVE SharingInv
  OBVIOUS
<1>1. ids = 2 /\ faults = 0 /\ ownVolume \in BOOLEAN /\ event = FALSE /\ call = NoCall /\ before = share /\ touched = {}
      /\ swept = {}
  BY Zenon DEF SharingInit
<1>2. NoCall \in CallOfSharing /\ NoCall.left = {} /\ NoCall.phase = "none" /\ NoCall.todo = {}
  <2>1. (CHOOSE cc \in Requested : TRUE) \in Requested
    BY NodeSharingConstants
  <2> QED
    BY <2>1, SharingConstants DEF NoCall, CallOfSharing, SharingPhases
<1>3. ShareSound(share, 2)
  <2> DEFINE one == [NoShare EXCEPT !.id = 1]
  <2>2. ShareSound(one, 2) /\ one.id # 0
    <3>1. one \in ShareRecord /\ one.id = 1 /\ one.link = "no" /\ one.access = NoShare.access
      BY SharingConstants DEF ShareRecord
    <3> HIDE DEF one
    <3> QED
      BY <3>1, SharingConstants DEF ShareSound
  <2>3. ASSUME NEW u \in People, NEW k \in Kinds
        PROVE  ShareSound([NoShare EXCEPT !.id = 1, !.access[u] = Entry(k, "viewer", 2)], 2)
    <3> DEFINE e == Entry(k, "viewer", 2)
    <3>1. [NoShare EXCEPT !.id = 1, !.access[u] = e] = With(one, u, e)
      BY SharingConstants DEF With, ShareRecord
    <3>2. e \in EntryRecord /\ e.id <= 2 /\ e.kind # "none"
      BY DEF Entry, EntryRecord, Kinds, Roles
    <3> HIDE DEF one, e
    <3>3. ShareSound(With(one, u, e), 2)
      BY <2>2, <3>2, WithIs
    <3> QED
      BY <3>1, <3>3 DEF e
  <2>4. ShareSound([NoShare EXCEPT !.id = 1, !.link = "viewer", !.linkId = 2], 2)
    <3>1. [NoShare EXCEPT !.id = 1, !.link = "viewer", !.linkId = 2] = Linked(one, "viewer", 2)
      BY SharingConstants DEF Linked, ShareRecord
    <3>2. ShareSound(Linked(one, "viewer", 2), 2)
      <4> HIDE DEF one
      <4> QED
        BY <2>2, LinkIs DEF Roles
    <3> QED
      BY <3>1, <3>2
  <2>5. ShareSound(NoShare, 2)
    BY SharingConstants
  <2>6. \/ share = NoShare \/ share = one
        \/ \E u \in People, k \in Kinds : share = [NoShare EXCEPT !.id = 1, !.access[u] = Entry(k, "viewer", 2)]
        \/ share = [NoShare EXCEPT !.id = 1, !.link = "viewer", !.linkId = 2]
    BY Zenon DEF SharingInit
  <2> HIDE DEF one
  <2> QED
    BY <2>2, <2>3, <2>4, <2>5, <2>6, Zenon
<1>4. node \in NodeRecord /\ (node.fresh => node.known = share.id)
  <2>1. share.id \in Nat
    BY <1>3 DEF ShareSound, ShareRecord
  <2> QED
    <3>1. \/ node = [known |-> share.id, fresh |-> TRUE] \/ node = [known |-> 0, fresh |-> FALSE]
      BY Zenon DEF SharingInit
    <3>2. CASE node = [known |-> share.id, fresh |-> TRUE]
      <4>1. node.known = share.id
        BY <3>2
      <4>2. node \in NodeRecord
        BY <2>1, <3>2, Zenon DEF NodeRecord
      <4> QED
        BY <4>1, <4>2
    <3>3. CASE node = [known |-> 0, fresh |-> FALSE]
      <4>1. node.fresh = FALSE
        BY <3>3
      <4>2. node \in NodeRecord
        <5>1. 0 \in Nat /\ FALSE \in BOOLEAN
          OBVIOUS
        <5> QED
          BY <3>3, <5>1 DEF NodeRecord
      <4> QED
        BY <4>1, <4>2
    <3> QED
      BY <3>1, <3>2, <3>3
<1>5. SharingTypes
  BY <1>1, <1>2, <1>3, <1>4 DEF SharingTypes, ShareSound
<1>6. PhaseTrue /\ NodeTrue
  BY <1>1, <1>2, <1>4 DEF PhaseTrue, NodeTrue
<1>7. InfoTrue /\ TodoTrue /\ AskedIsDone
  BY <1>1, <1>2 DEF InfoTrue, TodoTrue, AskedIsDone
<1>8. Spared
  BY <1>1 DEF Spared, NobodyElse, OnlyLatecomersSwept, LinkIsKept
<1>9. WaitingTrue /\ SettingsTrue
  BY <1>1, <1>2 DEF WaitingTrue, SettingsTrue
<1> QED
  BY <1>5, <1>6, <1>7, <1>8, <1>9 DEF SharingInv

LEMMA SharingMean == SharingInv => SharingTypeOK /\ AskedIsDone /\ Spared /\ NodeKnowsShare
<1> SUFFICES ASSUME SharingInv PROVE SharingTypeOK /\ NodeKnowsShare
  BY DEF SharingInv
<1>1. SharingTypes /\ ids \in Nat /\ ShareSound(share, ids)
  BY DEF SharingInv, SharingTypes
<1>2. SharingTypeOK
  <2>1. share.id \in Nat /\ share.id <= ids /\ share.link \in Roles \cup {"no"}
        /\ \A u \in People : share.access[u].kind \in Kinds \cup {"none"} /\ share.access[u].id <= ids
    BY <1>1 DEF ShareSound, ShareRecord, EntryRecord
  <2>2. call.todo \subseteq People /\ call.left \subseteq Kinds \cup {"link"}
    BY <1>1, CallIs
  <2> QED
    BY <1>1, <2>1, <2>2 DEF SharingTypeOK
<1>3. NodeKnowsShare
  <2>1. faults \in Nat
    BY <1>1 DEF SharingTypes
  <2>2. faults = 0 => ~(faults > 0)
    OBVIOUS
  <2> QED
    BY <2>1, <2>2 DEF SharingInv, NodeTrue, NodeKnowsShare
<1> QED
  BY <1>2, <1>3

-----------------------------------------------------------------------------
(* The services together.                                                  *)

\* A step of the composition is a step of one part, or none, for each part.
LEMMA OnePartMoves ==
    ASSUME [ServicesNext]_allVars
    PROVE  /\ [EventsNext]_eventsVars /\ [LoadingStep]_loadingVars /\ [SharingNext]_sharingVars
           /\ [ListsNext]_listVars /\ [SharesNext]_sharesVars
<1>1. CASE UNCHANGED allVars
  BY <1>1 DEF allVars
<1>2. CASE ServicesNext
  BY <1>2 DEF ServicesNext, NotEvents, NotLoading, NotSharing, NotLists, NotShares
<1> QED
  BY <1>1, <1>2

\* The event service (EventManager.processEvents, notifyListeners) with any number of
\* subscriptions, events, failures and disposals: nothing up to latestEventId is lost,
\* every listener that was not skipped has been told, the SDK's cache first.
THEOREM EventsReachAll == ServicesSpec => [](EventsTypeOK /\ EventsAreTold)
<1>1. ServicesInit => EventsInv
  BY EventsStart DEF ServicesInit
<1>2. EventsInv /\ [ServicesNext]_allVars => EventsInv'
  BY EventsKeep, OnePartMoves
<1>3. EventsInv => EventsTypeOK /\ EventsAreTold
  BY EventsMean
<1> QED
  BY <1>1, <1>2, <1>3, PTL DEF ServicesSpec

\* NodesAccess: however the decryption of a batch, the loading of a single node and the
\* debouncer interleave, whatever fails, and in whatever order the API answers, no node
\* that exists is reported as missing, and the caches hold existing nodes only.
THEOREM LoadingReportsTruly == ServicesSpec => [](LoadingTypeOK /\ OnlyMissingIsRemoved)
<1>1. ServicesInit => LoadInv
  BY LoadStart DEF ServicesInit
<1>2. LoadInv /\ [ServicesNext]_allVars => LoadInv'
  BY LoadKeep, OnePartMoves
<1>3. LoadInv => LoadingTypeOK /\ OnlyMissingIsRemoved
  BY DEF LoadInv, LoadTypes, ToldExists, LoadingTypeOK, LoadSteps
<1> QED
  BY <1>1, <1>2, <1>3, PTL DEF ServicesSpec

\* SharingManagement (shareNode, unshareNode, convertNonProtonInvitation,
\* resendInvitationEmail): a call that returns has done what it was asked for the users
\* and the settings that others did not change meanwhile, and nobody else's access and no
\* link is changed, whatever others do between its requests and whichever answers are
\* lost, but for those whom the forced deletion of unshareNode takes (deleteShareWithForce):
\* people who were let in, or accepted, since the call began.
THEOREM SharingIsTrue == ServicesSpec => []SharingDoesAsAsked
<1>1. ServicesInit => SharingInv
  BY SharingStart DEF ServicesInit
<1>2. SharingInv /\ [ServicesNext]_allVars => SharingInv'
  BY SharingKeep, OnePartMoves
<1>3. SharingInv => SharingDoesAsAsked
  BY SharingMean DEF SharingDoesAsAsked, Spared
<1> QED
  BY <1>1, <1>2, <1>3, PTL DEF ServicesSpec

\* What the services of the SDK keep agrees with the server: the share a node is known to
\* have (notifyNodeChanged), the cached lists of shared nodes, in memory and stored, once
\* nothing is on its way and none of the races CachedListIsServers names was met
\* (SharingAccess, cache.ts), and which nodes are gone (NodesAccess); with the types of
\* all of them, the state of SharesManager included.
THEOREM ClientAndServerAgree == ServicesSpec => []ClientAgreesWithServer
<1> DEFINE AllInv == EventsInv /\ LoadInv /\ SharingInv /\ ListsInv /\ SharesInv
<1>1. ServicesInit => AllInv
  BY EventsStart, LoadStart, SharingStart, ListsStart, SharesStart DEF ServicesInit
<1>2. AllInv /\ [ServicesNext]_allVars => AllInv'
  BY EventsKeep, LoadKeep, SharingKeep, ListsKeep, SharesKeep, OnePartMoves
<1>3. AllInv => ClientAgreesWithServer
  <2> SUFFICES ASSUME AllInv PROVE ClientAgreesWithServer
    OBVIOUS
  <2>1. EventsTypeOK
    BY EventsMean
  <2>2. LoadingTypeOK /\ OnlyMissingIsRemoved
    BY DEF LoadInv, LoadTypes, ToldExists, LoadingTypeOK, LoadSteps
  <2>3. SharingTypeOK /\ NodeKnowsShare
    BY SharingMean
  <2>4. ListsTypeOK /\ CachedListIsServers
    BY ListsMean
  <2>5. SharesTypeOK
    BY DEF SharesInv, SharesTypeOK, CallerOf, CallerPhases, VolumeIds
  <2> QED
    BY <2>1, <2>2, <2>3, <2>4, <2>5 DEF ClientAgreesWithServer, ServicesTypeOK
<1> HIDE DEF AllInv
<1> QED
  BY <1>1, <1>2, <1>3, PTL DEF ServicesSpec
=============================================================================
