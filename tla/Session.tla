------------------------------- MODULE Session -------------------------------
(***************************************************************************)
(* The session layer of pdtui: SessionManager (session.rs) and the         *)
(* SessionAwareHttpClient that uses it (http.rs).                          *)
(*                                                                         *)
(* A manager keeps the token pair of one server session (its uid) in       *)
(* memory behind a tokio RwLock.  Two kinds of task rotate the pair: the   *)
(* manager's own proactive loop, and every request that was answered 401.  *)
(* A rotation is persisted to three stores that all managers of all pdtui  *)
(* processes of this user share: the OS keyring (one entry per uid), the   *)
(* 0600 secret file and session.json (one of each).                        *)
(*                                                                         *)
(* Token pairs of a uid are numbered by the rotation that issued them.     *)
(* The server accepts the newest refresh token only (rotation is single    *)
(* use).  Its answers to ordinary requests are arbitrary: an access token  *)
(* can be refused at any time.                                             *)
(***************************************************************************)
EXTENDS Naturals, FiniteSets

CONSTANTS
    Managers,     \* SessionManager slots; a slot is reused after its process ends
    Requests,     \* requests through SessionAwareHttpClient (JSON or blob)
    Owner,        \* the manager whose client a request goes through
    Uids,         \* server sessions a login can open
    None,
    MaxToken,     \* bound: rotations of one server session
    MaxAttempts   \* ReqwestHttpClient::max_attempts

ASSUME SessionConstants ==
    /\ Managers \cap Requests = {}
    /\ Owner \in [Requests -> Managers]
    /\ None \notin Uids \cup Managers \cup Requests
    /\ MaxToken \in Nat \ {0}
    /\ MaxAttempts \in Nat \ {0}

VARIABLES
    server,       \* per uid, the refresh token the server accepts (0: none)
    keyring,      \* per uid, the token of the keyring entry (0: no entry)
    secretFile,   \* the 0600 fallback: whose token it holds and which
    sessionFile,  \* session.json: whose access token it holds and which
    status,       \* what the program does with a manager
    mem,          \* SessionState behind the manager's RwLock
    lock,         \* holder of the manager's write lock
    pc,           \* where the proactive loop (a manager) or a request stands
    fresh,        \* the token a refresh got from the server
    tries,        \* attempts of the refresh POST made so far
    sent,         \* access token of the last send of a request
    denied,       \* access token of a request that was answered 401
    cause         \* history: per uid, what has happened to its session

vars == <<server, keyring, secretFile, sessionFile, status, mem, lock, pc,
          fresh, tries, sent, denied, cause>>

stores == <<keyring, secretFile, sessionFile>>

-----------------------------------------------------------------------------

Actors == Managers \cup Requests
MaybeUid == Uids \cup {None}
Token == 0..MaxToken
File == [uid: MaybeUid, token: Token]

\* An absent, empty or unparsable file: reading any of them is an error.
NoFile == [uid |-> None, token |-> 0]

Status == {"none", "login", "loading", "live", "dropped",
           "outKeyring", "outSecret", "outFile"}

\* The phases of do_refresh after its POST was answered, in code order.
Persisting == {"keyring", "secret", "session"}
Refreshing == {"post"} \cup Persisting

LoopPC == {"off", "sleep", "want", "backoff", "exited"} \cup Refreshing
RequestPC == {"off", "sent", "want", "resnap", "resent"} \cup Refreshing

\* "fault" stands for what can cost a session its token: an answer of the
\* refresh endpoint that is lost, a write that fails, a crash while a rotation
\* is persisted, two managers on one session, a revocation.
Causes == {"fault", "expired", "loggedOut"}

ManagerOf(a) == IF a \in Managers THEN a ELSE Owner[a]
UidOf(a) == mem[ManagerOf(a)].uid

\* Requests of a manager that are under way.
ActiveRequests(m) == {r \in Requests : Owner[r] = m /\ pc[r] # "off"}

\* What from_keyring loads for uid u: the keyring entry if there is one, the
\* secret file if it is this uid's, otherwise nothing (0).
LoadedRefresh(u) ==
    IF keyring[u] # 0 THEN keyring[u]
    ELSE IF secretFile.uid = u THEN secretFile.token ELSE 0

Blame(u, c) == cause' = [cause EXCEPT ![u] = @ \cup {c}]

Init ==
    /\ server = [u \in Uids |-> 0]
    /\ keyring = [u \in Uids |-> 0]
    /\ secretFile = NoFile
    /\ sessionFile = NoFile
    /\ status = [m \in Managers |-> "none"]
    /\ mem = [m \in Managers |-> [uid |-> None, access |-> 0, refresh |-> 0]]
    /\ lock = [m \in Managers |-> None]
    /\ pc = [a \in Actors |-> "off"]
    /\ fresh = [a \in Actors |-> 0]
    /\ tries = [a \in Actors |-> 0]
    /\ sent = [r \in Requests |-> 0]
    /\ denied = [r \in Requests |-> 0]
    /\ cause = [u \in Uids |-> {}]

-----------------------------------------------------------------------------
(* Starting a manager.                                                     *)

\* A login obtains the first token pair of a new server session; from_login
\* then persists it through the same three writes as a refresh.
FromLogin(m, u) ==
    /\ status[m] = "none"
    /\ server[u] = 0 /\ cause[u] = {}
    /\ server' = [server EXCEPT ![u] = 1]
    /\ status' = [status EXCEPT ![m] = "login"]
    /\ mem' = [mem EXCEPT ![m] = [uid |-> u, access |-> 0, refresh |-> 0]]
    /\ lock' = [lock EXCEPT ![m] = m]
    /\ pc' = [pc EXCEPT ![m] = "keyring"]
    /\ fresh' = [fresh EXCEPT ![m] = 1]
    /\ UNCHANGED <<stores, tries, sent, denied, cause>>

\* from_keyring, first read: uid and access token from session.json.
LoadSessionFile(m) ==
    /\ status[m] = "none"
    /\ sessionFile # NoFile
    /\ status' = [status EXCEPT ![m] = "loading"]
    /\ mem' = [mem EXCEPT ![m] = [uid |-> sessionFile.uid,
                                  access |-> sessionFile.token,
                                  refresh |-> 0]]
    /\ UNCHANGED <<server, stores, lock, pc, fresh, tries, sent, denied, cause>>

\* Another manager, in this process or another, that works on the same uid.
Shared(m) ==
    \E n \in Managers \ {m} : status[n] # "none" /\ mem[n].uid = mem[m].uid

\* from_keyring, second read: the refresh token, keyring first; build spawns
\* the proactive loop.
LoadRefreshToken(m) ==
    /\ status[m] = "loading"
    /\ LoadedRefresh(mem[m].uid) # 0
    /\ mem' = [mem EXCEPT ![m].refresh = LoadedRefresh(mem[m].uid)]
    /\ status' = [status EXCEPT ![m] = "live"]
    /\ pc' = [pc EXCEPT ![m] = "sleep"]
    /\ IF Shared(m) THEN Blame(mem[m].uid, "fault") ELSE UNCHANGED cause
    /\ UNCHANGED <<server, stores, lock, fresh, tries, sent, denied>>

\* from_keyring fails: no usable token in either store, or the keyring itself
\* answers with an error other than NoEntry.
LoadFails(m) ==
    /\ status[m] = "loading"
    /\ status' = [status EXCEPT ![m] = "none"]
    /\ mem' = [mem EXCEPT ![m] = [uid |-> None, access |-> 0, refresh |-> 0]]
    /\ UNCHANGED <<server, stores, lock, pc, fresh, tries, sent, denied, cause>>

-----------------------------------------------------------------------------
(* The refresh, run by an actor that holds its manager's write lock.       *)

\* The proactive loop's timer fires (expires_at - 60 s, or 30 s after a
\* transient error).
LoopWakes(m) ==
    /\ pc[m] \in {"sleep", "backoff"}
    /\ pc' = [pc EXCEPT ![m] = "want"]
    /\ UNCHANGED <<server, stores, status, mem, lock, fresh, tries, sent,
                   denied, cause>>

\* Mutant: the refresh runs under a shared lock.
AcquireSharedLock(a) ==
    /\ pc[a] = "want"
    /\ lock' = [lock EXCEPT ![ManagerOf(a)] = a]
    /\ pc' = [pc EXCEPT ![a] = "post"]
    /\ tries' = [tries EXCEPT ![a] = 1]
    /\ UNCHANGED <<server, stores, status, mem, fresh, sent, denied, cause>>

\* inner.write().await returns; the POST goes out with state.refresh_token.
AcquireWriteLock(a) ==
    /\ pc[a] = "want"
    /\ lock[ManagerOf(a)] = None
    /\ lock' = [lock EXCEPT ![ManagerOf(a)] = a]
    /\ pc' = [pc EXCEPT ![a] = "post"]
    /\ tries' = [tries EXCEPT ![a] = 1]
    /\ UNCHANGED <<server, stores, status, mem, fresh, sent, denied, cause>>

TokenAccepted(a) ==
    /\ server[UidOf(a)] # 0
    /\ server[UidOf(a)] = mem[ManagerOf(a)].refresh

\* The server accepts the token and rotates it; the answer arrives.
RefreshAccepted(a) ==
    LET u == UidOf(a) IN
    /\ pc[a] = "post"
    /\ TokenAccepted(a)
    /\ server[u] < MaxToken
    /\ server' = [server EXCEPT ![u] = @ + 1]
    /\ fresh' = [fresh EXCEPT ![a] = server[u] + 1]
    /\ pc' = [pc EXCEPT ![a] = "keyring"]
    /\ UNCHANGED <<stores, status, mem, lock, tries, sent, denied, cause>>

\* Where an actor goes when its refresh fails: the loop ends for good on
\* SessionExpired and backs off on any other error, a request returns Err.
AfterFailure(a, expired) ==
    IF a \in Requests THEN "off" ELSE IF expired THEN "exited" ELSE "backoff"

\* The guard is dropped, and with it the locals of do_refresh.
Release(a) ==
    /\ lock' = [lock EXCEPT ![ManagerOf(a)] = None]
    /\ fresh' = [fresh EXCEPT ![a] = 0]
    /\ tries' = [tries EXCEPT ![a] = 0]

\* A request that returns leaves nothing behind.
Forget(r) ==
    /\ sent' = [q \in Requests |-> IF q = r THEN 0 ELSE sent[q]]
    /\ denied' = [q \in Requests |-> IF q = r THEN 0 ELSE denied[q]]

\* 401 or 422: best-effort delete of the keyring entry, SessionExpired.
RefreshRejected(a) ==
    LET u == UidOf(a) IN
    /\ pc[a] = "post"
    /\ ~TokenAccepted(a)
    /\ keyring' \in {keyring, [keyring EXCEPT ![u] = 0]}
    /\ pc' = [pc EXCEPT ![a] = AfterFailure(a, TRUE)]
    /\ Release(a)
    /\ Forget(a)
    /\ Blame(u, "expired")
    /\ UNCHANGED <<server, secretFile, sessionFile, status, mem>>

\* Mutant: one attempt too many.
TransportFaultOffByOne(a, retriable) ==
    IF retriable /\ tries[a] <= MaxAttempts
    THEN /\ tries' = [tries EXCEPT ![a] = @ + 1]
         /\ UNCHANGED <<pc, lock, fresh, sent, denied>>
    ELSE /\ pc' = [pc EXCEPT ![a] = AfterFailure(a, FALSE)]
         /\ Release(a)
         /\ Forget(a)

\* Mutant: the error path keeps the write lock.
TransportFaultKeepsLock(a, retriable) ==
    IF retriable /\ tries[a] < MaxAttempts
    THEN /\ tries' = [tries EXCEPT ![a] = @ + 1]
         /\ UNCHANGED <<pc, lock, fresh, sent, denied>>
    ELSE /\ pc' = [pc EXCEPT ![a] = AfterFailure(a, FALSE)]
         /\ Forget(a)
         /\ UNCHANGED <<lock, fresh, tries>>

\* send_with_retry: a timeout, a connect error or a 5xx answer is retried with
\* the same body until max_attempts; a 429 or any other error ends the call.
TransportFault(a, retriable) ==
    IF retriable /\ tries[a] < MaxAttempts
    THEN /\ tries' = [tries EXCEPT ![a] = @ + 1]
         /\ UNCHANGED <<pc, lock, fresh, sent, denied>>
    ELSE /\ pc' = [pc EXCEPT ![a] = AfterFailure(a, FALSE)]
         /\ Release(a)
         /\ Forget(a)

\* The attempt fails before the server acts on it.
RequestLost(a, retriable) ==
    /\ pc[a] = "post"
    /\ TransportFault(a, retriable)
    /\ UNCHANGED <<server, stores, status, mem, cause>>

\* The server rotates the token and the client never sees the answer.
ReplyLost(a, retriable) ==
    LET u == UidOf(a) IN
    /\ pc[a] = "post"
    /\ TokenAccepted(a)
    /\ server[u] < MaxToken
    /\ server' = [server EXCEPT ![u] = @ + 1]
    /\ Blame(u, "fault")
    /\ TransportFault(a, retriable)
    /\ UNCHANGED <<stores, status, mem>>

\* save_keyring is best-effort: its failure is only logged.
SaveKeyring(a) ==
    LET u == UidOf(a) IN
    /\ pc[a] = "keyring"
    /\ \/ /\ keyring' = [keyring EXCEPT ![u] = fresh[a]]
          /\ UNCHANGED cause
       \/ /\ Blame(u, "fault")
          /\ UNCHANGED keyring
    /\ pc' = [pc EXCEPT ![a] = "secret"]
    /\ UNCHANGED <<server, secretFile, sessionFile, status, mem, lock, fresh,
                   tries, sent, denied>>

\* A failed file write (`?`) ends do_refresh or from_login with an error.
PersistFails(a) ==
    /\ IF status[ManagerOf(a)] = "login"
       THEN /\ status' = [status EXCEPT ![a] = "none"]
            /\ mem' = [mem EXCEPT ![a] = [uid |-> None, access |-> 0,
                                          refresh |-> 0]]
            /\ pc' = [pc EXCEPT ![a] = "off"]
       ELSE /\ pc' = [pc EXCEPT ![a] = AfterFailure(a, FALSE)]
            /\ UNCHANGED <<status, mem>>
    /\ Release(a)
    /\ Forget(a)
    /\ Blame(UidOf(a), "fault")
    /\ UNCHANGED <<server, keyring>>

\* Mutant: a refresh leaves the secret file as the login wrote it.
SaveSecretFileOnLoginOnly(a) ==
    /\ pc[a] = "secret"
    /\ secretFile' = IF status[ManagerOf(a)] = "login"
                     THEN [uid |-> UidOf(a), token |-> fresh[a]]
                     ELSE secretFile
    /\ pc' = [pc EXCEPT ![a] = "session"]
    /\ UNCHANGED <<server, keyring, sessionFile, status, mem, lock, fresh,
                   tries, sent, denied, cause>>

\* save_secret_file.  fs::write truncates first and set_permissions follows,
\* so a failure can leave the old file, none that parses, or the new one.
SaveSecretFile(a) ==
    LET written == [uid |-> UidOf(a), token |-> fresh[a]] IN
    /\ pc[a] = "secret"
    /\ \/ /\ secretFile' = written
          /\ pc' = [pc EXCEPT ![a] = "session"]
          /\ UNCHANGED <<server, keyring, status, mem, lock, fresh, tries,
                         sent, denied, cause>>
       \/ /\ secretFile' \in {secretFile, NoFile, written}
          /\ PersistFails(a)
    /\ UNCHANGED sessionFile

\* write_session_file, then the in-memory pair is replaced and the lock freed;
\* nothing can run between the write and the assignments that could see them
\* apart.  The loop goes back to sleep, a login returns its manager (build
\* spawns the loop), a request goes on to its retry.
WriteSessionFile(a) ==
    LET m == ManagerOf(a)
        written == [uid |-> UidOf(a), token |-> fresh[a]] IN
    /\ pc[a] = "session"
    /\ \/ /\ sessionFile' = written
          /\ mem' = [mem EXCEPT ![m].access = fresh[a], ![m].refresh = fresh[a]]
          /\ status' = [status EXCEPT ![m] = IF @ = "login" THEN "live" ELSE @]
          /\ pc' = [pc EXCEPT ![a] = IF a \in Requests THEN "resnap" ELSE "sleep"]
          /\ Release(a)
          /\ UNCHANGED <<server, keyring, sent, denied, cause>>
       \/ /\ sessionFile' \in {sessionFile, NoFile, written}
          /\ PersistFails(a)
    /\ UNCHANGED secretFile

-----------------------------------------------------------------------------
(* A request through SessionAwareHttpClient.                               *)

\* auth_headers: snapshot under the read lock, then the first send.
SendRequest(r) ==
    /\ pc[r] = "off"
    /\ status[Owner[r]] = "live"
    /\ lock[Owner[r]] = None
    /\ sent' = [sent EXCEPT ![r] = mem[Owner[r]].access]
    /\ pc' = [pc EXCEPT ![r] = "sent"]
    /\ UNCHANGED <<server, stores, status, mem, lock, fresh, tries, denied, cause>>

\* A transport error, or any answer other than 401, is returned as it is.
RequestReturns(r) ==
    /\ pc[r] \in {"sent", "resent"}
    /\ pc' = [pc EXCEPT ![r] = "off"]
    /\ Forget(r)
    /\ UNCHANGED <<server, stores, status, mem, lock, fresh, tries, cause>>

\* 401 to the first send: force_refresh.
RequestDenied(r) ==
    /\ pc[r] = "sent"
    /\ denied' = [denied EXCEPT ![r] = sent[r]]
    /\ pc' = [pc EXCEPT ![r] = "want"]
    /\ UNCHANGED <<server, stores, status, mem, lock, fresh, tries, sent, cause>>

\* Mutant: the retry reuses the headers of the first send.
RetryWithOldHeaders(r) ==
    /\ pc[r] = "resnap"
    /\ lock[Owner[r]] = None
    /\ pc' = [pc EXCEPT ![r] = "resent"]
    /\ UNCHANGED <<server, stores, status, mem, lock, fresh, tries, sent,
                   denied, cause>>

\* The refresh succeeded: a new snapshot and the one retry.
RetryRequest(r) ==
    /\ pc[r] = "resnap"
    /\ lock[Owner[r]] = None
    /\ sent' = [sent EXCEPT ![r] = mem[Owner[r]].access]
    /\ pc' = [pc EXCEPT ![r] = "resent"]
    /\ UNCHANGED <<server, stores, status, mem, lock, fresh, tries, denied, cause>>

-----------------------------------------------------------------------------
(* The end of a manager.                                                   *)

\* The last Arc goes away (a second login replaced the client).  Dropping the
\* JoinHandle detaches the proactive loop; nothing stops it.
Drop(m) ==
    /\ status[m] = "live"
    /\ ActiveRequests(m) = {}
    /\ status' = [status EXCEPT ![m] = "dropped"]
    /\ UNCHANGED <<server, stores, mem, lock, pc, fresh, tries, sent, denied, cause>>

\* logout consumes the manager; it reads the uid under the read lock.
LogoutStarts(m) ==
    /\ status[m] = "live"
    /\ ActiveRequests(m) = {}
    /\ lock[m] = None
    /\ status' = [status EXCEPT ![m] = "outKeyring"]
    /\ UNCHANGED <<server, stores, mem, lock, pc, fresh, tries, sent, denied, cause>>

LogoutDeletesKeyring(m) ==
    /\ status[m] = "outKeyring"
    /\ keyring' = [keyring EXCEPT ![mem[m].uid] = 0]
    /\ status' = [status EXCEPT ![m] = "outSecret"]
    /\ UNCHANGED <<server, secretFile, sessionFile, mem, lock, pc, fresh,
                   tries, sent, denied, cause>>

LogoutDeletesSecretFile(m) ==
    /\ status[m] = "outSecret"
    /\ secretFile' = NoFile
    /\ status' = [status EXCEPT ![m] = "outFile"]
    /\ UNCHANGED <<server, keyring, sessionFile, mem, lock, pc, fresh, tries,
                   sent, denied, cause>>

LogoutTruncatesSessionFile(m) ==
    /\ status[m] = "outFile"
    /\ sessionFile' = NoFile
    /\ status' = [status EXCEPT ![m] = "dropped"]
    /\ Blame(mem[m].uid, "loggedOut")
    /\ UNCHANGED <<server, keyring, secretFile, mem, lock, pc, fresh, tries,
                   sent, denied>>

\* One of the three deletions fails: logout returns Err, the rest is kept.
LogoutFails(m) ==
    /\ status[m] \in {"outKeyring", "outSecret", "outFile"}
    /\ status' = [status EXCEPT ![m] = "dropped"]
    /\ UNCHANGED <<server, stores, mem, lock, pc, fresh, tries, sent, denied, cause>>

\* The process of a manager ends, by exit or by crash, at any point; an
\* in-memory keyring backend (headless host) forgets its entries with it.
ProcessEnds(m) ==
    LET mine == {a \in Actors : ManagerOf(a) = m}
        u == mem[m].uid IN
    /\ status[m] # "none"
    /\ status' = [status EXCEPT ![m] = "none"]
    /\ mem' = [mem EXCEPT ![m] = [uid |-> None, access |-> 0, refresh |-> 0]]
    /\ lock' = [lock EXCEPT ![m] = None]
    /\ pc' = [a \in Actors |-> IF a \in mine THEN "off" ELSE pc[a]]
    /\ fresh' = [a \in Actors |-> IF a \in mine THEN 0 ELSE fresh[a]]
    /\ tries' = [a \in Actors |-> IF a \in mine THEN 0 ELSE tries[a]]
    /\ sent' = [r \in Requests |-> IF r \in mine THEN 0 ELSE sent[r]]
    /\ denied' = [r \in Requests |-> IF r \in mine THEN 0 ELSE denied[r]]
    /\ keyring' \in {keyring, [v \in Uids |-> 0]}
    /\ IF \E a \in mine : pc[a] \in Persisting
       THEN Blame(u, "fault") ELSE UNCHANGED cause
    /\ UNCHANGED <<server, secretFile, sessionFile>>

\* The server ends a session (password change, refresh token too old).
Revoke(u) ==
    /\ server[u] # 0
    /\ server' = [server EXCEPT ![u] = 0]
    /\ Blame(u, "fault")
    /\ UNCHANGED <<stores, status, mem, lock, pc, fresh, tries, sent, denied>>

-----------------------------------------------------------------------------

Refresh(a) ==
    \/ AcquireWriteLock(a)
    \/ RefreshAccepted(a)
    \/ RefreshRejected(a)
    \/ \E retriable \in BOOLEAN : RequestLost(a, retriable) \/ ReplyLost(a, retriable)
    \/ SaveKeyring(a)
    \/ SaveSecretFile(a)
    \/ WriteSessionFile(a)

Request(r) ==
    \/ SendRequest(r)
    \/ RequestReturns(r)
    \/ RequestDenied(r)
    \/ RetryRequest(r)

Logout(m) ==
    \/ LogoutStarts(m)
    \/ LogoutDeletesKeyring(m)
    \/ LogoutDeletesSecretFile(m)
    \/ LogoutTruncatesSessionFile(m)
    \/ LogoutFails(m)

Manager(m) ==
    \/ \E u \in Uids : FromLogin(m, u)
    \/ LoadSessionFile(m)
    \/ LoadRefreshToken(m)
    \/ LoadFails(m)
    \/ LoopWakes(m)
    \/ Drop(m)
    \/ Logout(m)
    \/ ProcessEnds(m)

Next ==
    \/ \E m \in Managers : Manager(m)
    \/ \E a \in Actors : Refresh(a)
    \/ \E r \in Requests : Request(r)
    \/ \E u \in Uids : Revoke(u)

Spec == Init /\ [][Next]_vars

\* Tasks that are not dead keep running: timers fire, network calls and file
\* writes return.  tokio's RwLock queues its waiters first in, first out, so a
\* waiter gets the lock if it is free again and again.
Fairness ==
    /\ \A a \in Actors :
        /\ SF_vars(AcquireWriteLock(a))
        /\ WF_vars(Refresh(a))
    /\ \A m \in Managers : WF_vars(LoopWakes(m))
    /\ \A r \in Requests :
        /\ WF_vars(RequestReturns(r) \/ RequestDenied(r))
        /\ SF_vars(RetryRequest(r))

FairSpec == Spec /\ Fairness

-----------------------------------------------------------------------------
(* Properties.                                                             *)

TypeOK ==
    /\ server \in [Uids -> Token]
    /\ keyring \in [Uids -> Token]
    /\ secretFile \in File
    /\ sessionFile \in File
    /\ status \in [Managers -> Status]
    /\ mem \in [Managers -> [uid: MaybeUid, access: Token, refresh: Token]]
    /\ lock \in [Managers -> Actors \cup {None}]
    /\ pc \in [Actors -> LoopPC \cup RequestPC]
    /\ fresh \in [Actors -> Token]
    /\ tries \in [Actors -> 0..MaxAttempts]
    /\ sent \in [Requests -> Token]
    /\ denied \in [Requests -> Token]
    /\ cause \in [Uids -> SUBSET Causes]

\* A refresh POSTs a token the server still accepts, whoever runs it (the
\* proactive loop or any of the requests that saw a 401 at the same time),
\* unless one of the recorded causes struck: a lost answer, a failed write, a
\* crash while persisting, two managers on one session, a revocation.  The
\* write lock held across the POST is what makes it so.
PostsLiveToken ==
    \A a \in Actors :
        pc[a] = "post" /\ cause[UidOf(a)] = {} => TokenAccepted(a)

\* Whatever a restart would load for a session (keyring entry first, then the
\* secret file) is the token the server accepts, at every moment no rotation
\* is being persisted, unless a recorded cause struck.
ResumeLoadsLiveToken ==
    \A u \in Uids :
        \/ cause[u] # {}
        \/ \E a \in Actors : pc[a] \in Persisting /\ UidOf(a) = u
        \/ LoadedRefresh(u) \in {0, server[u]}

\* The one retry of a request never repeats the access token the server just
\* refused: it goes out with a strictly newer one.
RetryUsesNewerToken ==
    \A r \in Requests : pc[r] = "resent" => sent[r] > denied[r]

\* Every request returns: neither a refresh that fails nor the tasks that
\* compete for the write lock leave one waiting for ever.
RequestsReturn == \A r \in Requests : pc[r] = "sent" ~> pc[r] = "off"

\* The proactive loop survives transient errors: after a back-off it refreshes
\* again, as long as its process runs.
LoopRetries ==
    \A m \in Managers : pc[m] = "backoff" ~> pc[m] \in {"post", "off"}

-----------------------------------------------------------------------------
(* The inductive invariant behind the three.                               *)

Active(m) == status[m] \notin {"none", "loading"}

\* Who may be where: a refresh holds its manager's write lock, a task belongs
\* to a started manager, a request to a live one.
Structure ==
    /\ \A a \in Actors :
        /\ pc[a] \in Refreshing => lock[ManagerOf(a)] = a
        /\ pc[a] # "off" => Active(ManagerOf(a))
    /\ \A r \in Requests : pc[r] # "off" => status[Owner[r]] = "live"
    /\ \A m \in Managers : status[m] # "none" => mem[m].uid \in Uids
    /\ sessionFile.uid = None => sessionFile = NoFile

\* A session no login has opened yet has left no trace anywhere.
Untouched(u) == server[u] = 0 /\ cause[u] = {}

UntouchedLeavesNoTrace ==
    \A u \in Uids : Untouched(u) =>
        /\ keyring[u] = 0
        /\ secretFile.uid # u /\ sessionFile.uid # u
        /\ \A m \in Managers : mem[m].uid # u

\* A session nothing happened to has one manager at work, and outside the
\* persisting phases that manager's refresh token is the live one; while a
\* rotation is persisted, the live token is the one being written.
LiveTokenHeld ==
    \A m \in Managers : Active(m) /\ cause[mem[m].uid] = {} =>
        /\ \A n \in Managers : Active(n) /\ mem[n].uid = mem[m].uid => n = m
        /\ \/ mem[m].refresh = server[mem[m].uid]
           \/ \E a \in Actors : ManagerOf(a) = m /\ pc[a] \in Persisting
        /\ \A a \in Actors :
              ManagerOf(a) = m /\ pc[a] \in Persisting
                  => fresh[a] = server[mem[m].uid]

\* The stores of such a session hold the live token or nothing, except for
\* the writes a rotation under way still has to make.
StoresHoldLiveToken ==
    \A u \in Uids : cause[u] = {} =>
        /\ \/ keyring[u] \in {0, server[u]}
           \/ \E a \in Actors : pc[a] = "keyring" /\ UidOf(a) = u
        /\ \/ secretFile.uid # u
           \/ secretFile.token = server[u]
           \/ \E a \in Actors : pc[a] \in {"keyring", "secret"} /\ UidOf(a) = u

\* No token is newer than the server's, in session.json or in memory.
FileNotAhead ==
    sessionFile.uid # None /\ server[sessionFile.uid] # 0
        => sessionFile.token <= server[sessionFile.uid]

MemoryNotAhead ==
    \A m \in Managers : status[m] # "none" /\ server[mem[m].uid] # 0
        => mem[m].access <= server[mem[m].uid]

\* A token about to be installed is newer than the one in memory.
RotationAhead ==
    \A a \in Actors : pc[a] \in Persisting =>
        /\ mem[ManagerOf(a)].access < fresh[a]
        /\ server[UidOf(a)] # 0 => fresh[a] <= server[UidOf(a)]

\* Requests use tokens at most as new as the one in memory, and after a
\* refresh the refused token is behind it.
RequestsBehind ==
    \A r \in Requests :
        /\ sent[r] <= mem[Owner[r]].access /\ denied[r] <= mem[Owner[r]].access
        /\ pc[r] = "off" => sent[r] = 0 /\ denied[r] = 0
        /\ pc[r] = "resnap" => denied[r] < mem[Owner[r]].access
        /\ pc[r] = "resent" => denied[r] < sent[r]

TokensAdvance ==
    FileNotAhead /\ MemoryNotAhead /\ RotationAhead /\ RequestsBehind

SessionInv ==
    /\ Structure
    /\ UntouchedLeavesNoTrace
    /\ LiveTokenHeld
    /\ StoresHoldLiveToken
    /\ TokensAdvance

\* Liveness of both users of a refresh: requests return, also when their refresh
\* waits for another's or loses its answer, and the proactive loop tries again.
SessionProgress == RequestsReturn /\ LoopRetries
=============================================================================
