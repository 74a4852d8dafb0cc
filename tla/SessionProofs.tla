---------------------------- MODULE SessionProofs ----------------------------
(***************************************************************************)
(* Proofs about Session: types, the lock discipline, and from them that a  *)
(* refresh POSTs a live token and a restart loads one unless something     *)
(* recorded went wrong, and that a retry carries a newer token.            *)
(***************************************************************************)
EXTENDS Session, TLAPS

\* An actor that is somewhere belongs to a started manager with a uid.
LEMMA ActorFacts ==
    ASSUME TypeOK, Structure, NEW a \in Actors
    PROVE  /\ ManagerOf(a) \in Managers
           /\ a \in Requests <=> a \notin Managers
           /\ pc[a] # "off" =>
                /\ UidOf(a) \in Uids
                /\ Active(ManagerOf(a))
                /\ status[ManagerOf(a)] # "none"
<1>1. ManagerOf(a) \in Managers
  BY SessionConstants DEF Actors, ManagerOf
<1> QED
  BY <1>1, SessionConstants DEF Actors, Structure, UidOf, Active

\* Recording a cause keeps the history well typed.
LEMMA BlameType ==
    ASSUME TypeOK, NEW u \in Uids, NEW c \in Causes, Blame(u, c)
    PROVE  cause' \in [Uids -> SUBSET Causes]
BY DEF TypeOK, Blame

\* The memory of a slot no manager occupies is well typed.
LEMMA NoMemory ==
    [uid |-> None, access |-> 0, refresh |-> 0]
        \in [uid: MaybeUid, access: Token, refresh: Token]
BY SessionConstants DEF MaybeUid, Token

\* Starting a manager, by login or from the stores.
LEMMA StartStep ==
    ASSUME TypeOK, Structure, NEW m \in Managers,
           \/ \E u \in Uids : FromLogin(m, u)
           \/ LoadSessionFile(m)
           \/ LoadRefreshToken(m)
           \/ LoadFails(m)
    PROVE  TypeOK' /\ Structure'
<1> USE SessionConstants
    DEF TypeOK, Structure, Actors, Token, MaybeUid, File, NoFile, Status,
        Refreshing, Persisting, LoopPC, RequestPC, Active, ManagerOf, stores
<1>1. ASSUME NEW u \in Uids, FromLogin(m, u) PROVE TypeOK' /\ Structure'
  BY <1>1 DEF FromLogin
<1>2. CASE LoadSessionFile(m)
  BY <1>2 DEF LoadSessionFile
<1>3. CASE LoadRefreshToken(m)
  <2>1. mem[m].uid \in Uids
    BY <1>3 DEF LoadRefreshToken
  <2>2. LoadedRefresh(mem[m].uid) \in Token
    BY <2>1 DEF LoadedRefresh
  <2>3. cause' \in [Uids -> SUBSET Causes]
    BY <1>3, <2>1, BlameType DEF LoadRefreshToken, Causes
  <2> QED
    BY <1>3, <2>1, <2>2, <2>3 DEF LoadRefreshToken
<1>4. CASE LoadFails(m)
  BY <1>4 DEF LoadFails
<1> QED
  BY <1>1, <1>2, <1>3, <1>4

\* Dropping the guard at the end of a refresh.
LEMMA ReleaseFacts ==
    ASSUME TypeOK, NEW a \in Actors, Release(a)
    PROVE  /\ lock' \in [Managers -> Actors \cup {None}]
           /\ fresh' \in [Actors -> Token]
           /\ tries' \in [Actors -> 0..MaxAttempts]
<1>1. lock' \in [Managers -> Actors \cup {None}]
  BY DEF TypeOK, Release
<1>2. fresh' \in [Actors -> Token]
  BY SessionConstants DEF TypeOK, Release, Token
<1>3. tries' \in [Actors -> 0..MaxAttempts]
  BY SessionConstants DEF TypeOK, Release
<1> QED
  BY <1>1, <1>2, <1>3

\* A request that returns leaves its token snapshots well typed.
LEMMA ForgetFacts ==
    ASSUME TypeOK, NEW a, Forget(a)
    PROVE  sent' \in [Requests -> Token] /\ denied' \in [Requests -> Token]
BY SessionConstants DEF TypeOK, Forget, Token

\* A refresh that ends: the actor leaves the refreshing phases, no other actor
\* of its manager was in one, so the lock can be freed.
LEMMA EndOfRefresh ==
    ASSUME TypeOK, Structure, NEW a \in Actors, pc[a] \in Refreshing,
           NEW p \in {"off", "exited", "backoff", "sleep", "resnap"},
           pc' = [pc EXCEPT ![a] = p],
           Release(a), UNCHANGED status,
           sessionFile'.uid = None => sessionFile' = NoFile,
           \A m \in Managers : mem'[m].uid = mem[m].uid
    PROVE  /\ pc' \in [Actors -> LoopPC \cup RequestPC]
           /\ Structure'
<1> USE SessionConstants
<1>1. pc' \in [Actors -> LoopPC \cup RequestPC]
  BY DEF TypeOK, LoopPC, RequestPC
<1>2. \A b \in Actors : pc'[b] \in Refreshing => lock'[ManagerOf(b)] = b
  BY ActorFacts DEF TypeOK, Structure, Release, Refreshing, Persisting
<1>3. \A b \in Actors : pc'[b] # "off" => Active(ManagerOf(b))'
  BY DEF TypeOK, Structure, Active, Refreshing, Persisting
<1>4. \A r \in Requests : pc'[r] # "off" => status'[Owner[r]] = "live"
  BY DEF TypeOK, Structure, Actors, Refreshing, Persisting
<1>5. /\ \A m \in Managers : status'[m] # "none" => mem'[m].uid \in Uids
      /\ sessionFile'.uid = None => sessionFile' = NoFile
  BY DEF Structure, NoFile
<1> QED
  BY <1>1, <1>2, <1>3, <1>4, <1>5 DEF Structure, ManagerOf

\* A file write that fails, in a refresh or in a login.
LEMMA PersistFailsStep ==
    ASSUME TypeOK, Structure, NEW a \in Actors, pc[a] \in {"secret", "session"},
           PersistFails(a), sessionFile'.uid = None => sessionFile' = NoFile,
           secretFile' \in File, sessionFile' \in File
    PROVE  TypeOK' /\ Structure'
<1> USE SessionConstants
<1> DEFINE m == ManagerOf(a)
<1>1. /\ UidOf(a) \in Uids
      /\ cause' \in [Uids -> SUBSET Causes]
      /\ m \in Managers
  BY ActorFacts, BlameType DEF PersistFails, Causes
<1>2. CASE status[m] = "login"
  <2>1. a \in Managers /\ m = a
    BY <1>2 DEF Structure, Actors, ManagerOf
  <2>2. /\ status' = [status EXCEPT ![a] = "none"]
        /\ mem' = [mem EXCEPT ![a] = [uid |-> None, access |-> 0, refresh |-> 0]]
        /\ pc' = [pc EXCEPT ![a] = "off"]
    BY <1>2 DEF PersistFails
  <2>3. status' \in [Managers -> Status] /\ pc' \in [Actors -> LoopPC \cup RequestPC]
    BY <2>2 DEF TypeOK, Status, LoopPC
  <2>4. mem' \in [Managers -> [uid: MaybeUid, access: Token, refresh: Token]]
    BY <2>2, NoMemory DEF TypeOK
  <2>5. \A b \in Actors :
          /\ pc'[b] \in Refreshing => lock'[ManagerOf(b)] = b
          /\ pc'[b] # "off" => Active(ManagerOf(b))'
    <3> SUFFICES ASSUME NEW b \in Actors, pc'[b] # "off"
                 PROVE  /\ pc'[b] \in Refreshing => lock'[ManagerOf(b)] = b
                        /\ Active(ManagerOf(b))'
      BY DEF Refreshing, Persisting
    <3>1. b # a /\ pc[b] = pc'[b]
      BY <2>2 DEF TypeOK
    <3>2. ManagerOf(b) # a /\ ManagerOf(b) \in Managers
      BY <1>2, <2>1, <3>1, ActorFacts DEF Structure, ManagerOf, Actors
    <3> QED
      BY <2>1, <2>2, <3>1, <3>2 DEF TypeOK, Structure, Active, PersistFails, Release
  <2>6. \A r \in Requests : pc'[r] # "off" => status'[Owner[r]] = "live"
    BY <1>2, <2>1, <2>2 DEF TypeOK, Structure, Actors
  <2>7. \A n \in Managers : status'[n] # "none" => mem'[n].uid \in Uids
    BY <2>2 DEF TypeOK, Structure
  <2>8. Structure'
    BY <2>5, <2>6, <2>7 DEF Structure, ManagerOf, NoFile
  <2> QED
    BY <1>1, <2>3, <2>4, <2>8, ReleaseFacts, ForgetFacts DEF PersistFails, TypeOK
<1>3. CASE status[m] # "login"
  <2>1. AfterFailure(a, FALSE) \in {"off", "backoff"}
    BY DEF AfterFailure
  <2>2. Structure' /\ pc' \in [Actors -> LoopPC \cup RequestPC]
    BY <1>3, <2>1, EndOfRefresh DEF PersistFails, Refreshing, Persisting
  <2> QED
    BY <1>1, <1>3, <2>2, ReleaseFacts, ForgetFacts DEF PersistFails, TypeOK
<1> QED
  BY <1>2, <1>3

\* The steps of do_refresh keep the types and the lock discipline.
LEMMA RefreshStep ==
    ASSUME TypeOK, Structure, NEW a \in Actors, Refresh(a)
    PROVE  TypeOK' /\ Structure'
<1> USE SessionConstants
<1> DEFINE m == ManagerOf(a)
           u == UidOf(a)
<1>1. CASE AcquireWriteLock(a)
  BY <1>1, ActorFacts DEF AcquireWriteLock, TypeOK, Structure, Refreshing,
     Persisting, LoopPC, RequestPC, Active, ManagerOf, stores, NoFile
<1>2. CASE RefreshAccepted(a)
  <2>1. u \in Uids /\ server[u] + 1 \in Token
    BY <1>2, ActorFacts DEF RefreshAccepted, TypeOK, Token
  <2> QED
    BY <1>2, <2>1, ActorFacts DEF RefreshAccepted, TypeOK, Structure, Refreshing,
       Persisting, LoopPC, RequestPC, Active, ManagerOf, stores, NoFile
<1>3. CASE RefreshRejected(a)
  <2>1. u \in Uids /\ cause' \in [Uids -> SUBSET Causes]
    BY <1>3, ActorFacts, BlameType DEF RefreshRejected, Causes
  <2>2. keyring' \in [Uids -> Token]
    BY <1>3 DEF RefreshRejected, TypeOK, Token
  <2>3. Structure' /\ pc' \in [Actors -> LoopPC \cup RequestPC]
    <3>1. AfterFailure(a, TRUE) \in {"off", "exited"}
      BY DEF AfterFailure
    <3> QED
      BY <1>3, <3>1, EndOfRefresh DEF RefreshRejected, Refreshing, Structure
  <2> QED
    BY <1>3, <2>1, <2>2, <2>3, ReleaseFacts, ForgetFacts
       DEF RefreshRejected, TypeOK
<1>4. ASSUME NEW retriable \in BOOLEAN, TransportFault(a, retriable),
             pc[a] = "post", UNCHANGED <<stores, status, mem>>
      PROVE  /\ Structure'
             /\ pc' \in [Actors -> LoopPC \cup RequestPC]
             /\ lock' \in [Managers -> Actors \cup {None}]
             /\ fresh' \in [Actors -> Token]
             /\ tries' \in [Actors -> 0..MaxAttempts]
             /\ sent' \in [Requests -> Token]
             /\ denied' \in [Requests -> Token]
  <2>1. CASE retriable /\ tries[a] < MaxAttempts
    BY <1>4, <2>1 DEF TransportFault, TypeOK, Structure, Active, ManagerOf,
       stores, NoFile
  <2>2. CASE ~(retriable /\ tries[a] < MaxAttempts)
    <3>1. AfterFailure(a, FALSE) \in {"off", "backoff"}
      BY DEF AfterFailure
    <3> QED
      BY <1>4, <2>2, <3>1, EndOfRefresh, ReleaseFacts, ForgetFacts
         DEF TransportFault, Refreshing, Structure, stores
  <2> QED
    BY <2>1, <2>2
<1>5. ASSUME NEW retriable \in BOOLEAN, RequestLost(a, retriable)
      PROVE  TypeOK' /\ Structure'
  BY <1>4, <1>5 DEF RequestLost, TypeOK, stores
<1>6. ASSUME NEW retriable \in BOOLEAN, ReplyLost(a, retriable)
      PROVE  TypeOK' /\ Structure'
  <2>1. u \in Uids /\ cause' \in [Uids -> SUBSET Causes]
    BY <1>6, ActorFacts, BlameType DEF ReplyLost, Causes
  <2>2. server' \in [Uids -> Token]
    BY <1>6, <2>1 DEF ReplyLost, TypeOK, Token
  <2> QED
    BY <1>4, <1>6, <2>1, <2>2 DEF ReplyLost, TypeOK, stores
<1>7. CASE SaveKeyring(a)
  <2>1. u \in Uids
    BY <1>7, ActorFacts DEF SaveKeyring
  <2>2. cause' \in [Uids -> SUBSET Causes]
    BY <1>7, <2>1, BlameType DEF SaveKeyring, Causes, TypeOK
  <2>3. keyring' \in [Uids -> Token]
    BY <1>7, <2>1 DEF SaveKeyring, TypeOK
  <2> QED
    BY <1>7, <2>1, <2>2, <2>3 DEF SaveKeyring, TypeOK, Structure, Refreshing,
       Persisting, LoopPC, RequestPC, Active, ManagerOf, NoFile
<1>8. CASE SaveSecretFile(a)
  <2> DEFINE written == [uid |-> UidOf(a), token |-> fresh[a]]
  <2>1. written \in File /\ NoFile \in File
    BY <1>8, ActorFacts DEF SaveSecretFile, TypeOK, File, MaybeUid, NoFile, Token
  <2>2. UNCHANGED sessionFile /\ pc[a] = "secret" /\ secretFile' \in File
    BY <1>8, <2>1 DEF SaveSecretFile, TypeOK
  <2>3. sessionFile'.uid = None => sessionFile' = NoFile
    BY <2>2 DEF Structure
  <2>4. CASE PersistFails(a)
    BY <2>2, <2>3, <2>4, PersistFailsStep DEF TypeOK
  <2>5. CASE ~PersistFails(a)
    <3>1. /\ pc' = [pc EXCEPT ![a] = "session"]
          /\ UNCHANGED <<server, keyring, status, mem, lock, fresh, tries,
                         sent, denied, cause>>
      BY <1>8, <2>5 DEF SaveSecretFile
    <3>2. TypeOK'
      BY <2>2, <3>1 DEF TypeOK, Refreshing, Persisting, LoopPC
    <3>3. Structure'
      BY <2>2, <2>3, <3>1 DEF TypeOK, Structure, Refreshing, Persisting, Active,
         ManagerOf, Actors
    <3> QED
      BY <3>2, <3>3
  <2> QED
    BY <2>4, <2>5
<1>9. CASE WriteSessionFile(a)
  <2> DEFINE written == [uid |-> UidOf(a), token |-> fresh[a]]
  <2>1. /\ m \in Managers /\ fresh[a] \in Token
        /\ written \in File /\ NoFile \in File /\ written.uid # None
    BY <1>9, ActorFacts DEF WriteSessionFile, TypeOK, File, MaybeUid, NoFile, Token
  <2>2. UNCHANGED secretFile /\ pc[a] = "session" /\ sessionFile' \in File
    BY <1>9, <2>1 DEF WriteSessionFile, TypeOK
  <2>3. sessionFile'.uid = None => sessionFile' = NoFile
    BY <1>9, <2>1 DEF WriteSessionFile, Structure, NoFile
  <2>4. CASE PersistFails(a)
    BY <2>2, <2>3, <2>4, PersistFailsStep DEF TypeOK
  <2>5. CASE ~PersistFails(a)
    <3>1. /\ mem' = [mem EXCEPT ![m].access = fresh[a], ![m].refresh = fresh[a]]
          /\ status' = [status EXCEPT ![m] = IF @ = "login" THEN "live" ELSE @]
          /\ pc' = [pc EXCEPT ![a] = IF a \in Requests THEN "resnap" ELSE "sleep"]
          /\ Release(a)
          /\ UNCHANGED <<server, keyring, sent, denied, cause>>
      BY <1>9, <2>5 DEF WriteSessionFile
    <3>2. status' \in [Managers -> Status] /\ pc' \in [Actors -> LoopPC \cup RequestPC]
      BY <2>1, <3>1 DEF TypeOK, Status, LoopPC, RequestPC
    <3>3. /\ mem' \in [Managers -> [uid: MaybeUid, access: Token, refresh: Token]]
          /\ \A n \in Managers : mem'[n].uid = mem[n].uid
      <4>1. mem \in [Managers -> [uid: MaybeUid, access: Token, refresh: Token]]
        BY DEF TypeOK
      <4>2. mem' = [mem EXCEPT ![m].access = fresh[a], ![m].refresh = fresh[a]]
        BY <3>1
      <4>3. fresh[a] \in Token /\ m \in Managers
        BY <2>1
      <4> HIDE DEF m
      <4> QED
        BY ONLY <4>1, <4>2, <4>3
    <3>4. \A n \in Managers :
             /\ status'[n] = "none" <=> status[n] = "none"
             /\ Active(n)' <=> Active(n)
             /\ status[n] = "live" => status'[n] = "live"
      BY <3>1 DEF TypeOK, Active
    <3>5. \A b \in Actors :
            /\ pc'[b] \in Refreshing => lock'[ManagerOf(b)] = b
            /\ pc'[b] # "off" => Active(ManagerOf(b))'
      <4> SUFFICES ASSUME NEW b \in Actors
                   PROVE  /\ pc'[b] \in Refreshing => lock'[ManagerOf(b)] = b
                          /\ pc'[b] # "off" => Active(ManagerOf(b))'
        OBVIOUS
      <4>1. CASE b = a
        BY <2>2, <3>1, <3>4, <4>1, ActorFacts DEF TypeOK, Refreshing, Persisting
      <4>2. CASE b # a
        BY <2>1, <2>2, <3>1, <3>4, <4>2, ActorFacts
           DEF TypeOK, Structure, Refreshing, Persisting, Release
      <4> QED
        BY <4>1, <4>2
    <3>6. \A r \in Requests : pc'[r] # "off" => status'[Owner[r]] = "live"
      BY <2>2, <3>1, <3>4 DEF TypeOK, Structure, Actors
    <3>7. \A n \in Managers : status'[n] # "none" => mem'[n].uid \in Uids
      BY <3>3, <3>4 DEF Structure
    <3>8. Structure'
      BY <2>3, <3>5, <3>6, <3>7 DEF Structure, ManagerOf, NoFile
    <3> QED
      BY <2>2, <3>1, <3>2, <3>3, <3>8, ReleaseFacts DEF TypeOK
  <2> QED
    BY <2>4, <2>5
<1> QED
  BY <1>1, <1>2, <1>3, <1>5, <1>6, <1>7, <1>8, <1>9 DEF Refresh

\* The steps of a request outside the refresh.
LEMMA RequestStep ==
    ASSUME TypeOK, Structure, NEW r \in Requests, Request(r)
    PROVE  TypeOK' /\ Structure'
<1> USE SessionConstants
<1>1. r \in Actors /\ Owner[r] \in Managers
  BY DEF Actors
<1>2. /\ UNCHANGED <<server, stores, status, mem, lock, fresh, tries, cause>>
      /\ \E p \in {"off", "sent", "want", "resent"} : pc' = [pc EXCEPT ![r] = p]
      /\ status[Owner[r]] = "live"
  BY <1>1 DEF Request, SendRequest, RequestReturns, RequestDenied, RetryRequest,
     Structure
<1>3. sent' \in [Requests -> Token] /\ denied' \in [Requests -> Token]
  BY <1>1, ForgetFacts
     DEF Request, SendRequest, RequestReturns, RequestDenied, RetryRequest, TypeOK
<1>4. TypeOK'
  BY <1>1, <1>2, <1>3 DEF TypeOK, stores, RequestPC
<1>5. Structure'
  BY <1>1, <1>2 DEF TypeOK, Structure, Refreshing, Persisting, Active, ManagerOf,
     stores, Actors
<1> QED
  BY <1>4, <1>5

\* The loop's timer, a drop and the steps of a logout.
LEMMA ManagerStep ==
    ASSUME TypeOK, Structure, NEW m \in Managers,
           LoopWakes(m) \/ Drop(m) \/ Logout(m)
    PROVE  TypeOK' /\ Structure'
<1> USE SessionConstants
<1>1. CASE LoopWakes(m)
  <2>1. TypeOK'
    BY <1>1 DEF LoopWakes, TypeOK, stores, LoopPC, Actors
  <2>2. Structure'
    BY <1>1 DEF LoopWakes, TypeOK, Structure, Refreshing, Persisting, Active,
       ManagerOf, stores, Actors
  <2> QED
    BY <2>1, <2>2
<1>2. CASE Drop(m) \/ Logout(m)
  <2> DEFINE Out == {"outKeyring", "outSecret", "outFile"}
  <2>1. /\ UNCHANGED <<server, mem, lock, pc, fresh, tries, sent, denied>>
        /\ \E s \in Out \cup {"dropped"} : status' = [status EXCEPT ![m] = s]
        /\ status[m] \in Out \cup {"live"}
        /\ status[m] = "live" => ActiveRequests(m) = {}
    BY <1>2 DEF Drop, Logout, LogoutStarts, LogoutDeletesKeyring,
       LogoutDeletesSecretFile, LogoutTruncatesSessionFile, LogoutFails
  <2>2. mem[m].uid \in Uids
    BY <2>1 DEF Structure
  <2>3. /\ keyring' \in [Uids -> Token]
        /\ secretFile' \in File
        /\ sessionFile' \in {sessionFile, NoFile}
    <3>1. /\ keyring' \in {keyring, [keyring EXCEPT ![mem[m].uid] = 0]}
          /\ secretFile' \in {secretFile, NoFile}
          /\ sessionFile' \in {sessionFile, NoFile}
      BY <1>2 DEF Drop, Logout, LogoutStarts, LogoutDeletesKeyring,
         LogoutDeletesSecretFile, LogoutTruncatesSessionFile, LogoutFails, stores
    <3>2. NoFile \in File /\ 0 \in Token
      BY DEF File, NoFile, MaybeUid, Token
    <3>3. keyring' \in [Uids -> Token]
      BY <2>2, <3>1, <3>2 DEF TypeOK
    <3> QED
      BY <3>1, <3>2, <3>3 DEF TypeOK
  <2>4. cause' \in [Uids -> SUBSET Causes]
    BY <1>2, <2>2, BlameType DEF Drop, Logout, LogoutStarts,
       LogoutDeletesKeyring, LogoutDeletesSecretFile, LogoutTruncatesSessionFile,
       LogoutFails, Causes, TypeOK
  <2>5. TypeOK'
    BY <2>1, <2>3, <2>4 DEF TypeOK, Status, File, NoFile, MaybeUid, Token
  <2>6. \A r \in Requests : Owner[r] = m => pc[r] = "off"
    BY <2>1 DEF Structure, ActiveRequests
  <2>7. Structure'
    BY <2>1, <2>3, <2>6 DEF TypeOK, Structure, Active, ManagerOf, NoFile, Actors
  <2> QED
    BY <2>5, <2>7
<1> QED
  BY <1>1, <1>2

\* The end of a process clears what its manager and requests held.
LEMMA ProcessEndsStep ==
    ASSUME TypeOK, Structure, NEW m \in Managers, ProcessEnds(m)
    PROVE  TypeOK' /\ Structure'
<1> USE SessionConstants
<1>1. mem[m].uid \in Uids
  BY DEF ProcessEnds, Structure
<1>2. cause' \in [Uids -> SUBSET Causes]
  BY <1>1, BlameType DEF ProcessEnds, Causes, TypeOK
<1>3. /\ fresh' \in [Actors -> Token]
      /\ tries' \in [Actors -> 0..MaxAttempts]
      /\ sent' \in [Requests -> Token]
      /\ denied' \in [Requests -> Token]
      /\ keyring' \in [Uids -> Token]
  BY DEF ProcessEnds, TypeOK, Token
<1>4. /\ status' \in [Managers -> Status]
      /\ lock' \in [Managers -> Actors \cup {None}]
      /\ pc' \in [Actors -> LoopPC \cup RequestPC]
  BY DEF ProcessEnds, TypeOK, Status, LoopPC
<1>5. mem' \in [Managers -> [uid: MaybeUid, access: Token, refresh: Token]]
  BY NoMemory DEF ProcessEnds, TypeOK
<1>6. TypeOK'
  BY <1>2, <1>3, <1>4, <1>5 DEF ProcessEnds, TypeOK
<1>7. \A a \in Actors :
        /\ ManagerOf(a) = m => pc'[a] = "off"
        /\ ManagerOf(a) # m => pc'[a] = pc[a]
  BY DEF ProcessEnds
<1>8. \A n \in Managers \ {m} :
        lock'[n] = lock[n] /\ status'[n] = status[n] /\ mem'[n] = mem[n]
  BY DEF ProcessEnds, TypeOK
<1>9. \A a \in Actors :
        /\ pc'[a] \in Refreshing => lock'[ManagerOf(a)] = a
        /\ pc'[a] # "off" => Active(ManagerOf(a))'
  BY <1>7, <1>8, ActorFacts DEF Structure, Active, Refreshing, Persisting
<1>10. \A r \in Requests : pc'[r] # "off" => status'[Owner[r]] = "live"
  BY <1>7, <1>8 DEF Structure, Actors, ManagerOf
<1>11. \A n \in Managers : status'[n] # "none" => mem'[n].uid \in Uids
  BY <1>8 DEF Structure, ProcessEnds, TypeOK
<1>12. Structure'
  BY <1>9, <1>10, <1>11 DEF Structure, ManagerOf, ProcessEnds, NoFile
<1> QED
  BY <1>6, <1>12

\* Every step of the session layer keeps the types and the lock discipline.
LEMMA TypeAndStructureStep ==
    ASSUME TypeOK, Structure, [Next]_vars
    PROVE  TypeOK' /\ Structure'
<1>1. CASE UNCHANGED vars
  BY <1>1 DEF vars, TypeOK, Structure, Active, ManagerOf, NoFile
<1>2. ASSUME NEW m \in Managers, Manager(m) PROVE TypeOK' /\ Structure'
  BY <1>2, StartStep, ManagerStep, ProcessEndsStep DEF Manager
<1>3. ASSUME NEW u \in Uids, Revoke(u) PROVE TypeOK' /\ Structure'
  <2>1. server' \in [Uids -> Token] /\ cause' \in [Uids -> SUBSET Causes]
    BY <1>3, BlameType, SessionConstants DEF Revoke, TypeOK, Causes, Token
  <2> QED
    BY <1>3, <2>1 DEF Revoke, TypeOK, Structure, Active, ManagerOf, NoFile, stores
<1> QED
  BY <1>1, <1>2, <1>3, RefreshStep, RequestStep DEF Next

\* Every variable keeps its type, and a refresh runs under the write lock of a
\* started manager: the two need each other, because the uid a task writes
\* under is only known to be one through the manager it belongs to.
THEOREM TypesAndLocks == Spec => [](TypeOK /\ Structure)
<1>1. Init => TypeOK /\ Structure
  BY SessionConstants DEF Init, TypeOK, Structure, Actors, Token, MaybeUid, File,
     NoFile, Status, Refreshing, Persisting, LoopPC, RequestPC, Active, Causes
<1>2. TypeOK /\ Structure /\ [Next]_vars => (TypeOK /\ Structure)'
  BY TypeAndStructureStep
<1> QED
  BY <1>1, <1>2, PTL DEF Spec

\* TypeOK holds in every reachable state of the session layer.
THEOREM TypeCorrect == Spec => []TypeOK
BY TypesAndLocks, PTL

-----------------------------------------------------------------------------
(* The live token.                                                         *)

\* The part of the invariant about sessions nothing has happened to.
LiveTokenInv == UntouchedLeavesNoTrace /\ LiveTokenHeld /\ StoresHoldLiveToken

\* For a session that stays quiet, a step only retreats: it leaves the
\* server's token alone, it writes nothing new to the stores, it starts no
\* manager and no rotation, and it ends none.
Retreats ==
    /\ \A u \in Uids : cause'[u] = {} =>
        /\ cause[u] = {} /\ server'[u] = server[u]
        /\ keyring'[u] \in {0, keyring[u]}
        /\ secretFile'.uid = u => secretFile' = secretFile
        /\ sessionFile'.uid = u => sessionFile' = sessionFile
    /\ \A n \in Managers :
        /\ mem'[n] = mem[n] \/ mem'[n].uid = None
        /\ Active(n)' => Active(n) /\ mem'[n] = mem[n]
    /\ \A b \in Actors :
        /\ pc'[b] \in Persisting => pc[b] \in Persisting /\ fresh'[b] = fresh[b]
        /\ pc[b] \in Persisting => pc'[b] = pc[b] \/ cause'[UidOf(b)] # {}

\* Most steps retreat, and a step that does keeps the invariant.
LEMMA RetreatStep ==
    ASSUME TypeOK, Structure, TypeOK', Structure', LiveTokenInv, Retreats
    PROVE  LiveTokenInv'
<1> USE SessionConstants
<1>1. \A u \in Uids : cause'[u] = {} =>
        /\ cause[u] = {} /\ server'[u] = server[u]
        /\ keyring'[u] \in {0, keyring[u]}
        /\ secretFile'.uid = u => secretFile' = secretFile
        /\ sessionFile'.uid = u => sessionFile' = sessionFile
  BY DEF Retreats
<1>2. \A b \in Actors :
        /\ ManagerOf(b) \in Managers
        /\ pc'[b] \in Persisting =>
             /\ pc[b] \in Persisting /\ fresh'[b] = fresh[b]
             /\ Active(ManagerOf(b)) /\ UidOf(b)' = UidOf(b)
        /\ pc[b] \in Persisting =>
             /\ Active(ManagerOf(b)) /\ UidOf(b) \in Uids
             /\ pc'[b] = pc[b] \/ cause'[UidOf(b)] # {}
  BY ActorFacts DEF Retreats, Structure, Persisting, UidOf, ManagerOf
<1>3. \A b \in Actors : pc[b] \in Persisting /\ pc'[b] = pc[b] =>
          UidOf(b)' = UidOf(b)
  BY <1>2
<1>4. UntouchedLeavesNoTrace'
  BY <1>1 DEF Retreats, LiveTokenInv, UntouchedLeavesNoTrace, Untouched
<1>5. LiveTokenHeld'
  <2> SUFFICES ASSUME NEW m \in Managers, Active(m)', cause'[mem'[m].uid] = {}
               PROVE  /\ \A n \in Managers :
                            Active(n)' /\ mem'[n].uid = mem'[m].uid => n = m
                      /\ \/ mem'[m].refresh = server'[mem'[m].uid]
                         \/ \E b \in Actors :
                               ManagerOf(b) = m /\ pc'[b] \in Persisting
                      /\ \A b \in Actors :
                            ManagerOf(b) = m /\ pc'[b] \in Persisting
                                => fresh'[b] = server'[mem'[m].uid]
    BY DEF LiveTokenHeld, ManagerOf
  <2>1. /\ Active(m) /\ mem'[m] = mem[m] /\ mem[m].uid \in Uids
        /\ cause[mem[m].uid] = {} /\ server'[mem[m].uid] = server[mem[m].uid]
    BY <1>1 DEF Retreats, Structure, Active
  <2>2. \A n \in Managers : Active(n)' /\ mem'[n].uid = mem'[m].uid => n = m
    BY <2>1 DEF Retreats, LiveTokenInv, LiveTokenHeld
  <2>3. \/ mem'[m].refresh = server'[mem'[m].uid]
        \/ \E b \in Actors : ManagerOf(b) = m /\ pc'[b] \in Persisting
    <3>1. \A b \in Actors : ManagerOf(b) = m /\ pc[b] \in Persisting =>
              pc'[b] \in Persisting
      BY <1>2, <2>1 DEF UidOf
    <3> QED
      BY <2>1, <3>1 DEF LiveTokenInv, LiveTokenHeld
  <2>4. \A b \in Actors :
          ManagerOf(b) = m /\ pc'[b] \in Persisting
              => fresh'[b] = server'[mem'[m].uid]
    BY <1>2, <2>1 DEF LiveTokenInv, LiveTokenHeld
  <2> QED
    BY <2>2, <2>3, <2>4
<1>6. StoresHoldLiveToken'
  <2> SUFFICES ASSUME NEW u \in Uids, cause'[u] = {}
               PROVE  /\ \/ keyring'[u] \in {0, server'[u]}
                         \/ \E b \in Actors : pc'[b] = "keyring" /\ UidOf(b)' = u
                      /\ \/ secretFile'.uid # u
                         \/ secretFile'.token = server'[u]
                         \/ \E b \in Actors :
                               pc'[b] \in {"keyring", "secret"} /\ UidOf(b)' = u
    BY DEF StoresHoldLiveToken
  <2>1. \A b \in Actors : pc[b] \in Persisting /\ UidOf(b) = u =>
            pc'[b] = pc[b] /\ UidOf(b)' = u
    BY <1>2, <1>3
  <2> QED
    BY <1>1, <2>1 DEF LiveTokenInv, StoresHoldLiveToken, Persisting
<1> QED
  BY <1>4, <1>5, <1>6 DEF LiveTokenInv

\* A failed attempt at the POST, a rejected token and a failed write retreat.
LEMMA FailingRefreshRetreats ==
    ASSUME TypeOK, Structure, TypeOK', Structure', NEW a \in Actors,
           \/ AcquireWriteLock(a)
           \/ RefreshRejected(a)
           \/ \E retriable \in BOOLEAN :
                 RequestLost(a, retriable) \/ ReplyLost(a, retriable)
           \/ SaveKeyring(a) /\ UNCHANGED keyring /\ Blame(UidOf(a), "fault")
           \/ SaveSecretFile(a) /\ PersistFails(a)
           \/ WriteSessionFile(a) /\ PersistFails(a)
    PROVE  Retreats
<1> USE SessionConstants
<1> USE DEF Retreats, Persisting, stores
<1>1. ManagerOf(a) \in Managers /\ (pc[a] # "off" => UidOf(a) \in Uids)
  BY ActorFacts
<1>2. CASE AcquireWriteLock(a)
  BY <1>1, <1>2 DEF AcquireWriteLock, TypeOK, Active
<1>3. CASE RefreshRejected(a)
  <2>1. cause'[UidOf(a)] # {} /\ \A u \in Uids : cause[u] \subseteq cause'[u]
    BY <1>1, <1>3 DEF RefreshRejected, TypeOK, Blame
  <2>2. AfterFailure(a, TRUE) \notin Persisting
    BY DEF AfterFailure
  <2>3. \A u \in Uids : keyring'[u] \in {0, keyring[u]}
    BY <1>1, <1>3 DEF RefreshRejected, TypeOK
  <2>4. \A b \in Actors :
          /\ pc'[b] \in Persisting => pc[b] \in Persisting /\ fresh'[b] = fresh[b]
          /\ pc[b] \in Persisting => pc'[b] = pc[b]
    BY <1>3, <2>2 DEF RefreshRejected, Release, TypeOK
  <2>5. /\ UNCHANGED <<server, secretFile, sessionFile, status, mem>>
        /\ \A n \in Managers : Active(n)' => Active(n)
    BY <1>3 DEF RefreshRejected, Active
  <2> QED
    BY <2>1, <2>3, <2>4, <2>5
<1>4. ASSUME NEW retriable \in BOOLEAN,
             RequestLost(a, retriable) \/ ReplyLost(a, retriable)
      PROVE  Retreats
  <2>1. \A b \in Actors :
          /\ pc'[b] \in Persisting => pc[b] \in Persisting /\ fresh'[b] = fresh[b]
          /\ pc[b] \in Persisting => pc'[b] = pc[b]
    BY <1>4 DEF RequestLost, ReplyLost, TransportFault, AfterFailure, Release, TypeOK
  <2>2. /\ UNCHANGED <<stores, status, mem>>
        /\ \A u \in Uids : cause'[u] = {} =>
              cause[u] = {} /\ server'[u] = server[u]
    <3>1. CASE RequestLost(a, retriable)
      BY <3>1 DEF RequestLost
    <3>2. CASE ReplyLost(a, retriable)
      BY <1>1, <3>2 DEF ReplyLost, TypeOK, Blame
    <3> QED
      BY <1>4, <3>1, <3>2
  <2> QED
    BY <2>1, <2>2 DEF Active
<1>5. CASE SaveKeyring(a) /\ UNCHANGED keyring /\ Blame(UidOf(a), "fault")
  <2>1. cause'[UidOf(a)] # {} /\ \A u \in Uids : cause[u] \subseteq cause'[u]
    BY <1>1, <1>5 DEF SaveKeyring, TypeOK, Blame
  <2> QED
    BY <1>1, <1>5, <2>1 DEF SaveKeyring, TypeOK, Active
<1>6. ASSUME PersistFails(a), pc[a] \in {"secret", "session"},
             \/ UNCHANGED secretFile
             \/ secretFile' = NoFile \/ secretFile'.uid = UidOf(a),
             \/ UNCHANGED sessionFile
             \/ sessionFile' = NoFile \/ sessionFile'.uid = UidOf(a)
      PROVE  Retreats
  <2>1. cause'[UidOf(a)] # {} /\ \A u \in Uids : cause[u] \subseteq cause'[u]
    BY <1>1, <1>6 DEF PersistFails, TypeOK, Blame
  <2>2. \A b \in Actors :
          /\ pc'[b] \in Persisting => pc[b] \in Persisting /\ fresh'[b] = fresh[b]
          /\ pc[b] \in Persisting => pc'[b] = pc[b] \/ b = a
    BY <1>6 DEF PersistFails, AfterFailure, Release, TypeOK
  <2>3. \A n \in Managers :
          /\ mem'[n] = mem[n] \/ mem'[n].uid = None
          /\ Active(n)' => Active(n) /\ mem'[n] = mem[n]
    <3>1. CASE status[ManagerOf(a)] = "login"
      <4>1. a \in Managers
        BY <1>6, <3>1 DEF Structure, Actors, ManagerOf
      <4> QED
        BY <1>6, <3>1, <4>1 DEF PersistFails, TypeOK, Active
    <3>2. CASE status[ManagerOf(a)] # "login"
      BY <1>6, <3>2 DEF PersistFails, Active
    <3> QED
      BY <3>1, <3>2
  <2>4. UNCHANGED <<server, keyring>>
    BY <1>6 DEF PersistFails
  <2> QED
    BY <1>6, <2>1, <2>2, <2>3, <2>4 DEF NoFile
<1>7. CASE SaveSecretFile(a) /\ PersistFails(a)
  BY <1>6, <1>7 DEF SaveSecretFile
<1>8. CASE WriteSessionFile(a) /\ PersistFails(a)
  BY <1>6, <1>8 DEF WriteSessionFile
<1> QED
  BY <1>2, <1>3, <1>4, <1>5, <1>7, <1>8

\* So do the steps of requests, a drop, a logout, the end of a process, a load
\* that fails and a revocation.
LEMMA OtherStepsRetreat ==
    ASSUME TypeOK, Structure, TypeOK', Structure',
           \/ \E r \in Requests : Request(r)
           \/ \E m \in Managers :
                 \/ LoadFails(m) \/ LoopWakes(m) \/ Drop(m) \/ Logout(m)
                 \/ ProcessEnds(m)
           \/ \E u \in Uids : Revoke(u)
           \/ UNCHANGED vars
    PROVE  Retreats
<1> USE SessionConstants DEF Retreats, Persisting, stores
<1>1. ASSUME NEW r \in Requests, Request(r) PROVE Retreats
  BY <1>1 DEF Request, SendRequest, RequestReturns, RequestDenied, RetryRequest,
     TypeOK, Active
<1>2. ASSUME NEW m \in Managers, LoadFails(m) PROVE Retreats
  BY <1>2 DEF LoadFails, TypeOK, Active
<1>3. ASSUME NEW m \in Managers, LoopWakes(m) PROVE Retreats
  BY <1>3 DEF LoopWakes, TypeOK, Active
<1>4. ASSUME NEW m \in Managers, Drop(m) \/ Logout(m) PROVE Retreats
  <2>1. /\ UNCHANGED <<server, mem, pc, fresh>>
        /\ \A n \in Managers : Active(n)' => Active(n)
    BY <1>4 DEF Drop, Logout, LogoutStarts, LogoutDeletesKeyring,
       LogoutDeletesSecretFile, LogoutTruncatesSessionFile, LogoutFails,
       TypeOK, Active
  <2>2. /\ keyring' \in {keyring, [keyring EXCEPT ![mem[m].uid] = 0]}
        /\ secretFile' \in {secretFile, NoFile}
        /\ sessionFile' \in {sessionFile, NoFile}
        /\ UNCHANGED cause \/ Blame(mem[m].uid, "loggedOut")
    BY <1>4 DEF Drop, Logout, LogoutStarts, LogoutDeletesKeyring,
       LogoutDeletesSecretFile, LogoutTruncatesSessionFile, LogoutFails
  <2>3. \A u \in Uids : cause[u] \subseteq cause'[u]
    <3>1. CASE UNCHANGED cause
      BY <3>1
    <3>2. CASE Blame(mem[m].uid, "loggedOut")
      <4>1. cause \in [Uids -> SUBSET Causes]
        BY DEF TypeOK
      <4>2. cause' = [cause EXCEPT ![mem[m].uid] = @ \cup {"loggedOut"}]
        BY <3>2 DEF Blame
      <4> QED
        BY ONLY <4>1, <4>2
    <3> QED
      BY <2>2, <3>1, <3>2
  <2>4. \A u \in Uids : keyring'[u] \in {0, keyring[u]}
    BY <2>2 DEF TypeOK
  <2>5. \A u \in Uids : /\ secretFile'.uid = u => secretFile' = secretFile
                        /\ sessionFile'.uid = u => sessionFile' = sessionFile
    BY <2>2 DEF NoFile
  <2> QED
    BY <2>1, <2>3, <2>4, <2>5
<1>5. ASSUME NEW m \in Managers, ProcessEnds(m) PROVE Retreats
  <2>1. mem[m].uid \in Uids
    BY <1>5 DEF ProcessEnds, Structure
  <2>2. \A u \in Uids : cause[u] \subseteq cause'[u]
    BY <1>5, <2>1 DEF ProcessEnds, TypeOK, Blame
  <2>3. \A b \in Actors : pc[b] \in Persisting /\ ManagerOf(b) = m =>
            cause'[UidOf(b)] # {}
    <3> SUFFICES ASSUME NEW b \in Actors, pc[b] \in Persisting, ManagerOf(b) = m
                 PROVE  cause'[UidOf(b)] # {}
      OBVIOUS
    <3>1. Blame(mem[m].uid, "fault")
      BY <1>5 DEF ProcessEnds
    <3> QED
      BY <2>1, <3>1 DEF TypeOK, Blame, UidOf
  <2>4. \A b \in Actors :
          /\ pc'[b] \in Persisting => pc[b] \in Persisting /\ fresh'[b] = fresh[b]
          /\ pc[b] \in Persisting => pc'[b] = pc[b] \/ cause'[UidOf(b)] # {}
    BY <1>5, <2>3 DEF ProcessEnds
  <2>5. \A n \in Managers :
          /\ mem'[n] = mem[n] \/ mem'[n].uid = None
          /\ Active(n)' => Active(n) /\ mem'[n] = mem[n]
    BY <1>5 DEF ProcessEnds, TypeOK, Active
  <2>6. /\ UNCHANGED <<server, secretFile, sessionFile>>
        /\ \A u \in Uids : keyring'[u] \in {0, keyring[u]}
    BY <1>5 DEF ProcessEnds, TypeOK
  <2> QED
    BY <2>2, <2>4, <2>5, <2>6
<1>6. ASSUME NEW u \in Uids, Revoke(u) PROVE Retreats
  BY <1>6 DEF Revoke, TypeOK, Blame, Active
<1>7. CASE UNCHANGED vars
  BY <1>7 DEF vars, Active
<1> QED
  BY <1>1, <1>2, <1>3, <1>4, <1>5, <1>6, <1>7

\* A login opens a session that has left no trace, so it is alone on it.
LEMMA LoginKeepsLiveToken ==
    ASSUME TypeOK, Structure, LiveTokenInv, NEW m \in Managers, NEW u \in Uids,
           FromLogin(m, u)
    PROVE  LiveTokenInv'
<1> USE SessionConstants
<1>1. /\ Untouched(u) /\ keyring[u] = 0 /\ secretFile.uid # u
      /\ \A n \in Managers : mem[n].uid # u
  BY DEF FromLogin, LiveTokenInv, UntouchedLeavesNoTrace, Untouched
<1>2. /\ server'[u] = 1 /\ \A v \in Uids \ {u} : server'[v] = server[v]
      /\ mem'[m].uid = u /\ \A n \in Managers \ {m} : mem'[n] = mem[n]
      /\ UNCHANGED <<stores, cause>>
      /\ \A n \in Managers \ {m} : Active(n)' <=> Active(n)
      /\ ~Active(m) /\ Active(m)'
  BY DEF FromLogin, TypeOK, Active
<1>3. /\ m \in Actors /\ ManagerOf(m) = m
      /\ pc'[m] = "keyring" /\ fresh'[m] = 1
      /\ \A b \in Actors \ {m} : pc'[b] = pc[b] /\ fresh'[b] = fresh[b]
  BY DEF FromLogin, TypeOK, Actors, ManagerOf
<1>4. \A b \in Actors : ManagerOf(b) = m => pc[b] = "off"
  BY <1>2 DEF Structure
<1>5. UntouchedLeavesNoTrace'
  BY <1>1, <1>2 DEF LiveTokenInv, UntouchedLeavesNoTrace, Untouched, stores
<1>6. LiveTokenHeld'
  <2>1. \A n \in Managers : Active(n) => mem[n].uid \in Uids \ {u}
    BY <1>1 DEF Structure, Active
  <2>2. ASSUME NEW n \in Managers, n # m, Active(n)', cause'[mem'[n].uid] = {}
        PROVE  /\ \A k \in Managers :
                     Active(k)' /\ mem'[k].uid = mem'[n].uid => k = n
               /\ \/ mem'[n].refresh = server'[mem'[n].uid]
                  \/ \E b \in Actors :
                        ManagerOf(b) = n /\ pc'[b] \in Persisting
               /\ \A b \in Actors :
                     ManagerOf(b) = n /\ pc'[b] \in Persisting
                         => fresh'[b] = server'[mem'[n].uid]
    BY <1>2, <1>3, <2>1, <2>2 DEF LiveTokenInv, LiveTokenHeld
  <2>3. /\ \A k \in Managers : Active(k)' /\ mem'[k].uid = mem'[m].uid => k = m
        /\ \E b \in Actors : ManagerOf(b) = m /\ pc'[b] \in Persisting
        /\ \A b \in Actors : ManagerOf(b) = m /\ pc'[b] \in Persisting
                         => fresh'[b] = server'[mem'[m].uid]
    BY <1>1, <1>2, <1>3, <1>4 DEF Persisting
  <2> QED
    BY <2>2, <2>3 DEF LiveTokenHeld, ManagerOf
<1>7. StoresHoldLiveToken'
  <2>1. \A b \in Actors : pc[b] # "off" => UidOf(b)' = UidOf(b) /\ pc'[b] = pc[b]
    BY <1>2, <1>3, <1>4, ActorFacts DEF UidOf, ManagerOf
  <2> QED
    BY <1>1, <1>2, <2>1 DEF LiveTokenInv, StoresHoldLiveToken, stores
<1> QED
  BY <1>5, <1>6, <1>7 DEF LiveTokenInv

\* A manager that resumes a quiet session takes the live token from the stores:
\* nobody else is at work on the session, so no rotation is under way.
LEMMA LoadKeepsLiveToken ==
    ASSUME TypeOK, Structure, LiveTokenInv, NEW m \in Managers,
           LoadSessionFile(m) \/ LoadRefreshToken(m)
    PROVE  LiveTokenInv'
<1> USE SessionConstants
<1>1. CASE LoadSessionFile(m)
  <2>1. /\ UNCHANGED <<server, stores, pc, fresh, cause>>
        /\ mem'[m].uid = sessionFile.uid
        /\ \A n \in Managers \ {m} : mem'[n] = mem[n]
        /\ \A n \in Managers : Active(n)' <=> Active(n)
        /\ ~Active(m)
    BY <1>1 DEF LoadSessionFile, TypeOK, Active
  <2>2. UntouchedLeavesNoTrace'
    BY <2>1 DEF LiveTokenInv, UntouchedLeavesNoTrace, Untouched, stores
  <2>3. LiveTokenHeld'
    BY <2>1 DEF LiveTokenInv, LiveTokenHeld, ManagerOf
  <2>4. \A b \in Actors : pc[b] # "off" => UidOf(b)' = UidOf(b)
    BY <2>1, ActorFacts DEF UidOf, ManagerOf
  <2>5. StoresHoldLiveToken'
    BY <2>1, <2>4 DEF LiveTokenInv, StoresHoldLiveToken, stores
  <2> QED
    BY <2>2, <2>3, <2>5 DEF LiveTokenInv
<1>2. CASE LoadRefreshToken(m)
  <2> DEFINE u == mem[m].uid
  <2>1. /\ UNCHANGED <<server, stores, fresh>>
        /\ mem'[m].uid = u /\ mem'[m].refresh = LoadedRefresh(u)
        /\ LoadedRefresh(u) # 0
        /\ \A n \in Managers \ {m} : mem'[n] = mem[n]
        /\ \A n \in Managers \ {m} : Active(n)' <=> Active(n)
        /\ ~Active(m) /\ u \in Uids
    BY <1>2 DEF LoadRefreshToken, TypeOK, Active, Structure
  <2>2. /\ \A v \in Uids : cause'[v] = {} => cause[v] = {}
        /\ cause'[u] = {} => ~Shared(m)
    <3>1. CASE Shared(m)
      <4>1. cause' = [cause EXCEPT ![u] = @ \cup {"fault"}]
        BY <1>2, <3>1 DEF LoadRefreshToken, Blame
      <4>2. cause'[u] # {} /\ \A v \in Uids : cause'[v] = {} => cause[v] = {}
        BY <2>1, <4>1 DEF TypeOK
      <4> QED
        BY <4>2
    <3>2. CASE ~Shared(m)
      BY <1>2, <3>2 DEF LoadRefreshToken
    <3> QED
      BY <3>1, <3>2
  <2>3. /\ m \in Actors /\ ManagerOf(m) = m
        /\ pc'[m] = "sleep" /\ pc[m] = "off"
        /\ \A b \in Actors \ {m} : pc'[b] = pc[b]
        /\ \A b \in Actors : UidOf(b)' = UidOf(b)
    BY <1>2, <2>1, ActorFacts DEF LoadRefreshToken, TypeOK, Actors, ManagerOf,
       Structure, UidOf
  <2>4. \A b \in Actors : pc'[b] \in Persisting <=> pc[b] \in Persisting
    BY <2>3 DEF Persisting
  <2>5. UntouchedLeavesNoTrace'
    BY <2>1, <2>2 DEF LiveTokenInv, UntouchedLeavesNoTrace, Untouched, stores
  <2>6. StoresHoldLiveToken'
    BY <2>1, <2>2, <2>3 DEF LiveTokenInv, StoresHoldLiveToken, stores
  <2>7. ASSUME cause'[u] = {}
        PROVE  /\ LoadedRefresh(u) = server[u]
               /\ \A n \in Managers \ {m} : Active(n) => mem[n].uid # u
    <3>1. \A n \in Managers \ {m} : status[n] # "none" => mem[n].uid # u
      BY <2>2, <2>7 DEF Shared
    <3>2. \A b \in Actors : pc[b] # "off" => UidOf(b) # u
      BY <2>1, <3>1, ActorFacts DEF UidOf
    <3>3. LoadedRefresh(u) = server[u]
      BY <2>1, <2>2, <2>7, <3>2
         DEF LiveTokenInv, StoresHoldLiveToken, LoadedRefresh
    <3> QED
      BY <3>1, <3>3 DEF Active
  <2>8. LiveTokenHeld'
    <3>1. ASSUME NEW n \in Managers, n # m, Active(n)', cause'[mem'[n].uid] = {}
          PROVE  /\ \A k \in Managers :
                       Active(k)' /\ mem'[k].uid = mem'[n].uid => k = n
                 /\ \/ mem'[n].refresh = server'[mem'[n].uid]
                    \/ \E b \in Actors :
                          ManagerOf(b) = n /\ pc'[b] \in Persisting
                 /\ \A b \in Actors :
                       ManagerOf(b) = n /\ pc'[b] \in Persisting
                           => fresh'[b] = server'[mem'[n].uid]
      <4>1. Active(n) /\ mem'[n] = mem[n] /\ mem[n].uid \in Uids
        BY <2>1, <3>1 DEF Structure, Active
      <4>2. mem[n].uid # u
        BY <2>7, <3>1, <4>1
      <4> QED
        BY <2>1, <2>2, <2>4, <3>1, <4>1, <4>2 DEF LiveTokenInv, LiveTokenHeld
    <3>2. ASSUME cause'[u] = {}
          PROVE  /\ \A k \in Managers : Active(k)' /\ mem'[k].uid = u => k = m
                 /\ mem'[m].refresh = server'[u]
                 /\ \A b \in Actors : ManagerOf(b) = m => pc'[b] \notin Persisting
      BY <2>1, <2>4, <2>7, <3>2 DEF Structure, Persisting
    <3> QED
      BY <2>1, <3>1, <3>2 DEF LiveTokenHeld, ManagerOf
  <2> QED
    BY <2>5, <2>6, <2>8 DEF LiveTokenInv
<1> QED
  BY <1>1, <1>2

\* The rotation itself: the actor that holds the lock is the only one of its
\* manager that can be persisting, and no other manager is on the session.
LEMMA RotationKeepsLiveToken ==
    ASSUME TypeOK, Structure, LiveTokenInv, NEW a \in Actors,
           \/ RefreshAccepted(a)
           \/ SaveKeyring(a) /\ keyring' = [keyring EXCEPT ![UidOf(a)] = fresh[a]]
                /\ UNCHANGED cause
           \/ SaveSecretFile(a) /\ ~PersistFails(a)
           \/ WriteSessionFile(a) /\ ~PersistFails(a)
    PROVE  LiveTokenInv'
<1> USE SessionConstants
<1> DEFINE m == ManagerOf(a)
           u == UidOf(a)
<1>1. /\ m \in Managers /\ u \in Uids /\ Active(m)
      /\ pc[a] \in Refreshing /\ UNCHANGED cause
      /\ u = mem[m].uid
  BY ActorFacts DEF RefreshAccepted, SaveKeyring, SaveSecretFile,
     WriteSessionFile, Refreshing, Persisting, UidOf
<1>2. \A b \in Actors : b # a /\ ManagerOf(b) = m => pc[b] \notin Persisting
  BY <1>1 DEF Structure, Refreshing
<1>3. cause[u] = {} =>
        \A b \in Actors : b # a /\ pc[b] \in Persisting => UidOf(b) # u
  BY <1>1, <1>2, ActorFacts DEF LiveTokenInv, LiveTokenHeld, UidOf, Persisting
<1>4. ~Untouched(u)
  BY <1>1 DEF LiveTokenInv, UntouchedLeavesNoTrace
<1>5. CASE RefreshAccepted(a)
  <2>1. /\ UNCHANGED <<stores, status, mem, cause>>
        /\ pc[a] = "post" /\ pc'[a] = "keyring"
        /\ fresh'[a] = server'[u] /\ server'[u] # 0 /\ server[u] # 0
        /\ \A v \in Uids \ {u} : server'[v] = server[v]
        /\ \A b \in Actors \ {a} : pc'[b] = pc[b] /\ fresh'[b] = fresh[b]
    BY <1>1, <1>5 DEF RefreshAccepted, TokenAccepted, TypeOK, Token
  <2>2. UntouchedLeavesNoTrace'
    BY <2>1 DEF LiveTokenInv, UntouchedLeavesNoTrace, Untouched, stores
  <2>3. LiveTokenHeld'
    <3>1. ASSUME NEW n \in Managers, Active(n), cause[mem[n].uid] = {}
          PROVE  /\ \A k \in Managers : Active(k) /\ mem[k].uid = mem[n].uid => k = n
                 /\ \/ mem[n].refresh = server'[mem[n].uid]
                    \/ \E b \in Actors : ManagerOf(b) = n /\ pc'[b] \in Persisting
                 /\ \A b \in Actors : ManagerOf(b) = n /\ pc'[b] \in Persisting
                                       => fresh'[b] = server'[mem[n].uid]
      <4>1. mem[n].uid \in Uids
        BY <3>1 DEF Structure, Active
      <4>2. CASE n = m
        BY <1>1, <1>2, <2>1, <3>1, <4>2
           DEF LiveTokenInv, LiveTokenHeld, Persisting
      <4>3. CASE n # m
        <5>1. mem[n].uid # u
          BY <1>1, <3>1, <4>3 DEF LiveTokenInv, LiveTokenHeld
        <5> QED
          BY <2>1, <3>1, <4>1, <4>3, <5>1
             DEF LiveTokenInv, LiveTokenHeld, Persisting
      <4> QED
        BY <4>2, <4>3
    <3> QED
      BY <2>1, <3>1 DEF LiveTokenHeld, Active, ManagerOf
  <2>4. StoresHoldLiveToken'
    BY <1>1, <2>1 DEF LiveTokenInv, StoresHoldLiveToken, stores, UidOf, ManagerOf
  <2> QED
    BY <2>2, <2>3, <2>4 DEF LiveTokenInv
<1>6. CASE SaveKeyring(a) /\ keyring' = [keyring EXCEPT ![UidOf(a)] = fresh[a]]
             /\ UNCHANGED cause
  <2>1. /\ UNCHANGED <<server, secretFile, sessionFile, status, mem, fresh, cause>>
        /\ pc[a] = "keyring" /\ pc'[a] = "secret"
        /\ keyring'[u] = fresh[a]
        /\ \A v \in Uids \ {u} : keyring'[v] = keyring[v]
        /\ \A b \in Actors \ {a} : pc'[b] = pc[b]
    BY <1>1, <1>6 DEF SaveKeyring, TypeOK
  <2>2. \A b \in Actors : pc'[b] \in Persisting <=> pc[b] \in Persisting
    BY <2>1 DEF Persisting
  <2>3. UntouchedLeavesNoTrace'
    BY <1>4, <2>1 DEF LiveTokenInv, UntouchedLeavesNoTrace, Untouched
  <2>4. LiveTokenHeld'
    BY <2>1, <2>2 DEF LiveTokenInv, LiveTokenHeld, Active, ManagerOf
  <2>5. StoresHoldLiveToken'
    <3>1. cause[u] = {} => fresh[a] = server[u]
      BY <1>1, <2>1 DEF LiveTokenInv, LiveTokenHeld, Persisting
    <3>2. \A b \in Actors : UidOf(b)' = UidOf(b)
      BY <2>1 DEF UidOf, ManagerOf
    <3> QED
      BY <2>1, <3>1, <3>2 DEF LiveTokenInv, StoresHoldLiveToken
  <2> QED
    BY <2>3, <2>4, <2>5 DEF LiveTokenInv
<1>7. CASE SaveSecretFile(a) /\ ~PersistFails(a)
  <2>1. /\ UNCHANGED <<server, keyring, sessionFile, status, mem, fresh, cause>>
        /\ pc[a] = "secret" /\ pc'[a] = "session"
        /\ secretFile'.uid = u /\ secretFile'.token = fresh[a]
        /\ \A b \in Actors \ {a} : pc'[b] = pc[b]
    BY <1>1, <1>7 DEF SaveSecretFile, TypeOK
  <2>2. \A b \in Actors : pc'[b] \in Persisting <=> pc[b] \in Persisting
    BY <2>1 DEF Persisting
  <2>3. UntouchedLeavesNoTrace'
    BY <1>4, <2>1 DEF LiveTokenInv, UntouchedLeavesNoTrace, Untouched
  <2>4. LiveTokenHeld'
    BY <2>1, <2>2 DEF LiveTokenInv, LiveTokenHeld, Active, ManagerOf
  <2>5. StoresHoldLiveToken'
    <3>1. cause[u] = {} => fresh[a] = server[u]
      BY <1>1, <2>1 DEF LiveTokenInv, LiveTokenHeld, Persisting
    <3>2. \A b \in Actors : UidOf(b)' = UidOf(b)
      BY <2>1 DEF UidOf, ManagerOf
    <3> QED
      BY <2>1, <3>1, <3>2 DEF LiveTokenInv, StoresHoldLiveToken
  <2> QED
    BY <2>3, <2>4, <2>5 DEF LiveTokenInv
<1>8. CASE WriteSessionFile(a) /\ ~PersistFails(a)
  <2>1. /\ UNCHANGED <<server, keyring, secretFile, cause>>
        /\ pc[a] = "session" /\ pc'[a] \notin Persisting
        /\ sessionFile'.uid = u
        /\ mem'[m].uid = u /\ mem'[m].refresh = fresh[a]
        /\ \A n \in Managers \ {m} : mem'[n] = mem[n]
        /\ \A n \in Managers : Active(n)' <=> Active(n)
        /\ \A b \in Actors \ {a} : pc'[b] = pc[b] /\ fresh'[b] = fresh[b]
    BY <1>1, <1>8 DEF WriteSessionFile, Release, TypeOK, Active, Persisting
  <2>2. \A n \in Managers : mem'[n].uid = mem[n].uid
    BY <1>1, <2>1
  <2>3. UntouchedLeavesNoTrace'
    BY <1>4, <2>1, <2>2 DEF LiveTokenInv, UntouchedLeavesNoTrace, Untouched
  <2>4. LiveTokenHeld'
    <3>1. ASSUME NEW n \in Managers, Active(n), cause[mem[n].uid] = {}
          PROVE  /\ \A k \in Managers : Active(k) /\ mem[k].uid = mem[n].uid => k = n
                 /\ \/ mem'[n].refresh = server[mem[n].uid]
                    \/ \E b \in Actors : ManagerOf(b) = n /\ pc'[b] \in Persisting
                 /\ \A b \in Actors : ManagerOf(b) = n /\ pc'[b] \in Persisting
                                       => fresh'[b] = server[mem[n].uid]
      <4>1. CASE n = m
        BY <1>1, <1>2, <2>1, <3>1, <4>1
           DEF LiveTokenInv, LiveTokenHeld, Persisting
      <4>2. CASE n # m
        BY <2>1, <3>1, <4>2 DEF LiveTokenInv, LiveTokenHeld, Persisting
      <4> QED
        BY <4>1, <4>2
    <3> QED
      BY <2>1, <2>2, <3>1 DEF LiveTokenHeld, ManagerOf
  <2>5. StoresHoldLiveToken'
    <3>1. \A b \in Actors : UidOf(b)' = UidOf(b)
      BY <2>2, ActorFacts DEF UidOf, ManagerOf
    <3>2. \A b \in Actors : pc[b] \in {"keyring", "secret"} => pc'[b] = pc[b]
      BY <2>1
    <3> QED
      BY <2>1, <3>1, <3>2 DEF LiveTokenInv, StoresHoldLiveToken
  <2> QED
    BY <2>3, <2>4, <2>5 DEF LiveTokenInv
<1> QED
  BY <1>5, <1>6, <1>7, <1>8

\* Every step keeps the live token held and the stores in step with it.
LEMMA LiveTokenStep ==
    ASSUME TypeOK, Structure, LiveTokenInv, [Next]_vars
    PROVE  LiveTokenInv'
<1>1. TypeOK' /\ Structure'
  BY TypeAndStructureStep
<1>2. CASE Retreats
  BY <1>1, <1>2, RetreatStep
<1>3. ASSUME NEW a \in Actors, Refresh(a) PROVE LiveTokenInv'
  <2>1. CASE \/ AcquireWriteLock(a)
             \/ RefreshRejected(a)
             \/ \E retriable \in BOOLEAN :
                   RequestLost(a, retriable) \/ ReplyLost(a, retriable)
    BY <1>1, <1>2, <2>1, FailingRefreshRetreats
  <2>2. CASE RefreshAccepted(a)
    BY <2>2, RotationKeepsLiveToken
  <2>3. CASE SaveKeyring(a)
    <3>1. \/ keyring' = [keyring EXCEPT ![UidOf(a)] = fresh[a]] /\ UNCHANGED cause
          \/ Blame(UidOf(a), "fault") /\ UNCHANGED keyring
      BY <2>3 DEF SaveKeyring
    <3> QED
      BY <1>1, <1>2, <2>3, <3>1, FailingRefreshRetreats, RotationKeepsLiveToken
  <2>4. CASE SaveSecretFile(a) \/ WriteSessionFile(a)
    <3>1. CASE PersistFails(a)
      BY <1>1, <1>2, <2>4, <3>1, FailingRefreshRetreats
    <3>2. CASE ~PersistFails(a)
      BY <2>4, <3>2, RotationKeepsLiveToken
    <3> QED
      BY <3>1, <3>2
  <2> QED
    BY <1>3, <2>1, <2>2, <2>3, <2>4 DEF Refresh
<1>4. ASSUME NEW m \in Managers, Manager(m) PROVE LiveTokenInv'
  <2>1. CASE LoadFails(m) \/ LoopWakes(m) \/ Drop(m) \/ Logout(m) \/ ProcessEnds(m)
    BY <1>1, <1>2, <2>1, OtherStepsRetreat
  <2>2. CASE \E u \in Uids : FromLogin(m, u)
    BY <2>2, LoginKeepsLiveToken
  <2>3. CASE LoadSessionFile(m) \/ LoadRefreshToken(m)
    BY <2>3, LoadKeepsLiveToken
  <2> QED
    BY <1>4, <2>1, <2>2, <2>3 DEF Manager
<1>5. CASE \/ \E r \in Requests : Request(r)
           \/ \E u \in Uids : Revoke(u)
           \/ UNCHANGED vars
  BY <1>1, <1>2, <1>5, OtherStepsRetreat
<1> QED
  BY <1>3, <1>4, <1>5 DEF Next

\* A session nothing happened to: one manager at work, its token the live one,
\* and the stores in step with it.
THEOREM LiveTokenInvariant == Spec => []LiveTokenInv
<1>1. Init => LiveTokenInv
  BY SessionConstants DEF Init, LiveTokenInv, UntouchedLeavesNoTrace, Untouched,
     LiveTokenHeld, StoresHoldLiveToken, Active, NoFile
<1>2. TypeOK /\ Structure /\ LiveTokenInv /\ [Next]_vars => LiveTokenInv'
  BY LiveTokenStep
<1> QED
  BY <1>1, <1>2, TypesAndLocks, PTL DEF Spec

\* However many tasks want to refresh at once, the token a refresh POSTs is the
\* one the server accepts, unless a recorded cause struck the session.
THEOREM RefreshPostsLiveToken == Spec => []PostsLiveToken
<1>1. TypeOK /\ Structure /\ LiveTokenInv => PostsLiveToken
  <2> SUFFICES ASSUME TypeOK, Structure, LiveTokenInv, NEW a \in Actors,
                      pc[a] = "post", cause[UidOf(a)] = {}
               PROVE  TokenAccepted(a)
    BY DEF PostsLiveToken
  <2>1. /\ ManagerOf(a) \in Managers /\ Active(ManagerOf(a)) /\ UidOf(a) \in Uids
        /\ lock[ManagerOf(a)] = a
    BY ActorFacts DEF Structure, Refreshing
  <2>2. server[UidOf(a)] # 0
    BY <2>1 DEF LiveTokenInv, UntouchedLeavesNoTrace, Untouched, UidOf
  <2>3. \A b \in Actors : ManagerOf(b) = ManagerOf(a) => pc[b] \notin Persisting
    BY <2>1 DEF Structure, Refreshing, Persisting
  <2>4. mem[ManagerOf(a)].refresh = server[UidOf(a)]
    BY <2>1, <2>3 DEF LiveTokenInv, LiveTokenHeld, UidOf
  <2> QED
    BY <2>2, <2>4 DEF TokenAccepted
<1> QED
  BY <1>1, TypesAndLocks, LiveTokenInvariant, PTL

\* What a restart would load is the live token or nothing, whenever no rotation
\* is being persisted, unless a recorded cause struck the session.
THEOREM RestartLoadsLiveToken == Spec => []ResumeLoadsLiveToken
<1>1. LiveTokenInv => ResumeLoadsLiveToken
  BY DEF LiveTokenInv, StoresHoldLiveToken, ResumeLoadsLiveToken, LoadedRefresh,
     Persisting
<1> QED
  BY <1>1, LiveTokenInvariant, PTL

-----------------------------------------------------------------------------
(* Tokens only advance.                                                    *)

\* A step that installs no token: a manager keeps its pair or ends, the
\* server's token does not fall behind, no rotation starts, and a request
\* stays as it is, waits for the refresh, or is over.
InstallsNoToken ==
    /\ \A u \in Uids : server'[u] # 0 => server[u] # 0 /\ server[u] <= server'[u]
    /\ \A n \in Managers :
        \/ /\ mem'[n].uid = mem[n].uid /\ mem'[n].access = mem[n].access
           /\ status'[n] # "none" => status[n] # "none"
        \/ status'[n] = "none" /\ mem'[n].access = 0
    /\ \A b \in Actors :
          pc'[b] \in Persisting => pc[b] \in Persisting /\ fresh'[b] = fresh[b]
    /\ \A r \in Requests :
        \/ /\ sent'[r] = sent[r] /\ denied'[r] = denied[r]
           /\ pc'[r] = pc[r] \/ pc'[r] \notin {"off", "resnap", "resent"}
        \/ sent'[r] = 0 /\ denied'[r] = 0 /\ pc'[r] = "off"

\* A step that installs no token keeps the order of all tokens.
LEMMA NoInstallStep ==
    ASSUME TypeOK, Structure, TypeOK', Structure', TokensAdvance, InstallsNoToken
    PROVE  MemoryNotAhead' /\ RotationAhead' /\ RequestsBehind'
<1> USE SessionConstants
<1>1. MemoryNotAhead'
  BY DEF TypeOK, Token, Structure, TokensAdvance, MemoryNotAhead, InstallsNoToken
<1>2. RotationAhead'
  <2> SUFFICES ASSUME NEW b \in Actors, pc'[b] \in Persisting
               PROVE  /\ mem'[ManagerOf(b)].access < fresh'[b]
                      /\ server'[mem'[ManagerOf(b)].uid] # 0
                            => fresh'[b] <= server'[mem'[ManagerOf(b)].uid]
    BY DEF RotationAhead, UidOf, ManagerOf
  <2>1. /\ ManagerOf(b) \in Managers /\ pc[b] \in Persisting
        /\ fresh'[b] = fresh[b] /\ status'[ManagerOf(b)] # "none"
        /\ mem[ManagerOf(b)].uid \in Uids
    BY ActorFacts DEF InstallsNoToken, Structure, Active, Persisting, ManagerOf, UidOf
  <2>2. /\ mem'[ManagerOf(b)].uid = mem[ManagerOf(b)].uid
        /\ mem'[ManagerOf(b)].access = mem[ManagerOf(b)].access
    BY <2>1 DEF InstallsNoToken
  <2> QED
    BY <2>1, <2>2 DEF TypeOK, Token, TokensAdvance, RotationAhead, InstallsNoToken,
       UidOf
<1>3. RequestsBehind'
  <2> SUFFICES ASSUME NEW r \in Requests
               PROVE  /\ sent'[r] <= mem'[Owner[r]].access
                      /\ denied'[r] <= mem'[Owner[r]].access
                      /\ pc'[r] = "off" => sent'[r] = 0 /\ denied'[r] = 0
                      /\ pc'[r] = "resnap" => denied'[r] < mem'[Owner[r]].access
                      /\ pc'[r] = "resent" => denied'[r] < sent'[r]
    BY DEF RequestsBehind
  <2>1. Owner[r] \in Managers /\ r \in Actors /\ mem'[Owner[r]].access \in Nat
    BY DEF Actors, TypeOK, Token
  <2>2. CASE sent'[r] = 0 /\ denied'[r] = 0 /\ pc'[r] = "off"
    BY <2>1, <2>2
  <2>3. CASE /\ sent'[r] = sent[r] /\ denied'[r] = denied[r]
             /\ pc'[r] = pc[r] \/ pc'[r] \notin {"off", "resnap", "resent"}
    <3>1. CASE mem'[Owner[r]].access = mem[Owner[r]].access
      BY <2>1, <2>3, <3>1 DEF TokensAdvance, RequestsBehind
    <3>2. CASE status'[Owner[r]] = "none" /\ mem'[Owner[r]].access = 0
      <4>1. pc'[r] = "off"
        BY <3>2 DEF Structure
      <4> QED
        BY <2>1, <2>3, <3>2, <4>1 DEF TokensAdvance, RequestsBehind
    <3> QED
      BY <2>1, <3>1, <3>2 DEF InstallsNoToken
  <2> QED
    BY <2>2, <2>3 DEF InstallsNoToken
<1> QED
  BY <1>1, <1>2, <1>3

\* The refresh steps other than the rotation and the final assignment.
LEMMA RefreshInstallsNoToken ==
    ASSUME TypeOK, Structure, TypeOK', Structure', NEW a \in Actors,
           \/ AcquireWriteLock(a)
           \/ RefreshRejected(a)
           \/ \E retriable \in BOOLEAN :
                 RequestLost(a, retriable) \/ ReplyLost(a, retriable)
           \/ SaveKeyring(a)
           \/ SaveSecretFile(a)
           \/ WriteSessionFile(a) /\ PersistFails(a)
    PROVE  InstallsNoToken
<1> USE SessionConstants DEF InstallsNoToken, stores
<1>1. /\ ManagerOf(a) \in Managers /\ Requests \subseteq Actors
      /\ \A u \in Uids : server[u] \in Nat
  BY ActorFacts DEF Actors, TypeOK, Token
<1>2. CASE AcquireWriteLock(a)
  BY <1>1, <1>2 DEF AcquireWriteLock, TypeOK, Persisting
<1>3. CASE RefreshRejected(a)
  BY <1>1, <1>3 DEF RefreshRejected, Release, Forget, AfterFailure, TypeOK,
     Persisting
<1>4. ASSUME NEW retriable \in BOOLEAN, TransportFault(a, retriable), pc[a] = "post"
      PROVE  /\ \A b \in Actors : pc'[b] \in Persisting =>
                    pc[b] \in Persisting /\ fresh'[b] = fresh[b]
             /\ \A r \in Requests :
                  \/ /\ sent'[r] = sent[r] /\ denied'[r] = denied[r]
                     /\ pc'[r] = pc[r] \/ pc'[r] \notin {"off", "resnap", "resent"}
                  \/ sent'[r] = 0 /\ denied'[r] = 0 /\ pc'[r] = "off"
  BY <1>1, <1>4 DEF TransportFault, Release, Forget, AfterFailure, TypeOK, Persisting
<1>5. ASSUME NEW retriable \in BOOLEAN, RequestLost(a, retriable)
      PROVE  InstallsNoToken
  BY <1>1, <1>4, <1>5 DEF RequestLost
<1>6. ASSUME NEW retriable \in BOOLEAN, ReplyLost(a, retriable)
      PROVE  InstallsNoToken
  <2>1. \A u \in Uids : server'[u] # 0 => server[u] # 0 /\ server[u] <= server'[u]
    BY <1>1, <1>6 DEF ReplyLost, TokenAccepted, TypeOK
  <2> QED
    BY <1>4, <1>6, <2>1 DEF ReplyLost
<1>7. CASE SaveKeyring(a)
  BY <1>1, <1>7 DEF SaveKeyring, TypeOK, Persisting
<1>8. ASSUME PersistFails(a), pc[a] \in {"secret", "session"}
      PROVE  InstallsNoToken
  <2>1. \A b \in Actors : pc'[b] \in Persisting =>
            pc[b] \in Persisting /\ fresh'[b] = fresh[b]
    BY <1>8 DEF PersistFails, AfterFailure, Release, TypeOK, Persisting
  <2>2. \A r \in Requests :
          \/ sent'[r] = sent[r] /\ denied'[r] = denied[r] /\ pc'[r] = pc[r]
          \/ sent'[r] = 0 /\ denied'[r] = 0 /\ pc'[r] = "off"
    BY <1>1, <1>8 DEF PersistFails, AfterFailure, Forget, TypeOK
  <2>3. CASE status[ManagerOf(a)] = "login"
    <3>1. a \in Managers
      BY <1>8, <2>3 DEF Structure, Actors, ManagerOf
    <3>2. \A n \in Managers :
            \/ mem'[n] = mem[n] /\ status'[n] = status[n]
            \/ status'[n] = "none" /\ mem'[n].access = 0
      BY <1>8, <2>3, <3>1 DEF PersistFails, TypeOK
    <3> QED
      BY <1>1, <1>8, <2>1, <2>2, <3>2 DEF PersistFails
  <2>4. CASE status[ManagerOf(a)] # "login"
    BY <1>1, <1>8, <2>1, <2>2, <2>4 DEF PersistFails
  <2> QED
    BY <2>3, <2>4
<1>9. CASE SaveSecretFile(a) /\ ~PersistFails(a)
  BY <1>1, <1>9 DEF SaveSecretFile, TypeOK, Persisting
<1>10. CASE (SaveSecretFile(a) \/ WriteSessionFile(a)) /\ PersistFails(a)
  BY <1>8, <1>10 DEF SaveSecretFile, WriteSessionFile
<1> QED
  BY <1>2, <1>3, <1>5, <1>6, <1>7, <1>9, <1>10

\* Loading the refresh token, the timer, and every end of a manager install
\* no token.
LEMMA OtherStepsInstallNoToken ==
    ASSUME TypeOK, Structure, TypeOK', Structure',
           \/ \E m \in Managers :
                 \/ LoadRefreshToken(m) \/ LoadFails(m) \/ LoopWakes(m)
                 \/ Drop(m) \/ Logout(m) \/ ProcessEnds(m)
           \/ \E u \in Uids : Revoke(u)
           \/ UNCHANGED vars
    PROVE  InstallsNoToken
<1> USE SessionConstants DEF InstallsNoToken, stores
<1>1. Requests \subseteq Actors /\ \A u \in Uids : server[u] \in Nat
  BY DEF Actors, TypeOK, Token
<1>2. ASSUME NEW m \in Managers, LoadRefreshToken(m) PROVE InstallsNoToken
  BY <1>1, <1>2 DEF LoadRefreshToken, TypeOK, Persisting
<1>3. ASSUME NEW m \in Managers, LoadFails(m) PROVE InstallsNoToken
  BY <1>1, <1>3 DEF LoadFails, TypeOK
<1>4. ASSUME NEW m \in Managers, LoopWakes(m) PROVE InstallsNoToken
  BY <1>1, <1>4 DEF LoopWakes, TypeOK, Persisting
<1>5. ASSUME NEW m \in Managers, Drop(m) \/ Logout(m) PROVE InstallsNoToken
  <2>1. /\ UNCHANGED <<server, mem, pc, fresh, sent, denied>>
        /\ \A n \in Managers : status'[n] # "none" => status[n] # "none"
    BY <1>5 DEF Drop, Logout, LogoutStarts, LogoutDeletesKeyring,
       LogoutDeletesSecretFile, LogoutTruncatesSessionFile, LogoutFails, TypeOK
  <2> QED
    BY <1>1, <2>1
<1>6. ASSUME NEW m \in Managers, ProcessEnds(m) PROVE InstallsNoToken
  <2>1. \A n \in Managers :
          \/ mem'[n] = mem[n] /\ status'[n] = status[n]
          \/ status'[n] = "none" /\ mem'[n].access = 0
    BY <1>6 DEF ProcessEnds, TypeOK
  <2>2. \A b \in Actors : pc'[b] \in Persisting =>
            pc[b] \in Persisting /\ fresh'[b] = fresh[b]
    BY <1>6 DEF ProcessEnds, Persisting
  <2>3. \A r \in Requests :
          \/ sent'[r] = sent[r] /\ denied'[r] = denied[r] /\ pc'[r] = pc[r]
          \/ sent'[r] = 0 /\ denied'[r] = 0 /\ pc'[r] = "off"
    BY <1>1, <1>6 DEF ProcessEnds
  <2> QED
    BY <1>1, <1>6, <2>1, <2>2, <2>3 DEF ProcessEnds
<1>7. ASSUME NEW u \in Uids, Revoke(u) PROVE InstallsNoToken
  BY <1>1, <1>7 DEF Revoke, TypeOK
<1>8. CASE UNCHANGED vars
  BY <1>1, <1>8 DEF vars
<1> QED
  BY <1>2, <1>3, <1>4, <1>5, <1>6, <1>7, <1>8

\* The steps of a request move only its own tokens, within its manager's.
LEMMA RequestAdvances ==
    ASSUME TypeOK, Structure, TokensAdvance, NEW r \in Requests, Request(r)
    PROVE  TokensAdvance'
<1> USE SessionConstants
<1>1. /\ UNCHANGED <<server, stores, status, mem, fresh>>
      /\ r \in Actors /\ Owner[r] \in Managers
      /\ pc'[r] \notin Persisting
      /\ \A b \in Actors \ {r} : pc'[b] = pc[b]
  BY DEF Request, SendRequest, RequestReturns, RequestDenied, RetryRequest, TypeOK,
     Persisting, Actors
<1>2. FileNotAhead' /\ MemoryNotAhead'
  BY <1>1 DEF TokensAdvance, FileNotAhead, MemoryNotAhead, stores
<1>3. RotationAhead'
  BY <1>1 DEF TokensAdvance, RotationAhead, UidOf, ManagerOf
<1>4. mem[Owner[r]].access \in Nat /\ sent[r] \in Nat /\ denied[r] \in Nat
  BY <1>1 DEF TypeOK, Token
<1>5. /\ sent'[r] <= mem[Owner[r]].access /\ denied'[r] <= mem[Owner[r]].access
      /\ pc'[r] = "off" => sent'[r] = 0 /\ denied'[r] = 0
      /\ pc'[r] = "resnap" => denied'[r] < mem[Owner[r]].access
      /\ pc'[r] = "resent" => denied'[r] < sent'[r]
      /\ \A q \in Requests \ {r} : sent'[q] = sent[q] /\ denied'[q] = denied[q]
  <2>1. CASE SendRequest(r)
    BY <1>1, <1>4, <2>1 DEF SendRequest, TypeOK, TokensAdvance, RequestsBehind
  <2>2. CASE RequestReturns(r)
    BY <1>1, <1>4, <2>2 DEF RequestReturns, Forget, TypeOK
  <2>3. CASE RequestDenied(r)
    BY <1>1, <1>4, <2>3 DEF RequestDenied, TypeOK, TokensAdvance, RequestsBehind
  <2>4. CASE RetryRequest(r)
    BY <1>1, <1>4, <2>4 DEF RetryRequest, TypeOK, TokensAdvance, RequestsBehind
  <2> QED
    BY <2>1, <2>2, <2>3, <2>4 DEF Request
<1>6. RequestsBehind'
  BY <1>1, <1>5 DEF TokensAdvance, RequestsBehind, Actors
<1> QED
  BY <1>2, <1>3, <1>6 DEF TokensAdvance

\* A login starts with no access token in memory and the first one under way; a
\* load takes its access token from session.json.
LEMMA StartAdvances ==
    ASSUME TypeOK, Structure, LiveTokenInv, TokensAdvance, NEW m \in Managers,
           LoadSessionFile(m) \/ \E u \in Uids : FromLogin(m, u)
    PROVE  TokensAdvance'
<1> USE SessionConstants
<1>1. /\ status[m] = "none" /\ UNCHANGED <<sessionFile, sent, denied>>
      /\ \A n \in Managers \ {m} : mem'[n] = mem[n] /\ status'[n] = status[n]
      /\ \A b \in Actors : b # m => pc'[b] = pc[b] /\ fresh'[b] = fresh[b]
      /\ mem'[m].access \in Nat
  BY DEF LoadSessionFile, FromLogin, TypeOK, File, Token, stores
<1>2. \A b \in Actors : ManagerOf(b) = m => pc[b] = "off"
  BY <1>1 DEF Structure, Active
<1>3. RequestsBehind'
  <2> SUFFICES ASSUME NEW r \in Requests
               PROVE  /\ sent'[r] <= mem'[Owner[r]].access
                      /\ denied'[r] <= mem'[Owner[r]].access
                      /\ pc'[r] = "off" => sent'[r] = 0 /\ denied'[r] = 0
                      /\ pc'[r] = "resnap" => denied'[r] < mem'[Owner[r]].access
                      /\ pc'[r] = "resent" => denied'[r] < sent'[r]
    BY DEF RequestsBehind
  <2>1. pc'[r] = pc[r] /\ sent'[r] = sent[r] /\ denied'[r] = denied[r]
    BY <1>1 DEF Actors
  <2>2. Owner[r] = m => pc[r] = "off"
    BY <1>2 DEF Actors, ManagerOf
  <2> QED
    BY <1>1, <2>1, <2>2 DEF TokensAdvance, RequestsBehind
<1>4. CASE LoadSessionFile(m)
  <2>1. /\ UNCHANGED <<server, sessionFile, pc, fresh>>
        /\ mem'[m].uid = sessionFile.uid /\ mem'[m].access = sessionFile.token
        /\ sessionFile.uid # None
    BY <1>4 DEF LoadSessionFile, TypeOK, stores, Structure
  <2>2. FileNotAhead'
    BY <2>1 DEF TokensAdvance, FileNotAhead
  <2>3. MemoryNotAhead'
    BY <1>1, <2>1 DEF TokensAdvance, FileNotAhead, MemoryNotAhead
  <2>4. RotationAhead'
    BY <1>1, <1>2, <2>1, ActorFacts
       DEF TokensAdvance, RotationAhead, Persisting, UidOf, ManagerOf
  <2> QED
    BY <1>3, <2>2, <2>3, <2>4 DEF TokensAdvance
<1>5. ASSUME NEW u \in Uids, FromLogin(m, u) PROVE TokensAdvance'
  <2>1. /\ sessionFile.uid # u /\ \A n \in Managers : mem[n].uid # u
    BY <1>5 DEF FromLogin, LiveTokenInv, UntouchedLeavesNoTrace, Untouched
  <2>2. /\ server'[u] = 1 /\ \A v \in Uids \ {u} : server'[v] = server[v]
        /\ mem'[m].uid = u /\ mem'[m].access = 0
        /\ fresh'[m] = 1 /\ m \in Actors /\ ManagerOf(m) = m
    BY <1>5 DEF FromLogin, TypeOK, Actors, ManagerOf
  <2>3. FileNotAhead'
    <3>1. sessionFile.uid \in Uids \cup {None}
      BY DEF TypeOK, File, MaybeUid
    <3> QED
      BY <1>1, <2>1, <2>2, <3>1 DEF TokensAdvance, FileNotAhead
  <2>4. MemoryNotAhead'
    BY <1>1, <2>1, <2>2 DEF TokensAdvance, MemoryNotAhead, Structure
  <2>5. RotationAhead'
    <3> SUFFICES ASSUME NEW b \in Actors, pc'[b] \in Persisting
                 PROVE  /\ mem'[ManagerOf(b)].access < fresh'[b]
                        /\ server'[mem'[ManagerOf(b)].uid] # 0
                              => fresh'[b] <= server'[mem'[ManagerOf(b)].uid]
      BY DEF RotationAhead, UidOf, ManagerOf
    <3>1. CASE b = m
      BY <2>2, <3>1
    <3>2. CASE b # m
      <4>1. pc[b] \in Persisting /\ ManagerOf(b) \in Managers \ {m}
        BY <1>1, <1>2, <3>2, ActorFacts DEF Persisting
      <4>2. mem[ManagerOf(b)].uid \in Uids \ {u}
        BY <2>1, <4>1, ActorFacts DEF Persisting, UidOf
      <4> QED
        BY <1>1, <2>2, <3>2, <4>1, <4>2 DEF TokensAdvance, RotationAhead, UidOf
    <3> QED
      BY <3>1, <3>2
  <2> QED
    BY <1>3, <2>3, <2>4, <2>5 DEF TokensAdvance
<1> QED
  BY <1>4, <1>5

\* A rotation yields a token above every one in use; installing it raises the
\* manager's token above every one its requests have used.
LEMMA RotationAdvances ==
    ASSUME TypeOK, Structure, TypeOK', TokensAdvance, NEW a \in Actors,
           \/ RefreshAccepted(a)
           \/ WriteSessionFile(a) /\ ~PersistFails(a)
    PROVE  TokensAdvance'
<1> USE SessionConstants
<1> DEFINE m == ManagerOf(a)
           u == UidOf(a)
<1>1. /\ m \in Managers /\ u \in Uids /\ status[m] # "none"
      /\ u = mem[m].uid /\ pc[a] \in Refreshing
      /\ mem[m].access \in Nat /\ fresh[a] \in Nat
  BY ActorFacts DEF RefreshAccepted, WriteSessionFile, UidOf, Refreshing,
     Persisting, TypeOK, Token
<1>2. \A v \in Uids : server[v] \in Nat /\ server'[v] \in Nat
  BY DEF TypeOK, Token
<1>3. CASE RefreshAccepted(a)
  <2>1. /\ UNCHANGED <<sessionFile, status, mem, sent, denied>>
        /\ server[u] # 0 /\ server'[u] = server[u] + 1
        /\ \A v \in Uids \ {u} : server'[v] = server[v]
        /\ fresh'[a] = server[u] + 1 /\ pc'[a] = "keyring"
        /\ \A b \in Actors \ {a} : pc'[b] = pc[b] /\ fresh'[b] = fresh[b]
    BY <1>1, <1>3 DEF RefreshAccepted, TokenAccepted, TypeOK, stores
  <2>2. FileNotAhead'
    <3>1. sessionFile.uid \in Uids \cup {None} /\ sessionFile.token \in Nat
      BY DEF TypeOK, File, MaybeUid, Token
    <3> QED
      BY <1>2, <2>1, <3>1 DEF TokensAdvance, FileNotAhead
  <2>3. MemoryNotAhead'
    <3>1. \A n \in Managers : mem[n].access \in Nat
      BY DEF TypeOK, Token
    <3> QED
      BY <1>2, <2>1, <3>1 DEF TokensAdvance, MemoryNotAhead, Structure
  <2>4. RotationAhead'
    <3> SUFFICES ASSUME NEW b \in Actors, pc'[b] \in Persisting
                 PROVE  /\ mem[ManagerOf(b)].access < fresh'[b]
                        /\ server'[UidOf(b)] # 0 => fresh'[b] <= server'[UidOf(b)]
      BY <2>1 DEF RotationAhead, UidOf, ManagerOf
    <3>1. CASE b = a
      <4>1. mem[m].access <= server[u]
        BY <1>1, <2>1 DEF TokensAdvance, MemoryNotAhead
      <4> QED
        BY <1>1, <1>2, <2>1, <3>1, <4>1
    <3>2. CASE b # a
      <4>1. pc[b] \in Persisting /\ UidOf(b) \in Uids /\ fresh[b] \in Nat
        BY <2>1, <3>2, ActorFacts DEF Persisting, TypeOK, Token
      <4> QED
        BY <1>2, <2>1, <3>2, <4>1 DEF TokensAdvance, RotationAhead
    <3> QED
      BY <3>1, <3>2
  <2>5. RequestsBehind'
    BY <2>1 DEF TokensAdvance, RequestsBehind, Actors
  <2> QED
    BY <2>2, <2>3, <2>4, <2>5 DEF TokensAdvance
<1>4. CASE WriteSessionFile(a) /\ ~PersistFails(a)
  <2>1. /\ UNCHANGED <<server, sent, denied>>
        /\ sessionFile'.uid = u /\ sessionFile'.token = fresh[a]
        /\ mem'[m].uid = u /\ mem'[m].access = fresh[a]
        /\ \A n \in Managers \ {m} : mem'[n] = mem[n]
        /\ \A n \in Managers : status'[n] = "none" <=> status[n] = "none"
        /\ pc[a] = "session" /\ pc'[a] \in {"resnap", "sleep"}
        /\ \A b \in Actors \ {a} : pc'[b] = pc[b] /\ fresh'[b] = fresh[b]
    BY <1>1, <1>4 DEF WriteSessionFile, Release, TypeOK
  <2>2. /\ mem[m].access < fresh[a]
        /\ server[u] # 0 => fresh[a] <= server[u]
    BY <2>1 DEF TokensAdvance, RotationAhead, Persisting
  <2>3. FileNotAhead'
    BY <2>1, <2>2 DEF FileNotAhead
  <2>4. MemoryNotAhead'
    BY <2>1, <2>2 DEF TokensAdvance, MemoryNotAhead
  <2>5. RotationAhead'
    <3> SUFFICES ASSUME NEW b \in Actors, pc'[b] \in Persisting
                 PROVE  /\ mem'[ManagerOf(b)].access < fresh'[b]
                        /\ server[mem'[ManagerOf(b)].uid] # 0
                              => fresh'[b] <= server[mem'[ManagerOf(b)].uid]
      BY <2>1 DEF RotationAhead, UidOf, ManagerOf
    <3>1. b # a /\ pc[b] \in Persisting
      BY <2>1 DEF Persisting
    <3>2. ManagerOf(b) \in Managers \ {m}
      BY <1>1, <3>1, ActorFacts DEF Structure, Refreshing
    <3> QED
      BY <2>1, <3>1, <3>2 DEF TokensAdvance, RotationAhead, UidOf
  <2>6. RequestsBehind'
    <3> SUFFICES ASSUME NEW r \in Requests
                 PROVE  /\ sent[r] <= mem'[Owner[r]].access
                        /\ denied[r] <= mem'[Owner[r]].access
                        /\ pc'[r] = "off" => sent[r] = 0 /\ denied[r] = 0
                        /\ pc'[r] = "resnap" => denied[r] < mem'[Owner[r]].access
                        /\ pc'[r] = "resent" => denied[r] < sent[r]
      BY <2>1 DEF RequestsBehind
    <3>1. /\ Owner[r] \in Managers /\ r \in Actors /\ ManagerOf(r) = Owner[r]
          /\ sent[r] \in Nat /\ denied[r] \in Nat
      BY DEF Actors, TypeOK, Token, ManagerOf
    <3>2. CASE Owner[r] = m
      BY <1>1, <2>1, <2>2, <3>1, <3>2 DEF TokensAdvance, RequestsBehind
    <3>3. CASE Owner[r] # m
      BY <2>1, <3>1, <3>3 DEF TokensAdvance, RequestsBehind
    <3> QED
      BY <3>2, <3>3
  <2> QED
    BY <2>3, <2>4, <2>5, <2>6 DEF TokensAdvance
<1> QED
  BY <1>3, <1>4

\* session.json keeps what it has, is lost, or gets the token being installed.
LEMMA FileKept ==
    ASSUME TypeOK, Structure, TypeOK', TokensAdvance, InstallsNoToken,
           \/ sessionFile' \in {sessionFile, NoFile}
           \/ \E a \in Actors : /\ pc[a] = "session" /\ UNCHANGED server
                               /\ sessionFile' = [uid |-> UidOf(a), token |-> fresh[a]]
    PROVE  FileNotAhead'
<1>1. CASE sessionFile' = sessionFile
  <2>1. sessionFile.uid # None => sessionFile.uid \in Uids
    BY DEF TypeOK, File, MaybeUid
  <2>2. \A v \in Uids : server[v] \in Nat /\ server'[v] \in Nat
    BY SessionConstants DEF TypeOK, Token
  <2>3. sessionFile.token \in Nat
    BY SessionConstants DEF TypeOK, File, Token
  <2> QED
    BY <1>1, <2>1, <2>2, <2>3 DEF TokensAdvance, FileNotAhead, InstallsNoToken
<1>2. CASE sessionFile' = NoFile
  BY <1>2 DEF FileNotAhead, NoFile
<1>3. ASSUME NEW a \in Actors, pc[a] = "session", UNCHANGED server,
             sessionFile' = [uid |-> UidOf(a), token |-> fresh[a]]
      PROVE  FileNotAhead'
  BY <1>3 DEF TokensAdvance, RotationAhead, FileNotAhead, Persisting
<1> QED
  BY <1>1, <1>2, <1>3

\* Every step keeps the order of the tokens of a session.
LEMMA TokensAdvanceStep ==
    ASSUME TypeOK, Structure, LiveTokenInv, TokensAdvance, [Next]_vars
    PROVE  TokensAdvance'
<1>1. TypeOK' /\ Structure'
  BY TypeAndStructureStep
<1>2. ASSUME NEW a \in Actors, Refresh(a) PROVE TokensAdvance'
  <2>1. CASE RefreshAccepted(a) \/ (WriteSessionFile(a) /\ ~PersistFails(a))
    BY <1>1, <2>1, RotationAdvances
  <2>2. CASE \/ AcquireWriteLock(a)
             \/ RefreshRejected(a)
             \/ \E retriable \in BOOLEAN :
                   RequestLost(a, retriable) \/ ReplyLost(a, retriable)
             \/ SaveKeyring(a)
             \/ SaveSecretFile(a)
    <3>1. InstallsNoToken
      BY <1>1, <2>2, RefreshInstallsNoToken
    <3>2. UNCHANGED sessionFile
      BY <2>2 DEF AcquireWriteLock, RefreshRejected, RequestLost, ReplyLost,
         SaveKeyring, SaveSecretFile, stores
    <3> QED
      BY <1>1, <3>1, <3>2, FileKept, NoInstallStep DEF TokensAdvance
  <2>3. CASE WriteSessionFile(a) /\ PersistFails(a)
    <3>1. InstallsNoToken
      BY <1>1, <2>3, RefreshInstallsNoToken
    <3>2. /\ pc[a] = "session" /\ UNCHANGED server
          /\ \/ sessionFile' \in {sessionFile, NoFile}
             \/ sessionFile' = [uid |-> UidOf(a), token |-> fresh[a]]
      BY <2>3 DEF WriteSessionFile, PersistFails
    <3> QED
      BY <1>1, <3>1, <3>2, FileKept, NoInstallStep DEF TokensAdvance
  <2> QED
    BY <1>2, <2>1, <2>2, <2>3 DEF Refresh
<1>3. ASSUME NEW m \in Managers, Manager(m) PROVE TokensAdvance'
  <2>1. CASE LoadSessionFile(m) \/ \E u \in Uids : FromLogin(m, u)
    BY <2>1, StartAdvances
  <2>2. CASE \/ LoadRefreshToken(m) \/ LoadFails(m) \/ LoopWakes(m)
             \/ Drop(m) \/ Logout(m) \/ ProcessEnds(m)
    <3>1. InstallsNoToken
      BY <1>1, <2>2, OtherStepsInstallNoToken
    <3>2. sessionFile' \in {sessionFile, NoFile}
      BY <2>2 DEF LoadRefreshToken, LoadFails, LoopWakes, Drop, Logout,
         LogoutStarts, LogoutDeletesKeyring, LogoutDeletesSecretFile,
         LogoutTruncatesSessionFile, LogoutFails, ProcessEnds, stores
    <3> QED
      BY <1>1, <3>1, <3>2, FileKept, NoInstallStep DEF TokensAdvance
  <2> QED
    BY <1>3, <2>1, <2>2 DEF Manager
<1>4. CASE (\E u \in Uids : Revoke(u)) \/ UNCHANGED vars
  <2>1. InstallsNoToken /\ UNCHANGED sessionFile
    BY <1>1, <1>4, OtherStepsInstallNoToken DEF Revoke, stores, vars
  <2> QED
    BY <1>1, <2>1, FileKept, NoInstallStep DEF TokensAdvance
<1> QED
  BY <1>2, <1>3, <1>4, RequestAdvances DEF Next

\* The whole inductive invariant.
THEOREM SessionInvariant == Spec => []SessionInv
<1>1. Init => TokensAdvance
  BY SessionConstants DEF Init, TokensAdvance, FileNotAhead, MemoryNotAhead,
     RotationAhead, RequestsBehind, NoFile, Persisting, Actors
<1>2. TypeOK /\ Structure /\ LiveTokenInv /\ TokensAdvance /\ [Next]_vars
        => TokensAdvance'
  BY TokensAdvanceStep
<1>3. TypeOK /\ Structure /\ LiveTokenInv /\ TokensAdvance => SessionInv
  BY DEF SessionInv, LiveTokenInv
<1> QED
  BY <1>1, <1>2, <1>3, TypesAndLocks, LiveTokenInvariant, PTL DEF Spec

\* The retry after a 401 never repeats the refused access token, whatever the
\* other requests and the proactive loop rotated in between.
THEOREM RetryIsNewer == Spec => []RetryUsesNewerToken
<1>1. TypeOK /\ SessionInv => RetryUsesNewerToken
  BY SessionConstants DEF SessionInv, TokensAdvance, RequestsBehind,
     RetryUsesNewerToken, TypeOK, Token
<1> QED
  BY <1>1, TypeCorrect, SessionInvariant, PTL
=============================================================================
