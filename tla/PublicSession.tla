----------------------------- MODULE PublicSession -----------------------------
(***************************************************************************)
(* The session of a public link (js/sdk/src/internal/sharingPublic/session)*)
(* : the SRP handshake opens a session, requests carry it, and a request   *)
(* refused with 401 opens another one and is sent once more.  Requests run *)
(* side by side; the answers to their handshakes come in any order, and    *)
(* the server ends sessions and the owner may change the password at any   *)
(* time.                                                                   *)
(***************************************************************************)
EXTENDS Integers, FiniteSets

CONSTANTS
    LinkRequests,   \* requests made with the session
    MaxExpiries,    \* bound: sessions the server ends
    MaxLinkFaults   \* bound: requests without an answer

ASSUME PublicSessionConstants ==
    /\ MaxExpiries \in Nat /\ MaxLinkFaults \in Nat
    /\ "visit" \notin LinkRequests   \* the handshake of the visitor

VARIABLES
    visitAt,       \* the visitor: "start", "info", "auth", "open" or "closed"
    storedInfo,    \* infosPerToken: the SRP session of getInfo, or NoSrp
    requestAt,     \* [request -> "idle", "sent", "refused", "proving", "proved", "again", "resent", "done" or "error"]
    sentWith,      \* [request -> session it was last sent with]
    refusedWith,   \* [request -> sessions it was refused with]
    srpOf,         \* [request or "visit" -> SRP session of its handshake]
    linkSession,   \* session id the client holds
    sessionsIssued, srpIssued,
    validSessions, \* sessions the server accepts
    openSrp,       \* handshakes the server has begun
    newPassword,   \* the owner changed the password
    expiries, linkFaults

linkVars == <<visitAt, storedInfo, requestAt, sentWith, refusedWith, srpOf, linkSession, sessionsIssued,
              srpIssued, validSessions, openSrp, newPassword, expiries, linkFaults>>

NoSrp == 0
NoSession == 0
Handshakes == LinkRequests \cup {"visit"}

LinkInit ==
    /\ visitAt = "start" /\ storedInfo = NoSrp
    /\ requestAt = [r \in LinkRequests |-> "idle"]
    /\ sentWith = [r \in LinkRequests |-> NoSession]
    /\ refusedWith = [r \in LinkRequests |-> {}]
    /\ srpOf = [h \in Handshakes |-> NoSrp]
    /\ linkSession = NoSession /\ sessionsIssued = 0 /\ srpIssued = 0
    /\ validSessions = {} /\ openSrp = {}
    /\ newPassword = FALSE /\ expiries = 0 /\ linkFaults = 0

-------------------------------------------------------------------------------
(* The server *)

\* GET urls/{token}/info begins a handshake.
BeginHandshake(id) == srpIssued' = id /\ openSrp' = openSrp \cup {id}

\* POST urls/{token}/auth: the proof of the password, once per handshake.
ProofAccepted(srp) == srp \in openSrp /\ ~newPassword

SessionEnds(s) ==
    /\ s \in validSessions /\ expiries < MaxExpiries
    /\ validSessions' = validSessions \ {s}
    /\ expiries' = expiries + 1
    /\ UNCHANGED <<visitAt, storedInfo, requestAt, sentWith, refusedWith, srpOf, linkSession, sessionsIssued,
                   srpIssued, openSrp, newPassword, linkFaults>>

PasswordChanges ==
    /\ ~newPassword /\ newPassword' = TRUE
    /\ UNCHANGED <<visitAt, storedInfo, requestAt, sentWith, refusedWith, srpOf, linkSession, sessionsIssued,
                   srpIssued, validSessions, openSrp, expiries, linkFaults>>

LinkFault == linkFaults < MaxLinkFaults /\ linkFaults' = linkFaults + 1

-------------------------------------------------------------------------------
(* Opening the link *)

GetInfo ==
    /\ visitAt = "start" /\ storedInfo = NoSrp
    /\ \/ /\ BeginHandshake(srpIssued + 1)
          /\ storedInfo' = srpIssued + 1
          /\ UNCHANGED linkFaults
       \/ LinkFault /\ UNCHANGED <<srpIssued, openSrp, storedInfo>>
    /\ UNCHANGED <<visitAt, requestAt, sentWith, refusedWith, srpOf, linkSession, sessionsIssued,
                   validSessions, newPassword, expiries>>

\* auth: with the handshake of getInfo, or one begun now.
BeginAuth ==
    /\ visitAt = "start"
    /\ \/ /\ storedInfo # NoSrp
          /\ srpOf' = [srpOf EXCEPT !["visit"] = storedInfo] /\ visitAt' = "auth"
          /\ UNCHANGED <<srpIssued, openSrp, linkFaults>>
       \/ /\ storedInfo = NoSrp
          /\ \/ /\ BeginHandshake(srpIssued + 1)
                /\ srpOf' = [srpOf EXCEPT !["visit"] = srpIssued + 1] /\ visitAt' = "auth"
                /\ UNCHANGED linkFaults
             \/ LinkFault /\ visitAt' = "closed" /\ UNCHANGED <<srpIssued, openSrp, srpOf>>
    /\ UNCHANGED <<storedInfo, requestAt, sentWith, refusedWith, linkSession, sessionsIssued, validSessions,
                   newPassword, expiries>>

\* The proof is sent: a session is issued, or the password refused.
Prove(h) ==
    /\ openSrp' = openSrp \ {srpOf[h]}
    /\ IF ProofAccepted(srpOf[h])
       THEN sessionsIssued' = sessionsIssued + 1 /\ validSessions' = validSessions \cup {sessionsIssued + 1}
       ELSE UNCHANGED <<sessionsIssued, validSessions>>

Authenticate ==
    /\ visitAt = "auth"
    /\ \/ /\ Prove("visit")
          /\ IF ProofAccepted(srpOf["visit"])
             THEN linkSession' = sessionsIssued + 1 /\ visitAt' = "open"
             ELSE visitAt' = "closed" /\ UNCHANGED linkSession
          /\ UNCHANGED linkFaults
       \/ LinkFault /\ visitAt' = "closed" /\ UNCHANGED <<openSrp, sessionsIssued, validSessions, linkSession>>
    /\ UNCHANGED <<storedInfo, requestAt, sentWith, refusedWith, srpOf, srpIssued, newPassword, expiries>>

-------------------------------------------------------------------------------
(* Requests *)

Waits(r, at) == requestAt[r] = at
Becomes(r, at) == requestAt' = [requestAt EXCEPT ![r] = at]

\* getOptionsWithSessionHeaders: the session as it is now.
FetchJson(r) ==
    /\ visitAt = "open" /\ Waits(r, "idle")
    /\ Becomes(r, "sent")
    /\ sentWith' = [sentWith EXCEPT ![r] = linkSession]
    /\ UNCHANGED <<visitAt, storedInfo, refusedWith, srpOf, linkSession, sessionsIssued, srpIssued,
                   validSessions, openSrp, newPassword, expiries, linkFaults>>

\* The second 401 is given to the caller.
RefusedNext(at) == IF at = "sent" THEN "refused" ELSE "done"

Answered(r) ==
    /\ requestAt[r] \in {"sent", "resent"}
    /\ \/ /\ sentWith[r] \in validSessions
          /\ Becomes(r, "done")
          /\ UNCHANGED <<refusedWith, linkFaults>>
       \/ /\ sentWith[r] \notin validSessions
          /\ Becomes(r, RefusedNext(requestAt[r]))
          /\ refusedWith' = [refusedWith EXCEPT ![r] = @ \cup {sentWith[r]}]
          /\ UNCHANGED linkFaults
       \/ LinkFault /\ Becomes(r, "error") /\ UNCHANGED refusedWith
    /\ UNCHANGED <<visitAt, storedInfo, sentWith, srpOf, linkSession, sessionsIssued, srpIssued,
                   validSessions, openSrp, newPassword, expiries>>

\* reauth: a new handshake each time.
Reauth(r) ==
    /\ Waits(r, "refused")
    /\ \/ /\ BeginHandshake(srpIssued + 1)
          /\ srpOf' = [srpOf EXCEPT ![r] = srpIssued + 1]
          /\ Becomes(r, "proving")
          /\ UNCHANGED linkFaults
       \/ LinkFault /\ Becomes(r, "error") /\ UNCHANGED <<srpIssued, openSrp, srpOf>>
    /\ UNCHANGED <<visitAt, storedInfo, sentWith, refusedWith, linkSession, sessionsIssued, validSessions,
                   newPassword, expiries>>

ReauthProof(r) ==
    /\ Waits(r, "proving")
    /\ \/ /\ Prove(r)
          /\ Becomes(r, IF ProofAccepted(srpOf[r]) THEN "proved" ELSE "error")
          /\ srpOf' = [srpOf EXCEPT ![r] = sessionsIssued + 1]
          /\ UNCHANGED linkFaults
       \/ LinkFault /\ Becomes(r, "error") /\ UNCHANGED <<openSrp, sessionsIssued, validSessions, srpOf>>
    /\ UNCHANGED <<visitAt, storedInfo, sentWith, refusedWith, linkSession, srpIssued, newPassword, expiries>>

\* Mutant: the new session is not kept.
NewSessionDropped(r) == linkSession

\* The answer's session replaces the one held, whichever came meanwhile.
NewSession(r) == srpOf[r]

SessionArrives(r) ==
    /\ Waits(r, "proved")
    /\ linkSession' = NewSession(r)
    /\ Becomes(r, "again")
    /\ UNCHANGED <<visitAt, storedInfo, sentWith, refusedWith, srpOf, sessionsIssued, srpIssued, validSessions,
                   openSrp, newPassword, expiries, linkFaults>>

FetchAgain(r) ==
    /\ Waits(r, "again")
    /\ Becomes(r, "resent")
    /\ sentWith' = [sentWith EXCEPT ![r] = linkSession]
    /\ UNCHANGED <<visitAt, storedInfo, refusedWith, srpOf, linkSession, sessionsIssued, srpIssued,
                   validSessions, openSrp, newPassword, expiries, linkFaults>>

LinkStep ==
    \/ BeginAuth \/ Authenticate
    \/ \E r \in LinkRequests : Answered(r) \/ Reauth(r) \/ ReauthProof(r) \/ SessionArrives(r) \/ FetchAgain(r)

LinkNext ==
    \/ LinkStep
    \/ GetInfo \/ PasswordChanges
    \/ \E r \in LinkRequests : FetchJson(r)
    \/ \E s \in 1 .. sessionsIssued : SessionEnds(s)

LinkSpec == LinkInit /\ [][LinkNext]_linkVars

-------------------------------------------------------------------------------
(* Properties *)

\* Type invariant: the sessions held and used were issued.
LinkTypeOK ==
    /\ linkSession \in 0 .. sessionsIssued /\ validSessions \subseteq 1 .. sessionsIssued
    /\ visitAt = "open" => linkSession # NoSession
    /\ \A r \in LinkRequests : sentWith[r] \in 0 .. sessionsIssued /\ Cardinality(refusedWith[r]) <= 2

\* A request refused with a session is never sent again with it, however the
\* handshakes of other requests interleave: the caller sees 401 only if the
\* server ended two sessions.
NeverRefusedTwiceWithOne ==
    \A r \in LinkRequests : Waits(r, "resent") => sentWith[r] \notin refusedWith[r]

\* Liveness: every request that was sent ends, answered or failed.
LinkSettled ==
    visitAt \in {"open", "closed"} /\ \A r \in LinkRequests : requestAt[r] \in {"idle", "done", "error"}
===============================================================================
