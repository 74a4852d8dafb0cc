----------------------------- MODULE NodeSharing -----------------------------
(***************************************************************************)
(* SharingManagement of the JS SDK (js/sdk/src/internal/sharing): sharing  *)
(* and unsharing one node, while other clients change the same share and   *)
(* invited users answer.                                                   *)
(*                                                                         *)
(* The share of the node lives on the server: who has access to it, and    *)
(* how (an invitation, an invitation to somebody without an account, or    *)
(* membership), its public link and its flag editorsCanShare.  The client  *)
(* knows from its cached node whether there is a share.  A call first      *)
(* reads the share in four requests and then works from what it read.      *)
(***************************************************************************)
EXTENDS Integers, FiniteSets

CONSTANTS
    People,       \* those the node may be shared with
    Registered,   \* those who have an account at the beginning
    Requested,    \* the calls made: records [op, users, link, editors]
    MaxOthers,    \* bound: steps of others
    MaxFaults     \* bound: requests whose answer does not come

Roles == {"viewer", "editor"}
Kinds == {"invitation", "external", "member"}
Ops == {"share", "unshare", "unshareAll", "convert", "resend"}

ASSUME NodeSharingConstants ==
    /\ Registered \subseteq People /\ MaxOthers \in Nat /\ MaxFaults \in Nat
    /\ Requested # {}
    /\ \A c \in Requested : /\ c \in [op : Ops, users : [People -> Roles \cup {"no"}],
                                      link : Roles \cup {"no", "admin", "remove"}, editors : {"no", "yes"}]
                            /\ c.link = "remove" => c.op = "unshare"
                            /\ c.op \in {"convert", "resend"} =>  \* one invitation
                                 \A u, v \in People : c.users[u] # "no" /\ c.users[v] # "no" => u = v

VARIABLES
    share,      \* the share on the server
    ids,        \* ids given to shares and entries so far
    ownVolume,  \* the node is in the user's own volume
    admin,      \* the user's direct role is admin
    accounts,   \* those who have an account
    node,       \* the cached node: the share's id it knows of (0 if none), and whether it is fresh
    event,      \* an event of the node waits to be handled
    call,       \* the call
    others,     \* steps of others so far
    faults,     \* lost answers so far
    before,     \* history: the share when the call began, with what others did to it since
    touched,    \* history: what others changed since then
    swept       \* history: those who lost their access with the share that the call deleted

sharingVars == <<share, ids, ownVolume, admin, accounts, node, event, call, others, faults, before, touched, swept>>

Nobody == [kind |-> "none", role |-> "no", id |-> 0]
NoShare == [id |-> 0, access |-> [u \in People |-> Nobody], link |-> "no", linkId |-> 0, editors |-> "no"]
Entry(kind, role, id) == [kind |-> kind, role |-> role, id |-> id]

\* What getInternalSharingInfo returns, before anything was read.
NoInfo == [shareId |-> 0, access |-> [k \in Kinds |-> [u \in People |-> Nobody]], link |-> "no", linkId |-> 0]
NoCall == [request |-> CHOOSE c \in Requested : TRUE, phase |-> "none", proton |-> {}, info |-> NoInfo,
           left |-> {}, todo |-> {}, again |-> FALSE]

SharingInit ==
    /\ ids = 2
    /\ \/ share \in {NoShare, [NoShare EXCEPT !.id = 1], [NoShare EXCEPT !.id = 1, !.link = "viewer", !.linkId = 2]}
       \/ \E u \in People, k \in Kinds : share = [NoShare EXCEPT !.id = 1, !.access[u] = Entry(k, "viewer", 2)]
    /\ \A u \in People : share.access[u].kind \in {"invitation", "member"} => u \in Registered
    /\ ownVolume \in BOOLEAN
    /\ admin \in BOOLEAN
    /\ accounts = Registered
    /\ node \in {[known |-> share.id, fresh |-> TRUE], [known |-> 0, fresh |-> FALSE]}
    /\ event = FALSE
    /\ call = NoCall /\ others = 0 /\ faults = 0
    /\ before = share /\ touched = {} /\ swept = {}

WorldUnchanged == UNCHANGED <<ownVolume, admin, accounts, others, touched, swept>>

(***************************************************************************)
(* The server: each request gives the share it leaves, or is refused.  A   *)
(* request names the share and the entry it is about by their ids.         *)
(***************************************************************************)
Refused == [NoShare EXCEPT !.id = -1]
With(s, u, e) == [s EXCEPT !.access[u] = e]
Is(s, info) == s.id # 0 /\ s.id = info.shareId
Has(s, info, k, u) == Is(s, info) /\ s.access[u] = info.access[k][u] /\ s.access[u].kind = k

PostShares(s, id) == IF s.id # 0 THEN Refused ELSE [NoShare EXCEPT !.id = id]
DeleteShares(s, info) == IF Is(s, info) THEN NoShare ELSE Refused
PutEditorsCanShare(s, info, v) == IF Is(s, info) THEN [s EXCEPT !.editors = v] ELSE Refused
PostInvitations(s, info, u, role, id) ==
    IF Is(s, info) /\ s.access[u].kind = "none" THEN With(s, u, Entry("invitation", role, id)) ELSE Refused
PostInvitationsFor(s, info, u, id) ==
    IF Has(s, info, "external", u)
      THEN With(s, u, Entry("invitation", info.access["external"][u].role, id)) ELSE Refused
PutInvitation(s, info, u, role) ==
    IF Has(s, info, "invitation", u) THEN [s EXCEPT !.access[u].role = role] ELSE Refused
DeleteInvitation(s, info, u) == IF Has(s, info, "invitation", u) THEN With(s, u, Nobody) ELSE Refused
PostExternalInvitations(s, info, u, role, id) ==
    IF Is(s, info) /\ s.access[u].kind = "none" THEN With(s, u, Entry("external", role, id)) ELSE Refused
PutExternalInvitation(s, info, u, role) ==
    IF Has(s, info, "external", u) THEN [s EXCEPT !.access[u].role = role] ELSE Refused
DeleteExternalInvitation(s, info, u) == IF Has(s, info, "external", u) THEN With(s, u, Nobody) ELSE Refused
PutMember(s, info, u, role) ==
    IF Has(s, info, "member", u) THEN [s EXCEPT !.access[u].role = role] ELSE Refused
DeleteMember(s, info, u) == IF Has(s, info, "member", u) THEN With(s, u, Nobody) ELSE Refused
PostUrls(s, info, role, id) ==
    IF Is(s, info) /\ s.linkId = 0 THEN [s EXCEPT !.link = role, !.linkId = id] ELSE Refused
PutUrl(s, info, role) ==
    IF Is(s, info) /\ s.linkId = info.linkId THEN [s EXCEPT !.link = role] ELSE Refused
DeleteUrl(s, info) ==
    IF Is(s, info) /\ s.linkId = info.linkId THEN [s EXCEPT !.link = "no", !.linkId = 0] ELSE Refused
PostSendEmail(s, info, k, u) == IF Has(s, info, k, u) THEN s ELSE Refused

(***************************************************************************)
(* Others: another client of the user, and the invited.                    *)
(***************************************************************************)
Other(what, next) ==
    /\ others < MaxOthers /\ call.phase \notin {"none", "done", "failed"}
    /\ others' = others + 1
    /\ touched' = touched \cup what
    /\ share' = next
    /\ before' = IF what = {"share"} THEN next
                 ELSE [before EXCEPT !.access = [u \in People |-> IF u \in what THEN next.access[u] ELSE @[u]]]
    /\ UNCHANGED <<node, call, swept, ownVolume, admin, faults>>

OtherShares ==
    /\ share.id = 0 /\ Other({"share"}, PostShares(share, ids + 1))
    /\ ids' = ids + 1 /\ event' = TRUE
    /\ UNCHANGED accounts

OtherUnshares ==
    /\ share.id # 0 /\ Other({"share"}, NoShare)
    /\ event' = TRUE
    /\ UNCHANGED <<ids, accounts>>

OtherInvites(u) ==
    /\ share.id # 0 /\ share.access[u] = Nobody /\ u \in accounts
    /\ Other({u}, With(share, u, Entry("invitation", "editor", ids + 1)))
    /\ ids' = ids + 1
    /\ UNCHANGED <<event, accounts>>

OtherRemoves(u) ==
    /\ share.access[u] # Nobody /\ Other({u}, With(share, u, Nobody))
    /\ UNCHANGED <<ids, event, accounts>>

Accepts(u) ==
    /\ share.access[u].kind = "invitation"
    /\ Other({u}, With(share, u, Entry("member", share.access[u].role, ids + 1)))
    /\ ids' = ids + 1
    /\ UNCHANGED <<event, accounts>>

SignsUp(u) ==
    /\ u \notin accounts /\ Other({}, share)
    /\ accounts' = accounts \cup {u}
    /\ UNCHANGED <<ids, event>>

\* "If share is truly empty, backend will delete it eventually."
EmptyShareDeleted ==
    /\ share.id # 0 /\ share = [NoShare EXCEPT !.id = share.id, !.editors = share.editors]
    /\ Other({"share"}, NoShare)
    /\ event' = TRUE
    /\ UNCHANGED <<ids, accounts>>

\* The events of the node mark the cached node as stale.
HandleNodeEvent ==
    /\ event /\ event' = FALSE
    /\ node' = [node EXCEPT !.fresh = FALSE]
    /\ UNCHANGED <<share, ids, call, faults, before>> /\ WorldUnchanged

(***************************************************************************)
(* Requests of the call.                                                   *)
(***************************************************************************)
Goes(phase) == [call EXCEPT !.phase = phase]
Failed == Goes("failed")

\* The request is executed and answered; or refused, and the call throws; or the
\* answer is lost, executed or not, and the call throws.
Exchange(result, next) ==
    \/ /\ result # Refused /\ share' = result /\ call' = next
       /\ UNCHANGED faults
    \/ /\ result = Refused /\ call' = Failed
       /\ UNCHANGED <<share, faults>>
    \/ /\ faults < MaxFaults /\ faults' = faults + 1
       /\ share' \in {share, result} \ {Refused}
       /\ call' = Failed

\* notifyNodeChanged
NotifyNodeChanged == node' = [node EXCEPT !.fresh = FALSE]
Fresh == [known |-> share.id, fresh |-> TRUE]

NewId == ids' = ids + 1

(***************************************************************************)
(* The beginning of a call: validation, then getInternalSharingInfo.       *)
(***************************************************************************)
\* shareNode looks up who has an account before anything is changed.
BeginCall(c) ==
    /\ call.phase = "none"
    /\ call' = [NoCall EXCEPT !.request = c, !.phase = "info",
                  !.proton = {u \in People : u \in accounts /\ c.users[u] # "no"},
                  !.todo = {u \in People : c.users[u] # "no"}]
    /\ before' = share /\ touched' = {} /\ swept' = {}
    /\ UNCHANGED <<share, ids, ownVolume, admin, accounts, node, event, others, faults>>

\* getNode: a stale node is loaded again.
GetSharedNode ==
    LET known == IF node.fresh THEN node.known ELSE share.id
        op == call.request.op
    IN
    /\ call.phase = "info"
    /\ node' = [known |-> known, fresh |-> TRUE]
    /\ call' = IF op = "convert" /\ ~admin THEN Failed
               ELSE IF known # 0
                 THEN [call EXCEPT !.phase = "reading", !.left = Kinds \cup {"link"},
                         !.info = [NoInfo EXCEPT !.shareId = known]]
               ELSE IF op = "share" THEN (IF call.again THEN Failed ELSE Goes("create"))
               ELSE IF op \in {"unshare", "unshareAll"} THEN Goes("done")
               ELSE Failed
    /\ UNCHANGED <<share, ids, event, faults, before>> /\ WorldUnchanged

\* The four requests of getSharingInfo are answered in any order.  A public link is
\* read in the own volume only.
ReadAccess(k) ==
    /\ call.phase = "reading" /\ k \in call.left \ {"link"}
    /\ call' = IF ~Is(share, call.info) THEN Failed
               ELSE [call EXCEPT !.left = @ \ {k},
                       !.info.access[k] = [u \in People |-> IF share.access[u].kind = k THEN share.access[u] ELSE Nobody]]
    /\ UNCHANGED <<share, ids, node, event, faults, before>> /\ WorldUnchanged

ReadPublicLink ==
    /\ call.phase = "reading" /\ "link" \in call.left
    /\ call' = IF ~ownVolume THEN [call EXCEPT !.left = @ \ {"link"}]
               ELSE IF ~Is(share, call.info) THEN Failed
               ELSE [call EXCEPT !.left = @ \ {"link"}, !.info.link = share.link, !.info.linkId = share.linkId]
    /\ UNCHANGED <<share, ids, node, event, faults, before>> /\ WorldUnchanged

\* The share's key is loaded and decrypted.
SharingInfoRead ==
    /\ call.phase = "reading" /\ call.left = {}
    /\ call' = IF ~Is(share, call.info) THEN Failed
               ELSE Goes(CASE call.request.op = "share" -> "editors"
                           [] call.request.op = "unshare" -> "users"
                           [] call.request.op = "unshareAll" -> "delete"
                           [] OTHER -> "invitation")
    /\ UNCHANGED <<share, ids, node, event, faults, before>> /\ WorldUnchanged

\* When there is a share already the node is refreshed and the share read.
RefreshShare ==
    /\ call' = [call EXCEPT !.phase = "info", !.again = TRUE]
    /\ NotifyNodeChanged
    /\ UNCHANGED <<share, ids, event, faults>>

CreateShare ==
    /\ call.phase = "create"
    /\ IF share.id # 0
         THEN RefreshShare
         ELSE /\ Exchange(PostShares(share, ids + 1),
                      [call EXCEPT !.phase = "editors", !.info = [NoInfo EXCEPT !.shareId = ids + 1]])
              /\ IF share'.id = ids + 1 THEN NewId /\ event' = TRUE ELSE UNCHANGED <<ids, event>>
              /\ IF call'.phase = "editors" THEN NotifyNodeChanged ELSE UNCHANGED node
    /\ UNCHANGED before /\ WorldUnchanged

(***************************************************************************)
(* shareNode                                                               *)
(***************************************************************************)
SetEditorsCanShare ==
    /\ call.phase = "editors"
    /\ IF call.request.editors = "no" THEN call' = Goes("users") /\ UNCHANGED <<share, faults>>
       ELSE Exchange(PutEditorsCanShare(share, call.info, call.request.editors), Goes("users"))
    /\ UNCHANGED <<ids, node, event, before>> /\ WorldUnchanged

Known(k, u) == call.info.access[k][u] # Nobody
Asked(u) == call.request.users[u]

\* The user is done; info holds what the result will say of him.
UserDone(u, k, e) == [call EXCEPT !.todo = @ \ {u}, !.info.access[k][u] = e]
RoleDone(u, k) == UserDone(u, k, [call.info.access[k][u] EXCEPT !.role = Asked(u)])

\* Nothing is sent when the role is the one asked for.
UpdateRole(u, k, result) ==
    IF call.info.access[k][u].role = Asked(u)
      THEN call' = [call EXCEPT !.todo = @ \ {u}] /\ UNCHANGED <<share, faults>>
      ELSE Exchange(result, RoleDone(u, k))

\* An invitation is updated, else a member, else the user is invited.
ShareWithProtonUser(u) ==
    /\ call.phase = "users" /\ call.request.op = "share" /\ u \in call.todo \cap call.proton
    /\ \/ /\ Known("invitation", u)
          /\ UpdateRole(u, "invitation", PutInvitation(share, call.info, u, Asked(u))) /\ UNCHANGED ids
       \/ /\ ~Known("invitation", u) /\ Known("member", u)
          /\ UpdateRole(u, "member", PutMember(share, call.info, u, Asked(u))) /\ UNCHANGED ids
       \/ /\ ~Known("invitation", u) /\ ~Known("member", u)
          /\ Exchange(PostInvitations(share, call.info, u, Asked(u), ids + 1),
                  UserDone(u, "invitation", Entry("invitation", Asked(u), ids + 1)))
          /\ NewId
    /\ UNCHANGED <<node, event, before>> /\ WorldUnchanged

\* The same for those without an account, after all the others.
ShareWithNonProtonUser(u) ==
    /\ call.phase = "users" /\ call.request.op = "share"
    /\ call.todo \cap call.proton = {} /\ u \in call.todo
    /\ \/ /\ Known("external", u)
          /\ UpdateRole(u, "external", PutExternalInvitation(share, call.info, u, Asked(u))) /\ UNCHANGED ids
       \/ /\ ~Known("external", u) /\ Known("member", u)
          /\ UpdateRole(u, "member", PutMember(share, call.info, u, Asked(u))) /\ UNCHANGED ids
       \/ /\ ~Known("external", u) /\ ~Known("member", u)
          /\ Exchange(PostExternalInvitations(share, call.info, u, Asked(u), ids + 1),
                  UserDone(u, "external", Entry("external", Asked(u), ids + 1)))
          /\ NewId
    /\ UNCHANGED <<node, event, before>> /\ WorldUnchanged

\* A public link is made in the own volume only, and never for an admin.
LinkRefused(role) == ~ownVolume \/ role = "admin"

UpdateSharedLink(role) ==
    /\ Exchange(PutUrl(share, call.info, role), [call EXCEPT !.phase = "done", !.info.link = role])
    /\ UNCHANGED ids

ShareViaLink(role) ==
    /\ Exchange(PostUrls(share, call.info, role, ids + 1),
            [call EXCEPT !.phase = "done", !.info.link = role, !.info.linkId = ids + 1])
    /\ NewId

SharePublicLink ==
    LET role == call.request.link IN
    /\ call.phase = "users" /\ call.request.op = "share" /\ call.todo = {}
    /\ IF role = "no" THEN call' = Goes("done") /\ UNCHANGED <<share, ids, faults>>
       ELSE IF LinkRefused(role) THEN call' = Failed /\ UNCHANGED <<share, ids, faults>>
       ELSE IF call.info.linkId # 0 THEN UpdateSharedLink(role) ELSE ShareViaLink(role)
    /\ UNCHANGED <<node, event, before>> /\ WorldUnchanged

(***************************************************************************)
(* unshareNode                                                             *)
(***************************************************************************)
\* The invitation is deleted, else the external one, else the member removed.
UnshareWithUser(u) ==
    /\ call.phase = "users" /\ call.request.op = "unshare" /\ u \in call.todo
    /\ \/ Known("invitation", u)
          /\ Exchange(DeleteInvitation(share, call.info, u), UserDone(u, "invitation", Nobody))
       \/ ~Known("invitation", u) /\ Known("external", u)
          /\ Exchange(DeleteExternalInvitation(share, call.info, u), UserDone(u, "external", Nobody))
       \/ ~Known("invitation", u) /\ ~Known("external", u) /\ Known("member", u)
          /\ Exchange(DeleteMember(share, call.info, u), UserDone(u, "member", Nobody))
       \/ (\A k \in Kinds : ~Known(k, u))
          /\ call' = [call EXCEPT !.todo = @ \ {u}] /\ UNCHANGED <<share, faults>>
    /\ UNCHANGED <<ids, node, event, before>> /\ WorldUnchanged

RemoveSharedLink ==
    /\ call.phase = "users" /\ call.request.op = "unshare" /\ call.todo = {}
    /\ IF call.request.link = "remove" /\ call.info.linkId # 0
         THEN Exchange(DeleteUrl(share, call.info), [call EXCEPT !.phase = "removed", !.info.link = "no", !.info.linkId = 0])
         ELSE call' = Goes("removed") /\ UNCHANGED <<share, faults>>
    /\ UNCHANGED <<ids, node, event, before>> /\ WorldUnchanged

\* Mutant: members are forgotten.
EmptyInfoButMembers(info) ==
    info.linkId = 0 /\ \A k \in Kinds \ {"member"}, u \in People : info.access[k][u] = Nobody

EmptyInfo(info) == info.linkId = 0 /\ \A k \in Kinds, u \in People : info.access[k][u] = Nobody

\* The share is deleted when, as far as the call knows, nothing is left of it.
NothingLeft ==
    /\ call.phase = "removed"
    /\ call' = Goes(IF EmptyInfo(call.info) THEN "delete" ELSE "done")
    /\ UNCHANGED <<share, ids, node, event, faults, before>> /\ WorldUnchanged

\* deleteShareWithForce; unshareNode with settings ignores its failure.
DeleteShareWithForce ==
    /\ call.phase = "delete"
    /\ \/ /\ DeleteShares(share, call.info) # Refused
          /\ share' = NoShare /\ event' = TRUE
          /\ call' = Goes("done")
          /\ NotifyNodeChanged
          /\ UNCHANGED faults
       \/ /\ \/ DeleteShares(share, call.info) = Refused /\ UNCHANGED faults
             \/ faults < MaxFaults /\ faults' = faults + 1
          /\ call' = Goes(IF call.request.op = "unshare" THEN "done" ELSE "failed")
          /\ \/ UNCHANGED <<share, event>>
             \/ faults' # faults /\ share' = DeleteShares(share, call.info) /\ share' # Refused /\ event' = TRUE
          /\ UNCHANGED node
    /\ swept' = swept \cup {u \in People : share'.access[u] # share.access[u]}
    /\ UNCHANGED <<ids, before, ownVolume, admin, accounts, others, touched>>

(***************************************************************************)
(* convertNonProtonInvitation and resendInvitationEmail.                   *)
(***************************************************************************)
ConvertInvitation(u) ==
    /\ call.phase = "invitation" /\ call.request.op = "convert" /\ u \in call.todo
    /\ IF Known("external", u)
         THEN Exchange(PostInvitationsFor(share, call.info, u, ids + 1),
                   [UserDone(u, "external", Nobody) EXCEPT !.phase = "done"]) /\ NewId
         ELSE call' = Failed /\ UNCHANGED <<share, ids, faults>>
    /\ UNCHANGED <<node, event, before>> /\ WorldUnchanged

ResendInvitationEmail(u) ==
    /\ call.phase = "invitation" /\ call.request.op = "resend" /\ u \in call.todo
    /\ IF \E k \in {"invitation", "external"} : Known(k, u)
         THEN \E k \in {"invitation", "external"} :
                /\ Known(k, u) /\ (k = "external" => ~Known("invitation", u))
                /\ Exchange(PostSendEmail(share, call.info, k, u), Goes("done"))
         ELSE call' = Failed /\ UNCHANGED <<share, faults>>
    /\ UNCHANGED <<ids, node, event, before>> /\ WorldUnchanged

CallStep ==
    \/ GetSharedNode \/ (\E k \in Kinds : ReadAccess(k)) \/ ReadPublicLink \/ SharingInfoRead
    \/ CreateShare \/ SetEditorsCanShare
    \/ \E u \in People : ShareWithProtonUser(u) \/ ShareWithNonProtonUser(u) \/ UnshareWithUser(u)
                           \/ ConvertInvitation(u) \/ ResendInvitationEmail(u)
    \/ SharePublicLink \/ RemoveSharedLink \/ NothingLeft \/ DeleteShareWithForce

OthersStep ==
    \/ OtherShares \/ OtherUnshares \/ EmptyShareDeleted
    \/ \E u \in People : OtherInvites(u) \/ OtherRemoves(u) \/ Accepts(u) \/ SignsUp(u)

SharingNext == (\E c \in Requested : BeginCall(c)) \/ CallStep \/ OthersStep \/ HandleNodeEvent

SharingSpec == SharingInit /\ [][SharingNext]_sharingVars

-----------------------------------------------------------------------------
(* Properties.                                                             *)

SharingTypeOK ==
    /\ share.id \in 0 .. ids /\ share.link \in Roles \cup {"no"}
    /\ \A u \in People : share.access[u].kind \in Kinds \cup {"none"} /\ share.access[u].id <= ids
    /\ call.todo \subseteq People /\ call.left \subseteq Kinds \cup {"link"}

Untouched(u) == {u, "share"} \cap touched = {}

\* What the call was asked for a user, and what it was asked for the whole share.
Served(u) ==
    /\ call.request.op = "share" => share.id # 0 /\ share.access[u].role = Asked(u)
    /\ call.request.op = "unshare" => share.access[u] = Nobody
    /\ call.request.op = "convert" => share.access[u].kind = "invitation" /\ share.access[u].role = before.access[u].role
    /\ call.request.op = "resend" => share.access[u] = before.access[u]

SettingsDone ==
    /\ (call.request.op = "share" /\ call.request.link # "no") => ownVolume /\ share.link = call.request.link
    /\ (call.request.op = "share" /\ call.request.editors # "no") => share.editors = call.request.editors
    /\ (call.request.op = "unshare" /\ call.request.link = "remove" /\ ownVolume) => share.link = "no"
    /\ call.request.op = "unshareAll" => share.id = 0

\* When a call of the sharing API returns, it has done what it was asked for: everybody
\* has access with the role asked for, or has none any more, an invitation was converted
\* with its role, the public link and the flag are as asked, the share is gone.  What
\* others did meanwhile to the same person, or to the whole share, excuses the call:
\* unshareNode finds somebody who accepts between its reads in none of the lists.
AskedIsDone ==
    call.phase = "done" =>
        /\ \A u \in People : (Asked(u) # "no" /\ Untouched(u)) => Served(u)
        /\ "share" \notin touched => SettingsDone

\* Nobody else loses or gains access by the call, whatever others do meanwhile, whether
\* it succeeds, fails half way or has its answers lost; but when unshareNode deletes a
\* share of which nothing seemed to be left, that takes whoever is in it,
NobodyElse ==
    call.request.op # "unshareAll" =>
        \A u \in People : Asked(u) = "no" => share.access[u] = before.access[u] \/ u \in swept

\* and these are people whom others let in, or who accepted, since the call began.
OnlyLatecomersSwept == call.request.op = "unshare" => \A u \in swept : ~Untouched(u)

\* "If deleting the share fails, [...] it might be a race condition that other client
\* updated the share and it is not empty": a share that is not empty is not deleted.
\* Does not hold, the deletion is forced.
OnlyEmptyIsDeleted == call.request.op = "unshare" => swept = {}

\* The public link survives everything but a call that asks for it; a link the call
\* could not see (outside the own volume) is left out.
LinkIsKept ==
    (call.request.op # "unshareAll" /\ call.request.link = "no" /\ ownVolume /\ "share" \notin touched) =>
        share.link = before.link

\* After a call the client does not go on with a fresh node that does not know of the
\* share, or knows of a deleted one, but for what others did;
\* where an answer was lost the event repairs it.
NodeKnowsShare ==
    (call.phase = "done" /\ "share" \notin touched /\ node.fresh /\ (faults = 0 \/ ~event)) => node.known = share.id

CallEnded == call.phase \in {"done", "failed"}
=============================================================================
