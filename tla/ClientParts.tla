------------------------------ MODULE ClientParts -----------------------------
(***************************************************************************)
(* What the JS SDK does to photos and albums (internal/photos), to the     *)
(* keys, names and signatures of nodes (internal/nodes, crypto), with the  *)
(* session of a public link (internal/sharingPublic/session), with a file  *)
(* that fits into one request (internal/upload/smallFileUploader.ts) and   *)
(* with uploads that meet (internal/upload/manager.ts, queue.ts).  These   *)
(* parts share no state of the client and are explored one at a time:      *)
(* `part' says which.                                                      *)
(***************************************************************************)
EXTENDS PhotoAlbums, NodeCrypto, PublicSession, SmallUpload, UploadDrafts

VARIABLE part

allVars == <<part, photoVars, cryptoVars, linkVars, smallVars, draftVars>>

\* The parts that are not explored have one initial state.
OnePhotos == albumCase = (CHOOSE c \in AlbumCases : TRUE)
OneDrafts == request = (CHOOSE r \in Requests : TRUE)
OneSmall == smallCase = (CHOOSE c \in SmallCases : TRUE) /\ delivered = (CHOOSE n \in StreamSizes : TRUE)

Init ==
    /\ part \in {"photos", "crypto", "link", "small", "drafts"}
    /\ PhotosInit /\ (part = "photos" \/ OnePhotos)
    /\ CryptoInit
    /\ LinkInit
    /\ SmallInit /\ (part = "small" \/ OneSmall)
    /\ DraftsInit /\ (part = "drafts" \/ OneDrafts)

NotPhotos == <<cryptoVars, linkVars, smallVars, draftVars>>
NotCrypto == <<photoVars, linkVars, smallVars, draftVars>>
NotLink == <<photoVars, cryptoVars, smallVars, draftVars>>
NotSmall == <<photoVars, cryptoVars, linkVars, draftVars>>
NotDrafts == <<photoVars, cryptoVars, linkVars, smallVars>>

Next ==
    \/ part = "photos" /\ PhotosNext /\ UNCHANGED part /\ UNCHANGED NotPhotos
    \/ part = "crypto" /\ CryptoNext /\ UNCHANGED part /\ UNCHANGED NotCrypto
    \/ part = "link" /\ LinkNext /\ UNCHANGED part /\ UNCHANGED NotLink
    \/ part = "small" /\ SmallNext /\ UNCHANGED part /\ UNCHANGED NotSmall
    \/ part = "drafts" /\ DraftsNext /\ UNCHANGED part /\ UNCHANGED NotDrafts

Spec == Init /\ [][Next]_allVars

\* The steps the SDK takes by itself once called: requests end, promises settle.
Progress ==
    \/ part = "photos" /\ AlbumStep /\ UNCHANGED part /\ UNCHANGED NotPhotos
    \/ part = "link" /\ LinkStep /\ UNCHANGED part /\ UNCHANGED NotLink
    \/ part = "small" /\ SmallStep /\ UNCHANGED part /\ UNCHANGED NotSmall
    \/ part = "drafts" /\ DraftsStep /\ UNCHANGED part /\ UNCHANGED NotDrafts

\* One condition is enough: no part can take these steps for ever.
FairSpec == Spec /\ WF_allVars(Progress)

\* Type invariant: that of every part.
ClientTypeOK == PhotosTypeOK /\ CryptoTypeOK /\ LinkTypeOK /\ SmallTypeOK /\ DraftsTypeOK

\* Where a part has nothing left to do.
Settled ==
    CASE part = "photos" -> AlbumCallEnded
      [] part = "crypto" -> TRUE
      [] part = "link" -> LinkSettled
      [] part = "small" -> SmallSettled
      [] part = "drafts" -> DraftsSettled

\* What was begun ends: a call on an album, also when the server keeps missing
\* related photos that cannot be read (one retry only); a request of a public link
\* however sessions end under it (one handshake only); a small upload whose block
\* is damaged each time; uploads that delete each other's drafts.
ClientProgress == []<>Settled

\* Calls on photos and albums tell the truth, photo by photo, and lose no photo; no photo
\* they report as done is cached where it was before, and no photo of the timeline is
\* when the call has ended with every request answered.
AlbumCallsAreTrue ==
    /\ OneResultPerPhoto /\ ResultsAreTrue /\ ThrowsOnlyOnFailure
    /\ DeletedAlbumIsSaved /\ ViewFollows

\* However nodes were created, renamed, moved, copied and shared, and from whichever
\* cached copy: who is granted a node decrypts it and finds its true authors, and
\* names are unique in a folder.
NodesAreReadable == GrantedIsDecryptable /\ AuthorsVerify /\ SiblingNamesDiffer

\* Uploads that meet tell the truth and leave nothing behind: success is committed as
\* declared, "already exists" names a file that is there or a draft that was not the
\* upload's to delete or could not be deleted, capacity and drafts are given back.
UploadsAreTrue ==
    /\ StoredAsDeclared /\ OkMeansCommitted /\ ExistsMeansTaken
    /\ CapacityAccounted /\ NoDraftLeftBehind

\* No step undoes what others did: a rename or move from a stale cached node, or the
\* resolution of a conflict with somebody else's draft.
OthersWorkIsKept == NoChangeIsUndone /\ OthersDraftsAreKept
=============================================================================
