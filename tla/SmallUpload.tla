------------------------------ MODULE SmallUpload ------------------------------
(***************************************************************************)
(* Uploads in one request (js/sdk/src/internal/upload/smallFileUploader.ts)*)
(* : the stream is read whole and compared with what the caller declared,  *)
(* the block is encrypted and decrypted again to find damage, thumbnails   *)
(* are encrypted beside it, and block, thumbnails, manifest and attributes *)
(* go to the server together.                                              *)
(***************************************************************************)
EXTENDS Integers, Sequences

CONSTANTS
    SmallCases,          \* [size, sha1, thumbnails]: declared size, digest ("none", "right", "wrong"), thumbnail types
    StreamSizes,         \* bytes the stream may deliver
    MaxEncryptionRetries \* MAX_BLOCK_ENCRYPTION_RETRIES

ASSUME SmallUploadConstants ==
    /\ SmallCases \subseteq [size : Nat, sha1 : {"none", "right", "wrong"}, thumbnails : Seq(Nat)]
    /\ StreamSizes \subseteq Nat /\ MaxEncryptionRetries \in Nat

VARIABLES
    smallCase,
    smallAt,       \* "read", "encrypt", "send", "ok" or "failed"
    delivered,     \* bytes of the stream
    readBytes,     \* bytes read
    attempt,       \* encryptions of the block tried
    block,         \* "none", "pending", "good" or "damaged"
    encryptedThumbs, \* thumbnails encrypted so far, in the order given
    stored,        \* what the server has of this upload
    released       \* times the capacity was given back

smallVars == <<smallCase, smallAt, delivered, readBytes, attempt, block, encryptedThumbs, stored, released>>

NothingStored == [block |-> "none", size |-> 0, manifest |-> <<>>, verified |-> FALSE, is |-> FALSE]

SmallInit ==
    /\ smallCase \in SmallCases /\ delivered \in StreamSizes
    /\ smallAt = "read" /\ readBytes = 0 /\ attempt = 0 /\ block = "pending"
    /\ encryptedThumbs = <<>> /\ stored = NothingStored /\ released = 0

\* upload: whatever happens, onFinish gives the capacity back.
Finish(how) == smallAt' = how /\ released' = released + 1

ReadChunk ==
    /\ smallAt = "read" /\ readBytes < delivered
    /\ readBytes' = readBytes + 1
    /\ UNCHANGED <<smallCase, smallAt, delivered, attempt, block, encryptedThumbs, stored, released>>

\* The keys of the node cannot be made or loaded, or the stream breaks.
StreamFails ==
    /\ smallAt = "read" /\ Finish("failed")
    /\ UNCHANGED <<smallCase, delivered, readBytes, attempt, block, encryptedThumbs, stored>>

\* readStreamContent: size and digest are those declared.
AsDeclared == readBytes = smallCase.size /\ smallCase.sha1 # "wrong"

StreamRead ==
    /\ smallAt = "read" /\ readBytes = delivered
    /\ IF AsDeclared THEN smallAt' = "encrypt" /\ UNCHANGED released ELSE Finish("failed")
    /\ block' = IF readBytes = 0 THEN "none" ELSE block
    /\ UNCHANGED <<smallCase, delivered, readBytes, attempt, encryptedThumbs, stored>>

EncryptThumbnail ==
    /\ smallAt = "encrypt" /\ Len(encryptedThumbs) < Len(smallCase.thumbnails)
    /\ \/ /\ encryptedThumbs' = Append(encryptedThumbs, smallCase.thumbnails[Len(encryptedThumbs) + 1])
          /\ UNCHANGED <<smallAt, released>>
       \/ Finish("failed") /\ UNCHANGED encryptedThumbs
    /\ UNCHANGED <<smallCase, delivered, readBytes, attempt, block, stored>>

\* verifyBlockWithContentKey: the block must decrypt with the content key.
VerifiesBlock(result) == result = "good"

\* Mutant: encryption is tried for ever.
MayEncryptAgainAlways == TRUE

MayEncryptAgain == attempt + 1 <= MaxEncryptionRetries

\* encryptContentBlock: an error, or damage found, is tried again, a few times.
EncryptContentBlock(result) ==
    /\ smallAt = "encrypt" /\ block = "pending"
    /\ attempt' = attempt + 1
    /\ IF VerifiesBlock(result) THEN block' = result /\ UNCHANGED <<smallAt, released>>
       ELSE /\ UNCHANGED block
            /\ IF MayEncryptAgain THEN UNCHANGED <<smallAt, released>> ELSE Finish("failed")
    /\ UNCHANGED <<smallCase, delivered, readBytes, encryptedThumbs, stored>>

\* The elements of a sequence of numbers, sorted.
ByType(s) ==
    LET order == CHOOSE p \in [1 .. Len(s) -> 1 .. Len(s)] :
                     /\ \A i, j \in 1 .. Len(s) : p[i] = p[j] => i = j
                     /\ \A i, j \in 1 .. Len(s) : i < j => s[p[i]] <= s[p[j]] IN
    [i \in 1 .. Len(s) |-> s[order[i]]]

\* getManifest: thumbnails by type, then the block (0).
GetManifest == ByType(encryptedThumbs) \o (IF block = "none" THEN <<>> ELSE <<0>>)

Payload ==
    [block |-> block, size |-> readBytes, manifest |-> GetManifest, verified |-> smallCase.sha1 = "right", is |-> TRUE]

PayloadsBuilt ==
    /\ smallAt = "encrypt" /\ block # "pending" /\ Len(encryptedThumbs) = Len(smallCase.thumbnails)
    /\ smallAt' = "send"
    /\ UNCHANGED <<smallCase, delivered, readBytes, attempt, block, encryptedThumbs, stored, released>>

\* uploadSmallFile and uploadSmallRevision: done, refused, or done and not answered.
UploadSmall ==
    /\ smallAt = "send"
    /\ \/ stored' = Payload /\ Finish("ok")
       \/ stored' = Payload /\ Finish("failed")
       \/ Finish("failed") /\ UNCHANGED stored
    /\ UNCHANGED <<smallCase, delivered, readBytes, attempt, block, encryptedThumbs>>

SmallStep ==
    \/ ReadChunk \/ StreamRead \/ EncryptThumbnail \/ PayloadsBuilt \/ UploadSmall
    \/ \E result \in {"good", "damaged"} : EncryptContentBlock(result)

SmallNext == SmallStep \/ StreamFails

SmallSpec == SmallInit /\ [][SmallNext]_smallVars

-------------------------------------------------------------------------------
(* Properties *)

\* Type invariant: attempts are bounded; the capacity goes back once, at the end.
SmallTypeOK ==
    /\ attempt \in 0 .. MaxEncryptionRetries + 1
    /\ smallAt \in {"read", "encrypt", "send", "ok", "failed"}
    /\ released = IF smallAt \in {"ok", "failed"} THEN 1 ELSE 0

\* What the server stores of an upload is what the caller declared: all of it,
\* in one block that decrypts, marked verified only if its digest was compared,
\* with a manifest over every thumbnail by type and the block, the order a
\* download checks it in; and success is never reported without it.
StoredAsDeclared ==
    /\ smallAt = "ok" => stored.is
    /\ stored.is =>
          /\ stored.size = smallCase.size
          /\ stored.block = IF smallCase.size = 0 THEN "none" ELSE "good"
          /\ stored.verified => smallCase.sha1 = "right"
          /\ smallCase.sha1 # "wrong"
          /\ Len(stored.manifest) = Len(smallCase.thumbnails) + (IF smallCase.size = 0 THEN 0 ELSE 1)
          /\ \A i, j \in 1 .. Len(smallCase.thumbnails) : i < j => stored.manifest[i] <= stored.manifest[j]

\* Liveness: every small upload ends.
SmallSettled == smallAt \in {"ok", "failed"}
===============================================================================
