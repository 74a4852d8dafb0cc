------------------------------ MODULE NodeCrypto ------------------------------
(***************************************************************************)
(* Keys, names and signatures of nodes in the JS SDK (js/sdk/src/crypto,   *)
(* internal/nodes/cryptoService.ts and the crypto services of uploads,     *)
(* shares, sharing, devices and public links).                             *)
(*                                                                         *)
(* Cryptography is symbolic: a message records the session key it is       *)
(* encrypted with, the keys that have a key packet for it and the key that *)
(* signed it.  Clients create, rename, move, copy and share nodes, each    *)
(* from its cached node, while the other ones do the same; readers reach a *)
(* node through the parent folder or through a share of the node.          *)
(***************************************************************************)
EXTENDS Integers, FiniteSets

CONSTANTS
    Items,        \* nodes that may come to exist
    OldFiles,     \* those that exist at first, uploaded before 2023
    NodeNames,    \* names
    MaxCryptoOps, \* bound: operations
    MaxCached     \* bound: nodes held in caches at a time

ASSUME NodeCryptoConstants ==
    /\ IsFiniteSet(Items) /\ {"root", "shared", "private", "nowhere"} \cap Items = {}
    /\ OldFiles \subseteq Items /\ \A x, y \in OldFiles : x = y
    /\ \E x, y \in NodeNames : x # y
    /\ MaxCryptoOps \in Nat /\ MaxCached \in Nat

VARIABLES
    drive,     \* [node -> the link as the server stores it, or NoLink]
    shareOf,   \* [node -> its share, or NoShare]
    authorOf,  \* [node -> who really made the key, the name and the content]
    cachedAs,  \* set of [client, node, link, keyAuthor]: decrypted nodes in clients' caches
    cryptoOps  \* operations made

cryptoVars == <<drive, shareOf, authorOf, cachedAs, cryptoOps>>

-------------------------------------------------------------------------------
(* Clients and keys *)

Anonymous == "anonymous"
\* The owner of the volume, a member of the shared folder, a user invited to
\* items, and the visitor of the shared folder's public link.
Clients == {"owner", "member", "guest", Anonymous}
NoLink == [type |-> "none"]
NoShare == [type |-> "none"]
NoKey == [type |-> "none", of |-> "none"]
Nowhere == "nowhere"
Nodes == {"root", "shared", "private"} \cup Items

AddressKey(email) == [type |-> "address", of |-> email]
NodeKeyOf(origin) == [type |-> "node", of |-> origin]
ShareKeyOf(n) == [type |-> "share", of |-> n]

\* Addresses of the owner: the one of the volume's share and an older one.
GetOwnAddresses(client) == IF client = "owner" THEN {"owner", "alias"} ELSE {client}
GetPublicKeys(email) == {AddressKey(email)}

\* Session keys are generated once, with the node; `gen` tells later ones apart.
GenerateSessionKey(n) == [of |-> n, gen |-> 0]

Live(d) == {n \in Nodes : d[n] # NoLink}
Exists(n) == drive[n] # NoLink
NodeKey(n) == NodeKeyOf(drive[n].origin)
IsFolder(n) == drive[n].type = "folder"

-------------------------------------------------------------------------------
(* Messages *)

\* Data encrypted with a session key, for the holders of keys, signed inside.
EncryptAndSignArmored(data, sessionKey, keys, signingKey) ==
    [data |-> data, sessionKey |-> sessionKey, to |-> keys, by |-> signingKey]

\* The same with the signature beside it.
EncryptAndSignDetachedArmored(sessionKey, keys, signingKey) ==
    [message |-> [sessionKey |-> sessionKey, to |-> keys], signature |-> signingKey]

\* A message opens with a key that has a packet in it, or a packet of the
\* share that holds the message's session key.
DecryptArmored(message, key, packets) ==
    key \in message.to \/ [key |-> key, sessionKey |-> message.sessionKey] \in packets

\* Signed and valid: made by one of the keys.
VerifyArmored(by, verificationKeys) == by \in verificationKeys

\* encryptPassphrase: the same passphrase and session key for another parent.
EncryptPassphrase(sessionKey, encryptionKeys, signingKey) ==
    EncryptAndSignDetachedArmored(sessionKey, encryptionKeys, signingKey)

GenerateKey(n, encryptionKeys, signingKey) ==
    EncryptPassphrase(GenerateSessionKey(n), encryptionKeys, signingKey)

EncryptNodeName(name, sessionKey, encryptionKey, signingKey) ==
    EncryptAndSignArmored(name, sessionKey, {encryptionKey}, signingKey)

\* The hash key and the content key packet are signed with the node key.
GenerateHashKey(nodeKey) == nodeKey
GenerateContentKey(nodeKey) == nodeKey
EncryptExtendedAttributes(signingKey) == signingKey
SignManifest(signingKey) == signingKey

GenerateLookupHash(name, hashKeyOf) == [name |-> name, hashKeyOf |-> hashKeyOf]
NoHash == [name |-> "none", hashKeyOf |-> NoKey]

-------------------------------------------------------------------------------
(* Shares and access *)

\* generateShareKeys: packets of the node's passphrase and name for the share.
GenerateShareKeys(n, passphraseKey, nameKey, creator) ==
    [passphrase |-> [key |-> ShareKeyOf(n), sessionKey |-> passphraseKey],
     name |-> [key |-> ShareKeyOf(n), sessionKey |-> nameKey],
     to |-> {NodeKeyOf(drive[n].origin), AddressKey(creator)}, by |-> AddressKey(creator),
     creatorEmail |-> creator, invited |-> {}, members |-> {}]

\* encryptInvitation: the share's session key for the invitee, signed by the inviter.
EncryptInvitation(invitee, inviter) ==
    [invitee |-> invitee, to |-> AddressKey(invitee), inviterEmail |-> inviter, by |-> AddressKey(inviter)]

Memberships(client, n) ==
    IF shareOf[n] = NoShare THEN {} ELSE {m \in shareOf[n].members : m.invitee = client}

Packets(n) == IF shareOf[n] = NoShare THEN {} ELSE {shareOf[n].passphrase, shareOf[n].name}

\* The share's key opens for whoever holds a packet of its session key.
GetSharePrivateKey(client, n) == \E m \in Memberships(client, n) : m.to = AddressKey(client)

PassphraseOpens(n, key) == DecryptArmored(drive[n].passphrase, key, Packets(n))

Children == {n \in Live(drive) : drive[n].parent # Nowhere}

\* From nodes down to all that `children' of theirs reach.
Downwards(from, children) ==
    LET step[depth \in 0 .. Cardinality(Nodes)] ==
            IF depth = 0 THEN from
            ELSE LET above == step[depth - 1] IN above \cup {n \in children : drive[n].parent \in above}
    IN step[Cardinality(Nodes)]

\* Nodes whose key the client can decrypt, from the shares it holds downwards.
Opened(client) ==
    Downwards({n \in Live(drive) : GetSharePrivateKey(client, n) /\ PassphraseOpens(n, ShareKeyOf(n))},
              {n \in Children : PassphraseOpens(n, NodeKey(drive[n].parent))})

\* Nodes the server lets the client read: those shared with it and all below.
Granted(client) == Downwards({n \in Live(drive) : Memberships(client, n) # {}}, Children)

\* A link without access to its parent is given without parentUid.
HasParent(client, n) == drive[n].parent \in Granted(client)

\* getParentKeys: the parent's node key, or the key of the share.
GetParentKey(client, n) == IF HasParent(client, n) THEN NodeKey(drive[n].parent) ELSE ShareKeyOf(n)

-------------------------------------------------------------------------------
(* Reading a node *)

AuthorOk(email) == [ok |-> TRUE, value |-> email]
AuthorError(email) == [ok |-> FALSE, value |-> email]

\* cryptoReporter.ts, handleClaimedAuthor.
HandleClaimedAuthor(verified, claimedAuthor, noVerificationKeys) ==
    IF (claimedAuthor = Anonymous /\ noVerificationKeys) \/ verified
    THEN AuthorOk(claimedAuthor) ELSE AuthorError(claimedAuthor)

\* Anonymous signatures are made with the parent's key.
VerificationKeys(client, n, email) ==
    IF email # Anonymous THEN GetPublicKeys(email)
    ELSE IF HasParent(client, n) THEN {GetParentKey(client, n)} ELSE {}

DecryptKeyAuthor(client, n) ==
    LET keys == VerificationKeys(client, n, drive[n].signatureEmail)
    IN HandleClaimedAuthor(VerifyArmored(drive[n].passphraseSignature, keys), drive[n].signatureEmail, keys = {})

DecryptNameAuthor(client, n) ==
    LET keys == VerificationKeys(client, n, drive[n].nameSignatureEmail)
    IN HandleClaimedAuthor(VerifyArmored(drive[n].name.by, keys), drive[n].nameSignatureEmail, keys = {})

DecryptHashKeyAuthor(n) ==
    LET email == drive[n].signatureEmail
    IN HandleClaimedAuthor(
           VerifyArmored(drive[n].hashKey, {NodeKey(n)} \cup (IF email = Anonymous THEN {} ELSE GetPublicKeys(email))),
           email, FALSE)

\* Attributes that are absent need no signature.
DecryptExtendedAttributes(attributes, verificationKeys, email) ==
    IF attributes = NoKey THEN AuthorOk(email)
    ELSE HandleClaimedAuthor(VerifyArmored(attributes, verificationKeys), email, FALSE)

FolderAttributesAuthor(n) ==
    LET email == drive[n].signatureEmail
    IN DecryptExtendedAttributes(drive[n].attributes,
                                 IF email # Anonymous THEN GetPublicKeys(email) ELSE {NodeKey(n)}, email)

\* decryptRevision.
DecryptRevisionAuthor(n) ==
    LET revision == drive[n].revision
    IN DecryptExtendedAttributes(revision.attributes,
           IF revision.signatureEmail # Anonymous THEN GetPublicKeys(revision.signatureEmail) ELSE {NodeKey(n)},
           revision.signatureEmail)

\* decryptContentKeyPacket: files from before 2023 in the own volume are also
\* checked against all own addresses.
DecryptContentKeyPacket(client, n) ==
    \/ VerifyArmored(drive[n].contentKey,
                     {NodeKey(n)} \cup VerificationKeys(client, n, drive[n].signatureEmail))
    \/ /\ drive[n].old
       /\ client = "owner"
       /\ VerifyArmored(drive[n].contentKey, {AddressKey(a) : a \in GetOwnAddresses(client)})

\* decryptNode: the first signature that fails under the key's email decides.
FinalKeyAuthor(client, n) ==
    LET parts == {DecryptKeyAuthor(client, n)} \cup
                 (IF IsFolder(n) THEN {DecryptHashKeyAuthor(n), FolderAttributesAuthor(n)}
                  ELSE {HandleClaimedAuthor(DecryptContentKeyPacket(client, n), drive[n].signatureEmail, FALSE)})
        failed == {p \in parts : ~p.ok}
    IN IF failed = {} THEN DecryptKeyAuthor(client, n) ELSE CHOOSE p \in failed : TRUE

DecryptsName(client, n) == DecryptArmored(drive[n].name, GetParentKey(client, n), Packets(n))

\* decryptMembership: the inviter's signature of the key packet.
MembershipVerifies(client, n) ==
    \A m \in Memberships(client, n) : VerifyArmored(m.by, GetPublicKeys(m.inviterEmail))

-------------------------------------------------------------------------------
(* Signing keys *)

\* getNodeSigningKeys: the address of the context share, or the node keys for
\* the visitor of a public link.
GetNodeSigningKeys(client, n, parent) ==
    [email |-> client,
     key |-> IF client # Anonymous THEN AddressKey(client) ELSE NoKey,
     nodeKey |-> IF n = Nowhere THEN NoKey ELSE NodeKey(n),
     parentNodeKey |-> NodeKey(parent)]

NamePassphraseKey(signing) == IF signing.email # Anonymous THEN signing.key ELSE signing.parentNodeKey
ContentKey(signing, newKey) ==
    IF signing.email # Anonymous THEN signing.key
    ELSE IF signing.nodeKey # NoKey THEN signing.nodeKey ELSE newKey

-------------------------------------------------------------------------------
(* What the server checks and stores *)

Siblings(parent) == {n \in Live(drive) : drive[n].parent = parent}
HashFree(n, parent, hash) == \A s \in Siblings(parent) \ {n} : drive[s].hash # hash

Below(n) == Downwards({n}, Children)

\* A changed node is loaded again before the client uses it (notifyNodeChanged).
Forget(client, n) == {c \in cachedAs : ~(c.client = client /\ c.node = n)}
Operation == cryptoOps < MaxCryptoOps /\ cryptoOps' = cryptoOps + 1

NewLink(n, type, parent, name, signing) ==
    [type |-> type, parent |-> parent, old |-> FALSE, origin |-> n,
     passphrase |-> GenerateKey(n, {NodeKey(parent)}, NamePassphraseKey(signing)).message,
     passphraseSignature |-> GenerateKey(n, {NodeKey(parent)}, NamePassphraseKey(signing)).signature,
     signatureEmail |-> signing.email,
     name |-> EncryptNodeName(name, GenerateSessionKey(n), NodeKey(parent), NamePassphraseKey(signing)),
     nameSignatureEmail |-> signing.email,
     hash |-> GenerateLookupHash(name, NodeKey(parent)),
     hashKey |-> NoKey, attributes |-> NoKey, contentKey |-> NoKey,
     revision |-> [attributes |-> NoKey, manifest |-> NoKey, signatureEmail |-> signing.email]]

\* cryptoService.createFolder.
CreateFolderCrypto(n, parent, name, signing, withAttributes) ==
    [NewLink(n, "folder", parent, name, signing) EXCEPT
        !.hashKey = GenerateHashKey(NodeKeyOf(n)),
        !.attributes = IF withAttributes THEN EncryptExtendedAttributes(ContentKey(signing, NodeKeyOf(n))) ELSE NoKey]

\* generateFileCrypto and commitFile.
CommitFile(signing, n) ==
    [attributes |-> EncryptExtendedAttributes(ContentKey(signing, NodeKeyOf(n))),
     manifest |-> SignManifest(ContentKey(signing, NodeKeyOf(n))), signatureEmail |-> signing.email]

GenerateFileCrypto(n, parent, name, signing) ==
    [NewLink(n, "file", parent, name, signing) EXCEPT
        !.contentKey = GenerateContentKey(NodeKeyOf(n)), !.revision = CommitFile(signing, n)]

\* generateDocument: a file without attributes whose empty manifest is signed.
GenerateDocument(n, parent, name, signing) ==
    [NewLink(n, "file", parent, name, signing) EXCEPT
        !.contentKey = GenerateContentKey(NodeKeyOf(n)),
        !.revision = [attributes |-> NoKey, manifest |-> SignManifest(ContentKey(signing, NodeKeyOf(n))),
                      signatureEmail |-> signing.email]]

\* Only folders have a hash key.
OpenFolders(client) == {n \in Opened(client) : IsFolder(n)}
\* Nodes the client has the keys of, with their parent.
OpenChildren(client) == {n \in Opened(client) : HasParent(client, n)}

Store(client, n, link) ==
    /\ HashFree(n, link.parent, link.hash)
    /\ drive' = [drive EXCEPT ![n] = link]
    /\ authorOf' = [authorOf EXCEPT ![n] = [key |-> client, name |-> client, content |-> client]]
    /\ UNCHANGED <<shareOf, cachedAs>>

\* Operations are offered on folders and nodes the client has the keys of.

CreateFolder(client, n, parent, name, withAttributes) ==
    /\ Operation
    /\ ~Exists(n)
    /\ Store(client, n, CreateFolderCrypto(n, parent, name, GetNodeSigningKeys(client, Nowhere, parent), withAttributes))

UploadFile(client, n, parent, name) ==
    /\ Operation
    /\ ~Exists(n)
    /\ Store(client, n, GenerateFileCrypto(n, parent, name, GetNodeSigningKeys(client, Nowhere, parent)))

CreateDocument(n, parent, name) ==
    /\ Operation
    /\ ~Exists(n)
    /\ Store(Anonymous, n, GenerateDocument(n, parent, name, GetNodeSigningKeys(Anonymous, Nowhere, parent)))

\* A new revision keeps the node's keys; its attributes and manifest are
\* signed for the uploader.
UploadRevision(client, n) ==
    /\ Operation
    /\ ~IsFolder(n)
    /\ drive' = [drive EXCEPT ![n].revision =
                    CommitFile(GetNodeSigningKeys(client, n, drive[n].parent), drive[n].origin)]
    /\ authorOf' = [authorOf EXCEPT ![n].content = client]
    /\ UNCHANGED <<shareOf, cachedAs>>

\* A device is a root of its own: share key, root node and its name.
CreateDevice(n, name) ==
    /\ Operation
    /\ ~Exists(n)
    /\ drive' = [drive EXCEPT ![n] =
                    [type |-> "folder", parent |-> Nowhere, old |-> FALSE, origin |-> n,
                     passphrase |-> GenerateKey(n, {ShareKeyOf(n)}, AddressKey("owner")).message,
                     passphraseSignature |-> GenerateKey(n, {ShareKeyOf(n)}, AddressKey("owner")).signature,
                     signatureEmail |-> "owner",
                     name |-> EncryptNodeName(name, GenerateSessionKey(n), ShareKeyOf(n), AddressKey("owner")),
                     nameSignatureEmail |-> "owner",
                     hash |-> NoHash, hashKey |-> GenerateHashKey(NodeKeyOf(n)), attributes |-> NoKey, contentKey |-> NoKey,
                     revision |-> [attributes |-> NoKey, manifest |-> NoKey, signatureEmail |-> "owner"]]]
    /\ shareOf' = [shareOf EXCEPT ![n] =
                      [passphrase |-> NoKey, name |-> NoKey, to |-> {AddressKey("owner")}, by |-> AddressKey("owner"),
                       creatorEmail |-> "owner", invited |-> {}, members |-> {EncryptInvitation("owner", "owner")}]]
    /\ authorOf' = [authorOf EXCEPT ![n] = [key |-> "owner", name |-> "owner", content |-> "owner"]]
    /\ UNCHANGED cachedAs

-------------------------------------------------------------------------------
(* Changes made from a cached node *)

LoadNode(client, n) == [client |-> client, node |-> n, link |-> drive[n], keyAuthor |-> FinalKeyAuthor(client, n)]

\* The node as the client has it: from its cache, or loaded now.
NodesSeen(client, n) ==
    LET held == {x \in cachedAs : x.client = client /\ x.node = n}
    IN IF held = {} THEN {LoadNode(client, n)} ELSE held

CacheNode(client, n) ==
    /\ Cardinality(cachedAs) < MaxCached
    /\ \A c \in cachedAs : ~(c.client = client /\ c.node = n)
    /\ cachedAs' = cachedAs \cup {LoadNode(client, n)}
    /\ UNCHANGED <<drive, shareOf, authorOf, cryptoOps>>

\* The event of a change by others: the node is loaded again when next used.
NodeEvent(c) ==
    /\ c.link # drive[c.node]
    /\ cachedAs' = cachedAs \ {c}
    /\ UNCHANGED <<drive, shareOf, authorOf, cryptoOps>>

\* Mutant: the name gets a session key of its own each time.
RenameSessionKeyFresh(seen) == [seen.name.sessionKey EXCEPT !.gen = 1 - @]

\* getNameSessionKey: the session key of the name as it is.
RenameSessionKey(seen) == seen.name.sessionKey

\* The server refuses a change made to another name or folder.
InSync(n, originalHash) == drive[n].hash = originalHash

\* encryptNewName under the parent the client sees.
EncryptNewName(seen, parentKey, name, signing) ==
    EncryptNodeName(name, RenameSessionKey(seen), parentKey, NamePassphraseKey(signing))

\* A node out of sync is forgotten too; a name that is taken changes nothing.
RenameNode(client, n, name) ==
    /\ Operation
    /\ \E seen \in NodesSeen(client, n) :
          LET parent == seen.link.parent
              hash == GenerateLookupHash(name, NodeKey(parent))
              signing == GetNodeSigningKeys(client, n, parent)
              free == HashFree(n, drive[n].parent, hash)
          IN /\ IF InSync(n, seen.link.hash) /\ free
                THEN /\ drive' = [drive EXCEPT ![n].name = EncryptNewName(seen.link, NodeKey(parent), name, signing),
                                               ![n].nameSignatureEmail = signing.email,
                                               ![n].hash = hash]
                     /\ authorOf' = [authorOf EXCEPT ![n].name = client]
                ELSE UNCHANGED <<drive, authorOf>>
             /\ cachedAs' = IF InSync(n, seen.link.hash) /\ ~free THEN cachedAs ELSE Forget(client, n)
    /\ UNCHANGED shareOf

\* renameDevice: the root's name under the share key, without a hash.
RenameDevice(n, name) ==
    /\ Operation
    /\ Exists(n) /\ n \in Opened("owner") /\ drive[n].parent = Nowhere
    /\ drive' = [drive EXCEPT ![n].name = EncryptNodeName(name, RenameSessionKey(drive[n]), ShareKeyOf(n), AddressKey("owner"))]
    /\ UNCHANGED <<shareOf, authorOf, cachedAs>>

\* keyAuthor is ok and null: the signature must come with the move.
AnonymousKey(keyAuthor) == keyAuthor = AuthorOk(Anonymous)

NewParentHash(seen, parent) == GenerateLookupHash(seen.name.data, NodeKey(parent))

\* encryptNodeWithNewParent and the properties sent with it; the signature of the
\* passphrase is sent only where it was missing.
EncryptNodeWithNewParent(client, n, seen, keyAuthor, parent) ==
    LET signing == GetNodeSigningKeys(client, n, parent)
        again == EncryptPassphrase(seen.passphrase.sessionKey, {NodeKey(parent)}, signing.key)
        signed == AnonymousKey(keyAuthor)
    IN [parent |-> parent,
        passphrase |-> again.message,
        passphraseSignature |-> IF signed THEN again.signature ELSE NoKey,
        signatureEmail |-> signing.email,
        name |-> EncryptNodeName(seen.name.data, RenameSessionKey(seen), NodeKey(parent), signing.key),
        hash |-> NewParentHash(seen, parent)]

\* What the server takes from the request; the rest of the link stays.
Moved(n, request) ==
    LET signed == request.passphraseSignature # NoKey
    IN [drive[n] EXCEPT
           !.parent = request.parent, !.passphrase = request.passphrase,
           !.passphraseSignature = IF signed THEN request.passphraseSignature ELSE @,
           !.signatureEmail = IF signed THEN request.signatureEmail ELSE @,
           !.name = request.name, !.nameSignatureEmail = request.signatureEmail, !.hash = request.hash]

MovedAuthor(client, n, request) ==
    [authorOf[n] EXCEPT !.key = IF request.passphraseSignature # NoKey THEN client ELSE @, !.name = client]

\* OriginalHash: of the node whose name is moved.
MoveOriginalHash(n, seen) == seen.hash

MoveNode(client, n, parent) ==
    /\ Operation
    /\ client # Anonymous
    /\ parent \notin Below(n)
    /\ \E seen \in NodesSeen(client, n) :
          LET request == EncryptNodeWithNewParent(client, n, seen.link, seen.keyAuthor, parent)
          IN IF InSync(n, MoveOriginalHash(n, seen.link)) /\ HashFree(n, parent, request.hash)
             THEN /\ drive' = [drive EXCEPT ![n] = Moved(n, request)]
                  /\ authorOf' = [authorOf EXCEPT ![n] = MovedAuthor(client, n, request)]
                  /\ cachedAs' = Forget(client, n)
             ELSE UNCHANGED <<drive, authorOf, cachedAs>>
    /\ UNCHANGED shareOf

\* A copy is another node with the same node key and session keys.
CopyNode(client, n, copy, parent, name) ==
    /\ Operation
    /\ client # Anonymous
    /\ ~IsFolder(n) /\ ~Exists(copy)
    /\ \E seen \in NodesSeen(client, n) :
          LET request == EncryptNodeWithNewParent(client, n, [seen.link EXCEPT !.name.data = name], seen.keyAuthor, parent)
          IN /\ HashFree(copy, parent, request.hash)
             /\ drive' = [drive EXCEPT ![copy] = [Moved(n, request) EXCEPT !.old = FALSE]]
             /\ authorOf' = [authorOf EXCEPT ![copy] = MovedAuthor(client, n, request)]
    /\ UNCHANGED <<shareOf, cachedAs>>

-------------------------------------------------------------------------------
(* Sharing an item *)

ShareNode(client, n) ==
    /\ Operation
    /\ client # Anonymous
    /\ n \in Items /\ shareOf[n] = NoShare
    /\ \E seen \in NodesSeen(client, n) :
          shareOf' = [shareOf EXCEPT ![n] =
                         [GenerateShareKeys(n, seen.link.passphrase.sessionKey, seen.link.name.sessionKey, client)
                          EXCEPT !.invited = {EncryptInvitation("guest", client)}]]
    /\ UNCHANGED <<drive, authorOf, cachedAs>>

AcceptInvitation(n) ==
    /\ Exists(n) /\ shareOf[n] # NoShare
    /\ \E i \in shareOf[n].invited :
          /\ i.to = AddressKey(i.invitee)
          /\ shareOf' = [shareOf EXCEPT ![n].invited = @ \ {i}, ![n].members = @ \cup {i}]
    /\ UNCHANGED <<drive, authorOf, cachedAs, cryptoOps>>

-------------------------------------------------------------------------------
(* The volume before: generateVolumeBootstrap, two folders of the owner and
   files from before 2023 whose content key packet another address of the
   owner signed *)

RootLink ==
    [type |-> "folder", parent |-> Nowhere, old |-> FALSE, origin |-> "root",
     passphrase |-> [sessionKey |-> GenerateSessionKey("root"), to |-> {ShareKeyOf("root")}],
     passphraseSignature |-> AddressKey("owner"), signatureEmail |-> "owner",
     name |-> EncryptNodeName("root", GenerateSessionKey("root"), ShareKeyOf("root"), AddressKey("owner")),
     nameSignatureEmail |-> "owner", hash |-> NoHash, hashKey |-> NodeKeyOf("root"), attributes |-> NoKey,
     contentKey |-> NoKey, revision |-> [attributes |-> NoKey, manifest |-> NoKey, signatureEmail |-> "owner"]]

OwnLink(n, type, parent, name) ==
    [RootLink EXCEPT
        !.type = type, !.parent = parent, !.origin = n,
        !.passphrase = [sessionKey |-> GenerateSessionKey(n), to |-> {NodeKeyOf(parent)}],
        !.name = EncryptNodeName(name, GenerateSessionKey(n), NodeKeyOf(parent), AddressKey("owner")),
        !.hash = GenerateLookupHash(name, NodeKeyOf(parent)),
        !.hashKey = IF type = "folder" THEN NodeKeyOf(n) ELSE NoKey]

OldFile(n, name) == [OwnLink(n, "file", "shared", name) EXCEPT !.old = TRUE, !.contentKey = AddressKey("alias")]

RootShare ==
    [passphrase |-> NoKey, name |-> NoKey, to |-> {AddressKey("owner")}, by |-> AddressKey("owner"),
     creatorEmail |-> "owner", invited |-> {}, members |-> {EncryptInvitation("owner", "owner")}]

FolderShare ==
    [passphrase |-> [key |-> ShareKeyOf("shared"), sessionKey |-> GenerateSessionKey("shared")],
     name |-> [key |-> ShareKeyOf("shared"), sessionKey |-> GenerateSessionKey("shared")],
     to |-> {NodeKeyOf("shared"), AddressKey("owner")}, by |-> AddressKey("owner"), creatorEmail |-> "owner",
     invited |-> {}, members |-> {EncryptInvitation("member", "owner"), EncryptInvitation(Anonymous, "owner")}]

CryptoInit ==
    /\ drive = LET a == CHOOSE x \in NodeNames : TRUE
                   b == CHOOSE x \in NodeNames : x # a
               IN [n \in Nodes |-> CASE n = "root" -> RootLink
                                     [] n = "shared" -> OwnLink(n, "folder", "root", a)
                                     [] n = "private" -> OwnLink(n, "folder", "root", b)
                                     [] n \in OldFiles -> OldFile(n, a)
                                     [] OTHER -> NoLink]
    /\ shareOf = [n \in Nodes |-> CASE n = "root" -> RootShare [] n = "shared" -> FolderShare [] OTHER -> NoShare]
    /\ authorOf = [n \in Nodes |-> [key |-> "owner", name |-> "owner", content |-> "owner"]]
    /\ cachedAs = {}
    /\ cryptoOps = 0

CryptoNext ==
    \/ \E c \in Clients : \E p \in OpenFolders(c), n \in Items, name \in NodeNames :
          \/ UploadFile(c, n, p, name)
          \/ \E x \in BOOLEAN : CreateFolder(c, n, p, name, x)
          \/ c = Anonymous /\ CreateDocument(n, p, name)
    \/ \E n \in Items, name \in NodeNames : CreateDevice(n, name) \/ RenameDevice(n, name)
    \/ \E c \in Clients : \E n \in OpenChildren(c) :
          \/ UploadRevision(c, n) \/ CacheNode(c, n) \/ ShareNode(c, n)
          \/ \E name \in NodeNames : RenameNode(c, n, name)
          \/ \E p \in OpenFolders(c) : MoveNode(c, n, p)
          \/ \E p \in OpenFolders(c), copy \in Items, name \in NodeNames : CopyNode(c, n, copy, p, name)
    \/ \E c \in cachedAs : NodeEvent(c)
    \/ \E n \in Items : AcceptInvitation(n)

CryptoSpec == CryptoInit /\ [][CryptoNext]_cryptoVars

-------------------------------------------------------------------------------
(* Properties *)

\* Type invariant: links, authors and caches; only folders have children.
CryptoTypeOK ==
    /\ \A n \in Live(drive) : /\ drive[n].parent # Nowhere => (Exists(drive[n].parent) /\ IsFolder(drive[n].parent))
                              /\ drive[n].origin \in Nodes
                              /\ drive[n].name.data \in NodeNames \cup {"root"}
                              /\ authorOf[n].key \in Clients /\ authorOf[n].name \in Clients
    /\ \A c \in cachedAs : c.client \in Clients /\ c.node \in Live(drive)
    /\ cryptoOps \in 0 .. MaxCryptoOps

\* Whoever the server lets read a node can decrypt its key and its name, also
\* through a share made before the node was renamed or moved: renames and moves
\* encrypt with the session keys the share's packets hold.
GrantedIsDecryptable ==
    \A c \in Clients : LET opened == Opened(c)
                       IN \A n \in Granted(c) : n \in opened /\ DecryptsName(c, n)

\* Folders whose attributes an anonymous user signed and whose key was signed
\* by the user who moved them: the attributes keep the old signature.
AttributesOfVisitor(n) ==
    IsFolder(n) /\ drive[n].attributes # NoKey /\ drive[n].attributes = NodeKey(n) /\ drive[n].signatureEmail # Anonymous

\* Every reader finds the key, name and content of a node signed by who really
\* made them, however the node was created, renamed, moved and copied since;
\* for packets another address signed this holds for the owner and old files.
AuthorsVerify ==
    \A c \in Clients : \A n \in Granted(c) :
        /\ DecryptNameAuthor(c, n) = AuthorOk(authorOf[n].name)
        /\ (AttributesOfVisitor(n) \/ (drive[n].contentKey = AddressKey("alias") /\ ~(drive[n].old /\ c = "owner")))
           \/ FinalKeyAuthor(c, n) = AuthorOk(authorOf[n].key)
        /\ ~IsFolder(n) => DecryptRevisionAuthor(n) = AuthorOk(authorOf[n].content)
        /\ MembershipVerifies(c, n)

\* No two nodes of a folder have the same name: the lookup hash, the only thing
\* the server compares, is made of the name and the folder's own hash key.
SiblingNamesDiffer ==
    \A n, m \in Live(drive) :
        (n # m /\ drive[n].parent = drive[m].parent /\ drive[n].parent # Nowhere)
            => drive[n].name.data # drive[m].name.data

\* A node moved keeps its name and a node renamed keeps its folder, also when
\* the client's cached node is older than what others did to it.
NoChangeIsUndone ==
    [][\A n \in Live(drive) :
          /\ drive'[n].parent # drive[n].parent => drive'[n].name.data = drive[n].name.data
          /\ drive'[n].name.data # drive[n].name.data => drive'[n].parent = drive[n].parent]_cryptoVars
===============================================================================
