---------------------------- MODULE UploadProofs ----------------------------
(***************************************************************************)
(* Proofs about Upload, for any number of uploads, names and versions, any *)
(* block size and any length of file: what is committed is the whole file, *)
(* and how a transfer ends is true.                                        *)
(***************************************************************************)
EXTENDS Upload, TLAPS, FiniteSetTheorems, SequenceTheorems

-----------------------------------------------------------------------------
(* The inductive invariant, in three parts per upload: the blocks read so  *)
(* far, the blocks put so far, and what the server and the user see.       *)

BeforeReading == {"idle", "stat", "open", "volume", "parent", "encrypt", "create", "verify"}
AfterCheck == {"lease", "put", "sign", "commit"}

\* The upload has passed the validation of the metadata.
Sized(u) == expected[u] \in Versions /\ Length[expected[u]] \in 1..MaxFileSize

\* A unit is the one of this position, and of the version the upload started from
\* unless the file was edited.
Placed(u, unit, position) ==
    unit[2] = position /\ (edited[u] \/ unit[1] = expected[u])

\* Every unit of the blocks read is in its place.
BlocksPlaced(u) ==
    \A i \in 1..Len(blocks[u]) : \A j \in 1..Len(blocks[u][i]) :
        Placed(u, blocks[u][i][j], (i - 1) * BlockSize + j)

\* While reading: full blocks, and the block in hand continues them.
Reading(u) ==
    /\ \A i \in 1..Len(blocks[u]) : Len(blocks[u][i]) = BlockSize
    /\ total[u] = Len(blocks[u]) * BlockSize
    /\ Len(buf[u]) <= BlockSize
    /\ \A j \in 1..Len(buf[u]) : Placed(u, buf[u][j], total[u] + j)
    /\ edited[u] \/ Position(u) <= Length[expected[u]]

\* After reading: all blocks but the last are full, and total is their length.
Cut(u) ==
    \/ blocks[u] = <<>> /\ total[u] = 0
    \/ /\ blocks[u] # <<>>
       /\ \A i \in 1..(Len(blocks[u]) - 1) : Len(blocks[u][i]) = BlockSize
       /\ Len(blocks[u][Len(blocks[u])]) \in 1..BlockSize
       /\ total[u] = (Len(blocks[u]) - 1) * BlockSize + Len(blocks[u][Len(blocks[u])])

ReadInv(u) ==
    /\ pc[u] \in BeforeReading => buf[u] = <<>> /\ blocks[u] = <<>> /\ total[u] = 0
    /\ pc[u] \in Working \ {"stat"} => Sized(u)
    /\ pc[u] \in BeforeCheck => edited[u] \/ local[NameOf[u]] = expected[u]
    /\ pc[u] = "read" => Reading(u) /\ BlocksPlaced(u)
    /\ pc[u] \in {"check"} \cup AfterCheck => Cut(u) /\ BlocksPlaced(u)
    /\ pc[u] = "check" => edited[u] \/ total[u] = Length[expected[u]]
    /\ pc[u] \in AfterCheck => blocks[u] # <<>> /\ total[u] = Length[expected[u]]

SendInv(u) ==
    /\ pc[u] \in (Working \cup {"idle"}) \ {"put", "sign", "commit"} =>
           next[u] = 1 /\ \A i \in Index : stored[u][i] = <<>>
    /\ pc[u] = "put" =>
           /\ Len(links[u]) = Len(blocks[u])
           /\ \A i \in 1..Len(blocks[u]) : links[u][i] = i
           /\ next[u] \in 1..Len(blocks[u])
    /\ pc[u] \in {"sign", "commit"} => next[u] = Len(blocks[u]) + 1
    /\ pc[u] \in {"put", "sign", "commit"} =>
           /\ \A i \in Index : i < next[u] => stored[u][i] = blocks[u][i]
           /\ \A i \in Index : i > next[u] => stored[u][i] = <<>>
           /\ next[u] \in Index => stored[u][next[u]] = <<>> \/
                  (pc[u] = "put" /\ stored[u][next[u]] = blocks[u][next[u]])

Committed(u) == Owns(u) /\ node[NameOf[u]].active

\* What CommittedIsWhole says of one upload.
Whole(u) ==
    \A i \in Index :
        /\ Len(stored[u][i]) = BlockLength(Length[expected[u]], i)
        /\ \A j \in 1..Len(stored[u][i]) : Placed(u, stored[u][i][j], (i - 1) * BlockSize + j)

ServerInv(u) ==
    /\ Committed(u) => pc[u] \in {"commit", "done", "dead"} /\ Whole(u)
    /\ outcome[u] = "ok" \/ state[u] = "completed" => Committed(u)
    /\ outcome[u] \in {"size", "empty"} => edited[u]
    /\ outcome[u] # None => pc[u] = "done"
    /\ pc[u] = "idle" => state[u] = "none"

UploadInv == \A u \in Uploads : ReadInv(u) /\ SendInv(u) /\ ServerInv(u)

-----------------------------------------------------------------------------
(* Arithmetic and the sorted links.                                        *)

\* Positions of blocks grow with their index.
LEMMA Multiples ==
    ASSUME NEW a \in Int, NEW b \in Int
    PROVE  /\ a * BlockSize \in Int
           /\ (a + 1) * BlockSize = a * BlockSize + BlockSize
           /\ (a - 1) * BlockSize = a * BlockSize - BlockSize
           /\ a <= b => a * BlockSize <= b * BlockSize
           /\ a >= 0 => a * BlockSize >= a
<1>1. BlockSize \in Nat /\ BlockSize >= 1
  BY UploadConstants
<1>2. a <= b => a * BlockSize <= b * BlockSize
  BY <1>1
<1>3. a >= 0 => a * BlockSize >= a
  BY <1>1
<1> QED
  BY <1>1, <1>2, <1>3

\* sort_by_key of one link per block is the list of the blocks' indices: link i is
\* the one for block i, in whatever order the server answered.
LEMMA SortedIsIdentity ==
    ASSUME NEW n \in Nat, NEW reply \in Leases(n), Len(reply) = n
    PROVE  SortedByIndex(reply) = [i \in 1..n |-> i]
<1>1. reply \in [1..n -> 1..n] /\ \A i, j \in 1..n : reply[i] = reply[j] => i = j
  <2>1. PICK k \in 0..n : /\ reply \in [1..k -> 1..n]
                          /\ \A i, j \in 1..k : reply[i] = reply[j] => i = j
    BY DEF Leases
  <2>2. Len(reply) = k
    BY <2>1
  <2> QED
    BY <2>1, <2>2
<1>2. reply \in Injection(1..n, 1..n)
  BY <1>1 DEF Injection, IsInjective
<1>3. IsFiniteSet(1..n)
  BY FS_Interval
<1>4. reply \in Surjection(1..n, 1..n)
  BY <1>2, <1>3, FS_Injection
<1>5. {reply[j] : j \in 1..n} = 1..n
  BY <1>1, <1>4 DEF Surjection
<1>6. ASSUME NEW x \in 1..n
      PROVE  Cardinality({j \in 1..n : reply[j] < x}) = x - 1
  <2> DEFINE S == {j \in 1..n : reply[j] < x}
             f == [j \in S |-> reply[j]]
  <2>1. f \in [S -> 1..(x - 1)]
    BY <1>1
  <2>2. f \in Injection(S, 1..(x - 1))
    BY <1>1, <2>1 DEF Injection, IsInjective
  <2>3. f \in Surjection(S, 1..(x - 1))
    <3>1. \A y \in 1..(x - 1) : \E j \in S : f[j] = y
      BY <1>1, <1>5
    <3> QED
      BY <2>1, <3>1 DEF Surjection
  <2>4. IsFiniteSet(S)
    BY <1>3, FS_Subset
  <2>5. f \in Bijection(S, 1..(x - 1))
    BY <2>2, <2>3 DEF Bijection
  <2>6. Cardinality(1..(x - 1)) = Cardinality(S)
    BY <2>4, <2>5, FS_Bijection DEF ExistsBijection
  <2> QED
    BY <2>6, FS_Interval
<1>7. ASSUME NEW i \in 1..n
      PROVE  i = CHOOSE x \in 1..n : Cardinality({j \in 1..n : reply[j] < x}) = i - 1
  BY <1>6
<1> QED
  BY <1>5, <1>7 DEF SortedByIndex

-----------------------------------------------------------------------------
(* Types.                                                                  *)

\* Where a step of the task leaves the upload.
LEMMA StepTypes ==
    ASSUME TypeOK, NEW u \in Uploads,
           \/ \E step \in Working : Advance(u, step)
           \/ \E result \in Outcome : Finish(u, result)
           \/ Retry(u)
    PROVE  /\ pc' \in [Uploads -> Working \cup {"idle", "done", "dead"}]
           /\ tries' \in [Uploads -> 0..MaxAttempts]
           /\ outcome' \in [Uploads -> Outcome]
<1> USE UploadConstants DEF TypeOK
<1>1. CASE \E step \in Working : Advance(u, step)
  BY <1>1 DEF Advance
<1>2. CASE \E result \in Outcome : Finish(u, result)
  BY <1>2 DEF Finish
<1>3. CASE Retry(u)
  BY <1>3 DEF Retry
<1> QED
  BY <1>1, <1>2, <1>3

\* Blocks after the check are as many as the links the server can be asked for.
LEMMA BlocksWithinIndex ==
    ASSUME TypeOK, NEW u \in Uploads, ReadInv(u), pc[u] \in AfterCheck
    PROVE  Len(blocks[u]) \in Index /\ \A i \in 1..Len(blocks[u]) : blocks[u][i] \in Block
<1>1. /\ blocks[u] \in Seq(Block) /\ blocks[u] # <<>> /\ Cut(u) /\ Sized(u)
      /\ total[u] = Length[expected[u]]
  BY DEF ReadInv, TypeOK, AfterCheck, Working, Http
<1>2. Len(blocks[u]) \in Nat /\ Len(blocks[u]) >= 1
  BY <1>1
<1>3. Len(blocks[u][Len(blocks[u])]) \in 1..BlockSize /\ total[u] \in Nat
  BY <1>1 DEF Cut, TypeOK
<1>4. (Len(blocks[u]) - 1) * BlockSize >= Len(blocks[u]) - 1
  BY <1>2, Multiples
<1>5. (Len(blocks[u]) - 1) * BlockSize \in Int
  BY <1>2, Multiples
<1>6. total[u] = (Len(blocks[u]) - 1) * BlockSize + Len(blocks[u][Len(blocks[u])])
  BY <1>1 DEF Cut
<1>7. total[u] <= MaxFileSize
  BY <1>1, UploadConstants DEF Sized
<1> HIDE DEF Index
<1>8. ASSUME NEW first \in Int, NEW last \in 1..BlockSize, NEW l \in Nat, NEW t \in Nat,
             first >= l - 1, t = first + last, t <= MaxFileSize
      PROVE  l <= MaxFileSize
  BY <1>8, UploadConstants
<1>9. Len(blocks[u]) <= MaxFileSize
  BY <1>2, <1>3, <1>4, <1>5, <1>6, <1>7, <1>8
<1> QED
  BY <1>1, <1>2, <1>9, UploadConstants DEF Index

\* No step of a task, the user, another program or the server leaves the types.
LEMMA TypeStep == TypeOK /\ UploadInv /\ [Next]_vars => TypeOK'
<1> SUFFICES ASSUME TypeOK, UploadInv, [Next]_vars PROVE TypeOK'
  OBVIOUS
<1> USE UploadConstants DEF files, server, reading, sending, ui
<1>1. ASSUME NEW u \in Uploads, SpawnUpload(u) PROVE TypeOK'
  BY <1>1 DEF SpawnUpload, TypeOK, Working
<1>2. ASSUME NEW u \in Uploads, Poll(u) PROVE TypeOK'
  BY <1>2 DEF Poll, TypeOK, Terminal
<1>3. ASSUME NEW u \in Uploads, CancelTransfer(u) PROVE TypeOK'
  <2>1. cancelled' \in [Uploads -> BOOLEAN]
    BY <1>3 DEF CancelTransfer, TypeOK
  <2> QED
    BY <1>3, <2>1 DEF CancelTransfer, TypeOK, Terminal
<1>4. ASSUME NEW n \in Names, NEW v \in Versions, Edit(n, v) PROVE TypeOK'
  <2>1. edited' \in [Uploads -> BOOLEAN]
    BY <1>4 DEF Edit, TypeOK
  <2> QED
    BY <1>4, <2>1 DEF Edit, TypeOK
<1>5. ASSUME NEW n \in Names, ReapDraft(n) PROVE TypeOK'
  <2>1. node' \in [Names -> [owner: Uploads \cup {None}, active: BOOLEAN]]
    BY <1>5 DEF ReapDraft, TypeOK, NoNode
  <2> QED
    BY <1>5, <2>1 DEF ReapDraft, TypeOK
<1>6. CASE ProcessEnds
  BY <1>6 DEF ProcessEnds, TypeOK, Outcome
<1>7. ASSUME NEW u \in Uploads, Stat(u) PROVE TypeOK'
  <2>1. \/ \E step \in Working : Advance(u, step)
        \/ \E result \in Outcome : Finish(u, result)
    BY <1>7 DEF Stat, Working, Outcome, Results
  <2>2. expected' \in [Uploads -> Versions \cup {None}]
    <3>1. local[NameOf[u]] \in Versions
      BY DEF TypeOK
    <3> QED
      BY <1>7, <3>1 DEF Stat, TypeOK
  <2> QED
    BY <1>7, <2>1, <2>2, StepTypes DEF Stat, TypeOK
<1>8. ASSUME NEW u \in Uploads,
             \/ Open(u) \/ ResolveVolume(u) \/ ResolveParent(u) \/ EncryptNode(u)
             \/ GetVerificationCode(u) \/ StopAtEof(u) \/ CheckSize(u) \/ SignManifest(u)
             \/ RequestLost(u) \/ StepFails(u)
      PROVE  TypeOK'
  <2>1. \/ \E step \in Working : Advance(u, step)
        \/ \E result \in Outcome : Finish(u, result)
        \/ Retry(u)
    BY <1>8 DEF Open, ResolveVolume, ResolveParent, EncryptNode, GetVerificationCode, StopAtEof,
       CheckSize, SignManifest, RequestLost, StepFails, Working, Http, Outcome, Results
  <2>2. UNCHANGED <<files, server, reading, sending, ui>>
    BY <1>8 DEF Open, ResolveVolume, ResolveParent, EncryptNode, GetVerificationCode, StopAtEof,
       CheckSize, SignManifest, RequestLost, StepFails
  <2> QED
    BY <2>1, <2>2, StepTypes DEF TypeOK
<1>9. ASSUME NEW u \in Uploads, CreateFile(u) PROVE TypeOK'
  <2>1. \/ \E step \in Working : Advance(u, step)
        \/ \E result \in Outcome : Finish(u, result)
        \/ Retry(u)
    BY <1>9 DEF CreateFile, ReplyLost, Working, Http, Outcome, Results
  <2>2. node' \in [Names -> [owner: Uploads \cup {None}, active: BOOLEAN]]
    <3>1. Draft(u) \in [owner: Uploads \cup {None}, active: BOOLEAN]
      BY DEF Draft
    <3> QED
      BY <1>9, <3>1 DEF CreateFile, TypeOK
  <2> QED
    BY <1>9, <2>1, <2>2, StepTypes DEF CreateFile, TypeOK
<1>10. ASSUME NEW u \in Uploads, ReadSome(u) PROVE TypeOK'
  <2> DEFINE v == local[NameOf[u]]
  <2>1. PICK n \in 1..(BlockSize - Len(buf[u])) :
            buf' = [buf EXCEPT ![u] = @ \o [i \in 1..n |-> <<v, Position(u) + i>>]]
    BY <1>10 DEF ReadSome
  <2>2. buf[u] \in Seq(Unit) /\ Len(buf[u]) \in Nat /\ total[u] \in Nat
    BY DEF TypeOK, Block
  <2>3. n \in Nat /\ \A i \in 1..n : <<v, Position(u) + i>> \in Unit
    BY <2>2 DEF TypeOK, Unit, Position
  <2>4. [i \in 1..n |-> <<v, Position(u) + i>>] \in Seq(Unit)
    BY <2>3
  <2>5. buf[u] \o [i \in 1..n |-> <<v, Position(u) + i>>] \in Seq(Unit)
    BY <2>2, <2>4, ConcatProperties
  <2>6. buf' \in [Uploads -> Block]
    BY <2>1, <2>5 DEF TypeOK, Block
  <2> QED
    BY <1>10, <2>6 DEF ReadSome, TypeOK
<1>11. ASSUME NEW u \in Uploads, FinishBlock(u) PROVE TypeOK'
  <2>1. \E step \in Working : Advance(u, step)
    BY <1>11 DEF FinishBlock, Working
  <2>2. buf[u] \in Block /\ blocks[u] \in Seq(Block) /\ Len(buf[u]) \in Nat /\ <<>> \in Block
    BY DEF TypeOK, Block
  <2>3. Append(blocks[u], buf[u]) \in Seq(Block)
    BY <2>2, AppendProperties
  <2>4. /\ blocks' \in [Uploads -> Seq(Block)]
        /\ total' \in [Uploads -> Nat]
        /\ buf' \in [Uploads -> Block]
    BY <1>11, <2>2, <2>3 DEF FinishBlock, TypeOK
  <2> QED
    BY <1>11, <2>1, <2>4, StepTypes DEF FinishBlock, TypeOK
<1>12. ASSUME NEW u \in Uploads, RequestBlocks(u) PROVE TypeOK'
  <2>1. \/ \E step \in Working : Advance(u, step)
        \/ \E result \in Outcome : Finish(u, result)
    BY <1>12 DEF RequestBlocks, Working, Http, Outcome, Results
  <2>2. links' \in [Uploads -> Seq(Index)]
    <3>1. CASE UNCHANGED links
      BY <3>1 DEF TypeOK
    <3>2. CASE \E reply \in Leases(Len(blocks[u])) :
                  /\ Len(reply) = Len(blocks[u])
                  /\ links' = [links EXCEPT ![u] = SortedByIndex(reply)]
      <4>1. Len(blocks[u]) \in Index
        BY <1>12, BlocksWithinIndex DEF RequestBlocks, UploadInv, AfterCheck
      <4>2. links' = [links EXCEPT ![u] = [i \in 1..Len(blocks[u]) |-> i]]
        <5>1. PICK reply \in Leases(Len(blocks[u])) :
                  /\ Len(reply) = Len(blocks[u])
                  /\ links' = [links EXCEPT ![u] = SortedByIndex(reply)]
          BY <3>2
        <5>2. Len(blocks[u]) \in Nat
          BY <4>1 DEF Index
        <5>3. SortedByIndex(reply) = [i \in 1..Len(blocks[u]) |-> i]
          BY <5>1, <5>2, SortedIsIdentity
        <5> QED
          BY <5>1, <5>3
      <4>3. [i \in 1..Len(blocks[u]) |-> i] \in Seq(Index)
        BY <4>1 DEF Index
      <4> QED
        BY <4>2, <4>3 DEF TypeOK
    <3> QED
      BY <1>12, <3>1, <3>2 DEF RequestBlocks
  <2> QED
    BY <1>12, <2>1, <2>2, StepTypes DEF RequestBlocks, TypeOK
<1>13. ASSUME NEW u \in Uploads, PutBlock(u) PROVE TypeOK'
  <2>1. \/ \E step \in Working : Advance(u, step)
        \/ \E result \in Outcome : Finish(u, result)
        \/ Retry(u)
    BY <1>13 DEF PutBlock, ReplyLost, Working, Http, Outcome, Results
  <2>2. next[u] \in 1..Len(blocks[u]) /\ blocks[u][next[u]] \in Block
    BY <1>13, BlocksWithinIndex DEF PutBlock, UploadInv, SendInv, AfterCheck
  <2>3. stored' \in [Uploads -> [Index -> Block]]
    <3>1. [stored[u] EXCEPT ![links[u][next[u]]] = blocks[u][next[u]]] \in [Index -> Block]
      BY <2>2 DEF TypeOK
    <3>2. stored' = [stored EXCEPT ![u] =
                        [stored[u] EXCEPT ![links[u][next[u]]] = blocks[u][next[u]]]]
      BY <1>13 DEF PutBlock
    <3> QED
      BY <3>1, <3>2 DEF TypeOK
  <2>4. next' \in [Uploads -> Nat \ {0}]
    <3>1. next' = [next EXCEPT ![u] = @ + 1] \/ next' = next
      BY <1>13 DEF PutBlock
    <3>2. next \in [Uploads -> Nat \ {0}] /\ next[u] + 1 \in Nat \ {0}
      BY DEF TypeOK
    <3> QED
      BY <3>1, <3>2
  <2> QED
    BY <1>13, <2>1, <2>3, <2>4, StepTypes DEF PutBlock, TypeOK
<1>14. ASSUME NEW u \in Uploads, CommitRevision(u) PROVE TypeOK'
  <2>1. \/ \E result \in Outcome : Finish(u, result)
        \/ Retry(u)
    BY <1>14 DEF CommitRevision, ReplyLost, Outcome, Results
  <2>2. node' \in [Names -> [owner: Uploads \cup {None}, active: BOOLEAN]]
    BY <1>14 DEF CommitRevision, TypeOK
  <2> QED
    BY <1>14, <2>1, <2>2, StepTypes DEF CommitRevision, TypeOK
<1>15. CASE UNCHANGED vars
  BY <1>15 DEF vars, TypeOK
<1> QED
  BY <1>1, <1>2, <1>3, <1>4, <1>5, <1>6, <1>7, <1>8, <1>9, <1>10, <1>11, <1>12, <1>13,
     <1>14, <1>15 DEF Next, Task

-----------------------------------------------------------------------------
(* What a step leaves alone.                                               *)

\* The file and the blocks of an upload are as before.
SameFile(u) ==
    /\ local'[NameOf[u]] = local[NameOf[u]] /\ edited'[u] = edited[u]
    /\ expected'[u] = expected[u] /\ buf'[u] = buf[u]
    /\ blocks'[u] = blocks[u] /\ total'[u] = total[u]

\* What was put for it is as before.
SameSent(u) == links'[u] = links[u] /\ next'[u] = next[u] /\ stored'[u] = stored[u]

\* How it ended is as before.
SameEnd(u) == outcome'[u] = outcome[u] /\ state'[u] = state[u]

\* The step of one upload leaves everything of another one but the node alone.
LEMMA OthersAreLeft ==
    ASSUME TypeOK, NEW u \in Uploads, NEW w \in Uploads, w # u,
           SpawnUpload(w) \/ Task(w) \/ Poll(w) \/ CancelTransfer(w)
    PROVE  pc'[u] = pc[u] /\ SameFile(u) /\ SameSent(u) /\ SameEnd(u)
<1> USE DEF TypeOK, files, server, reading, sending, ui, SameFile, SameSent, SameEnd
<1>1. ASSUME NEW x, Advance(w, x) \/ Finish(w, x) \/ ReplyLost(w) \/ Retry(w)
      PROVE  pc'[u] = pc[u] /\ outcome'[u] = outcome[u]
  BY <1>1 DEF Advance, Finish, Retry, ReplyLost
<1>2. CASE SpawnUpload(w) \/ Poll(w) \/ CancelTransfer(w)
  BY <1>2 DEF SpawnUpload, Poll, CancelTransfer
<1>3. CASE \/ Open(w) \/ ResolveVolume(w) \/ ResolveParent(w) \/ EncryptNode(w)
           \/ CreateFile(w) \/ GetVerificationCode(w) \/ StopAtEof(w) \/ CheckSize(w)
           \/ SignManifest(w) \/ CommitRevision(w) \/ RequestLost(w) \/ StepFails(w)
  <2>1. UNCHANGED <<files, stored, reading, sending, ui>>
    BY <1>3 DEF Open, ResolveVolume, ResolveParent, EncryptNode, CreateFile, GetVerificationCode,
       StopAtEof, CheckSize, SignManifest, CommitRevision, RequestLost, StepFails
  <2>2. \E x : Advance(w, x) \/ Finish(w, x) \/ ReplyLost(w) \/ Retry(w)
    BY <1>3 DEF Open, ResolveVolume, ResolveParent, EncryptNode, CreateFile, GetVerificationCode,
       StopAtEof, CheckSize, SignManifest, CommitRevision, RequestLost, StepFails
  <2> QED
    BY <1>1, <2>1, <2>2
<1>4. CASE Stat(w)
  <2>1. \E x : Advance(w, x) \/ Finish(w, x)
    BY <1>4 DEF Stat
  <2>2. expected'[u] = expected[u]
    BY <1>4 DEF Stat
  <2> QED
    BY <1>1, <1>4, <2>1, <2>2 DEF Stat
<1>5. CASE ReadSome(w)
  BY <1>5 DEF ReadSome
<1>6. CASE FinishBlock(w)
  <2>1. \E x : Advance(w, x)
    BY <1>6 DEF FinishBlock
  <2> QED
    BY <1>1, <1>6, <2>1 DEF FinishBlock
<1>7. CASE RequestBlocks(w)
  <2>1. \E x : Advance(w, x) \/ Finish(w, x)
    BY <1>7 DEF RequestBlocks
  <2>2. links'[u] = links[u]
    BY <1>7 DEF RequestBlocks
  <2> QED
    BY <1>1, <1>7, <2>1, <2>2 DEF RequestBlocks
<1>8. CASE PutBlock(w)
  <2>1. \E x : Advance(w, x) \/ ReplyLost(w)
    BY <1>8 DEF PutBlock
  <2>2. stored'[u] = stored[u] /\ next'[u] = next[u]
    BY <1>8 DEF PutBlock
  <2> QED
    BY <1>1, <1>8, <2>1, <2>2 DEF PutBlock
<1> QED
  BY <1>2, <1>3, <1>4, <1>5, <1>6, <1>7, <1>8 DEF Task

\* The parts of the invariant about the file depend on nothing else.
LEMMA KeepsRead ==
    ASSUME NEW u \in Uploads, SameFile(u)
    PROVE  /\ Sized(u) => Sized(u)'
           /\ Reading(u) => Reading(u)'
           /\ BlocksPlaced(u) => BlocksPlaced(u)'
           /\ Cut(u) => Cut(u)'
BY DEF SameFile, Sized, Reading, BlocksPlaced, Cut, Placed, Position

-----------------------------------------------------------------------------
(* Reading.                                                                *)

\* Where the file of an upload and its place are as before, so is the invariant.
LEMMA ReadFrame ==
    ASSUME NEW u \in Uploads, ReadInv(u), SameFile(u), pc'[u] = pc[u]
    PROVE  ReadInv(u)'
<1>1. /\ local'[NameOf[u]] = local[NameOf[u]] /\ edited'[u] = edited[u]
      /\ expected'[u] = expected[u] /\ buf'[u] = buf[u]
      /\ blocks'[u] = blocks[u] /\ total'[u] = total[u]
  BY DEF SameFile
<1> QED
  BY <1>1, KeepsRead DEF ReadInv

\* A block is started or continued with the next units of the file.
LEMMA ReadSomeReads ==
    ASSUME TypeOK, NEW u \in Uploads, ReadInv(u), ReadSome(u)
    PROVE  ReadInv(u)'
<1> DEFINE v == local[NameOf[u]]
<1>1. PICK n \in 1..(BlockSize - Len(buf[u])) :
          /\ Position(u) + n <= Length[v]
          /\ buf' = [buf EXCEPT ![u] = @ \o [i \in 1..n |-> <<v, Position(u) + i>>]]
  BY DEF ReadSome
<1>2. /\ pc[u] = "read" /\ pc' = pc
      /\ UNCHANGED <<local, edited, expected, blocks, total>>
  BY DEF ReadSome, files
<1>3. Reading(u) /\ BlocksPlaced(u) /\ Sized(u) /\ (edited[u] \/ v = expected[u])
  BY <1>2 DEF ReadInv, Working, BeforeCheck
<1> DEFINE more == [i \in 1..n |-> <<v, Position(u) + i>>]
<1>4. buf[u] \in Seq(Unit) /\ Len(buf[u]) \in Nat /\ total[u] \in Nat /\ n \in Nat
  BY UploadConstants DEF TypeOK, Block
<1>5. more \in Seq(Unit) /\ Len(more) = n
  <2>1. \A i \in 1..n : <<v, Position(u) + i>> \in Unit
    <3>1. v \in Versions /\ Position(u) \in Nat
      BY <1>4, UploadConstants DEF Position, TypeOK
    <3> QED
      BY <3>1 DEF Unit
  <2> QED
    BY <1>4, <2>1
<1>10. /\ \A i \in 1..n : more[i] = <<v, Position(u) + i>>
       /\ buf'[u] = buf[u] \o more
  BY <1>1 DEF TypeOK
<1> HIDE DEF more
<1>6. /\ Len(buf'[u]) = Len(buf[u]) + n
      /\ \A j \in 1..(Len(buf[u]) + n) :
            buf'[u][j] = IF j <= Len(buf[u]) THEN buf[u][j] ELSE more[j - Len(buf[u])]
  <2>1. /\ Len(buf[u] \o more) = Len(buf[u]) + Len(more)
        /\ \A j \in 1..(Len(buf[u]) + Len(more)) :
              (buf[u] \o more)[j] = IF j <= Len(buf[u]) THEN buf[u][j] ELSE more[j - Len(buf[u])]
    BY <1>4, <1>5, ConcatProperties
  <2> QED
    BY <1>5, <1>10, <2>1
<1>7. \A j \in 1..Len(buf'[u]) : Placed(u, buf'[u][j], total[u] + j)
  <2> SUFFICES ASSUME NEW j \in 1..Len(buf'[u]) PROVE Placed(u, buf'[u][j], total[u] + j)
    OBVIOUS
  <2>0. j \in 1..(Len(buf[u]) + n)
    BY <1>6
  <2>1. CASE j <= Len(buf[u])
    <3>1. buf'[u][j] = buf[u][j] /\ j \in 1..Len(buf[u])
      BY <1>4, <1>6, <2>0, <2>1
    <3> QED
      BY <1>3, <3>1 DEF Reading
  <2>2. CASE j > Len(buf[u])
    <3>1. j - Len(buf[u]) \in 1..n
      BY <1>4, <2>0, <2>2
    <3>2. buf'[u][j] = <<v, Position(u) + (j - Len(buf[u]))>>
      <4>1. buf'[u][j] = more[j - Len(buf[u])]
        BY <1>4, <1>6, <2>0, <2>2
      <4> QED
        BY <1>10, <3>1, <4>1
    <3>3. Position(u) + (j - Len(buf[u])) = total[u] + j
      BY <1>4, <1>6 DEF Position
    <3> QED
      BY <1>3, <3>2, <3>3 DEF Placed
  <2> QED
    BY <1>4, <2>0, <2>1, <2>2
<1>8. Len(buf'[u]) <= BlockSize
  BY <1>4, <1>6, UploadConstants
<1>9. edited[u] \/ Position(u)' <= Length[expected[u]]
  BY <1>1, <1>2, <1>3, <1>4, <1>6 DEF Position
<1>11. Reading(u)' /\ BlocksPlaced(u)' /\ Sized(u)'
  <2>1. BlocksPlaced(u)' /\ Sized(u)'
    BY <1>2, <1>3 DEF BlocksPlaced, Sized, Placed
  <2> QED
    BY <1>2, <1>3, <1>7, <1>8, <1>9, <2>1 DEF Reading, Placed
<1> QED
  BY <1>2, <1>3, <1>11 DEF ReadInv, BeforeReading, AfterCheck

\* The block in hand becomes the next one, or the last one.
LEMMA FinishBlockCuts ==
    ASSUME TypeOK, NEW u \in Uploads, ReadInv(u), FinishBlock(u)
    PROVE  ReadInv(u)'
<1> DEFINE L == Len(blocks[u])
           B == Len(buf[u])
<1>1. /\ pc[u] = "read" /\ buf[u] # <<>>
      /\ B = BlockSize \/ AtEof(u)
      /\ pc'[u] = IF B < BlockSize THEN "check" ELSE "read"
      /\ UNCHANGED <<local, edited, expected>>
  BY DEF FinishBlock, Advance, TypeOK, files
<1>2. /\ blocks'[u] = Append(blocks[u], buf[u])
      /\ total'[u] = total[u] + B
      /\ buf'[u] = <<>>
  BY DEF FinishBlock, TypeOK
<1>3. Reading(u) /\ BlocksPlaced(u) /\ Sized(u) /\ (edited[u] \/ local[NameOf[u]] = expected[u])
  BY <1>1 DEF ReadInv, Working, BeforeCheck
<1>4. /\ buf[u] \in Block /\ blocks[u] \in Seq(Block) /\ total[u] \in Nat
      /\ L \in Nat /\ B \in Nat \ {0} /\ BlockSize \in Nat \ {0}
  BY <1>1, UploadConstants DEF TypeOK, Block
<1>5. /\ Len(blocks'[u]) = L + 1
      /\ \A i \in 1..L : blocks'[u][i] = blocks[u][i]
      /\ blocks'[u][L + 1] = buf[u]
      /\ blocks'[u] # <<>>
  BY <1>2, <1>4, AppendProperties
<1>6. total[u] = L * BlockSize /\ L * BlockSize \in Int
      /\ (L + 1) * BlockSize = L * BlockSize + BlockSize
  BY <1>3, <1>4, Multiples DEF Reading
<1>7. BlocksPlaced(u)'
  <2> SUFFICES ASSUME NEW i \in 1..(L + 1), NEW j \in 1..Len(blocks'[u][i])
               PROVE  Placed(u, blocks'[u][i][j], (i - 1) * BlockSize + j)
    BY <1>1, <1>5 DEF BlocksPlaced, Placed
  <2>1. CASE i \in 1..L
    BY <1>3, <1>5, <2>1 DEF BlocksPlaced
  <2>2. CASE i = L + 1
    <3>1. (i - 1) * BlockSize = total[u]
      BY <1>4, <1>6, <2>2
    <3> QED
      BY <1>3, <1>5, <2>2, <3>1 DEF Reading
  <2> QED
    BY <1>4, <2>1, <2>2
<1>8. Sized(u)' /\ (edited[u] \/ total[u] + B <= Length[expected[u]])
  BY <1>1, <1>3 DEF Sized, Reading, Position
<1>9. CASE B = BlockSize
  <2>1. \A i \in 1..Len(blocks'[u]) : Len(blocks'[u][i]) = BlockSize
    <3> SUFFICES ASSUME NEW i \in 1..(L + 1) PROVE Len(blocks'[u][i]) = BlockSize
      BY <1>5
    <3>1. CASE i \in 1..L
      BY <1>3, <1>5, <3>1 DEF Reading
    <3>2. CASE i = L + 1
      BY <1>5, <1>9, <3>2
    <3> QED
      BY <1>4, <3>1, <3>2
  <2>2. total'[u] = Len(blocks'[u]) * BlockSize /\ Len(buf'[u]) = 0
    BY <1>2, <1>5, <1>6, <1>9
  <2>3. Position(u)' = total[u] + B
    BY <1>2, <1>4, <2>2 DEF Position
  <2>4. Reading(u)'
    BY <1>1, <1>4, <1>8, <2>1, <2>2, <2>3 DEF Reading
  <2>5. pc'[u] = "read"
    BY <1>1, <1>4, <1>9
  <2> QED
    BY <1>1, <1>3, <1>7, <1>8, <2>4, <2>5 DEF ReadInv, BeforeReading, AfterCheck
<1>10. CASE B # BlockSize
  <2>1. pc'[u] = "check" /\ AtEof(u) /\ B < BlockSize
    BY <1>1, <1>3, <1>4, <1>10 DEF Reading
  <2>2. Cut(u)'
    <3>1. \A i \in 1..(Len(blocks'[u]) - 1) : Len(blocks'[u][i]) = BlockSize
      BY <1>3, <1>4, <1>5 DEF Reading
    <3>2. Len(blocks'[u][Len(blocks'[u])]) = B
      BY <1>5
    <3>3. total'[u] = (Len(blocks'[u]) - 1) * BlockSize + B
      BY <1>2, <1>4, <1>5, <1>6
    <3> QED
      BY <1>4, <1>5, <2>1, <3>1, <3>2, <3>3 DEF Cut
  <2>3. edited[u] \/ total'[u] = Length[expected[u]]
    <3>1. Length[expected[u]] \in Nat
      BY <1>3, UploadConstants DEF Sized
    <3> SUFFICES ASSUME ~edited[u] PROVE total'[u] = Length[expected[u]]
      OBVIOUS
    <3>2. local[NameOf[u]] = expected[u] /\ total[u] + B <= Length[expected[u]]
      BY <1>3, <1>8
    <3>3. total[u] + B >= Length[expected[u]]
      BY <2>1, <3>2 DEF AtEof, Position
    <3> QED
      <4>1. total[u] + B \in Nat
        BY <1>4
      <4>2. total[u] + B = Length[expected[u]]
        BY <3>1, <3>2, <3>3, <4>1
      <4> QED
        BY <1>2, <4>2
  <2> QED
    BY <1>1, <1>3, <1>7, <1>8, <2>1, <2>2, <2>3 DEF ReadInv, BeforeReading, BeforeCheck, AfterCheck
<1> QED
  BY <1>9, <1>10

\* The file ends at a block boundary.
LEMMA StopAtEofCuts ==
    ASSUME TypeOK, NEW u \in Uploads, ReadInv(u), StopAtEof(u)
    PROVE  ReadInv(u)'
<1> DEFINE L == Len(blocks[u])
<1>1. /\ pc[u] = "read" /\ buf[u] = <<>> /\ AtEof(u) /\ pc'[u] = "check"
      /\ UNCHANGED <<local, edited, expected, buf, blocks, total>>
  BY DEF StopAtEof, Advance, TypeOK, files, reading
<1>2. Reading(u) /\ BlocksPlaced(u) /\ Sized(u) /\ (edited[u] \/ local[NameOf[u]] = expected[u])
  BY <1>1 DEF ReadInv, Working, BeforeCheck
<1>3. BlocksPlaced(u)' /\ Sized(u)'
  BY <1>1, <1>2 DEF BlocksPlaced, Sized, Placed
<1>4. L \in Nat /\ BlockSize \in Nat \ {0} /\ total[u] \in Nat /\ blocks[u] \in Seq(Block)
  BY UploadConstants DEF TypeOK
<1>5. Cut(u)'
  <2>1. CASE L = 0
    <3>1. blocks[u] = <<>> /\ total[u] = 0 * BlockSize
      BY <1>2, <1>4, <2>1, EmptySeq DEF Reading
    <3>2. total[u] = 0
      BY <1>4, <3>1
    <3> QED
      BY <1>1, <3>1, <3>2 DEF Cut
  <2>2. CASE L # 0
    <3>1. blocks[u] # <<>> /\ L \in 1..L
      BY <1>4, <2>2
    <3>2. total[u] = (L - 1) * BlockSize + BlockSize
      BY <1>2, <1>4, Multiples DEF Reading
    <3>3. Len(blocks[u][L]) = BlockSize /\ \A i \in 1..(L - 1) : Len(blocks[u][i]) = BlockSize
      BY <1>2, <1>4, <3>1 DEF Reading
    <3> QED
      BY <1>1, <1>4, <3>1, <3>2, <3>3 DEF Cut
  <2> QED
    BY <2>1, <2>2
<1>6. edited[u] \/ total[u] = Length[expected[u]]
  <2>1. Length[expected[u]] \in Nat /\ Position(u) = total[u]
    BY <1>1, <1>2, <1>4, UploadConstants DEF Sized, Position
  <2> SUFFICES ASSUME ~edited[u] PROVE total[u] = Length[expected[u]]
    OBVIOUS
  <2>2. local[NameOf[u]] = expected[u] /\ total[u] <= Length[expected[u]]
    BY <1>2, <2>1 DEF Reading
  <2>3. total[u] >= Length[expected[u]]
    BY <1>1, <2>1, <2>2 DEF AtEof
  <2> QED
    BY <1>4, <2>1, <2>2, <2>3
<1> QED
  BY <1>1, <1>2, <1>3, <1>5, <1>6 DEF ReadInv, BeforeReading, BeforeCheck, AfterCheck

\* Another program changes a file: what was read of it is marked.
LEMMA EditMarks ==
    ASSUME TypeOK, NEW u \in Uploads, ReadInv(u),
           NEW n \in Names, NEW v \in Versions, Edit(n, v)
    PROVE  ReadInv(u)'
<1>1. UNCHANGED <<pc, expected, buf, blocks, total>>
  BY DEF Edit, reading
<1>2. edited[u] => edited'[u]
  BY DEF Edit
<1>3. /\ Sized(u) => Sized(u)'
      /\ Reading(u) => Reading(u)'
      /\ BlocksPlaced(u) => BlocksPlaced(u)'
      /\ Cut(u) => Cut(u)'
  BY <1>1, <1>2 DEF Sized, Reading, BlocksPlaced, Cut, Placed, Position
<1>4. pc[u] \in BeforeCheck => edited'[u] \/ local'[NameOf[u]] = local[NameOf[u]]
  BY UploadConstants DEF Edit, TypeOK
<1> QED
  BY <1>1, <1>2, <1>3, <1>4 DEF ReadInv

\* A step of the task that leaves the file alone and passes to a next step with
\* the same duties.
LEMMA ReadAdvance ==
    ASSUME NEW u \in Uploads, ReadInv(u), SameFile(u),
           \/ /\ pc[u] \in {"open", "volume", "parent", "encrypt", "create"}
              /\ pc'[u] \in {"volume", "parent", "encrypt", "create", "verify"}
           \/ pc[u] \in AfterCheck /\ pc'[u] \in AfterCheck
           \/ pc'[u] \in {"done", "dead"}
           \/ pc[u] = "idle" /\ pc'[u] = "stat"
    PROVE  ReadInv(u)'
<1>1. /\ local'[NameOf[u]] = local[NameOf[u]] /\ edited'[u] = edited[u]
      /\ expected'[u] = expected[u] /\ buf'[u] = buf[u]
      /\ blocks'[u] = blocks[u] /\ total'[u] = total[u]
  BY DEF SameFile
<1> QED
  BY <1>1, KeepsRead DEF ReadInv, BeforeReading, BeforeCheck, AfterCheck, Working, Http

\* Every step keeps what is known of the file and the blocks read.
LEMMA ReadStep ==
    ASSUME TypeOK, NEW u \in Uploads, ReadInv(u), [Next]_vars
    PROVE  ReadInv(u)'
<1> USE DEF files, server, reading, sending, ui
<1>1. ASSUME NEW w \in Uploads, w # u, SpawnUpload(w) \/ Task(w) \/ Poll(w) \/ CancelTransfer(w)
      PROVE  ReadInv(u)'
  BY <1>1, OthersAreLeft, ReadFrame
<1>2. CASE SpawnUpload(u)
  BY <1>2, ReadAdvance DEF SpawnUpload, SameFile, TypeOK
<1>3. CASE Poll(u) \/ CancelTransfer(u)
  BY <1>3, ReadFrame DEF Poll, CancelTransfer, SameFile
<1>4. CASE Stat(u)
  <2>1. CASE Finish(u, "cancel") \/ Finish(u, "invalid")
    <3>1. pc'[u] = "done"
      BY <2>1 DEF Finish, TypeOK
    <3> QED
      BY <3>1 DEF ReadInv, BeforeReading, BeforeCheck, AfterCheck, Working, Http
  <2>2. CASE /\ Length[local[NameOf[u]]] # 0 /\ ~(Length[local[NameOf[u]]] > MaxFileSize)
             /\ Advance(u, "open")
             /\ expected' = [expected EXCEPT ![u] = local[NameOf[u]]]
    <3>1. pc[u] = "stat" /\ pc'[u] = "open"
      BY <1>4, <2>2 DEF Stat, Advance, TypeOK
    <3>2. local[NameOf[u]] \in Versions /\ Length[local[NameOf[u]]] \in 1..MaxFileSize
      <4>1. local[NameOf[u]] \in Versions
        BY UploadConstants DEF TypeOK
      <4>2. Length[local[NameOf[u]]] \in Nat /\ MaxFileSize \in Nat
        BY <4>1, UploadConstants
      <4> QED
        BY <2>2, <4>1, <4>2
    <3>3. expected'[u] = local[NameOf[u]] /\ UNCHANGED <<local, buf, blocks, total>>
      BY <1>4, <2>2 DEF Stat, TypeOK
    <3>4. Sized(u)'
      BY <3>2, <3>3 DEF Sized
    <3> QED
      BY <3>1, <3>3, <3>4 DEF ReadInv, BeforeReading, AfterCheck
  <2> QED
    BY <1>4, <2>1, <2>2 DEF Stat
<1>5. CASE Open(u) \/ ResolveVolume(u) \/ ResolveParent(u) \/ EncryptNode(u) \/ CreateFile(u)
  <2>1. SameFile(u)
    BY <1>5 DEF Open, ResolveVolume, ResolveParent, EncryptNode, CreateFile, SameFile
  <2>2. \/ /\ pc[u] \in {"open", "volume", "parent", "encrypt", "create"}
           /\ pc'[u] \in {"volume", "parent", "encrypt", "create", "verify"}
        \/ pc'[u] = "done"
    BY <1>5 DEF Open, ResolveVolume, ResolveParent, EncryptNode, CreateFile, ReplyLost, Retry,
       Advance, Finish, TypeOK
  <2> QED
    BY <2>1, <2>2, ReadAdvance
<1>6. CASE GetVerificationCode(u)
  <2>1. pc[u] = "verify" /\ pc'[u] = "read" /\ UNCHANGED <<local, edited, expected, buf, blocks, total>>
    BY <1>6 DEF GetVerificationCode, Advance, TypeOK
  <2>2. /\ buf[u] = <<>> /\ blocks[u] = <<>> /\ total[u] = 0 /\ Sized(u)
        /\ edited[u] \/ local[NameOf[u]] = expected[u]
    BY <2>1 DEF ReadInv, BeforeReading, BeforeCheck, Working, Http
  <2>3. Len(blocks[u]) = 0 /\ Len(buf[u]) = 0
    BY <2>2
  <2>4. Reading(u)' /\ BlocksPlaced(u)' /\ Sized(u)'
    <3>1. Sized(u)' /\ Length[expected[u]] >= 0 /\ BlockSize >= 0 /\ 0 * BlockSize = 0
      BY <2>1, <2>2, UploadConstants DEF Sized
    <3> QED
      BY <2>1, <2>2, <2>3, <3>1 DEF Reading, BlocksPlaced, Position
  <2> QED
    BY <2>1, <2>2, <2>4 DEF ReadInv, BeforeReading, AfterCheck
<1>7. CASE ReadSome(u)
  BY <1>7, ReadSomeReads
<1>8. CASE FinishBlock(u)
  BY <1>8, FinishBlockCuts
<1>9. CASE StopAtEof(u)
  BY <1>9, StopAtEofCuts
<1>10. CASE CheckSize(u)
  <2>1. SameFile(u) /\ pc[u] = "check"
    BY <1>10 DEF CheckSize, SameFile
  <2>2. CASE pc'[u] = "done"
    BY <2>1, <2>2, ReadAdvance
  <2>3. CASE pc'[u] # "done"
    <3>1. pc'[u] = "lease" /\ blocks[u] # <<>> /\ total[u] = Length[expected[u]]
      BY <1>10, <2>3 DEF CheckSize, Advance, Finish, TypeOK
    <3>2. Cut(u)' /\ BlocksPlaced(u)' /\ Sized(u)'
      BY <2>1, KeepsRead DEF ReadInv, Working
    <3> QED
      BY <2>1, <3>1, <3>2 DEF ReadInv, SameFile, BeforeReading, BeforeCheck, AfterCheck
  <2> QED
    BY <2>2, <2>3
<1>11. CASE RequestBlocks(u) \/ PutBlock(u) \/ SignManifest(u) \/ CommitRevision(u)
  <2>1. SameFile(u)
    BY <1>11 DEF RequestBlocks, PutBlock, SignManifest, CommitRevision, SameFile
  <2>2. pc[u] \in AfterCheck /\ pc'[u] \in AfterCheck \cup {"done"}
    BY <1>11 DEF RequestBlocks, PutBlock, SignManifest, CommitRevision, ReplyLost, Retry,
       Advance, Finish, AfterCheck, TypeOK
  <2> QED
    BY <2>1, <2>2, ReadAdvance
<1>12. CASE RequestLost(u)
  BY <1>12, ReadFrame DEF RequestLost, Retry, SameFile
<1>13. CASE StepFails(u)
  BY <1>13, ReadAdvance DEF StepFails, Finish, SameFile, TypeOK
<1>14. ASSUME NEW n \in Names, NEW v \in Versions, Edit(n, v) PROVE ReadInv(u)'
  BY <1>14, EditMarks
<1>15. ASSUME NEW n \in Names, ReapDraft(n) PROVE ReadInv(u)'
  BY <1>15, ReadFrame DEF ReapDraft, SameFile
<1>16. CASE ProcessEnds
  <2>1. SameFile(u) /\ pc'[u] = IF pc[u] = "idle" THEN "idle" ELSE "dead"
    BY <1>16 DEF ProcessEnds, SameFile
  <2> QED
    BY <2>1, ReadFrame, ReadAdvance
<1>17. CASE UNCHANGED vars
  BY <1>17, ReadFrame DEF vars, SameFile
<1> QED
  BY <1>1, <1>2, <1>3, <1>4, <1>5, <1>6, <1>7, <1>8, <1>9, <1>10, <1>11, <1>12, <1>13,
     <1>14, <1>15, <1>16, <1>17 DEF Next, Task

-----------------------------------------------------------------------------
(* Sending.                                                                *)

BeforePut == (Working \cup {"idle"}) \ {"put", "sign", "commit"}

\* Where what was sent and the blocks are as before, so is the invariant.
LEMMA SendFrame ==
    ASSUME NEW u \in Uploads, SendInv(u), SameSent(u), blocks'[u] = blocks[u], pc'[u] = pc[u]
    PROVE  SendInv(u)'
BY DEF SendInv, SameSent

\* Before the blocks are put nothing is stored, and after the end nothing is owed.
LEMMA SendAdvance ==
    ASSUME NEW u \in Uploads, SendInv(u), SameSent(u),
           \/ pc[u] \in BeforePut /\ pc'[u] \in BeforePut
           \/ pc'[u] \in {"done", "dead"}
    PROVE  SendInv(u)'
BY DEF SendInv, SameSent, BeforePut, Working, Http

\* The links are there, sorted: the first block is next.
LEMMA RequestBlocksLeases ==
    ASSUME TypeOK, NEW u \in Uploads, ReadInv(u), SendInv(u), RequestBlocks(u), pc'[u] = "put"
    PROVE  SendInv(u)'
<1> DEFINE L == Len(blocks[u])
<1>1. pc[u] = "lease" /\ UNCHANGED <<blocks, next, stored>>
  BY DEF RequestBlocks, server, reading
<1>2. L \in Index /\ L \in Nat
  BY <1>1, BlocksWithinIndex, UploadConstants DEF AfterCheck, Index
<1>3. PICK reply \in Leases(L) : Len(reply) = L /\ links' = [links EXCEPT ![u] = SortedByIndex(reply)]
  BY DEF RequestBlocks, Finish, TypeOK
<1>4. links'[u] = [i \in 1..L |-> i]
  BY <1>2, <1>3, SortedIsIdentity DEF TypeOK
<1>5. Len(links'[u]) = L /\ \A i \in 1..L : links'[u][i] = i
  BY <1>2, <1>4
<1>6. next[u] = 1 /\ \A i \in Index : stored[u][i] = <<>>
  BY <1>1 DEF SendInv, Working, Http
<1>7. next[u] \in 1..L
  BY <1>2, <1>6 DEF Index
<1>8. \A i \in Index : ~(i < 1)
  BY DEF Index
<1> QED
  BY <1>1, <1>5, <1>6, <1>7, <1>8 DEF SendInv

\* A block is put to the link of its own index, again after a lost answer.
LEMMA PutBlockPuts ==
    ASSUME TypeOK, NEW u \in Uploads, ReadInv(u), SendInv(u), PutBlock(u), pc'[u] # "done"
    PROVE  SendInv(u)'
<1> DEFINE L == Len(blocks[u])
           x == next[u]
<1>1. pc[u] = "put" /\ UNCHANGED <<blocks, links>>
  BY DEF PutBlock, reading
<1>2. L \in Index /\ L \in Nat
  BY <1>1, BlocksWithinIndex, UploadConstants DEF AfterCheck, Index
<1>3. Len(links[u]) = L /\ links[u][x] = x /\ x \in 1..L
  BY <1>1 DEF SendInv
<1>4. x \in Index /\ x \in Nat
  BY <1>2, <1>3, UploadConstants DEF Index
<1>5. stored'[u] = [stored[u] EXCEPT ![x] = blocks[u][x]] /\ stored[u] \in [Index -> Block]
  BY <1>3 DEF PutBlock, TypeOK
<1>6. /\ stored'[u][x] = blocks[u][x]
      /\ \A i \in Index : i # x => stored'[u][i] = stored[u][i]
  BY <1>4, <1>5
<1>7. /\ \A i \in Index : i < x => stored[u][i] = blocks[u][i]
      /\ \A i \in Index : i > x => stored[u][i] = <<>>
  BY <1>1 DEF SendInv
<1>8. CASE next'[u] = x /\ pc'[u] = "put"
  <2>1. \A i \in Index : i < x => stored'[u][i] = blocks[u][i]
    BY <1>4, <1>6, <1>7 DEF Index
  <2>2. \A i \in Index : i > x => stored'[u][i] = <<>>
    BY <1>4, <1>6, <1>7 DEF Index
  <2> QED
    BY <1>1, <1>3, <1>6, <1>8, <2>1, <2>2 DEF SendInv
<1>9. CASE next'[u] = x + 1 /\ pc'[u] = IF x = L THEN "sign" ELSE "put"
  <2>1. \A i \in Index : i < x + 1 => stored'[u][i] = blocks[u][i]
    BY <1>4, <1>6, <1>7 DEF Index
  <2>2. \A i \in Index : i > x => stored'[u][i] = <<>>
    BY <1>4, <1>6, <1>7 DEF Index
  <2>3. \A i \in Index : i > x + 1 => stored'[u][i] = <<>>
    BY <1>4, <2>2 DEF Index
  <2>4. x + 1 \in Index => stored'[u][x + 1] = <<>>
    BY <1>4, <2>2
  <2>5. x # L => x + 1 \in 1..L
    BY <1>2, <1>3
  <2>6. \A i \in 1..L : links'[u][i] = i
    BY <1>1 DEF SendInv
  <2> QED
    BY <1>1, <1>3, <1>9, <2>1, <2>3, <2>4, <2>5, <2>6 DEF SendInv
<1> QED
  <2>1. \/ next'[u] = x /\ pc'[u] = "put"
        \/ next'[u] = x + 1 /\ pc'[u] = IF x = L THEN "sign" ELSE "put"
    BY <1>1, <1>3 DEF PutBlock, ReplyLost, Retry, Finish, Advance, TypeOK
  <2> QED
    BY <1>8, <1>9, <2>1

\* Every step keeps what is known of the blocks put.
LEMMA SendStep ==
    ASSUME TypeOK, NEW u \in Uploads, ReadInv(u), SendInv(u), [Next]_vars
    PROVE  SendInv(u)'
<1> USE DEF files, server, reading, sending, ui
<1>1. ASSUME NEW w \in Uploads, w # u, SpawnUpload(w) \/ Task(w) \/ Poll(w) \/ CancelTransfer(w)
      PROVE  SendInv(u)'
  BY <1>1, OthersAreLeft, SendFrame DEF SameFile
<1>2. CASE SpawnUpload(u)
  BY <1>2, SendAdvance DEF SpawnUpload, SameSent, TypeOK, BeforePut, Working
<1>3. CASE Poll(u) \/ CancelTransfer(u)
  BY <1>3, SendFrame DEF Poll, CancelTransfer, SameSent
<1>4. CASE \/ Stat(u) \/ Open(u) \/ ResolveVolume(u) \/ ResolveParent(u) \/ EncryptNode(u)
           \/ CreateFile(u) \/ GetVerificationCode(u) \/ ReadSome(u) \/ FinishBlock(u)
           \/ StopAtEof(u) \/ CheckSize(u)
  <2>1. SameSent(u)
    BY <1>4 DEF Stat, Open, ResolveVolume, ResolveParent, EncryptNode, CreateFile,
       GetVerificationCode, ReadSome, FinishBlock, StopAtEof, CheckSize, SameSent
  <2>2. pc[u] \in BeforePut /\ pc'[u] \in BeforePut \cup {"done"}
    <3>1. CASE Stat(u) \/ Open(u) \/ ResolveVolume(u) \/ ResolveParent(u) \/ EncryptNode(u)
      BY <3>1 DEF Stat, Open, ResolveVolume, ResolveParent, EncryptNode, Advance, Finish, TypeOK,
         BeforePut, Working, Http
    <3>2. CASE CreateFile(u) \/ GetVerificationCode(u) \/ CheckSize(u)
      BY <3>2 DEF CreateFile, GetVerificationCode, CheckSize, ReplyLost, Retry, Advance, Finish,
         TypeOK, BeforePut, Working, Http
    <3>3. CASE ReadSome(u) \/ FinishBlock(u) \/ StopAtEof(u)
      BY <3>3 DEF ReadSome, FinishBlock, StopAtEof, Advance, TypeOK, BeforePut, Working, Http
    <3> QED
      BY <1>4, <3>1, <3>2, <3>3
  <2> QED
    BY <2>1, <2>2, SendAdvance
<1>5. CASE RequestBlocks(u)
  <2>1. CASE pc'[u] = "put"
    BY <1>5, <2>1, RequestBlocksLeases
  <2>2. CASE pc'[u] # "put"
    <3>1. pc'[u] = "done"
      BY <1>5, <2>2 DEF RequestBlocks, Advance, Finish, TypeOK
    <3> QED
      BY <3>1 DEF SendInv, Working, Http
  <2> QED
    BY <2>1, <2>2
<1>6. CASE PutBlock(u)
  <2>1. CASE pc'[u] = "done"
    BY <2>1 DEF SendInv, Working, Http
  <2> QED
    BY <1>6, <2>1, PutBlockPuts
<1>7. CASE SignManifest(u)
  <2>1. SameSent(u) /\ blocks'[u] = blocks[u] /\ pc[u] = "sign" /\ pc'[u] = "commit"
    BY <1>7 DEF SignManifest, Advance, SameSent, TypeOK
  <2> QED
    BY <2>1 DEF SendInv, SameSent
<1>8. CASE CommitRevision(u) \/ RequestLost(u) \/ StepFails(u)
  <2>1. SameSent(u) /\ blocks'[u] = blocks[u]
    BY <1>8 DEF CommitRevision, RequestLost, StepFails, SameSent
  <2>2. pc'[u] = pc[u] \/ pc'[u] = "done"
    BY <1>8 DEF CommitRevision, RequestLost, StepFails, ReplyLost, Retry, Finish, TypeOK
  <2> QED
    BY <2>1, <2>2, SendFrame, SendAdvance
<1>9. ASSUME NEW n \in Names, ReapDraft(n) \/ \E v \in Versions : Edit(n, v) PROVE SendInv(u)'
  BY <1>9, SendFrame DEF ReapDraft, Edit, SameSent
<1>10. CASE ProcessEnds
  <2>1. SameSent(u) /\ blocks' = blocks /\ pc'[u] = IF pc[u] = "idle" THEN "idle" ELSE "dead"
    BY <1>10 DEF ProcessEnds, SameSent
  <2> QED
    BY <2>1, SendFrame, SendAdvance
<1>11. CASE UNCHANGED vars
  BY <1>11, SendFrame DEF vars, SameSent
<1> QED
  BY <1>1, <1>2, <1>3, <1>4, <1>5, <1>6, <1>7, <1>8, <1>9, <1>10, <1>11 DEF Next, Task

-----------------------------------------------------------------------------
(* What the server has and the user sees.                                  *)

\* The length of a file decides the length of each of its blocks.
LEMMA BlockLengths ==
    ASSUME NEW l \in Nat \ {0}, NEW last \in 1..BlockSize, NEW i \in Nat \ {0},
           NEW n \in Nat, n = (l - 1) * BlockSize + last
    PROVE  BlockLength(n, i) = IF i < l THEN BlockSize ELSE IF i = l THEN last ELSE 0
<1> USE UploadConstants
<1>1. /\ (l - 1) * BlockSize \in Int /\ i * BlockSize \in Int /\ l * BlockSize \in Int
      /\ (i - 1) * BlockSize = i * BlockSize - BlockSize
      /\ (l - 1) * BlockSize = l * BlockSize - BlockSize
  BY Multiples
<1>2. CASE i < l
  <2>1. i * BlockSize <= (l - 1) * BlockSize
    BY <1>2, Multiples
  <2> QED
    BY <1>1, <1>2, <2>1 DEF BlockLength
<1>3. CASE i = l
  BY <1>1, <1>3 DEF BlockLength
<1>4. CASE i > l
  <2>1. l * BlockSize <= (i - 1) * BlockSize
    BY <1>4, Multiples
  <2> QED
    BY <1>1, <1>4, <2>1 DEF BlockLength
<1> QED
  BY <1>2, <1>3, <1>4

\* When the revision is committed, every block of the file has been put.
LEMMA CommitIsWhole ==
    ASSUME TypeOK, NEW u \in Uploads, ReadInv(u), SendInv(u), pc[u] = "commit"
    PROVE  Whole(u)
<1> DEFINE L == Len(blocks[u])
           n == Length[expected[u]]
<1>1. /\ Cut(u) /\ BlocksPlaced(u) /\ blocks[u] # <<>> /\ total[u] = n /\ Sized(u)
  BY DEF ReadInv, AfterCheck, Working, Http
<1>2. L \in Index /\ L \in Nat \ {0} /\ blocks[u] \in Seq(Block)
  BY BlocksWithinIndex, UploadConstants DEF AfterCheck, Index, TypeOK
<1>3. /\ \A i \in 1..(L - 1) : Len(blocks[u][i]) = BlockSize
      /\ Len(blocks[u][L]) \in 1..BlockSize
      /\ n = (L - 1) * BlockSize + Len(blocks[u][L])
  BY <1>1 DEF Cut
<1>4. n \in Nat
  BY <1>1, UploadConstants DEF Sized
<1>5. /\ \A i \in Index : i < L + 1 => stored[u][i] = blocks[u][i]
      /\ \A i \in Index : i > L + 1 => stored[u][i] = <<>>
      /\ L + 1 \in Index => stored[u][L + 1] = <<>>
  BY DEF SendInv
<1> HIDE DEF n
<1> SUFFICES ASSUME NEW i \in Index
             PROVE  /\ Len(stored[u][i]) = BlockLength(n, i)
                    /\ \A j \in 1..Len(stored[u][i]) :
                          Placed(u, stored[u][i][j], (i - 1) * BlockSize + j)
  BY DEF Whole, n
<1>6. i \in Nat \ {0}
  BY UploadConstants DEF Index
<1>7. BlockLength(n, i) = IF i < L THEN BlockSize ELSE IF i = L THEN Len(blocks[u][L]) ELSE 0
  BY <1>2, <1>3, <1>4, <1>6, BlockLengths
<1>8. CASE i <= L
  <2>1. stored[u][i] = blocks[u][i] /\ i \in 1..L
    BY <1>2, <1>5, <1>6, <1>8
  <2>2. Len(blocks[u][i]) = BlockLength(n, i)
    BY <1>2, <1>3, <1>6, <1>7, <1>8
  <2> QED
    BY <1>1, <2>1, <2>2 DEF BlocksPlaced
<1>9. CASE i > L
  <2>1. stored[u][i] = <<>>
    BY <1>2, <1>5, <1>6, <1>9
  <2>2. BlockLength(n, i) = 0
    BY <1>2, <1>6, <1>7, <1>9
  <2> QED
    BY <2>1, <2>2
<1> QED
  BY <1>2, <1>6, <1>8, <1>9

\* A whole revision stays whole while nothing is put; an edit only marks it.
LEMMA WholeStays ==
    ASSUME NEW u \in Uploads, Whole(u), stored'[u] = stored[u], expected'[u] = expected[u],
           edited[u] => edited'[u]
    PROVE  Whole(u)'
BY DEF Whole, Placed

\* The invariant of the server's side where nothing of it changed for this upload.
LEMMA ServerFrame ==
    ASSUME NEW u \in Uploads, ServerInv(u), Committed(u) <=> Committed(u)',
           stored'[u] = stored[u], expected'[u] = expected[u], edited[u] => edited'[u],
           outcome'[u] = outcome[u], state'[u] = state[u], pc'[u] = pc[u]
    PROVE  ServerInv(u)'
BY WholeStays DEF ServerInv

\* Another upload's step neither commits nor takes away this one's revision: it
\* creates where no node is and commits only what it owns.
LEMMA OthersKeepTheNode ==
    ASSUME TypeOK, NEW u \in Uploads, NEW w \in Uploads, w # u,
           SpawnUpload(w) \/ Task(w) \/ Poll(w) \/ CancelTransfer(w)
    PROVE  Committed(u) <=> Committed(u)'
<1> USE DEF files, server, reading, sending, ui
<1>1. CASE UNCHANGED node
  BY <1>1 DEF Committed, Owns
<1>2. CASE CreateFile(w) /\ ~UNCHANGED node
  <2>1. node[NameOf[w]] = NoNode /\ node' = [node EXCEPT ![NameOf[w]] = Draft(w)]
    BY <1>2 DEF CreateFile
  <2>2. NameOf[w] \in Names /\ NameOf[u] \in Names /\ None # u
    BY UploadConstants
  <2>3. CASE NameOf[u] = NameOf[w]
    BY <2>1, <2>2, <2>3 DEF Committed, Owns, NoNode, Draft, TypeOK
  <2>4. CASE NameOf[u] # NameOf[w]
    BY <2>1, <2>2, <2>4 DEF Committed, Owns, TypeOK
  <2> QED
    BY <2>3, <2>4
<1>3. CASE CommitRevision(w)
  <2>1. node[NameOf[w]].owner = w /\ node' = [node EXCEPT ![NameOf[w]].active = TRUE]
    BY <1>3 DEF CommitRevision, Owns
  <2>2. NameOf[w] \in Names /\ NameOf[u] \in Names
    BY UploadConstants
  <2>3. CASE NameOf[u] = NameOf[w]
    BY <2>1, <2>2, <2>3 DEF Committed, Owns, TypeOK
  <2>4. CASE NameOf[u] # NameOf[w]
    BY <2>1, <2>2, <2>4 DEF Committed, Owns, TypeOK
  <2> QED
    BY <2>3, <2>4
<1> QED
  BY <1>1, <1>2, <1>3 DEF Task, SpawnUpload, Poll, CancelTransfer, Stat, Open, ResolveVolume,
     ResolveParent, EncryptNode, GetVerificationCode, ReadSome, FinishBlock, StopAtEof,
     CheckSize, RequestBlocks, PutBlock, SignManifest, RequestLost, StepFails

\* A step of the task before the commit: nothing is committed, and an outcome other
\* than success is shown.
LEMMA ServerAdvance ==
    ASSUME NEW u \in Uploads, ServerInv(u), pc[u] \notin {"commit", "done", "dead"}, pc'[u] # "idle",
           ~Committed(u)', state'[u] = state[u], edited[u] => edited'[u],
           \/ outcome'[u] = outcome[u]
           \/ /\ pc'[u] = "done" /\ outcome'[u] # "ok"
              /\ outcome'[u] \in {"size", "empty"} => edited'[u]
    PROVE  ServerInv(u)'
<1>1. ~Committed(u) /\ state[u] # "completed" /\ outcome[u] = None /\ outcome[u] # "ok"
  BY DEF ServerInv
<1> QED
  BY <1>1 DEF ServerInv

\* A size is refused only of a file that was edited.
LEMMA RefusalIsTrue ==
    ASSUME TypeOK, NEW u \in Uploads, ReadInv(u), CheckSize(u), outcome'[u] \in {"size", "empty"},
           outcome'[u] # outcome[u]
    PROVE  edited[u]
<1>1. pc[u] = "check" /\ Cut(u) /\ Sized(u) /\ (edited[u] \/ total[u] = Length[expected[u]])
  BY DEF CheckSize, ReadInv, Working
<1>2. blocks[u] = <<>> \/ total[u] # Length[expected[u]]
  BY DEF CheckSize, Advance
<1>3. CASE blocks[u] = <<>>
  <2>1. total[u] = 0
    BY <1>1, <1>3 DEF Cut
  <2>2. Length[expected[u]] # 0
    BY <1>1 DEF Sized
  <2> QED
    BY <1>1, <2>1, <2>2
<1> QED
  BY <1>1, <1>2, <1>3

\* The commit makes the draft the whole revision, again after a lost answer.
LEMMA CommitRevisionCommits ==
    ASSUME TypeOK, NEW u \in Uploads, ReadInv(u), SendInv(u), ServerInv(u), CommitRevision(u)
    PROVE  ServerInv(u)'
<1> USE DEF files, server, reading, sending, ui
<1>1. pc[u] = "commit" /\ UNCHANGED <<stored, expected, edited, state>>
  BY DEF CommitRevision
<1>2. Whole(u)'
  BY <1>1, CommitIsWhole, WholeStays
<1>3. Committed(u)'
  <2>1. NameOf[u] \in Names /\ node[NameOf[u]].owner = u
    BY UploadConstants DEF CommitRevision, Owns
  <2>2. node'[NameOf[u]] = [node[NameOf[u]] EXCEPT !.active = TRUE]
    BY <2>1 DEF CommitRevision, TypeOK
  <2>3. node[NameOf[u]] \in [owner: Uploads \cup {None}, active: BOOLEAN]
    BY <2>1 DEF TypeOK
  <2> QED
    BY <2>1, <2>2, <2>3 DEF Committed, Owns
<1>4. outcome[u] = None /\ outcome[u] \notin {"size", "empty"}
  BY <1>1, UploadConstants DEF ServerInv, Results
<1>5. \/ pc'[u] = "done" /\ outcome'[u] \in {"ok", "error"}
      \/ pc'[u] = "commit" /\ outcome'[u] = outcome[u]
  BY <1>1 DEF CommitRevision, ReplyLost, Retry, Finish, TypeOK
<1> QED
  BY <1>2, <1>3, <1>4, <1>5 DEF ServerInv

\* Every step keeps what is known of the server and of the transfer shown.
LEMMA ServerStep ==
    ASSUME TypeOK, NEW u \in Uploads, ReadInv(u), SendInv(u), ServerInv(u), [Next]_vars
    PROVE  ServerInv(u)'
<1> USE DEF files, server, reading, sending, ui
<1>1. ASSUME NEW w \in Uploads, w # u, SpawnUpload(w) \/ Task(w) \/ Poll(w) \/ CancelTransfer(w)
      PROVE  ServerInv(u)'
  BY <1>1, OthersAreLeft, OthersKeepTheNode, ServerFrame DEF SameFile, SameSent, SameEnd
<1>2. CASE SpawnUpload(u)
  <2>1. ~Committed(u)
    BY <1>2 DEF SpawnUpload, ServerInv
  <2>2. outcome'[u] = outcome[u] /\ outcome[u] = None /\ outcome[u] \notin {"ok", "size", "empty"}
    BY <1>2, UploadConstants DEF SpawnUpload, ServerInv, Results
  <2>3. ~Committed(u)' /\ state'[u] # "completed"
    BY <1>2, <2>1 DEF SpawnUpload, Committed, Owns, TypeOK
  <2>4. pc'[u] = "stat"
    BY <1>2 DEF SpawnUpload, TypeOK
  <2> QED
    BY <2>2, <2>3, <2>4 DEF ServerInv
<1>3. CASE Poll(u) \/ CancelTransfer(u)
  <2>1. UNCHANGED <<node, stored, expected, edited, outcome, pc>>
    BY <1>3 DEF Poll, CancelTransfer
  <2>2. Committed(u) <=> Committed(u)'
    BY <2>1 DEF Committed, Owns
  <2>3. state'[u] = "completed" => outcome[u] = "ok"
    BY <1>3 DEF Poll, CancelTransfer, TypeOK
  <2>4. Whole(u) => Whole(u)'
    BY <2>1, WholeStays
  <2>5. state[u] = "running" /\ pc[u] # "idle"
    BY <1>3 DEF Poll, CancelTransfer, ServerInv
  <2> QED
    BY <2>1, <2>2, <2>3, <2>4, <2>5 DEF ServerInv
<1>4. CASE \/ Stat(u) \/ Open(u) \/ ResolveVolume(u) \/ ResolveParent(u) \/ EncryptNode(u)
           \/ GetVerificationCode(u) \/ ReadSome(u) \/ FinishBlock(u) \/ StopAtEof(u)
           \/ CheckSize(u) \/ RequestBlocks(u) \/ PutBlock(u) \/ SignManifest(u)
  <2>1. UNCHANGED <<node, edited, state>> /\ pc[u] \notin {"commit", "done", "dead"}
    BY <1>4 DEF Stat, Open, ResolveVolume, ResolveParent, EncryptNode, GetVerificationCode,
       ReadSome, FinishBlock, StopAtEof, CheckSize, RequestBlocks, PutBlock, SignManifest
  <2>2. ~Committed(u) /\ (Committed(u) <=> Committed(u)')
    BY <2>1 DEF ServerInv, Committed, Owns
  <2>3. \/ outcome'[u] = outcome[u]
        \/ pc'[u] = "done" /\ outcome'[u] # "ok" /\
              (outcome'[u] \in {"size", "empty"} => edited'[u])
    <3>1. CASE CheckSize(u)
      <4>1. \/ outcome'[u] = outcome[u]
            \/ pc'[u] = "done" /\ outcome'[u] \in {"size", "empty"}
        BY <3>1 DEF CheckSize, Advance, Finish, TypeOK
      <4> QED
        BY <2>1, <3>1, <4>1, RefusalIsTrue
    <3>2. CASE ~CheckSize(u)
      <4>1. \/ outcome' = outcome
            \/ \E r \in {"cancel", "invalid", "links", "error"} : Finish(u, r)
        BY <1>4, <3>2 DEF Stat, Open, ResolveVolume, ResolveParent, EncryptNode,
           GetVerificationCode, ReadSome, FinishBlock, StopAtEof, RequestBlocks, PutBlock,
           SignManifest, Advance, ReplyLost, Retry
      <4> QED
        BY <4>1 DEF Finish, TypeOK
    <3> QED
      BY <3>1, <3>2
  <2>4. pc'[u] # "idle"
    <3>1. \/ pc' = pc
          \/ \E step \in Working : Advance(u, step)
          \/ \E result \in Outcome : Finish(u, result)
      BY <1>4 DEF Stat, Open, ResolveVolume, ResolveParent, EncryptNode, GetVerificationCode,
         ReadSome, FinishBlock, StopAtEof, CheckSize, RequestBlocks, PutBlock, SignManifest,
         ReplyLost, Retry, Working, Http, Outcome, Results
    <3>2. pc[u] # "idle"
      BY <1>4 DEF Stat, Open, ResolveVolume, ResolveParent, EncryptNode, GetVerificationCode,
         ReadSome, FinishBlock, StopAtEof, CheckSize, RequestBlocks, PutBlock, SignManifest
    <3> QED
      BY <3>1, <3>2 DEF Advance, Finish, Working, Http, TypeOK
  <2> QED
    BY <2>1, <2>2, <2>3, <2>4, ServerAdvance
<1>5. CASE CreateFile(u)
  <2>1. pc[u] = "create" /\ UNCHANGED <<edited, state>>
    BY <1>5 DEF CreateFile
  <2>2. ~Committed(u)'
    <3>1. ~Committed(u)
      BY <2>1 DEF ServerInv
    <3>2. CASE node' = node
      BY <3>1, <3>2 DEF Committed, Owns
    <3>3. CASE node' = [node EXCEPT ![NameOf[u]] = Draft(u)]
      <4>1. node'[NameOf[u]] = Draft(u)
        BY <3>3, UploadConstants DEF TypeOK
      <4> QED
        BY <4>1 DEF Committed, Draft
    <3> QED
      BY <1>5, <3>2, <3>3 DEF CreateFile
  <2>3. \/ outcome'[u] = outcome[u] /\ pc'[u] \in {"create", "verify"}
        \/ pc'[u] = "done" /\ outcome'[u] \in {"taken", "error"}
    BY <1>5 DEF CreateFile, Advance, ReplyLost, Retry, Finish, TypeOK
  <2> QED
    BY <2>1, <2>2, <2>3, ServerAdvance
<1>6. CASE CommitRevision(u)
  BY <1>6, CommitRevisionCommits
<1>7. CASE RequestLost(u)
  <2>1. Committed(u) <=> Committed(u)'
    BY <1>7 DEF RequestLost, Committed, Owns
  <2> QED
    BY <1>7, <2>1, ServerFrame DEF RequestLost, Retry
<1>8. CASE StepFails(u)
  <2>1. Committed(u) <=> Committed(u)'
    BY <1>8 DEF StepFails, Committed, Owns
  <2>2. /\ pc'[u] = "done" /\ outcome'[u] = "error" /\ pc[u] \in Working
        /\ UNCHANGED <<stored, expected, edited, state>>
    BY <1>8 DEF StepFails, Finish, TypeOK
  <2>3. Whole(u) => Whole(u)'
    BY <2>2, WholeStays
  <2> QED
    BY <2>1, <2>2, <2>3 DEF ServerInv
<1>9. ASSUME NEW n \in Names, NEW v \in Versions, Edit(n, v) PROVE ServerInv(u)'
  <2>1. Committed(u) <=> Committed(u)'
    BY <1>9 DEF Edit, Committed, Owns
  <2>2. edited[u] => edited'[u]
    BY <1>9 DEF Edit
  <2> QED
    BY <1>9, <2>1, <2>2, ServerFrame DEF Edit
<1>10. ASSUME NEW n \in Names, ReapDraft(n) PROVE ServerInv(u)'
  <2>1. Committed(u) <=> Committed(u)'
    <3>1. CASE n = NameOf[u]
      <4>1. ~node[NameOf[u]].active /\ node'[NameOf[u]] = NoNode
        BY <1>10, <3>1 DEF ReapDraft, TypeOK
      <4> QED
        BY <4>1 DEF Committed, NoNode
    <3>2. CASE n # NameOf[u]
      <4>1. node'[NameOf[u]] = node[NameOf[u]]
        BY <1>10, <3>2, UploadConstants DEF ReapDraft, TypeOK
      <4> QED
        BY <4>1 DEF Committed, Owns
    <3> QED
      BY <3>1, <3>2
  <2> QED
    BY <1>10, <2>1, ServerFrame DEF ReapDraft
<1>11. CASE ProcessEnds
  <2>1. Committed(u) <=> Committed(u)'
    BY <1>11 DEF ProcessEnds, Committed, Owns
  <2>2. /\ outcome'[u] = None /\ state'[u] = "none"
        /\ pc'[u] = IF pc[u] = "idle" THEN "idle" ELSE "dead"
    BY <1>11 DEF ProcessEnds
  <2>3. Whole(u) => Whole(u)'
    BY <1>11, WholeStays DEF ProcessEnds
  <2>4. None \notin {"ok", "size", "empty"}
    BY UploadConstants DEF Results
  <2> QED
    BY <2>1, <2>2, <2>3, <2>4 DEF ServerInv
<1>12. CASE UNCHANGED vars
  <2>1. Committed(u) <=> Committed(u)'
    BY <1>12 DEF vars, Committed, Owns
  <2> QED
    BY <1>12, <2>1, ServerFrame DEF vars
<1> QED
  BY <1>1, <1>2, <1>3, <1>4, <1>5, <1>6, <1>7, <1>8, <1>9, <1>10, <1>11, <1>12 DEF Next, Task

-----------------------------------------------------------------------------
(* The theorems.                                                           *)

LEMMA InitInv == Init => TypeOK /\ UploadInv
<1> SUFFICES ASSUME Init PROVE TypeOK /\ UploadInv
  OBVIOUS
<1> USE UploadConstants
<1>1. TypeOK
  <2>1. /\ cancelled \in [Uploads -> BOOLEAN]
        /\ edited \in [Uploads -> BOOLEAN]
    BY DEF Init
  <2>2. node \in [Names -> [owner: Uploads \cup {None}, active: BOOLEAN]]
    BY DEF Init, NoNode
  <2>3. <<>> \in Block /\ <<>> \in Seq(Block) /\ <<>> \in Seq(Index)
    BY DEF Block
  <2>4. stored \in [Uploads -> [Index -> Block]]
    BY <2>3 DEF Init
  <2> QED
    BY <2>1, <2>2, <2>3, <2>4 DEF Init, TypeOK, Outcome
<1>2. ASSUME NEW u \in Uploads PROVE ReadInv(u) /\ SendInv(u) /\ ServerInv(u)
  <2>1. /\ pc[u] = "idle" /\ buf[u] = <<>> /\ blocks[u] = <<>> /\ total[u] = 0 /\ next[u] = 1
        /\ outcome[u] = None /\ state[u] = "none" /\ \A i \in Index : stored[u][i] = <<>>
    BY DEF Init
  <2>2. ~Committed(u)
    <3>1. node[NameOf[u]] = NoNode
      BY DEF Init
    <3> QED
      BY <3>1 DEF Committed, NoNode
  <2>3. ReadInv(u)
    BY <2>1 DEF ReadInv, Working, Http, BeforeCheck, AfterCheck
  <2>4. SendInv(u)
    BY <2>1 DEF SendInv
  <2>5. ServerInv(u)
    BY <2>1, <2>2 DEF ServerInv, Results
  <2> QED
    BY <2>3, <2>4, <2>5
<1> QED
  BY <1>1, <1>2 DEF UploadInv

LEMMA StepInv == TypeOK /\ UploadInv /\ [Next]_vars => TypeOK' /\ UploadInv'
BY TypeStep, ReadStep, SendStep, ServerStep DEF UploadInv

LEMMA Inductive == Spec => [](TypeOK /\ UploadInv)
BY InitInv, StepInv, PTL DEF Spec

\* Type correctness of the upload's task, the server's nodes and the transfer shown:
\* run_upload never puts to a link it does not have and never retries more than
\* send_with_retry allows.
THEOREM TypeCorrect == Spec => []TypeOK
BY Inductive, PTL

\* What run_upload commits is the whole file it read, every block in its place, for
\* every size of file and block, every order of the links the server answers with, and
\* any lost answers, repeated requests, reaped drafts and rival uploads of the name.
THEOREM CommitsAreWhole == Spec => []CommittedIsWhole
<1>1. TypeOK /\ UploadInv => CommittedIsWhole
  BY DEF UploadInv, ServerInv, Committed, Whole, Placed, CommittedIsWhole
<1> QED
  BY <1>1, Inductive, PTL

\* A transfer shown as completed is committed under its name by this upload, and only
\* a file that was changed while it was read is refused for its size.
THEOREM EndsAreTrue == Spec => []OutcomesAreTrue
<1>1. TypeOK /\ UploadInv => OutcomesAreTrue
  <2> SUFFICES ASSUME TypeOK, UploadInv PROVE CompletedIsCommitted /\ SizeErrorMeansEdited
    BY DEF OutcomesAreTrue
  <2>1. SizeErrorMeansEdited
    BY DEF UploadInv, ServerInv, SizeErrorMeansEdited
  <2>2. ASSUME NEW u \in Uploads, state[u] = "completed"
        PROVE  node[NameOf[u]] = [owner |-> u, active |-> TRUE]
    <3>1. node[NameOf[u]].owner = u /\ node[NameOf[u]].active
      BY <2>2 DEF UploadInv, ServerInv, Committed, Owns
    <3>2. node[NameOf[u]] \in [owner: Uploads \cup {None}, active: BOOLEAN]
      BY UploadConstants DEF TypeOK
    <3> QED
      BY <3>1, <3>2
  <2> QED
    BY <2>1, <2>2 DEF CompletedIsCommitted
<1> QED
  BY <1>1, Inductive, PTL

\* Transfer::poll and Transfer::cancel leave a terminal transfer alone, whatever its
\* task still does.
THEOREM TerminalStays == Spec => TerminalIsFinal
<1>1. ASSUME TypeOK, UploadInv, [Next]_vars, NEW u \in Uploads, state[u] \in Terminal
      PROVE  state'[u] \in {state[u], "none"}
  <2> USE <1>1 DEF files, server, reading, sending, ui
  <2>1. ASSUME NEW w \in Uploads, SpawnUpload(w) PROVE state'[u] = state[u]
    <3>1. w # u
      BY <2>1 DEF SpawnUpload, UploadInv, ServerInv, Terminal
    <3> QED
      BY <2>1, <3>1 DEF SpawnUpload, TypeOK
  <2>2. ASSUME NEW w \in Uploads, Poll(w) \/ CancelTransfer(w) PROVE state'[u] = state[u]
    BY <2>2 DEF Poll, CancelTransfer, TypeOK, Terminal
  <2>3. ASSUME NEW w \in Uploads, Task(w) PROVE state'[u] = state[u]
    BY <2>3 DEF Task, Stat, Open, ResolveVolume, ResolveParent, EncryptNode, CreateFile,
       GetVerificationCode, ReadSome, FinishBlock, StopAtEof, CheckSize, RequestBlocks,
       PutBlock, SignManifest, CommitRevision, RequestLost, StepFails
  <2>4. CASE ProcessEnds
    BY <2>4 DEF ProcessEnds
  <2>5. ASSUME NEW n \in Names, ReapDraft(n) \/ \E v \in Versions : Edit(n, v)
        PROVE  state'[u] = state[u]
    BY <2>5 DEF ReapDraft, Edit
  <2>6. CASE UNCHANGED vars
    BY <2>6 DEF vars
  <2> QED
    BY <2>1, <2>2, <2>3, <2>4, <2>5, <2>6 DEF Next
<1>2. TypeOK /\ UploadInv /\ [Next]_vars =>
          [\A u \in Uploads : state[u] \in Terminal => state'[u] \in {state[u], "none"}]_vars
  BY <1>1
<1> QED
  BY <1>2, Inductive, PTL DEF Spec, TerminalIsFinal
=============================================================================
