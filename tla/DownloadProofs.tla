--------------------------- MODULE DownloadProofs ---------------------------
(***************************************************************************)
(* Proofs about Download, for any number of downloads, destinations and    *)
(* revisions of any number of blocks: what a download leaves in its file.  *)
(***************************************************************************)
EXTENDS Download, TLAPS, FiniteSetTheorems, SequenceTheorems

-----------------------------------------------------------------------------
(* The inductive invariant: per download, what it plans to write, what it  *)
(* has handed to the disk and how it ended; per file, what it holds.       *)

\* The download has not yet touched its file.
Early == {"idle", "start", "link", "keys", "create"}

\* The blocks listed are some of the revision's, in their order.
Listed(d) ==
    /\ rev[d] \in Revisions
    /\ Signed[rev[d]]
    /\ Len(list[d]) <= BlocksOf[rev[d]]
    /\ Len(list[d]) = BlocksOf[rev[d]] => \A i \in 1..Len(list[d]) : list[d][i] = i

\* The piece at a position of the list.
PieceAt(d, i) == <<rev[d], list[d][i]>>

PlanInv(d) ==
    /\ pc[d] \in Early \cup {"opened", "revision", "dead"} => list[d] = <<>>
    /\ pc[d] \in Working \ {"start", "link"} => rev[d] \in Revisions
    /\ list[d] # <<>> => Listed(d)
    /\ pc[d] \in {"fetch", "write"} => list[d] # <<>> /\ next[d] <= Len(list[d])
    /\ pc[d] \in {"flush", "verify", "xattr"} => list[d] # <<>> /\ next[d] = Len(list[d]) + 1
    /\ verified[d] => pc[d] \in {"xattr", "done"} /\ Len(list[d]) = BlocksOf[rev[d]]

WriteInv(d) ==
    /\ list[d] = <<>> => next[d] = 1 /\ pending[d] = <<>> /\ ~ioError[d]
    /\ pc[d] = "write" => body[d] = <<PieceAt(d, next[d])>>
    /\ pending[d] # <<>> => next[d] # 1 /\ ~ioError[d] /\ pending[d] = <<PieceAt(d, next[d] - 1)>>
    /\ ioError[d] => next[d] # 1

OutcomeInv(d) ==
    /\ outcome[d] # None => pc[d] = "done"
    /\ pc[d] \in {"verify", "xattr"} \/ outcome[d] = "ok" =>
           /\ pending[d] = <<>> /\ ~ioError[d]
           /\ list[d] # <<>> /\ next[d] = Len(list[d]) + 1

\* The number of blocks of the list that are on the disk.
Written(d) == IF pending[d] # <<>> \/ ioError[d] THEN next[d] - 2 ELSE next[d] - 1

\* A download alone with its file has written the first blocks of its list.
FileInv(d) ==
    (pc[d] \in {"opened", "revision"} \/ list[d] # <<>>) /\ ~clash[d] =>
        disk[DestOf[d]] = [i \in 1..Written(d) |-> PieceAt(d, i)]

\* So far every download into the file gets all of revision r.
AllGet(p, r) ==
    \A d \in Downloads : DestOf[d] = p =>
        /\ pc[d] # "dead"
        /\ pc[d] = "done" => outcome[d] = "ok"
        /\ list[d] # <<>> => rev[d] = r /\ Len(list[d]) = BlocksOf[r]

\* The blocks that download c has written are in the file.
Holds(p, r, c) ==
    \A i \in 1..Written(c) : i <= Len(disk[p]) /\ disk[p][i] = <<r, i>>

\* Then the file is no longer than the revision, and it holds the blocks of the
\* download that was the last one to truncate it.
ConvergesInv(p, r) ==
    AllGet(p, r) /\ (\E d \in Downloads : DestOf[d] = p /\ pc[d] \notin Early) =>
        /\ Len(disk[p]) <= BlocksOf[r]
        /\ \E c \in Downloads : DestOf[c] = p /\ pc[c] \notin Early /\ Holds(p, r, c)

DownloadInv ==
    /\ next \in [Downloads -> Nat \ {0}]
    /\ \A d \in Downloads : PlanInv(d) /\ WriteInv(d) /\ OutcomeInv(d) /\ FileInv(d)
    /\ UnsignedWritesNothing
    /\ \A p \in Paths : \A r \in Revisions : ConvergesInv(p, r)

-----------------------------------------------------------------------------
(* The sorted list of blocks.                                              *)

\* sort_by_key of distinct indices has an index at every place, and is the list of all
\* blocks if all were listed.
LEMMA SortedListing ==
    ASSUME NEW r \in Revisions, NEW reply \in Listings(r)
    PROVE  /\ SortedByIndex(reply) \in Seq(Nat)
           /\ Len(SortedByIndex(reply)) = Len(reply)
           /\ Len(reply) \in Nat /\ Len(reply) <= BlocksOf[r]
           /\ reply # <<>> => Len(reply) # 0
           /\ Len(reply) = BlocksOf[r] =>
                  \A i \in 1..BlocksOf[r] : SortedByIndex(reply)[i] = i
<1> DEFINE n == BlocksOf[r]
<1>1. n \in Nat \ {0}
  BY DownloadConstants
<1>2. PICK k \in 0..n : /\ reply \in [1..k -> 1..n]
                        /\ \A i, j \in 1..k : reply[i] = reply[j] => i = j
  BY DEF Listings
<1>3. k \in Nat /\ k <= n /\ Len(reply) = k /\ (reply # <<>> => k # 0)
  BY <1>1, <1>2
<1> DEFINE below(x) == {j \in 1..k : reply[j] < x}
           values == {reply[j] : j \in 1..k}
<1>4. /\ values \subseteq 1..n /\ \A x \in values : x \in Nat
      /\ \A j \in 1..k : reply[j] \in values
      /\ \A x \in values : \E j \in 1..k : reply[j] = x
  BY <1>1, <1>2
<1>5. IsFiniteSet(1..k) /\ Cardinality(1..k) = k
  BY <1>3, FS_Interval
<1>6. ASSUME NEW x
      PROVE  IsFiniteSet(below(x)) /\ Cardinality(below(x)) \in Nat
  <2>1. below(x) \in SUBSET (1..k)
    OBVIOUS
  <2> QED
    BY <1>5, <2>1, FS_Subset, FS_CardinalityType
<1>7. ASSUME NEW x \in values
      PROVE  Cardinality(below(x)) \in 0..(k - 1)
  <2>1. PICK j \in 1..k : reply[j] = x
    BY <1>4
  <2>2. ~(x < x)
    <3>1. x \in Nat
      BY <1>4
    <3> QED
      BY <3>1
  <2>3. j \notin below(x)
    BY <2>1, <2>2
  <2>4. below(x) \in SUBSET (1..k)
    OBVIOUS
  <2>5. Cardinality(below(x)) <= k /\ Cardinality(below(x)) # k
    <3> HIDE DEF below
    <3>1. below(x) # 1..k
      BY <2>3
    <3> QED
      BY <1>5, <2>4, <3>1, FS_Subset
  <2>6. Cardinality(below(x)) \in Nat
    BY <1>6
  <2> HIDE DEF below
  <2> QED
    BY <1>3, <2>5, <2>6
<1>8. ASSUME NEW x \in values, NEW y \in values, x < y
      PROVE  Cardinality(below(x)) < Cardinality(below(y))
  <2>1. PICK j \in 1..k : reply[j] = x
    BY <1>4
  <2>2. j \in below(y) /\ j \notin below(x)
    <3>1. x \in Nat /\ ~(x < x)
      BY <1>4
    <3> QED
      BY <1>8, <2>1, <3>1
  <2>3. below(x) \in SUBSET below(y)
    <3> SUFFICES ASSUME NEW i \in 1..k, reply[i] < x
                 PROVE  reply[i] < y
      OBVIOUS
    <3>1. reply[i] \in Nat /\ x \in Nat /\ y \in Nat
      BY <1>4
    <3> QED
      BY <1>8, <3>1
  <2>4. IsFiniteSet(below(y)) /\ Cardinality(below(x)) \in Nat /\ Cardinality(below(y)) \in Nat
    BY <1>6
  <2> HIDE DEF below
  <2>5. below(x) # below(y)
    BY <2>2
  <2>6. /\ Cardinality(below(x)) <= Cardinality(below(y))
        /\ Cardinality(below(x)) # Cardinality(below(y))
    BY <2>3, <2>4, <2>5, FS_Subset
  <2> QED
    BY <2>4, <2>6
<1>9. IsFiniteSet(values) /\ Cardinality(values) = k
  <2>1. reply \in [1..k -> values]
    BY <1>2, <1>4
  <2> HIDE DEF values
  <2>2. reply \in Bijection(1..k, values)
    BY <1>2, <1>4, <2>1 DEF Bijection, Injection, IsInjective, Surjection
  <2> QED
    BY <1>5, <2>2, FS_Bijection DEF ExistsBijection
<1> DEFINE rank == [x \in values |-> Cardinality(below(x))]
<1>10. rank \in Surjection(values, 0..(k - 1))
  <2>1. rank \in [values -> 0..(k - 1)]
    BY <1>7
  <2>2. \A x \in values : rank[x] = Cardinality(below(x))
    OBVIOUS
  <2> HIDE DEF rank, values, below
  <2>3. \A x, y \in values : rank[x] = rank[y] => x = y
    <3> SUFFICES ASSUME NEW x \in values, NEW y \in values, x # y
                 PROVE  rank[x] # rank[y]
      OBVIOUS
    <3>1. x < y \/ y < x
      BY <1>4
    <3>2. Cardinality(below(x)) \in Nat /\ Cardinality(below(y)) \in Nat
      BY <1>6
    <3>3. CASE x < y
      BY <1>8, <2>2, <3>2, <3>3
    <3>4. CASE y < x
      BY <1>8, <2>2, <3>2, <3>4
    <3> QED
      BY <3>1, <3>3, <3>4
  <2>4. rank \in Injection(values, 0..(k - 1))
    BY <2>1, <2>3 DEF Injection, IsInjective
  <2>5. IsFiniteSet(0..(k - 1)) /\ Cardinality(0..(k - 1)) = k
    BY <1>3, FS_Interval
  <2> QED
    BY <1>9, <2>4, <2>5, FS_Injection
<1> DEFINE sorted == SortedByIndex(reply)
<1>11. sorted = [i \in 1..k |-> CHOOSE x \in values : Cardinality(below(x)) = i - 1]
  BY <1>3 DEF SortedByIndex
<1>12. ASSUME NEW i \in 1..k
       PROVE  sorted[i] \in values /\ Cardinality(below(sorted[i])) = i - 1
  <2>1. \E x \in values : Cardinality(below(x)) = i - 1
    <3>1. i - 1 \in 0..(k - 1)
      BY <1>3
    <3>2. PICK x \in values : rank[x] = i - 1
      <4> HIDE DEF rank, values
      <4> QED
        BY <1>10, <3>1 DEF Surjection
    <3> QED
      BY <3>2
  <2>2. sorted[i] = CHOOSE x \in values : Cardinality(below(x)) = i - 1
    BY <1>11
  <2> HIDE DEF sorted, values, below
  <2> QED
    BY <2>1, <2>2
<1>13. sorted \in Seq(Nat) /\ Len(sorted) = k
  <2> HIDE DEF sorted, values
  <2>1. \A i \in 1..k : sorted[i] \in Nat
    BY <1>4, <1>12
  <2>2. sorted \in [1..k -> Nat]
    BY <1>11, <2>1
  <2>3. sorted \in Seq(Nat)
    BY <1>3, <2>2
  <2>4. DOMAIN sorted = 1..k
    BY <2>2
  <2> QED
    BY <1>3, <2>3, <2>4, LenProperties
<1>14. ASSUME k = n
       PROVE  \A i \in 1..n : sorted[i] = i
  <2>1. values = 1..n
    <3>1. Cardinality(1..n) = n /\ IsFiniteSet(1..n)
      BY <1>5, <1>14
    <3> HIDE DEF values
    <3>2. values \in SUBSET (1..n) /\ Cardinality(values) = n
      BY <1>4, <1>9, <1>14
    <3> QED
      BY <3>1, <3>2, FS_Subset
  <2>2. ASSUME NEW x \in 1..n
        PROVE  Cardinality(below(x)) = x - 1
    <3> DEFINE f == [j \in below(x) |-> reply[j]]
    <3>1. f \in [below(x) -> 1..(x - 1)]
      BY <1>2, <1>3
    <3>2. \A i, j \in below(x) : f[i] = f[j] => i = j
      BY <1>2, <1>3
    <3>3. ASSUME NEW y \in 1..(x - 1)
          PROVE  \E j \in below(x) : f[j] = y
      <4>1. y \in 1..n /\ y < x
        BY <1>1
      <4>2. PICK j \in 1..k : reply[j] = y
        BY <1>4, <2>1, <4>1
      <4>3. j \in below(x)
        BY <4>1, <4>2
      <4> QED
        BY <4>2, <4>3
    <3>4. IsFiniteSet(below(x))
      BY <1>6
    <3> HIDE DEF f, below
    <3>5. f \in Bijection(below(x), 1..(x - 1))
      BY <3>1, <3>2, <3>3 DEF Bijection, Injection, IsInjective, Surjection
    <3>6. Cardinality(1..(x - 1)) = Cardinality(below(x))
      BY <3>4, <3>5, FS_Bijection DEF ExistsBijection
    <3> QED
      BY <1>1, <3>6, FS_Interval
  <2>3. ASSUME NEW i \in 1..n
        PROVE  sorted[i] = i
    <3> HIDE DEF sorted, below, values
    <3>1. sorted[i] \in 1..n /\ Cardinality(below(sorted[i])) = i - 1
      <4>1. i \in 1..k
        BY <1>14
      <4>2. sorted[i] \in values /\ Cardinality(below(sorted[i])) = i - 1
        BY <1>12, <4>1
      <4> QED
        BY <2>1, <4>2
    <3>2. Cardinality(below(sorted[i])) = sorted[i] - 1
      BY <2>2, <3>1
    <3> QED
      BY <1>1, <3>1, <3>2
  <2> QED
    BY <2>3
<1> HIDE DEF sorted
<1>15. SortedByIndex(reply) = sorted
  BY DEF sorted
<1> QED
  BY <1>3, <1>13, <1>14, <1>15
-----------------------------------------------------------------------------
(* Operators on a file.                                                    *)

\* A write at a position keeps the pieces at the others, and fills up with zeros.
LEMMA WriteAtIs ==
    ASSUME NEW content \in Seq(Piece), NEW position \in Nat, NEW piece \in Piece
    PROVE  LET after == WriteAt(content, position, piece) IN
           /\ after \in Seq(Piece)
           /\ Len(after) = IF position > Len(content) THEN position ELSE Len(content)
           /\ \A i \in 1..Len(after) :
                  after[i] = IF i = position THEN piece
                             ELSE IF i <= Len(content) THEN content[i] ELSE Zeros
<1> DEFINE m == IF position > Len(content) THEN position ELSE Len(content)
           after == WriteAt(content, position, piece)
<1>1. m \in Nat /\ Len(content) \in Nat
  OBVIOUS
<1>2. Zeros \in Piece
  BY DownloadConstants DEF Zeros, Piece
<1>3. after = [i \in 1..m |-> IF i = position THEN piece
                              ELSE IF i <= Len(content) THEN content[i] ELSE Zeros]
  BY DEF WriteAt
<1>4. ASSUME NEW i \in 1..m
      PROVE  (IF i = position THEN piece
              ELSE IF i <= Len(content) THEN content[i] ELSE Zeros) \in Piece
  BY <1>1, <1>2
<1> HIDE DEF m, after
<1>5. after \in [1..m -> Piece]
  BY <1>3, <1>4
<1>6. after \in Seq(Piece) /\ Len(after) = m
  BY <1>1, <1>5
<1>7. \A i \in 1..m : after[i] = IF i = position THEN piece
                                 ELSE IF i <= Len(content) THEN content[i] ELSE Zeros
  BY <1>3
<1> QED
  BY <1>6, <1>7 DEF after, m

-----------------------------------------------------------------------------
(* Type correctness.                                                       *)

Flags == ioError \in [Downloads -> BOOLEAN] /\ verified \in [Downloads -> BOOLEAN]
         /\ cancelled \in [Downloads -> BOOLEAN] /\ clash \in [Downloads -> BOOLEAN]

\* The steps of a download that move its task or its file.
Own(d) == SpawnDownload(d) \/ Task(d) \/ DiskWrite(d)

\* The steps that do neither.
Aside == (\E d \in Downloads : Poll(d) \/ CancelTransfer(d)) \/ NewRevision
         \/ (\E r \in Revisions : DropRevision(r)) \/ UNCHANGED vars

LEMMA StepCases ==
    ASSUME [Next]_vars
    PROVE  (\E d \in Downloads : Own(d)) \/ Aside \/ ProcessEnds
BY DEF Next, Own, Aside

\* The flags stay Boolean.
LEMMA FlagsStep ==
    ASSUME TypeOK, [Next]_vars
    PROVE  Flags'
<1> USE DEF Flags, TypeOK
<1>1. ASSUME NEW d \in Downloads, Touches(d)
      PROVE  clash' \in [Downloads -> BOOLEAN]
  BY <1>1, Zenon DEF Touches
<1>2. CASE Aside
  <2>1. ASSUME NEW d \in Downloads, Poll(d) \/ CancelTransfer(d)
        PROVE  Flags'
    BY <2>1, Zenon DEF Poll, CancelTransfer, file, result, ui
  <2>2. CASE NewRevision \/ (\E r \in Revisions : DropRevision(r)) \/ UNCHANGED vars
    BY <2>2, Zenon DEF NewRevision, DropRevision, vars, file, result, ui
  <2> QED
    BY <1>2, <2>1, <2>2 DEF Aside
<1>3. CASE ProcessEnds
  BY <1>3, Zenon DEF ProcessEnds
<1>4. ASSUME NEW d \in Downloads, Own(d)
      PROVE  Flags'
  <2>1. CASE CreateFile(d)
    BY <1>1, <2>1, Zenon DEF CreateFile, ui
  <2>2. CASE VerifyManifest(d)
    <3>1. PICK keyFound \in BOOLEAN :
             verified' = [verified EXCEPT ![d] = keyFound /\ Len(list[d]) = BlocksOf[rev[d]]]
      BY <2>2 DEF VerifyManifest
    <3>2. (keyFound /\ Len(list[d]) = BlocksOf[rev[d]]) \in BOOLEAN
      OBVIOUS
    <3>3. verified' \in [Downloads -> BOOLEAN]
      BY <3>1, <3>2, Zenon
    <3> QED
      BY <2>2, <3>3, Zenon DEF VerifyManifest, file, ui
  <2>3. CASE DiskWrite(d)
    <3>1. CASE Touches(d) /\ UNCHANGED ioError
      BY <1>1, <2>3, <3>1, Zenon DEF DiskWrite, result, ui
    <3>2. CASE ioError' = [ioError EXCEPT ![d] = TRUE] /\ UNCHANGED <<disk, clash>>
      BY <2>3, <3>2, Zenon DEF DiskWrite, result, ui
    <3> QED
      BY <2>3, <3>1, <3>2 DEF DiskWrite
  <2>4. CASE SpawnDownload(d) \/ Start(d) \/ FetchLink(d) \/ ResolveKeys(d) \/ CheckCancel(d)
    BY <2>4, Zenon DEF SpawnDownload, Start, FetchLink, ResolveKeys, CheckCancel, file, ui, result
  <2>5. CASE FetchRevision(d) \/ FetchBlock(d) \/ WriteBlock(d) \/ Flush(d)
    BY <2>5, Zenon DEF FetchRevision, FetchBlock, WriteBlock, Flush, file, ui
  <2>6. CASE VerifyXattr(d) \/ StepFails(d)
    BY <2>6, Zenon DEF VerifyXattr, StepFails, file, ui
  <2> QED
    BY <1>4, <2>1, <2>2, <2>3, <2>4, <2>5, <2>6 DEF Own, Task
<1> QED
  BY <1>2, <1>3, <1>4, StepCases

\* How a step of the task leaves the types of its place and its outcome.
LEMMA MovesKeepTypes ==
    ASSUME TypeOK, NEW d \in Downloads
    PROVE  /\ \A how \in Results : Finish(d, how) =>
                  /\ pc' \in [Downloads -> Working \cup {"idle", "done", "dead"}]
                  /\ outcome' \in [Downloads -> Outcome]
           /\ \A step \in Working : Advance(d, step) =>
                  /\ pc' \in [Downloads -> Working \cup {"idle", "done", "dead"}]
                  /\ outcome' \in [Downloads -> Outcome]
BY DEF TypeOK, Finish, Advance, Outcome

\* The rest of TypeOK.
Shapes ==
    /\ active \in Revisions /\ gone \in SUBSET Revisions
    /\ disk \in [Paths -> Seq(Piece)]
    /\ pc \in [Downloads -> Working \cup {"idle", "done", "dead"}]
    /\ rev \in [Downloads -> Revisions \cup {None}]
    /\ list \in [Downloads -> Seq(Nat)]
    /\ body \in [Downloads -> Seq(Piece)]
    /\ \A d \in Downloads : next[d] \in 1..(Len(list[d]) + 1)
    /\ pending \in [Downloads -> Seq(Piece)]
    /\ outcome \in [Downloads -> Outcome]
    /\ state \in [Downloads -> {"none", "running"} \cup Terminal]
    /\ next \in [Downloads -> Nat \ {0}]

LEMMA ShapesStep ==
    ASSUME TypeOK, DownloadInv, [Next]_vars
    PROVE  Shapes'
<1> USE DownloadConstants
<1>1. Shapes /\ DestOf \in [Downloads -> Paths]
  BY DEF Shapes, TypeOK, DownloadInv
<1>2. CASE Aside
  <2>1. ASSUME NEW d \in Downloads, Poll(d) \/ CancelTransfer(d)
        PROVE  Shapes'
    BY <1>1, <2>1 DEF Shapes, Poll, CancelTransfer, server, file, plan, result, Terminal
  <2>2. CASE NewRevision
    BY <1>1, <2>2 DEF Shapes, NewRevision, server, file, plan, result, ui, Revisions
  <2>3. ASSUME NEW r \in Revisions, DropRevision(r)
        PROVE  Shapes'
    BY <1>1, <2>3 DEF Shapes, DropRevision, server, file, plan, result, ui
  <2>4. CASE UNCHANGED vars
    BY <1>1, <2>4 DEF Shapes, vars, server, file, plan, result, ui
  <2> QED
    BY <1>2, <2>1, <2>2, <2>3, <2>4 DEF Aside
<1>3. CASE ProcessEnds
  BY <1>1, <1>3 DEF Shapes, ProcessEnds, server, Outcome
<1>4. ASSUME NEW d \in Downloads, Own(d)
      PROVE  Shapes'
  <2>1. PlanInv(d) /\ WriteInv(d)
    BY DEF DownloadInv
  <2>2. CASE SpawnDownload(d)
    BY <1>1, <2>2 DEF Shapes, SpawnDownload, server, file, plan, result, Working
  <2>3. CASE Start(d) \/ CheckCancel(d) \/ ResolveKeys(d) \/ Flush(d) \/ VerifyXattr(d)
    <3>1. /\ pc' \in [Downloads -> Working \cup {"idle", "done", "dead"}]
          /\ outcome' \in [Downloads -> Outcome]
      BY <2>3, MovesKeepTypes DEF Start, CheckCancel, ResolveKeys, Flush, VerifyXattr, Working, Results
    <3> QED
      BY <1>1, <2>3, <3>1 DEF Shapes, Start, CheckCancel, ResolveKeys, Flush, VerifyXattr,
         server, file, plan, ui
  <2>4. CASE FetchLink(d)
    <3>1. /\ pc' \in [Downloads -> Working \cup {"idle", "done", "dead"}]
          /\ outcome' \in [Downloads -> Outcome]
      BY <2>4, MovesKeepTypes DEF FetchLink, Working
    <3> QED
      BY <1>1, <2>4, <3>1 DEF Shapes, FetchLink, server, file, ui
  <2>5. CASE CreateFile(d)
    <3>1. /\ pc' \in [Downloads -> Working \cup {"idle", "done", "dead"}]
          /\ outcome' \in [Downloads -> Outcome]
      BY <2>5, MovesKeepTypes DEF CreateFile, Working
    <3>2. disk' \in [Paths -> Seq(Piece)]
      BY <1>1, <2>5 DEF CreateFile, Shapes
    <3> QED
      BY <1>1, <2>5, <3>1, <3>2 DEF Shapes, CreateFile, server, plan, ui
  <2>6. CASE FetchRevision(d)
    <3>1. rev[d] \in Revisions /\ list[d] = <<>> /\ next[d] = 1
      BY <2>1, <2>6 DEF PlanInv, WriteInv, FetchRevision, Working
    <3>2. PICK reply \in Listings(rev[d]) :
             IF reply = <<>> THEN Finish(d, "empty") /\ UNCHANGED list
             ELSE IF ~Signed[rev[d]] THEN Finish(d, "unsigned") /\ UNCHANGED list
             ELSE /\ Advance(d, "fetch")
                  /\ list' = [list EXCEPT ![d] = SortedByIndex(reply)]
      BY <2>6 DEF FetchRevision
    <3>3. /\ pc' \in [Downloads -> Working \cup {"idle", "done", "dead"}]
          /\ outcome' \in [Downloads -> Outcome]
      BY <3>2, MovesKeepTypes DEF Working, Results
    <3>4. SortedByIndex(reply) \in Seq(Nat)
      BY <3>1, SortedListing
    <3>5. list' \in [Downloads -> Seq(Nat)]
      BY <1>1, <3>2, <3>4 DEF Shapes
    <3>6. /\ next' = next /\ Len(list'[d]) \in Nat
          /\ \A e \in Downloads : e # d => list'[e] = list[e]
      BY <1>1, <2>6, <3>2, <3>5 DEF FetchRevision, Shapes
    <3>7. ASSUME NEW e \in Downloads
          PROVE  next'[e] \in 1..(Len(list'[e]) + 1)
      <4>1. CASE e = d
        BY <3>1, <3>6, <4>1
      <4>2. CASE e # d
        BY <1>1, <3>6, <4>2 DEF Shapes
      <4> QED
        BY <4>1, <4>2
    <3> QED
      BY <1>1, <2>6, <3>3, <3>5, <3>7 DEF Shapes, FetchRevision, server, file, ui
  <2>7. CASE FetchBlock(d)
    <3>1. rev[d] \in Revisions /\ list[d] # <<>> /\ next[d] <= Len(list[d])
      BY <2>1, <2>7 DEF PlanInv, FetchBlock, Working
    <3>2. list[d][next[d]] \in Nat
      BY <1>1, <3>1 DEF Shapes
    <3>3. <<rev[d], list[d][next[d]]>> \in Piece
      BY <3>1, <3>2 DEF Piece, Revisions
    <3>4. /\ pc' \in [Downloads -> Working \cup {"idle", "done", "dead"}]
          /\ outcome' \in [Downloads -> Outcome]
      BY <2>7, MovesKeepTypes DEF FetchBlock, Working, Results
    <3>5. body' \in [Downloads -> Seq(Piece)]
      <4>1. body' = body \/ body' = [body EXCEPT ![d] = <<<<rev[d], list[d][next[d]]>>>>]
        BY <2>7 DEF FetchBlock
      <4>2. <<<<rev[d], list[d][next[d]]>>>> \in Seq(Piece)
        BY <3>3
      <4> QED
        BY <1>1, <4>1, <4>2 DEF Shapes
    <3> QED
      BY <1>1, <2>7, <3>4, <3>5 DEF Shapes, FetchBlock, server, file, plan, ui
  <2>8. CASE WriteBlock(d)
    <3>1. next[d] <= Len(list[d])
      BY <2>1, <2>8 DEF PlanInv, WriteBlock
    <3>2. /\ pc' \in [Downloads -> Working \cup {"idle", "done", "dead"}]
          /\ outcome' \in [Downloads -> Outcome]
      BY <2>8, MovesKeepTypes DEF WriteBlock, Working, Results
    <3>3. body' \in [Downloads -> Seq(Piece)] /\ pending' \in [Downloads -> Seq(Piece)]
      BY <1>1, <2>8 DEF WriteBlock, Shapes
    <3>4. next' = next \/ next' = [next EXCEPT ![d] = next[d] + 1]
      BY <2>8 DEF WriteBlock
    <3>5. /\ next \in [Downloads -> Nat \ {0}] /\ next[d] + 1 \in Nat \ {0}
          /\ list[d] \in Seq(Nat) /\ Len(list[d]) \in Nat
      BY <1>1 DEF Shapes
    <3>6. next' \in [Downloads -> Nat \ {0}]
      BY <3>4, <3>5
    <3>7. next[d] + 1 \in 1..(Len(list[d]) + 1)
      BY <3>1, <3>5
    <3>8. ASSUME NEW e \in Downloads
          PROVE  next'[e] \in 1..(Len(list[e]) + 1)
      <4>1. next'[e] = next[e] \/ (e = d /\ next'[e] = next[d] + 1)
        BY <3>4, <3>5
      <4>2. next[e] \in 1..(Len(list[e]) + 1)
        BY <1>1 DEF Shapes
      <4> QED
        BY <3>7, <4>1, <4>2
    <3> QED
      BY <1>1, <2>8, <3>2, <3>3, <3>6, <3>8 DEF Shapes, WriteBlock, server, plan, ui
  <2>9. CASE DiskWrite(d)
    <3>1. /\ pending' = [pending EXCEPT ![d] = <<>>] /\ pending[d] # <<>>
          /\ disk' = disk \/ disk' = [disk EXCEPT ![DestOf[d]] =
                        WriteAt(@, next[d] - 1, pending[d][1])]
      BY <2>9 DEF DiskWrite
    <3>2. pending[d][1] \in Piece /\ next[d] - 1 \in Nat /\ disk[DestOf[d]] \in Seq(Piece)
      BY <1>1, <3>1 DEF Shapes
    <3>3. WriteAt(disk[DestOf[d]], next[d] - 1, pending[d][1]) \in Seq(Piece)
      BY <3>2, WriteAtIs
    <3>4. disk' \in [Paths -> Seq(Piece)]
      BY <1>1, <3>1, <3>3 DEF Shapes
    <3>5. pending' \in [Downloads -> Seq(Piece)]
      BY <1>1, <3>1 DEF Shapes
    <3> QED
      BY <1>1, <2>9, <3>4, <3>5 DEF Shapes, DiskWrite, server, plan, result, ui
  <2>10. CASE VerifyManifest(d)
    <3>1. /\ pc' \in [Downloads -> Working \cup {"idle", "done", "dead"}]
          /\ outcome' \in [Downloads -> Outcome]
      BY <2>10, MovesKeepTypes DEF VerifyManifest, Working
    <3> QED
      BY <1>1, <2>10, <3>1 DEF Shapes, VerifyManifest, server, file, plan, ui
  <2>11. CASE StepFails(d)
    <3>1. /\ pc' \in [Downloads -> Working \cup {"idle", "done", "dead"}]
          /\ outcome' \in [Downloads -> Outcome]
      BY <2>11, MovesKeepTypes DEF StepFails, Results
    <3>2. body' \in [Downloads -> Seq(Piece)]
      BY <1>1, <2>11 DEF StepFails, Shapes
    <3> QED
      BY <1>1, <2>11, <3>1, <3>2 DEF Shapes, StepFails, server, file, plan, ui
  <2> QED
    BY <1>4, <2>2, <2>3, <2>4, <2>5, <2>6, <2>7, <2>8, <2>9, <2>10, <2>11 DEF Own, Task
<1> QED
  BY <1>2, <1>3, <1>4, StepCases

LEMMA TypeStep ==
    ASSUME TypeOK, DownloadInv, [Next]_vars
    PROVE  TypeOK' /\ next' \in [Downloads -> Nat \ {0}]
<1>1. Flags' /\ Shapes'
  BY FlagsStep, ShapesStep
<1> QED
  BY <1>1 DEF Flags, Shapes, TypeOK
-----------------------------------------------------------------------------
(* What a step leaves alone.                                               *)

\* A step that is not one of e's leaves its task and its writes as they are.
Same(e) ==
    /\ pc'[e] = pc[e] /\ rev'[e] = rev[e] /\ list'[e] = list[e] /\ body'[e] = body[e]
    /\ next'[e] = next[e] /\ pending'[e] = pending[e] /\ ioError'[e] = ioError[e]
    /\ verified'[e] = verified[e] /\ outcome'[e] = outcome[e]

LEMMA OthersAreSame ==
    ASSUME TypeOK, DownloadInv, NEW d \in Downloads, Own(d), NEW e \in Downloads, e # d
    PROVE  Same(e)
<1>1. /\ pc'[e] = pc[e] /\ outcome'[e] = outcome[e]
  <2>1. ASSUME NEW step, Advance(d, step)
        PROVE  pc'[e] = pc[e] /\ outcome'[e] = outcome[e]
    BY <2>1 DEF Advance, TypeOK
  <2>2. ASSUME NEW how, Finish(d, how)
        PROVE  pc'[e] = pc[e] /\ outcome'[e] = outcome[e]
    BY <2>2 DEF Finish, TypeOK
  <2>3. CASE SpawnDownload(d)
    BY <2>3 DEF SpawnDownload, TypeOK, result
  <2>4. CASE DiskWrite(d)
    BY <2>4 DEF DiskWrite, result
  <2>5. CASE Task(d)
    BY <2>1, <2>2, <2>5 DEF Task, Start, FetchLink, ResolveKeys, CreateFile, CheckCancel,
       FetchRevision, FetchBlock, WriteBlock, Flush, VerifyManifest, VerifyXattr, StepFails
  <2> QED
    BY <2>3, <2>4, <2>5 DEF Own
<1>2. rev'[e] = rev[e] /\ list'[e] = list[e]
  BY DEF Own, Task, SpawnDownload, DiskWrite, Start, FetchLink, ResolveKeys, CreateFile,
     CheckCancel, FetchRevision, FetchBlock, WriteBlock, Flush, VerifyManifest, VerifyXattr,
     StepFails, plan, TypeOK
<1>3. body'[e] = body[e] /\ next'[e] = next[e]
  BY DEF Own, Task, SpawnDownload, DiskWrite, Start, FetchLink, ResolveKeys, CreateFile,
     CheckCancel, FetchRevision, FetchBlock, WriteBlock, Flush, VerifyManifest, VerifyXattr,
     StepFails, TypeOK, DownloadInv
<1>4. pending'[e] = pending[e] /\ ioError'[e] = ioError[e]
  BY DEF Own, Task, SpawnDownload, DiskWrite, Start, FetchLink, ResolveKeys, CreateFile,
     CheckCancel, FetchRevision, FetchBlock, WriteBlock, Flush, VerifyManifest, VerifyXattr,
     StepFails, TypeOK, file
<1>5. verified'[e] = verified[e]
  BY DEF Own, Task, SpawnDownload, DiskWrite, Start, FetchLink, ResolveKeys, CreateFile,
     CheckCancel, FetchRevision, FetchBlock, WriteBlock, Flush, VerifyManifest, VerifyXattr,
     StepFails, TypeOK, result
<1> QED
  BY <1>1, <1>2, <1>3, <1>4, <1>5 DEF Same

LEMMA AsideIsSame ==
    ASSUME Aside
    PROVE  /\ \A e \in Downloads : Same(e)
           /\ UNCHANGED <<pc, disk, clash>>
<1>1. ASSUME NEW d \in Downloads, Poll(d) \/ CancelTransfer(d)
      PROVE  UNCHANGED <<file, pc, plan, body, next, result>>
  BY <1>1 DEF Poll, CancelTransfer
<1>2. ASSUME NewRevision \/ (\E r \in Revisions : DropRevision(r)) \/ UNCHANGED vars
      PROVE  UNCHANGED <<file, pc, plan, body, next, result>>
  BY <1>2 DEF NewRevision, DropRevision, vars
<1>3. UNCHANGED <<file, pc, plan, body, next, result>>
  BY <1>1, <1>2 DEF Aside
<1> QED
  BY <1>3 DEF Same, file, plan, result

-----------------------------------------------------------------------------
(* What a download plans, hands to the disk and says of itself.            *)

TaskInv(d) == PlanInv(d) /\ WriteInv(d) /\ OutcomeInv(d)

\* A download that is left as it is keeps its part of the invariant.
LEMMA SameKeepsTaskInv ==
    ASSUME NEW e \in Downloads, Same(e), TaskInv(e)
    PROVE  TaskInv(e)'
<1>1. PlanInv(e)'
  BY DEF Same, TaskInv, PlanInv, Listed
<1>2. WriteInv(e)'
  BY DEF Same, TaskInv, WriteInv, PieceAt
<1>3. OutcomeInv(e)'
  BY DEF Same, TaskInv, OutcomeInv
<1> QED
  BY <1>1, <1>2, <1>3 DEF TaskInv

LEMMA OwnKeepsTaskInv ==
    ASSUME TypeOK, DownloadInv, NEW d \in Downloads, Own(d)
    PROVE  TaskInv(d)'
<1> USE DownloadConstants
<1>1. /\ PlanInv(d) /\ WriteInv(d) /\ OutcomeInv(d)
      /\ next \in [Downloads -> Nat \ {0}]
  BY DEF DownloadInv
<1>2. /\ list \in [Downloads -> Seq(Nat)] /\ Len(list[d]) \in Nat
      /\ rev \in [Downloads -> Revisions \cup {None}]
      /\ next[d] \in 1..(Len(list[d]) + 1)
      /\ pc \in [Downloads -> Working \cup {"idle", "done", "dead"}]
      /\ outcome \in [Downloads -> Outcome]
      /\ body \in [Downloads -> Seq(Piece)] /\ pending \in [Downloads -> Seq(Piece)]
      /\ ioError \in [Downloads -> BOOLEAN] /\ verified \in [Downloads -> BOOLEAN]
  BY DEF TypeOK
<1>3. ASSUME NEW step, Advance(d, step)
      PROVE  pc'[d] = step /\ outcome'[d] = outcome[d]
  BY <1>2, <1>3 DEF Advance
<1>4. ASSUME NEW how, Finish(d, how)
      PROVE  pc'[d] = "done" /\ outcome'[d] = how
  BY <1>2, <1>4 DEF Finish
<1>5. outcome[d] = None \/ pc[d] = "done"
  BY <1>1 DEF OutcomeInv
<1>6. None # "ok"
  BY DEF Results
<1>7. CASE SpawnDownload(d)
  <2>1. /\ pc[d] = "idle" /\ pc'[d] = "start"
        /\ UNCHANGED <<rev, list, body, next, pending, ioError, verified, outcome>>
    BY <1>2, <1>7 DEF SpawnDownload, file, plan, result
  <2>2. PlanInv(d)'
    BY <1>1, <2>1 DEF PlanInv, Listed, Early, Working
  <2>3. WriteInv(d)'
    BY <1>1, <2>1 DEF WriteInv, PieceAt
  <2>4. OutcomeInv(d)'
    BY <1>1, <1>5, <1>6, <2>1 DEF OutcomeInv
  <2> QED
    BY <2>2, <2>3, <2>4 DEF TaskInv
<1>8. CASE Start(d) \/ CheckCancel(d) \/ ResolveKeys(d)
  <2>1. /\ pc[d] \in {"start", "opened", "keys"}
        /\ \/ pc'[d] = "done" /\ outcome'[d] = "cancel"
           \/ outcome'[d] = outcome[d] /\ pc'[d] =
                 (IF pc[d] = "start" THEN "link" ELSE IF pc[d] = "keys" THEN "create" ELSE "revision")
        /\ UNCHANGED <<rev, list, body, next, pending, ioError, verified>>
    BY <1>3, <1>4, <1>8 DEF Start, CheckCancel, ResolveKeys, file, plan
  <2>2. PlanInv(d)'
    BY <1>1, <2>1 DEF PlanInv, Listed, Early, Working
  <2>3. WriteInv(d)'
    BY <1>1, <2>1 DEF WriteInv, PieceAt
  <2>4. OutcomeInv(d)'
    BY <1>1, <1>5, <1>6, <2>1 DEF OutcomeInv
  <2> QED
    BY <2>2, <2>3, <2>4 DEF TaskInv
<1>9. CASE FetchLink(d)
  <2>1. /\ pc[d] = "link" /\ pc'[d] = "keys" /\ outcome'[d] = outcome[d]
        /\ rev'[d] \in Revisions
        /\ UNCHANGED <<list, body, next, pending, ioError, verified>>
    BY <1>2, <1>3, <1>9 DEF FetchLink, file, TypeOK
  <2>2. list[d] = <<>>
    BY <1>1, <2>1 DEF PlanInv, Early
  <2>3. PlanInv(d)'
    BY <1>1, <2>1, <2>2 DEF PlanInv, Early, Working
  <2>4. WriteInv(d)'
    BY <1>1, <2>1, <2>2 DEF WriteInv
  <2>5. OutcomeInv(d)'
    BY <1>1, <1>5, <1>6, <2>1 DEF OutcomeInv
  <2> QED
    BY <2>3, <2>4, <2>5 DEF TaskInv
<1>10. CASE CreateFile(d)
  <2>1. /\ pc[d] = "create" /\ pc'[d] = "opened" /\ outcome'[d] = outcome[d]
        /\ UNCHANGED <<rev, list, body, next, pending, ioError, verified>>
    BY <1>2, <1>3, <1>10 DEF CreateFile, plan
  <2>2. PlanInv(d)'
    BY <1>1, <2>1 DEF PlanInv, Listed, Early, Working
  <2>3. WriteInv(d)'
    BY <1>1, <2>1 DEF WriteInv, PieceAt
  <2>4. OutcomeInv(d)'
    BY <1>1, <1>5, <1>6, <2>1 DEF OutcomeInv
  <2> QED
    BY <2>2, <2>3, <2>4 DEF TaskInv
<1>11. CASE FetchRevision(d)
  <2>1. /\ pc[d] = "revision" /\ rev[d] \in Revisions /\ list[d] = <<>> /\ next[d] = 1
        /\ pending[d] = <<>> /\ ~ioError[d] /\ ~verified[d]
        /\ UNCHANGED <<rev, body, next, pending, ioError, verified>>
    BY <1>1, <1>11 DEF PlanInv, WriteInv, FetchRevision, Early, Working, file
  <2>2. PICK reply \in Listings(rev[d]) :
           IF reply = <<>> THEN Finish(d, "empty") /\ UNCHANGED list
           ELSE IF ~Signed[rev[d]] THEN Finish(d, "unsigned") /\ UNCHANGED list
           ELSE /\ Advance(d, "fetch")
                /\ list' = [list EXCEPT ![d] = SortedByIndex(reply)]
    BY <1>11 DEF FetchRevision
  <2>3. CASE pc'[d] = "done" /\ outcome'[d] \in {"empty", "unsigned"} /\ UNCHANGED list
    <3>1. PlanInv(d)'
      BY <1>1, <2>1, <2>3 DEF PlanInv, Early, Working
    <3>2. WriteInv(d)'
      BY <1>1, <2>1, <2>3 DEF WriteInv
    <3>3. OutcomeInv(d)'
      BY <2>3 DEF OutcomeInv
    <3> QED
      BY <3>1, <3>2, <3>3 DEF TaskInv
  <2>4. CASE /\ reply # <<>> /\ Signed[rev[d]] /\ pc'[d] = "fetch" /\ outcome'[d] = outcome[d]
             /\ list' = [list EXCEPT ![d] = SortedByIndex(reply)]
    <3> DEFINE sorted == SortedByIndex(reply)
    <3>1. /\ sorted \in Seq(Nat) /\ Len(sorted) \in Nat /\ Len(sorted) # 0
          /\ Len(sorted) <= BlocksOf[rev[d]]
          /\ Len(sorted) = BlocksOf[rev[d]] => \A i \in 1..Len(sorted) : sorted[i] = i
      BY <2>1, <2>4, SortedListing
    <3>2. list'[d] = sorted
      BY <1>2, <2>4
    <3> HIDE DEF sorted
    <3>3. sorted # <<>>
      BY <3>1
    <3>4. Listed(d)'
      BY <2>1, <2>4, <3>1, <3>2 DEF Listed
    <3>5. PlanInv(d)'
      BY <2>1, <2>4, <3>1, <3>2, <3>3, <3>4 DEF PlanInv, Early, Working
    <3>6. WriteInv(d)'
      BY <2>1, <2>4, <3>2, <3>3 DEF WriteInv
    <3>7. OutcomeInv(d)'
      BY <1>5, <1>6, <2>1, <2>4 DEF OutcomeInv
    <3> QED
      BY <3>5, <3>6, <3>7 DEF TaskInv
  <2> QED
    BY <1>3, <1>4, <2>2, <2>3, <2>4
<1>12. CASE FetchBlock(d)
  <2>1. /\ pc[d] = "fetch" /\ list[d] # <<>>
        /\ UNCHANGED <<rev, list, next, pending, ioError, verified>>
        /\ \/ pc'[d] = "done" /\ outcome'[d] = "integrity"
           \/ /\ pc'[d] = "write" /\ outcome'[d] = outcome[d]
              /\ body'[d] = <<PieceAt(d, next[d])>>
    BY <1>1, <1>2, <1>3, <1>4, <1>12 DEF PlanInv, FetchBlock, file, plan, PieceAt
  <2>2. PlanInv(d)'
    BY <1>1, <2>1 DEF PlanInv, Listed, Early, Working
  <2>3. WriteInv(d)'
    BY <1>1, <2>1 DEF WriteInv, PieceAt
  <2>4. OutcomeInv(d)'
    BY <1>1, <1>5, <1>6, <2>1 DEF OutcomeInv
  <2> QED
    BY <2>2, <2>3, <2>4 DEF TaskInv
<1>13. CASE WriteBlock(d)
  <2>1. /\ pc[d] = "write" /\ pending[d] = <<>> /\ list[d] # <<>> /\ next[d] <= Len(list[d])
        /\ body[d] = <<PieceAt(d, next[d])>>
        /\ UNCHANGED <<rev, list, ioError, verified>>
    BY <1>1, <1>13 DEF PlanInv, WriteInv, WriteBlock, plan
  <2>2. CASE ioError[d]
    <3>1. pc'[d] = "done" /\ outcome'[d] = "error" /\ UNCHANGED <<pending, next>>
      BY <1>4, <1>13, <2>2 DEF WriteBlock
    <3>2. PlanInv(d)'
      BY <1>1, <2>1, <3>1 DEF PlanInv, Listed, Early, Working
    <3>3. WriteInv(d)'
      BY <1>1, <2>1, <3>1 DEF WriteInv, PieceAt
    <3>4. OutcomeInv(d)'
      BY <3>1 DEF OutcomeInv
    <3> QED
      BY <3>2, <3>3, <3>4 DEF TaskInv
  <2>3. CASE ~ioError[d]
    <3>1. /\ pending' = [pending EXCEPT ![d] = body[d]]
          /\ next' = [next EXCEPT ![d] = next[d] + 1]
          /\ Advance(d, IF next[d] < Len(list[d]) THEN "fetch" ELSE "flush")
      BY <1>13, <2>3 DEF WriteBlock
    <3>2. /\ pending'[d] = <<PieceAt(d, next[d])>> /\ next'[d] = next[d] + 1
          /\ outcome'[d] = outcome[d]
          /\ next[d] < Len(list[d]) => pc'[d] = "fetch"
          /\ ~(next[d] < Len(list[d])) => pc'[d] = "flush"
      BY <1>1, <1>2, <1>3, <2>1, <3>1
    <3>3. next[d] \in Nat /\ next[d] # 0 /\ next'[d] - 1 = next[d]
      BY <1>2, <3>2
    <3>4. PlanInv(d)'
      BY <1>1, <1>2, <2>1, <3>2, <3>3 DEF PlanInv, Listed, Early, Working
    <3>5. WriteInv(d)'
      BY <1>1, <2>1, <2>3, <3>2, <3>3 DEF WriteInv, PieceAt
    <3>6. OutcomeInv(d)'
      BY <1>5, <1>6, <2>1, <3>2 DEF OutcomeInv
    <3> QED
      BY <3>4, <3>5, <3>6 DEF TaskInv
  <2> QED
    BY <2>2, <2>3
<1>14. CASE DiskWrite(d)
  <2>1. /\ pending[d] # <<>> /\ pending'[d] = <<>>
        /\ UNCHANGED <<pc, rev, list, body, next, verified, outcome>>
        /\ ioError'[d] \in BOOLEAN
    BY <1>2, <1>14 DEF DiskWrite, plan, result
  <2>2. PlanInv(d)'
    BY <1>1, <2>1 DEF PlanInv, Listed
  <2>3. WriteInv(d)'
    BY <1>1, <2>1 DEF WriteInv, PieceAt
  <2>4. OutcomeInv(d)'
    BY <1>1, <2>1 DEF OutcomeInv
  <2> QED
    BY <2>2, <2>3, <2>4 DEF TaskInv
<1>15. CASE Flush(d)
  <2>1. /\ pc[d] = "flush" /\ pending[d] = <<>>
        /\ list[d] # <<>> /\ next[d] = Len(list[d]) + 1
        /\ \/ pc'[d] = "done" /\ outcome'[d] = "error"
           \/ pc'[d] = "verify" /\ outcome'[d] = outcome[d] /\ ~ioError[d]
        /\ UNCHANGED <<rev, list, body, next, pending, ioError, verified>>
    BY <1>1, <1>3, <1>4, <1>15 DEF PlanInv, Flush, file, plan
  <2>2. PlanInv(d)'
    BY <1>1, <2>1 DEF PlanInv, Listed, Early, Working
  <2>3. WriteInv(d)'
    BY <1>1, <2>1 DEF WriteInv, PieceAt
  <2>4. OutcomeInv(d)'
    BY <1>1, <1>5, <1>6, <2>1 DEF OutcomeInv
  <2> QED
    BY <2>2, <2>3, <2>4 DEF TaskInv
<1>16. CASE VerifyManifest(d)
  <2>1. /\ pc[d] = "verify" /\ pc'[d] = "xattr" /\ outcome'[d] = outcome[d]
        /\ UNCHANGED <<rev, list, body, next, pending, ioError>>
        /\ verified'[d] => Len(list[d]) = BlocksOf[rev[d]]
    BY <1>2, <1>3, <1>16 DEF VerifyManifest, file, plan
  <2>2. PlanInv(d)'
    BY <1>1, <2>1 DEF PlanInv, Listed, Early, Working
  <2>3. WriteInv(d)'
    BY <1>1, <2>1 DEF WriteInv, PieceAt
  <2>4. OutcomeInv(d)'
    BY <1>1, <1>5, <1>6, <2>1 DEF OutcomeInv
  <2> QED
    BY <2>2, <2>3, <2>4 DEF TaskInv
<1>17. CASE VerifyXattr(d)
  <2>1. /\ pc[d] = "xattr" /\ pc'[d] = "done" /\ outcome'[d] = "ok"
        /\ UNCHANGED <<rev, list, body, next, pending, ioError, verified>>
    BY <1>4, <1>17 DEF VerifyXattr, file, plan
  <2>2. PlanInv(d)'
    BY <1>1, <2>1 DEF PlanInv, Listed, Early, Working
  <2>3. WriteInv(d)'
    BY <1>1, <2>1 DEF WriteInv, PieceAt
  <2>4. OutcomeInv(d)'
    BY <1>1, <2>1 DEF OutcomeInv
  <2> QED
    BY <2>2, <2>3, <2>4 DEF TaskInv
<1>18. CASE StepFails(d)
  <2>1. /\ pc[d] \in Working \ {"xattr"} /\ pc'[d] = "done" /\ outcome'[d] = "error"
        /\ UNCHANGED <<rev, list, next, pending, ioError, verified>>
    BY <1>4, <1>18 DEF StepFails, file, plan
  <2>2. PlanInv(d)'
    BY <1>1, <2>1 DEF PlanInv, Listed, Early, Working
  <2>3. WriteInv(d)'
    BY <1>1, <2>1 DEF WriteInv, PieceAt
  <2>4. OutcomeInv(d)'
    BY <2>1 DEF OutcomeInv
  <2> QED
    BY <2>2, <2>3, <2>4 DEF TaskInv
<1> QED
  BY <1>7, <1>8, <1>9, <1>10, <1>11, <1>12, <1>13, <1>14, <1>15, <1>16, <1>17, <1>18 DEF Own, Task
LEMMA TaskInvStep ==
    ASSUME TypeOK, DownloadInv, [Next]_vars, NEW e \in Downloads
    PROVE  TaskInv(e)'
<1>1. TaskInv(e)
  BY DEF DownloadInv, TaskInv
<1>2. CASE Aside
  BY <1>1, <1>2, AsideIsSame, SameKeepsTaskInv
<1>3. CASE ProcessEnds
  <2>1. /\ pc'[e] \in {"idle", "dead"} /\ list'[e] = <<>> /\ next'[e] = 1
        /\ pending'[e] = <<>> /\ ~ioError'[e] /\ ~verified'[e] /\ outcome'[e] = None
    BY <1>3 DEF ProcessEnds
  <2>2. None # "ok"
    BY DownloadConstants DEF Results
  <2> QED
    BY <2>1, <2>2 DEF TaskInv, PlanInv, WriteInv, OutcomeInv, Working
<1>4. ASSUME NEW d \in Downloads, Own(d)
      PROVE  TaskInv(e)'
  <2>1. CASE e = d
    BY <1>4, <2>1, OwnKeepsTaskInv
  <2>2. CASE e # d
    BY <1>1, <1>4, <2>2, OthersAreSame, SameKeepsTaskInv
  <2> QED
    BY <2>1, <2>2
<1> QED
  BY <1>2, <1>3, <1>4, StepCases

-----------------------------------------------------------------------------
(* What the files hold.                                                    *)

\* The disk write of d, when it succeeds.
Lands(d) ==
    /\ DiskWrite(d)
    /\ disk' = [disk EXCEPT ![DestOf[d]] = WriteAt(@, next[d] - 1, pending[d][1])]
    /\ Touches(d) /\ UNCHANGED ioError

\* What a write that lands writes, and where.
LEMMA LandsIs ==
    ASSUME TypeOK, DownloadInv, NEW d \in Downloads, Lands(d)
    PROVE  /\ list[d] # <<>> /\ Listed(d) /\ ~ioError[d]
           /\ next[d] - 1 \in 1..Len(list[d]) /\ next[d] \in Nat
           /\ Len(disk[DestOf[d]]) \in Nat
           /\ LET old == disk[DestOf[d]]
                  new == disk'[DestOf[d]]
              IN  /\ Len(new) = IF next[d] - 1 > Len(old) THEN next[d] - 1 ELSE Len(old)
                  /\ \A i \in 1..Len(new) :
                        new[i] = IF i = next[d] - 1 THEN PieceAt(d, next[d] - 1)
                                 ELSE IF i <= Len(old) THEN old[i] ELSE Zeros
           /\ \A p \in Paths : p # DestOf[d] => disk'[p] = disk[p]
           /\ Written(d) = next[d] - 2 /\ Written(d)' = next[d] - 1
<1>1. /\ PlanInv(d) /\ WriteInv(d)
      /\ next \in [Downloads -> Nat \ {0}] /\ next[d] \in 1..(Len(list[d]) + 1)
      /\ list[d] \in Seq(Nat) /\ Len(list[d]) \in Nat
      /\ disk \in [Paths -> Seq(Piece)] /\ DestOf[d] \in Paths
      /\ pending[d] \in Seq(Piece)
  BY DownloadConstants DEF DownloadInv, TypeOK
<1>2. pending[d] # <<>>
  BY DEF Lands, DiskWrite
<1>3. /\ list[d] # <<>> /\ Listed(d) /\ ~ioError[d]
      /\ next[d] # 1 /\ pending[d] = <<PieceAt(d, next[d] - 1)>>
  BY <1>1, <1>2 DEF PlanInv, WriteInv
<1>4. next[d] - 1 \in 1..Len(list[d]) /\ next[d] \in Nat /\ next[d] - 1 \in Nat
  BY <1>1, <1>3
<1>5. pending[d][1] = PieceAt(d, next[d] - 1) /\ pending[d][1] \in Piece
  BY <1>1, <1>3
<1> DEFINE old == disk[DestOf[d]]
           new == disk'[DestOf[d]]
<1>6. new = WriteAt(old, next[d] - 1, pending[d][1])
      /\ \A p \in Paths : p # DestOf[d] => disk'[p] = disk[p]
  BY <1>1 DEF Lands
<1>7. old \in Seq(Piece) /\ Len(old) \in Nat
  BY <1>1
<1>8. /\ Len(new) = IF next[d] - 1 > Len(old) THEN next[d] - 1 ELSE Len(old)
      /\ \A i \in 1..Len(new) :
            new[i] = IF i = next[d] - 1 THEN PieceAt(d, next[d] - 1)
                     ELSE IF i <= Len(old) THEN old[i] ELSE Zeros
  <2> DEFINE at == next[d] - 1
             piece == pending[d][1]
  <2>1. at \in Nat /\ piece \in Piece /\ piece = PieceAt(d, at)
    BY <1>4, <1>5
  <2>2. new = WriteAt(old, at, piece)
    BY <1>6
  <2> HIDE DEF old, new, at, piece
  <2>3. /\ Len(new) = IF at > Len(old) THEN at ELSE Len(old)
        /\ \A i \in 1..Len(new) :
               new[i] = IF i = at THEN piece ELSE IF i <= Len(old) THEN old[i] ELSE Zeros
    <3> DEFINE w == WriteAt(old, at, piece)
    <3>1. /\ Len(w) = IF at > Len(old) THEN at ELSE Len(old)
          /\ \A i \in 1..Len(w) :
                 w[i] = IF i = at THEN piece ELSE IF i <= Len(old) THEN old[i] ELSE Zeros
      BY <1>7, <2>1, WriteAtIs, Zenon
    <3> HIDE DEF w
    <3>2. new = w
      BY <2>2 DEF w
    <3> QED
      BY <3>1, <3>2, Zenon
  <2> QED
    BY <2>1, <2>3 DEF at
<1>9. Written(d) = next[d] - 2
  BY <1>2 DEF Written
<1>10. Written(d)' = next[d] - 1
  <2>1. pending'[d] = <<>> /\ next' = next /\ ~ioError'[d]
    BY <1>3 DEF Lands, DiskWrite, TypeOK
  <2> QED
    BY <2>1 DEF Written
<1> QED
  BY <1>3, <1>4, <1>6, <1>7, <1>8, <1>9, <1>10

\* A step of d changes no file, or creates or writes its own.
LEMMA FileCases ==
    ASSUME TypeOK, NEW d \in Downloads, Own(d)
    PROVE  UNCHANGED <<disk, clash>> \/ CreateFile(d) \/ Lands(d)
<1>1. CASE DiskWrite(d)
  BY <1>1 DEF DiskWrite, Lands
<1>2. CASE SpawnDownload(d) \/ Task(d)
  BY <1>2 DEF Task, SpawnDownload, Start, FetchLink, ResolveKeys, CheckCancel, FetchRevision,
     FetchBlock, WriteBlock, Flush, VerifyManifest, VerifyXattr, StepFails, file
<1> QED
  BY <1>1, <1>2 DEF Own

\* Steps that do not touch the file of a download leave what it has written: handing
\* a block to the pool and a write that fails do not count as written.
LEMMA WrittenIsKept ==
    ASSUME TypeOK, DownloadInv, NEW d \in Downloads, Own(d), ~Lands(d)
    PROVE  Written(d)' = Written(d)
<1> DEFINE n == next[d]
<1>1. /\ WriteInv(d) /\ n \in Nat /\ n # 0
      /\ ioError \in [Downloads -> BOOLEAN] /\ pending \in [Downloads -> Seq(Piece)]
      /\ next \in [Downloads -> Nat \ {0}] /\ ioError'[d] \in BOOLEAN
  <2>1. Flags'
    <3>1. [Next]_vars
      BY DEF Own, Next
    <3> QED
      BY <3>1, FlagsStep
  <2> QED
    BY <2>1 DEF DownloadInv, TypeOK, Flags
<1>2. CASE DiskWrite(d)
  <2>1. /\ pending[d] # <<>> /\ pending' = [pending EXCEPT ![d] = <<>>]
        /\ ioError' = [ioError EXCEPT ![d] = TRUE] /\ next' = next
    BY <1>2 DEF DiskWrite, Lands
  <2>2. pending'[d] = <<>> /\ ioError'[d] = TRUE
    BY <1>1, <2>1
  <2> QED
    BY <2>1, <2>2 DEF Written
<1>3. CASE WriteBlock(d)
  <2>1. CASE ioError[d]
    <3>1. UNCHANGED <<pending, next, ioError>>
      BY <1>3, <2>1 DEF WriteBlock
    <3> QED
      BY <3>1 DEF Written
  <2>2. CASE ~ioError[d]
    <3>1. /\ pending[d] = <<>> /\ body[d] # <<>> /\ pending'[d] = body[d]
          /\ next'[d] = n + 1
      <4>1. /\ pc[d] = "write" /\ pending[d] = <<>>
            /\ pending' = [pending EXCEPT ![d] = body[d]]
            /\ next' = [next EXCEPT ![d] = next[d] + 1]
        BY <1>3, <2>2 DEF WriteBlock
      <4>2. body[d] = <<PieceAt(d, next[d])>>
        BY <1>1, <4>1 DEF WriteInv
      <4> QED
        BY <1>1, <4>1, <4>2
    <3>2. Written(d) = n - 1
      BY <2>2, <3>1 DEF Written
    <3>3. Written(d)' = (n + 1) - 2
      BY <3>1 DEF Written
    <3> HIDE DEF n
    <3> QED
      BY <1>1, <3>2, <3>3
  <2> QED
    BY <2>1, <2>2
<1>4. CASE ~DiskWrite(d) /\ ~WriteBlock(d)
  <2>1. UNCHANGED <<pending, next, ioError>>
    BY <1>4 DEF Own, Task, SpawnDownload, Start, FetchLink, ResolveKeys, CreateFile, CheckCancel,
       FetchRevision, FetchBlock, Flush, VerifyManifest, VerifyXattr, StepFails, file
  <2> QED
    BY <2>1 DEF Written
<1> QED
  BY <1>2, <1>3, <1>4

\* A step of d that does not touch a file does not change the list it has, and a task
\* that is past the creation of its file stays so.
LEMMA PlanIsKept ==
    ASSUME TypeOK, DownloadInv, NEW d \in Downloads, Own(d)
    PROVE  /\ list[d] # <<>> => list'[d] = list[d] /\ rev'[d] = rev[d]
           /\ pc[d] \notin Early => pc'[d] \notin Early
           /\ pc[d] = "done" => pc'[d] = "done" /\ outcome'[d] = outcome[d]
           /\ pc[d] = "dead" => pc'[d] = "dead"
           /\ pc[d] \in Early /\ pc'[d] \notin Early =>
                  CreateFile(d) \/ (pc'[d] = "done" /\ outcome'[d] \in {"cancel", "error"})
<1>1. /\ PlanInv(d) /\ rev \in [Downloads -> Revisions \cup {None}]
      /\ list \in [Downloads -> Seq(Nat)]
      /\ pc \in [Downloads -> Working \cup {"idle", "done", "dead"}]
      /\ outcome \in [Downloads -> Outcome]
  BY DEF DownloadInv, TypeOK
<1>2. ASSUME NEW step, Advance(d, step)
      PROVE  pc'[d] = step
  BY <1>1, <1>2 DEF Advance
<1>3. ASSUME NEW how, Finish(d, how)
      PROVE  pc'[d] = "done" /\ outcome'[d] = how
  BY <1>1, <1>3 DEF Finish
<1>4. list[d] # <<>> => list'[d] = list[d] /\ rev'[d] = rev[d]
  <2>1. CASE FetchRevision(d) \/ FetchLink(d)
    BY <1>1, <2>1 DEF FetchRevision, FetchLink, PlanInv, Early
  <2>2. CASE ~FetchRevision(d) /\ ~FetchLink(d)
    BY <2>2 DEF Own, Task, SpawnDownload, DiskWrite, Start, ResolveKeys, CreateFile, CheckCancel,
       FetchBlock, WriteBlock, Flush, VerifyManifest, VerifyXattr, StepFails, plan
  <2> QED
    BY <2>1, <2>2
<1>5. CASE SpawnDownload(d)
  BY <1>1, <1>4, <1>5 DEF SpawnDownload, Early
<1>6. CASE DiskWrite(d)
  BY <1>4, <1>6 DEF DiskWrite, result
<1>7. CASE Task(d)
  <2>1. CASE Start(d) \/ FetchLink(d) \/ ResolveKeys(d) \/ CreateFile(d) \/ CheckCancel(d)
    BY <1>2, <1>3, <1>4, <2>1 DEF Start, FetchLink, ResolveKeys, CreateFile, CheckCancel, Early
  <2>2. CASE FetchRevision(d) \/ FetchBlock(d) \/ WriteBlock(d) \/ Flush(d)
    BY <1>2, <1>3, <1>4, <2>2 DEF FetchRevision, FetchBlock, WriteBlock, Flush, Early
  <2>3. CASE VerifyManifest(d) \/ VerifyXattr(d) \/ StepFails(d)
    BY <1>2, <1>3, <1>4, <2>3 DEF VerifyManifest, VerifyXattr, StepFails, Early, Working
  <2> QED
    BY <1>7, <2>1, <2>2, <2>3 DEF Task
<1> QED
  BY <1>5, <1>6, <1>7 DEF Own
\* The task of d, when its file is created.
LEMMA CreateIs ==
    ASSUME TypeOK, DownloadInv, NEW d \in Downloads, CreateFile(d)
    PROVE  /\ pc[d] = "create" /\ pc'[d] = "opened" /\ list[d] = <<>>
           /\ disk'[DestOf[d]] = <<>> /\ Written(d)' = 0
           /\ \A p \in Paths : p # DestOf[d] => disk'[p] = disk[p]
<1>1. pc[d] = "create" /\ pc'[d] = "opened" /\ UNCHANGED <<next, pending, ioError>>
  BY DEF CreateFile, Advance, TypeOK
<1>2. list[d] = <<>> /\ next[d] = 1 /\ pending[d] = <<>> /\ ~ioError[d]
  BY <1>1 DEF DownloadInv, PlanInv, WriteInv, Early
<1>3. /\ disk'[DestOf[d]] = <<>>
      /\ \A p \in Paths : p # DestOf[d] => disk'[p] = disk[p]
  BY DownloadConstants DEF CreateFile, TypeOK
<1>4. Written(d)' = 0
  BY <1>1, <1>2 DEF Written
<1> QED
  BY <1>1, <1>2, <1>3, <1>4

\* What was written is a number of blocks.
LEMMA WrittenIsNat ==
    ASSUME TypeOK, DownloadInv, NEW d \in Downloads
    PROVE  Written(d) \in Nat /\ Written(d) <= next[d] - 1
<1>1. next[d] \in Nat \ {0} /\ WriteInv(d)
  BY DEF DownloadInv
<1>2. CASE pending[d] # <<>> \/ ioError[d]
  <2>1. next[d] # 1 /\ Written(d) = next[d] - 2
    BY <1>1, <1>2 DEF WriteInv, Written
  <2> QED
    BY <1>1, <2>1
<1>3. CASE ~(pending[d] # <<>> \/ ioError[d])
  <2>1. Written(d) = next[d] - 1
    BY <1>3 DEF Written
  <2> QED
    BY <1>1, <2>1
<1> QED
  BY <1>2, <1>3

\* An undisturbed file holds the beginning of the list.
LEMMA FileInvStep ==
    ASSUME TypeOK, DownloadInv, [Next]_vars, NEW e \in Downloads
    PROVE  FileInv(e)'
<1> USE DownloadConstants
<1>1. /\ FileInv(e) /\ PlanInv(e) /\ DestOf[e] \in Paths /\ clash \in [Downloads -> BOOLEAN]
      /\ disk \in [Paths -> Seq(Piece)]
  BY DEF DownloadInv, TypeOK
<1>2. TaskInv(e)'
  BY TaskInvStep
<1>3. ASSUME Same(e), disk'[DestOf[e]] = disk[DestOf[e]], clash'[e] = clash[e]
      PROVE  FileInv(e)'
  <2>1. Written(e)' = Written(e)
    BY <1>3, Zenon DEF Same, Written
  <2>2. \A i : PieceAt(e, i)' = PieceAt(e, i)
    BY <1>3 DEF Same, PieceAt
  <2> QED
    BY <1>1, <1>3, <2>1, <2>2 DEF FileInv, Same
<1>4. CASE Aside
  BY <1>3, <1>4, AsideIsSame
<1>5. CASE ProcessEnds
  <2>1. pc'[e] \notin {"opened", "revision"} /\ list'[e] = <<>>
    BY <1>5 DEF ProcessEnds
  <2> QED
    BY <2>1 DEF FileInv
<1>6. ASSUME NEW d \in Downloads, Own(d), d # e
      PROVE  FileInv(e)'
  <2>1. Same(e)
    BY <1>6, OthersAreSame
  <2>2. CASE UNCHANGED <<disk, clash>>
    BY <1>3, <2>1, <2>2
  <2>3. CASE CreateFile(d) \/ Lands(d)
    <3>1. Touches(d) /\ \A p \in Paths : p # DestOf[d] => disk'[p] = disk[p]
      BY <1>6, <2>3, CreateIs, LandsIs DEF CreateFile, Lands
    <3>2. CASE pc[e] \in Early
      <4>1. pc'[e] \notin {"opened", "revision"} /\ list'[e] = <<>>
        BY <1>1, <2>1, <3>2 DEF Same, PlanInv, Early
      <4> QED
        BY <4>1 DEF FileInv
    <3>3. CASE pc[e] \notin Early /\ DestOf[e] = DestOf[d]
      <4>1. clash'[e]
        BY <1>6, <3>1, <3>3 DEF Touches, Early
      <4> QED
        BY <4>1 DEF FileInv
    <3>4. CASE DestOf[e] # DestOf[d]
      <4>1. disk'[DestOf[e]] = disk[DestOf[e]]
        BY <1>1, <3>1, <3>4
      <4>2. clash'[e] = clash[e]
        <5>1. clash'[e] = (clash[e] \/ FALSE)
          BY <3>1, <3>4, Zenon DEF Touches
        <5>2. clash[e] \in BOOLEAN
          BY <1>1
        <5> QED
          BY <5>1, <5>2
      <4> QED
        BY <1>3, <2>1, <4>1, <4>2
    <3> QED
      BY <3>2, <3>3, <3>4
  <2> QED
    BY <1>6, <2>2, <2>3, FileCases
<1>7. ASSUME Own(e)
      PROVE  FileInv(e)'
  <2>1. CASE CreateFile(e)
    <3>1. disk'[DestOf[e]] = <<>> /\ Written(e)' = 0
      BY <2>1, CreateIs
    <3> QED
      BY <3>1 DEF FileInv
  <2>2. CASE Lands(e)
    <3> DEFINE old == disk[DestOf[e]]
               new == disk'[DestOf[e]]
               n == next[e]
    <3>1. /\ list[e] # <<>> /\ n \in Nat /\ n - 1 >= 1
          /\ Len(new) = IF n - 1 > Len(old) THEN n - 1 ELSE Len(old)
          /\ \A i \in 1..Len(new) :
                 new[i] = IF i = n - 1 THEN PieceAt(e, n - 1)
                          ELSE IF i <= Len(old) THEN old[i] ELSE Zeros
          /\ Written(e) = n - 2 /\ Written(e)' = n - 1
      <4>1. n - 1 \in 1..Len(list[e]) => n - 1 >= 1
        OBVIOUS
      <4> QED
        BY <2>2, <4>1, LandsIs, Zenon
    <3>2. rev' = rev /\ list' = list
      BY <2>2 DEF Lands, DiskWrite, plan
    <3>3. \A i : PieceAt(e, i)' = PieceAt(e, i)
      BY <3>2 DEF PieceAt
    <3>4. TypeOK'
      BY TypeStep
    <3>5. new \in Seq(Piece)
      BY <1>1, <3>4 DEF TypeOK
    <3> SUFFICES ASSUME ~clash[e]
                 PROVE  new = [i \in 1..(n - 1) |-> PieceAt(e, i)]
      <4>1. clash'[e] = clash[e]
        <5>1. clash'[e] = (clash[e] \/ FALSE)
          BY <2>2, Zenon DEF Lands, Touches
        <5>2. clash[e] \in BOOLEAN
          BY <1>1
        <5> QED
          BY <5>1, <5>2
      <4> QED
        BY <3>1, <3>3, <4>1 DEF FileInv
    <3>6. old = [i \in 1..(n - 2) |-> PieceAt(e, i)]
      BY <1>1, <3>1 DEF FileInv
    <3> HIDE DEF old, new, n
    <3>7. Len(old) = n - 2
      BY <3>1, <3>6
    <3>8. Len(new) = n - 1
      BY <3>1, <3>7
    <3>9. \A i \in 1..(n - 1) : new[i] = PieceAt(e, i)
      BY <3>1, <3>6, <3>7, <3>8
    <3> QED
      BY <3>1, <3>5, <3>8, <3>9
  <2>3. CASE UNCHANGED <<disk, clash>> /\ ~Lands(e) /\ ~CreateFile(e)
    <3>1. Written(e)' = Written(e)
      BY <1>7, <2>3, WrittenIsKept
    <3>2. CASE list[e] # <<>>
      <4>1. \A i : PieceAt(e, i)' = PieceAt(e, i)
        BY <1>7, <3>2, PlanIsKept DEF PieceAt
      <4> QED
        BY <1>1, <2>3, <3>1, <3>2, <4>1 DEF FileInv
    <3>3. CASE list[e] = <<>>
      <4>1. pending[e] = <<>> /\ ~ioError[e] /\ next[e] = 1
        BY <3>3 DEF DownloadInv, WriteInv
      <4>2. Written(e) = 0
        BY <4>1 DEF Written
      <4>3. CASE pc[e] \in {"opened", "revision"}
        <5>1. ~clash[e] => disk[DestOf[e]] = <<>>
          BY <1>1, <4>2, <4>3 DEF FileInv
        <5> QED
          BY <2>3, <3>1, <4>2, <5>1 DEF FileInv
      <4>4. CASE pc[e] \notin {"opened", "revision"}
        <5>1. list'[e] = <<>> /\ pc'[e] \notin {"opened", "revision"}
          <6>1. ~FetchRevision(e) /\ ~CheckCancel(e)
            BY <4>4 DEF FetchRevision, CheckCancel
          <6>2. list' = list
            BY <1>7, <6>1 DEF Own, Task, SpawnDownload, DiskWrite, Start, FetchLink, ResolveKeys,
               CreateFile, FetchBlock, WriteBlock, Flush, VerifyManifest, VerifyXattr, StepFails, plan
          <6>3. pc'[e] \notin {"opened", "revision"}
            <7>1. pc \in [Downloads -> Working \cup {"idle", "done", "dead"}]
              BY DEF TypeOK
            <7> QED
              BY <1>7, <2>3, <4>4, <6>1, <7>1 DEF Own, Task, SpawnDownload, DiskWrite, Start,
                 FetchLink, ResolveKeys, FetchBlock, WriteBlock, Flush, VerifyManifest,
                 VerifyXattr, StepFails, Advance, Finish
          <6> QED
            BY <3>3, <6>2, <6>3
        <5> QED
          BY <5>1 DEF FileInv
      <4> QED
        BY <4>3, <4>4
    <3> QED
      BY <3>2, <3>3
  <2> QED
    BY <1>7, <2>1, <2>2, <2>3, FileCases
<1> QED
  BY <1>4, <1>5, <1>6, <1>7, StepCases

\* No piece of a revision without manifest signature reaches a file.
LEMMA UnsignedStep ==
    ASSUME TypeOK, DownloadInv, [Next]_vars
    PROVE  UnsignedWritesNothing'
<1> USE DownloadConstants
<1> SUFFICES ASSUME NEW p \in Paths, NEW i \in 1..Len(disk'[p]), disk'[p][i][1] \in Revisions
             PROVE  Signed[disk'[p][i][1]]
  BY DEF UnsignedWritesNothing
<1>1. UnsignedWritesNothing /\ disk \in [Paths -> Seq(Piece)]
  BY DEF DownloadInv, TypeOK
<1>2. CASE disk'[p] = disk[p]
  BY <1>1, <1>2 DEF UnsignedWritesNothing
<1>3. ASSUME NEW d \in Downloads, Own(d), disk'[p] # disk[p]
      PROVE  Signed[disk'[p][i][1]]
  <2>1. CASE CreateFile(d)
    <3>1. p = DestOf[d] /\ disk'[p] = <<>>
      BY <1>3, <2>1, CreateIs
    <3> QED
      BY <3>1
  <2>2. CASE Lands(d)
    <3>1. p = DestOf[d]
      BY <1>3, <2>2, LandsIs
    <3>2. /\ Listed(d) /\ Len(disk[p]) \in Nat
          /\ disk'[p][i] = IF i = next[d] - 1 THEN PieceAt(d, next[d] - 1)
                           ELSE IF i <= Len(disk[p]) THEN disk[p][i] ELSE Zeros
      BY <2>2, <3>1, LandsIs, Zenon
    <3>3. CASE disk'[p][i] = PieceAt(d, next[d] - 1)
      BY <3>2, <3>3 DEF Listed, PieceAt
    <3>4. CASE i <= Len(disk[p]) /\ disk'[p][i] = disk[p][i]
      <4>1. i \in 1..Len(disk[p])
        <5>1. i \in Nat /\ i >= 1
          OBVIOUS
        <5> QED
          BY <3>2, <3>4, <5>1
      <4> QED
        BY <1>1, <3>4, <4>1 DEF UnsignedWritesNothing
    <3>5. CASE disk'[p][i] = Zeros
      BY <3>5 DEF Zeros, Revisions
    <3> QED
      BY <3>2, <3>3, <3>4, <3>5
  <2> QED
    BY <1>3, <2>1, <2>2, FileCases
<1>4. CASE Aside
  BY <1>2, <1>4, AsideIsSame
<1>5. CASE ProcessEnds
  BY <1>2, <1>5 DEF ProcessEnds
<1> QED
  BY <1>2, <1>3, <1>4, <1>5, StepCases
-----------------------------------------------------------------------------
(* Downloads that overlap on a file.                                       *)

\* Whether every download into a file gets all of r is decided once: what held after
\* a step of d held before it.
LEMMA AllGetBefore ==
    ASSUME TypeOK, DownloadInv, NEW d \in Downloads, Own(d), NEW p \in Paths,
           NEW r \in Revisions, AllGet(p, r)'
    PROVE  AllGet(p, r)
<1> SUFFICES ASSUME NEW e \in Downloads, DestOf[e] = p
             PROVE  /\ pc[e] # "dead"
                    /\ pc[e] = "done" => outcome[e] = "ok"
                    /\ list[e] # <<>> => rev[e] = r /\ Len(list[e]) = BlocksOf[r]
  BY DEF AllGet
<1>1. /\ pc'[e] # "dead"
      /\ pc'[e] = "done" => outcome'[e] = "ok"
      /\ list'[e] # <<>> => rev'[e] = r /\ Len(list'[e]) = BlocksOf[r]
  BY DEF AllGet
<1>2. CASE e = d
  BY <1>1, <1>2, PlanIsKept
<1>3. CASE e # d
  <2>1. Same(e)
    BY <1>3, OthersAreSame
  <2> QED
    BY <1>1, <2>1 DEF Same
<1> QED
  BY <1>2, <1>3

LEMMA ConvergesStep ==
    ASSUME TypeOK, DownloadInv, [Next]_vars, NEW p \in Paths, NEW r \in Revisions
    PROVE  ConvergesInv(p, r)'
<1> USE DownloadConstants
<1> DEFINE Some == \E d \in Downloads : DestOf[d] = p /\ pc[d] \notin Early
           Good == /\ Len(disk[p]) <= BlocksOf[r]
                   /\ \E c \in Downloads : DestOf[c] = p /\ pc[c] \notin Early /\ Holds(p, r, c)
<1>1. /\ AllGet(p, r) /\ Some => Good
      /\ disk \in [Paths -> Seq(Piece)] /\ Len(disk[p]) \in Nat /\ BlocksOf[r] \in Nat
  BY DEF DownloadInv, ConvergesInv, TypeOK
<1> SUFFICES ASSUME AllGet(p, r)', Some'
             PROVE  Good'
  BY DEF ConvergesInv
<1>2. CASE Aside
  <2>1. /\ \A e \in Downloads : Same(e)
        /\ UNCHANGED <<pc, disk>>
    BY <1>2, AsideIsSame
  <2>2. AllGet(p, r) /\ Some
    <3>1. Some
      BY <2>1
    <3>2. ASSUME NEW e \in Downloads, DestOf[e] = p
          PROVE  /\ pc[e] # "dead"
                 /\ pc[e] = "done" => outcome[e] = "ok"
                 /\ list[e] # <<>> => rev[e] = r /\ Len(list[e]) = BlocksOf[r]
      <4>1. /\ pc'[e] # "dead"
            /\ pc'[e] = "done" => outcome'[e] = "ok"
            /\ list'[e] # <<>> => rev'[e] = r /\ Len(list'[e]) = BlocksOf[r]
        BY <3>2 DEF AllGet
      <4>2. Same(e)
        BY <2>1
      <4> QED
        BY <4>1, <4>2 DEF Same
    <3> QED
      BY <3>1, <3>2 DEF AllGet
  <2>3. PICK c \in Downloads : DestOf[c] = p /\ pc[c] \notin Early /\ Holds(p, r, c)
    BY <1>1, <2>2
  <2>4. Written(c)' = Written(c)
    BY <2>1, Zenon DEF Same, Written
  <2>5. Holds(p, r, c)'
    BY <2>1, <2>3, <2>4 DEF Holds
  <2> QED
    BY <1>1, <2>1, <2>2, <2>3, <2>5
<1>3. CASE ProcessEnds
  <2>1. PICK d \in Downloads : DestOf[d] = p /\ pc'[d] \notin Early
    OBVIOUS
  <2>2. pc'[d] = "dead"
    BY <1>3, <2>1 DEF ProcessEnds, Early
  <2> QED
    BY <2>1, <2>2 DEF AllGet
<1>4. ASSUME NEW d \in Downloads, Own(d)
      PROVE  Good'
  <2>1. AllGet(p, r)
    BY <1>4, AllGetBefore
  <2>2. CASE CreateFile(d) /\ DestOf[d] = p
    <3>1. pc'[d] = "opened" /\ disk'[p] = <<>> /\ Written(d)' = 0
      BY <2>2, CreateIs
    <3>2. Holds(p, r, d)'
      BY <3>1 DEF Holds
    <3>3. pc'[d] \notin Early
      BY <3>1 DEF Early
    <3>4. Len(disk'[p]) <= BlocksOf[r]
      BY <1>1, <3>1
    <3> QED
      BY <2>2, <3>2, <3>3, <3>4
  <2>3. CASE ~(CreateFile(d) /\ DestOf[d] = p)
    <3>1. Some
      <4>1. PICK e \in Downloads : DestOf[e] = p /\ pc'[e] \notin Early
        OBVIOUS
      <4>2. CASE e # d
        <5>1. Same(e)
          BY <1>4, <4>2, OthersAreSame
        <5> QED
          BY <4>1, <5>1 DEF Same
      <4>3. CASE e = d
        <5>1. ~(pc'[d] = "done" /\ outcome'[d] \in {"cancel", "error"})
          BY <4>1, <4>3 DEF AllGet
        <5> QED
          BY <1>4, <2>3, <4>1, <4>3, <5>1, PlanIsKept
      <4> QED
        BY <4>2, <4>3
    <3>2. PICK c \in Downloads : DestOf[c] = p /\ pc[c] \notin Early /\ Holds(p, r, c)
      BY <1>1, <2>1, <3>1
    <3>3. pc'[c] \notin Early
      <4>1. CASE c = d
        BY <1>4, <3>2, <4>1, PlanIsKept
      <4>2. CASE c # d
        BY <1>4, <3>2, <4>2, OthersAreSame DEF Same
      <4> QED
        BY <4>1, <4>2
    <3>4. Len(disk[p]) <= BlocksOf[r]
      BY <1>1, <2>1, <3>1
    <3>5. (c # d \/ ~Lands(d)) => Written(c)' = Written(c)
      <4>1. CASE c = d
        BY <1>4, <4>1, WrittenIsKept
      <4>2. CASE c # d
        <5>1. Same(c)
          BY <1>4, <4>2, OthersAreSame
        <5> QED
          BY <5>1, Zenon DEF Same, Written
      <4> QED
        BY <4>1, <4>2
    <3>6. CASE Lands(d) /\ DestOf[d] = p
      <4> DEFINE n == next[d]
                 old == disk[p]
                 new == disk'[p]
      <4>1. /\ list[d] # <<>> /\ Listed(d) /\ n \in Nat /\ n - 1 \in 1..Len(list[d])
            /\ Len(new) = IF n - 1 > Len(old) THEN n - 1 ELSE Len(old)
            /\ \A i \in 1..Len(new) :
                   new[i] = IF i = n - 1 THEN PieceAt(d, n - 1)
                            ELSE IF i <= Len(old) THEN old[i] ELSE Zeros
            /\ Written(d) = n - 2 /\ Written(d)' = n - 1
        BY <3>6, LandsIs, Zenon
      <4>2. rev[d] = r /\ Len(list[d]) = BlocksOf[r]
        BY <2>1, <3>6, <4>1 DEF AllGet
      <4>3. PieceAt(d, n - 1) = <<r, n - 1>>
        BY <4>1, <4>2 DEF PieceAt, Listed
      <4>4. Len(old) \in Nat /\ Len(old) <= BlocksOf[r] /\ n - 1 \in 1..BlocksOf[r]
        BY <1>1, <3>4, <4>1, <4>2
      <4>5. Written(c) \in Nat /\ \A i \in 1..Written(c) : i <= Len(old) /\ old[i] = <<r, i>>
        BY <3>2, WrittenIsNat DEF Holds
      <4>6. Written(c)' = Written(c) \/ (Written(c)' = n - 1 /\ Written(c) = n - 2)
        BY <3>5, <4>1
      <4> HIDE DEF n, old, new
      <4>7. Len(new) <= BlocksOf[r] /\ Len(new) >= Len(old) /\ Len(new) >= n - 1
            /\ Len(new) \in Nat
        BY <1>1, <4>1, <4>4
      <4>8. ASSUME NEW i \in 1..Written(c)'
            PROVE  i <= Len(new) /\ new[i] = <<r, i>>
        <5>1. CASE i = n - 1
          BY <4>1, <4>3, <4>4, <4>7, <5>1
        <5>2. CASE i # n - 1
          <6>1. i \in 1..Written(c)
            BY <4>1, <4>5, <4>6, <5>2
          <6>2. i <= Len(old) /\ old[i] = <<r, i>> /\ i \in Nat /\ i >= 1
            BY <4>5, <6>1
          <6>3. i \in 1..Len(new)
            BY <4>4, <4>7, <6>2
          <6> QED
            BY <4>1, <5>2, <6>2, <6>3
        <5> QED
          BY <5>1, <5>2
      <4>9. Holds(p, r, c)'
        BY <4>8 DEF Holds, new
      <4> QED
        BY <3>2, <3>3, <4>7, <4>9 DEF new
    <3>7. CASE ~(Lands(d) /\ DestOf[d] = p)
      <4>1. disk'[p] = disk[p]
        <5>1. CASE UNCHANGED <<disk, clash>>
          BY <5>1
        <5>2. CASE CreateFile(d)
          BY <2>3, <5>2, CreateIs
        <5>3. CASE Lands(d)
          BY <3>7, <5>3, LandsIs
        <5> QED
          BY <1>4, <5>1, <5>2, <5>3, FileCases
      <4>2. Written(c)' = Written(c)
        BY <3>2, <3>5, <3>7
      <4>3. Holds(p, r, c)'
        BY <3>2, <4>1, <4>2 DEF Holds
      <4> QED
        BY <3>2, <3>3, <3>4, <4>1, <4>3
    <3> QED
      BY <3>6, <3>7
  <2> QED
    BY <2>2, <2>3
<1> QED
  BY <1>2, <1>3, <1>4, StepCases

-----------------------------------------------------------------------------
(* The theorems.                                                           *)

LEMMA InvInit ==
    ASSUME Init
    PROVE  TypeOK /\ DownloadInv
<1> USE DownloadConstants
<1>1. None # "ok"
  BY DEF Results
<1>2. \A p \in Paths : disk[p] \in Seq(Piece) /\ \A i \in 1..Len(disk[p]) : disk[p][i] = OldPiece
  <2>1. OldPiece \in Piece
    BY DEF OldPiece, Piece
  <2> QED
    BY <2>1 DEF Init
<1>3. TypeOK
  <2>1. disk \in [Paths -> Seq(Piece)]
    BY <1>2 DEF Init
  <2>2. Flags
    BY Zenon DEF Init, Flags
  <2>3. /\ pc \in [Downloads -> Working \cup {"idle", "done", "dead"}]
        /\ state \in [Downloads -> {"none", "running"} \cup Terminal]
        /\ outcome \in [Downloads -> Outcome]
        /\ rev \in [Downloads -> Revisions \cup {None}]
        /\ next \in [Downloads -> Nat \ {0}]
        /\ active \in Revisions /\ gone \in SUBSET Revisions
    BY DEF Init, Outcome
  <2>4. \A d \in Downloads : list[d] = <<>> /\ next[d] = 1
    BY DEF Init
  <2>5. /\ list \in [Downloads -> Seq(Nat)]
        /\ body \in [Downloads -> Seq(Piece)]
        /\ pending \in [Downloads -> Seq(Piece)]
    <3>1. <<>> \in Seq(Nat) /\ <<>> \in Seq(Piece)
      OBVIOUS
    <3> QED
      BY <3>1, Zenon DEF Init
  <2>6. \A d \in Downloads : next[d] \in 1..(Len(list[d]) + 1)
    BY <2>4
  <2> QED
    BY <2>1, <2>2, <2>3, <2>5, <2>6 DEF Flags, TypeOK
<1>4. next \in [Downloads -> Nat \ {0}]
  BY DEF Init
<1>5. ASSUME NEW d \in Downloads
      PROVE  PlanInv(d) /\ WriteInv(d) /\ OutcomeInv(d) /\ FileInv(d)
  BY <1>1 DEF Init, PlanInv, WriteInv, OutcomeInv, FileInv, Working
<1>6. UnsignedWritesNothing
  BY <1>2 DEF UnsignedWritesNothing, OldPiece, Revisions
<1>7. \A p \in Paths : \A r \in Revisions : ConvergesInv(p, r)
  BY DEF Init, ConvergesInv, Early
<1> QED
  BY <1>3, <1>4, <1>5, <1>6, <1>7 DEF DownloadInv

LEMMA InvStep ==
    ASSUME TypeOK, DownloadInv, [Next]_vars
    PROVE  TypeOK' /\ DownloadInv'
<1>1. TypeOK' /\ next' \in [Downloads -> Nat \ {0}]
  BY TypeStep
<1>2. \A d \in Downloads : (PlanInv(d) /\ WriteInv(d) /\ OutcomeInv(d) /\ FileInv(d))'
  BY TaskInvStep, FileInvStep DEF TaskInv
<1>3. UnsignedWritesNothing' /\ \A p \in Paths : \A r \in Revisions : ConvergesInv(p, r)'
  BY UnsignedStep, ConvergesStep
<1> QED
  BY <1>1, <1>2, <1>3 DEF DownloadInv

LEMMA Invariance == Spec => [](TypeOK /\ DownloadInv)
<1>1. Init => TypeOK /\ DownloadInv
  BY InvInit
<1>2. TypeOK /\ DownloadInv /\ [Next]_vars => (TypeOK /\ DownloadInv)'
  BY InvStep
<1> QED
  BY <1>1, <1>2, PTL DEF Spec

\* Every variable of the download keeps its type: the place in the list of blocks
\* never passes its end, although the pool's writes run behind the task.
THEOREM TypeCorrect == Spec => []TypeOK
BY Invariance, PTL

\* A verified download alone with its file left exactly the revision, and downloads
\* of one revision that overlapped and all ended well left that revision, in whatever
\* order the server listed the blocks and the pool wrote them.
THEOREM CompletionsAreRight == Spec => []CompletedIsRight
<1>1. ASSUME TypeOK, DownloadInv, NEW d \in Downloads, outcome[d] = "ok", list[d] # <<>>,
             Len(list[d]) = BlocksOf[rev[d]]
      PROVE  /\ Written(d) = Len(list[d]) /\ Len(list[d]) \in Nat /\ rev[d] \in Revisions
             /\ \A i \in 1..Len(list[d]) : list[d][i] = i
  <2>1. OutcomeInv(d) /\ PlanInv(d) /\ Len(list[d]) \in Nat
    BY <1>1 DEF DownloadInv, TypeOK
  <2>2. pending[d] = <<>> /\ ~ioError[d] /\ next[d] = Len(list[d]) + 1 /\ Listed(d)
    BY <1>1, <2>1 DEF OutcomeInv, PlanInv
  <2>3. Written(d) = next[d] - 1
    BY <2>2 DEF Written
  <2> QED
    BY <1>1, <2>1, <2>2, <2>3 DEF Listed
<1>2. TypeOK /\ DownloadInv => CompletedIsRevision
  <2> SUFFICES ASSUME TypeOK, DownloadInv, NEW d \in Downloads,
                      outcome[d] = "ok", verified[d], ~clash[d]
               PROVE  disk[DestOf[d]] = Content(rev[d])
    BY DEF CompletedIsRevision
  <2>1. list[d] # <<>> /\ Len(list[d]) = BlocksOf[rev[d]] /\ FileInv(d)
    BY DEF DownloadInv, OutcomeInv, PlanInv
  <2>2. disk[DestOf[d]] = [i \in 1..Len(list[d]) |-> PieceAt(d, i)]
    BY <1>1, <2>1 DEF FileInv
  <2>3. \A i \in 1..Len(list[d]) : PieceAt(d, i) = <<rev[d], i>>
    BY <1>1, <2>1 DEF PieceAt
  <2> QED
    BY <2>1, <2>2, <2>3 DEF Content
<1>3. TypeOK /\ DownloadInv => SameRevisionConverges
  <2> SUFFICES ASSUME TypeOK, DownloadInv, NEW p \in Paths, NEW r \in Revisions,
                      NEW d0 \in Downloads, DestOf[d0] = p, pc[d0] # "idle",
                      \A d \in Downloads : DestOf[d] = p /\ pc[d] # "idle" =>
                          /\ outcome[d] = "ok" /\ rev[d] = r
                          /\ Len(list[d]) = BlocksOf[r]
               PROVE  disk[p] = Content(r)
    BY DEF SameRevisionConverges
  <2>1. BlocksOf[r] \in Nat \ {0} /\ disk[p] \in Seq(Piece) /\ Len(disk[p]) \in Nat
        /\ None # "ok"
    BY DownloadConstants DEF TypeOK, Results
  <2>2. \A d \in Downloads : DestOf[d] = p /\ pc[d] # "idle" => pc[d] = "done"
    BY <2>1 DEF DownloadInv, OutcomeInv
  <2>3. AllGet(p, r)
    <3>1. \A d \in Downloads : pc[d] = "idle" => list[d] = <<>>
      BY DEF DownloadInv, PlanInv, Early
    <3> QED
      BY <2>2, <3>1 DEF AllGet
  <2>4. PICK c \in Downloads : DestOf[c] = p /\ pc[c] \notin Early /\ Holds(p, r, c)
    <3>1. pc[d0] \notin Early
      BY <2>2 DEF Early
    <3> QED
      BY <2>3, <3>1 DEF DownloadInv, ConvergesInv
  <2>5. Len(disk[p]) <= BlocksOf[r]
    <3>1. pc[d0] \notin Early
      BY <2>2 DEF Early
    <3> QED
      BY <2>3, <3>1 DEF DownloadInv, ConvergesInv
  <2>6. outcome[c] = "ok" /\ rev[c] = r /\ Len(list[c]) = BlocksOf[r]
    BY <2>4 DEF Early
  <2>7. list[c] # <<>>
    BY <2>1, <2>6
  <2>8. Written(c) = BlocksOf[r]
    BY <1>1, <2>6, <2>7
  <2>9. \A i \in 1..BlocksOf[r] : i <= Len(disk[p]) /\ disk[p][i] = <<r, i>>
    BY <2>4, <2>8 DEF Holds
  <2>10. Len(disk[p]) = BlocksOf[r]
    <3>1. BlocksOf[r] \in 1..BlocksOf[r]
      BY <2>1
    <3> QED
      BY <2>1, <2>5, <2>9, <3>1
  <2> DEFINE content == disk[p]
             n == BlocksOf[r]
  <2>11. n \in Nat /\ content \in Seq(Piece) /\ Len(content) = n /\ \A i \in 1..n : content[i] = <<r, i>>
    BY <2>1, <2>9, <2>10
  <2> HIDE DEF content, n
  <2>12. content = [i \in 1..n |-> <<r, i>>]
    <3>1. content = [i \in 1..n |-> content[i]]
      BY <2>11
    <3> QED
      BY <2>11, <3>1
  <2> QED
    BY <2>12 DEF Content, content, n
<1> QED
  BY <1>2, <1>3, Invariance, PTL DEF CompletedIsRight

\* Whatever fails, is cancelled or is cut off by the end of the process, the file of a
\* download alone with it holds a beginning of its list of blocks, and no file holds
\* anything of a revision without manifest signature.
THEOREM DestinationsAreSound == Spec => []DestinationIsSound
<1>1. TypeOK /\ DownloadInv => DestinationIsSound
  <2> SUFFICES ASSUME TypeOK, DownloadInv, NEW d \in Downloads, list[d] # <<>>, ~clash[d]
               PROVE  \E k \in 0..(next[d] - 1) :
                          disk[DestOf[d]] = [i \in 1..k |-> <<rev[d], list[d][i]>>]
    BY DEF DestinationIsSound, PartialIsPrefix, DownloadInv
  <2>1. Written(d) \in Nat /\ Written(d) <= next[d] - 1 /\ next[d] \in Nat
    BY WrittenIsNat DEF DownloadInv
  <2>2. Written(d) \in 0..(next[d] - 1)
    BY <2>1
  <2>3. disk[DestOf[d]] = [i \in 1..Written(d) |-> <<rev[d], list[d][i]>>]
    BY DEF DownloadInv, FileInv, PieceAt
  <2> QED
    BY <2>2, <2>3
<1> QED
  BY <1>1, Invariance, PTL
=============================================================================
