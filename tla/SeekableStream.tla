--------------------------- MODULE SeekableStream ---------------------------
(***************************************************************************)
(* Reading a file of the JS SDK out of order                               *)
(* (js/sdk/src/internal/download/seekableStream.ts, blockIndex.ts and      *)
(* getSeekableStream of fileDownloader.ts): BufferedSeekableStream keeps   *)
(* what a block gave beyond the bytes that were asked for, and a seek      *)
(* either moves within that buffer or restarts the underlying source.  The *)
(* source is a ReadableStream of the platform: once closed or in error it  *)
(* stays so.                                                               *)
(*                                                                         *)
(* A byte of the file stands for its offset.                               *)
(***************************************************************************)
EXTENDS Integers, Sequences, SequencesExt, FiniteSetsExt

CONSTANTS
    Files,          \* files: the block sizes their author claims, and the real ones
    DefaultChunk,   \* DEFAULT_FILE_CHUNK_SIZE
    MaxRead,        \* bound: bytes asked for at once
    MaxSeek,        \* bound: positions seeked to
    MayOvertake     \* seek may be called before the last read has returned

ASSUME SeekableStreamConstants ==
    /\ Files \subseteq [claimed : Seq(Nat), real : Seq(Nat)]
    /\ {DefaultChunk, MaxRead, MaxSeek} \subseteq Nat /\ DefaultChunk > 0
    /\ MayOvertake \in BOOLEAN

VARIABLES
    file,
    position,          \* the source's position (getSeekableStream)
    source,            \* the platform's stream: "open", "closed" or "errored"
    queue,             \* chunks enqueued and not read yet
    pulling,           \* the position of the pull in flight, or -1
    buffer, bufferPosition, currentPosition, streamClosed,
    reading,           \* bytes asked for by the read in progress, or 0
    chunks,            \* what this read has got so far
    lastRead,          \* the last read that returned
    stranded           \* history: a seek left the buffer when the source had closed

stream == <<position, source, queue, pulling>>
seekVars == <<file, stream, buffer, bufferPosition, currentPosition, streamClosed, reading,
              chunks, lastRead, stranded>>

\* Where the i-th block starts: after the sizes of those before it.
Start(sizes, i) ==
    LET before[k \in 0..Len(sizes)] == IF k = 0 THEN 0 ELSE before[k - 1] + sizes[k] IN
    before[i - 1]

Sum(sizes) == Start(sizes, Len(sizes) + 1)

\* The bytes from offset from up to but not including offset to.
Bytes(from, to) == [k \in 1..(IF to > from THEN to - from ELSE 0) |-> from + k - 1]

SeekInit ==
    /\ file \in Files
    /\ position = 0 /\ source = "open" /\ queue = <<>> /\ pulling = -1
    /\ buffer = <<>> /\ bufferPosition = 0 /\ currentPosition = 0 /\ streamClosed = FALSE
    /\ reading = 0 /\ chunks = <<>>
    /\ lastRead = [at |-> 0, asked |-> 0, value |-> <<>>]
    /\ stranded = FALSE

-----------------------------------------------------------------------------
(* The source (getSeekableStream).                                         *)

\* getBlockIndex: the block that has the position and the offset in it; nothing
\* at the end.
GetBlockIndex(sizes, pos) ==
    LET in == {i \in 1..Len(sizes) : pos < Start(sizes, i) + sizes[i]} IN
    IF sizes = <<>> THEN <<pos \div DefaultChunk + 1, pos % DefaultChunk>>
    ELSE IF in = {} THEN <<>>
    ELSE <<Min(in), pos - Start(sizes, Min(in))>>

\* downloadDataFromPosition: the rest of the block.
DownloadDataFromPosition(pos) ==
    LET at == GetBlockIndex(file.claimed, pos) IN
    IF at = <<>> THEN [is |-> "done", data |-> <<>>]
    ELSE IF at[1] > Len(file.real)        \* the server has no such block
    THEN [is |-> "error", data |-> <<>>]
    ELSE [is |-> "data",
          data |-> Bytes(Start(file.real, at[1]) + at[2], Start(file.real, at[1] + 1))]

\* The loop of ensureBufferSize goes on.
NeedsMore == Len(chunks) < reading - (Len(buffer) - bufferPosition)

\* The platform pulls when a read waits and nothing is queued (highWaterMark 0).
PullStarts ==
    /\ reading > 0 /\ queue = <<>> /\ source = "open" /\ pulling = -1
    /\ NeedsMore /\ ~streamClosed
    /\ pulling' = position
    /\ UNCHANGED <<file, position, source, queue, buffer, bufferPosition, currentPosition,
                   streamClosed, reading, chunks, lastRead, stranded>>

\* pull: enqueue and advance, close, or error.
PullEnds ==
    /\ pulling # -1
    /\ pulling' = -1
    /\ LET pulled == DownloadDataFromPosition(pulling) IN
       \/ pulled.is = "done" /\ source' = "closed" /\ UNCHANGED <<position, queue>>
       \/ pulled.is = "data" /\ queue' = Append(queue, pulled.data)
              /\ position' = position + Len(pulled.data) /\ UNCHANGED source
       \/ pulled.is # "done" /\ source' = "errored" /\ UNCHANGED <<position, queue>>
    /\ UNCHANGED <<file, buffer, bufferPosition, currentPosition, streamClosed, reading, chunks,
                   lastRead, stranded>>

-----------------------------------------------------------------------------
(* BufferedSeekableStream.                                                 *)

Read(n) ==
    /\ reading = 0 /\ n > 0 /\ currentPosition + n <= MaxSeek + MaxRead
    /\ reading' = n /\ chunks' = <<>>
    /\ UNCHANGED <<file, stream, buffer, bufferPosition, currentPosition, streamClosed,
                   lastRead, stranded>>

\* One turn of ensureBufferSize: a chunk, the end, or the error of the source.
EnsureBufferSize ==
    /\ reading > 0 /\ NeedsMore /\ ~streamClosed
    /\ \/ /\ queue # <<>>
          /\ chunks' = chunks \o Head(queue) /\ queue' = Tail(queue)
          /\ UNCHANGED <<streamClosed, reading>>
       \/ /\ queue = <<>> /\ source = "closed"
          /\ streamClosed' = TRUE /\ UNCHANGED <<chunks, queue, reading>>
       \/ /\ queue = <<>> /\ source = "errored"
          /\ reading' = 0 /\ UNCHANGED <<chunks, queue, streamClosed>>
    /\ UNCHANGED <<file, position, source, pulling, buffer, bufferPosition, currentPosition,
                   lastRead, stranded>>

\* The buffer is what was unused of it and the chunks; the read returns a slice.
ReadReturns ==
    /\ reading > 0 /\ (~NeedsMore \/ streamClosed)
    /\ LET unused == SubSeq(buffer, bufferPosition + 1, Len(buffer))
           from == IF chunks = <<>> THEN bufferPosition ELSE 0 IN
       /\ buffer' = IF chunks = <<>> THEN buffer ELSE unused \o chunks
       /\ bufferPosition' = from + reading
       /\ lastRead' = [at |-> currentPosition, asked |-> reading,
                       value |-> SubSeq(buffer', from + 1,
                                        IF from + reading > Len(buffer') THEN Len(buffer')
                                        ELSE from + reading)]
    /\ currentPosition' = currentPosition + reading
    /\ reading' = 0 /\ chunks' = <<>>
    /\ UNCHANGED <<file, stream, streamClosed, stranded>>

\* Mutant: a seek outside the buffer does not reach the source.
SeekBufferOnly(p) ==
    /\ reading = 0
    /\ bufferPosition' = 0 /\ buffer' = <<>> /\ currentPosition' = p
    /\ UNCHANGED <<file, stream, streamClosed, reading, chunks, lastRead, stranded>>

\* seek: outside the buffer the source is moved and the reader replaced, which
\* rejects a read that is pending; inside, the buffer position moves.
Seek(p) ==
    /\ reading = 0 \/ MayOvertake
    /\ currentPosition' = p
    /\ LET endOfBufferPosition == currentPosition + Len(buffer) - bufferPosition IN
       IF p > endOfBufferPosition \/ p < currentPosition
       THEN /\ buffer' = <<>> /\ bufferPosition' = 0 /\ position' = p
            /\ streamClosed' = FALSE /\ reading' = 0 /\ chunks' = <<>>
            /\ stranded' = (stranded \/ source = "closed")
       ELSE /\ bufferPosition' = bufferPosition + p - currentPosition
            /\ UNCHANGED <<buffer, position, streamClosed, reading, chunks, stranded>>
    /\ UNCHANGED <<file, source, queue, pulling, lastRead>>

ReadStep == PullStarts \/ PullEnds \/ EnsureBufferSize \/ ReadReturns

SeekNext ==
    \/ ReadStep
    \/ \E n \in 1..MaxRead : Read(n)
    \/ \E p \in 0..MaxSeek : Seek(p)

SeekSpec == SeekInit /\ [][SeekNext]_seekVars

-----------------------------------------------------------------------------
(* Properties.                                                             *)

SeekTypeOK ==
    /\ file \in Files
    /\ {position, bufferPosition, currentPosition, reading} \subseteq Nat
    /\ pulling \in Nat \cup {-1} /\ source \in {"open", "closed", "errored"}
    /\ queue \in Seq(Seq(Nat)) /\ buffer \in Seq(Nat) /\ chunks \in Seq(Nat)
    /\ streamClosed \in BOOLEAN /\ stranded \in BOOLEAN
    /\ lastRead \in [at : Nat, asked : Nat, value : Seq(Nat)]

\* What a read should give: the file's bytes at the position it was made at.
Expected == Bytes(lastRead.at, Min({Sum(file.real), lastRead.at + lastRead.asked}))

\* "every read operation is for the correct location", and "if the position is seeked
\* back, the buffer is read again from the underlying source": a read gives exactly the
\* bytes at its position, up to the end of the file.  The second is not so once the
\* source has closed, which it does when something is read past the end: after a seek
\* out of the buffer then, a read gives nothing, wherever it is made.
ReadsRightBytes == lastRead.value = Expected \/ (stranded /\ lastRead.value = <<>>)

\* The source is positioned where the buffer and what is on its way end, so that
\* the next block continues it.
SourceFollowsBuffer ==
    source # "errored" /\ pulling = -1 =>
        position = currentPosition + Len(buffer) - bufferPosition + Len(chunks)
                   + Sum([i \in 1..Len(queue) |-> Len(queue[i])])
=============================================================================
