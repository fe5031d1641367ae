----------------------------- MODULE UploadBody -----------------------------
(***************************************************************************)
(* The multipart body of an upload: a ConcatStream over a header that names *)
(* the length of the file, the open file, and a closing line.  The agent    *)
(* reads it in pieces of a size it chooses, and from any place again; the   *)
(* user may write to the file, lengthen and cut it off at any moment.       *)
(*                                                                          *)
(* A byte is a model value: one for the header, one for the closing line,   *)
(* zero, and the marks that the user leaves in the file.                    *)
(***************************************************************************)
EXTENDS Integers, Sequences, FiniteSets

CONSTANTS
    Opening, Closing,  \* the bytes of the header and of the closing line
    Zero,          \* the byte that pads
    Old, New,      \* what the file has, and what the user writes later
    HeadSize, TailSize,
    MaxSize,       \* of the file
    MaxChanges,    \* how often the user changes the file
    Asks,          \* how many bytes the agent asks for at once
    Offsets        \* where the agent may go before it reads

VARIABLES
    file,      \* what is in the file
    changes,   \* how often the user has changed it
    pc,        \* "closed", "open", "ready", "reading" or "failed"
    declared,  \* the length that the header names
    streams,   \* m_streams: which of "head", "file", "tail"
    sizes,     \* m_sizes: where each of them ends
    cur,       \* m_cur, from 0
    mpos,      \* m_pos
    at,        \* the position of each part in itself
    asked,     \* what Read was called with
    done,      \* what it has got so far
    out,       \* history: what was read since the last Seek
    from,      \* history: where that Seek went
    fixed,     \* history: the content when the sizes were fixed
    cut,       \* history: the file was shorter than that at some moment
    touched    \* history: it was changed between the two calls of Size()

stream == <<streams, sizes, cur, mpos, at>>
call   == <<asked, done>>
past   == <<out, from, fixed, cut, touched>>
vars   == <<file, changes, pc, declared, stream, call, past>>

Files == UNION {[1..n -> {Old, New}] : n \in 0..MaxSize}
Bytes == {Opening, Closing, Zero, Old, New}
Start == [head |-> 0, file |-> 0, tail |-> 0]

Lesser(a, b) == IF a < b THEN a ELSE b

\* The two parts that are no file.
StringOf(part) ==
    IF part = "head" THEN [i \in 1..HeadSize |-> Opening]
    ELSE [i \in 1..TailSize |-> Closing]

\* File::Size, and that of the whole body.
FileSize == Len(file)
Size == IF sizes = <<>> THEN 0 ELSE sizes[Len(sizes)]

TypeOK ==
    /\ file \in Files /\ changes \in 0..MaxChanges
    /\ pc \in {"closed", "open", "ready", "reading", "failed"}
    /\ declared \in 0..MaxSize
    /\ streams \in {<<>>, <<"head", "tail">>, <<"head", "file", "tail">>}
    /\ Len(sizes) = Len(streams)
    /\ cur \in 0..Len(streams) /\ mpos \in 0..Size
    /\ \A s \in DOMAIN at : at[s] \in Nat
    /\ asked \in Asks \cup {0} /\ done \in Nat
    /\ out \in Seq(Bytes) /\ from \in Nat
    /\ fixed \in Files /\ cut \in BOOLEAN /\ touched \in BOOLEAN

Init ==
    /\ \E n \in 0..MaxSize : file = [i \in 1..n |-> Old]
    /\ changes = 0 /\ pc = "closed" /\ declared = 0
    /\ streams = <<>> /\ sizes = <<>> /\ cur = 0 /\ mpos = 0 /\ at = Start
    /\ asked = 0 /\ done = 0
    /\ out = <<>> /\ from = 0 /\ fixed = <<>> /\ cut = FALSE /\ touched = FALSE

-----------------------------------------------------------------------------
(* The user writes to the file that grive has opened.                       *)

Change(content) ==
    /\ changes < MaxChanges /\ pc # "failed"
    /\ changes' = changes + 1
    /\ file' = content
    /\ touched' = (touched \/ pc = "open")
    /\ cut' = (cut \/ Len(content) < Len(fixed))
    /\ UNCHANGED <<pc, declared, stream, call, out, from, fixed>>

CutOff    == \E n \in 0..(Len(file) - 1) : Change(SubSeq(file, 1, n))
Lengthen  == Len(file) < MaxSize /\ Change(Append(file, New))
Overwrite == \E i \in DOMAIN file : file[i] = Old /\ Change([file EXCEPT ![i] = New])

-----------------------------------------------------------------------------
(* Syncer2::Upload.                                                         *)

\* A file that was just opened is read from its beginning.
OpenForRead == at' = [at EXCEPT !.file = 0]

\* The file is opened, and its size goes into the header.
OpenFile ==
    /\ pc = "closed"
    /\ pc' = "open"
    /\ OpenForRead
    /\ declared' = FileSize
    /\ UNCHANGED <<file, changes, streams, sizes, cur, mpos, call, past>>

\* ConcatStream::Append, three times: a part without any bytes is left out, and
\* where the others end is fixed.
Append3(n) ==
    IF n > 0
    THEN [streams |-> <<"head", "file", "tail">>,
          sizes   |-> <<HeadSize, HeadSize + n, HeadSize + n + TailSize>>]
    ELSE [streams |-> <<"head", "tail">>,
          sizes   |-> <<HeadSize, HeadSize + TailSize>>]

\* The size of the file is asked for once more.
AppendParts ==
    /\ pc = "open"
    /\ pc' = "ready"
    /\ streams' = Append3(FileSize).streams /\ sizes' = Append3(FileSize).sizes
    /\ fixed' = file /\ cut' = FALSE
    /\ UNCHANGED <<file, changes, declared, cur, mpos, at, call, out, from, touched>>

Close ==
    /\ pc \in {"ready", "failed"}
    /\ pc' = "closed" /\ declared' = 0 /\ changes' = 0
    /\ streams' = <<>> /\ sizes' = <<>> /\ cur' = 0 /\ mpos' = 0 /\ at' = Start
    /\ asked' = 0 /\ done' = 0
    /\ out' = <<>> /\ from' = 0 /\ fixed' = <<>> /\ cut' = FALSE /\ touched' = FALSE
    /\ UNCHANGED file

-----------------------------------------------------------------------------
(* ConcatStream::Seek and Read.                                             *)

StartOf(i) == IF i = 0 THEN 0 ELSE sizes[i]   \* of the part with index i

\* The first part that does not end before the offset.
PartAt(offset) == CHOOSE i \in 0..(Len(sizes) - 1) :
    /\ offset <= sizes[i + 1]
    /\ \A j \in 1..i : offset > sizes[j]

Clamp(offset) == IF offset > Size THEN Size ELSE offset

\* A file can be sought beyond its end, a string cannot.
FileSeek(offset) == offset
StringSeek(bytes, offset) == Lesser(offset, Len(bytes))

SeekPart(i, offset) ==
    LET part == streams[i + 1]  inPart == offset - StartOf(i) IN
    [at EXCEPT ![part] = IF part = "file" THEN FileSeek(inPart)
                         ELSE StringSeek(StringOf(part), inPart)]

Seek(o) ==
    /\ pc = "ready"
    /\ LET offset == Clamp(o)  i == PartAt(offset) IN
        /\ cur' = i /\ mpos' = offset
        /\ at' = SeekPart(i, offset)
        /\ from' = offset
    /\ out' = <<>>
    /\ UNCHANGED <<file, changes, pc, declared, streams, sizes, call, fixed, cut, touched>>

\* The agent's read callback.
Read(n) ==
    /\ pc = "ready" /\ cur < Len(streams)
    /\ pc' = "reading" /\ asked' = n /\ done' = 0
    /\ UNCHANGED <<file, changes, declared, stream, past>>

\* File::Read: what the file has now; nothing is left beyond its end.
FileRead(position, n) == SubSeq(file, position + 1, Lesser(position + n, Len(file)))

\* StringStream::Read.
StringRead(bytes, position, n) ==
    SubSeq(bytes, position + 1, position + Lesser(Len(bytes) - position, n))

PartBytes(part, position, n) ==
    IF part = "file" THEN FileRead(position, n)
    ELSE StringRead(StringOf(part), position, n)

Zeros(n) == [i \in 1..n |-> Zero]

\* Mutant: the border between the parts is ignored.
WantedAll == asked - done

\* No more than the caller has asked for, and than is left of the part.
Wanted == Lesser(asked - done, sizes[cur + 1] - mpos)

\* The part was cut off in the meantime: all that it lacks is made up for.
Padding == sizes[cur + 1] - mpos

\* The next part is read from its beginning.
NextPart(positions) ==
    IF cur + 1 < Len(streams) THEN [positions EXCEPT ![streams[cur + 2]] = 0]
                              ELSE positions

\* One turn of the loop.
ReadPart ==
    /\ pc = "reading" /\ done < asked /\ cur < Len(streams)
    /\ LET part   == streams[cur + 1]
           bytes  == PartBytes(part, at[part], Wanted)
           given  == IF bytes = <<>> THEN Zeros(Padding) ELSE bytes
           moved  == [at EXCEPT ![part] = @ + Len(bytes)]
           over   == mpos + Len(given) >= sizes[cur + 1]
       IN /\ out' = out \o given
          /\ done' = done + Len(given) /\ mpos' = mpos + Len(given)
          /\ cur' = IF over THEN cur + 1 ELSE cur
          /\ at' = IF over THEN NextPart(moved) ELSE moved
    /\ UNCHANGED <<file, changes, pc, declared, streams, sizes, asked, from, fixed, cut, touched>>

\* libcurl fails if it gets more than it has room for.
ReadReturns ==
    /\ pc = "reading" /\ (done >= asked \/ cur = Len(streams))
    /\ pc' = IF done > asked THEN "failed" ELSE "ready"
    /\ UNCHANGED <<file, changes, declared, stream, call, past>>

-----------------------------------------------------------------------------
User == CutOff \/ Lengthen \/ Overwrite

Reading == ReadPart \/ ReadReturns

Next ==
    \/ User \/ OpenFile \/ AppendParts \/ Close \/ Reading
    \/ \E o \in Offsets : Seek(o)
    \/ \E n \in Asks : Read(n)

Spec == Init /\ [][Next]_vars

\* A call of Read goes on to its end.
FairSpec == Spec /\ WF_vars(Reading)

-----------------------------------------------------------------------------
(* Properties.                                                              *)

\* All of the body that is left.
Body == [i \in 1..HeadSize |-> Opening] \o fixed \o [i \in 1..TailSize |-> Closing]
Rest == SubSeq(Body, from + 1, Len(Body))

\* Every byte that is given belongs where it is: the header and the closing
\* line are never displaced, the file is as it was, or as the user has changed
\* it, and zeros stand in for what was cut off only (ConcatStream.cc:41).
InPlace ==
    \A i \in DOMAIN out :
        /\ i <= Len(Rest)
        /\ out[i] # Rest[i] =>
            Rest[i] \in {Old, New} /\ (out[i] = New \/ (out[i] = Zero /\ cut))

\* A body read to its end has the announced length, whatever was done to the
\* file meanwhile and wherever the agent started to read (ConcatStream.cc:97:
\* "further changes of underlying files don't affect the total size").
LengthKept == (pc = "ready" /\ cur = Len(streams)) => Len(out) = Size - from

\* Read gives more than it was asked for only if the file was cut off, and the
\* length in the header is the one in the body if the file is not changed
\* between the two calls of Size().
ReadBounded ==
    /\ done > asked => cut
    /\ pc = "ready" /\ ~touched => declared = Size - HeadSize - TailSize

\* Every call of Read ends: the loop never waits for a part that has nothing
\* more to give.
ReadEnds == pc = "reading" ~> pc # "reading"
=============================================================================
