--------------------------- MODULE UploadBodyProofs ---------------------------
(***************************************************************************)
(* The body of an upload is what was announced, for any header, file and    *)
(* closing line, whatever the user does to the file, and however the agent  *)
(* reads and goes back.                                                     *)
(***************************************************************************)
EXTENDS UploadBody, SequenceTheorems, TLAPS

\* Neither the header nor the closing line is empty.
Sane ==
    /\ HeadSize \in Nat \ {0} /\ TailSize \in Nat \ {0}
    /\ MaxSize \in Nat /\ MaxChanges \in Nat
    /\ Asks \subseteq Nat /\ Offsets \subseteq Nat

Parts  == {"head", "file", "tail"}
Length == HeadSize + Len(fixed) + TailSize

\* What the body has at a position, from 1.
ByteAt(p) ==
    IF p <= HeadSize THEN Opening
    ELSE IF p <= HeadSize + Len(fixed) THEN fixed[p - HeadSize] ELSE Closing

\* What may be given there.
Fits(byte, p) ==
    \/ byte = ByteAt(p)
    \/ /\ p \in (HeadSize + 1)..(HeadSize + Len(fixed))
       /\ byte = New \/ (byte = Zero /\ cut)

\* The file against what it was when the sizes were fixed.
FileInv ==
    /\ Len(file) < Len(fixed) => cut
    /\ \A j \in 1..Len(fixed) : j <= Len(file) => file[j] \in {fixed[j], New}

\* Before the parts are appended there is nothing.
EmptyInv ==
    pc \in {"closed", "open"} =>
        /\ stream = <<<<>>, <<>>, 0, 0, Start>>
        /\ asked = 0 /\ done = 0 /\ out = <<>> /\ from = 0 /\ fixed = <<>>

\* Then the position is one of the current part, which is where it says.
PlaceInv ==
    pc \notin {"closed", "open"} =>
        /\ streams = Append3(Len(fixed)).streams /\ sizes = Append3(Len(fixed)).sizes
        /\ cur \in 0..Len(streams)
        /\ cur = Len(streams) => mpos = Length
        /\ cur # Len(streams) =>
            /\ mpos \in StartOf(cur)..sizes[cur + 1]
            /\ at[streams[cur + 1]] = mpos - StartOf(cur)

\* What was read reaches from the last Seek to the position.
OutInv ==
    /\ from \in Nat /\ mpos \in Nat /\ from <= mpos /\ mpos <= Length
    /\ Len(out) = mpos - from
    /\ \A i \in 1..Len(out) : Fits(out[i], from + i)

\* The length in the header, and how much a call has got.
CountInv ==
    /\ done > asked => cut
    /\ pc = "open" /\ ~touched => declared = Len(file)
    /\ pc \notin {"closed", "open"} /\ ~touched => declared = Len(fixed)

Types ==
    /\ file \in Files /\ fixed \in Files /\ changes \in 0..MaxChanges
    /\ pc \in {"closed", "open", "ready", "reading", "failed"}
    /\ declared \in 0..MaxSize /\ at \in [Parts -> Nat]
    /\ asked \in Asks \cup {0} /\ done \in Nat
    /\ out \in Seq(Bytes) /\ cut \in BOOLEAN /\ touched \in BOOLEAN

BodyInv ==
    Types /\ FileInv /\ EmptyInv /\ PlaceInv /\ OutInv /\ CountInv

-----------------------------------------------------------------------------
(* Lemmas about files, parts and the whole body.                            *)

LEMMA FileFacts ==
    ASSUME Sane, NEW f \in Files
    PROVE  /\ f \in Seq({Old, New}) /\ Len(f) \in Nat /\ Len(f) <= MaxSize
           /\ DOMAIN f = 1..Len(f) /\ \A i \in 1..Len(f) : f[i] \in {Old, New}
<1>1. PICK n \in 0..MaxSize : f \in [1..n -> {Old, New}]
    BY DEF Files
<1>2. n \in Nat /\ n <= MaxSize
    BY <1>1 DEF Sane
<1>3. f \in Seq({Old, New})
    BY <1>1, <1>2, SeqDef
<1>4. DOMAIN f = 1..n /\ Len(f) = n
    BY <1>1, <1>2, <1>3, LenProperties
<1> QED
    BY <1>1, <1>2, <1>3, <1>4

LEMMA FilesAre ==
    ASSUME Sane, NEW f \in Seq({Old, New}), Len(f) <= MaxSize
    PROVE  f \in Files
<1>1. f \in [1..Len(f) -> {Old, New}] /\ Len(f) \in 0..MaxSize
    BY LenProperties DEF Sane
<1> QED
    BY <1>1 DEF Files

\* The parts follow one another, and end with the body.
LEMMA Layout ==
    ASSUME Sane, BodyInv, pc \notin {"closed", "open"}
    PROVE  /\ Len(streams) \in {2, 3} /\ Len(sizes) = Len(streams) /\ sizes # <<>>
           /\ sizes[1] \in Nat /\ sizes[2] \in Nat
           /\ Len(fixed) \in Nat /\ Length \in Nat /\ Size = Length
           /\ \A i \in 0..(Len(streams) - 1) :
                /\ streams[i + 1] \in Parts
                /\ StartOf(i) \in Nat /\ sizes[i + 1] \in Nat
                /\ StartOf(i) <= sizes[i + 1] /\ sizes[i + 1] <= Length
                /\ streams[i + 1] = "head" => StartOf(i) = 0 /\ sizes[i + 1] = HeadSize
                /\ streams[i + 1] = "file" =>
                    /\ StartOf(i) = HeadSize /\ sizes[i + 1] = HeadSize + Len(fixed)
                    /\ Len(fixed) > 0
                /\ streams[i + 1] = "tail" =>
                    /\ StartOf(i) = HeadSize + Len(fixed) /\ sizes[i + 1] = Length
                /\ i + 1 < Len(streams) => StartOf(i + 1) = sizes[i + 1]
                /\ i + 1 = Len(streams) => sizes[i + 1] = Length
<1> DEFINE F == Len(fixed)
<1>1. F \in Nat /\ HeadSize \in Nat \ {0} /\ TailSize \in Nat \ {0}
    BY FileFacts DEF BodyInv, Types, Sane
<1>2. CASE F > 0
    <2>1. /\ streams = <<"head", "file", "tail">>
          /\ sizes = <<HeadSize, HeadSize + F, HeadSize + F + TailSize>>
        BY <1>2 DEF BodyInv, PlaceInv, Append3
    <2>2. /\ Len(streams) = 3 /\ Len(sizes) = 3 /\ sizes # <<>>
          /\ sizes[1] = HeadSize /\ sizes[2] = HeadSize + F
          /\ sizes[3] = HeadSize + F + TailSize
          /\ streams[1] = "head" /\ streams[2] = "file" /\ streams[3] = "tail"
        BY <2>1
    <2>3. StartOf(0) = 0 /\ StartOf(1) = HeadSize /\ StartOf(2) = HeadSize + F
        BY <2>2 DEF StartOf
    <2>4. Size = Length
        BY <2>2 DEF Size, Length
    <2>5. \A i \in 0..(Len(streams) - 1) : i = 0 \/ i = 1 \/ i = 2
        BY <2>2
    <2> QED
        BY <1>1, <1>2, <2>2, <2>3, <2>4, <2>5 DEF Length, Parts
<1>3. CASE ~(F > 0)
    <2>1. /\ streams = <<"head", "tail">>
          /\ sizes = <<HeadSize, HeadSize + TailSize>> /\ F = 0
        BY <1>1, <1>3 DEF BodyInv, PlaceInv, Append3
    <2>2. /\ Len(streams) = 2 /\ Len(sizes) = 2 /\ sizes # <<>>
          /\ sizes[1] = HeadSize /\ sizes[2] = HeadSize + TailSize
          /\ streams[1] = "head" /\ streams[2] = "tail"
        BY <2>1
    <2>3. StartOf(0) = 0 /\ StartOf(1) = HeadSize
        BY <2>2 DEF StartOf
    <2>4. Size = Length
        BY <1>1, <2>1, <2>2 DEF Size, Length
    <2>5. \A i \in 0..(Len(streams) - 1) : i = 0 \/ i = 1
        BY <2>2
    <2> QED
        BY <1>1, <2>1, <2>2, <2>3, <2>4, <2>5 DEF Length, Parts
<1> QED
    BY <1>2, <1>3

\* The part that PartAt chooses has the offset.
LEMMA PartHas ==
    ASSUME Sane, BodyInv, pc \notin {"closed", "open"}, NEW o \in 0..Length
    PROVE  /\ PartAt(o) \in 0..(Len(streams) - 1)
           /\ o <= sizes[PartAt(o) + 1] /\ o >= StartOf(PartAt(o))
<1> DEFINE Good(i) == o <= sizes[i + 1] /\ \A j \in 1..i : o > sizes[j]
           n == Len(streams)
<1>1. Len(sizes) = n /\ n \in {2, 3} /\ o \in Nat /\ o <= Length
      /\ \A i \in 0..(n - 1) : sizes[i + 1] \in Nat
      /\ sizes[n] = Length
    <2>1. Len(sizes) = n /\ n \in {2, 3} /\ o \in Nat /\ o <= Length
        BY Layout
    <2>2. n - 1 \in 0..(n - 1) /\ (n - 1) + 1 = n
        BY <2>1
    <2>3. sizes[(n - 1) + 1] = Length
        BY <2>2, Layout
    <2>4. \A i \in 0..(n - 1) : sizes[i + 1] \in Nat
        BY Layout
    <2> QED
        BY <2>1, <2>2, <2>3, <2>4
<1>2. \E i \in 0..(n - 1) : Good(i)
    <2>1. CASE o <= sizes[1]
        <3>1. Good(0) /\ 0 \in 0..(n - 1)
            BY <1>1, <2>1
        <3> QED
            BY <3>1
    <2>2. CASE ~(o <= sizes[1]) /\ o <= sizes[2]
        <3>1. sizes[1] \in Nat
            BY Layout
        <3>2. Good(1) /\ 1 \in 0..(n - 1)
            BY <1>1, <2>2, <3>1
        <3> QED
            BY <3>2
    <2>3. CASE ~(o <= sizes[1]) /\ ~(o <= sizes[2])
        <3>1. n = 3
            BY <1>1, <2>3
        <3>2. sizes[1] \in Nat /\ sizes[2] \in Nat
            BY Layout
        <3>3. Good(2) /\ 2 \in 0..(n - 1)
            BY <1>1, <2>3, <3>1, <3>2
        <3> QED
            BY <3>3
    <2> QED
        BY <2>1, <2>2, <2>3
<1>3. PartAt(o) = CHOOSE i \in 0..(n - 1) : Good(i)
    BY <1>1 DEF PartAt
<1>4. PartAt(o) \in 0..(n - 1) /\ Good(PartAt(o))
    BY <1>2, <1>3
<1>5. o >= StartOf(PartAt(o))
    <2>1. CASE PartAt(o) = 0
        BY <1>1, <2>1 DEF StartOf
    <2>2. CASE PartAt(o) # 0
        <3>1. PartAt(o) \in 1..PartAt(o) /\ sizes[PartAt(o)] \in Nat
            <4>1. PartAt(o) - 1 \in 0..(n - 1) /\ (PartAt(o) - 1) + 1 = PartAt(o)
                BY <1>1, <1>4, <2>2
            <4> QED
                BY <1>1, <1>4, <2>2, <4>1
        <3>2. o > sizes[PartAt(o)]
            BY <1>4, <3>1
        <3> QED
            BY <1>1, <2>2, <3>1, <3>2 DEF StartOf
    <2> QED
        BY <2>1, <2>2
<1> QED
    BY <1>4, <1>5

\* What is announced, byte by byte.
LEMMA BodyBytes ==
    ASSUME Sane, fixed \in Files
    PROVE  /\ Len(Body) = Length /\ Body \in Seq(Bytes)
           /\ \A p \in 1..Length : Body[p] = ByteAt(p) /\ ByteAt(p) \in Bytes
<1> DEFINE head == [i \in 1..HeadSize |-> Opening]
           tail == [i \in 1..TailSize |-> Closing]
           F    == Len(fixed)
<1>1. head \in Seq(Bytes) /\ Len(head) = HeadSize /\ tail \in Seq(Bytes) /\ Len(tail) = TailSize
    BY DEF Sane, Bytes
<1>2. fixed \in Seq(Bytes) /\ F \in Nat /\ \A i \in 1..F : fixed[i] \in {Old, New}
    BY FileFacts DEF Bytes
<1>3. HeadSize \in Nat /\ TailSize \in Nat
    BY DEF Sane
<1>4. /\ head \o fixed \in Seq(Bytes) /\ Len(head \o fixed) = HeadSize + F
      /\ \A p \in 1..(HeadSize + F) :
            (head \o fixed)[p] = IF p <= HeadSize THEN head[p] ELSE fixed[p - HeadSize]
    BY <1>1, <1>2, <1>3
<1>5. /\ Body \in Seq(Bytes) /\ Len(Body) = Length
      /\ \A p \in 1..Length :
            Body[p] = IF p <= HeadSize + F THEN (head \o fixed)[p] ELSE tail[p - (HeadSize + F)]
    BY <1>1, <1>2, <1>3, <1>4 DEF Body, Length
<1>6. ASSUME NEW p \in 1..Length
      PROVE  Body[p] = ByteAt(p) /\ ByteAt(p) \in Bytes
    <2>1. CASE p <= HeadSize
        BY <1>1, <1>2, <1>3, <1>4, <1>5, <2>1 DEF ByteAt, Bytes
    <2>2. CASE ~(p <= HeadSize) /\ p <= HeadSize + F
        <3>1. p - HeadSize \in 1..F
            BY <1>2, <1>3, <2>2 DEF Length
        <3> QED
            BY <1>2, <1>3, <1>4, <1>5, <2>2, <3>1 DEF ByteAt, Bytes
    <2>3. CASE ~(p <= HeadSize + F)
        <3>1. p - (HeadSize + F) \in 1..TailSize /\ ~(p <= HeadSize)
            BY <1>2, <1>3, <2>3 DEF Length
        <3> QED
            BY <1>2, <1>3, <1>5, <2>3, <3>1 DEF ByteAt, Bytes
    <2> QED
        BY <2>1, <2>2, <2>3
<1> QED
    BY <1>5, <1>6

\* What is left of it after a Seek.
LEMMA RestBytes ==
    ASSUME Sane, fixed \in Files, from \in Nat, from <= Length
    PROVE  /\ Len(Rest) = Length - from
           /\ \A i \in 1..(Length - from) : Rest[i] = ByteAt(from + i)
<1>1. Length \in Nat
    BY FileFacts DEF Length, Sane
<1>2. /\ Len(Body) = Length /\ Body \in Seq(Bytes)
      /\ \A p \in 1..Length : Body[p] = ByteAt(p)
    BY BodyBytes
<1>3. Rest = SubSeq(Body, from + 1, Length)
    BY <1>2 DEF Rest
<1>4. Len(Rest) = Length - from /\ \A i \in 1..(Length - from) : Rest[i] = Body[from + i]
    <2>1. from + 1 \in 1..(Length + 1) /\ Length \in Nat
        BY <1>1
    <2>2. Rest = [i \in 1..(Length - from) |-> Body[from + i]]
        BY <1>1, <1>2, <1>3
    <2> QED
        BY <1>1, <1>2, <1>3, <2>2
<1>5. \A i \in 1..(Length - from) : from + i \in 1..Length
    BY <1>1
<1> QED
    BY <1>2, <1>4, <1>5

-----------------------------------------------------------------------------
(* The user.                                                                *)

\* A change that keeps a byte or makes it new.
LEMMA ChangeKeeps ==
    ASSUME Sane, BodyInv, NEW content \in Files, Change(content),
           \A j \in 1..Len(content) : content[j] = New \/ (j <= Len(file) /\ content[j] = file[j])
    PROVE  BodyInv'
<1>1. /\ pc' = pc /\ declared' = declared /\ streams' = streams /\ sizes' = sizes
      /\ cur' = cur /\ mpos' = mpos /\ at' = at /\ asked' = asked /\ done' = done
      /\ out' = out /\ from' = from /\ fixed' = fixed /\ file' = content
      /\ cut' = (cut \/ Len(content) < Len(fixed))
      /\ touched' = (touched \/ pc = "open")
    BY DEF Change, stream, call
<1>2. Types'
    <2>1. changes' \in 0..MaxChanges
        BY DEF Change, BodyInv, Types, Sane
    <2> QED
        BY <1>1, <2>1 DEF BodyInv, Types
<1>3. FileInv'
    <2>1. Len(content) \in Nat /\ Len(fixed) \in Nat /\ Len(file) \in Nat
        BY FileFacts DEF BodyInv, Types
    <2>2. \A j \in 1..Len(fixed) : j <= Len(content) => content[j] \in {fixed[j], New}
        BY <2>1 DEF BodyInv, FileInv
    <2> QED
        BY <1>1, <2>2 DEF FileInv
<1>4. EmptyInv' /\ PlaceInv'
    BY <1>1 DEF BodyInv, EmptyInv, PlaceInv, stream, StartOf, Length
<1>5. OutInv'
    <2>1. Length' = Length /\ \A p : Fits(out[p], from + p) => Fits(out[p], from + p)'
        BY <1>1 DEF Length, Fits, ByteAt
    <2> QED
        BY <1>1, <2>1 DEF BodyInv, OutInv
<1>6. CountInv'
    BY <1>1 DEF BodyInv, CountInv
<1> QED
    BY <1>2, <1>3, <1>4, <1>5, <1>6 DEF BodyInv

LEMMA UserKeeps == ASSUME Sane, BodyInv, User PROVE BodyInv'
<1>0. /\ file \in Seq({Old, New}) /\ Len(file) \in Nat /\ Len(file) <= MaxSize
      /\ \A i \in 1..Len(file) : file[i] \in {Old, New}
      /\ DOMAIN file = 1..Len(file) /\ MaxSize \in Nat
    BY FileFacts DEF BodyInv, Types, Sane
<1>1. CASE CutOff
    <2>1. PICK n \in 0..(Len(file) - 1) : Change(SubSeq(file, 1, n))
        BY <1>1 DEF CutOff
    <2> DEFINE content == SubSeq(file, 1, n)
    <2>2. /\ content \in Seq({Old, New}) /\ Len(content) = n /\ n <= Len(file)
          /\ \A j \in 1..n : content[j] = file[j]
        BY <1>0, <2>1
    <2>4. Change(content)
        BY <2>1
    <2> HIDE DEF content
    <2>3. content \in Files
        BY <1>0, <2>2, FilesAre
    <2> QED
        BY <1>0, <2>2, <2>3, <2>4, ChangeKeeps
<1>2. CASE Lengthen
    <2> DEFINE content == Append(file, New)
    <2>1. /\ content \in Seq({Old, New}) /\ Len(content) = Len(file) + 1
          /\ \A j \in 1..Len(file) : content[j] = file[j]
          /\ content[Len(file) + 1] = New
        BY <1>0
    <2>3. Change(content) /\ Len(content) <= MaxSize
        BY <1>0, <1>2, <2>1 DEF Lengthen
    <2> HIDE DEF content
    <2>2. content \in Files
        BY <2>1, <2>3, FilesAre
    <2> QED
        BY <1>0, <2>1, <2>2, <2>3, ChangeKeeps
<1>3. CASE Overwrite
    <2>1. PICK i \in DOMAIN file : Change([file EXCEPT ![i] = New])
        BY <1>3 DEF Overwrite
    <2> DEFINE content == [file EXCEPT ![i] = New]
    <2>2. /\ content \in Seq({Old, New}) /\ Len(content) = Len(file)
          /\ \A j \in 1..Len(file) : content[j] = IF j = i THEN New ELSE file[j]
        BY <1>0, ExceptSeq
    <2>4. Change(content)
        BY <2>1
    <2> HIDE DEF content
    <2>3. content \in Files
        BY <1>0, <2>2, FilesAre
    <2> QED
        BY <1>0, <2>2, <2>3, <2>4, ChangeKeeps
<1> QED
    BY <1>1, <1>2, <1>3 DEF User

-----------------------------------------------------------------------------
(* Opening, closing and going to a place.                                   *)

LEMMA OpensAndCloses ==
    ASSUME Sane, BodyInv, OpenFile \/ AppendParts \/ Close
    PROVE  BodyInv'
<1>0. Len(file) \in 0..MaxSize /\ Len(fixed) \in Nat /\ file \in Files /\ <<>> \in Files
    <2>1. Len(<<>>) = 0 /\ <<>> \in Seq({Old, New}) /\ 0 <= MaxSize
        BY DEF Sane
    <2>2. <<>> \in Files
        BY <2>1, FilesAre
    <2>3. file \in Files /\ fixed \in Files
        BY DEF BodyInv, Types
    <2>4. Len(file) \in Nat /\ Len(file) <= MaxSize /\ Len(fixed) \in Nat
        BY <2>3, FileFacts
    <2> QED
        BY <2>2, <2>3, <2>4 DEF Sane
<1>1. CASE OpenFile
    <2>1. /\ pc = "closed" /\ pc' = "open" /\ declared' = Len(file) /\ at' = at
          /\ UNCHANGED <<file, changes, streams, sizes, cur, mpos, call, past>>
        <3>1. at = Start
            BY <1>1 DEF OpenFile, BodyInv, EmptyInv, stream
        <3> QED
            BY <1>1, <3>1 DEF OpenFile, OpenForRead, FileSize, Start
    <2>2. Types' /\ FileInv' /\ CountInv'
        BY <1>0, <2>1 DEF BodyInv, Types, FileInv, EmptyInv, CountInv, call, past
    <2>3. EmptyInv' /\ PlaceInv'
        BY <2>1 DEF BodyInv, EmptyInv, PlaceInv, call, past, stream
    <2>4. OutInv'
        BY <2>1 DEF BodyInv, OutInv, past, Length, Fits, ByteAt
    <2> QED
        BY <2>2, <2>3, <2>4 DEF BodyInv
<1>2. CASE AppendParts
    <2>1. /\ pc = "open" /\ pc' = "ready" /\ fixed' = file /\ cut' = FALSE
          /\ streams' = Append3(Len(file)).streams /\ sizes' = Append3(Len(file)).sizes
          /\ UNCHANGED <<file, changes, declared, cur, mpos, at, call, out, from, touched>>
          /\ cur = 0 /\ mpos = 0 /\ at = Start /\ out = <<>> /\ from = 0
          /\ asked = 0 /\ done = 0
        BY <1>2 DEF AppendParts, FileSize, BodyInv, EmptyInv, stream
    <2>2. Types' /\ FileInv' /\ CountInv'
        <3>1. Types'
            BY <1>0, <2>1 DEF BodyInv, Types, call
        <3>2. FileInv'
            BY <1>0, <2>1 DEF FileInv
        <3>3. CountInv'
            BY <1>0, <2>1 DEF BodyInv, CountInv, call
        <3> QED
            BY <3>1, <3>2, <3>3
    <2>3. EmptyInv' /\ OutInv'
        BY <1>0, <2>1 DEF EmptyInv, OutInv, Length, Sane
    <2>4. PlaceInv'
        <3>1. /\ Len(streams') \in {2, 3} /\ streams'[1] = "head" /\ sizes'[1] = HeadSize
            <4>1. \/ /\ streams' = <<"head", "file", "tail">>
                     /\ sizes' = <<HeadSize, HeadSize + Len(file), HeadSize + Len(file) + TailSize>>
                  \/ /\ streams' = <<"head", "tail">>
                     /\ sizes' = <<HeadSize, HeadSize + TailSize>>
                BY <2>1 DEF Append3
            <4> QED
                BY <4>1
        <3>2. StartOf(cur)' = 0
            BY <2>1 DEF StartOf
        <3> QED
            BY <2>1, <3>1, <3>2 DEF PlaceInv, Start, Sane
    <2> QED
        BY <2>2, <2>3, <2>4 DEF BodyInv
<1>3. CASE Close
    <2>1. /\ pc' = "closed" /\ declared' = 0 /\ changes' = 0
          /\ streams' = <<>> /\ sizes' = <<>> /\ cur' = 0 /\ mpos' = 0 /\ at' = Start
          /\ asked' = 0 /\ done' = 0 /\ file' = file
          /\ out' = <<>> /\ from' = 0 /\ fixed' = <<>> /\ cut' = FALSE /\ touched' = FALSE
        BY <1>3 DEF Close
    <2>2. Types' /\ FileInv' /\ CountInv'
        <3>1. Types'
            <4>1. Start \in [Parts -> Nat]
                BY DEF Start, Parts
            <4>2. 0 \in 0..MaxSize /\ 0 \in 0..MaxChanges /\ <<>> \in Seq(Bytes)
                BY DEF Sane
            <4> QED
                BY <1>0, <2>1, <4>1, <4>2 DEF Types
        <3>2. FileInv'
            <4>1. Len(fixed') = 0
                BY <2>1
            <4> QED
                BY <1>0, <2>1, <4>1 DEF FileInv
        <3>3. CountInv'
            BY <2>1 DEF CountInv
        <3> QED
            BY <3>1, <3>2, <3>3
    <2>3. EmptyInv' /\ PlaceInv' /\ OutInv'
        BY <2>1 DEF EmptyInv, PlaceInv, OutInv, Length, stream, Sane
    <2> QED
        BY <2>2, <2>3 DEF BodyInv
<1> QED
    BY <1>1, <1>2, <1>3

LEMMA SeekKeeps ==
    ASSUME Sane, BodyInv, NEW o \in Nat, Seek(o)
    PROVE  BodyInv'
<1> DEFINE offset == Clamp(o)
           i == PartAt(offset)
           inPart == offset - StartOf(i)
<1>1. /\ pc = "ready" /\ cur' = i /\ mpos' = offset /\ at' = SeekPart(i, offset)
      /\ from' = offset /\ out' = <<>>
      /\ UNCHANGED <<file, changes, pc, declared, streams, sizes, call, fixed, cut, touched>>
    BY DEF Seek
<1>2. offset \in 0..Length /\ Size = Length /\ Length \in Nat
    BY <1>1, Layout DEF Clamp
<1>3. i \in 0..(Len(streams) - 1) /\ offset <= sizes[i + 1] /\ offset >= StartOf(i)
    BY <1>1, <1>2, PartHas
<1> HIDE DEF offset, i
<1>4. /\ Len(streams) \in {2, 3} /\ streams[i + 1] \in Parts
      /\ StartOf(i) \in Nat /\ sizes[i + 1] \in Nat
      /\ streams[i + 1] = "head" => StartOf(i) = 0 /\ sizes[i + 1] = HeadSize
      /\ streams[i + 1] = "tail" => sizes[i + 1] - StartOf(i) = TailSize
    <2>1. HeadSize + Len(fixed) \in Nat /\ TailSize \in Nat /\ Len(fixed) \in Nat
        BY <1>1, Layout DEF Sane
    <2>2. /\ streams[i + 1] \in Parts /\ StartOf(i) \in Nat /\ sizes[i + 1] \in Nat
          /\ streams[i + 1] = "head" => StartOf(i) = 0 /\ sizes[i + 1] = HeadSize
          /\ streams[i + 1] = "tail" =>
                StartOf(i) = HeadSize + Len(fixed) /\ sizes[i + 1] = Length
        BY <1>1, <1>3, Layout
    <2>3. Len(streams) \in {2, 3}
        BY <1>1, Layout
    <2>4. (HeadSize + Len(fixed) + TailSize) - (HeadSize + Len(fixed)) = TailSize
        BY <2>1
    <2> QED
        BY <2>2, <2>3, <2>4 DEF Length
<1>5. inPart \in Nat /\ inPart <= sizes[i + 1] - StartOf(i)
    BY <1>2, <1>3, <1>4
<1>6. at' = [at EXCEPT ![streams[i + 1]] = inPart]
    <2>1. CASE streams[i + 1] = "file"
        BY <1>1, <2>1 DEF SeekPart, FileSeek
    <2>2. CASE streams[i + 1] = "head"
        <3>1. StringOf("head") = [j \in 1..HeadSize |-> Opening] /\ HeadSize \in Nat
            BY DEF StringOf, Sane
        <3>2. Len(StringOf("head")) = HeadSize
            BY <3>1
        <3>3. StringSeek(StringOf("head"), inPart) = inPart
            BY <1>4, <1>5, <2>2, <3>1, <3>2 DEF StringSeek, Lesser
        <3> QED
            BY <1>1, <2>2, <3>3 DEF SeekPart
    <2>3. CASE streams[i + 1] = "tail"
        <3>1. StringOf("tail") = [j \in 1..TailSize |-> Closing] /\ TailSize \in Nat
            BY DEF StringOf, Sane
        <3>2. Len(StringOf("tail")) = TailSize
            BY <3>1
        <3>3. StringSeek(StringOf("tail"), inPart) = inPart
            BY <1>4, <1>5, <2>3, <3>1, <3>2 DEF StringSeek, Lesser
        <3> QED
            BY <1>1, <2>3, <3>3 DEF SeekPart
    <2> QED
        BY <1>4, <2>1, <2>2, <2>3 DEF Parts
<1>7. Types' /\ FileInv' /\ EmptyInv' /\ CountInv'
    <2>1. at' \in [Parts -> Nat]
        BY <1>4, <1>5, <1>6 DEF BodyInv, Types
    <2> QED
        BY <1>1, <2>1 DEF BodyInv, Types, FileInv, EmptyInv, CountInv, call
<1>8. PlaceInv'
    <2>1. at'[streams[i + 1]] = offset - StartOf(i)
        BY <1>4, <1>6 DEF BodyInv, Types
    <2>2. cur' \in 0..Len(streams) /\ cur' # Len(streams)
        BY <1>1, <1>3, <1>4
    <2>3. mpos' \in StartOf(i)..sizes[i + 1]
        BY <1>1, <1>2, <1>3, <1>4
    <2>4. StartOf(cur)' = StartOf(i)
        BY <1>1 DEF StartOf
    <2> QED
        BY <1>1, <2>1, <2>2, <2>3, <2>4 DEF BodyInv, PlaceInv
<1>9. OutInv'
    BY <1>1, <1>2 DEF OutInv, Length
<1> QED
    BY <1>7, <1>8, <1>9 DEF BodyInv

-----------------------------------------------------------------------------
(* Reading.                                                                 *)

\* What a part has from a place on, and of a given length at most.
LEMMA SomeOf ==
    ASSUME NEW S, NEW s \in Seq(S), NEW p \in Nat, NEW q \in Int, q <= Len(s)
    PROVE  /\ SubSeq(s, p + 1, q) \in Seq(S)
           /\ Len(SubSeq(s, p + 1, q)) = IF q > p THEN q - p ELSE 0
           /\ \A k \in 1..Len(SubSeq(s, p + 1, q)) : SubSeq(s, p + 1, q)[k] = s[p + k]
<1>1. Len(s) \in Nat
    BY LenProperties
<1>2. CASE q > p
    BY <1>1, <1>2, SubSeqProperties
<1>3. CASE ~(q > p)
    <2>1. SubSeq(s, p + 1, q) = <<>>
        BY <1>1, <1>3
    <2> QED
        BY <1>3, <2>1
<1> QED
    BY <1>2, <1>3

\* The bytes that come belong where they are read, and none come, though some were
\* wanted, only from a file that was cut off.
LEMMA PartReads ==
    ASSUME Sane, BodyInv, pc = "reading", done < asked, cur < Len(streams),
           NEW part, part = streams[cur + 1],
           NEW bytes, bytes = PartBytes(part, at[part], Wanted)
    PROVE  /\ bytes \in Seq(Bytes) /\ Len(bytes) <= Wanted
           /\ \A k \in 1..Len(bytes) : Fits(bytes[k], mpos + k)
           /\ bytes = <<>> /\ Wanted > 0 => part = "file" /\ cut
<1> DEFINE F == Len(fixed)
           end == sizes[cur + 1]
           position == at[part]
<1>1. cur \in 0..(Len(streams) - 1) /\ Len(streams) \in {2, 3}
    BY Layout DEF BodyInv, PlaceInv
<1>2. /\ part \in Parts /\ StartOf(cur) \in Nat /\ end \in Nat
      /\ StartOf(cur) <= end /\ end <= Length
      /\ part = "head" => StartOf(cur) = 0 /\ end = HeadSize
      /\ part = "file" => StartOf(cur) = HeadSize /\ end = HeadSize + F
      /\ part = "tail" => StartOf(cur) = HeadSize + F /\ end = Length
    BY <1>1, Layout
<1>3. mpos \in Nat /\ StartOf(cur) <= mpos /\ mpos <= end /\ position = mpos - StartOf(cur)
    BY <1>1, <1>2 DEF BodyInv, PlaceInv
<1>4. HeadSize \in Nat /\ TailSize \in Nat /\ F \in Nat /\ position \in Nat
    BY <1>2, <1>3, FileFacts DEF Sane, BodyInv, Types
<1>5. Wanted \in Nat /\ Wanted <= end - mpos
    BY <1>2, <1>3 DEF Wanted, Lesser, BodyInv, Types, Sane
<1> HIDE DEF F, end, position
<1>6. CASE part = "file"
    <2> DEFINE q == Lesser(position + Wanted, Len(file))
    <2>1. file \in Seq({Old, New}) /\ Len(file) \in Nat
        BY FileFacts DEF BodyInv, Types
    <2>2. q \in Int /\ q <= Len(file) /\ q <= position + Wanted
          /\ (q = position + Wanted \/ q = Len(file))
        BY <1>4, <1>5, <2>1 DEF Lesser
    <2>3. bytes = SubSeq(file, position + 1, q)
        BY <1>6 DEF PartBytes, FileRead, position
    <2> HIDE DEF q
    <2>4. /\ bytes \in Seq({Old, New}) /\ Len(bytes) = IF q > position THEN q - position ELSE 0
          /\ \A k \in 1..Len(bytes) : bytes[k] = file[position + k]
        BY <1>4, <2>1, <2>2, <2>3, SomeOf
    <2>5. bytes \in Seq(Bytes) /\ Len(bytes) <= Wanted
        <3>1. {Old, New} \subseteq Bytes
            BY DEF Bytes
        <3>2. Len(bytes) <= Wanted
            BY <1>4, <1>5, <2>2, <2>4
        <3> QED
            BY <2>4, <3>1, <3>2, SeqMonotonic
    <2>6. ASSUME NEW k \in 1..Len(bytes)
          PROVE  Fits(bytes[k], mpos + k)
        <3>1. position + k \in 1..F /\ position + k <= Len(file)
            BY <1>2, <1>3, <1>4, <1>5, <1>6, <2>2, <2>4, <2>1, SMTT(30) DEF end, F
        <3>2. file[position + k] \in {fixed[position + k], New}
            BY <3>1 DEF BodyInv, FileInv, F
        <3>3. mpos + k = HeadSize + (position + k)
            BY <1>2, <1>3, <1>4, <1>6
        <3>4. ByteAt(mpos + k) = fixed[position + k]
            BY <1>4, <3>1, <3>3 DEF ByteAt, F
        <3>5. mpos + k \in (HeadSize + 1)..(HeadSize + F)
            BY <1>4, <3>1, <3>3
        <3> QED
            BY <2>4, <3>2, <3>4, <3>5 DEF Fits, F
    <2>7. ASSUME bytes = <<>>, Wanted > 0 PROVE cut
        <3>1. q = Len(file) /\ Len(file) <= position
            BY <1>4, <1>5, <2>1, <2>2, <2>4, <2>7
        <3>2. position < F
            BY <1>2, <1>3, <1>4, <1>5, <1>6, <2>7
        <3> QED
            BY <1>4, <2>1, <3>1, <3>2 DEF BodyInv, FileInv, F
    <2> QED
        BY <1>6, <2>5, <2>6, <2>7
<1>7. CASE part # "file"
    <2> DEFINE string == StringOf(part)
               q == position + Lesser(Len(string) - position, Wanted)
               byte == IF part = "head" THEN Opening ELSE Closing
    <2>1. /\ string \in Seq({byte}) /\ Len(string) = end - StartOf(cur)
          /\ \A k \in 1..Len(string) : string[k] = byte
        <3>1. CASE part = "head"
            <4>1. string = [k \in 1..HeadSize |-> Opening]
                BY <3>1 DEF StringOf
            <4>2. end - StartOf(cur) = HeadSize
                BY <1>2, <1>4, <3>1 DEF end
            <4> QED
                BY <1>4, <3>1, <4>1, <4>2
        <3>2. CASE part = "tail"
            <4>1. string = [k \in 1..TailSize |-> Closing]
                BY <3>2 DEF StringOf
            <4>2. end - StartOf(cur) = TailSize
                BY <1>2, <1>4, <3>2 DEF end, Length, F
            <4> QED
                BY <1>4, <3>2, <4>1, <4>2
        <3> QED
            BY <1>2, <1>7, <3>1, <3>2 DEF Parts
    <2>2. bytes = SubSeq(string, position + 1, q)
        BY <1>7 DEF PartBytes, StringRead, position
    <2>3. q = position + Wanted /\ q <= Len(string)
        <3>1. Len(string) - position = end - mpos /\ Len(string) \in Int
            BY <1>2, <1>3, <2>1
        <3> HIDE DEF string
        <3> QED
            BY <1>4, <1>5, <3>1 DEF Lesser
    <2> HIDE DEF q, string, byte
    <2>4. /\ bytes \in Seq({byte}) /\ Len(bytes) = Wanted
          /\ \A k \in 1..Len(bytes) : bytes[k] = string[position + k]
        <3>1. q \in Int
            BY <1>4, <1>5, <2>3
        <3>2. /\ bytes \in Seq({byte}) /\ Len(bytes) = IF q > position THEN q - position ELSE 0
              /\ \A k \in 1..Len(bytes) : bytes[k] = string[position + k]
            BY <1>4, <2>1, <2>2, <2>3, <3>1, SomeOf, SMTT(30)
        <3>3. (IF q > position THEN q - position ELSE 0) = Wanted
            BY <1>4, <1>5, <2>3
        <3> QED
            BY <3>2, <3>3
    <2>5. bytes \in Seq(Bytes)
        <3>1. {byte} \subseteq Bytes
            BY DEF Bytes, byte
        <3> QED
            BY <2>4, <3>1, SeqMonotonic
    <2>6. ASSUME NEW k \in 1..Len(bytes)
          PROVE  Fits(bytes[k], mpos + k)
        <3>1. position + k \in 1..Len(string)
            BY <1>4, <1>5, <2>3, <2>4
        <3>2. bytes[k] = byte
            BY <2>1, <2>4, <3>1
        <3>3. ByteAt(mpos + k) = byte
            <4>1. CASE part = "head"
                BY <1>2, <1>3, <1>4, <2>1, <3>1, <4>1 DEF ByteAt, end, byte
            <4>2. CASE part = "tail"
                BY <1>2, <1>3, <1>4, <4>2 DEF ByteAt, F, byte
            <4> QED
                BY <1>2, <1>7, <4>1, <4>2 DEF Parts
        <3> QED
            BY <3>2, <3>3 DEF Fits
    <2> QED
        BY <1>5, <2>4, <2>5, <2>6
<1> QED
    BY <1>6, <1>7

LEMMA ReadPartKeeps == ASSUME Sane, BodyInv, ReadPart PROVE BodyInv'
<1> DEFINE part  == streams[cur + 1]
           end   == sizes[cur + 1]
           bytes == PartBytes(part, at[part], Wanted)
           given == IF bytes = <<>> THEN Zeros(Padding) ELSE bytes
           moved == [at EXCEPT ![part] = @ + Len(bytes)]
           over  == mpos + Len(given) >= end
<1>1. /\ pc = "reading" /\ done < asked /\ cur < Len(streams)
      /\ out' = out \o given /\ done' = done + Len(given) /\ mpos' = mpos + Len(given)
      /\ cur' = (IF over THEN cur + 1 ELSE cur)
      /\ at' = (IF over THEN NextPart(moved) ELSE moved)
      /\ UNCHANGED <<file, changes, pc, declared, streams, sizes, asked, from, fixed, cut, touched>>
    BY DEF ReadPart
<1>2. /\ bytes \in Seq(Bytes) /\ Len(bytes) <= Wanted
      /\ \A k \in 1..Len(bytes) : Fits(bytes[k], mpos + k)
      /\ bytes = <<>> /\ Wanted > 0 => part = "file" /\ cut
    BY <1>1, PartReads
<1>3. /\ cur \in 0..(Len(streams) - 1) /\ Len(streams) \in {2, 3} /\ part \in Parts
      /\ StartOf(cur) \in Nat /\ end \in Nat
      /\ StartOf(cur) <= end /\ end <= Length /\ Length \in Nat
      /\ part = "file" => StartOf(cur) = HeadSize /\ end = HeadSize + Len(fixed)
      /\ cur + 1 < Len(streams) =>
            StartOf(cur + 1) = end /\ streams[cur + 2] \in Parts /\ sizes[cur + 2] \in Nat
            /\ end <= sizes[cur + 2]
      /\ cur + 1 = Len(streams) => end = Length
    <2>1. cur \in 0..(Len(streams) - 1) /\ Len(streams) \in {2, 3} /\ Length \in Nat
        BY <1>1, Layout DEF BodyInv, PlaceInv
    <2>2. cur + 1 < Len(streams) =>
            StartOf(cur + 1) = end /\ streams[cur + 2] \in Parts /\ sizes[cur + 2] \in Nat
            /\ StartOf(cur + 1) <= sizes[cur + 2]
        <3>1. SUFFICES ASSUME cur + 1 < Len(streams)
                       PROVE  /\ StartOf(cur + 1) = end /\ streams[cur + 2] \in Parts
                              /\ sizes[cur + 2] \in Nat /\ StartOf(cur + 1) <= sizes[cur + 2]
            OBVIOUS
        <3>2. cur + 1 \in 0..(Len(streams) - 1) /\ (cur + 1) + 1 = cur + 2
            BY <2>1, <3>1
        <3>3. /\ streams[(cur + 1) + 1] \in Parts /\ sizes[(cur + 1) + 1] \in Nat
              /\ StartOf(cur + 1) <= sizes[(cur + 1) + 1]
            BY <1>1, <3>2, Layout
        <3>4. StartOf(cur + 1) = end
            BY <1>1, <2>1, <3>1, Layout
        <3> QED
            BY <3>2, <3>3, <3>4
    <2>3. /\ part \in Parts /\ StartOf(cur) \in Nat /\ end \in Nat
          /\ StartOf(cur) <= end /\ end <= Length
          /\ part = "file" => StartOf(cur) = HeadSize /\ end = HeadSize + Len(fixed)
          /\ cur + 1 = Len(streams) => end = Length
        BY <1>1, <2>1, Layout
    <2> QED
        BY <2>1, <2>2, <2>3
<1>4. mpos \in Nat /\ StartOf(cur) <= mpos /\ mpos <= end /\ at[part] = mpos - StartOf(cur)
    BY <1>1, <1>3 DEF BodyInv, PlaceInv
<1>5. /\ Wanted \in Nat /\ Wanted <= end - mpos /\ Wanted <= asked - done
      /\ Padding = end - mpos /\ (Wanted = 0 => Padding = 0)
      /\ asked \in Nat /\ done \in Nat
    <2>1. asked \in Nat /\ done \in Nat
        BY DEF BodyInv, Types, Sane
    <2>2. end - mpos \in Nat /\ asked - done \in Nat /\ asked - done # 0
        <3>1. end \in Nat /\ mpos \in Nat /\ mpos <= end
            BY <1>3, <1>4
        <3>2. done < asked
            BY <1>1
        <3> HIDE DEF end
        <3> QED
            BY <2>1, <3>1, <3>2
    <2>3. Wanted = Lesser(asked - done, end - mpos) /\ Padding = end - mpos
        BY DEF Wanted, Padding
    <2> HIDE DEF end
    <2> QED
        BY <2>1, <2>2, <2>3 DEF Lesser
<1> HIDE DEF bytes
<1>6. /\ given \in Seq(Bytes) /\ Len(given) \in Nat /\ Len(given) <= end - mpos
      /\ \A k \in 1..Len(given) : Fits(given[k], mpos + k)
      /\ bytes = <<>> => Len(given) = end - mpos
      /\ done + Len(given) > asked => cut
    <2>1. CASE bytes # <<>>
        <3>1. given = bytes
            BY <2>1
        <3>2. Len(bytes) \in Nat /\ Len(bytes) <= Wanted
            BY <1>2
        <3>3. Len(bytes) <= end - mpos /\ ~(done + Len(bytes) > asked)
            <4>1. end \in Nat /\ mpos \in Nat
                BY <1>3, <1>4
            <4> HIDE DEF end
            <4> QED
                BY <1>5, <3>2, <4>1
        <3> HIDE DEF given, end
        <3> QED
            BY <1>2, <2>1, <3>1, <3>2, <3>3
    <2>2. CASE bytes = <<>>
        <3>1. given = [k \in 1..Padding |-> Zero] /\ Padding \in Nat
            <4>1. end \in Nat /\ mpos \in Nat /\ mpos <= end
                BY <1>3, <1>4
            <4>2. given = [k \in 1..Padding |-> Zero]
                BY <2>2 DEF Zeros
            <4> HIDE DEF end, given
            <4> QED
                BY <1>5, <4>1, <4>2
        <3>2. given \in Seq(Bytes) /\ Len(given) = Padding
            BY <3>1 DEF Bytes
        <3>3. ASSUME NEW k \in 1..Len(given)
              PROVE  Fits(given[k], mpos + k) /\ cut
            <4>1. part = "file" /\ cut /\ given[k] = Zero
                BY <1>2, <1>5, <2>2, <3>1, <3>2
            <4>2. mpos + k \in (HeadSize + 1)..(HeadSize + Len(fixed))
                <5>1. HeadSize \in Nat /\ Len(fixed) \in Nat
                    BY FileFacts DEF Sane, BodyInv, Types
                <5>2. /\ k \in Nat /\ k >= 1 /\ k <= end - mpos /\ mpos \in Nat
                      /\ HeadSize <= mpos /\ end = HeadSize + Len(fixed)
                    BY <1>3, <1>4, <1>5, <3>2, <4>1
                <5> QED
                    BY <5>1, <5>2
            <4> QED
                BY <4>1, <4>2 DEF Fits
        <3>4. done + Len(given) > asked => cut
            BY <1>1, <1>2, <1>4, <1>5, <2>2, <3>2
        <3> QED
            BY <1>5, <3>1, <3>2, <3>3, <3>4
    <2> QED
        BY <2>1, <2>2
<1> HIDE DEF given
<1>7. moved \in [Parts -> Nat] /\ moved[part] = at[part] + Len(bytes) /\ Len(bytes) \in Nat
    BY <1>2, <1>3 DEF BodyInv, Types
<1> HIDE DEF moved
<1>8. Types'
    <2>1. NextPart(moved) \in [Parts -> Nat]
        BY <1>3, <1>7 DEF NextPart
    <2>2. out \o given \in Seq(Bytes) /\ done + Len(given) \in Nat
        BY <1>5, <1>6 DEF BodyInv, Types
    <2>3. at' \in [Parts -> Nat]
        BY <1>1, <1>7, <2>1
    <2> QED
        BY <1>1, <2>2, <2>3 DEF BodyInv, Types
<1>9. FileInv' /\ EmptyInv' /\ CountInv'
    BY <1>1, <1>6 DEF BodyInv, FileInv, EmptyInv, CountInv
<1>10. PlaceInv'
    <2>1. Length' = Length /\ streams' = streams /\ sizes' = sizes /\ fixed' = fixed
        BY <1>1 DEF Length
    <2>2. CASE over
        <3>1. mpos' = end /\ cur' = cur + 1 /\ at' = NextPart(moved)
            <4>1. mpos + Len(given) >= end /\ end \in Nat
                BY <1>3, <2>2
            <4>2. mpos' = mpos + Len(given) /\ cur' = cur + 1 /\ at' = NextPart(moved)
                BY <1>1, <2>2
            <4> HIDE DEF end
            <4> QED
                BY <1>4, <1>6, <4>1, <4>2
        <3>2. CASE cur + 1 = Len(streams)
            BY <1>1, <1>3, <2>1, <3>1, <3>2 DEF BodyInv, PlaceInv
        <3>3. CASE cur + 1 # Len(streams)
            <4>1. /\ cur + 1 < Len(streams) /\ cur' \in 0..Len(streams) /\ cur' # Len(streams)
                  /\ cur' + 1 = cur + 2
                BY <1>3, <3>1, <3>3
            <4>2. StartOf(cur)' = end
                BY <1>3, <2>1, <3>1, <4>1 DEF StartOf
            <4>3. at'[streams[cur + 2]] = 0
                BY <1>3, <1>7, <3>1, <4>1 DEF NextPart
            <4>4. mpos' \in StartOf(cur)'..sizes[cur + 2] /\ mpos' - StartOf(cur)' = 0
                BY <1>3, <3>1, <4>1, <4>2
            <4> QED
                BY <1>1, <2>1, <4>1, <4>3, <4>4 DEF BodyInv, PlaceInv
        <3> QED
            BY <3>2, <3>3
    <2>3. CASE ~over
        <3>1. cur' = cur /\ at' = moved /\ Len(given) = Len(bytes)
            BY <1>1, <1>3, <1>4, <1>6, <2>3, SMTT(30) DEF given
        <3>2. StartOf(cur)' = StartOf(cur)
            BY <2>1, <3>1 DEF StartOf
        <3>3. at'[part] = mpos' - StartOf(cur) /\ mpos' \in StartOf(cur)..end
            <4>1. at'[part] = (mpos - StartOf(cur)) + Len(given) /\ mpos' = mpos + Len(given)
                BY <1>1, <1>4, <1>7, <3>1
            <4>2. ~(mpos + Len(given) >= end) /\ StartOf(cur) \in Nat /\ end \in Nat
                BY <1>3, <2>3
            <4>3. mpos \in Nat /\ StartOf(cur) <= mpos /\ Len(given) \in Nat
                BY <1>4, <1>6
            <4> HIDE DEF part, end
            <4> QED
                BY <4>1, <4>2, <4>3
        <3> QED
            BY <1>1, <1>3, <2>1, <3>1, <3>2, <3>3 DEF BodyInv, PlaceInv
    <2> QED
        BY <2>2, <2>3
<1>11. OutInv'
    <2>1. /\ from \in Nat /\ from <= mpos /\ Len(out) = mpos - from /\ out \in Seq(Bytes)
          /\ \A k \in 1..Len(out) : Fits(out[k], from + k)
        BY DEF BodyInv, OutInv, Types
    <2>2. /\ Len(out') = Len(out) + Len(given)
          /\ \A k \in 1..Len(out') :
                out'[k] = IF k <= Len(out) THEN out[k] ELSE given[k - Len(out)]
        <3>1. out' = out \o given
            BY <1>1
        <3> QED
            BY <1>6, <2>1, <3>1
    <2>3. ASSUME NEW k \in 1..Len(out') PROVE Fits(out'[k], from + k)
        <3>1. CASE k <= Len(out)
            BY <1>4, <2>1, <2>2, <3>1
        <3>2. CASE ~(k <= Len(out))
            <4>1. k - Len(out) \in 1..Len(given) /\ mpos + (k - Len(out)) = from + k
                BY <1>4, <1>6, <2>1, <2>2, <3>2
            <4>2. out'[k] = given[k - Len(out)]
                BY <2>2, <3>2
            <4>3. Fits(given[k - Len(out)], mpos + (k - Len(out)))
                BY <1>6, <4>1
            <4> QED
                BY <4>1, <4>2, <4>3
        <3> QED
            BY <3>1, <3>2
    <2>5. \A k \in 1..Len(out') : Fits(out[k], from + k)'
        BY <1>1, <2>3 DEF Fits, ByteAt
    <2>6. Length' = Length /\ from' = from
        BY <1>1 DEF Length
    <2>7. mpos' \in Nat /\ from <= mpos' /\ mpos' <= Length /\ Len(out') = mpos' - from
        <3>1. mpos' = mpos + Len(given) /\ Len(given) \in Nat /\ Len(given) <= end - mpos
            BY <1>1, <1>6
        <3>2. end \in Nat /\ end <= Length /\ Length \in Nat /\ mpos \in Nat
            BY <1>3, <1>4
        <3> HIDE DEF end
        <3> QED
            BY <2>1, <2>2, <3>1, <3>2
    <2> QED
        BY <2>1, <2>5, <2>6, <2>7 DEF OutInv
<1> QED
    BY <1>8, <1>9, <1>10, <1>11 DEF BodyInv

LEMMA ReadKeeps ==
    ASSUME Sane, BodyInv, ReadReturns \/ (\E n \in Asks : Read(n))
    PROVE  BodyInv'
<1>1. CASE ReadReturns
    <2>1. /\ pc = "reading" /\ pc' \in {"ready", "failed"}
          /\ UNCHANGED <<file, changes, declared, stream, call, past>>
        BY <1>1 DEF ReadReturns
    <2> QED
        BY <2>1 DEF stream, call, past, BodyInv, Types, FileInv, EmptyInv, PlaceInv, OutInv,
                    CountInv, StartOf, Length, Fits, ByteAt
<1>2. ASSUME NEW n \in Asks, Read(n) PROVE BodyInv'
    <2>1. /\ pc = "ready" /\ pc' = "reading" /\ asked' = n /\ done' = 0
          /\ UNCHANGED <<file, changes, declared, stream, past>>
        BY <1>2 DEF Read
    <2> QED
        BY <2>1 DEF stream, past, BodyInv, Types, FileInv, EmptyInv, PlaceInv, OutInv,
                    CountInv, StartOf, Length, Fits, ByteAt, Sane
<1> QED
    BY <1>1, <1>2

LEMMA BodyInit == ASSUME Sane PROVE Init => BodyInv
<1> SUFFICES ASSUME Init PROVE BodyInv
    OBVIOUS
<1>1. PICK n \in 0..MaxSize : file = [i \in 1..n |-> Old]
    BY DEF Init
<1>2. file \in Files /\ <<>> \in Files
    <2>1. file \in Seq({Old, New}) /\ Len(file) <= MaxSize
        BY <1>1 DEF Sane
    <2>2. <<>> \in Seq({Old, New}) /\ Len(<<>>) <= MaxSize
        BY DEF Sane
    <2>3. file \in Files
        BY <2>1, FilesAre
    <2>4. <<>> \in Files
        BY <2>2, FilesAre
    <2> QED
        BY <2>3, <2>4
<1>3. /\ changes = 0 /\ pc = "closed" /\ declared = 0
      /\ streams = <<>> /\ sizes = <<>> /\ cur = 0 /\ mpos = 0 /\ at = Start
      /\ asked = 0 /\ done = 0
      /\ out = <<>> /\ from = 0 /\ fixed = <<>> /\ cut = FALSE /\ touched = FALSE
    BY DEF Init
<1>4. Types
    <2>1. Start \in [Parts -> Nat]
        BY DEF Start, Parts
    <2>2. 0 \in 0..MaxSize /\ 0 \in 0..MaxChanges /\ <<>> \in Seq(Bytes)
        BY DEF Sane
    <2> QED
        BY <1>2, <1>3, <2>1, <2>2 DEF Types
<1>5. FileInv
    <2>1. Len(fixed) = 0 /\ Len(file) \in Nat
        BY <1>2, <1>3, FileFacts
    <2> QED
        BY <2>1 DEF FileInv
<1>6. EmptyInv /\ PlaceInv /\ OutInv /\ CountInv
    BY <1>3 DEF EmptyInv, PlaceInv, OutInv, CountInv, stream, Length, Sane
<1> QED
    BY <1>4, <1>5, <1>6 DEF BodyInv

LEMMA BodyNext == ASSUME Sane PROVE BodyInv /\ [Next]_vars => BodyInv'
<1> SUFFICES ASSUME BodyInv, [Next]_vars PROVE BodyInv'
    OBVIOUS
<1>1. CASE User
    BY <1>1, UserKeeps
<1>2. CASE OpenFile \/ AppendParts \/ Close
    BY <1>2, OpensAndCloses
<1>3. CASE \E o \in Offsets : Seek(o)
    BY <1>3, SeekKeeps DEF Sane
<1>4. CASE ReadReturns \/ (\E n \in Asks : Read(n))
    BY <1>4, ReadKeeps
<1>5. CASE ReadPart
    BY <1>5, ReadPartKeeps
<1>6. CASE UNCHANGED vars
    BY <1>6 DEF vars, stream, call, past, BodyInv, Types, FileInv, EmptyInv, PlaceInv, OutInv,
                CountInv, StartOf, Length, Fits, ByteAt
<1> QED
    BY <1>1, <1>2, <1>3, <1>4, <1>5, <1>6 DEF Next, Reading

-----------------------------------------------------------------------------
(* What the invariant says of the body.                                     *)

LEMMA BodyTypes == ASSUME Sane, BodyInv PROVE TypeOK
<1>1. CASE pc \in {"closed", "open"}
    <2>1. /\ streams = <<>> /\ sizes = <<>> /\ cur = 0 /\ mpos = 0
        BY <1>1 DEF BodyInv, EmptyInv, stream
    <2>2. Size = 0
        BY <2>1 DEF Size
    <2> QED
        BY <2>1, <2>2 DEF BodyInv, Types, OutInv, TypeOK
<1>2. CASE pc \notin {"closed", "open"}
    <2>1. Size = Length /\ Len(sizes) = Len(streams) /\ Length \in Nat
        BY <1>2, Layout
    <2>2. streams \in {<<>>, <<"head", "tail">>, <<"head", "file", "tail">>}
        BY <1>2 DEF BodyInv, PlaceInv, Append3
    <2>3. cur \in 0..Len(streams) /\ mpos \in 0..Size
        BY <1>2, <2>1 DEF BodyInv, PlaceInv, OutInv
    <2> QED
        BY <2>1, <2>2, <2>3 DEF BodyInv, Types, OutInv, TypeOK
<1> QED
    BY <1>1, <1>2

LEMMA BodyInPlace == ASSUME Sane, BodyInv PROVE InPlace
<1>1. /\ fixed \in Files /\ from \in Nat /\ from <= Length /\ mpos \in Nat /\ mpos <= Length
      /\ from <= mpos /\ Len(out) = mpos - from /\ out \in Seq(Bytes)
      /\ \A i \in 1..Len(out) : Fits(out[i], from + i)
    <2>1. Length \in Nat
        BY FileFacts DEF BodyInv, Types, Length, Sane
    <2> QED
        BY <2>1 DEF BodyInv, Types, OutInv
<1>2. Length \in Nat /\ HeadSize \in Nat /\ Len(fixed) \in Nat
    BY FileFacts DEF BodyInv, Types, Length, Sane
<1>3. /\ Len(Rest) = Length - from
      /\ \A i \in 1..(Length - from) : Rest[i] = ByteAt(from + i)
    BY <1>1, RestBytes
<1>4. ASSUME NEW i \in DOMAIN out
      PROVE  /\ i <= Len(Rest)
             /\ out[i] # Rest[i] =>
                    Rest[i] \in {Old, New} /\ (out[i] = New \/ (out[i] = Zero /\ cut))
    <2>1. i \in 1..Len(out) /\ i \in 1..(Length - from)
        BY <1>1, <1>2
    <2>2. i <= Len(Rest) /\ Rest[i] = ByteAt(from + i) /\ Fits(out[i], from + i)
        BY <1>1, <1>2, <1>3, <2>1, SMTT(30)
    <2>3. ASSUME from + i \in (HeadSize + 1)..(HeadSize + Len(fixed))
          PROVE  ByteAt(from + i) \in {Old, New}
        <3>1. (from + i) - HeadSize \in 1..Len(fixed)
            <4>1. from \in Nat /\ i \in Nat
                BY <1>1, <2>1
            <4> QED
                BY <1>2, <2>3, <4>1
        <3>2. ByteAt(from + i) = fixed[(from + i) - HeadSize]
            BY <1>1, <1>2, <2>1, <2>3 DEF ByteAt
        <3> QED
            BY <1>1, <3>1, <3>2, FileFacts
    <2> QED
        BY <2>2, <2>3 DEF Fits
<1> QED
    BY <1>4 DEF InPlace

\* What the agent gets is the body that was announced, for any sizes of its parts,
\* any changes of the file and any order of reads and seeks: the types, every byte
\* in its place, the length, and no more than was asked for (ConcatStream::Read, Seek).
THEOREM BodyIsAnnounced ==
    ASSUME Sane PROVE Spec => [](TypeOK /\ InPlace /\ LengthKept /\ ReadBounded)
<1>1. BodyInv => TypeOK /\ InPlace
    BY BodyTypes, BodyInPlace
<1>2. BodyInv => LengthKept
    <2> SUFFICES ASSUME BodyInv, pc = "ready", cur = Len(streams)
                 PROVE  Len(out) = Size - from
        BY DEF LengthKept
    <2>1. Size = Length
        BY Layout
    <2> QED
        BY <2>1 DEF BodyInv, PlaceInv, OutInv
<1>3. BodyInv => ReadBounded
    <2> SUFFICES ASSUME BodyInv, pc = "ready", ~touched
                 PROVE  declared = Size - HeadSize - TailSize
        BY DEF ReadBounded, BodyInv, CountInv
    <2>1. Size = Length /\ Len(fixed) \in Nat
        BY Layout
    <2>2. declared = Len(fixed)
        BY DEF BodyInv, CountInv
    <2> QED
        BY <2>1, <2>2 DEF Length, Sane
<1> QED
    BY <1>1, <1>2, <1>3, BodyInit, BodyNext, PTL DEF Spec
=============================================================================
