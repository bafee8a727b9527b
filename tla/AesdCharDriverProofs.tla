------------------------ MODULE AesdCharDriverProofs ------------------------
(***************************************************************************)
(* What the runs of MCAesdCharDriver check for two threads, one file and a *)
(* ring of two entries, for any number of threads, files and entries and   *)
(* any writes.                                                             *)
(***************************************************************************)
EXTENDS AesdCharDriver, SequenceLemmas

\* The facts about the ring, for a ring of lines over Bytes.
R == INSTANCE CircularBufferProofs WITH Lines <- Seq(Bytes)

-----------------------------------------------------------------------------
(* The inductive invariant *)

ReadCalls == [op : {"read"}, at : {"lock", "locked"}, filp : Files, pos : Nat, count : Nat \ {0}]

CopyCalls ==
  [op : {"read"}, at : {"copy"}, filp : Files, pos : Nat, count : Nat \ {0},
   found : [slot : 0 .. N - 1, offset : Nat]]

WriteCalls ==
  [op : {"write"}, at : {"lock", "locked", "dead"}, filp : Files, pos : Nat, count : Nat, rest : Seq(Bytes)]

LlseekCalls ==
  [op : {"llseek"}, at : {"lock", "locked"}, filp : Files, offset : Int,
   whence : {"SEEK_SET", "SEEK_CUR", "SEEK_END"}]

IoctlCalls ==
  [op : {"ioctl"}, at : {"lock", "locked"}, filp : Files, write_cmd : 0 .. N - 1, write_cmd_offset : Nat]

Results ==
  [op : {"read", "write"}, at : {"return"}, filp : Files, pos : Nat, count : Nat, ret : Int, data : Seq(Bytes)]

Calls == ReadCalls \cup CopyCalls \cup WriteCalls \cup LlseekCalls \cup IoctlCalls \cup Results

\* A thread is in a call on an open file, or in none.
CallsAreCalls ==
  /\ call \in [Procs -> Calls \cup {NoCall}]
  /\ \A p \in Procs : call[p] # NoCall => call[p].filp \in opened

IsReader(c) == c.at \in {"locked", "copy"} /\ c.op = "read"

IsWriter(c) == c.at \in {"locked", "dead"} /\ c.op # "read"

\* The semaphore is held by the threads between their down and their up, and by one
\* writer or any number of readers.
SemaphoreIsHeld ==
  /\ rwsem \in [readers : SUBSET Procs, writer : Procs \cup {NULL}]
  /\ \A p \in Procs : p \in rwsem.readers <=> IsReader(call[p])
  /\ \A p \in Procs : rwsem.writer = p <=> IsWriter(call[p])
  /\ rwsem.writer # NULL => rwsem.readers = {}

\* What is left of a write begins a line of its own, unless it is all of the buffer.
IsRest(rest) ==
  \E buf \in Writes : \E i \in 1 .. Len(buf) :
    rest = SubSeq(buf, i, Len(buf)) /\ (i = 1 \/ buf[i - 1] = NL)

WritesHaveRests ==
  \A p \in Procs :
    call[p].at \in {"lock", "locked"} /\ call[p].op = "write" => IsRest(call[p].rest)

\* A thread that found its position in the ring copies from there.
CopiesHaveFound ==
  \A p \in Procs :
    call[p].at = "copy" =>
      /\ call[p].pos < Len(R!Concatenation)
      /\ R!HasBytesFrom(call[p].found.slot, call[p].found.offset, call[p].pos)

NobodyDied == \A p \in Procs : call[p].at # "dead"

IInv ==
  /\ Ring!TypeOK
  /\ cache \in Ring!Entry
  /\ opened \subseteq Files
  /\ f_pos \in [Files -> Nat]
  /\ calls \in 0 .. MaxCalls
  /\ CallsAreCalls
  /\ SemaphoreIsHeld
  /\ WritesHaveRests
  /\ LinesAreWhole
  /\ NobodyDied => R!IInv /\ CopiesHaveFound
  /\ "ring" \notin Failing => NobodyDied

-----------------------------------------------------------------------------
(* The ring of the driver is a ring of CircularBufferProofs *)

LEMMA RingBytes == R!Bytes = Bytes
  <1>1. ASSUME NEW byte \in Bytes
        PROVE  byte \in R!Bytes
    <2> DEFINE line == [i \in 1 .. 1 |-> byte]
    <2>1. line \in Seq(Bytes) /\ DOMAIN line = 1 .. 1 /\ line[1] = byte
      OBVIOUS
    <2> HIDE DEF line
    <2>2. byte \in Range(line)
      BY <2>1 DEF Range
    <2>3. QED
      BY <2>1, <2>2 DEF R!Bytes, R!Range, Range
  <1>2. ASSUME NEW line \in Seq(Bytes), NEW byte \in Range(line)
        PROVE  byte \in Bytes
    <2>1. PICK i \in 1 .. Len(line) : line[i] = byte
      BY <1>2 DEF Range
    <2>2. QED
      BY <2>1, ElementOfSeq
  <1>3. QED
    BY <1>1, <1>2 DEF R!Bytes, R!Range, Range

LEMMA RingAssumptions ==
  /\ N \in 1 .. 255
  /\ Seq(Bytes) \subseteq Seq(R!Bytes) /\ NULL \notin Seq(Bytes) \cup [slot : Nat, offset : Nat]
  BY DriverAssumption, RingBytes

LEMMA RingTypes ==
  /\ Ring!NoEntry = R!NoEntry
  /\ Ring!Entry = R!Entry
  /\ Ring!TypeOK <=> R!TypeOK
  BY DEF Ring!NoEntry, R!NoEntry, Ring!Entry, R!Entry, Ring!TypeOK, R!TypeOK, Ring!Slots, R!Slots

LEMMA RingAdds ==
  ASSUME NEW line
  PROVE  Ring!AddEntry(line) <=> R!AddEntry(line)
  BY DEF Ring!AddEntry, R!AddEntry, Ring!AdvanceOffsets, R!AdvanceOffsets, Ring!WriteSlot, R!WriteSlot,
     Ring!FullAfter, R!FullAfter, Ring!Advance, R!Advance, Ring!Stored, R!Stored,
     Ring!NeedsAllocation, R!NeedsAllocation

LEMMA RingStarts ==
  ASSUME NEW k
  PROVE  /\ Ring!At(k) = R!At(k)
         /\ Ring!StartOf(k) = R!StartOf(k)
         /\ Ring!ArrayStart(k) = R!ArrayStart(k)
  <1>1. \A j : Ring!At(j) = R!At(j)
    BY DEF Ring!At, R!At
  <1>2. \A sizes : Ring!SumBefore(sizes, k) = R!SumBefore(sizes, k)
    BY Zenon DEF Ring!SumBefore, R!SumBefore
  <1>3. Ring!Slots = R!Slots
    BY DEF Ring!Slots, R!Slots
  <1>4. [j \in Ring!Slots |-> entry[Ring!At(j)].size] = [j \in R!Slots |-> entry[R!At(j)].size]
    BY <1>1, <1>3, Zenon
  <1>5. QED
    BY <1>1, <1>2, <1>3, <1>4, Zenon DEF Ring!StartOf, R!StartOf, Ring!ArrayStart, R!ArrayStart

LEMMA RingFinds ==
  ASSUME NEW char_offset
  PROVE  Ring!FindEntryOffset(char_offset) = R!FindEntryOffset(char_offset)
  <1>1. Ring!Matches(char_offset) = R!Matches(char_offset)
    BY RingStarts DEF Ring!Matches, R!Matches, Ring!Slots, R!Slots
  <1>2. Ring!Min(Ring!Matches(char_offset)) = R!Min(R!Matches(char_offset))
    BY <1>1, Zenon DEF Ring!Min, R!Min
  <1>3. QED
    BY <1>1, <1>2, RingStarts, Zenon DEF Ring!FindEntryOffset, R!FindEntryOffset

LEMMA RingContents ==
  /\ Ring!Contents = R!Contents
  /\ Ring!TotalSize = R!TotalSize
  /\ Kept = R!Concatenation
  <1>1. Ring!Count = R!Count
    BY DEF Ring!Count, R!Count
  <1>2. Ring!Contents = R!Contents
    BY <1>1, RingStarts, Zenon DEF Ring!Contents, R!Contents
  <1>3. Kept = R!Concatenation
    <2>1. ASSUME NEW seqs
          PROVE  FlattenSeq(seqs) = R!FlattenSeq(seqs)
      BY Zenon DEF FlattenSeq, R!FlattenSeq
    <2>2. QED
      BY <1>2, <2>1, Zenon DEF Kept, R!Concatenation
  <1>4. QED
    BY <1>2, <1>3, RingStarts DEF Ring!TotalSize, R!TotalSize

LEMMA AddKeepsRing ==
  ASSUME R!IInv, NEW line \in Seq(Bytes), Ring!AddEntry(line)
  PROVE  R!IInv'
  BY RingAssumptions, RingAdds, R!NextIInv DEF R!Next

-----------------------------------------------------------------------------
(* Pieces *)

\* Strings that are not empty.
Strings == {s \in Seq(Bytes) : Len(s) > 0}

\* The first n bytes of rest are its first line, or all of it.
IsCut(rest, n) ==
  /\ n \in 1 .. Len(rest)
  /\ \A i \in 1 .. n - 1 : rest[i] # NL
  /\ n = Len(rest) \/ rest[n] = NL

LEMMA SubStrings ==
  ASSUME NEW s \in Seq(Bytes), NEW i \in 1 .. Len(s) + 1, NEW j \in i - 1 .. Len(s)
  PROVE  /\ SubSeq(s, i, j) \in Seq(Bytes)
         /\ Len(SubSeq(s, i, j)) = j - i + 1
         /\ \A k \in 1 .. j - i + 1 : SubSeq(s, i, j)[k] = s[i + k - 1]
  <1>1. \A k \in i .. j : s[k] \in Bytes
    BY ElementOfSeq
  <1>2. /\ SubSeq(s, i, j) \in Seq(Bytes)
        /\ Len(SubSeq(s, i, j)) = IF i <= j THEN j - i + 1 ELSE 0
        /\ \A k \in 1 .. j - i + 1 : SubSeq(s, i, j)[k] = s[i + k - 1]
    BY <1>1, SubSeqProperties
  <1>3. Len(SubSeq(s, i, j)) = j - i + 1
    BY <1>2
  <1>4. QED
    BY <1>2, <1>3

LEMMA CutExists ==
  ASSUME NEW rest \in Strings
  PROVE  \E n \in 1 .. Len(rest) : IsCut(rest, n) /\ NextPiece(rest) = SubSeq(rest, 1, n)
  <1> DEFINE newlines == {i \in 1 .. Len(rest) : rest[i] = NL}
             newline == SelectInSeq(rest, LAMBDA byte : byte = NL)
  <1>1. newline = IF newlines # {} THEN Min(newlines) ELSE 0
    BY DEF SelectInSeq
  <1>2. NextPiece(rest) = IF newline = 0 THEN rest ELSE SubSeq(rest, 1, newline)
    BY DEF NextPiece
  <1>3. rest \in Seq(Bytes) /\ Len(rest) \in Nat /\ Len(rest) > 0
    BY DEF Strings
  <1> HIDE DEF newline
  <1>4. CASE newlines = {}
    <2>1. SubSeq(rest, 1, Len(rest)) = rest
      BY <1>3, SubSeqFull
    <2>2. \A i \in 1 .. Len(rest) : rest[i] # NL
      BY <1>4
    <2>3. IsCut(rest, Len(rest))
      BY <1>3, <2>2 DEF IsCut
    <2>4. NextPiece(rest) = rest
      BY <1>1, <1>2, <1>4
    <2>5. Len(rest) \in 1 .. Len(rest) /\ NextPiece(rest) = SubSeq(rest, 1, Len(rest))
      BY <1>3, <2>1, <2>4
    <2>6. QED
      BY <2>3, <2>5, Zenon
  <1>5. CASE newlines # {}
    <2>1. newlines \in SUBSET Nat
      BY <1>3
    <2>2. newline \in newlines /\ \A i \in newlines : newline <= i
      <3> HIDE DEF newlines
      <3>1. QED
        BY <1>1, <1>5, <2>1, MinIsMember
    <2>3. newline \in 1 .. Len(rest) /\ rest[newline] = NL /\ newline # 0
      BY <1>3, <2>2
    <2>4. \A i \in 1 .. newline - 1 : rest[i] # NL
      BY <1>3, <2>2
    <2>5. IsCut(rest, newline)
      BY <2>3, <2>4 DEF IsCut
    <2>6. NextPiece(rest) = SubSeq(rest, 1, newline)
      BY <1>2, <2>3
    <2>7. QED
      BY <2>3, <2>5, <2>6
  <1>6. QED
    BY <1>4, <1>5

\* piece is a part of a line, with the newline only at its end.
IsPieceOfLine(piece) ==
  piece \in Strings /\ \A i \in 1 .. Len(piece) - 1 : piece[i] # NL

LEMMA NextPieceProperties ==
  ASSUME NEW rest \in Strings
  PROVE  /\ IsPieceOfLine(NextPiece(rest))
         /\ IsCut(rest, Len(NextPiece(rest)))
         /\ NextPiece(rest) = SubSeq(rest, 1, Len(NextPiece(rest)))
  <1>1. PICK n \in 1 .. Len(rest) : IsCut(rest, n) /\ NextPiece(rest) = SubSeq(rest, 1, n)
    BY CutExists
  <1>2. rest \in Seq(Bytes) /\ Len(rest) \in Nat
    BY DEF Strings
  <1> DEFINE piece == SubSeq(rest, 1, n)
  <1>3. piece \in Seq(Bytes) /\ Len(piece) = n /\ \A i \in 1 .. n : piece[i] = rest[i]
    <2>1. 1 \in 1 .. Len(rest) + 1 /\ n \in 1 - 1 .. Len(rest) /\ n - 1 + 1 = n
      BY <1>2
    <2>2. /\ piece \in Seq(Bytes) /\ Len(piece) = n - 1 + 1
          /\ \A k \in 1 .. n - 1 + 1 : piece[k] = rest[1 + k - 1]
      BY <1>2, <2>1, SubStrings
    <2> HIDE DEF piece
    <2>3. QED
      BY <2>1, <2>2
  <1> HIDE DEF piece
  <1>4. IsPieceOfLine(piece)
    BY <1>1, <1>2, <1>3 DEF IsPieceOfLine, Strings, IsCut
  <1>5. QED
    BY <1>1, <1>3, <1>4 DEF piece

\* What is left of a rest after its first piece.
AfterPiece(rest) == SubSeq(rest, Len(NextPiece(rest)) + 1, Len(rest))

LEMMA RestIsString ==
  ASSUME NEW rest, IsRest(rest)
  PROVE  rest \in Strings
  <1>0. PICK buf \in Writes : \E i \in 1 .. Len(buf) : rest = SubSeq(buf, i, Len(buf))
    BY DEF IsRest
  <1>1. PICK i \in 1 .. Len(buf) : rest = SubSeq(buf, i, Len(buf))
    BY <1>0
  <1>2. buf \in Seq(Bytes) /\ Len(buf) \in Nat
    BY DriverAssumption
  <1>3. i \in 1 .. Len(buf) + 1 /\ Len(buf) \in i - 1 .. Len(buf)
    BY <1>2
  <1>4. rest \in Seq(Bytes) /\ Len(rest) = Len(buf) - i + 1
    BY <1>1, <1>2, <1>3, SubStrings
  <1>5. QED
    BY <1>2, <1>4 DEF Strings

LEMMA NextRest ==
  ASSUME NEW rest, IsRest(rest)
  PROVE  AfterPiece(rest) # << >> => IsRest(AfterPiece(rest))
  <1>0. PICK buf \in Writes :
          \E i \in 1 .. Len(buf) : rest = SubSeq(buf, i, Len(buf)) /\ (i = 1 \/ buf[i - 1] = NL)
    BY DEF IsRest
  <1>1. PICK i \in 1 .. Len(buf) : rest = SubSeq(buf, i, Len(buf)) /\ (i = 1 \/ buf[i - 1] = NL)
    BY <1>0
  <1> DEFINE piece == NextPiece(rest)
             n == Len(piece)
             last == Len(buf)
  <1>2. buf \in Seq(Bytes) /\ last \in Nat
    BY DriverAssumption
  <1>3. rest \in Strings
    BY RestIsString
  <1>4. IsCut(rest, n) /\ piece = SubSeq(rest, 1, n)
    BY <1>3, NextPieceProperties
  <1>5. Len(rest) = last - i + 1 /\ \A k \in 1 .. last - i + 1 : rest[k] = buf[i + k - 1]
    <2>1. i \in 1 .. Len(buf) + 1 /\ Len(buf) \in i - 1 .. Len(buf)
      BY <1>2
    <2>2. QED
      BY <1>1, <1>2, <2>1, SubStrings
  <1> HIDE DEF piece, n, last
  <1>6. n \in 1 .. last - i + 1 /\ (\A k \in 1 .. n - 1 : rest[k] # NL) /\ (n = last - i + 1 \/ rest[n] = NL)
    BY <1>4, <1>5 DEF IsCut
  <1>7. ASSUME AfterPiece(rest) # << >>
         PROVE  IsRest(AfterPiece(rest))
    <2>1. AfterPiece(rest) = SubSeq(rest, n + 1, Len(rest))
      BY DEF AfterPiece, n, piece
    <2>2. n < Len(rest)
      <3>1. SUFFICES ASSUME ~(n < Len(rest))
                     PROVE  FALSE
        OBVIOUS
      <3>2. n + 1 \in Int /\ Len(rest) \in Int /\ Len(rest) < n + 1
        BY <1>2, <1>5, <1>6, <3>1
      <3>3. AfterPiece(rest) = << >>
        BY <2>1, <3>2, SubSeqEmpty
      <3>4. QED
        BY <1>7, <3>3
    <2>3. rest[n] = NL /\ n + 1 \in 1 .. last - i + 1 /\ Len(rest) \in 1 .. last - i + 1
      BY <1>2, <1>5, <1>6, <2>2
    <2>4. SubSeq(SubSeq(buf, i, last), n + 1, Len(rest)) = SubSeq(buf, i + (n + 1) - 1, i + Len(rest) - 1)
      <3> DEFINE m == n + 1
                 length == Len(rest)
      <3>1. last \in 1 .. Len(buf) /\ m \in 1 .. last - i + 1 /\ length \in 1 .. last - i + 1
        BY <1>2, <2>3 DEF last
      <3> HIDE DEF m, length
      <3>2. SubSeq(SubSeq(buf, i, last), m, length) = SubSeq(buf, i + m - 1, i + length - 1)
        BY <1>2, <3>1, SubSeqOfSubSeq
      <3>3. QED
        BY <3>2 DEF m, length
    <2>5. i + (n + 1) - 1 = i + n /\ i + Len(rest) - 1 = last
      BY <1>2, <1>5, <1>6
    <2>6. AfterPiece(rest) = SubSeq(buf, i + n, last)
      BY <1>1, <2>1, <2>4, <2>5 DEF last
    <2>7. buf[i + n - 1] = NL
      <3>1. rest[n] = buf[i + n - 1]
        BY <1>5, <1>6
      <3>2. QED
        BY <2>3, <3>1
    <2> DEFINE m == i + n
    <2>8. m \in 1 .. Len(buf) /\ buf[m - 1] = NL
      BY <1>2, <1>6, <2>3, <2>7 DEF last
    <2> HIDE DEF m
    <2>9. AfterPiece(rest) = SubSeq(buf, m, Len(buf))
      BY <2>6 DEF m, last
    <2>10. QED
      BY <2>8, <2>9, Zenon DEF IsRest
  <1>8. QED
    BY <1>7

LEMMA WholeLine ==
  ASSUME NEW line, IsPieceOfLine(line)
  PROVE  ~HasNewline(Front(line))
  <1>1. line \in Seq(Bytes) /\ Len(line) \in Nat /\ Len(line) > 0 /\ \A i \in 1 .. Len(line) - 1 : line[i] # NL
    BY DEF IsPieceOfLine, Strings
  <1> DEFINE n == Len(line) - 1
  <1>2. 1 \in 1 .. Len(line) + 1 /\ n \in 1 - 1 .. Len(line) /\ n - 1 + 1 = n /\ \A i \in 1 .. n : 1 + i - 1 = i
    BY <1>1
  <1>3. Front(line) = SubSeq(line, 1, n)
    BY DEF Front
  <1> HIDE DEF n
  <1>4. /\ SubSeq(line, 1, n) \in Seq(Bytes) /\ Len(SubSeq(line, 1, n)) = n - 1 + 1
        /\ \A k \in 1 .. n - 1 + 1 : SubSeq(line, 1, n)[k] = line[1 + k - 1]
    BY <1>1, <1>2, SubStrings
  <1> DEFINE front == SubSeq(line, 1, n)
  <1>5. DOMAIN front = 1 .. n /\ \A k \in 1 .. n : front[k] = line[k]
    BY <1>2, <1>4
  <1> HIDE DEF front
  <1>6. ~HasNewline(front)
    BY <1>1, <1>5 DEF HasNewline, n
  <1>7. QED
    BY <1>3, <1>6 DEF front

LEMMA OpenLine ==
  ASSUME NEW piece, IsPieceOfLine(piece), ~EndsLine(piece)
  PROVE  piece # << >> /\ ~HasNewline(piece)
  <1>1. piece \in Seq(Bytes) /\ Len(piece) \in Nat /\ Len(piece) > 0 /\ \A i \in 1 .. Len(piece) - 1 : piece[i] # NL
    BY DEF IsPieceOfLine, Strings
  <1>2. piece # << >>
    BY <1>1, EmptySeq
  <1>3. \A i \in 1 .. Len(piece) : piece[i] # NL
    BY <1>1 DEF EndsLine, Last
  <1>4. QED
    BY <1>1, <1>2, <1>3 DEF HasNewline

CacheIsOpenLine ==
  IF cache.buffptr = NULL
  THEN cache = Ring!NoEntry
  ELSE /\ cache.buffptr # << >> /\ ~HasNewline(cache.buffptr)
       /\ cache.size = Len(cache.buffptr) /\ cache.size <= cache.allocated

EntriesAreLines ==
  \A i \in 0 .. N - 1 :
    entry[i].buffptr # NULL => EndsLine(entry[i].buffptr) /\ ~HasNewline(Front(entry[i].buffptr))

LEMMA LinesAreWholeParts == LinesAreWhole <=> EntriesAreLines /\ CacheIsOpenLine
  BY DEF LinesAreWhole, EntriesAreLines, CacheIsOpenLine

LEMMA CompletedPiece ==
  ASSUME cache \in Ring!Entry, CacheIsOpenLine, NEW piece, IsPieceOfLine(piece)
  PROVE  /\ IsPieceOfLine(Completed(piece))
         /\ Len(Completed(piece)) = cache.size + Len(piece)
         /\ EndsLine(Completed(piece)) <=> EndsLine(piece)
  <1>1. piece \in Seq(Bytes) /\ Len(piece) \in Nat /\ Len(piece) > 0 /\ \A i \in 1 .. Len(piece) - 1 : piece[i] # NL
    BY DEF IsPieceOfLine, Strings
  <1>2. CASE cache.buffptr = NULL
    <2>1. cache.size = 0
      BY <1>2 DEF CacheIsOpenLine, Ring!NoEntry
    <2>2. Completed(piece) = piece
      BY <1>2 DEF Completed
    <2>3. QED
      BY <1>1, <2>1, <2>2
  <1>3. CASE cache.buffptr # NULL
    <2> DEFINE begun == cache.buffptr
    <2>1. begun \in Seq(Bytes) /\ cache.size = Len(begun) /\ Len(begun) \in Nat
      BY <1>3 DEF CacheIsOpenLine, Ring!Entry
    <2>2. \A i \in 1 .. Len(begun) : begun[i] # NL
      BY <1>3, <2>1 DEF CacheIsOpenLine, HasNewline
    <2>3. Completed(piece) = Then(begun, piece)
      BY <1>3 DEF Completed, Then
    <2> DEFINE line == Then(begun, piece)
    <2> HIDE DEF begun
    <2>4. line \in Seq(Bytes) /\ Len(line) = Len(begun) + Len(piece)
      BY <1>1, <2>1, ThenProperties
    <2>5. \A i \in 1 .. Len(begun) : line[i] = begun[i]
      BY <1>1, <2>1, ThenProperties
    <2>6. \A i \in 1 .. Len(piece) : line[Len(begun) + i] = piece[i]
      BY <1>1, <2>1, ThenProperties
    <2> HIDE DEF line
    <2>7. line[Len(line)] = piece[Len(piece)]
      BY <1>1, <2>4, <2>6
    <2>8. ASSUME NEW i \in 1 .. Len(line) - 1
          PROVE  line[i] # NL
      <3>1. CASE i <= Len(begun)
        BY <2>1, <2>2, <2>5, <3>1
      <3>2. CASE i > Len(begun)
        <4> DEFINE j == i - Len(begun)
        <4>1. j \in 1 .. Len(piece) - 1 /\ j \in 1 .. Len(piece) /\ i = Len(begun) + j
          BY <1>1, <2>1, <2>4, <3>2
        <4> HIDE DEF j
        <4>2. QED
          BY <1>1, <2>6, <4>1
      <3>3. QED
        BY <2>1, <3>1, <3>2
    <2>9. IsPieceOfLine(line)
      BY <1>1, <2>1, <2>4, <2>8 DEF IsPieceOfLine, Strings
    <2>10. EndsLine(line) <=> EndsLine(piece)
      BY <2>7 DEF EndsLine, Last
    <2>11. QED
      BY <2>1, <2>3, <2>4, <2>9, <2>10 DEF line
  <1>4. QED
    BY <1>2, <1>3

-----------------------------------------------------------------------------
(* What a step does to the call of its thread *)

LEMMA KindOfCall ==
  ASSUME NEW c \in Calls \cup {NoCall}
  PROVE  /\ c.at = "idle" <=> c = NoCall
         /\ c.at \in {"lock", "locked"} /\ c.op = "read" => c \in ReadCalls
         /\ c.at = "copy" => c \in CopyCalls
         /\ c.at \in {"lock", "locked"} /\ c.op = "write" => c \in WriteCalls
         /\ c.at = "dead" => c \in WriteCalls
         /\ c.at \in {"lock", "locked"} /\ c.op = "llseek" => c \in LlseekCalls
         /\ c.at \in {"lock", "locked"} /\ c.op = "ioctl" => c \in IoctlCalls
         /\ c.at = "return" => c \in Results
         /\ c.at = "lock" /\ c.op # "read" => c \in WriteCalls \cup LlseekCalls \cup IoctlCalls
  <1>1. NoCall.at = "idle"
    BY DEF NoCall
  <1>2. QED
    BY <1>1 DEF Calls, ReadCalls, CopyCalls, WriteCalls, LlseekCalls, IoctlCalls, Results

\* Thread p goes on in the call new, or is in none.
Enters(p, new) ==
  /\ call' = [call EXCEPT ![p] = new]
  /\ new \in Calls \cup {NoCall}
  /\ new # NoCall => new.filp \in opened
  /\ opened' = opened

LEMMA EntersCall ==
  ASSUME CallsAreCalls, NEW p \in Procs, NEW new, Enters(p, new)
  PROVE  /\ CallsAreCalls'
         /\ call'[p] = new
         /\ \A q \in Procs : q # p => call'[q] = call[q]
  <1>1. call'[p] = new /\ \A q \in Procs : q # p => call'[q] = call[q]
    BY DEF CallsAreCalls, Enters
  <1>2. call' \in [Procs -> Calls \cup {NoCall}]
    BY DEF CallsAreCalls, Enters
  <1>3. \A q \in Procs : call'[q] # NoCall => call'[q].filp \in opened'
    BY <1>1 DEF CallsAreCalls, Enters
  <1>4. QED
    BY <1>1, <1>2, <1>3 DEF CallsAreCalls

\* The holders of the semaphore stay the same, or p takes or releases it.
KeepsSemaphore(p, new) ==
  /\ rwsem' = rwsem
  /\ IsReader(new) <=> IsReader(call[p])
  /\ IsWriter(new) <=> IsWriter(call[p])

TakesRead(p, new) ==
  /\ rwsem.writer = NULL /\ rwsem' = [rwsem EXCEPT !.readers = @ \cup {p}]
  /\ IsReader(new) /\ ~IsWriter(new)

TakesWrite(p, new) ==
  /\ NobodyInside /\ rwsem' = [rwsem EXCEPT !.writer = p]
  /\ ~IsReader(new) /\ IsWriter(new)

GivesRead(p, new) ==
  /\ IsReader(call[p]) /\ UpRead(p)
  /\ ~IsReader(new) /\ ~IsWriter(new)

GivesWrite(p, new) ==
  /\ IsWriter(call[p]) /\ UpWrite
  /\ ~IsReader(new) /\ ~IsWriter(new)

LEMMA SemaphoreStep ==
  ASSUME SemaphoreIsHeld, CallsAreCalls, NEW p \in Procs, NEW new, Enters(p, new),
         \/ KeepsSemaphore(p, new)
         \/ TakesRead(p, new)
         \/ TakesWrite(p, new)
         \/ GivesRead(p, new)
         \/ GivesWrite(p, new)
  PROVE  SemaphoreIsHeld'
  <1>1. call'[p] = new /\ \A q \in Procs : q # p => call'[q] = call[q]
    BY EntersCall
  <1>2. /\ rwsem \in [readers : SUBSET Procs, writer : Procs \cup {NULL}]
        /\ \A q \in Procs : q \in rwsem.readers <=> IsReader(call[q])
        /\ \A q \in Procs : rwsem.writer = q <=> IsWriter(call[q])
        /\ rwsem.writer # NULL => rwsem.readers = {}
    BY DEF SemaphoreIsHeld
  <1>3. NULL \notin Procs
    BY DriverAssumption
  <1>4. CASE KeepsSemaphore(p, new)
    BY <1>1, <1>2, <1>4 DEF KeepsSemaphore, SemaphoreIsHeld
  <1>5. CASE TakesRead(p, new)
    <2>1. rwsem'.writer = NULL /\ rwsem'.readers = rwsem.readers \cup {p}
      BY <1>2, <1>5 DEF TakesRead
    <2>2. rwsem' \in [readers : SUBSET Procs, writer : Procs \cup {NULL}]
      BY <1>2, <1>5 DEF TakesRead
    <2>3. ASSUME NEW q \in Procs
          PROVE  (q \in rwsem'.readers <=> IsReader(call'[q])) /\ (rwsem'.writer = q <=> IsWriter(call'[q]))
      BY <1>1, <1>2, <1>3, <1>5, <2>1 DEF TakesRead
    <2>4. QED
      BY <2>1, <2>2, <2>3 DEF SemaphoreIsHeld
  <1>6. CASE TakesWrite(p, new)
    <2>1. rwsem'.writer = p /\ rwsem'.readers = {} /\ rwsem.writer = NULL /\ rwsem.readers = {}
      BY <1>2, <1>6 DEF TakesWrite, NobodyInside
    <2>2. rwsem' \in [readers : SUBSET Procs, writer : Procs \cup {NULL}]
      BY <1>2, <1>6 DEF TakesWrite
    <2>3. ASSUME NEW q \in Procs
          PROVE  (q \in rwsem'.readers <=> IsReader(call'[q])) /\ (rwsem'.writer = q <=> IsWriter(call'[q]))
      BY <1>1, <1>2, <1>3, <1>6, <2>1 DEF TakesWrite
    <2>4. QED
      BY <2>1, <2>2, <2>3 DEF SemaphoreIsHeld
  <1>7. CASE GivesRead(p, new)
    <2>1. rwsem'.writer = rwsem.writer /\ rwsem'.readers = rwsem.readers \ {p}
      BY <1>2, <1>7 DEF GivesRead, UpRead
    <2>2. rwsem' \in [readers : SUBSET Procs, writer : Procs \cup {NULL}]
      BY <1>2, <1>7 DEF GivesRead, UpRead
    <2>3. rwsem.writer = NULL
      BY <1>2, <1>7 DEF GivesRead
    <2>4. ASSUME NEW q \in Procs
          PROVE  (q \in rwsem'.readers <=> IsReader(call'[q])) /\ (rwsem'.writer = q <=> IsWriter(call'[q]))
      BY <1>1, <1>2, <1>3, <1>7, <2>1, <2>3 DEF GivesRead
    <2>5. QED
      BY <2>1, <2>2, <2>3, <2>4 DEF SemaphoreIsHeld
  <1>8. CASE GivesWrite(p, new)
    <2>1. rwsem'.writer = NULL /\ rwsem'.readers = rwsem.readers /\ rwsem.writer = p
      BY <1>2, <1>8 DEF GivesWrite, UpWrite
    <2>2. rwsem.readers = {}
      BY <1>2, <1>3, <2>1
    <2>3. rwsem' \in [readers : SUBSET Procs, writer : Procs \cup {NULL}]
      BY <1>2, <1>8 DEF GivesWrite, UpWrite
    <2>4. ASSUME NEW q \in Procs
          PROVE  (q \in rwsem'.readers <=> IsReader(call'[q])) /\ (rwsem'.writer = q <=> IsWriter(call'[q]))
      BY <1>1, <1>2, <1>3, <1>8, <2>1, <2>2 DEF GivesWrite
    <2>5. QED
      BY <2>1, <2>2, <2>3, <2>4 DEF SemaphoreIsHeld
  <1>9. QED
    BY <1>4, <1>5, <1>6, <1>7, <1>8

-----------------------------------------------------------------------------
(* The invariant *)

LEMMA RingUnchanged ==
  ASSUME UNCHANGED ring
  PROVE  /\ Ring!TypeOK' <=> Ring!TypeOK
         /\ R!IInv' <=> R!IInv
         /\ R!Concatenation' = R!Concatenation
         /\ EntriesAreLines' <=> EntriesAreLines
         /\ \A slot, offset, pos : R!HasBytesFrom(slot, offset, pos)' <=> R!HasBytesFrom(slot, offset, pos)
  <1>1. entry' = entry /\ in_offs' = in_offs /\ out_offs' = out_offs /\ full' = full /\ empty' = empty
    BY DEF ring
  <1>2. Ring!TypeOK' <=> Ring!TypeOK
    BY <1>1 DEF Ring!TypeOK
  <1>3. R!IInv' <=> R!IInv
    BY <1>1 DEF R!IInv, R!TypeOK, R!OffsetsDescribeEntries, R!LinesFitTheirBlocks, R!Advance
  <1>4. R!Concatenation' = R!Concatenation
    <2>1. R!Contents' = R!Contents
      BY <1>1 DEF R!Contents, R!Count, R!At
    <2>2. QED
      BY <2>1 DEF R!Concatenation
  <1>5. EntriesAreLines' <=> EntriesAreLines
    BY <1>1 DEF EntriesAreLines
  <1>6. \A slot, offset, pos : R!HasBytesFrom(slot, offset, pos)' <=> R!HasBytesFrom(slot, offset, pos)
    BY <1>1, <1>4 DEF R!HasBytesFrom
  <1>7. QED
    BY <1>2, <1>3, <1>4, <1>5, <1>6

\* A step that leaves the ring and the cache alone.
LEMMA QuietStep ==
  ASSUME IInv, NEW p \in Procs, NEW new, Enters(p, new), UNCHANGED << ring, cache >>,
         \/ KeepsSemaphore(p, new)
         \/ TakesRead(p, new)
         \/ TakesWrite(p, new)
         \/ GivesRead(p, new)
         \/ GivesWrite(p, new),
         f_pos' \in [Files -> Nat], calls' \in 0 .. MaxCalls,
         call[p].at # "dead", new.at # "dead",
         new.at \in {"lock", "locked"} /\ new.op = "write" => IsRest(new.rest),
         NobodyDied /\ new.at = "copy" =>
           new.pos < Len(R!Concatenation) /\ R!HasBytesFrom(new.found.slot, new.found.offset, new.pos)
  PROVE  IInv'
  <1>1. CallsAreCalls' /\ SemaphoreIsHeld'
    BY EntersCall, SemaphoreStep DEF IInv
  <1>2. call'[p] = new /\ \A q \in Procs : q # p => call'[q] = call[q]
    BY EntersCall DEF IInv
  <1>3. ring' = ring /\ cache' = cache
    BY DEF ring
  <1>4. Ring!TypeOK' /\ (cache \in Ring!Entry)'
    <2>1. Ring!Entry' = Ring!Entry
      BY DEF Ring!Entry
    <2>2. QED
      BY <1>3, <2>1, RingUnchanged DEF IInv
  <1>5. WritesHaveRests'
    BY <1>2 DEF IInv, WritesHaveRests
  <1>6. LinesAreWhole'
    <2>1. CacheIsOpenLine' <=> CacheIsOpenLine
      BY <1>3 DEF CacheIsOpenLine, Ring!NoEntry
    <2>2. LinesAreWhole' <=> EntriesAreLines' /\ CacheIsOpenLine'
      BY LinesAreWholeParts, PTL
    <2>3. QED
      BY <1>3, <2>1, <2>2, RingUnchanged, LinesAreWholeParts DEF IInv
  <1>7. NobodyDied' <=> NobodyDied
    BY <1>2 DEF NobodyDied
  <1>8. NobodyDied => R!IInv' /\ CopiesHaveFound'
    <2> SUFFICES ASSUME NobodyDied
                 PROVE  R!IInv' /\ CopiesHaveFound'
      OBVIOUS
    <2>1. R!IInv'
      BY <1>3, RingUnchanged DEF IInv
    <2>2. ASSUME NEW q \in Procs, call'[q].at = "copy"
          PROVE  /\ call'[q].pos < Len(R!Concatenation)
                 /\ R!HasBytesFrom(call'[q].found.slot, call'[q].found.offset, call'[q].pos)
      BY <1>2, <2>2 DEF IInv, CopiesHaveFound
    <2>3. QED
      BY <1>3, <2>1, <2>2, RingUnchanged DEF CopiesHaveFound
  <1>9. opened' \subseteq Files
    BY DEF IInv, Enters
  <1>10. QED
    BY <1>1, <1>4, <1>5, <1>6, <1>7, <1>8, <1>9 DEF IInv

\* Nobody is in the ring with a thread that died there.
LEMMA NobodyDiedInside ==
  ASSUME IInv, NEW p \in Procs, call[p].at \in {"locked", "copy"}
  PROVE  NobodyDied /\ R!IInv /\ CopiesHaveFound /\ (IsReader(call[p]) \/ IsWriter(call[p]))
  <1>1. call[p] \in Calls \cup {NoCall} /\ \A q \in Procs : call[q] \in Calls \cup {NoCall}
    BY DEF IInv, CallsAreCalls
  <1>2. IsReader(call[p]) \/ IsWriter(call[p])
    BY <1>1, KindOfCall DEF IsReader, IsWriter, CopyCalls
  <1>3. ASSUME NEW q \in Procs, call[q].at = "dead"
        PROVE  FALSE
    <2>1. IsWriter(call[q])
      BY <1>1, <1>3, KindOfCall DEF IsWriter, WriteCalls
    <2>2. rwsem.writer = q /\ q # NULL /\ q # p
      BY <1>3, <2>1, DriverAssumption DEF IInv, SemaphoreIsHeld
    <2>3. ~IsReader(call[p]) /\ ~IsWriter(call[p])
      BY <2>2 DEF IInv, SemaphoreIsHeld
    <2>4. QED
      BY <1>2, <2>3
  <1>4. NobodyDied
    BY <1>3 DEF NobodyDied
  <1>5. QED
    BY <1>2, <1>4 DEF IInv

\* A call arrives.
LEMMA BeginKeeps ==
  ASSUME IInv, NEW p \in Procs, NEW c \in Calls, Begin(p, c),
         c.filp \in opened, c.at \in {"lock", "return"},
         c.at = "lock" /\ c.op = "write" => IsRest(c.rest)
  PROVE  IInv'
  <1>1. call[p] = NoCall /\ call[p].at = "idle"
    BY DEF Begin, NoCall
  <1>2. Enters(p, c) /\ UNCHANGED << ring, cache >>
    BY DEF Begin, Enters
  <1>3. KeepsSemaphore(p, c)
    BY <1>1 DEF Begin, KeepsSemaphore, IsReader, IsWriter
  <1>4. f_pos' \in [Files -> Nat] /\ calls' \in 0 .. MaxCalls
    BY DriverAssumption DEF IInv, Begin
  <1>5. c.at # "dead" /\ c.at # "copy" /\ (c.at \in {"lock", "locked"} <=> c.at = "lock")
    OBVIOUS
  <1>6. QED
    BY <1>1, <1>2, <1>3, <1>4, <1>5, QuietStep

LEMMA BeginCallKeeps ==
  ASSUME IInv, NEW p \in Procs, BeginCall(p)
  PROVE  IInv'
  <1>1. \A filp \in opened : filp \in Files /\ f_pos[filp] \in Nat
    BY DEF IInv
  <1>2. ASSUME NEW filp \in opened, NEW count \in ReadCounts, Begin(p, ReadCall(filp, count))
        PROVE  IInv'
    <2> DEFINE c == ReadCall(filp, count)
    <2>1. c \in Calls /\ c.filp \in opened /\ c.at = "lock" /\ c.op = "read"
      BY <1>1, DriverAssumption DEF ReadCall, Calls, ReadCalls
    <2> HIDE DEF c
    <2>2. QED
      BY <1>2, <2>1, BeginKeeps DEF c
  <1>3. ASSUME NEW buf \in Writes
        PROVE  buf \in Seq(Bytes) /\ Len(buf) \in Nat /\ (buf # << >> => IsRest(buf))
    <2>1. buf \in Seq(Bytes) /\ Len(buf) \in Nat
      BY DriverAssumption
    <2>2. ASSUME buf # << >>
          PROVE  IsRest(buf)
      <3>1. 1 \in 1 .. Len(buf)
        BY <2>1, <2>2, EmptySeq
      <3>2. buf = SubSeq(buf, 1, Len(buf))
        BY <2>1, SubSeqFull
      <3>3. QED
        BY <3>1, <3>2, Zenon DEF IsRest
    <2>3. QED
      BY <2>1, <2>2
  <1>4. ASSUME NEW filp \in opened, NEW buf \in Writes
        PROVE  /\ WriteCall(filp, buf) \in Calls /\ WriteCall(filp, buf).filp \in opened
               /\ WriteCall(filp, buf).at = "lock" /\ WriteCall(filp, buf).rest = buf
    BY <1>1, <1>3 DEF WriteCall, Calls, WriteCalls
  <1>5. ASSUME NEW filp \in opened, NEW buf \in Writes, NEW ret \in Int
        PROVE  LET c == WriteCall(filp, buf)
                   result == Result(c, c.pos, ret, << >>)
               IN  result \in Calls /\ result.filp \in opened /\ result.at = "return"
    <2>1. << >> \in Seq(Bytes)
      BY EmptySeq
    <2> DEFINE none == << >>
    <2> HIDE DEF none
    <2>2. Result(WriteCall(filp, buf), f_pos[filp], ret, none) \in Results
      BY <1>1, <1>3, <2>1 DEF Result, WriteCall, Results, none
    <2>3. WriteCall(filp, buf).pos = f_pos[filp]
      BY DEF WriteCall
    <2>4. /\ Result(WriteCall(filp, buf), f_pos[filp], ret, none).filp \in opened
          /\ Result(WriteCall(filp, buf), f_pos[filp], ret, none).at = "return"
      BY DEF Result, WriteCall
    <2>5. QED
      BY <2>2, <2>3, <2>4 DEF Calls, none
  <1>6. ASSUME NEW filp \in opened, NEW buf \in Writes,
               Begin(p, IF buf = << >> THEN Result(WriteCall(filp, buf), WriteCall(filp, buf).pos, 0, << >>)
                        ELSE WriteCall(filp, buf))
        PROVE  IInv'
    <2>1. CASE buf = << >>
      <3> DEFINE c == Result(WriteCall(filp, buf), WriteCall(filp, buf).pos, 0, << >>)
      <3>1. c \in Calls /\ c.filp \in opened /\ c.at = "return"
        BY <1>5
      <3>2. Begin(p, c)
        BY <1>6, <2>1
      <3> HIDE DEF c
      <3>3. QED
        BY <3>1, <3>2, BeginKeeps
    <2>2. CASE buf # << >>
      <3> DEFINE c == WriteCall(filp, buf)
      <3>1. c \in Calls /\ c.filp \in opened /\ c.at = "lock" /\ IsRest(c.rest)
        BY <1>3, <1>4, <2>2
      <3>2. Begin(p, c)
        BY <1>6, <2>2
      <3> HIDE DEF c
      <3>3. QED
        BY <3>1, <3>2, BeginKeeps
    <2>3. QED
      BY <2>1, <2>2
  <1>7. ASSUME NEW filp \in opened, NEW buf \in Writes, Begin(p, Failed(WriteCall(filp, buf)))
        PROVE  IInv'
    <2> DEFINE c == Failed(WriteCall(filp, buf))
    <2>1. c \in Calls /\ c.filp \in opened /\ c.at = "return"
      BY <1>5 DEF Failed
    <2> HIDE DEF c
    <2>2. QED
      BY <1>7, <2>1, BeginKeeps DEF c
  <1>8. ASSUME NEW filp \in opened, NEW offset \in Offsets, NEW whence \in {"SEEK_SET", "SEEK_CUR", "SEEK_END"},
               Begin(p, LlseekCall(filp, offset, whence))
        PROVE  IInv'
    <2> DEFINE c == LlseekCall(filp, offset, whence)
    <2>1. c \in Calls /\ c.filp \in opened /\ c.at = "lock" /\ c.op = "llseek"
      BY <1>1, DriverAssumption DEF LlseekCall, Calls, LlseekCalls
    <2> HIDE DEF c
    <2>2. QED
      BY <1>8, <2>1, BeginKeeps DEF c
  <1>9. ASSUME NEW filp \in opened, NEW write_cmd \in 0 .. N - 1, NEW write_cmd_offset \in Offsets \cap Nat,
               Begin(p, IoctlCall(filp, write_cmd, write_cmd_offset))
        PROVE  IInv'
    <2> DEFINE c == IoctlCall(filp, write_cmd, write_cmd_offset)
    <2>1. c \in Calls /\ c.filp \in opened /\ c.at = "lock" /\ c.op = "ioctl"
      BY <1>1, DriverAssumption DEF IoctlCall, Calls, IoctlCalls
    <2> HIDE DEF c
    <2>2. QED
      BY <1>9, <2>1, BeginKeeps DEF c
  <1>10. CASE BeginRead(p)
    BY <1>2, <1>10 DEF BeginRead
  <1>11. CASE BeginWrite(p)
    BY <1>6, <1>11 DEF BeginWrite
  <1>12. CASE BeginWriteFails(p)
    BY <1>7, <1>12 DEF BeginWriteFails
  <1>13. CASE BeginLlseek(p)
    BY <1>8, <1>13 DEF BeginLlseek
  <1>14. CASE BeginIoctl(p)
    BY <1>9, <1>14 DEF BeginIoctl
  <1>15. QED
    BY <1>10, <1>11, <1>12, <1>13, <1>14 DEF BeginCall

LEMMA DownReadKeeps ==
  ASSUME IInv, NEW p \in Procs, DownRead(p)
  PROVE  IInv'
  <1> DEFINE c == call[p]
             new == [c EXCEPT !.at = "locked"]
  <1>1. c \in Calls \cup {NoCall} /\ (c # NoCall => c.filp \in opened)
    BY DEF IInv, CallsAreCalls
  <1>2. c \in ReadCalls /\ c # NoCall /\ c.at = "lock"
    BY <1>1, KindOfCall DEF DownRead
  <1>3. new \in ReadCalls /\ new.at = "locked" /\ new.op = "read" /\ new.filp = c.filp
    BY <1>2 DEF ReadCalls
  <1>4. call' = [call EXCEPT ![p] = new]
    BY DEF DownRead
  <1> HIDE DEF c, new
  <1>5. Enters(p, new) /\ UNCHANGED << ring, cache >>
    BY <1>1, <1>2, <1>3, <1>4 DEF DownRead, Enters, Calls
  <1>6. TakesRead(p, new)
    BY <1>3 DEF DownRead, TakesRead, IsReader, IsWriter
  <1>7. f_pos' \in [Files -> Nat] /\ calls' \in 0 .. MaxCalls /\ call[p].at # "dead"
    BY <1>2 DEF IInv, DownRead, c
  <1>8. QED
    BY <1>3, <1>5, <1>6, <1>7, QuietStep

LEMMA DownWriteKeeps ==
  ASSUME IInv, NEW p \in Procs, DownWrite(p)
  PROVE  IInv'
  <1> DEFINE c == call[p]
             new == [c EXCEPT !.at = "locked"]
  <1>1. c \in Calls \cup {NoCall} /\ (c # NoCall => c.filp \in opened)
    BY DEF IInv, CallsAreCalls
  <1>2. c \in WriteCalls \cup LlseekCalls \cup IoctlCalls /\ c # NoCall /\ c.at = "lock" /\ c.op # "read"
    BY <1>1, KindOfCall DEF DownWrite
  <1>3. /\ new \in WriteCalls \cup LlseekCalls \cup IoctlCalls
        /\ new.at = "locked" /\ new.op = c.op /\ new.filp = c.filp
        /\ c.op = "write" => new.rest = c.rest
    BY <1>2 DEF WriteCalls, LlseekCalls, IoctlCalls
  <1>4. call' = [call EXCEPT ![p] = new]
    BY DEF DownWrite
  <1>5. c.op = "write" => IsRest(c.rest)
    BY <1>2 DEF IInv, WritesHaveRests
  <1> HIDE DEF c, new
  <1>6. Enters(p, new) /\ UNCHANGED << ring, cache >>
    BY <1>1, <1>2, <1>3, <1>4 DEF DownWrite, Enters, Calls
  <1>7. TakesWrite(p, new)
    BY <1>2, <1>3 DEF DownWrite, TakesWrite, IsReader, IsWriter
  <1>8. f_pos' \in [Files -> Nat] /\ calls' \in 0 .. MaxCalls /\ call[p].at # "dead"
    BY <1>2 DEF IInv, DownWrite, c
  <1>9. new.at # "dead" /\ new.at # "copy" /\ (new.op = "write" => IsRest(new.rest))
    BY <1>3, <1>5
  <1>10. QED
    BY <1>6, <1>7, <1>8, <1>9, QuietStep

\* The search of a read: what it finds is where its position is.
LEMMA SearchIsRight ==
  ASSUME IInv, NobodyDied, NEW pos \in Nat, NEW found, found = Ring!FindEntryOffset(pos)
  PROVE  IF pos < Len(R!Concatenation)
         THEN /\ found # NULL /\ found \in [slot : 0 .. N - 1, offset : Nat]
              /\ R!HasBytesFrom(found.slot, found.offset, pos)
         ELSE found = NULL
  <1>1. R!IInv /\ found = R!FindEntryOffset(pos)
    BY RingFinds DEF IInv
  <1>2. CASE pos < Len(R!Concatenation)
    <2>1. /\ found # NULL /\ found \in [slot : R!Slots, offset : Nat]
          /\ R!HasBytesFrom(found.slot, found.offset, pos)
      BY <1>1, <1>2, RingAssumptions, R!FindInData
    <2>2. R!Slots = 0 .. N - 1
      BY DEF R!Slots
    <2>3. QED
      BY <1>2, <2>1, <2>2
  <1>3. CASE ~(pos < Len(R!Concatenation))
    <2>1. Len(R!Concatenation) \in Nat
      BY <1>1, RingAssumptions, R!ConcatenationLength
    <2>2. pos >= Len(R!Concatenation)
      BY <1>3, <2>1
    <2>3. found = NULL
      BY <1>1, <2>2, RingAssumptions, R!FindBeyondData
    <2>4. QED
      BY <1>3, <2>3
  <1>4. QED
    BY <1>2, <1>3

LEMMA ReadFindKeeps ==
  ASSUME IInv, NEW p \in Procs, ReadFind(p)
  PROVE  IInv'
  <1> DEFINE c == call[p]
             found == Ring!FindEntryOffset(c.pos)
             none == << >>
             copy == [op |-> "read", at |-> "copy", filp |-> c.filp, pos |-> c.pos, count |-> c.count,
                      found |-> found]
             end == Result(c, c.pos, 0, none)
  <1>1. c \in Calls \cup {NoCall} /\ (c # NoCall => c.filp \in opened) /\ call \in [Procs -> Calls \cup {NoCall}]
    BY DEF IInv, CallsAreCalls
  <1>2. c \in ReadCalls /\ c # NoCall /\ c.at = "locked" /\ c.op = "read"
    BY <1>1, KindOfCall DEF ReadFind, Locked
  <1>3. NobodyDied
    BY <1>2, NobodyDiedInside
  <1>4. c.pos \in Nat /\ c.filp \in Files /\ c.count \in Nat \ {0}
    BY <1>2 DEF ReadCalls
  <1>5. IF c.pos < Len(R!Concatenation)
        THEN /\ found # NULL /\ found \in [slot : 0 .. N - 1, offset : Nat]
             /\ R!HasBytesFrom(found.slot, found.offset, c.pos)
        ELSE found = NULL
    <2> HIDE DEF c, found
    <2>1. QED
      BY <1>3, <1>4, SearchIsRight DEF found
  <1>6. /\ found = NULL => call' = [call EXCEPT ![p] = end] /\ UpRead(p)
        /\ found # NULL => call' = [call EXCEPT ![p] = copy] /\ rwsem' = rwsem
        /\ UNCHANGED << ring, cache >> /\ opened' = opened /\ f_pos' = f_pos /\ calls' = calls
    <2> HIDE DEF found
    <2>1. QED
      BY DEF ReadFind, found
  <1>7. IsReader(c) /\ ~IsWriter(c) /\ c.at # "dead"
    BY <1>2 DEF IsReader, IsWriter
  <1>8. none \in Seq(Bytes)
    BY EmptySeq
  <1> HIDE DEF c, found, none
  <1>9. f_pos' \in [Files -> Nat] /\ calls' \in 0 .. MaxCalls
    BY <1>6 DEF IInv
  <1>10. CASE found = NULL
    <2>1. end \in Results /\ end.at = "return" /\ end.filp = c.filp
      BY <1>2, <1>4, <1>8 DEF Result, Results
    <2> HIDE DEF end
    <2>2. Enters(p, end)
      BY <1>1, <1>2, <1>6, <1>10, <2>1 DEF Enters, Calls
    <2>3. GivesRead(p, end)
      BY <1>6, <1>7, <1>10, <2>1 DEF GivesRead, IsReader, IsWriter, c
    <2>4. QED
      BY <1>6, <1>7, <1>9, <2>1, <2>2, <2>3, QuietStep DEF c
  <1>11. CASE found # NULL
    <2>1. /\ c.pos < Len(R!Concatenation) /\ found \in [slot : 0 .. N - 1, offset : Nat]
          /\ R!HasBytesFrom(found.slot, found.offset, c.pos)
      BY <1>5, <1>11
    <2>2. /\ copy \in CopyCalls /\ copy.at = "copy" /\ copy.op = "read" /\ copy.filp = c.filp
          /\ copy.pos = c.pos /\ copy.found = found
      BY <1>4, <2>1 DEF CopyCalls
    <2> HIDE DEF copy
    <2>3. Enters(p, copy)
      BY <1>1, <1>2, <1>6, <1>11, <2>2 DEF Enters, Calls
    <2>4. KeepsSemaphore(p, copy)
      BY <1>6, <1>7, <1>11, <2>2 DEF KeepsSemaphore, IsReader, IsWriter, c
    <2>5. QED
      BY <1>6, <1>7, <1>9, <2>1, <2>2, <2>3, <2>4, QuietStep DEF c
  <1>12. QED
    BY <1>10, <1>11

\* What aesd_read copies, and how many bytes of it.
Copied(c) == Min({entry[c.found.slot].size - c.found.offset, c.count})

CopiedBytes(c) ==
  SubSeq(entry[c.found.slot].buffptr, c.found.offset + 1, c.found.offset + Copied(c))

\* A copy takes bytes of the concatenation, at least one and not beyond its end.
LEMMA CopyIsRight ==
  ASSUME IInv, NEW p \in Procs, call[p].at = "copy"
  PROVE  /\ call[p] \in CopyCalls
         /\ Copied(call[p]) \in 1 .. call[p].count
         /\ call[p].pos + Copied(call[p]) <= Len(R!Concatenation)
         /\ CopiedBytes(call[p]) \in Seq(Bytes)
         /\ CopiedBytes(call[p]) = SubSeq(R!Concatenation, call[p].pos + 1, call[p].pos + Copied(call[p]))
  <1> DEFINE c == call[p]
             slot == c.found.slot
             offset == c.found.offset
             size == entry[slot].size
             line == entry[slot].buffptr
             pos == c.pos
             whole == R!Concatenation
             n == Copied(c)
  <1>1. c \in CopyCalls
    BY KindOfCall DEF IInv, CallsAreCalls
  <1>2. pos < Len(whole) /\ R!HasBytesFrom(slot, offset, pos) /\ R!IInv
    BY NobodyDiedInside DEF CopiesHaveFound
  <1>3. pos \in Nat /\ c.count \in Nat /\ c.count > 0
    BY <1>1 DEF CopyCalls
  <1>4. whole \in Seq(Bytes) /\ Len(whole) \in Nat
    BY <1>2, RingAssumptions, RingBytes, R!ConcatenationLength
  <1>5. /\ line \in Seq(Bytes) /\ size = Len(line) /\ size \in Nat
        /\ offset \in Nat /\ offset < size
        /\ pos - offset + size <= Len(whole)
        /\ \A i \in 1 .. size - offset : line[offset + i] = whole[pos + i]
    <2> HIDE DEF slot, offset, pos, whole
    <2>1. /\ line \in Seq(Bytes) /\ size = Len(line)
          /\ offset \in Nat /\ offset < size
          /\ pos - offset + size <= Len(whole)
          /\ \A i \in 1 .. size - offset : line[offset + i] = whole[pos + i]
      BY <1>2 DEF R!HasBytesFrom, whole
    <2>2. Len(line) \in Nat
      BY <2>1
    <2>3. QED
      BY <2>1, <2>2
  <1> HIDE DEF c, whole
  <1>6. n \in 1 .. c.count /\ n <= size - offset
    <2> DEFINE available == size - offset
    <2>1. available \in Nat /\ available > 0
      BY <1>5
    <2>2. n = Min({available, c.count})
      BY DEF Copied
    <2> HIDE DEF available, n
    <2>3. {available, c.count} \in SUBSET Nat /\ {available, c.count} # {}
      BY <1>3, <2>1
    <2>4. n \in {available, c.count} /\ n <= available /\ n <= c.count
      BY <2>2, <2>3, MinIsMember
    <2>5. QED
      BY <1>3, <2>1, <2>4 DEF available
  <1>7. CopiedBytes(c) = SubSeq(line, offset + 1, offset + n)
    BY DEF CopiedBytes
  <1> HIDE DEF slot, offset, size, line, pos, n
  <1> DEFINE i == offset + 1
             j == offset + n
             ii == pos + 1
             jj == pos + n
  <1>8. /\ i \in 1 .. Len(line) + 1 /\ j \in i - 1 .. Len(line) /\ j - i + 1 = n
        /\ ii \in 1 .. Len(whole) + 1 /\ jj \in ii - 1 .. Len(whole) /\ jj - ii + 1 = n
        /\ pos + n <= Len(whole)
    BY <1>3, <1>4, <1>5, <1>6
  <1>9. \A k \in 1 .. n : i + k - 1 = offset + k /\ ii + k - 1 = pos + k /\ k \in 1 .. size - offset
    BY <1>3, <1>5, <1>6
  <1> HIDE DEF i, j, ii, jj
  <1> DEFINE copied == SubSeq(line, i, j)
             kept == SubSeq(whole, ii, jj)
  <1>10. copied \in Seq(Bytes) /\ Len(copied) = n /\ \A k \in 1 .. n : copied[k] = line[i + k - 1]
    BY <1>5, <1>8, SubStrings
  <1>11. kept \in Seq(Bytes) /\ Len(kept) = n /\ \A k \in 1 .. n : kept[k] = whole[ii + k - 1]
    BY <1>4, <1>8, SubStrings
  <1> HIDE DEF copied, kept
  <1>12. ASSUME NEW k \in 1 .. n
         PROVE  copied[k] = kept[k]
    <2>1. copied[k] = line[offset + k] /\ kept[k] = whole[pos + k]
      BY <1>9, <1>10, <1>11
    <2>2. line[offset + k] = whole[pos + k]
      BY <1>5, <1>9
    <2>3. QED
      BY <2>1, <2>2
  <1>13. copied = kept
    BY <1>10, <1>11, <1>12, SeqEqual
  <1>14. CopiedBytes(c) = copied /\ kept = SubSeq(whole, pos + 1, pos + n)
    BY <1>7 DEF copied, kept, i, j, ii, jj
  <1>15. QED
    BY <1>1, <1>6, <1>8, <1>10, <1>13, <1>14 DEF c, pos, n, whole

LEMMA ReadCopyKeeps ==
  ASSUME IInv, NEW p \in Procs, ReadCopy(p) \/ ReadCopyFails(p)
  PROVE  IInv'
  <1> DEFINE c == call[p]
             none == << >>
             n == Copied(c)
             data == CopiedBytes(c)
             success == Result(c, c.pos + n, n, data)
             failure == Result(c, c.pos, -1, none)
  <1>1. c.at = "copy" /\ call \in [Procs -> Calls \cup {NoCall}]
    BY DEF ReadCopy, ReadCopyFails, IInv, CallsAreCalls
  <1>2. c \in CopyCalls /\ n \in Nat /\ data \in Seq(Bytes)
    BY <1>1, CopyIsRight DEF CopyCalls
  <1>3. c.filp \in opened
    BY <1>1 DEF IInv, CallsAreCalls, NoCall
  <1>4. none \in Seq(Bytes)
    BY EmptySeq
  <1>5. /\ UpRead(p) /\ UNCHANGED << ring, cache >> /\ opened' = opened /\ f_pos' = f_pos /\ calls' = calls
        /\ call' = [call EXCEPT ![p] = success] \/ call' = [call EXCEPT ![p] = failure]
    <2>1. CASE ReadCopy(p)
      BY <2>1, Zenon DEF ReadCopy, Copied, CopiedBytes
    <2>2. CASE ReadCopyFails(p)
      BY <2>2 DEF ReadCopyFails, Failed
    <2>3. QED
      BY <2>1, <2>2
  <1>6. IsReader(c) /\ ~IsWriter(c) /\ c.at # "dead"
    BY <1>1, <1>2 DEF IsReader, IsWriter, CopyCalls
  <1> HIDE DEF c, none, n, data
  <1>7. /\ success \in Results /\ success.at = "return" /\ success.filp = c.filp
        /\ failure \in Results /\ failure.at = "return" /\ failure.filp = c.filp
    BY <1>2, <1>4 DEF Result, Results, CopyCalls
  <1> HIDE DEF success, failure
  <1>8. f_pos' \in [Files -> Nat] /\ calls' \in 0 .. MaxCalls
    BY <1>5 DEF IInv
  <1>9. ASSUME NEW new \in {success, failure}, call' = [call EXCEPT ![p] = new]
        PROVE  IInv'
    <2>1. Enters(p, new)
      BY <1>3, <1>5, <1>7, <1>9 DEF Enters, Calls, c
    <2>2. GivesRead(p, new)
      BY <1>5, <1>6, <1>7 DEF GivesRead, IsReader, IsWriter, c
    <2>3. new.at = "return"
      BY <1>7
    <2>4. QED
      BY <1>5, <1>6, <1>8, <2>1, <2>2, <2>3, QuietStep DEF c
  <1>10. QED
    BY <1>5, <1>9

LEMMA CacheAllocationFailsKeeps ==
  ASSUME IInv, NEW p \in Procs, CacheAllocationFails(p)
  PROVE  IInv'
  <1> DEFINE c == call[p]
             none == << >>
             new == Result(c, c.pos, -1, none)
  <1>1. c \in Calls \cup {NoCall} /\ (c # NoCall => c.filp \in opened) /\ call \in [Procs -> Calls \cup {NoCall}]
    BY DEF IInv, CallsAreCalls
  <1>2. c \in WriteCalls /\ c # NoCall /\ c.at = "locked" /\ c.op = "write"
    BY <1>1, KindOfCall DEF CacheAllocationFails, Locked
  <1>3. /\ UpWrite /\ UNCHANGED << ring, cache >> /\ opened' = opened /\ f_pos' = f_pos /\ calls' = calls
        /\ call' = [call EXCEPT ![p] = new]
    BY DEF CacheAllocationFails, Failed
  <1>4. none \in Seq(Bytes)
    BY EmptySeq
  <1> HIDE DEF c, none
  <1>5. new \in Results /\ new.at = "return" /\ new.filp = c.filp
    BY <1>2, <1>4 DEF Result, Results, WriteCalls
  <1> HIDE DEF new
  <1>6. Enters(p, new)
    BY <1>1, <1>2, <1>3, <1>5 DEF Enters, Calls
  <1>7. GivesWrite(p, new)
    BY <1>2, <1>3, <1>5 DEF GivesWrite, IsReader, IsWriter, c
  <1>8. f_pos' \in [Files -> Nat] /\ calls' \in 0 .. MaxCalls
    BY <1>3 DEF IInv
  <1>9. QED
    BY <1>2, <1>3, <1>5, <1>6, <1>7, <1>8, QuietStep DEF c

LEMMA ReturnKeeps ==
  ASSUME IInv, NEW p \in Procs, Return(p)
  PROVE  IInv'
  <1> DEFINE c == call[p]
  <1>1. c \in Calls \cup {NoCall} /\ c.at = "return"
    BY DEF IInv, CallsAreCalls, Return
  <1>2. c \in Results
    BY <1>1, KindOfCall
  <1>3. /\ rwsem' = rwsem /\ UNCHANGED << ring, cache >> /\ opened' = opened /\ calls' = calls
        /\ f_pos' = IF c.ret >= 0 THEN [f_pos EXCEPT ![c.filp] = c.pos] ELSE f_pos
        /\ call' = [call EXCEPT ![p] = NoCall]
    BY DEF Return
  <1> HIDE DEF c
  <1>4. c.pos \in Nat
    BY <1>2 DEF Results
  <1>5. f_pos' \in [Files -> Nat] /\ calls' \in 0 .. MaxCalls
    BY <1>3, <1>4 DEF IInv
  <1>6. Enters(p, NoCall)
    BY <1>3 DEF Enters
  <1>7. NoCall.at = "idle"
    BY DEF NoCall
  <1>8. KeepsSemaphore(p, NoCall)
    BY <1>1, <1>3, <1>7 DEF KeepsSemaphore, IsReader, IsWriter, c
  <1>9. QED
    BY <1>1, <1>3, <1>5, <1>6, <1>7, <1>8, QuietStep DEF c

LEMMA SeekKeeps ==
  ASSUME IInv, NEW p \in Procs, call[p].at = "locked", call[p].op \in {"llseek", "ioctl"},
         NEW pos, NEW valid, ReturnSeek(p, pos, valid), valid => pos \in Nat
  PROVE  IInv'
  <1> DEFINE c == call[p]
  <1>1. c.at = "locked" /\ c.op # "read"
    OBVIOUS
  <1>2. /\ UpWrite /\ UNCHANGED << ring, cache >> /\ opened' = opened /\ calls' = calls
        /\ f_pos' = IF valid THEN [f_pos EXCEPT ![c.filp] = pos] ELSE f_pos
        /\ call' = [call EXCEPT ![p] = NoCall]
    BY DEF ReturnSeek
  <1> HIDE DEF c
  <1>3. f_pos' \in [Files -> Nat] /\ calls' \in 0 .. MaxCalls
    BY <1>2 DEF IInv
  <1>4. Enters(p, NoCall)
    BY <1>2 DEF Enters
  <1>5. NoCall.at = "idle"
    BY DEF NoCall
  <1>6. GivesWrite(p, NoCall)
    BY <1>1, <1>2, <1>5 DEF GivesWrite, IsReader, IsWriter, c
  <1>7. QED
    BY <1>1, <1>2, <1>3, <1>4, <1>5, <1>6, QuietStep DEF c

LEMMA LlseekKeeps ==
  ASSUME IInv, NEW p \in Procs, Llseek(p)
  PROVE  IInv'
  <1> DEFINE c == call[p]
             base == CASE c.whence = "SEEK_SET" -> 0
                       [] c.whence = "SEEK_CUR" -> f_pos[c.filp]
                       [] c.whence = "SEEK_END" -> Ring!TotalSize
             newpos == base + c.offset
  <1>1. c.at = "locked" /\ c.op = "llseek" /\ c \in Calls \cup {NoCall}
    BY DEF Llseek, Locked, IInv, CallsAreCalls
  <1>2. c \in LlseekCalls
    BY <1>1, KindOfCall
  <1>3. R!IInv
    BY <1>1, NobodyDiedInside
  <1>4. Ring!TotalSize \in Nat
    <2>1. R!TotalSize = Len(R!Concatenation)
      BY <1>3, RingAssumptions, R!TotalIsLength
    <2>2. Len(R!Concatenation) \in Nat
      BY <1>3, RingAssumptions, R!ConcatenationLength
    <2>3. QED
      BY <2>1, <2>2, RingContents
  <1>5. ReturnSeek(p, newpos, InDevice(newpos))
    BY DEF Llseek
  <1>6. newpos \in Int
    BY <1>2, <1>4 DEF LlseekCalls, IInv
  <1> HIDE DEF newpos
  <1>7. InDevice(newpos) => newpos \in Nat
    BY <1>6 DEF InDevice
  <1>8. QED
    BY <1>1, <1>5, <1>7, SeekKeeps

LEMMA AdjustFileOffsetKeeps ==
  ASSUME IInv, NEW p \in Procs, AdjustFileOffset(p)
  PROVE  IInv'
  <1> DEFINE c == call[p]
  <1>1. c.at = "locked" /\ c.op = "ioctl" /\ c \in Calls \cup {NoCall}
    BY DEF AdjustFileOffset, Locked, IInv, CallsAreCalls
  <1>2. c.write_cmd \in 0 .. N - 1 /\ c.write_cmd_offset \in Nat
    BY <1>1, KindOfCall DEF IoctlCalls
  <1>3. R!IInv
    BY <1>1, NobodyDiedInside
  <1>4. Ring!ArrayStart(c.write_cmd) \in Nat
    <2>1. \A k \in 0 .. N : R!ArrayStart(k) \in Nat
      BY <1>3, RingAssumptions, R!ArrayStarts
    <2>2. N \in Nat
      BY DriverAssumption
    <2> DEFINE k == c.write_cmd
    <2> HIDE DEF k
    <2>3. k \in 0 .. N - 1
      BY <1>2 DEF k
    <2>4. R!ArrayStart(k) \in Nat
      BY <2>1, <2>2, <2>3
    <2>5. QED
      BY <2>4, RingStarts DEF k
  <1>5. CommandPosition(c) \in Nat
    BY <1>2, <1>4 DEF CommandPosition
  <1>6. ReturnSeek(p, CommandPosition(c), InCommand(c))
    BY DEF AdjustFileOffset
  <1>7. QED
    BY <1>1, <1>5, <1>6, SeekKeeps

-----------------------------------------------------------------------------
(* Writing *)

\* What a thread that writes has at hand.
LEMMA WriterKnows ==
  ASSUME IInv, NEW p \in Procs, Locked(p, "write")
  PROVE  /\ call[p] \in WriteCalls /\ call[p].filp \in opened /\ IsRest(call[p].rest)
         /\ call[p].at = "locked" /\ IsWriter(call[p])
         /\ NobodyDied /\ R!IInv
         /\ \A q \in Procs : call[q].at # "copy"
         /\ IsPieceOfLine(NextPiece(call[p].rest))
         /\ IsPieceOfLine(Completed(NextPiece(call[p].rest)))
         /\ Len(Completed(NextPiece(call[p].rest))) = cache.size + Len(NextPiece(call[p].rest))
         /\ EndsLine(Completed(NextPiece(call[p].rest))) <=> EndsLine(NextPiece(call[p].rest))
  <1>1. call[p].at = "locked" /\ call[p].op = "write" /\ \A q \in Procs : call[q] \in Calls \cup {NoCall}
    BY DEF IInv, CallsAreCalls, Locked
  <1>2. call[p] \in WriteCalls /\ call[p].filp \in opened /\ IsWriter(call[p])
    BY <1>1, KindOfCall DEF IInv, CallsAreCalls, IsWriter, NoCall
  <1>3. NobodyDied /\ R!IInv
    BY <1>1, NobodyDiedInside
  <1>4. IsRest(call[p].rest)
    BY <1>1 DEF IInv, WritesHaveRests
  <1>5. ASSUME NEW q \in Procs, call[q].at = "copy"
        PROVE  FALSE
    <2>1. IsReader(call[q])
      BY <1>1, <1>5, KindOfCall DEF IsReader, CopyCalls
    <2>2. rwsem.writer = p /\ p # NULL /\ q \in rwsem.readers
      BY <1>2, <2>1, DriverAssumption DEF IInv, SemaphoreIsHeld
    <2>3. QED
      BY <2>2 DEF IInv, SemaphoreIsHeld
  <1>6. IsPieceOfLine(NextPiece(call[p].rest))
    BY <1>4, RestIsString, NextPieceProperties
  <1>7. cache \in Ring!Entry /\ CacheIsOpenLine
    BY LinesAreWholeParts DEF IInv
  <1> DEFINE piece == NextPiece(call[p].rest)
  <1> HIDE DEF piece
  <1>8. /\ IsPieceOfLine(Completed(piece))
        /\ Len(Completed(piece)) = cache.size + Len(piece)
        /\ EndsLine(Completed(piece)) <=> EndsLine(piece)
    BY <1>6, <1>7, CompletedPiece DEF piece
  <1>9. QED
    BY <1>1, <1>2, <1>3, <1>4, <1>5, <1>6, <1>8 DEF piece

\* The call of a thread that stored a piece.
LEMMA PieceWrittenIsCall ==
  ASSUME NEW c \in WriteCalls, IsRest(c.rest), NEW pos \in Nat
  PROVE  /\ PieceWritten(c, pos) \in Calls
         /\ PieceWritten(c, pos).filp = c.filp
         /\ PieceWritten(c, pos).at \in {"lock", "return"}
         /\ PieceWritten(c, pos).at = "lock" => IsRest(PieceWritten(c, pos).rest)
  <1> DEFINE rest == AfterPiece(c.rest)
             none == << >>
             next == [c EXCEPT !.at = "lock", !.pos = pos, !.rest = rest]
             result == Result(c, pos, c.count, none)
  <1>1. PieceWritten(c, pos) = IF rest = << >> THEN result ELSE next
    BY DEF PieceWritten, AfterPiece
  <1>2. rest # << >> => IsRest(rest)
    BY NextRest
  <1>3. none \in Seq(Bytes)
    BY EmptySeq
  <1> HIDE DEF none, rest
  <1>4. result \in Results /\ result.filp = c.filp /\ result.at = "return"
    BY <1>3 DEF Result, Results, WriteCalls
  <1>5. ASSUME IsRest(rest)
        PROVE  next \in WriteCalls /\ next.filp = c.filp /\ next.at = "lock" /\ next.rest = rest
    <2>1. rest \in Seq(Bytes)
      BY <1>5, RestIsString DEF Strings
    <2>2. QED
      BY <2>1 DEF WriteCalls
  <1> HIDE DEF result, next
  <1>6. CASE rest = << >>
    <2>1. PieceWritten(c, pos) = result
      BY <1>1, <1>6
    <2>2. result.at # "lock"
      BY <1>4
    <2>3. QED
      BY <1>4, <2>1, <2>2 DEF Calls
  <1>7. CASE rest # << >>
    <2>1. PieceWritten(c, pos) = next /\ IsRest(rest)
      BY <1>1, <1>2, <1>7
    <2>2. QED
      BY <1>5, <2>1 DEF Calls
  <1>8. QED
    BY <1>6, <1>7

\* A step of a writer that did not die, in terms of what it leaves in the ring and
\* in the cache.
LEMMA WriterStep ==
  ASSUME IInv, NEW p \in Procs, Locked(p, "write"), NEW new \in Calls, Enters(p, new), UpWrite,
         new.at \in {"lock", "return"}, new.at = "lock" => IsRest(new.rest),
         UNCHANGED << f_pos, calls >>,
         R!IInv', cache' \in Ring!Entry, EntriesAreLines', CacheIsOpenLine'
  PROVE  IInv'
  <1>1. call'[p] = new /\ CallsAreCalls' /\ \A q \in Procs : q # p => call'[q] = call[q]
    BY EntersCall DEF IInv
  <1>2. IsWriter(call[p]) /\ NobodyDied /\ \A q \in Procs : call[q].at # "copy"
    BY WriterKnows
  <1>3. SemaphoreIsHeld'
    <2>1. GivesWrite(p, new)
      BY <1>2 DEF GivesWrite, IsReader, IsWriter
    <2>2. QED
      BY <2>1, SemaphoreStep DEF IInv
  <1>4. Ring!TypeOK'
    <2>1. R!TypeOK'
      BY DEF R!IInv
    <2>2. Ring!TypeOK' <=> R!TypeOK'
      BY RingTypes, PTL
    <2>3. QED
      BY <2>1, <2>2
  <1>5. (cache \in Ring!Entry)'
    BY DEF Ring!Entry
  <1>6. LinesAreWhole'
    <2>1. LinesAreWhole' <=> EntriesAreLines' /\ CacheIsOpenLine'
      BY LinesAreWholeParts, PTL
    <2>2. QED
      BY <2>1
  <1>7. NobodyDied'
    BY <1>1, <1>2 DEF NobodyDied
  <1>8. \A q \in Procs : call'[q].at # "copy"
    BY <1>1, <1>2
  <1>9. CopiesHaveFound'
    BY <1>8 DEF CopiesHaveFound
  <1>10. WritesHaveRests'
    BY <1>1 DEF IInv, WritesHaveRests
  <1>11. (opened \subseteq Files /\ f_pos \in [Files -> Nat] /\ calls \in 0 .. MaxCalls)'
    BY DEF IInv, Enters
  <1>12. QED
    BY <1>1, <1>3, <1>4, <1>5, <1>6, <1>7, <1>9, <1>10, <1>11 DEF IInv

LEMMA WriteWithCacheKeeps ==
  ASSUME IInv, NEW p \in Procs, WriteWithCache(p)
  PROVE  IInv'
  <1> DEFINE c == call[p]
             line == Completed(NextPiece(c.rest))
             pos == c.pos + Len(line)
             new == PieceWritten(c, pos)
  <1>1. Locked(p, "write") /\ EndsLine(NextPiece(c.rest)) /\ UpWrite /\ UNCHANGED << f_pos, calls >>
    BY DEF WriteWithCache
  <1>2. /\ c \in WriteCalls /\ c.filp \in opened /\ IsRest(c.rest)
        /\ R!IInv /\ IsPieceOfLine(line) /\ EndsLine(line)
    BY <1>1, WriterKnows
  <1>3. /\ Ring!AddEntry(line) /\ cache' = Ring!NoEntry /\ opened' = opened
        /\ call' = [call EXCEPT ![p] = new]
    BY DEF WriteWithCache
  <1> HIDE DEF line
  <1>4. line \in Seq(Bytes) /\ Len(line) \in Nat
    BY <1>2 DEF IsPieceOfLine, Strings
  <1>5. pos \in Nat
    BY <1>2, <1>4 DEF WriteCalls
  <1> HIDE DEF pos, c
  <1>6. new \in Calls /\ new.filp = c.filp /\ new.at \in {"lock", "return"} /\ (new.at = "lock" => IsRest(new.rest))
    BY <1>2, <1>5, PieceWrittenIsCall
  <1> HIDE DEF new
  <1>7. Enters(p, new)
    BY <1>2, <1>3, <1>6 DEF Enters
  <1>8. R!IInv'
    BY <1>2, <1>3, <1>4, AddKeepsRing
  <1>9. EntriesAreLines'
    <2> DEFINE slot == R!WriteSlot
    <2>1. R!AddEntry(line)
      BY <1>3, RingAdds
    <2>2. entry' = [entry EXCEPT ![slot] = R!Stored(slot, line)] /\ R!Stored(slot, line).buffptr = line
      BY <2>1 DEF R!AddEntry, R!Stored
    <2> HIDE DEF slot
    <2>3. ~HasNewline(Front(line))
      BY <1>2, WholeLine
    <2>4. entry \in [0 .. N - 1 -> R!Entry]
      BY <1>2 DEF R!IInv, R!TypeOK, R!Slots
    <2>5. EntriesAreLines
      BY LinesAreWholeParts DEF IInv
    <2>6. ASSUME NEW i \in 0 .. N - 1, entry'[i].buffptr # NULL
          PROVE  EndsLine(entry'[i].buffptr) /\ ~HasNewline(Front(entry'[i].buffptr))
      <3>1. CASE i = slot
        <4>1. entry'[i].buffptr = line
          BY <2>2, <2>4, <3>1
        <4>2. QED
          BY <1>2, <2>3, <4>1
      <3>2. CASE i # slot
        <4>1. entry'[i] = entry[i]
          BY <2>2, <2>4, <3>2
        <4>2. QED
          BY <2>5, <2>6, <4>1 DEF EntriesAreLines
      <3>3. QED
        BY <3>1, <3>2
    <2>7. QED
      BY <2>6 DEF EntriesAreLines
  <1>10. cache' \in Ring!Entry /\ CacheIsOpenLine'
    BY <1>3 DEF CacheIsOpenLine, Ring!NoEntry, Ring!Entry
  <1>11. QED
    BY <1>1, <1>6, <1>7, <1>8, <1>9, <1>10, WriterStep

LEMMA AddToCacheKeeps ==
  ASSUME IInv, NEW p \in Procs, AddToCache(p)
  PROVE  IInv'
  <1> DEFINE c == call[p]
             piece == NextPiece(c.rest)
             begun == Completed(piece)
             pos == c.pos + Len(piece)
             new == PieceWritten(c, pos)
  <1>1. Locked(p, "write") /\ ~EndsLine(piece) /\ UpWrite /\ UNCHANGED << f_pos, calls >>
    BY DEF AddToCache
  <1>2. /\ c \in WriteCalls /\ c.filp \in opened /\ IsRest(c.rest) /\ R!IInv
        /\ IsPieceOfLine(piece) /\ IsPieceOfLine(begun) /\ ~EndsLine(begun)
        /\ Len(begun) = cache.size + Len(piece)
    BY <1>1, WriterKnows
  <1>3. /\ cache' = [buffptr |-> begun, size |-> cache.size + Len(piece),
                     allocated |-> cache.allocated + Len(piece)]
        /\ call' = [call EXCEPT ![p] = new]
        /\ UNCHANGED ring /\ opened' = opened
    BY DEF AddToCache
  <1> HIDE DEF piece, begun
  <1>4. begun \in Seq(Bytes) /\ Len(piece) \in Nat
    BY <1>2 DEF IsPieceOfLine, Strings
  <1>5. pos \in Nat
    BY <1>2, <1>4 DEF WriteCalls
  <1> HIDE DEF pos, c
  <1>6. new \in Calls /\ new.filp = c.filp /\ new.at \in {"lock", "return"} /\ (new.at = "lock" => IsRest(new.rest))
    BY <1>2, <1>5, PieceWrittenIsCall
  <1> HIDE DEF new
  <1>7. Enters(p, new)
    BY <1>2, <1>3, <1>6 DEF Enters
  <1>8. R!IInv' /\ EntriesAreLines'
    BY <1>2, <1>3, RingUnchanged, LinesAreWholeParts DEF IInv
  <1>9. cache.size \in Nat /\ cache.allocated \in Nat /\ cache.size <= cache.allocated
    <2>1. cache \in Ring!Entry /\ CacheIsOpenLine
      BY LinesAreWholeParts DEF IInv
    <2>2. QED
      BY <2>1 DEF CacheIsOpenLine, Ring!NoEntry, Ring!Entry
  <1>10. cache' \in Ring!Entry
    BY <1>3, <1>4, <1>9 DEF Ring!Entry
  <1>11. begun # << >> /\ ~HasNewline(begun)
    BY <1>2, OpenLine
  <1>12. begun # NULL
    BY <1>4, DriverAssumption
  <1>13. cache'.size = Len(begun) /\ cache'.size <= cache'.allocated
    BY <1>2, <1>3, <1>4, <1>9
  <1>14. CacheIsOpenLine'
    BY <1>3, <1>11, <1>12, <1>13 DEF CacheIsOpenLine
  <1>15. QED
    BY <1>1, <1>6, <1>7, <1>8, <1>10, <1>14, WriterStep

LEMMA RingAllocationFailsKeeps ==
  ASSUME IInv, NEW p \in Procs, RingAllocationFails(p)
  PROVE  IInv'
  <1> DEFINE c == call[p]
             line == Completed(NextPiece(c.rest))
             new == [c EXCEPT !.at = "dead"]
             slot == Ring!WriteSlot
             length == Len(line)
  <1>1. Locked(p, "write") /\ "ring" \in Failing
    BY DEF RingAllocationFails
  <1>2. c \in WriteCalls /\ c.filp \in opened /\ c.at = "locked" /\ IsWriter(c) /\ IsPieceOfLine(line)
    BY <1>1, WriterKnows
  <1>3. /\ call' = [call EXCEPT ![p] = new]
        /\ cache' = cache /\ rwsem' = rwsem /\ opened' = opened /\ f_pos' = f_pos /\ calls' = calls
        /\ entry' = [entry EXCEPT ![slot].buffptr = NULL, ![slot].allocated = length]
        /\ Ring!AdvanceOffsets
    BY DEF RingAllocationFails, Ring!AddEntryOutOfMemory
  <1> HIDE DEF line
  <1>4. length \in Nat
    BY <1>2 DEF IsPieceOfLine, Strings
  <1> HIDE DEF slot, length
  <1>5. new \in WriteCalls /\ new.filp = c.filp /\ new.at = "dead" /\ new.op = "write"
    BY <1>2 DEF WriteCalls
  <1> HIDE DEF new, c
  <1>6. Enters(p, new)
    BY <1>2, <1>3, <1>5 DEF Enters, Calls
  <1>7. call'[p] = new /\ CallsAreCalls' /\ \A q \in Procs : q # p => call'[q] = call[q]
    BY <1>6, EntersCall DEF IInv
  <1>8. SemaphoreIsHeld'
    <2>1. KeepsSemaphore(p, new)
      BY <1>2, <1>3, <1>5 DEF KeepsSemaphore, IsReader, IsWriter, c
    <2>2. QED
      BY <1>6, <2>1, SemaphoreStep DEF IInv
  <1>9. Ring!TypeOK'
    <2>1. Ring!TypeOK /\ N \in 1 .. 255
      BY DriverAssumption DEF IInv
    <2>2. entry' \in [0 .. N - 1 -> Ring!Entry]
      <3>1. entry \in [0 .. N - 1 -> Ring!Entry]
        BY <2>1 DEF Ring!TypeOK, Ring!Slots
      <3>2. DOMAIN entry' = 0 .. N - 1 /\ entry' = [i \in 0 .. N - 1 |-> entry'[i]]
        BY <1>3, <3>1
      <3>3. ASSUME NEW i \in 0 .. N - 1
            PROVE  entry'[i] \in Ring!Entry
        <4>1. entry[i] \in Ring!Entry
          BY <3>1
        <4>2. entry'[i] = IF i = slot THEN [entry[i] EXCEPT !.buffptr = NULL, !.allocated = length] ELSE entry[i]
          BY <1>3, <3>1
        <4>3. [entry[i] EXCEPT !.buffptr = NULL, !.allocated = length] \in Ring!Entry
          BY <1>4, <4>1 DEF Ring!Entry
        <4>4. QED
          BY <4>1, <4>2, <4>3
      <3>4. QED
        BY <3>2, <3>3
    <2>3. in_offs' \in 0 .. N - 1 /\ out_offs' \in 0 .. N - 1
      <3>1. in_offs \in 0 .. N - 1 /\ out_offs \in 0 .. N - 1 /\ N \in 1 .. 255
        BY <2>1 DEF Ring!TypeOK, Ring!Slots
      <3>2. ASSUME NEW i \in 0 .. N - 1
            PROVE  Ring!Advance(i) \in 0 .. N - 1
        BY <3>1 DEF Ring!Advance
      <3>3. in_offs' \in {in_offs, Ring!Advance(in_offs)} /\ out_offs' \in {out_offs, Ring!Advance(out_offs)}
        BY <1>3 DEF Ring!AdvanceOffsets, Ring!WriteSlot
      <3>4. QED
        BY <3>1, <3>2, <3>3
    <2>4. empty' \in BOOLEAN /\ full' \in BOOLEAN
      BY <1>3, <2>1, Zenon DEF Ring!TypeOK, Ring!AdvanceOffsets, Ring!FullAfter
    <2>5. QED
      BY <2>2, <2>3, <2>4 DEF Ring!TypeOK, Ring!Slots, Ring!Entry
  <1>10. EntriesAreLines'
    <2>1. EntriesAreLines /\ entry \in [0 .. N - 1 -> Ring!Entry]
      BY LinesAreWholeParts DEF IInv, Ring!TypeOK, Ring!Slots
    <2>2. ASSUME NEW i \in 0 .. N - 1, entry'[i].buffptr # NULL
          PROVE  entry'[i].buffptr = entry[i].buffptr
      BY <1>3, <2>1, <2>2 DEF Ring!Entry
    <2>3. QED
      BY <2>1, <2>2 DEF EntriesAreLines
  <1>11. LinesAreWhole'
    <2>1. CacheIsOpenLine'
      BY <1>3, LinesAreWholeParts DEF IInv, CacheIsOpenLine, Ring!NoEntry
    <2>2. LinesAreWhole' <=> EntriesAreLines' /\ CacheIsOpenLine'
      BY LinesAreWholeParts, PTL
    <2>3. QED
      BY <1>10, <2>1, <2>2
  <1>12. ~NobodyDied'
    BY <1>5, <1>7 DEF NobodyDied
  <1>13. WritesHaveRests'
    BY <1>5, <1>7 DEF IInv, WritesHaveRests
  <1>14. (cache \in Ring!Entry /\ opened \subseteq Files /\ f_pos \in [Files -> Nat] /\ calls \in 0 .. MaxCalls)'
    BY <1>3 DEF IInv, Ring!Entry
  <1>15. QED
    BY <1>1, <1>7, <1>8, <1>9, <1>11, <1>12, <1>13, <1>14 DEF IInv

-----------------------------------------------------------------------------
(* Files open and close, and the invariant holds *)

\* A step in which no call, no semaphore and no buffer changes.
LEMMA FilesStep ==
  ASSUME IInv, UNCHANGED << ring, cache, rwsem, call, calls >>,
         opened' \subseteq Files, f_pos' \in [Files -> Nat],
         \A p \in Procs : call[p] # NoCall => call[p].filp \in opened'
  PROVE  IInv'
  <1>1. ring' = ring /\ cache' = cache /\ rwsem' = rwsem /\ call' = call /\ calls' = calls
    BY DEF ring
  <1>2. CallsAreCalls' /\ WritesHaveRests' /\ (NobodyDied' <=> NobodyDied)
    BY <1>1 DEF IInv, CallsAreCalls, WritesHaveRests, NobodyDied
  <1>3. SemaphoreIsHeld'
    BY <1>1 DEF IInv, SemaphoreIsHeld
  <1>4. Ring!TypeOK' /\ (cache \in Ring!Entry)' /\ (calls \in 0 .. MaxCalls)'
    BY <1>1, RingUnchanged DEF IInv, Ring!Entry
  <1>5. LinesAreWhole'
    <2>1. CacheIsOpenLine' <=> CacheIsOpenLine
      BY <1>1 DEF CacheIsOpenLine, Ring!NoEntry
    <2>2. LinesAreWhole' <=> EntriesAreLines' /\ CacheIsOpenLine'
      BY LinesAreWholeParts, PTL
    <2>3. QED
      BY <1>1, <2>1, <2>2, RingUnchanged, LinesAreWholeParts DEF IInv
  <1>6. NobodyDied => R!IInv' /\ CopiesHaveFound'
    BY <1>1, RingUnchanged DEF IInv, CopiesHaveFound
  <1>7. QED
    BY <1>2, <1>3, <1>4, <1>5, <1>6 DEF IInv

LEMMA FilesKeep ==
  ASSUME IInv, NEW filp \in Files, Open(filp) \/ Release(filp)
  PROVE  IInv'
  <1>1. UNCHANGED << ring, cache, rwsem, call, calls >>
    BY DEF Open, Release
  <1>2. opened' \subseteq Files /\ f_pos' \in [Files -> Nat]
    BY DEF Open, Release, IInv
  <1>3. ASSUME NEW p \in Procs, call[p] # NoCall
        PROVE  call[p].filp \in opened'
    BY <1>3 DEF IInv, CallsAreCalls, Open, Release
  <1>4. QED
    BY <1>1, <1>2, <1>3, FilesStep

LEMMA InitIInv == Init => IInv
  <1> SUFFICES ASSUME Init
               PROVE  IInv
    OBVIOUS
  <1>0. N \in 1 .. 255 /\ MaxCalls \in Nat /\ NULL \notin Procs
    BY DriverAssumption
  <1>1. R!IInv
    <2>1. R!Init
      BY DEF Init, Ring!Init, R!Init, Ring!Slots, R!Slots, Ring!NoEntry, R!NoEntry
    <2>2. QED
      BY <2>1, RingAssumptions, R!InitIInv
  <1>2. Ring!TypeOK
    BY <1>1, RingTypes DEF R!IInv
  <1>3. \A p \in Procs : call[p] = NoCall /\ call[p].at = "idle"
    BY DEF Init, NoCall
  <1>4. CallsAreCalls /\ WritesHaveRests /\ CopiesHaveFound /\ NobodyDied
    BY <1>3 DEF Init, CallsAreCalls, WritesHaveRests, CopiesHaveFound, NobodyDied
  <1>5. SemaphoreIsHeld
    BY <1>0, <1>3 DEF Init, SemaphoreIsHeld, IsReader, IsWriter
  <1>6. LinesAreWhole /\ cache \in Ring!Entry
    <2>1. \A i \in 0 .. N - 1 : entry[i].buffptr = NULL
      BY DEF Init, Ring!Init, Ring!Slots, Ring!NoEntry
    <2>2. cache = Ring!NoEntry /\ cache.buffptr = NULL /\ cache \in Ring!Entry
      BY DEF Init, Ring!NoEntry, Ring!Entry
    <2>3. EntriesAreLines /\ CacheIsOpenLine
      BY <2>1, <2>2 DEF EntriesAreLines, CacheIsOpenLine
    <2>4. QED
      BY <2>2, <2>3, LinesAreWholeParts
  <1>7. opened \subseteq Files /\ f_pos \in [Files -> Nat] /\ calls \in 0 .. MaxCalls
    BY <1>0 DEF Init
  <1>8. QED
    BY <1>1, <1>2, <1>4, <1>5, <1>6, <1>7 DEF IInv

LEMMA NextIInv == IInv /\ [Next]_vars => IInv'
  <1> SUFFICES ASSUME IInv, [Next]_vars
               PROVE  IInv'
    OBVIOUS
  <1>1. ASSUME NEW filp \in Files, Open(filp) \/ Release(filp)
        PROVE  IInv'
    BY <1>1, FilesKeep
  <1>2. ASSUME NEW p \in Procs, BeginCall(p) \/ DownRead(p) \/ DownWrite(p)
        PROVE  IInv'
    BY <1>2, BeginCallKeeps, DownReadKeeps, DownWriteKeeps
  <1>3. ASSUME NEW p \in Procs, ReadFind(p) \/ ReadCopy(p) \/ ReadCopyFails(p)
        PROVE  IInv'
    BY <1>3, ReadFindKeeps, ReadCopyKeeps
  <1>4. ASSUME NEW p \in Procs,
               WriteWithCache(p) \/ AddToCache(p) \/ CacheAllocationFails(p) \/ RingAllocationFails(p)
        PROVE  IInv'
    BY <1>4, WriteWithCacheKeeps, AddToCacheKeeps, CacheAllocationFailsKeeps, RingAllocationFailsKeeps
  <1>5. ASSUME NEW p \in Procs, Llseek(p) \/ AdjustFileOffset(p) \/ Return(p)
        PROVE  IInv'
    BY <1>5, LlseekKeeps, AdjustFileOffsetKeeps, ReturnKeeps
  <1>6. CASE UNCHANGED vars
    <2>1. UNCHANGED << ring, cache, rwsem, call, calls >> /\ opened' = opened /\ f_pos' = f_pos
      BY <1>6 DEF vars
    <2>2. QED
      BY <2>1, FilesStep DEF IInv, CallsAreCalls
  <1>7. QED
    BY <1>1, <1>2, <1>3, <1>4, <1>5, <1>6 DEF Next, Work

\* The invariant that the theorems below rest on holds in every behaviour.
THEOREM Invariance == Spec => []IInv
  BY InitIInv, NextIInv, PTL DEF Spec

\* Every variable keeps its type: the fields of the ring, the semaphore, the positions
\* of the files and the calls of the threads, each of them on an open file.
THEOREM TypeCorrect == Spec => []TypeOK
  <1>1. IInv => TypeOK
    <2> SUFFICES ASSUME IInv
                 PROVE  TypeOK
      OBVIOUS
    <2>1. ASSUME NEW p \in Procs, call[p] # NoCall
          PROVE  /\ call[p].op \in {"read", "write", "llseek", "ioctl"}
                 /\ call[p].at \in {"lock", "locked", "copy", "return", "dead"}
                 /\ call[p].filp \in opened
      <3>1. call[p] \in Calls /\ call[p].filp \in opened
        BY <2>1 DEF IInv, CallsAreCalls
      <3>2. QED
        BY <3>1 DEF Calls, ReadCalls, CopyCalls, WriteCalls, LlseekCalls, IoctlCalls, Results
    <2>2. QED
      BY <2>1 DEF IInv, TypeOK, SemaphoreIsHeld
  <1>2. QED
    BY <1>1, Invariance, PTL

\* An entry of the ring is one whole line and the cache the beginning of one, however
\* the writes of any number of threads are cut and interleaved, allocations that fail
\* included: nothing a write leaves behind is taken for part of another line.
THEOREM LinesWhole == Spec => []LinesAreWhole
  <1>1. IInv => LinesAreWhole
    BY DEF IInv
  <1>2. QED
    BY <1>1, Invariance, PTL

-----------------------------------------------------------------------------
(* What reads give *)

\* A step of one thread leaves the calls of the others alone.
LEMMA OtherCalls ==
  ASSUME IInv, NEW p \in Procs, NEW q \in Procs, q # p,
         BeginCall(p) \/ DownRead(p) \/ DownWrite(p) \/ Work(p)
  PROVE  call'[q] = call[q]
  <1>0. call \in [Procs -> Calls \cup {NoCall}]
    BY DEF IInv, CallsAreCalls
  <1>1. ASSUME NEW c, Begin(p, c)
        PROVE  call'[q] = call[q]
    BY <1>0, <1>1 DEF Begin
  <1>2. CASE BeginCall(p)
    BY <1>1, <1>2 DEF BeginCall, BeginRead, BeginWrite, BeginWriteFails, BeginLlseek, BeginIoctl
  <1>3. CASE DownRead(p) \/ DownWrite(p)
    BY <1>0, <1>3 DEF DownRead, DownWrite
  <1>4. CASE ReadFind(p)
    BY <1>0, <1>4, Zenon DEF ReadFind
  <1>5. CASE ReadCopy(p) \/ ReadCopyFails(p)
    BY <1>0, <1>5, Zenon DEF ReadCopy, ReadCopyFails
  <1>6. CASE WriteWithCache(p) \/ AddToCache(p)
    BY <1>0, <1>6, Zenon DEF WriteWithCache, AddToCache
  <1>7. CASE CacheAllocationFails(p) \/ RingAllocationFails(p)
    BY <1>0, <1>7, Zenon DEF CacheAllocationFails, RingAllocationFails
  <1>8. CASE Llseek(p) \/ AdjustFileOffset(p) \/ Return(p)
    BY <1>0, <1>8, Zenon DEF Llseek, AdjustFileOffset, ReturnSeek, Return
  <1>9. QED
    BY <1>2, <1>3, <1>4, <1>5, <1>6, <1>7, <1>8 DEF Work

\* A thread that is in the device and changes its call works.
LEMMA CallMovesByWork ==
  ASSUME IInv, [Next]_vars, NEW p \in Procs, call[p].at \in {"locked", "copy"}, call'[p] # call[p]
  PROVE  Work(p)
  <1>1. call' # call
    OBVIOUS
  <1>2. ~(UNCHANGED vars)
    BY <1>1 DEF vars
  <1>3. ASSUME NEW filp \in Files, Open(filp) \/ Release(filp)
        PROVE  FALSE
    BY <1>1, <1>3 DEF Open, Release
  <1>4. PICK q \in Procs : BeginCall(q) \/ DownRead(q) \/ DownWrite(q) \/ Work(q)
    BY <1>2, <1>3 DEF Next
  <1>5. q = p
    BY <1>4, OtherCalls
  <1>6. ~DownRead(p) /\ ~DownWrite(p)
    BY DEF DownRead, DownWrite
  <1>7. ASSUME NEW c, Begin(p, c)
        PROVE  FALSE
    BY <1>7 DEF Begin, NoCall
  <1>8. ~BeginCall(p)
    BY <1>7 DEF BeginCall, BeginRead, BeginWrite, BeginWriteFails, BeginLlseek, BeginIoctl
  <1>9. QED
    BY <1>4, <1>5, <1>6, <1>8

LEMMA ReadIsRight ==
  ASSUME IInv, [Next]_vars, NEW p \in Procs, ReadReturns(p)
  PROVE  call'[p].ret = -1 \/ IsAtPosition(p)
  <1> DEFINE c == call[p]
             none == << >>
             whole == R!Concatenation
  <1>1. c.at \in {"locked", "copy"} /\ c.op = "read" /\ call'[p] # c
    BY DEF ReadReturns
  <1>2. call \in [Procs -> Calls \cup {NoCall}] /\ NobodyDied /\ R!IInv
    BY <1>1, NobodyDiedInside DEF IInv, CallsAreCalls
  <1>3. ReadFind(p) \/ ReadCopy(p) \/ ReadCopyFails(p)
    <2>1. Work(p)
      BY <1>1, CallMovesByWork
    <2>2. ~WriteWithCache(p) /\ ~AddToCache(p) /\ ~CacheAllocationFails(p) /\ ~RingAllocationFails(p)
      BY <1>1 DEF WriteWithCache, AddToCache, CacheAllocationFails, RingAllocationFails, Locked
    <2>3. ~Llseek(p) /\ ~AdjustFileOffset(p) /\ ~Return(p)
      BY <1>1 DEF Llseek, AdjustFileOffset, Return, Locked
    <2>4. QED
      BY <2>1, <2>2, <2>3 DEF Work
  <1>4. whole \in Seq(Bytes) /\ Len(whole) \in Nat /\ Kept = whole
    BY <1>2, RingAssumptions, RingBytes, R!ConcatenationLength, RingContents
  <1>5. CASE ReadFind(p)
    <2> DEFINE found == Ring!FindEntryOffset(c.pos)
               end == Result(c, c.pos, 0, none)
    <2>1. c \in ReadCalls
      BY <1>2, <1>5, KindOfCall DEF ReadFind, Locked
    <2>2. c.pos \in Nat /\ c.count \in Nat
      BY <2>1 DEF ReadCalls
    <2>3. call'[p] = end /\ found = NULL
      <3> DEFINE copy == [op |-> "read", at |-> "copy", filp |-> c.filp, pos |-> c.pos, count |-> c.count,
                          found |-> found]
      <3>1. ASSUME found # NULL
            PROVE  FALSE
        <4>1. call' = [call EXCEPT ![p] = copy]
          <5> HIDE DEF found
          <5>1. QED
            BY <1>5, <3>1 DEF ReadFind, found
        <4>2. copy.at = "copy"
          OBVIOUS
        <4> HIDE DEF copy
        <4>3. call'[p].at = "copy"
          BY <1>2, <4>1, <4>2
        <4>4. QED
          BY <4>3 DEF ReadReturns
      <3>2. found = NULL
        BY <3>1
      <3>3. call' = [call EXCEPT ![p] = end]
        <4> HIDE DEF found
        <4>1. QED
          BY <1>5, <3>2 DEF ReadFind, found
      <3> HIDE DEF end, c
      <3>4. QED
        BY <1>2, <3>2, <3>3
    <2> HIDE DEF c, found, whole
    <2>4. ~(c.pos < Len(whole))
      BY <1>2, <2>2, <2>3, SearchIsRight DEF found, whole
    <2>5. end.ret = 0 /\ end.data = none /\ end.count = c.count /\ end.pos = c.pos
      BY DEF Result
    <2>6. none = SubSeq(whole, c.pos + 1, c.pos + 0)
      <3>1. c.pos + 1 \in Int /\ c.pos + 0 \in Int /\ c.pos + 0 < c.pos + 1
        BY <2>2
      <3>2. QED
        BY <3>1, SubSeqEmpty
    <2> HIDE DEF none, end
    <2>7. IsAtPosition(p)
      <3>1. end.data = SubSeq(whole, c.pos + 1, c.pos + end.ret)
        BY <2>5, <2>6
      <3>2. end.ret <= end.count /\ (end.ret = 0 <=> c.pos >= Len(whole)) /\ end.pos = c.pos + end.ret
        BY <1>4, <2>2, <2>4, <2>5
      <3>3. QED
        BY <1>4, <2>3, <3>1, <3>2, Zenon DEF IsAtPosition, c
    <2>8. QED
      BY <2>7
  <1>6. CASE ReadCopy(p)
    <2> DEFINE n == Copied(c)
               end == Result(c, c.pos + n, n, CopiedBytes(c))
    <2>1. /\ c \in CopyCalls /\ n \in 1 .. c.count /\ c.pos + n <= Len(whole)
          /\ CopiedBytes(c) = SubSeq(whole, c.pos + 1, c.pos + n)
      BY <1>6, CopyIsRight DEF ReadCopy
    <2>2. c.pos \in Nat /\ c.count \in Nat
      BY <2>1 DEF CopyCalls
    <2>3. call'[p] = end
      <3>1. call' = [call EXCEPT ![p] = end]
        BY <1>6, Zenon DEF ReadCopy, Copied, CopiedBytes
      <3> HIDE DEF end
      <3>2. QED
        BY <1>2, <3>1
    <2> HIDE DEF n, c, whole
    <2>4. end.ret = n /\ end.data = CopiedBytes(c) /\ end.count = c.count /\ end.pos = c.pos + n
      BY DEF Result
    <2> HIDE DEF end
    <2>5. end.data = SubSeq(whole, c.pos + 1, c.pos + end.ret)
      BY <2>1, <2>4
    <2>6. end.ret <= end.count /\ (end.ret = 0 <=> c.pos >= Len(whole)) /\ end.pos = c.pos + end.ret
      BY <1>4, <2>1, <2>2, <2>4
    <2>7. IsAtPosition(p)
      BY <1>4, <2>3, <2>5, <2>6, Zenon DEF IsAtPosition, c
    <2>8. QED
      BY <2>7
  <1>7. CASE ReadCopyFails(p)
    <2> DEFINE end == Result(c, c.pos, -1, none)
    <2>1. call' = [call EXCEPT ![p] = end] /\ end.ret = -1
      BY <1>7 DEF ReadCopyFails, Failed, Result
    <2> HIDE DEF end
    <2>2. QED
      BY <1>2, <2>1
  <1>8. QED
    BY <1>3, <1>5, <1>6, <1>7

\* A read gives the bytes the device holds at its position when it returns, at least
\* one if there is any, although it searches and copies in separate steps and any
\* number of threads write: the semaphore keeps them out in between.
THEOREM ReadsGiveBytes == Spec => ReadGivesBytesAtPosition
  <1>1. ASSUME IInv, [Next]_vars
        PROVE  [\A p \in Procs : ReadReturns(p) => call'[p].ret = -1 \/ IsAtPosition(p)]_vars
    BY <1>1, ReadIsRight
  <1>2. QED
    BY <1>1, Invariance, PTL DEF Spec, ReadGivesBytesAtPosition

-----------------------------------------------------------------------------
(* Where seeks lead *)

\* What is known of a seek that returns.
LEMMA SeekKnows ==
  ASSUME IInv, [Next]_vars, NEW p \in Procs, Seeking(p)
  PROVE  /\ R!IInv /\ Kept = R!Concatenation /\ Ring!TotalSize = Len(Kept) /\ Len(Kept) \in Nat
         /\ call[p] \in LlseekCalls \cup IoctlCalls
         /\ call[p].op = "llseek" => Llseek(p)
         /\ call[p].op = "ioctl" => AdjustFileOffset(p) /\ call[p] \in IoctlCalls
  <1>1. call[p].at = "locked" /\ call[p].op \in {"llseek", "ioctl"} /\ call'[p] = NoCall
    BY DEF Seeking
  <1>2. call[p] \in Calls \cup {NoCall} /\ R!IInv
    BY <1>1, NobodyDiedInside DEF IInv, CallsAreCalls
  <1>3. Kept = R!Concatenation /\ Ring!TotalSize = Len(Kept) /\ Len(Kept) \in Nat
    <2>1. R!TotalSize = Len(R!Concatenation)
      BY <1>2, RingAssumptions, R!TotalIsLength
    <2>2. Len(R!Concatenation) \in Nat
      BY <1>2, RingAssumptions, R!ConcatenationLength
    <2>3. QED
      BY <2>1, <2>2, RingContents
  <1>4. call'[p] # call[p]
    BY <1>1 DEF NoCall
  <1>5. Work(p)
    BY <1>1, <1>4, CallMovesByWork
  <1>6. ~ReadFind(p) /\ ~ReadCopy(p) /\ ~ReadCopyFails(p) /\ ~Return(p)
    BY <1>1 DEF ReadFind, ReadCopy, ReadCopyFails, Return, Locked
  <1>7. ~WriteWithCache(p) /\ ~AddToCache(p) /\ ~CacheAllocationFails(p) /\ ~RingAllocationFails(p)
    BY <1>1 DEF WriteWithCache, AddToCache, CacheAllocationFails, RingAllocationFails, Locked
  <1>8. Llseek(p) \/ AdjustFileOffset(p)
    BY <1>5, <1>6, <1>7 DEF Work
  <1>9. (call[p].op = "llseek" => Llseek(p)) /\ (call[p].op = "ioctl" => AdjustFileOffset(p))
    BY <1>8 DEF Llseek, AdjustFileOffset, Locked
  <1>10. QED
    BY <1>1, <1>2, <1>3, <1>9, KindOfCall

\* The bytes of a command are bytes of the device.
LEMMA CommandIsInData ==
  ASSUME IInv, R!IInv, NEW c \in IoctlCalls
  PROVE  /\ CommandPosition(c) \in Nat
         /\ InCommand(c) => CommandPosition(c) < Ring!TotalSize
  <1> DEFINE slot == c.write_cmd
             offset == c.write_cmd_offset
  <1>1. slot \in R!Slots /\ offset \in Nat
    BY DEF IoctlCalls, R!Slots
  <1>2. CommandPosition(c) = Ring!ArrayStart(slot) + offset /\ (InCommand(c) <=> offset < entry[slot].size)
    BY DEF CommandPosition, InCommand
  <1> HIDE DEF slot, offset
  <1>3. /\ R!ArrayStart(slot) \in Nat /\ entry[slot].size \in Nat
        /\ R!ArrayStart(slot) + entry[slot].size <= R!TotalSize
    BY <1>1, RingAssumptions, R!ArrayEndsInTotal
  <1>4. Ring!ArrayStart(slot) = R!ArrayStart(slot) /\ Ring!TotalSize = R!TotalSize
    BY RingStarts, RingContents
  <1>5. R!TotalSize \in Int
    BY RingAssumptions, R!TotalIsLength, R!ConcatenationLength
  <1>6. QED
    BY <1>1, <1>2, <1>3, <1>4, <1>5

LEMMA SeekIsRight ==
  ASSUME IInv, [Next]_vars, NEW p \in Procs, Seeking(p), f_pos' # f_pos
  PROVE  IsInData(p)
  <1> DEFINE c == call[p]
  <1>1. /\ R!IInv /\ Ring!TotalSize = Len(Kept) /\ Len(Kept) \in Nat
        /\ c \in LlseekCalls \cup IoctlCalls
        /\ c.op = "llseek" => Llseek(p)
        /\ c.op = "ioctl" => AdjustFileOffset(p) /\ c \in IoctlCalls
    BY SeekKnows
  <1>2. c.filp \in Files /\ c.op \in {"llseek", "ioctl"} /\ f_pos \in [Files -> Nat]
    BY <1>1 DEF LlseekCalls, IoctlCalls, IInv
  <1>3. ASSUME NEW pos, NEW valid, ReturnSeek(p, pos, valid)
        PROVE  valid /\ f_pos'[c.filp] = pos
    BY <1>2, <1>3 DEF ReturnSeek
  <1>4. CASE c.op = "llseek"
    <2> DEFINE base == CASE c.whence = "SEEK_SET" -> 0
                         [] c.whence = "SEEK_CUR" -> f_pos[c.filp]
                         [] c.whence = "SEEK_END" -> Ring!TotalSize
               newpos == base + c.offset
    <2>1. ReturnSeek(p, newpos, InDevice(newpos))
      BY <1>1, <1>4 DEF Llseek
    <2>2. c \in LlseekCalls
      BY <1>1, <1>4 DEF LlseekCalls, IoctlCalls
    <2>3. newpos \in Int
      BY <1>1, <1>2, <2>2 DEF LlseekCalls
    <2> HIDE DEF newpos, c
    <2>4. InDevice(newpos) /\ f_pos'[c.filp] = newpos
      BY <1>3, <2>1
    <2>5. newpos \in 0 .. Len(Kept)
      BY <1>1, <2>3, <2>4 DEF InDevice
    <2>6. QED
      BY <1>4, <2>4, <2>5 DEF IsInData, c
  <1>5. CASE c.op = "ioctl"
    <2> DEFINE pos == CommandPosition(c)
    <2>1. ReturnSeek(p, pos, InCommand(c)) /\ c \in IoctlCalls
      BY <1>1, <1>5 DEF AdjustFileOffset
    <2>2. pos \in Nat /\ (InCommand(c) => pos < Len(Kept))
      BY <1>1, <2>1, CommandIsInData
    <2> HIDE DEF pos
    <2>3. InCommand(c) /\ f_pos'[c.filp] = pos
      BY <1>3, <2>1
    <2>4. pos \in 0 .. Len(Kept) /\ pos < Len(Kept)
      BY <1>1, <2>2, <2>3
    <2>5. QED
      BY <2>3, <2>4 DEF IsInData
  <1>6. QED
    BY <1>2, <1>4, <1>5

\* A seek that moves the position leaves it on a byte of the device, or at its end for
\* llseek: the sums over the array that llseek and ioctl compare with agree with what
\* the ring holds, whatever the other threads wrote before.
THEOREM SeeksInData == Spec => SeeksLandInData
  <1>1. ASSUME IInv, [Next]_vars
        PROVE  [\A p \in Procs : Seeking(p) /\ f_pos' # f_pos => IsInData(p)]_vars
    BY <1>1, SeekIsRight
  <1>2. QED
    BY <1>1, Invariance, PTL DEF Spec, SeeksLandInData

LEMMA CommandIsFound ==
  ASSUME IInv, [Next]_vars, NEW p \in Procs, Seeking(p), call[p].op = "ioctl", ~full
  PROVE  FindsCommand(p)
  <1> DEFINE c == call[p]
             slot == c.write_cmd
  <1>1. R!IInv /\ AdjustFileOffset(p) /\ c \in IoctlCalls
    BY SeekKnows
  <1>2. slot \in R!Slots
    BY <1>1 DEF IoctlCalls, R!Slots
  <1>3. R!At(slot) = slot /\ R!StartOf(slot) = R!ArrayStart(slot)
    BY <1>1, <1>2, RingAssumptions, R!OrdersAgree
  <1>4. Ring!At(slot) = slot /\ Ring!StartOf(slot) = Ring!ArrayStart(slot)
    BY <1>3, RingStarts
  <1>5. f_pos' = IF InCommand(c) THEN [f_pos EXCEPT ![c.filp] = CommandPosition(c)] ELSE f_pos
    BY <1>1 DEF AdjustFileOffset, ReturnSeek
  <1>6. QED
    BY <1>4, <1>5, Zenon DEF FindsCommand, InCommand, CommandPosition

\* As long as the ring has not wrapped, AESDCHAR_IOCSEEKTO finds the line it names,
\* counted from the oldest: only then is the order of the array the order of the lines.
THEOREM CommandFoundBeforeWrap == Spec => CommandSeekBeforeWrap
  <1>1. ASSUME IInv, [Next]_vars
        PROVE  [\A p \in Procs : Seeking(p) /\ call[p].op = "ioctl" /\ ~full => FindsCommand(p)]_vars
    BY <1>1, CommandIsFound
  <1>2. QED
    BY <1>1, Invariance, PTL DEF Spec, CommandSeekBeforeWrap

-----------------------------------------------------------------------------
(* The device implements LineLog *)

\* The line that is not complete yet: what partial stands for.
Partial == IF cache.buffptr = NULL THEN << >> ELSE cache.buffptr

\* Appending to the partial line is appending to what is cached.
LEMMA PartialCompletes ==
  ASSUME IInv, NEW piece, IsPieceOfLine(piece)
  PROVE  Partial \o piece = Completed(piece)
  <1>1. CASE cache.buffptr = NULL
    <2>1. piece \in Seq(Bytes)
      BY DEF IsPieceOfLine, Strings
    <2>2. Partial = Nothing /\ Completed(piece) = piece
      BY <1>1 DEF Partial, Nothing, Completed
    <2>3. Then(Nothing, piece) = piece
      BY <2>1, NothingIsSeq
    <2>4. QED
      BY <2>2, <2>3 DEF Then
  <1>2. CASE cache.buffptr # NULL
    BY <1>2 DEF Partial, Completed
  <1>3. QED
    BY <1>1, <1>2

\* The write of each thread.
Writings == [q \in Procs |-> WriteOf(call[q])]

LEMMA WritingsMove ==
  ASSUME IInv, NEW p \in Procs, NEW new, call' = [call EXCEPT ![p] = new]
  PROVE  /\ Writings' = [Writings EXCEPT ![p] = WriteOf(new)]
         /\ Writings[p] = WriteOf(call[p])
  <1>1. call'[p] = new /\ \A q \in Procs : q # p => call'[q] = call[q]
    BY DEF IInv, CallsAreCalls
  <1> DEFINE write(c) == WriteOf(c)
  <1>2. Writings' = [q \in Procs |-> write(call'[q])] /\ Writings = [q \in Procs |-> write(call[q])]
    BY DEF Writings
  <1> HIDE DEF write
  <1>3. Writings' = [Writings EXCEPT ![p] = write(new)] /\ Writings[p] = write(call[p])
    BY <1>1, <1>2
  <1>4. QED
    BY <1>3 DEF write

\* A step that leaves the ring, the cache and the write of its thread alone.
LEMMA StuttersInLog ==
  ASSUME IInv, NEW p \in Procs, NEW new, call' = [call EXCEPT ![p] = new], WriteOf(new) = WriteOf(call[p]),
         ring' = ring, cache' = cache
  PROVE  UNCHANGED Log!vars
  <1>1. Ring!Contents' = Ring!Contents
    BY DEF ring, Ring!Contents, Ring!Count, Ring!At
  <1>2. Writings' = Writings
    <2> DEFINE write == WriteOf(new)
    <2>1. Writings' = [Writings EXCEPT ![p] = write] /\ Writings[p] = write
      BY WritingsMove
    <2>2. Writings = [q \in Procs |-> Writings[q]]
      BY DEF Writings
    <2> HIDE DEF write
    <2>3. QED
      BY <2>1, <2>2
  <1>3. QED
    BY <1>1, <1>2 DEF Log!vars, Writings

\* The write of a call that stored a piece.
LEMMA WriteOfPieceWritten ==
  ASSUME NEW c \in WriteCalls, NEW pos
  PROVE  WriteOf(PieceWritten(c, pos)) = Log!Writing(AfterPiece(c.rest))
  <1> DEFINE rest == AfterPiece(c.rest)
             none == << >>
             next == [c EXCEPT !.at = "lock", !.pos = pos, !.rest = rest]
             result == Result(c, pos, c.count, none)
  <1>1. PieceWritten(c, pos) = IF rest = none THEN result ELSE next
    BY DEF PieceWritten, AfterPiece
  <1>2. Log!Writing(rest) = IF rest = none THEN Log!Stored ELSE [at |-> "writing", rest |-> rest]
    BY DEF Log!Writing
  <1> HIDE DEF none, rest
  <1>3. WriteOf(result) = Log!Stored
    BY DEF Result, WriteOf, WriteCalls, NoCall, Log!Stored
  <1>4. WriteOf(next) = [at |-> "writing", rest |-> rest]
    BY DEF WriteOf, WriteCalls, NoCall
  <1> HIDE DEF result, next
  <1>5. QED
    BY <1>1, <1>2, <1>3, <1>4 DEF rest

LEMMA AppendsToLog ==
  ASSUME IInv, NEW p \in Procs, WriteWithCache(p) \/ AddToCache(p)
  PROVE  Log!AppendPiece(p)
  <1> DEFINE rest == call[p].rest
             piece == NextPiece(rest)
             line == Completed(piece)
             n == Len(piece)
             none == << >>
  <1>1. Locked(p, "write")
    BY DEF WriteWithCache, AddToCache
  <1>2. /\ IsRest(rest) /\ R!IInv /\ IsPieceOfLine(piece) /\ IsPieceOfLine(line)
        /\ call[p] \in WriteCalls /\ call[p].at = "locked"
    BY <1>1, WriterKnows
  <1>3. rest \in Strings /\ IsCut(rest, n) /\ piece = SubSeq(rest, 1, n)
    BY <1>2, RestIsString, NextPieceProperties
  <1>4. Partial \o piece = line
    BY <1>2, PartialCompletes
  <1>5. n \in 1 .. Len(rest) /\ Log!IsFirstPiece(rest, n)
    BY <1>3 DEF IsCut, Log!IsFirstPiece
  <1>6. Writings[p] = [at |-> "writing", rest |-> rest]
    BY <1>2 DEF Writings, WriteOf, WriteCalls, NoCall
  <1>7. Writings' = [Writings EXCEPT ![p] = Log!Writing(SubSeq(rest, n + 1, Len(rest)))]
    <2>1. PICK pos : call' = [call EXCEPT ![p] = PieceWritten(call[p], pos)]
      BY DEF WriteWithCache, AddToCache
    <2>2. WriteOf(PieceWritten(call[p], pos)) = Log!Writing(AfterPiece(rest))
      BY <1>2, WriteOfPieceWritten
    <2>3. Writings' = [Writings EXCEPT ![p] = WriteOf(PieceWritten(call[p], pos))]
      BY <2>1, WritingsMove
    <2>4. AfterPiece(rest) = SubSeq(rest, n + 1, Len(rest))
      BY DEF AfterPiece
    <2>5. QED
      BY <2>2, <2>3, <2>4
  <1>8. ASSUME Log!Extend(piece)
        PROVE  Log!AppendPiece(p)
    <2> HIDE DEF n
    <2>1. \E m \in 1 .. Len(rest) :
            /\ Log!IsFirstPiece(rest, m)
            /\ Log!Extend(SubSeq(rest, 1, m))
            /\ Writings' = [Writings EXCEPT ![p] = Log!Writing(SubSeq(rest, m + 1, Len(rest)))]
      BY <1>3, <1>5, <1>7, <1>8, Zenon
    <2>2. Writings[p].at = "writing" /\ Writings[p].rest = rest
      BY <1>6
    <2>3. \E m \in 1 .. Len(Writings[p].rest) :
            /\ Log!IsFirstPiece(Writings[p].rest, m)
            /\ Log!Extend(SubSeq(Writings[p].rest, 1, m))
            /\ Writings' = [Writings EXCEPT ![p] = Log!Writing(SubSeq(Writings[p].rest, m + 1, Len(Writings[p].rest)))]
      BY <2>1, <2>2, Zenon
    <2>4. QED
      BY <2>2, <2>3, Zenon DEF Log!AppendPiece, Writings
  <1>9. CASE WriteWithCache(p)
    <2>1. EndsLine(piece) /\ Ring!AddEntry(line) /\ cache' = Ring!NoEntry
      BY <1>9 DEF WriteWithCache
    <2> HIDE DEF piece, line, none
    <2>2. line \in Seq(Bytes)
      BY <1>2 DEF IsPieceOfLine, Strings
    <2>3. R!AddEntry(line)
      BY <2>1, RingAdds
    <2>4. R!Contents' = R!Abstract!Push(R!Contents, line)
      BY <1>2, <2>2, <2>3, RingAssumptions, R!AddEntryIsPush
    <2>5. Ring!Contents' = R!Contents'
      <3>1. (Ring!Contents = R!Contents)'
        <4>1. Ring!Contents = R!Contents
          BY RingContents
        <4>2. QED
          BY RingContents, PTL
      <3>2. QED
        BY <3>1
    <2>6. Ring!Contents' = Log!Keep!Push(Ring!Contents, line)
      BY <2>4, <2>5, RingContents DEF Log!Keep!Push, R!Abstract!Push
    <2>7. Partial' = none
      BY <2>1 DEF Partial, Ring!NoEntry, none
    <2>8. piece[Len(piece)] = NL
      BY <2>1 DEF EndsLine, Last
    <2>9. Log!Extend(piece)
      <3>1. Ring!Contents' = Log!Keep!Push(Ring!Contents, Partial \o piece)
        BY <1>4, <2>6
      <3>2. QED
        BY <2>7, <2>8, <3>1, Zenon DEF Log!Extend, Partial, none
    <2>10. QED
      BY <1>8, <2>9
  <1>10. CASE AddToCache(p)
    <2>1. ~EndsLine(piece) /\ UNCHANGED ring /\ cache'.buffptr = line
      BY <1>10 DEF AddToCache
    <2> HIDE DEF piece, line, none
    <2>2. line # NULL
      BY <1>2, DriverAssumption DEF IsPieceOfLine, Strings
    <2>3. Partial' = line
      BY <2>1, <2>2 DEF Partial
    <2>4. Ring!Contents' = Ring!Contents
      BY <2>1 DEF ring, Ring!Contents, Ring!Count, Ring!At
    <2>5. piece[Len(piece)] # NL
      BY <2>1 DEF EndsLine, Last
    <2>6. Log!Extend(piece)
      <3>1. Partial' = Partial \o piece
        BY <1>4, <2>3
      <3>2. QED
        BY <2>4, <2>5, <3>1, Zenon DEF Log!Extend, Partial
    <2>7. QED
      BY <1>8, <2>6
  <1>11. QED
    BY <1>9, <1>10

\* A write begins, or fails before its first piece.
LEMMA BeginsInLog ==
  ASSUME IInv, NEW p \in Procs, BeginWrite(p) \/ BeginWriteFails(p)
  PROVE  Log!Begin(p) \/ Log!Fail(p)
  <1>1. PICK filp \in opened, buf \in Writes :
          \/ Begin(p, IF buf = << >> THEN Result(WriteCall(filp, buf), WriteCall(filp, buf).pos, 0, << >>)
                                     ELSE WriteCall(filp, buf))
          \/ "user" \in Failing /\ Begin(p, Failed(WriteCall(filp, buf)))
    BY DEF BeginWrite, BeginWriteFails
  <1> DEFINE none == << >>
             c == WriteCall(filp, buf)
             empty_write == Result(c, c.pos, 0, none)
             new == IF buf = none THEN empty_write ELSE c
             failed == Failed(c)
  <1>2. buf \in Seq(Bytes) /\ Len(buf) \in Nat
    BY DriverAssumption
  <1>3. Len(none) = 0
    OBVIOUS
  <1>4. Log!Writing(buf) = IF buf = none THEN Log!Stored ELSE [at |-> "writing", rest |-> buf]
    BY DEF Log!Writing
  <1>5. Begin(p, new) \/ ("user" \in Failing /\ Begin(p, failed))
    BY <1>1
  <1> HIDE DEF none
  <1>6. WriteOf(empty_write) = IF Len(buf) = 0 THEN Log!Stored ELSE Log!Failed
    BY <1>2 DEF WriteOf, Result, WriteCall, NoCall, Log!Stored, Log!Failed
  <1>7. WriteOf(c) = [at |-> "writing", rest |-> buf]
    BY DEF WriteOf, WriteCall, NoCall
  <1>8. WriteOf(failed) = Log!Failed
    BY <1>2 DEF WriteOf, Failed, Result, WriteCall, NoCall, Log!Failed
  <1> HIDE DEF c, empty_write, failed
  <1>9. WriteOf(new) = Log!Writing(buf)
    BY <1>3, <1>4, <1>6, <1>7
  <1> HIDE DEF new
  <1>10. /\ call[p] = NoCall
         /\ \/ call' = [call EXCEPT ![p] = new]
            \/ "user" \in Failing /\ call' = [call EXCEPT ![p] = failed]
         /\ ring' = ring /\ cache' = cache
    BY <1>5 DEF Begin
  <1>11. Writings[p] = Log!NoWrite
    BY <1>10 DEF Writings, WriteOf, Log!NoWrite
  <1>12. Ring!Contents' = Ring!Contents
    BY <1>10 DEF ring, Ring!Contents, Ring!Count, Ring!At
  <1>13. Partial' = Partial
    BY <1>10 DEF Partial
  <1>14. CASE call' = [call EXCEPT ![p] = new]
    <2>1. Writings' = [Writings EXCEPT ![p] = Log!Writing(buf)]
      BY <1>9, <1>14, WritingsMove
    <2>2. Log!Begin(p)
      BY <1>11, <1>12, <1>13, <2>1 DEF Log!Begin, Writings, Partial
    <2>3. QED
      BY <2>2
  <1>15. CASE "user" \in Failing /\ call' = [call EXCEPT ![p] = failed]
    <2>1. Writings' = [Writings EXCEPT ![p] = Log!Failed]
      BY <1>8, <1>15, WritingsMove
    <2>2. Writings[p].at = "none"
      BY <1>11 DEF Log!NoWrite
    <2>3. Log!Fail(p)
      BY <1>12, <1>13, <1>15, <2>1, <2>2 DEF Log!Fail, Writings, Partial
    <2>4. QED
      BY <2>3
  <1>16. QED
    BY <1>10, <1>14, <1>15

\* A write fails in the middle.
LEMMA FailsInLog ==
  ASSUME IInv, NEW p \in Procs, CacheAllocationFails(p)
  PROVE  Log!Fail(p)
  <1>1. call[p] \in WriteCalls /\ call[p].at = "locked"
    BY WriterKnows DEF CacheAllocationFails
  <1>2. /\ call' = [call EXCEPT ![p] = Failed(call[p])]
        /\ ring' = ring /\ cache' = cache /\ Failing # {}
    BY DEF CacheAllocationFails
  <1>3. Writings[p].at = "writing"
    BY <1>1 DEF Writings, WriteOf, WriteCalls, NoCall
  <1>4. WriteOf(Failed(call[p])) = Log!Failed
    BY <1>1 DEF WriteOf, Failed, Result, WriteCalls, NoCall, Log!Failed
  <1>5. Writings' = [Writings EXCEPT ![p] = Log!Failed]
    BY <1>2, <1>4, WritingsMove
  <1>6. Ring!Contents' = Ring!Contents
    BY <1>2 DEF ring, Ring!Contents, Ring!Count, Ring!At
  <1>7. Partial' = Partial
    BY <1>2 DEF Partial
  <1>8. QED
    BY <1>2, <1>3, <1>5, <1>6, <1>7 DEF Log!Fail, Writings, Partial

\* A write returns.
LEMMA FinishesInLog ==
  ASSUME IInv, NEW p \in Procs, Return(p), call[p].op = "write"
  PROVE  Log!Finish(p)
  <1>1. call[p] \in Results
    BY KindOfCall DEF Return, IInv, CallsAreCalls
  <1>2. call' = [call EXCEPT ![p] = NoCall] /\ ring' = ring /\ cache' = cache
    BY DEF Return
  <1>3. Writings[p] \in {Log!Stored, Log!Failed}
    BY <1>1 DEF Writings, WriteOf, Results, NoCall, Log!Stored, Log!Failed
  <1>4. WriteOf(NoCall) = Log!NoWrite
    BY DEF WriteOf, Log!NoWrite
  <1>5. Writings' = [Writings EXCEPT ![p] = Log!NoWrite]
    BY <1>2, <1>4, WritingsMove
  <1>6. Ring!Contents' = Ring!Contents
    BY <1>2 DEF ring, Ring!Contents, Ring!Count, Ring!At
  <1>7. Partial' = Partial
    BY <1>2 DEF Partial
  <1>8. QED
    BY <1>3, <1>5, <1>6, <1>7 DEF Log!Finish, Writings, Partial

\* No other step does anything to the log.
LEMMA OthersStutterInLog ==
  ASSUME IInv, NEW p \in Procs,
         \/ BeginRead(p) \/ BeginLlseek(p) \/ BeginIoctl(p)
         \/ DownRead(p) \/ DownWrite(p) \/ ReadFind(p) \/ ReadCopy(p) \/ ReadCopyFails(p)
         \/ Llseek(p) \/ AdjustFileOffset(p)
         \/ Return(p) /\ call[p].op # "write"
  PROVE  UNCHANGED Log!vars
  <1> DEFINE no_write == [at |-> "none"]
  <1>1. ASSUME NEW c, c.op # "write"
        PROVE  WriteOf(c) = no_write
    BY <1>1 DEF WriteOf
  <1>2. WriteOf(NoCall) = no_write
    BY DEF WriteOf
  <1>3. call[p] \in Calls \cup {NoCall}
    BY DEF IInv, CallsAreCalls
  <1> HIDE DEF no_write
  <1>4. CASE BeginRead(p) \/ BeginLlseek(p) \/ BeginIoctl(p)
    <2>1. PICK c : c.op # "write" /\ Begin(p, c)
      BY <1>4 DEF BeginRead, BeginLlseek, BeginIoctl, ReadCall, LlseekCall, IoctlCall
    <2>2. QED
      BY <1>1, <1>2, <2>1, StuttersInLog DEF Begin
  <1>5. CASE DownRead(p) \/ DownWrite(p)
    <2> DEFINE new == [call[p] EXCEPT !.at = "locked"]
    <2>1. call' = [call EXCEPT ![p] = new] /\ call[p].at = "lock" /\ ring' = ring /\ cache' = cache
      BY <1>5 DEF DownRead, DownWrite
    <2>2. WriteOf(new) = WriteOf(call[p])
      BY <1>3, <2>1 DEF WriteOf, NoCall, Calls, ReadCalls, CopyCalls, WriteCalls, LlseekCalls, IoctlCalls, Results
    <2>3. QED
      BY <2>1, <2>2, StuttersInLog
  <1>6. CASE ReadFind(p) \/ ReadCopy(p) \/ ReadCopyFails(p)
    <2>1. call[p].op = "read"
      BY <1>3, <1>6, KindOfCall DEF ReadFind, ReadCopy, ReadCopyFails, Locked, CopyCalls
    <2>2. PICK new : call' = [call EXCEPT ![p] = new] /\ new.op = "read"
      BY <1>6, <2>1 DEF ReadFind, ReadCopy, ReadCopyFails, Result, Failed
    <2>3. ring' = ring /\ cache' = cache
      BY <1>6 DEF ReadFind, ReadCopy, ReadCopyFails
    <2>4. QED
      BY <1>1, <2>1, <2>2, <2>3, StuttersInLog
  <1>7. CASE Llseek(p) \/ AdjustFileOffset(p)
    <2>1. call[p].op # "write" /\ call' = [call EXCEPT ![p] = NoCall] /\ ring' = ring /\ cache' = cache
      BY <1>7 DEF Llseek, AdjustFileOffset, ReturnSeek, Locked
    <2>2. QED
      BY <1>1, <1>2, <2>1, StuttersInLog
  <1>8. CASE Return(p) /\ call[p].op # "write"
    <2>1. call' = [call EXCEPT ![p] = NoCall] /\ ring' = ring /\ cache' = cache
      BY <1>8 DEF Return
    <2>2. QED
      BY <1>1, <1>2, <1>8, <2>1, StuttersInLog
  <1>9. QED
    BY <1>4, <1>5, <1>6, <1>7, <1>8

\* Every step of the driver is a step of the log, or leaves it alone.
LEMMA StepsOfLog ==
  ASSUME IInv, [Next]_vars, "ring" \notin Failing
  PROVE  [Log!Next]_(Log!vars)
  <1>1. ASSUME UNCHANGED << ring, cache, call >>
        PROVE  UNCHANGED Log!vars
    <2>1. Ring!Contents' = Ring!Contents
      BY <1>1 DEF ring, Ring!Contents, Ring!Count, Ring!At
    <2>2. Writings' = Writings
      BY <1>1 DEF Writings
    <2>3. QED
      BY <1>1, <2>1, <2>2 DEF Log!vars, Writings
  <1>2. ASSUME NEW p \in Procs, Log!Begin(p) \/ Log!AppendPiece(p) \/ Log!Fail(p) \/ Log!Finish(p)
        PROVE  Log!Next
    BY <1>2 DEF Log!Next
  <1>3. ASSUME NEW p \in Procs, BeginCall(p) \/ DownRead(p) \/ DownWrite(p) \/ Work(p)
        PROVE  Log!Next \/ UNCHANGED Log!vars
    <2>1. ~RingAllocationFails(p)
      BY DEF RingAllocationFails
    <2>2. CASE BeginWrite(p) \/ BeginWriteFails(p)
      BY <1>2, <2>2, BeginsInLog
    <2>3. CASE WriteWithCache(p) \/ AddToCache(p)
      BY <1>2, <2>3, AppendsToLog
    <2>4. CASE CacheAllocationFails(p)
      BY <1>2, <2>4, FailsInLog
    <2>5. CASE Return(p) /\ call[p].op = "write"
      BY <1>2, <2>5, FinishesInLog
    <2>6. QED
      BY <1>3, <2>1, <2>2, <2>3, <2>4, <2>5, OthersStutterInLog, Zenon DEF BeginCall, Work
  <1>4. ASSUME NEW filp \in Files, Open(filp) \/ Release(filp)
        PROVE  UNCHANGED Log!vars
    BY <1>1, <1>4 DEF Open, Release
  <1>5. CASE UNCHANGED vars
    BY <1>1, <1>5 DEF vars
  <1>6. CASE Next
    BY <1>3, <1>4, <1>6 DEF Next
  <1>7. QED
    BY <1>5, <1>6

\* As long as the ring gets its memory, concurrent writes append to one log of the last
\* N lines and the line that is not complete: a write that returns its count has
\* appended each of its pieces once and in order, none lost, repeated or torn, although
\* it releases the semaphore between its lines; one that fails has appended the first
\* few of them and returns an error.
THEOREM Refinement == ASSUME "ring" \notin Failing PROVE Spec => ImplementsLineLog
  <1>1. Init => Log!Init
    <2> SUFFICES ASSUME Init
                 PROVE  Log!Init
      OBVIOUS
    <2>1. Ring!Contents = << >> /\ Partial = << >>
      BY DEF Init, Ring!Init, Ring!Contents, Ring!Count, Ring!NoEntry, Partial
    <2>2. Writings = [p \in Procs |-> Log!NoWrite]
      BY DEF Init, Writings, WriteOf, Log!NoWrite
    <2>3. QED
      BY <2>1, <2>2 DEF Log!Init, Partial, Writings
  <1>2. ASSUME IInv, [Next]_vars
        PROVE  [Log!Next]_(Log!vars)
    BY <1>2, StepsOfLog
  <1>3. QED
    BY <1>1, <1>2, Invariance, PTL DEF Spec, ImplementsLineLog, Log!Spec
=============================================================================
