------------------------ MODULE SocketRequestsProofs ------------------------
(***************************************************************************)
(* Proofs about SocketRequests, for any clients, any buffer and both       *)
(* builds.                                                                 *)
(*                                                                         *)
(* BaseInv holds whatever fails: types, mutual exclusion, and where the    *)
(* position may be.  On top of it PositionInv follows the position of the  *)
(* regular file, on which the timer depends, and the packets in the file,  *)
(* and ReplyInv what a client has received.                                *)
(***************************************************************************)
EXTENDS SocketRequests, SequenceLemmas

Byte == (Clients \cup {Timer, NULL}) \X Nat \X Kinds

Inside == {"seek_end", "writing", "start", "end", "back", "reading", "sending"}

Request ==
  [at : {"recv", "ioctl", "write", "sync", "read", "closed"} \cup Inside,
   status : {"in_progress", "success", "error"},
   packet : Seq(Byte), rest : Seq(Byte), whence : {"SEEK_SET", "SEEK_CUR"}, start : Nat, todo : Nat,
   chunk : Seq(Byte), sended : Nat, reply : Seq(Byte)]

ThreadTypes ==
  /\ device \in Builds
  /\ mutex \in Clients \cup {Timer, NULL}
  /\ ticks \in 0 .. MaxTicks
  /\ alive \in BOOLEAN
  /\ stamp \in Seq(Byte) /\ Len(stamp) <= 2
  /\ request \in [Clients -> Request]
  /\ \A c \in Clients : request[c].packet \in Packets(c)

\* The position is in the regular file or at its end.
FileTypes ==
  /\ taken \in Seq(Byte) /\ f_pos \in Nat
  /\ ~device => f_pos <= Size

\* The thread that is between lock and unlock, and no other, has the mutex.
MutexIsHeld ==
  /\ \A c \in Clients : request[c].at \in Inside <=> mutex = c
  /\ stamp # Nothing <=> mutex = Timer

\* What a thread knows where it is.
Knows(c) ==
  LET r == request[c]
  IN  /\ r.whence = "SEEK_CUR" => device /\ c \in Seekers
      /\ r.at = "ioctl" => r.whence = "SEEK_CUR"
      /\ r.at \in {"write", "seek_end", "writing"} => Len(r.rest) > 0
      /\ r.at \in {"end", "back"} => r.start <= Size
      /\ r.at \in {"end", "back", "reading", "sending"} /\ r.whence = "SEEK_SET" => r.start = 0

\* Nothing is left of the threads of a process that has ended.
DeadIsQuiet == ~alive => mutex = NULL /\ \A c \in Clients : request[c].at = "closed"

BaseInv == ThreadTypes /\ FileTypes /\ MutexIsHeld /\ DeadIsQuiet /\ \A c \in Clients : Knows(c)

\* Every byte but a first one follows the one before it of its packet.
Whole(bytes) ==
  \A i \in DOMAIN bytes :
    bytes[i][2] > 1 => i > 1 /\ bytes[i - 1][1] = bytes[i][1] /\ bytes[i - 1][2] = bytes[i][2] - 1

\* Where the regular file is left when the mutex is, and the timer may write.
AtEnd == ~device /\ alive /\ mutex \in {Timer, NULL} => f_pos = Size

Positioned(c) ==
  LET r == request[c]
  IN  ~device =>
        /\ r.at = "writing" => f_pos = Size
        /\ r.at = "back" => r.todo = Size
        /\ r.at \in {"reading", "sending"} => f_pos + r.todo = Size

\* What a client still has to write completes what it has written; what it has
\* written stays in the file.
Written(c) ==
  LET r == request[c]
  IN  /\ r.at \in {"write", "seek_end"} => r.rest = r.packet
      /\ r.at = "writing" => /\ Whole(Then(taken, r.rest))
                             /\ Range(r.packet) \subseteq Range(Then(taken, r.rest))
      /\ r.at \in {"sync", "read", "start", "end", "back", "reading", "sending"} /\ r.whence = "SEEK_SET" =>
           Range(r.packet) \subseteq Range(taken)

\* What the timer still has to write completes what it has written.
Stamped == stamp # Nothing => Whole(Then(taken, stamp))

PositionInv == AtEnd /\ Whole(taken) /\ Stamped /\ \A c \in Clients : Positioned(c) /\ Written(c)

\* No other client has sent a seek command.
Undisturbed(c) == \A d \in Clients \ {c} : request[d].whence = "SEEK_SET"

\* What a client has received and what is on its way to it is the range up to the
\* position, and what is to come is the rest.
Replied(c) ==
  LET r == request[c]
  IN  /\ r.at \notin {"reading", "sending", "closed"} => r.reply = Nothing
      /\ r.at = "back" => r.todo = Size - r.start
      /\ Undisturbed(c) /\ r.at \in {"reading", "sending"} =>
           /\ r.start <= f_pos /\ f_pos <= Size /\ r.todo = Size - f_pos
           /\ r.at = "reading" => r.reply = SubSeq(Content, r.start + 1, f_pos)
           /\ r.at = "sending" => r.sended = 0 /\ Then(r.reply, r.chunk) = SubSeq(Content, r.start + 1, f_pos)

ReplyInv == \A c \in Clients : Replied(c)

-----------------------------------------------------------------------------
(* Bytes, packets and the file *)

Senders == Clients \cup {Timer, NULL}

\* The packet of a sender begins with its first byte, and each byte follows the last.
LEMMA PacketProperties ==
  ASSUME NEW from \in Senders, NEW length \in Nat, NEW kinds \in [1 .. length -> Kinds]
  PROVE  /\ Packet(from, kinds) \in Seq(Byte)
         /\ Len(Packet(from, kinds)) = length
         /\ \A i \in 1 .. length : /\ Packet(from, kinds)[i][1] = from
                                   /\ Packet(from, kinds)[i][2] = i
  <1> DEFINE byte(i) == << from, i, kinds[i] >>
             packet == [i \in 1 .. length |-> byte(i)]
  <1>1. ASSUME NEW i \in 1 .. length
        PROVE  byte(i) \in Byte /\ byte(i)[1] = from /\ byte(i)[2] = i
    <2> DEFINE kind == kinds[i]
    <2>1. kind \in Kinds /\ i \in Nat
      OBVIOUS
    <2> HIDE DEF kind
    <2>2. << from, i, kind >> \in Byte
      BY <2>1 DEF Byte, Senders
    <2>3. << from, i, kind >>[1] = from /\ << from, i, kind >>[2] = i
      OBVIOUS
    <2>4. QED
      BY <2>2, <2>3 DEF kind
  <1>2. packet = Packet(from, kinds)
    <2>1. DOMAIN kinds = 1 .. length
      OBVIOUS
    <2>2. QED
      BY <2>1 DEF Packet
  <1> HIDE DEF byte
  <1>3. packet \in Seq(Byte) /\ Len(packet) = length /\ \A i \in 1 .. length : packet[i] = byte(i)
    BY <1>1
  <1> HIDE DEF packet
  <1>4. QED
    BY <1>1, <1>2, <1>3

LEMMA PacketsAreWhole ==
  ASSUME NEW c \in Clients, NEW packet \in Packets(c)
  PROVE  /\ packet \in Seq(Byte) /\ Len(packet) \in Nat
         /\ packet # << >> <=> Len(packet) > 0
         /\ \A i \in 1 .. Len(packet) : packet[i][1] = c /\ packet[i][2] = i
  <1>1. CASE packet = << >>
    BY <1>1, EmptySeq
  <1>2. CASE packet # << >>
    <2>1. PICK shape \in Shapes : packet = Packet(c, shape)
      BY <1>2 DEF Packets
    <2>2. PICK length \in 1 .. BufferSize : shape \in [1 .. length -> Kinds]
      BY RequestsAssumption
    <2>3. c \in Senders /\ length \in Nat /\ length > 0
      BY RequestsAssumption DEF Senders
    <2>4. packet \in Seq(Byte) /\ Len(packet) = length /\ \A i \in 1 .. length : packet[i][1] = c /\ packet[i][2] = i
      BY <2>1, <2>2, <2>3, PacketProperties
    <2>5. QED
      BY <1>2, <2>3, <2>4
  <1>3. QED
    BY <1>1, <1>2

LEMMA LineProperties ==
  ASSUME NEW from \in Senders
  PROVE  /\ Line(from) \in Seq(Byte) /\ Len(Line(from)) = 2
         /\ \A i \in 1 .. 2 : Line(from)[i][1] = from /\ Line(from)[i][2] = i
  <1> DEFINE kinds == <<"text", "newline">>
             length == 2
             packet == Packet(from, kinds)
  <1>1. kinds \in [1 .. length -> Kinds] /\ length \in Nat
    BY DEF Kinds
  <1>2. Line(from) = packet
    BY DEF Line
  <1> HIDE DEF kinds, length
  <1>3. /\ packet \in Seq(Byte) /\ Len(packet) = length
        /\ \A i \in 1 .. length : packet[i][1] = from /\ packet[i][2] = i
    BY <1>1, PacketProperties
  <1> HIDE DEF packet
  <1>4. QED
    BY <1>2, <1>3 DEF length

LEMMA TimestampProperties ==
  /\ Timestamp \in Seq(Byte) /\ Len(Timestamp) = 2
  /\ \A i \in 1 .. 2 : Timestamp[i][1] = Timer /\ Timestamp[i][2] = i
  <1>1. Timer \in Senders
    BY DEF Senders
  <1>2. QED
    BY <1>1, LineProperties DEF Timestamp

\* What a read can give ends where the last of the stops is.
LEMMA StopsAreInFile ==
  ASSUME taken \in Seq(Byte)
  PROVE  /\ Size \in Nat /\ Size <= Len(taken)
         /\ Stops \subseteq Nat /\ \A e \in Stops : e <= Size
         /\ ~device => Size = Len(taken)
  <1> DEFINE ends == {0} \cup Stops
             length == Len(taken)
  <1>1. length \in Nat /\ DOMAIN taken = 1 .. length
    OBVIOUS
  <1>2. \A e \in Stops : e \in Nat /\ e <= length
    BY <1>1 DEF Stops
  <1>3. ~device => length \in Stops
    BY DEF Stops
  <1> HIDE DEF length
  <1>4. ends \in SUBSET Nat /\ ends # {} /\ \A e \in ends : e <= length
    BY <1>1, <1>2
  <1>5. Size = Max(ends)
    BY DEF Size
  <1>6. \A e \in Stops : e \in ends
    OBVIOUS
  <1> HIDE DEF ends
  <1>7. Size \in ends /\ \A e \in ends : e <= Size
    BY <1>1, <1>4, <1>5, MaxIsMember
  <1>8. Size \in Nat /\ Size <= length
    BY <1>4, <1>7
  <1>9. ~device => Size = length
    BY <1>1, <1>3, <1>6, <1>7, <1>8
  <1>10. QED
    BY <1>2, <1>6, <1>7, <1>8, <1>9 DEF length

LEMMA FileIsBytes ==
  ASSUME FileTypes
  PROVE  /\ Content \in Seq(Byte) /\ Size \in Nat /\ Len(Content) = Size
         /\ taken \in Seq(Byte) /\ Size <= Len(taken)
         /\ ~device => Size = Len(taken)
  <1>1. taken \in Seq(Byte) /\ Size \in Nat /\ Size <= Len(taken) /\ (~device => Size = Len(taken))
    BY StopsAreInFile DEF FileTypes
  <1> DEFINE size == Size
  <1>2. 1 \in 1 .. Len(taken) + 1 /\ size \in 1 - 1 .. Len(taken) /\ size - 1 + 1 = size
    BY <1>1
  <1> HIDE DEF size
  <1>3. SubSeq(taken, 1, size) \in Seq(Byte) /\ Len(SubSeq(taken, 1, size)) = size
    BY <1>1, <1>2, Slice
  <1>4. QED
    BY <1>1, <1>3 DEF Content, size

\* A range of what can be read is one of what has been taken.
LEMMA RangeOfContent ==
  ASSUME FileTypes, NEW i \in Nat, NEW j \in i .. Size
  PROVE  SubSeq(Content, i + 1, j) = SubSeq(taken, i + 1, j)
  <1> DEFINE s == taken
             t == Content
             size == Size
             a == SubSeq(t, i + 1, j)
             b == SubSeq(s, i + 1, j)
  <1>1. s \in Seq(Byte) /\ t \in Seq(Byte) /\ Len(t) = size /\ size \in Nat /\ size <= Len(s)
    BY FileIsBytes
  <1>2. t = SubSeq(s, 1, size)
    BY DEF Content
  <1>3. j \in i .. size
    OBVIOUS
  <1> HIDE DEF s, t, size
  <1>4. /\ 1 \in 1 .. Len(s) + 1 /\ size \in 1 - 1 .. Len(s)
        /\ i + 1 \in 1 .. Len(s) + 1 /\ j \in (i + 1) - 1 .. Len(s)
        /\ i + 1 \in 1 .. Len(t) + 1 /\ j \in (i + 1) - 1 .. Len(t)
    BY <1>1, <1>3
  <1>5. \A k \in 1 .. size - 1 + 1 : SubSeq(s, 1, size)[k] = s[1 + k - 1]
    BY <1>1, <1>4, Slice
  <1>6. \A k \in 1 .. size : t[k] = s[k]
    BY <1>1, <1>2, <1>5
  <1>7. a \in Seq(Byte) /\ Len(a) = j - (i + 1) + 1 /\ \A k \in 1 .. j - (i + 1) + 1 : a[k] = t[i + 1 + k - 1]
    BY <1>1, <1>4, Slice
  <1>8. b \in Seq(Byte) /\ Len(b) = j - (i + 1) + 1 /\ \A k \in 1 .. j - (i + 1) + 1 : b[k] = s[i + 1 + k - 1]
    BY <1>1, <1>4, Slice
  <1> HIDE DEF a, b
  <1>9. \A k \in 1 .. j - (i + 1) + 1 : a[k] = b[k]
    BY <1>1, <1>3, <1>6, <1>7, <1>8
  <1>10. a = b
    BY <1>3, <1>7, <1>8, <1>9
  <1>11. QED
    BY <1>10 DEF a, b, s, t

\* The device appends what it is given to what it has taken.
LEMMA WriteDeviceAppends ==
  ASSUME FileTypes, NEW bytes \in Seq(Byte), WriteDevice(bytes)
  PROVE  taken' \in Seq(Byte) /\ f_pos' \in Nat /\ taken' = Then(taken, bytes)
  <1> DEFINE ends == \E i \in DOMAIN bytes : IsNewline(bytes[i])
             back == Len(taken) - Size
  <1>1. taken \in Seq(Byte) /\ f_pos \in Nat /\ Len(bytes) \in Nat
    BY DEF FileTypes
  <1>2. back \in Nat
    BY <1>1, FileIsBytes
  <1>3. taken' = Then(taken, bytes)
    BY DEF WriteDevice, Then
  <1>4. f_pos' = f_pos + Len(bytes) + (IF ends THEN back ELSE 0)
    BY DEF WriteDevice
  <1> HIDE DEF ends, back
  <1>5. f_pos' \in Nat
    BY <1>1, <1>2, <1>4
  <1>6. Then(taken, bytes) \in Seq(Byte)
    BY <1>1, ThenProperties
  <1>7. QED
    BY <1>3, <1>5, <1>6

LEMMA RegularSize ==
  ASSUME NEW n \in Nat
  PROVE  Max({0} \cup {n}) = n
  <1> DEFINE both == {0} \cup {n}
  <1>1. both \in SUBSET Nat /\ both # {} /\ n \in both /\ \A m \in both : m <= n /\ m \in Nat
    OBVIOUS
  <1> HIDE DEF both
  <1> DEFINE max == Max(both)
  <1>2. max \in both /\ \A m \in both : m <= max
    BY <1>1, MaxIsMember
  <1> HIDE DEF max
  <1>3. max \in Nat /\ max <= n /\ n <= max
    BY <1>1, <1>2
  <1>4. QED
    BY <1>3 DEF both, max

\* At its end the regular file is appended to as well.
LEMMA WriteFileWrites ==
  ASSUME FileTypes, ~device, device' = device, NEW bytes \in Seq(Byte), WriteFile(bytes)
  PROVE  /\ FileTypes'
         /\ f_pos = Size => taken' = Then(taken, bytes) /\ f_pos' = Size'
  <1> DEFINE content == taken
             before == SubSeq(content, 1, f_pos)
             after == SubSeq(content, f_pos + Len(bytes) + 1, Len(content))
             middle == Then(before, bytes)
             new == Then(middle, after)
  <1>1. /\ content \in Seq(Byte) /\ Len(content) \in Nat /\ Size = Len(content)
        /\ f_pos \in Nat /\ f_pos <= Len(content) /\ Len(bytes) \in Nat
    BY FileIsBytes DEF FileTypes
  <1>2. taken' = new /\ f_pos' = f_pos + Len(bytes)
    BY DEF WriteFile, Then
  <1> HIDE DEF content
  <1>3. before \in Seq(Byte) /\ Len(before) = f_pos /\ (f_pos = Len(content) => before = content)
    <2>1. 1 \in 1 .. Len(content) + 1 /\ f_pos \in 1 - 1 .. Len(content) /\ f_pos - 1 + 1 = f_pos
      BY <1>1
    <2>2. before \in Seq(Byte) /\ Len(before) = f_pos
      BY <1>1, <2>1, Slice
    <2>3. f_pos = Len(content) => before = content
      BY <1>1, SubSeqFull
    <2>4. QED
      BY <2>2, <2>3
  <1>4. after \in Seq(Byte) /\ Len(after) \in Nat /\ (f_pos = Len(content) => after = Nothing)
    <2> DEFINE m == f_pos + Len(bytes) + 1
               n == Len(content)
    <2>1. m \in Int /\ n \in Int /\ \A i \in m .. n : i \in 1 .. n
      BY <1>1
    <2>2. \A i \in 1 .. n : content[i] \in Byte
      BY <1>1, ElementOfSeq
    <2>3. \A i \in m .. n : content[i] \in Byte
      BY <2>1, <2>2
    <2>4. f_pos = Len(content) => n < m
      BY <1>1
    <2> HIDE DEF m, n
    <2>5. SubSeq(content, m, n) \in Seq(Byte) /\ Len(SubSeq(content, m, n)) \in Nat
      BY <2>1, <2>3, SubSeqProperties
    <2>6. n < m => SubSeq(content, m, n) = Nothing
      BY <2>1, SubSeqEmpty DEF Nothing
    <2>7. QED
      BY <2>4, <2>5, <2>6 DEF m, n
  <1> HIDE DEF before, after
  <1>5. middle \in Seq(Byte) /\ Len(middle) = f_pos + Len(bytes)
    <2>1. before \in Seq(Byte) /\ bytes \in Seq(Byte)
      BY <1>3
    <2>2. middle \in Seq(Byte) /\ Len(middle) = Len(before) + Len(bytes)
      BY <2>1, ThenProperties
    <2>3. QED
      BY <1>3, <2>2
  <1> HIDE DEF middle
  <1>6. new \in Seq(Byte) /\ Len(new) = f_pos + Len(bytes) + Len(after)
    <2>1. middle \in Seq(Byte) /\ after \in Seq(Byte)
      BY <1>4, <1>5
    <2>2. new \in Seq(Byte) /\ Len(new) = Len(middle) + Len(after)
      BY <2>1, ThenProperties
    <2>3. QED
      BY <1>5, <2>2
  <1>7. f_pos = Len(content) => new = Then(content, bytes) /\ Len(new) = f_pos + Len(bytes)
    <2>1. Then(middle, Nothing) = middle
      BY <1>5, ConcatEmptySeq DEF Then, Nothing
    <2>2. Len(Nothing) = 0
      BY NothingIsSeq
    <2>3. QED
      BY <1>1, <1>3, <1>4, <1>6, <2>1, <2>2 DEF middle
  <1> HIDE DEF new
  <1>8. Size' = Len(taken')
    <2>1. Len(taken') \in Nat
      BY <1>2, <1>6
    <2>2. Stops' = {Len(taken')}
      BY DEF Stops
    <2>3. Size' = Max({0} \cup {Len(taken')})
      BY <2>2 DEF Size
    <2>4. QED
      BY <2>1, <2>3, RegularSize
  <1>9. FileTypes'
    <2>1. f_pos' \in Nat /\ f_pos' <= Size'
      BY <1>1, <1>2, <1>4, <1>6, <1>8
    <2>2. QED
      BY <1>2, <1>6, <2>1 DEF FileTypes
  <1>10. QED
    BY <1>1, <1>2, <1>7, <1>8, <1>9 DEF content

\* Where a write appends what it is given: anywhere in the device, at the end of the
\* regular file.
Appends == device \/ f_pos = Size

LEMMA WriteWrites ==
  ASSUME FileTypes, device \in BOOLEAN, device' = device, NEW bytes \in Seq(Byte), Write(bytes)
  PROVE  /\ FileTypes'
         /\ Appends => taken' = Then(taken, bytes)
         /\ ~device /\ f_pos = Size => f_pos' = Size'
  <1>1. CASE device
    <2>1. WriteDevice(bytes)
      BY <1>1 DEF Write
    <2>2. QED
      BY <1>1, <2>1, WriteDeviceAppends DEF FileTypes
  <1>2. CASE ~device
    <2>1. WriteFile(bytes)
      BY <1>2 DEF Write
    <2>2. QED
      BY <1>2, <2>1, WriteFileWrites DEF Appends
  <1>3. QED
    BY <1>1, <1>2

\* A read gives bytes of the file at the position, no more than it was asked for.
LEMMA ReadsFile ==
  ASSUME FileTypes, NEW pos \in Nat, NEW count \in Nat
  PROVE  /\ ReadAt(pos, count) \in Seq(Byte)
         /\ Len(ReadAt(pos, count)) \in 0 .. count
         /\ pos <= Size =>
              /\ pos + Len(ReadAt(pos, count)) <= Size
              /\ ReadAt(pos, count) = SubSeq(Content, pos + 1, pos + Len(ReadAt(pos, count)))
  <1> DEFINE ends == {e \in Stops : e > pos}
             read == ReadAt(pos, count)
             size == Size
  <1>1. /\ taken \in Seq(Byte) /\ size \in Nat /\ size <= Len(taken)
        /\ \A e \in Stops : e \in Nat /\ e <= size
    BY FileIsBytes, StopsAreInFile DEF FileTypes
  <1>2. ends \subseteq Nat /\ \A e \in ends : e > pos /\ e <= size
    BY <1>1
  <1> DEFINE end == Min(ends)
             last == Min({pos + count, end})
  <1>3. read = IF ends = {} THEN << >> ELSE SubSeq(taken, pos + 1, last)
    BY DEF ReadAt
  <1> HIDE DEF size, ends, read
  <1>4. CASE ends = {}
    <2>1. read = Nothing
      BY <1>3, <1>4 DEF Nothing
    <2>2. read \in Seq(Byte) /\ Len(read) = 0
      BY <2>1, NothingIsSeq
    <2>3. SubSeq(Content, pos + 1, pos + 0) = Nothing
      <3>1. pos + 1 \in Int /\ pos + 0 \in Int /\ pos + 0 < pos + 1
        OBVIOUS
      <3>2. QED
        BY <3>1, SubSeqEmpty DEF Nothing
    <2>4. pos + Len(read) = pos + 0 /\ (pos <= Size => SubSeq(Content, pos + 1, pos + 0) = Nothing)
      BY <2>2, <2>3
    <2>5. QED
      BY <2>1, <2>2, <2>4 DEF read
  <1>5. CASE ends # {}
    <2>1. end \in ends
      BY <1>2, <1>5, MinIsMember
    <2>2. end \in Nat /\ end > pos /\ end <= size
      BY <1>2, <2>1
    <2> HIDE DEF end
    <2>3. last \in {pos + count, end} /\ last <= pos + count /\ last <= end
      <3> DEFINE both == {pos + count, end}
      <3>1. both \in SUBSET Nat /\ both # {}
        BY <2>2
      <3>2. pos + count \in both /\ end \in both
        OBVIOUS
      <3> HIDE DEF both
      <3>3. Min(both) \in both /\ \A n \in both : Min(both) <= n
        BY <3>1, MinIsMember
      <3>4. QED
        BY <3>2, <3>3 DEF both
    <2> HIDE DEF last
    <2>4. last \in Nat /\ pos <= last /\ last <= size
      BY <1>1, <2>2, <2>3
    <2>5. pos + 1 \in 1 .. Len(taken) + 1 /\ last \in (pos + 1) - 1 .. Len(taken)
      BY <1>1, <2>2, <2>4
    <2>6. read \in Seq(Byte) /\ Len(read) = last - (pos + 1) + 1
      BY <1>1, <1>3, <1>5, <2>5, Slice
    <2>7. Len(read) = last - pos /\ pos + Len(read) = last
      BY <2>4, <2>6
    <2>8. SubSeq(Content, pos + 1, last) = SubSeq(taken, pos + 1, last)
      <3>1. last \in pos .. Size
        BY <2>4 DEF size
      <3>2. QED
        BY <3>1, RangeOfContent
    <2>9. Len(read) \in 0 .. count
      BY <2>3, <2>4, <2>7
    <2>10. read = SubSeq(Content, pos + 1, pos + Len(read))
      BY <1>3, <1>5, <2>7, <2>8
    <2>11. pos + Len(read) <= size
      BY <2>4, <2>7
    <2>12. QED
      BY <2>6, <2>9, <2>10, <2>11 DEF read, size
  <1>6. QED
    BY <1>4, <1>5

-----------------------------------------------------------------------------
(* Steps of one client's thread *)

Enters(c, new) == request' = [request EXCEPT ![c] = new]

HoldsMutex(c, new) ==
  \/ mutex' = mutex /\ (new.at \in Inside <=> request[c].at \in Inside)
  \/ mutex = NULL /\ mutex' = c /\ new.at \in Inside
  \/ request[c].at \in Inside /\ mutex' = NULL /\ new.at \notin Inside

\* The file is changed with the mutex held; without it only ioctl moves the position.
TouchesFile(c) ==
  \/ request[c].at \in Inside
  \/ UNCHANGED file
  \/ UNCHANGED taken /\ device /\ request[c].whence = "SEEK_CUR"

Moves(c, new) ==
  /\ Enters(c, new) /\ UNCHANGED timer /\ request[c].at # "closed"
  /\ new \in Request /\ new.packet \in Packets(c)
  /\ request[c].whence = "SEEK_CUR" => new.whence = "SEEK_CUR"
  /\ HoldsMutex(c, new) /\ TouchesFile(c)

LEMMA EntersRequest ==
  ASSUME BaseInv, NEW c \in Clients, NEW new, Enters(c, new)
  PROVE  /\ request'[c] = new
         /\ \A d \in Clients : d # c => request'[d] = request[d]
  BY DEF BaseInv, ThreadTypes, Enters

LEMMA FileUnchanged ==
  ASSUME UNCHANGED << taken, device >>
  PROVE  /\ Content' = Content /\ Size' = Size /\ taken' = taken
         /\ UNCHANGED f_pos => (FileTypes' <=> FileTypes)
  <1>1. Stops' = Stops
    BY DEF Stops
  <1>2. Size' = Size
    BY <1>1 DEF Size
  <1>3. Content' = Content
    BY <1>2 DEF Content
  <1>4. QED
    BY <1>2, <1>3 DEF FileTypes

\* Another thread is not inside when one is.
LEMMA OthersAreOutside ==
  ASSUME BaseInv, NEW c \in Clients, request[c].at \in Inside, NEW d \in Clients, d # c
  PROVE  request[d].at \notin Inside
  BY DEF BaseInv, MutexIsHeld

LEMMA KeepsBase ==
  ASSUME BaseInv, NEW c \in Clients, NEW new, Moves(c, new), FileTypes', Knows(c)'
  PROVE  BaseInv'
  <1>1. request'[c] = new /\ \A d \in Clients : d # c => request'[d] = request[d]
    BY EntersRequest DEF Moves
  <1>2. UNCHANGED << device, alive, ticks, stamp >>
    BY DEF Moves, timer
  <1>3. mutex' \in {mutex, c, NULL}
    BY DEF Moves, HoldsMutex
  <1>4. ThreadTypes'
    <2>1. request' \in [Clients -> Request]
      BY DEF BaseInv, ThreadTypes, Moves, Enters
    <2>2. \A d \in Clients : request'[d].packet \in Packets(d)
      BY <1>1 DEF BaseInv, ThreadTypes, Moves
    <2>3. \A d : Packets(d)' = Packets(d)
      BY DEF Packets, Packet
    <2>4. mutex' \in Clients \cup {Timer, NULL}
      BY <1>3 DEF BaseInv, ThreadTypes
    <2>5. QED
      BY <1>2, <2>1, <2>2, <2>3, <2>4 DEF BaseInv, ThreadTypes
  <1>5. MutexIsHeld'
    <2>1. c # NULL /\ c # Timer /\ NULL # Timer /\ NULL \notin Clients
      BY RequestsAssumption
    <2>2. \A d \in Clients : request[d].at \in Inside <=> mutex = d
      BY DEF BaseInv, MutexIsHeld
    <2>3. \A d \in Clients : request'[d].at \in Inside <=> mutex' = d
      BY <1>1, <2>1, <2>2 DEF Moves, HoldsMutex
    <2>4. stamp' # Nothing <=> mutex' = Timer
      BY <1>2, <2>1, <2>2 DEF BaseInv, MutexIsHeld, Moves, HoldsMutex
    <2>5. QED
      BY <2>3, <2>4 DEF MutexIsHeld
  <1>6. ASSUME NEW d \in Clients, d # c
        PROVE  Knows(d)'
    <2>1. request'[d] = request[d] /\ device' = device /\ Knows(d)
      BY <1>1, <1>2, <1>6 DEF BaseInv
    <2>2. CASE Size' = Size
      BY <2>1, <2>2 DEF Knows
    <2>3. CASE Size' # Size
      <3>1. request[c].at \in Inside
        BY <1>2, <2>3, FileUnchanged DEF Moves, TouchesFile, file
      <3>2. request[d].at \notin Inside
        BY <1>6, <3>1, OthersAreOutside
      <3>3. request[d].at \notin {"end", "back"}
        BY <3>2 DEF Inside
      <3>4. QED
        BY <2>1, <3>3 DEF Knows
    <2>4. QED
      BY <2>2, <2>3
  <1>7. DeadIsQuiet'
    <2>1. alive
      BY DEF Moves, BaseInv, DeadIsQuiet
    <2>2. QED
      BY <1>2, <2>1 DEF DeadIsQuiet
  <1>8. QED
    BY <1>4, <1>5, <1>6, <1>7 DEF BaseInv

LEMMA KeepsPosition ==
  ASSUME BaseInv, PositionInv, NEW c \in Clients, NEW new, Moves(c, new),
         AtEnd', Positioned(c)', Written(c)',
         \/ UNCHANGED taken
         \/ Whole(taken') /\ Range(taken) \subseteq Range(taken')
  PROVE  PositionInv'
  <1>1. request'[c] = new /\ \A d \in Clients : d # c => request'[d] = request[d]
    BY EntersRequest DEF Moves
  <1>2. UNCHANGED << device, alive, ticks, stamp >>
    BY DEF Moves, timer
  <1>3. Whole(taken)' /\ Range(taken) \subseteq Range(taken')
    <2>1. CASE UNCHANGED taken
      BY <1>2, <2>1, FileUnchanged DEF PositionInv, Whole
    <2>2. CASE Whole(taken') /\ Range(taken) \subseteq Range(taken')
      BY <2>2 DEF Whole
    <2>3. QED
      BY <2>1, <2>2
  <1>4. ASSUME NEW d \in Clients, d # c
        PROVE  Positioned(d)' /\ Written(d)'
    <2>1. request'[d] = request[d] /\ Positioned(d) /\ Written(d)
      BY <1>1, <1>4 DEF PositionInv
    <2>2. CASE request[c].at \in Inside
      <3>1. request[d].at \notin Inside
        BY <1>4, <2>2, OthersAreOutside
      <3>2. request[d].at \notin {"seek_end", "writing", "start", "end", "back", "reading", "sending"}
        BY <3>1 DEF Inside
      <3>3. Positioned(d)'
        BY <2>1, <3>2 DEF Positioned
      <3>4. Written(d)'
        BY <1>3, <2>1, <3>2 DEF Written
      <3>5. QED
        BY <3>3, <3>4
    <2>3. CASE request[c].at \notin Inside
      <3>1. UNCHANGED taken /\ (~device => f_pos' = f_pos)
        BY <2>3 DEF Moves, TouchesFile, file
      <3>2. Content' = Content /\ Size' = Size /\ taken' = taken
        BY <1>2, <3>1, FileUnchanged
      <3>3. Positioned(d)'
        BY <1>2, <2>1, <3>1, <3>2 DEF Positioned
      <3>4. Written(d)'
        BY <2>1, <3>2 DEF Written, Whole
      <3>5. QED
        BY <3>3, <3>4
    <2>4. QED
      BY <2>2, <2>3
  <1>5. Stamped'
    <2>1. CASE stamp = Nothing
      BY <1>2, <2>1 DEF Stamped
    <2>2. CASE stamp # Nothing
      <3>1. mutex = Timer /\ c # Timer
        BY <2>2, RequestsAssumption DEF BaseInv, MutexIsHeld
      <3>2. request[c].at \notin Inside
        BY <3>1 DEF BaseInv, MutexIsHeld
      <3>3. taken' = taken
        BY <3>2 DEF Moves, TouchesFile, file
      <3>4. QED
        BY <1>2, <3>3 DEF PositionInv, Stamped, Whole
    <2>3. QED
      BY <2>1, <2>2
  <1>6. QED
    BY <1>3, <1>4, <1>5 DEF PositionInv

LEMMA KeepsReply ==
  ASSUME BaseInv, ReplyInv, NEW c \in Clients, NEW new, Moves(c, new), Replied(c)'
  PROVE  ReplyInv'
  <1>1. request'[c] = new /\ \A d \in Clients : d # c => request'[d] = request[d]
    BY EntersRequest DEF Moves
  <1>2. ASSUME NEW d \in Clients, d # c
        PROVE  Replied(d)'
    <2>1. request'[d] = request[d] /\ Replied(d)
      BY <1>1, <1>2 DEF ReplyInv
    <2>2. CASE request[c].at \in Inside
      <3>1. request[d].at \notin Inside
        BY <1>2, <2>2, OthersAreOutside
      <3>2. request[d].at \notin {"back", "reading", "sending"}
        BY <3>1 DEF Inside
      <3>3. QED
        BY <2>1, <3>2 DEF Replied
    <2>3. CASE request[c].at \notin Inside
      <3>1. UNCHANGED taken /\ (f_pos' = f_pos \/ new.whence = "SEEK_CUR")
        BY <2>3 DEF Moves, TouchesFile, file
      <3>2. Content' = Content /\ Size' = Size
        BY <3>1, FileUnchanged DEF Moves, timer
      <3>3. Undisturbed(d)' => Undisturbed(d) /\ f_pos' = f_pos
        <4>1. SUFFICES ASSUME \A e \in Clients \ {d} : request'[e].whence = "SEEK_SET"
                       PROVE  Undisturbed(d) /\ f_pos' = f_pos
          BY DEF Undisturbed
        <4>2. new.whence = "SEEK_SET"
          BY <1>1, <1>2, <4>1
        <4>3. request[c] \in Request
          BY DEF BaseInv, ThreadTypes
        <4>4. request[c].whence = "SEEK_SET"
          BY <4>2, <4>3 DEF Moves, Request
        <4>5. QED
          BY <1>1, <3>1, <4>1, <4>2, <4>4 DEF Undisturbed
      <3>4. QED
        BY <2>1, <3>2, <3>3 DEF Replied
    <2>4. QED
      BY <2>2, <2>3
  <1>3. QED
    BY <1>2 DEF ReplyInv

-----------------------------------------------------------------------------
(* Steps that do not write *)

\* No reply on the regular file is cut off, and no earlier run has left a line in it:
\* its position is at its end when the mutex is free.
PositionKept ==
  \A build \in Builds : ~build => build \notin Leftover /\ {"read", "send"} \cap Failures[build] = {}

\* No send takes a part of its bytes.
NoShortSends == \A build \in Builds : "short_send" \notin Failures[build]

StaysRight ==
  /\ BaseInv'
  /\ PositionKept /\ PositionInv => PositionInv'
  /\ NoShortSends /\ ReplyInv => ReplyInv'

LEMMA MoveFacts ==
  ASSUME BaseInv, NEW c \in Clients, NEW new, Moves(c, new), UNCHANGED taken
  PROVE  /\ request'[c] = new /\ device' = device /\ alive' = alive
         /\ Content' = Content /\ Size' = Size /\ taken' = taken
         /\ Undisturbed(c)' <=> Undisturbed(c)
  <1>1. request'[c] = new /\ \A d \in Clients : d # c => request'[d] = request[d]
    BY EntersRequest DEF Moves
  <1>2. QED
    BY <1>1, FileUnchanged DEF Undisturbed, Moves, timer

LEMMA MoveKeeps ==
  ASSUME BaseInv, NEW c \in Clients, NEW new, Moves(c, new), UNCHANGED taken, FileTypes',
         Knows(c)',
         PositionKept /\ PositionInv => AtEnd' /\ Positioned(c)' /\ Written(c)',
         NoShortSends /\ ReplyInv => Replied(c)'
  PROVE  StaysRight
  BY KeepsBase, KeepsPosition, KeepsReply DEF StaysRight

LEMMA RequestFields ==
  ASSUME BaseInv, NEW c \in Clients
  PROVE  /\ request[c] \in Request /\ request[c].packet \in Packets(c) /\ Knows(c)
         /\ request \in [Clients -> Request]
         /\ device \in BOOLEAN /\ FileTypes
         /\ PositionInv => AtEnd /\ Positioned(c) /\ Written(c)
         /\ ReplyInv => Replied(c)
  BY RequestsAssumption DEF BaseInv, ThreadTypes, PositionInv, ReplyInv

\* recv, or a stop before it: nothing but the request changes, outside of the mutex.
LEMMA RecvKeeps ==
  ASSUME BaseInv, NEW c \in Clients, Recv(c)
  PROVE  StaysRight
  <1>1. PICK packet \in Packets(c) :
          request' = [request EXCEPT ![c].packet = packet, ![c].rest = packet,
                                     ![c].at = IF packet = << >> THEN "sync" ELSE "write"]
    BY DEF Recv
  <1> DEFINE r == request[c]
             at == IF packet = << >> THEN "sync" ELSE "write"
             new == [r EXCEPT !.packet = packet, !.rest = packet, !.at = at]
  <1>2. r \in Request /\ r.at = "recv" /\ Knows(c) /\ FileTypes
    BY RequestFields DEF Recv
  <1>3. packet \in Seq(Byte) /\ Len(packet) \in Nat /\ (packet # << >> <=> Len(packet) > 0)
    BY PacketsAreWhole
  <1>4. new \in Request /\ new.packet = packet /\ new.rest = packet /\ new.at = at /\ new.whence = r.whence
        /\ new.reply = r.reply
    BY <1>2, <1>3 DEF Request, Inside
  <1>5. Enters(c, new)
    BY <1>1 DEF Enters
  <1> HIDE DEF new
  <1>6. Moves(c, new) /\ UNCHANGED file /\ mutex' = mutex
    BY <1>2, <1>4, <1>5 DEF Moves, HoldsMutex, TouchesFile, Recv, Inside
  <1>7. UNCHANGED << taken, f_pos >>
    BY <1>6 DEF file
  <1>8. request'[c] = new /\ device' = device /\ alive' = alive /\ Content' = Content /\ Size' = Size /\ taken' = taken /\ FileTypes'
    BY <1>2, <1>6, <1>7, MoveFacts, FileUnchanged
  <1>9. Knows(c)'
    BY <1>2, <1>3, <1>4, <1>8 DEF Knows
  <1>10. ASSUME PositionInv
         PROVE  AtEnd' /\ Positioned(c)' /\ Written(c)'
    <2>1. AtEnd'
      BY <1>6, <1>7, <1>8, <1>10 DEF PositionInv, AtEnd
    <2>2. Positioned(c)'
      BY <1>4, <1>8 DEF Positioned
    <2>3. packet = << >> => Range(packet) \subseteq Range(taken)
      BY EmptySeq DEF Range
    <2>4. Written(c)'
      BY <1>4, <1>8, <2>3 DEF Written
    <2>5. QED
      BY <2>1, <2>2, <2>4
  <1>11. ASSUME ReplyInv
         PROVE  Replied(c)'
    <2>1. r.reply = Nothing
      BY <1>2, <1>11 DEF ReplyInv, Replied
    <2>2. QED
      BY <1>4, <1>8, <2>1 DEF Replied
  <1>12. QED
    BY <1>6, <1>7, <1>8, <1>9, <1>10, <1>11, MoveKeeps

LEMMA RecvFailsKeeps ==
  ASSUME BaseInv, NEW c \in Clients, RecvFails(c)
  PROVE  StaysRight
  <1> DEFINE r == request[c]
             new == [r EXCEPT !.at = "closed", !.status = "error"]
  <1>1. r \in Request /\ r.at = "recv" /\ Knows(c) /\ FileTypes /\ r.packet \in Packets(c)
    BY RequestFields DEF RecvFails
  <1>2. new \in Request /\ new.packet = r.packet /\ new.at = "closed" /\ new.whence = r.whence
    BY <1>1 DEF Request, Inside
  <1>3. Enters(c, new)
    BY DEF Enters, RecvFails, Close
  <1> HIDE DEF new
  <1>4. Moves(c, new) /\ UNCHANGED file /\ mutex' = mutex
    BY <1>1, <1>2, <1>3 DEF Moves, HoldsMutex, TouchesFile, RecvFails, Inside
  <1>5. UNCHANGED << taken, f_pos >>
    BY <1>4 DEF file
  <1>6. request'[c] = new /\ device' = device /\ alive' = alive /\ Content' = Content /\ Size' = Size /\ taken' = taken /\ FileTypes'
    BY <1>1, <1>4, <1>5, MoveFacts, FileUnchanged
  <1>7. Knows(c)'
    BY <1>1, <1>2, <1>6 DEF Knows
  <1>8. PositionInv => AtEnd' /\ Positioned(c)' /\ Written(c)'
    BY <1>2, <1>4, <1>5, <1>6 DEF PositionInv, AtEnd, Positioned, Written
  <1>9. Replied(c)'
    BY <1>2, <1>6 DEF Replied
  <1>10. QED
    BY <1>4, <1>5, <1>6, <1>7, <1>8, <1>9, MoveKeeps

LEMMA RecvSeekCommandKeeps ==
  ASSUME BaseInv, NEW c \in Clients, RecvSeekCommand(c)
  PROVE  StaysRight
  <1> DEFINE r == request[c]
             new == [r EXCEPT !.at = "ioctl", !.whence = "SEEK_CUR"]
  <1>1. /\ r \in Request /\ r.at = "recv" /\ Knows(c) /\ FileTypes /\ r.packet \in Packets(c)
        /\ device /\ c \in Seekers
    BY RequestFields DEF RecvSeekCommand
  <1>2. /\ new \in Request /\ new.packet = r.packet /\ new.at = "ioctl" /\ new.whence = "SEEK_CUR"
        /\ new.reply = r.reply
    BY <1>1 DEF Request, Inside
  <1>3. Enters(c, new)
    BY <1>1 DEF Enters, RecvSeekCommand, BaseInv, ThreadTypes
  <1> HIDE DEF new
  <1>4. Moves(c, new) /\ UNCHANGED file /\ mutex' = mutex
    BY <1>1, <1>2, <1>3 DEF Moves, HoldsMutex, TouchesFile, RecvSeekCommand, Inside
  <1>5. UNCHANGED << taken, f_pos >>
    BY <1>4 DEF file
  <1>6. request'[c] = new /\ device' = device /\ alive' = alive /\ Content' = Content /\ Size' = Size /\ taken' = taken /\ FileTypes'
    BY <1>1, <1>4, <1>5, MoveFacts, FileUnchanged
  <1>7. Knows(c)'
    BY <1>1, <1>2, <1>6 DEF Knows
  <1>8. PositionInv => AtEnd' /\ Positioned(c)' /\ Written(c)'
    BY <1>1, <1>2, <1>4, <1>5, <1>6 DEF PositionInv, AtEnd, Positioned, Written
  <1>9. ReplyInv => Replied(c)'
    BY <1>1, <1>2, <1>6, RequestFields DEF Replied
  <1>10. QED
    BY <1>4, <1>5, <1>6, <1>7, <1>8, <1>9, MoveKeeps

\* ioctl moves the position to a byte of a line, or leaves it.
LEMMA IoctlKeeps ==
  ASSUME BaseInv, NEW c \in Clients, Ioctl(c)
  PROVE  StaysRight
  <1> DEFINE r == request[c]
             new == [r EXCEPT !.at = "read"]
  <1>1. /\ r \in Request /\ r.at = "ioctl" /\ Knows(c) /\ FileTypes /\ r.packet \in Packets(c)
        /\ device /\ r.whence = "SEEK_CUR"
    BY RequestFields DEF Ioctl, Knows
  <1>2. /\ new \in Request /\ new.packet = r.packet /\ new.at = "read" /\ new.whence = "SEEK_CUR"
        /\ new.reply = r.reply
    BY <1>1 DEF Request, Inside
  <1>3. Enters(c, new)
    BY DEF Enters, Ioctl, Go
  <1> HIDE DEF new
  <1>4. Moves(c, new) /\ UNCHANGED taken /\ mutex' = mutex
    BY <1>1, <1>2, <1>3 DEF Moves, HoldsMutex, TouchesFile, Ioctl, Inside
  <1>5. f_pos' \in Nat
    <2>1. CASE UNCHANGED f_pos
      BY <1>1, <2>1 DEF FileTypes
    <2>2. CASE f_pos' \in 0 .. Size - 1
      BY <2>2
    <2>3. QED
      BY <2>1, <2>2 DEF Ioctl
  <1>6. request'[c] = new /\ device' = device /\ alive' = alive /\ Content' = Content /\ Size' = Size /\ taken' = taken
    BY <1>4, MoveFacts
  <1>7. FileTypes'
    BY <1>1, <1>4, <1>5, <1>6 DEF FileTypes
  <1>8. Knows(c)'
    BY <1>1, <1>2, <1>6 DEF Knows
  <1>9. PositionInv => AtEnd' /\ Positioned(c)' /\ Written(c)'
    BY <1>1, <1>2, <1>6 DEF AtEnd, Positioned, Written
  <1>10. ReplyInv => Replied(c)'
    BY <1>1, <1>2, <1>6, RequestFields DEF Replied
  <1>11. QED
    BY <1>4, <1>6, <1>7, <1>8, <1>9, <1>10, MoveKeeps

\* lock and unlock, or nothing but that: the file stays as it is.
LEMMA LockKeeps ==
  ASSUME BaseInv, NEW c \in Clients, TakeLock(c)
  PROVE  StaysRight
  <1> DEFINE r == request[c]
             at == IF r.at = "write" THEN "seek_end" ELSE IF r.at = "sync" THEN "read" ELSE "start"
             new == [r EXCEPT !.at = at]
  <1>1. r \in Request /\ r.at \in {"write", "sync", "read"} /\ Knows(c) /\ FileTypes /\ r.packet \in Packets(c)
    BY RequestFields DEF TakeLock, WriteLock, Sync, ReadLock, LockFor
  <1>2. at \in {"seek_end", "read", "start"} /\ (at \in Inside <=> r.at # "sync")
    BY <1>1 DEF Inside
  <1>3. /\ new \in Request /\ new.packet = r.packet /\ new.at = at /\ new.whence = r.whence
        /\ new.reply = r.reply /\ new.rest = r.rest
    BY <1>1, <1>2 DEF Request, Inside
  <1>4. Enters(c, new) /\ mutex = NULL /\ mutex' = IF r.at = "sync" THEN NULL ELSE c
    <2>1. CASE WriteLock(c)
      BY <2>1 DEF WriteLock, LockFor, Lock, Go, Enters
    <2>2. CASE Sync(c)
      BY <2>2 DEF Sync, Go, Enters
    <2>3. CASE ReadLock(c)
      BY <2>3 DEF ReadLock, LockFor, Lock, Go, Enters
    <2>4. QED
      BY <2>1, <2>2, <2>3 DEF TakeLock
  <1>5. UNCHANGED << file, timer >>
    BY DEF TakeLock, WriteLock, Sync, ReadLock, LockFor
  <1> HIDE DEF new
  <1>6. Moves(c, new)
    <2>1. HoldsMutex(c, new)
      <3>1. r.at \notin Inside
        BY <1>1 DEF Inside
      <3>2. QED
        BY <1>2, <1>3, <1>4, <3>1 DEF HoldsMutex
    <2>2. QED
      BY <1>1, <1>3, <1>4, <1>5, <2>1 DEF Moves, TouchesFile
  <1>7. UNCHANGED << taken, f_pos >>
    BY <1>5 DEF file
  <1>8. request'[c] = new /\ device' = device /\ alive' = alive /\ Content' = Content /\ Size' = Size /\ taken' = taken /\ FileTypes'
    BY <1>1, <1>6, <1>7, MoveFacts, FileUnchanged
  <1>9. Knows(c)'
    BY <1>1, <1>2, <1>3, <1>8 DEF Knows
  <1>10. ASSUME PositionInv
         PROVE  AtEnd' /\ Positioned(c)' /\ Written(c)'
    <2>1. AtEnd'
      <3>1. c # NULL /\ c # Timer
        BY RequestsAssumption
      <3>2. QED
        BY <1>4, <1>7, <1>8, <1>10, <3>1 DEF PositionInv, AtEnd
    <2>2. Positioned(c)'
      BY <1>2, <1>3, <1>8 DEF Positioned
    <2>3. Written(c)'
      BY <1>1, <1>3, <1>8, <1>10, RequestFields DEF Written
    <2>4. QED
      BY <2>1, <2>2, <2>3
  <1>11. ReplyInv => Replied(c)'
    BY <1>1, <1>2, <1>3, <1>8, RequestFields DEF Replied
  <1>12. QED
    BY <1>6, <1>7, <1>8, <1>9, <1>10, <1>11, MoveKeeps

\* What has been taken stays whole with a packet after it.
LEMMA WholeWithPacket ==
  ASSUME NEW had \in Seq(Byte), Whole(had), NEW packet \in Seq(Byte), NEW from,
         \A i \in 1 .. Len(packet) : packet[i][1] = from /\ packet[i][2] = i
  PROVE  Whole(Then(had, packet))
  <1> DEFINE both == Then(had, packet)
             n == Len(had)
  <1>1. both \in Seq(Byte) /\ Len(both) = Len(had) + Len(packet)
    BY ThenProperties
  <1>2. \A i \in 1 .. Len(had) : both[i] = had[i]
    BY ThenProperties
  <1>3. \A i \in 1 .. Len(packet) : both[Len(had) + i] = packet[i]
    BY ThenProperties
  <1> HIDE DEF both
  <1>4. n \in Nat /\ Len(packet) \in Nat /\ DOMAIN both = 1 .. n + Len(packet) /\ DOMAIN had = 1 .. n
    BY <1>1
  <1> SUFFICES ASSUME NEW i \in 1 .. n + Len(packet), both[i][2] > 1
               PROVE  i > 1 /\ both[i - 1][1] = both[i][1] /\ both[i - 1][2] = both[i][2] - 1
    BY <1>4 DEF Whole, both
  <1>5. CASE i <= n
    <2>1. i \in DOMAIN had /\ both[i] = had[i]
      BY <1>2, <1>4, <1>5
    <2>2. i > 1 /\ had[i - 1][1] = had[i][1] /\ had[i - 1][2] = had[i][2] - 1
      BY <2>1 DEF Whole
    <2>3. both[i - 1] = had[i - 1]
      BY <1>2, <1>4, <1>5, <2>2
    <2>4. QED
      BY <2>1, <2>2, <2>3
  <1>6. CASE i > n
    <2> DEFINE k == i - n
    <2>1. k \in 1 .. Len(packet) /\ i = n + k
      BY <1>4, <1>6
    <2> HIDE DEF k
    <2>2. both[i] = packet[k] /\ packet[k][1] = from /\ packet[k][2] = k
      BY <1>3, <2>1
    <2>3. k > 1 /\ k - 1 \in 1 .. Len(packet) /\ i - 1 = n + (k - 1)
      BY <1>4, <2>1, <2>2
    <2>4. both[i - 1] = packet[k - 1] /\ packet[k - 1][1] = from /\ packet[k - 1][2] = k - 1
      BY <1>3, <2>3
    <2>5. QED
      BY <1>4, <2>1, <2>2, <2>3, <2>4
  <1>7. QED
    BY <1>4, <1>5, <1>6

LEMMA RangeOfBoth ==
  ASSUME NEW s \in Seq(Byte), NEW t \in Seq(Byte)
  PROVE  Range(s) \subseteq Range(Then(s, t)) /\ Range(t) \subseteq Range(Then(s, t))
  <1> DEFINE both == Then(s, t)
  <1>1. both \in Seq(Byte) /\ Len(both) = Len(s) + Len(t)
    BY ThenProperties
  <1>2. \A i \in 1 .. Len(s) : both[i] = s[i]
    BY ThenProperties
  <1>3. \A i \in 1 .. Len(t) : both[Len(s) + i] = t[i]
    BY ThenProperties
  <1> HIDE DEF both
  <1>4. DOMAIN both = 1 .. Len(s) + Len(t) /\ DOMAIN s = 1 .. Len(s) /\ DOMAIN t = 1 .. Len(t)
        /\ Len(s) \in Nat /\ Len(t) \in Nat
    BY <1>1
  <1>5. \A i \in 1 .. Len(s) : i \in 1 .. Len(s) + Len(t)
    BY <1>4
  <1>6. \A i \in 1 .. Len(t) : Len(s) + i \in 1 .. Len(s) + Len(t)
    BY <1>4
  <1>7. Range(s) \subseteq Range(both)
    BY <1>2, <1>4, <1>5 DEF Range
  <1>8. Range(t) \subseteq Range(both)
    BY <1>3, <1>4, <1>6 DEF Range
  <1>9. QED
    BY <1>7, <1>8 DEF both

LEMMA SeekEndKeeps ==
  ASSUME BaseInv, NEW c \in Clients, SeekEnd(c)
  PROVE  StaysRight
  <1> DEFINE r == request[c]
             new == [r EXCEPT !.at = "writing"]
  <1>1. r \in Request /\ r.at = "seek_end" /\ Knows(c) /\ FileTypes /\ r.packet \in Packets(c)
    BY RequestFields DEF SeekEnd
  <1>2. /\ new \in Request /\ new.packet = r.packet /\ new.at = "writing" /\ new.whence = r.whence
        /\ new.reply = r.reply /\ new.rest = r.rest
    BY <1>1 DEF Request, Inside
  <1>3. Enters(c, new) /\ f_pos' = Size
    BY DEF Enters, SeekEnd, Go
  <1> HIDE DEF new
  <1>4. Moves(c, new) /\ UNCHANGED taken /\ mutex' = mutex
    BY <1>1, <1>2, <1>3 DEF Moves, HoldsMutex, TouchesFile, SeekEnd, Inside
  <1>5. request'[c] = new /\ device' = device /\ alive' = alive /\ Content' = Content /\ Size' = Size /\ taken' = taken
    BY <1>4, MoveFacts
  <1>6. FileTypes' /\ Size \in Nat /\ taken \in Seq(Byte)
    BY <1>1, <1>3, <1>4, <1>5, FileIsBytes DEF FileTypes
  <1>7. Knows(c)'
    BY <1>1, <1>2, <1>5 DEF Knows
  <1>8. ASSUME PositionInv
        PROVE  AtEnd' /\ Positioned(c)' /\ Written(c)'
    <2>1. AtEnd' /\ Positioned(c)'
      BY <1>2, <1>3, <1>5 DEF AtEnd, Positioned
    <2>2. r.rest = r.packet /\ Whole(taken)
      BY <1>1, <1>8 DEF PositionInv, Written
    <2>3. r.packet \in Seq(Byte) /\ \A i \in 1 .. Len(r.packet) : r.packet[i][1] = c /\ r.packet[i][2] = i
      BY <1>1, PacketsAreWhole
    <2>4. Whole(Then(taken, r.packet)) /\ Range(r.packet) \subseteq Range(Then(taken, r.packet))
      <3> DEFINE packet == r.packet
                 had == taken
      <3>1. packet \in Seq(Byte) /\ had \in Seq(Byte) /\ Whole(had)
            /\ \A i \in 1 .. Len(packet) : packet[i][1] = c /\ packet[i][2] = i
        BY <1>6, <2>2, <2>3
      <3> HIDE DEF packet, had
      <3>2. Whole(Then(had, packet)) /\ Range(packet) \subseteq Range(Then(had, packet))
        BY <3>1, WholeWithPacket, RangeOfBoth
      <3>3. QED
        BY <3>2 DEF packet, had
    <2>5. Whole(Then(taken', new.rest)) /\ Range(new.packet) \subseteq Range(Then(taken', new.rest))
      BY <1>2, <1>5, <2>2, <2>4
    <2>6. Written(c)'
      BY <1>2, <1>5, <2>5 DEF Written, Whole
    <2>7. QED
      BY <2>1, <2>6
  <1>9. ReplyInv => Replied(c)'
    BY <1>1, <1>2, <1>5, RequestFields DEF Replied
  <1>10. QED
    BY <1>4, <1>5, <1>6, <1>7, <1>8, <1>9, MoveKeeps

\* A thread that gives up and releases the mutex, with the regular file's position at its end.
LEMMA GivingUpKeeps ==
  ASSUME BaseInv, NEW c \in Clients, Close(c, "error"), Unlock, request[c].at \in Inside, UNCHANGED << file, timer >>,
         PositionKept /\ PositionInv /\ ~device => f_pos = Size
  PROVE  StaysRight
  <1> DEFINE r == request[c]
             new == [r EXCEPT !.at = "closed", !.status = "error"]
  <1>1. r \in Request /\ r.at \in Inside /\ Knows(c) /\ FileTypes /\ r.packet \in Packets(c)
    BY RequestFields
  <1>2. new \in Request /\ new.packet = r.packet /\ new.at = "closed" /\ new.whence = r.whence
    BY <1>1 DEF Request, Inside
  <1>3. Enters(c, new) /\ mutex' = NULL
    BY DEF Enters, Close, Unlock
  <1> HIDE DEF new
  <1>4. Moves(c, new)
    BY <1>1, <1>2, <1>3 DEF Moves, HoldsMutex, TouchesFile, Inside
  <1>5. UNCHANGED << taken, f_pos >>
    BY DEF file
  <1>6. request'[c] = new /\ device' = device /\ alive' = alive /\ Content' = Content /\ Size' = Size /\ taken' = taken /\ FileTypes'
    BY <1>1, <1>4, <1>5, MoveFacts, FileUnchanged
  <1>7. Knows(c)'
    BY <1>1, <1>2, <1>6 DEF Knows
  <1>8. PositionKept /\ PositionInv => AtEnd' /\ Positioned(c)' /\ Written(c)'
    BY <1>2, <1>5, <1>6 DEF AtEnd, Positioned, Written
  <1>9. Replied(c)'
    BY <1>2, <1>6 DEF Replied
  <1>10. QED
    BY <1>4, <1>5, <1>6, <1>7, <1>8, <1>9, MoveKeeps

LEMMA FailuresKeep ==
  ASSUME BaseInv, NEW c \in Clients, WriteFails(c) \/ ReadFails(c) \/ SendFails(c)
  PROVE  StaysRight
  <1>1. device \in Builds
    BY DEF BaseInv, ThreadTypes
  <1>2. Close(c, "error") /\ Unlock /\ request[c].at \in Inside /\ UNCHANGED << file, timer >>
    BY DEF WriteFails, ReadFails, SendFails, Inside
  <1>3. PositionKept /\ PositionInv /\ ~device => f_pos = Size
    <2>1. WriteFails(c) /\ PositionInv /\ ~device => f_pos = Size
      BY RequestFields DEF WriteFails, Positioned
    <2>2. ReadFails(c) /\ PositionKept => device
      BY <1>1 DEF ReadFails, PositionKept
    <2>3. SendFails(c) /\ PositionKept => device
      BY <1>1 DEF SendFails, PositionKept
    <2>4. QED
      BY <2>1, <2>2, <2>3
  <1>4. QED
    BY <1>2, <1>3, GivingUpKeeps

LEMMA SeekStartKeeps ==
  ASSUME BaseInv, NEW c \in Clients, SeekStart(c)
  PROVE  StaysRight
  <1> DEFINE r == request[c]
             pos == IF r.whence = "SEEK_SET" THEN 0 ELSE f_pos
             new == [r EXCEPT !.start = pos, !.at = "end"]
  <1>1. /\ r \in Request /\ r.at = "start" /\ Knows(c) /\ FileTypes /\ r.packet \in Packets(c)
        /\ r.at \in Inside
    BY RequestFields DEF SeekStart, Inside
  <1>2. CASE device /\ pos > Size
    <2>1. Close(c, "error") /\ Unlock /\ UNCHANGED << file, timer >>
      BY <1>2 DEF SeekStart, file
    <2>2. QED
      BY <1>1, <1>2, <2>1, GivingUpKeeps
  <1>3. CASE ~(device /\ pos > Size)
    <2>1. f_pos \in Nat /\ Size \in Nat
      BY <1>1, FileIsBytes DEF FileTypes
    <2>2. pos \in Nat /\ pos <= Size /\ (r.whence = "SEEK_SET" => pos = 0)
      BY <1>1, <1>3, <2>1 DEF Knows, Request
    <2>3. f_pos' = pos /\ request' = [request EXCEPT ![c].start = pos, ![c].at = "end"]
          /\ UNCHANGED << taken, mutex, timer >>
      BY <1>3 DEF SeekStart
    <2> HIDE DEF pos
    <2>4. /\ new \in Request /\ new.packet = r.packet /\ new.at = "end" /\ new.whence = r.whence
          /\ new.reply = r.reply /\ new.start = pos
      BY <1>1, <2>2 DEF Request, Inside
    <2>5. Enters(c, new)
      BY <1>1, <2>3 DEF Enters, BaseInv, ThreadTypes
    <2> HIDE DEF new
    <2>6. Moves(c, new)
      BY <1>1, <2>3, <2>4, <2>5 DEF Moves, HoldsMutex, TouchesFile, Inside
    <2>7. request'[c] = new /\ device' = device /\ alive' = alive /\ Content' = Content /\ Size' = Size /\ taken' = taken
      BY <2>3, <2>6, MoveFacts
    <2>8. FileTypes'
      BY <1>1, <2>2, <2>3, <2>7 DEF FileTypes
    <2>9. Knows(c)'
      BY <1>1, <2>2, <2>4, <2>7 DEF Knows
    <2>10. PositionInv => AtEnd' /\ Positioned(c)' /\ Written(c)'
      <3>1. mutex = c /\ c # NULL /\ c # Timer
        BY <1>1, RequestsAssumption DEF BaseInv, MutexIsHeld
      <3>2. AtEnd'
        BY <2>3, <3>1 DEF AtEnd
      <3>3. Positioned(c)'
        BY <2>4, <2>7 DEF Positioned
      <3>4. PositionInv => Written(c)'
        BY <1>1, <2>4, <2>7, RequestFields DEF Written
      <3>5. QED
        BY <3>2, <3>3, <3>4
    <2>11. ReplyInv => Replied(c)'
      BY <1>1, <2>4, <2>7, RequestFields DEF Replied
    <2>12. QED
      BY <2>3, <2>6, <2>8, <2>9, <2>10, <2>11, MoveKeeps
  <1>4. QED
    BY <1>2, <1>3

LEMMA SeekRangeEndKeeps ==
  ASSUME BaseInv, NEW c \in Clients, SeekRangeEnd(c)
  PROVE  StaysRight
  <1> DEFINE r == request[c]
             todo == Size - r.start
             new == [r EXCEPT !.todo = todo, !.at = "back"]
  <1>1. /\ r \in Request /\ r.at = "end" /\ Knows(c) /\ FileTypes /\ r.packet \in Packets(c)
        /\ r.at \in Inside
    BY RequestFields DEF SeekRangeEnd, Inside
  <1>2. Size \in Nat /\ r.start \in Nat /\ r.start <= Size
        /\ (r.whence = "SEEK_SET" => r.start = 0)
    BY <1>1, FileIsBytes DEF Request, Knows
  <1>3. todo \in Nat
    BY <1>2
  <1>4. f_pos' = Size /\ request' = [request EXCEPT ![c].todo = todo, ![c].at = "back"]
        /\ UNCHANGED << taken, mutex, timer >>
    BY DEF SeekRangeEnd
  <1>5. /\ new \in Request /\ new.packet = r.packet /\ new.at = "back" /\ new.whence = r.whence
        /\ new.reply = r.reply /\ new.start = r.start /\ new.todo = todo
    <2> HIDE DEF todo
    <2>1. QED
      BY <1>1, <1>3 DEF Request, Inside
  <1>6. Enters(c, new)
    <2> HIDE DEF todo
    <2>1. QED
      BY <1>1, <1>4 DEF Enters, BaseInv, ThreadTypes
  <1> HIDE DEF new
  <1>7. Moves(c, new)
    BY <1>1, <1>4, <1>5, <1>6 DEF Moves, HoldsMutex, TouchesFile, Inside
  <1>8. request'[c] = new /\ device' = device /\ alive' = alive /\ Content' = Content /\ Size' = Size /\ taken' = taken
    BY <1>4, <1>7, MoveFacts
  <1>9. FileTypes'
    BY <1>1, <1>2, <1>4, <1>8 DEF FileTypes
  <1>10. Knows(c)'
    BY <1>1, <1>2, <1>5, <1>8 DEF Knows
  <1>11. PositionInv => AtEnd' /\ Positioned(c)' /\ Written(c)'
    <2>1. mutex = c /\ c # NULL /\ c # Timer
      BY <1>1, RequestsAssumption DEF BaseInv, MutexIsHeld
    <2>2. AtEnd'
      BY <1>4, <2>1 DEF AtEnd
    <2>3. ~device => r.start = 0
      BY <1>1, <1>2 DEF Knows, Request
    <2>4. Positioned(c)'
      BY <1>2, <1>5, <1>8, <2>3 DEF Positioned
    <2>5. PositionInv => Written(c)'
      BY <1>1, <1>5, <1>8, RequestFields DEF Written
    <2>6. QED
      BY <2>2, <2>4, <2>5
  <1>12. ReplyInv => Replied(c)'
    BY <1>1, <1>5, <1>8, RequestFields DEF Replied
  <1>13. QED
    BY <1>4, <1>7, <1>9, <1>10, <1>11, <1>12, MoveKeeps

LEMMA SeekBackKeeps ==
  ASSUME BaseInv, NEW c \in Clients, SeekBack(c)
  PROVE  StaysRight
  <1> DEFINE r == request[c]
             new == [r EXCEPT !.at = "reading"]
  <1>1. /\ r \in Request /\ r.at = "back" /\ Knows(c) /\ FileTypes /\ r.packet \in Packets(c)
        /\ r.at \in Inside
    BY RequestFields DEF SeekBack, Inside
  <1>2. Size \in Nat /\ Content \in Seq(Byte) /\ r.start \in Nat /\ r.start <= Size
        /\ (r.whence = "SEEK_SET" => r.start = 0)
    BY <1>1, FileIsBytes DEF Request, Knows
  <1>3. f_pos' = r.start /\ Enters(c, new) /\ UNCHANGED << taken, mutex, timer >>
    BY DEF SeekBack, Go, Enters
  <1>4. /\ new \in Request /\ new.packet = r.packet /\ new.at = "reading" /\ new.whence = r.whence
        /\ new.reply = r.reply /\ new.start = r.start /\ new.todo = r.todo
    BY <1>1 DEF Request, Inside
  <1> HIDE DEF new
  <1>5. Moves(c, new)
    BY <1>1, <1>3, <1>4 DEF Moves, HoldsMutex, TouchesFile, Inside
  <1>6. request'[c] = new /\ device' = device /\ alive' = alive /\ Content' = Content /\ Size' = Size /\ taken' = taken
    BY <1>3, <1>5, MoveFacts
  <1>7. FileTypes'
    BY <1>1, <1>2, <1>3, <1>6 DEF FileTypes
  <1>8. Knows(c)'
    BY <1>1, <1>2, <1>4, <1>6 DEF Knows
  <1>9. PositionInv => AtEnd' /\ Positioned(c)' /\ Written(c)'
    <2>1. mutex = c /\ c # NULL /\ c # Timer
      BY <1>1, RequestsAssumption DEF BaseInv, MutexIsHeld
    <2>2. AtEnd'
      BY <1>3, <2>1 DEF AtEnd
    <2>3. ~device => r.start = 0
      BY <1>1, <1>2 DEF Knows, Request
    <2>4. PositionInv => Positioned(c)'
      BY <1>1, <1>2, <1>3, <1>4, <1>6, <2>3, RequestFields DEF Positioned
    <2>5. PositionInv => Written(c)'
      BY <1>1, <1>4, <1>6, RequestFields DEF Written
    <2>6. QED
      BY <2>2, <2>4, <2>5
  <1>10. ASSUME ReplyInv
         PROVE  Replied(c)'
    <2>1. r.reply = Nothing /\ r.todo = Size - r.start
      BY <1>1, <1>10, RequestFields DEF Replied
    <2>2. SubSeq(Content, r.start + 1, r.start) = Nothing
      <3>1. r.start + 1 \in Int /\ r.start \in Int /\ r.start < r.start + 1
        BY <1>2
      <3>2. QED
        BY <3>1, SubSeqEmpty DEF Nothing
    <2>3. new.reply = SubSeq(Content', new.start + 1, f_pos')
      BY <1>3, <1>4, <1>6, <2>1, <2>2
    <2>4. new.start <= f_pos' /\ f_pos' <= Size' /\ new.todo = Size' - f_pos'
      BY <1>2, <1>3, <1>4, <1>6, <2>1
    <2>5. QED
      BY <1>4, <1>6, <2>3, <2>4 DEF Replied
  <1>11. QED
    BY <1>3, <1>5, <1>7, <1>8, <1>9, <1>10, MoveKeeps

LEMMA ReadChunkKeeps ==
  ASSUME BaseInv, NEW c \in Clients, ReadChunk(c)
  PROVE  StaysRight
  <1> DEFINE r == request[c]
             count == Min({BufferSize, r.todo})
             chunk == ReadAt(f_pos, count)
             todo == LessChunk(r.todo, chunk)
             new == [r EXCEPT !.chunk = chunk, !.sended = 0, !.at = "sending", !.todo = todo]
  <1>1. /\ r \in Request /\ r.at = "reading" /\ Knows(c) /\ FileTypes /\ r.packet \in Packets(c)
        /\ r.at \in Inside
    BY RequestFields DEF ReadChunk, Inside
  <1>2. Size \in Nat /\ Len(Content) = Size /\ Content \in Seq(Byte) /\ f_pos \in Nat /\ r.todo \in Nat /\ r.start \in Nat
    BY <1>1, FileIsBytes DEF Request, FileTypes
  <1>3. count \in Nat /\ count <= r.todo
    <2> DEFINE both == {BufferSize, r.todo}
    <2>1. both \in SUBSET Nat /\ both # {} /\ r.todo \in both
      BY <1>2, RequestsAssumption
    <2> HIDE DEF both
    <2>2. Min(both) \in both /\ \A n \in both : Min(both) <= n
      BY <2>1, MinIsMember
    <2>3. Min(both) \in Nat /\ Min(both) <= r.todo
      BY <2>1, <2>2
    <2>4. QED
      BY <2>3 DEF both
  <1>4. f_pos' = f_pos + Len(chunk)
        /\ request' = [request EXCEPT ![c].chunk = chunk, ![c].sended = 0, ![c].at = "sending",
                                      ![c].todo = LessChunk(@, chunk)]
        /\ UNCHANGED << taken, mutex, timer >>
    BY DEF ReadChunk
  <1> HIDE DEF count
  <1>5. /\ chunk \in Seq(Byte) /\ Len(chunk) \in 0 .. count
        /\ f_pos <= Size => /\ f_pos + Len(chunk) <= Size
                                    /\ chunk = SubSeq(Content, f_pos + 1, f_pos + Len(chunk))
    BY <1>1, <1>2, <1>3, ReadsFile
  <1> HIDE DEF chunk
  <1>6. todo \in Nat /\ todo = r.todo - Len(chunk)
    BY <1>2, <1>3, <1>5 DEF LessChunk
  <1>7. Enters(c, new)
    BY <1>1, <1>4 DEF Enters, BaseInv, ThreadTypes
  <1> HIDE DEF todo
  <1>8. /\ new \in Request /\ new.packet = r.packet /\ new.at = "sending" /\ new.whence = r.whence
        /\ new.reply = r.reply /\ new.start = r.start /\ new.todo = todo /\ new.chunk = chunk /\ new.sended = 0
    BY <1>1, <1>5, <1>6 DEF Request, Inside
  <1> HIDE DEF new
  <1>9. Moves(c, new)
    BY <1>1, <1>4, <1>7, <1>8 DEF Moves, HoldsMutex, TouchesFile, Inside
  <1>10. request'[c] = new /\ device' = device /\ alive' = alive /\ Content' = Content /\ Size' = Size /\ taken' = taken
         /\ (Undisturbed(c)' <=> Undisturbed(c))
    BY <1>4, <1>9, MoveFacts
  <1>11. FileTypes'
    BY <1>1, <1>2, <1>4, <1>5, <1>10 DEF FileTypes
  <1>12. Knows(c)'
    BY <1>1, <1>8, <1>10 DEF Knows
  <1>13. PositionInv => AtEnd' /\ Positioned(c)' /\ Written(c)'
    <2>1. mutex = c /\ c # NULL /\ c # Timer
      BY <1>1, RequestsAssumption DEF BaseInv, MutexIsHeld
    <2>2. AtEnd'
      BY <1>4, <2>1 DEF AtEnd
    <2>3. ASSUME PositionInv, ~device
          PROVE  f_pos' + new.todo = Size'
      <3>1. f_pos + r.todo = Size
        BY <1>1, <2>3, RequestFields DEF Positioned
      <3>2. QED
        BY <1>2, <1>4, <1>5, <1>6, <1>8, <1>10, <3>1
    <2>4. PositionInv => Positioned(c)'
      BY <1>8, <1>10, <2>3 DEF Positioned
    <2>5. PositionInv => Written(c)'
      BY <1>1, <1>8, <1>10, RequestFields DEF Written
    <2>6. QED
      BY <2>2, <2>4, <2>5
  <1>14. ASSUME ReplyInv, Undisturbed(c)
         PROVE  /\ new.start <= f_pos' /\ f_pos' <= Size /\ new.todo = Size - f_pos'
                /\ Then(new.reply, new.chunk) = SubSeq(Content, new.start + 1, f_pos')
    <2>1. /\ r.start <= f_pos /\ f_pos <= Size /\ r.todo = Size - f_pos
          /\ r.reply = SubSeq(Content, r.start + 1, f_pos)
      BY <1>1, <1>14, RequestFields DEF Replied
    <2>2. f_pos' \in f_pos .. Size /\ chunk = SubSeq(Content, f_pos + 1, f_pos')
      BY <1>2, <1>3, <1>4, <1>5, <2>1
    <2>3. Then(SubSeq(Content, r.start + 1, f_pos), SubSeq(Content, f_pos + 1, f_pos'))
            = SubSeq(Content, r.start + 1, f_pos')
      <3> DEFINE content == Content
                 i == r.start
                 j == f_pos
                 k == f_pos'
      <3>1. content \in Seq(Byte) /\ i \in Nat /\ j \in i .. Len(content) /\ k \in j .. Len(content)
        BY <1>2, <2>1, <2>2
      <3> HIDE DEF content, i, j, k
      <3>2. Then(SubSeq(content, i + 1, j), SubSeq(content, j + 1, k)) = SubSeq(content, i + 1, k)
        BY <3>1, SlicesJoin
      <3>3. QED
        BY <3>2 DEF content, i, j, k
    <2>4. Then(new.reply, new.chunk) = SubSeq(Content, new.start + 1, f_pos')
      BY <1>8, <2>1, <2>2, <2>3
    <2>5. new.start <= f_pos' /\ f_pos' <= Size /\ new.todo = Size - f_pos'
      <3> DEFINE length == Len(chunk)
                 size == Size
      <3>1. length \in Nat /\ f_pos' = f_pos + length /\ f_pos + length <= size
        BY <1>2, <1>3, <1>4, <1>5, <2>1
      <3>2. new.start = r.start /\ new.todo = r.todo - length
        BY <1>6, <1>8
      <3>3. size \in Nat /\ r.start <= f_pos /\ r.todo = size - f_pos
        BY <1>2, <2>1
      <3> HIDE DEF length, size
      <3>4. new.start <= f_pos' /\ f_pos' <= size /\ new.todo = size - f_pos'
        BY <1>2, <3>1, <3>2, <3>3
      <3>5. QED
        BY <3>4 DEF size
    <2>6. QED
      BY <2>4, <2>5
  <1>15. ReplyInv => Replied(c)'
    <2>1. new.at = "sending" /\ new.sended = 0
      BY <1>8
    <2>2. QED
      BY <1>10, <1>14, <2>1 DEF Replied
  <1>16. QED
    BY <1>4, <1>9, <1>11, <1>12, <1>13, <1>15, MoveKeeps

\* What a send makes of the request, when n bytes of the chunk are taken.
Sent(r, n) == [r EXCEPT !.reply = Then(r.reply, SubSeq(r.chunk, 1, n)), !.sended = r.sended + n]

SendsLast(r, n) == r.sended + n >= Len(r.chunk)

AfterSend(r, n) ==
  IF SendsLast(r, n) /\ r.todo = 0
  THEN [Sent(r, n) EXCEPT !.at = "closed", !.status = "success"]
  ELSE [Sent(r, n) EXCEPT !.at = IF SendsLast(r, n) THEN "reading" ELSE r.at]

LEMMA SendIsAfterSend ==
  ASSUME BaseInv, NEW c \in Clients, Send(c)
  PROVE  \E n \in 0 .. Len(request[c].chunk) :
           /\ Enters(c, AfterSend(request[c], n))
           /\ mutex' = IF SendsLast(request[c], n) /\ request[c].todo = 0 THEN NULL ELSE mutex
           /\ "short_send" \notin Failures[device] => n = Len(request[c].chunk)
  <1> DEFINE r == request[c]
             chunk == r.chunk
             sends(n) ==
               LET sended == request[c].sended + n
                   done   == sended >= Len(chunk)
                   s      == [request[c] EXCEPT !.reply = @ \o SubSeq(chunk, 1, n), !.sended = sended]
               IN  IF done /\ s.todo = 0
                   THEN /\ request' = [request EXCEPT ![c] = [s EXCEPT !.at = "closed", !.status = "success"]]
                        /\ Unlock
                   ELSE /\ request' = [request EXCEPT ![c] = [s EXCEPT !.at = IF done THEN "reading" ELSE @]]
                        /\ UNCHANGED mutex
  <1>1. r \in Request /\ chunk \in Seq(Byte) /\ Len(chunk) \in Nat
    BY RequestFields DEF Request
  <1>2. PICK n \in {Len(chunk)} \cup (IF "short_send" \in Failures[device] THEN 1 .. Len(chunk) ELSE {}) : sends(n)
    BY DEF Send
  <1>3. n \in 0 .. Len(chunk) /\ ("short_send" \notin Failures[device] => n = Len(chunk))
    BY <1>1, <1>2
  <1> DEFINE s == [r EXCEPT !.reply = @ \o SubSeq(chunk, 1, n), !.sended = r.sended + n]
  <1>4. s = Sent(r, n) /\ s.todo = r.todo /\ s.at = r.at
    BY <1>1 DEF Sent, Then, Request
  <1>5. IF SendsLast(r, n) /\ s.todo = 0
        THEN /\ request' = [request EXCEPT ![c] = [s EXCEPT !.at = "closed", !.status = "success"]]
             /\ mutex' = NULL
        ELSE /\ request' = [request EXCEPT ![c] = [s EXCEPT !.at = IF SendsLast(r, n) THEN "reading" ELSE @]]
             /\ mutex' = mutex
    BY <1>2, Zenon DEF SendsLast, Unlock
  <1> HIDE DEF s, sends
  <1>6. Enters(c, AfterSend(r, n)) /\ mutex' = IF SendsLast(r, n) /\ r.todo = 0 THEN NULL ELSE mutex
    <2>1. CASE SendsLast(r, n) /\ r.todo = 0
      BY <1>4, <1>5, <2>1 DEF Enters, AfterSend
    <2>2. CASE ~(SendsLast(r, n) /\ r.todo = 0)
      BY <1>4, <1>5, <2>2 DEF Enters, AfterSend
    <2>3. QED
      BY <2>1, <2>2
  <1>7. QED
    BY <1>3, <1>6

LEMMA SendKeeps ==
  ASSUME BaseInv, NEW c \in Clients, Send(c)
  PROVE  StaysRight
  <1> DEFINE r == request[c]
             chunk == r.chunk
  <1>1. /\ r \in Request /\ r.at = "sending" /\ Knows(c) /\ FileTypes /\ r.packet \in Packets(c)
        /\ r.at \in Inside /\ UNCHANGED << file, timer >> /\ device \in Builds
    BY RequestFields DEF Send, Inside, BaseInv, ThreadTypes
  <1>2. PICK n \in 0 .. Len(chunk) :
           /\ Enters(c, AfterSend(r, n))
           /\ mutex' = IF SendsLast(r, n) /\ r.todo = 0 THEN NULL ELSE mutex
           /\ "short_send" \notin Failures[device] => n = Len(chunk)
    BY SendIsAfterSend
  <1> DEFINE new == AfterSend(r, n)
             part == SubSeq(chunk, 1, n)
             reply == Then(r.reply, part)
             last == SendsLast(r, n)
  <1>3. chunk \in Seq(Byte) /\ r.reply \in Seq(Byte) /\ Len(chunk) \in Nat /\ r.sended \in Nat /\ r.todo \in Nat
    BY <1>1 DEF Request
  <1>4. part \in Seq(Byte) /\ (n = Len(chunk) => part = chunk)
    <2>1. 1 \in 1 .. Len(chunk) + 1 /\ n \in 1 - 1 .. Len(chunk)
      BY <1>3
    <2>2. part \in Seq(Byte)
      BY <1>3, <2>1, Slice
    <2>3. n = Len(chunk) => part = chunk
      BY <1>3, SubSeqFull
    <2>4. QED
      BY <2>2, <2>3
  <1>5. reply \in Seq(Byte)
    <2> HIDE DEF part
    <2>1. part \in Seq(Byte) /\ r.reply \in Seq(Byte)
      BY <1>3, <1>4
    <2>2. QED
      BY <2>1, ThenProperties
  <1> HIDE DEF reply
  <1>6. Sent(r, n) \in Request /\ Sent(r, n) = [r EXCEPT !.reply = reply, !.sended = r.sended + n]
    <2>1. Sent(r, n) = [r EXCEPT !.reply = reply, !.sended = r.sended + n]
      BY DEF Sent, reply
    <2>2. r.sended + n \in Nat
      BY <1>3
    <2>3. QED
      BY <1>1, <1>5, <2>1, <2>2 DEF Request
  <1>7. /\ new \in Request /\ new.packet = r.packet /\ new.whence = r.whence
        /\ new.reply = reply /\ new.start = r.start /\ new.todo = r.todo
        /\ new.at = IF last /\ r.todo = 0 THEN "closed" ELSE IF last THEN "reading" ELSE "sending"
    <2> DEFINE s == Sent(r, n)
               at == IF last /\ r.todo = 0 THEN "closed" ELSE IF last THEN "reading" ELSE "sending"
    <2>1. new = IF last /\ r.todo = 0
                THEN [s EXCEPT !.at = "closed", !.status = "success"]
                ELSE [s EXCEPT !.at = IF last THEN "reading" ELSE r.at]
      BY DEF AfterSend
    <2> HIDE DEF last
    <2>2. /\ s \in Request /\ s.packet = r.packet /\ s.whence = r.whence /\ s.reply = reply
          /\ s.start = r.start /\ s.todo = r.todo
      BY <1>1, <1>6 DEF Request
    <2> HIDE DEF s, new
    <2>3. new = [s EXCEPT !.at = at, !.status = IF last /\ r.todo = 0 THEN "success" ELSE s.status]
      <3>1. CASE last /\ r.todo = 0
        BY <2>1, <3>1
      <3>2. CASE ~(last /\ r.todo = 0)
        BY <1>1, <2>1, <2>2, <3>2 DEF Request
      <3>3. QED
        BY <3>1, <3>2
    <2>4. at \in {"closed", "reading", "sending"}
      OBVIOUS
    <2> HIDE DEF at
    <2>5. new \in Request
      BY <2>2, <2>3, <2>4 DEF Request, Inside
    <2>6. /\ new.packet = r.packet /\ new.whence = r.whence /\ new.reply = reply
          /\ new.start = r.start /\ new.todo = r.todo /\ new.at = at
      BY <2>2, <2>3 DEF Request
    <2>7. QED
      BY <2>5, <2>6 DEF at
  <1>8. Enters(c, new)
    BY <1>2
  <1>9. mutex' = IF last /\ r.todo = 0 THEN NULL ELSE mutex
    BY <1>2
  <1> HIDE DEF new, last
  <1>10. Moves(c, new)
    BY <1>1, <1>7, <1>8, <1>9 DEF Moves, HoldsMutex, TouchesFile, Inside
  <1>11. UNCHANGED << taken, f_pos >>
    BY <1>1 DEF file
  <1>12. request'[c] = new /\ device' = device /\ alive' = alive /\ Content' = Content /\ Size' = Size /\ taken' = taken /\ FileTypes'
         /\ (Undisturbed(c)' <=> Undisturbed(c))
    BY <1>1, <1>10, <1>11, MoveFacts, FileUnchanged
  <1>13. Knows(c)'
    BY <1>1, <1>7, <1>12 DEF Knows
  <1>14. PositionInv => AtEnd' /\ Positioned(c)' /\ Written(c)'
    <2>1. mutex = c /\ c # NULL /\ c # Timer
      BY <1>1, RequestsAssumption DEF BaseInv, MutexIsHeld
    <2>2. f_pos \in Nat /\ Size \in Nat
      BY <1>1, FileIsBytes DEF FileTypes
    <2>3. PositionInv /\ ~device => f_pos + r.todo = Size
      BY <1>1, RequestFields DEF Positioned
    <2>4. PositionInv => AtEnd'
      BY <1>9, <1>11, <1>12, <2>1, <2>2, <2>3 DEF AtEnd
    <2>5. PositionInv => Positioned(c)'
      BY <1>7, <1>11, <1>12, <2>3 DEF Positioned
    <2>6. PositionInv => Written(c)'
      BY <1>1, <1>7, <1>12, RequestFields DEF Written
    <2>7. QED
      BY <2>4, <2>5, <2>6
  <1>15. ASSUME NoShortSends, ReplyInv
         PROVE  Replied(c)'
    <2>1. n = Len(chunk) /\ reply = Then(r.reply, chunk)
      BY <1>1, <1>2, <1>4, <1>15 DEF NoShortSends, reply
    <2>2. last
      BY <1>3, <2>1 DEF last, SendsLast
    <2>3. Undisturbed(c) =>
            /\ r.start <= f_pos /\ f_pos <= Size /\ r.todo = Size - f_pos
            /\ reply = SubSeq(Content, r.start + 1, f_pos)
      BY <1>1, <1>15, <2>1, RequestFields DEF Replied
    <2>4. QED
      BY <1>7, <1>11, <1>12, <2>2, <2>3 DEF Replied
  <1>16. QED
    BY <1>10, <1>11, <1>12, <1>13, <1>14, <1>15, MoveKeeps

-----------------------------------------------------------------------------
(* Writes *)

\* What a write makes of the request, when n bytes of the rest are taken.
AfterWrite(r, n) ==
  IF n < Len(r.rest)
  THEN [r EXCEPT !.rest = SubSeq(r.rest, n + 1, Len(r.rest))]
  ELSE [r EXCEPT !.at = IF IsLast(r.packet) THEN "sync" ELSE "read"]

LEMMA WriteSomeIsAfterWrite ==
  ASSUME BaseInv, NEW c \in Clients, WriteSome(c)
  PROVE  \E n \in 1 .. Len(request[c].rest) :
           /\ Write(SubSeq(request[c].rest, 1, n))
           /\ Enters(c, AfterWrite(request[c], n))
           /\ mutex' = IF n < Len(request[c].rest) THEN mutex ELSE NULL
  <1> DEFINE r == request[c]
             rest == r.rest
             writes(n) ==
               /\ Write(SubSeq(rest, 1, n))
               /\ IF n < Len(rest)
                  THEN /\ request' = [request EXCEPT ![c].rest = SubSeq(rest, n + 1, Len(rest))]
                       /\ UNCHANGED mutex
                  ELSE /\ Go(c, IF IsLast(r.packet) THEN "sync" ELSE "read")
                       /\ Unlock
  <1>1. r \in Request /\ r.at = "writing" /\ Len(rest) \in Nat /\ Len(rest) > 0
    BY RequestFields DEF Request, Knows, WriteSome
  <1>2. PICK n \in IF device THEN {Len(rest)} ELSE 1 .. Len(rest) : writes(n)
    BY DEF WriteSome
  <1>3. n \in 1 .. Len(rest)
    BY <1>1, <1>2
  <1>4. CASE n < Len(rest)
    <2>1. request' = [request EXCEPT ![c].rest = SubSeq(rest, n + 1, Len(rest))] /\ mutex' = mutex
      BY <1>2, <1>4
    <2>2. Enters(c, AfterWrite(r, n))
      BY <1>4, <2>1 DEF Enters, AfterWrite
    <2>3. QED
      BY <1>2, <1>3, <1>4, <2>1, <2>2
  <1>5. CASE ~(n < Len(rest))
    <2>1. Go(c, IF IsLast(r.packet) THEN "sync" ELSE "read") /\ mutex' = NULL
      BY <1>2, <1>5 DEF Unlock
    <2>2. Enters(c, AfterWrite(r, n))
      BY <1>5, <2>1 DEF Enters, AfterWrite, Go
    <2>3. QED
      BY <1>2, <1>3, <1>5, <2>1, <2>2
  <1>6. QED
    BY <1>4, <1>5

LEMMA WholeBeginning ==
  ASSUME NEW s \in Seq(Byte), NEW t \in Seq(Byte), Whole(Then(s, t))
  PROVE  Whole(s)
  <1> DEFINE both == Then(s, t)
  <1>1. both \in Seq(Byte) /\ Len(both) = Len(s) + Len(t)
    BY ThenProperties
  <1>2. \A i \in 1 .. Len(s) : both[i] = s[i]
    BY ThenProperties
  <1>3. Whole(both)
    OBVIOUS
  <1> HIDE DEF both
  <1>4. DOMAIN both = 1 .. Len(s) + Len(t) /\ DOMAIN s = 1 .. Len(s) /\ Len(s) \in Nat /\ Len(t) \in Nat
    BY <1>1
  <1> SUFFICES ASSUME NEW i \in 1 .. Len(s), s[i][2] > 1
               PROVE  i > 1 /\ s[i - 1][1] = s[i][1] /\ s[i - 1][2] = s[i][2] - 1
    BY <1>4 DEF Whole
  <1>5. i \in DOMAIN both /\ both[i] = s[i]
    BY <1>2, <1>4
  <1>6. i > 1 /\ both[i - 1][1] = both[i][1] /\ both[i - 1][2] = both[i][2] - 1
    BY <1>3, <1>5 DEF Whole
  <1>7. i - 1 \in 1 .. Len(s)
    BY <1>4, <1>6
  <1>8. both[i - 1] = s[i - 1]
    BY <1>2, <1>7
  <1>9. QED
    BY <1>5, <1>6, <1>8

\* The first part of the rest of a packet is appended, the other one is left.
LEMMA RestIsCut ==
  ASSUME NEW had \in Seq(Byte), NEW rest \in Seq(Byte), NEW n \in 1 .. Len(rest)
  PROVE  /\ SubSeq(rest, 1, n) \in Seq(Byte)
         /\ n < Len(rest) =>
              /\ SubSeq(rest, n + 1, Len(rest)) \in Seq(Byte) /\ Len(SubSeq(rest, n + 1, Len(rest))) > 0
              /\ Then(Then(had, SubSeq(rest, 1, n)), SubSeq(rest, n + 1, Len(rest))) = Then(had, rest)
         /\ ~(n < Len(rest)) => SubSeq(rest, 1, n) = rest
  <1> DEFINE m == Len(rest)
             first == SubSeq(rest, 1, n)
             second == SubSeq(rest, n + 1, m)
  <1>1. m \in Nat /\ 1 \in 1 .. m + 1 /\ n \in 1 - 1 .. m /\ n + 1 \in 1 .. m + 1 /\ m \in (n + 1) - 1 .. m
    OBVIOUS
  <1>2. first \in Seq(Byte)
    BY <1>1, Slice
  <1>3. second \in Seq(Byte) /\ Len(second) = m - (n + 1) + 1
    BY <1>1, Slice
  <1>4. Then(first, second) = rest
    <2>1. 0 \in Nat /\ n \in 0 .. m /\ m \in n .. m /\ 0 + 1 = 1
      BY <1>1
    <2>2. Then(SubSeq(rest, 0 + 1, n), SubSeq(rest, n + 1, m)) = SubSeq(rest, 0 + 1, m)
      BY <2>1, SlicesJoin
    <2>3. SubSeq(rest, 1, m) = rest
      BY SubSeqFull
    <2>4. QED
      BY <2>1, <2>2, <2>3
  <1>5. Then(Then(had, first), second) = Then(had, rest)
    <2> HIDE DEF first, second
    <2>1. QED
      BY <1>2, <1>3, <1>4, ThenAssociative
  <1>6. ~(n < m) => first = rest
    BY <1>1, SubSeqFull
  <1>7. QED
    BY <1>1, <1>2, <1>3, <1>5, <1>6

LEMMA WriteSomeKeeps ==
  ASSUME BaseInv, NEW c \in Clients, WriteSome(c)
  PROVE  StaysRight /\ (PositionInv => \E bytes \in Seq(Byte) : taken' = Then(taken, bytes))
  <1> DEFINE r == request[c]
             rest == r.rest
  <1>1. /\ r \in Request /\ r.at = "writing" /\ Knows(c) /\ FileTypes /\ r.packet \in Packets(c)
        /\ r.at \in Inside /\ UNCHANGED timer /\ device \in BOOLEAN
    BY RequestFields DEF WriteSome, Inside
  <1>2. PICK n \in 1 .. Len(rest) :
           /\ Write(SubSeq(rest, 1, n))
           /\ Enters(c, AfterWrite(r, n))
           /\ mutex' = IF n < Len(rest) THEN mutex ELSE NULL
    BY WriteSomeIsAfterWrite
  <1> DEFINE new == AfterWrite(r, n)
             bytes == SubSeq(rest, 1, n)
             left == SubSeq(rest, n + 1, Len(rest))
             had == taken
             done == ~(n < Len(rest))
  <1>3. rest \in Seq(Byte) /\ had \in Seq(Byte) /\ Len(rest) \in Nat
    BY <1>1, FileIsBytes DEF Request
  <1>4. /\ bytes \in Seq(Byte)
        /\ ~done => left \in Seq(Byte) /\ Len(left) > 0 /\ Then(Then(had, bytes), left) = Then(had, rest)
        /\ done => bytes = rest
    <2> HIDE DEF had, rest
    <2>1. QED
      BY <1>3, RestIsCut
  <1>5. device' = device /\ Enters(c, new) /\ Write(bytes) /\ mutex' = IF done THEN NULL ELSE mutex
    BY <1>1, <1>2 DEF timer
  <1> HIDE DEF had, bytes
  <1>6. /\ FileTypes'
        /\ Appends => taken' = Then(had, bytes)
        /\ ~device /\ f_pos = Size => f_pos' = Size'
    BY <1>1, <1>4, <1>5, WriteWrites DEF had
  <1>7. /\ new \in Request /\ new.packet = r.packet /\ new.whence = r.whence /\ new.reply = r.reply
        /\ done => new.at \in {"sync", "read"}
        /\ ~done => new.at = "writing" /\ new.rest = left
    <2>1. CASE done
      <3>1. new = [r EXCEPT !.at = IF IsLast(r.packet) THEN "sync" ELSE "read"]
        BY <2>1 DEF AfterWrite
      <3> DEFINE at == IF IsLast(r.packet) THEN "sync" ELSE "read"
      <3>2. at \in {"sync", "read"}
        OBVIOUS
      <3> HIDE DEF at, done, new
      <3>3. new = [r EXCEPT !.at = at]
        BY <3>1 DEF at
      <3>4. QED
        BY <1>1, <2>1, <3>2, <3>3 DEF Request, Inside
    <2>2. CASE ~done
      <3>1. new = [r EXCEPT !.rest = left]
        BY <2>2 DEF AfterWrite
      <3> HIDE DEF left, done, new
      <3>2. QED
        BY <1>1, <1>4, <2>2, <3>1 DEF Request, Inside
    <2>3. QED
      BY <2>1, <2>2
  <1> HIDE DEF left, done, new
  <1>8. Moves(c, new)
    <2>1. HoldsMutex(c, new)
      BY <1>1, <1>5, <1>7 DEF HoldsMutex, Inside
    <2>2. QED
      BY <1>1, <1>5, <1>7, <2>1 DEF Moves, TouchesFile
  <1>9. request'[c] = new
    BY <1>5, EntersRequest
  <1>10. Knows(c)'
    BY <1>1, <1>4, <1>5, <1>7, <1>9 DEF Knows
  <1>11. BaseInv'
    BY <1>6, <1>8, <1>10, KeepsBase
  <1>12. ASSUME PositionInv
         PROVE  PositionInv' /\ taken' = Then(had, bytes)
    <2>1. Whole(Then(had, rest)) /\ Range(r.packet) \subseteq Range(Then(had, rest))
          /\ (~device => f_pos = Size) /\ Appends
      BY <1>1, <1>12, RequestFields DEF Written, Positioned, Appends, had
    <2>2. taken' = Then(had, bytes) /\ (~device => f_pos' = Size')
      BY <1>6, <2>1
    <2>3. taken' \in Seq(Byte)
      <3>1. had \in Seq(Byte) /\ bytes \in Seq(Byte)
        BY <1>3, <1>4
      <3>2. Then(had, bytes) \in Seq(Byte)
        BY <3>1, ThenProperties
      <3>3. QED
        BY <2>2, <3>2
    <2>4. done => taken' = Then(had, rest)
      BY <1>4, <2>2
    <2>5. ~done => Then(taken', left) = Then(had, rest)
      BY <1>4, <2>2
    <2>6. Whole(taken')
      <3>1. CASE done
        BY <2>1, <2>4, <3>1
      <3>2. CASE ~done
        <4>1. left \in Seq(Byte) /\ Whole(Then(taken', left))
          BY <1>4, <2>1, <2>5, <3>2
        <4>2. QED
          BY <2>3, <4>1, WholeBeginning
      <3>3. QED
        BY <3>1, <3>2
    <2>7. Range(taken) \subseteq Range(taken')
      <3>1. Range(had) \subseteq Range(Then(had, bytes))
        BY <1>3, <1>4, RangeOfBoth
      <3>2. QED
        BY <2>2, <3>1 DEF had
    <2>8. AtEnd'
      BY <1>5, <2>2 DEF AtEnd
    <2>9. Positioned(c)'
      BY <1>5, <1>7, <1>9, <2>2 DEF Positioned
    <2>10. Written(c)'
      <3>1. CASE done
        <4>1. Range(new.packet) \subseteq Range(taken')
          BY <1>7, <2>1, <2>4, <3>1
        <4>2. QED
          BY <1>7, <1>9, <3>1, <4>1 DEF Written
      <3>2. CASE ~done
        <4>1. Whole(Then(taken', new.rest)) /\ Range(new.packet) \subseteq Range(Then(taken', new.rest))
          BY <1>7, <2>1, <2>5, <3>2
        <4>2. new.at = "writing"
          BY <1>7, <3>2
        <4>3. QED
          BY <1>9, <4>1, <4>2 DEF Written, Whole
      <3>3. QED
        BY <3>1, <3>2
    <2>11. PositionInv'
      BY <1>8, <1>12, <2>6, <2>7, <2>8, <2>9, <2>10, KeepsPosition
    <2>12. QED
      BY <2>2, <2>11
  <1>13. ASSUME ReplyInv
         PROVE  ReplyInv'
    <2>1. r.reply = Nothing
      BY <1>1, <1>13, RequestFields DEF Replied
    <2>2. new.at \in {"sync", "read", "writing"} /\ new.reply = Nothing
      BY <1>7, <2>1
    <2>3. Replied(c)'
      BY <1>9, <2>2 DEF Replied
    <2>4. QED
      BY <1>8, <1>13, <2>3, KeepsReply
  <1>14. QED
    BY <1>4, <1>11, <1>12, <1>13 DEF StaysRight, had

-----------------------------------------------------------------------------
(* The timer *)

LEMMA SameFileAndRequests ==
  ASSUME UNCHANGED << taken, f_pos, device, request >>
  PROVE  /\ Content' = Content /\ Size' = Size /\ taken' = taken /\ (FileTypes' <=> FileTypes)
         /\ \A c \in Clients : /\ Knows(c)' <=> Knows(c)
                               /\ Positioned(c)' <=> Positioned(c)
                               /\ Written(c)' <=> Written(c)
                               /\ Replied(c)' <=> Replied(c)
  <1>1. Content' = Content /\ Size' = Size /\ taken' = taken /\ (FileTypes' <=> FileTypes)
    BY FileUnchanged
  <1>2. ASSUME NEW c \in Clients
        PROVE  Knows(c)' <=> Knows(c)
    BY <1>1 DEF Knows
  <1>3. ASSUME NEW c \in Clients
        PROVE  Positioned(c)' <=> Positioned(c)
    BY <1>1 DEF Positioned
  <1>4. ASSUME NEW c \in Clients
        PROVE  Written(c)' <=> Written(c)
    BY <1>1 DEF Written, Whole
  <1>5. ASSUME NEW c \in Clients
        PROVE  Replied(c)' <=> Replied(c)
    BY <1>1 DEF Replied, Undisturbed
  <1>6. QED
    BY <1>1, <1>2, <1>3, <1>4, <1>5

LEMMA StutteringKeeps ==
  ASSUME BaseInv, UNCHANGED vars
  PROVE  StaysRight
  <1>1. UNCHANGED << taken, f_pos, device, request, mutex, alive, ticks, stamp >>
    BY DEF vars
  <1>2. /\ Content' = Content /\ Size' = Size /\ taken' = taken /\ (FileTypes' <=> FileTypes)
        /\ \A c \in Clients : /\ Knows(c)' <=> Knows(c)
                              /\ Positioned(c)' <=> Positioned(c)
                              /\ Written(c)' <=> Written(c)
                              /\ Replied(c)' <=> Replied(c)
    BY <1>1, SameFileAndRequests
  <1>3. BaseInv'
    BY <1>1, <1>2 DEF BaseInv, ThreadTypes, MutexIsHeld, DeadIsQuiet
  <1>4. PositionInv => PositionInv'
    BY <1>1, <1>2 DEF PositionInv, AtEnd, Stamped, Whole
  <1>5. ReplyInv => ReplyInv'
    BY <1>2 DEF ReplyInv
  <1>6. QED
    BY <1>3, <1>4, <1>5 DEF StaysRight

LEMMA TickKeeps ==
  ASSUME BaseInv, Tick
  PROVE  StaysRight
  <1>1. /\ UNCHANGED << taken, f_pos, device, request >>
        /\ mutex = NULL /\ mutex' = Timer /\ stamp' = Timestamp
        /\ ticks < MaxTicks /\ ticks' = ticks + 1 /\ alive /\ alive' = alive
    BY DEF Tick, Lock, file
  <1>2. /\ Content' = Content /\ Size' = Size /\ taken' = taken /\ (FileTypes' <=> FileTypes)
        /\ \A c \in Clients : /\ Knows(c)' <=> Knows(c)
                              /\ Positioned(c)' <=> Positioned(c)
                              /\ Written(c)' <=> Written(c)
                              /\ Replied(c)' <=> Replied(c)
    BY <1>1, SameFileAndRequests
  <1>3. ThreadTypes'
    <2>1. stamp' \in Seq(Byte) /\ Len(stamp') <= 2
      BY <1>1, TimestampProperties
    <2>2. QED
      BY <1>1, <2>1, RequestsAssumption DEF BaseInv, ThreadTypes
  <1>4. MutexIsHeld' /\ DeadIsQuiet'
    <2>1. stamp' # Nothing
      <3>1. Len(Nothing) = 0 /\ Len(Timestamp) = 2
        BY NothingIsSeq, TimestampProperties
      <3>2. QED
        BY <1>1, <3>1
    <2>2. MutexIsHeld'
      BY <1>1, <2>1, RequestsAssumption DEF BaseInv, MutexIsHeld
    <2>3. QED
      BY <1>1, <2>2 DEF DeadIsQuiet
  <1>5. BaseInv'
    BY <1>2, <1>3, <1>4 DEF BaseInv
  <1>6. PositionInv => PositionInv'
    <2>1. AtEnd => AtEnd'
      BY <1>1, <1>2 DEF AtEnd
    <2>2. Whole(taken) => Whole(taken')
      BY <1>2
    <2>3. PositionInv => Stamped'
      <3>1. taken \in Seq(Byte)
        BY DEF BaseInv, FileTypes
      <3>2. PositionInv => Whole(Then(taken, Timestamp))
        BY <3>1, TimestampProperties, WholeWithPacket DEF PositionInv
      <3>3. QED
        BY <1>1, <1>2, <3>2 DEF Stamped, Whole
    <2>4. QED
      BY <1>2, <2>1, <2>2, <2>3 DEF PositionInv, Whole
  <1>7. ReplyInv => ReplyInv'
    BY <1>2 DEF ReplyInv
  <1>8. QED
    BY <1>5, <1>6, <1>7 DEF StaysRight

\* A round of the timer's write appends the first of the bytes that are left.
LEMMA StampIsCut ==
  ASSUME BaseInv, Stamp
  PROVE  \E n \in 1 .. Len(stamp) :
           /\ Write(SubSeq(stamp, 1, n))
           /\ n < Len(stamp) => stamp' = SubSeq(stamp, n + 1, Len(stamp)) /\ mutex' = mutex
           /\ ~(n < Len(stamp)) => stamp' = Nothing /\ mutex' = NULL
  <1> DEFINE length == Len(stamp)
             writes(n) ==
               /\ Write(SubSeq(stamp, 1, n))
               /\ stamp' = SubSeq(stamp, n + 1, length)
               /\ IF n = length THEN Unlock ELSE UNCHANGED mutex
  <1>1. PICK n \in 1 .. length : writes(n)
    BY DEF Stamp
  <1>2. length \in Nat
    BY DEF BaseInv, ThreadTypes
  <1>3. CASE n < length
    <2>1. n # length
      BY <1>2, <1>3
    <2>2. stamp' = SubSeq(stamp, n + 1, length) /\ mutex' = mutex
      BY <1>1, <2>1
    <2>3. QED
      BY <1>1, <1>3, <2>2
  <1>4. CASE ~(n < length)
    <2>1. n = length /\ n + 1 \in Int /\ length \in Int /\ length < n + 1
      BY <1>2, <1>4
    <2>2. SubSeq(stamp, n + 1, length) = Nothing
      <3> HIDE DEF length
      <3>1. QED
        BY <2>1, SubSeqEmpty DEF Nothing
    <2>3. stamp' = Nothing /\ mutex' = NULL
      BY <1>1, <2>1, <2>2 DEF Unlock
    <2>4. QED
      BY <1>1, <1>4, <2>3
  <1>5. QED
    BY <1>3, <1>4

\* The timer writes at the position, which is at the end, while no client holds the mutex.
LEMMA StampKeeps ==
  ASSUME BaseInv, Stamp
  PROVE  StaysRight /\ (PositionInv => \E bytes \in Seq(Byte) : taken' = Then(taken, bytes))
  <1> DEFINE had == taken
             rest == stamp
  <1>1. stamp # Nothing /\ UNCHANGED << request, ticks, device, alive >>
    BY DEF Stamp, Nothing
  <1>2. PICK n \in 1 .. Len(rest) :
          /\ Write(SubSeq(rest, 1, n))
          /\ n < Len(rest) => stamp' = SubSeq(rest, n + 1, Len(rest)) /\ mutex' = mutex
          /\ ~(n < Len(rest)) => stamp' = Nothing /\ mutex' = NULL
    BY StampIsCut
  <1> DEFINE bytes == SubSeq(rest, 1, n)
             left == SubSeq(rest, n + 1, Len(rest))
             done == ~(n < Len(rest))
  <1>3. FileTypes /\ device \in BOOLEAN /\ rest \in Seq(Byte) /\ Len(rest) \in Nat /\ Len(rest) <= 2
    BY RequestsAssumption DEF BaseInv, ThreadTypes
  <1>4. mutex = Timer /\ \A c \in Clients : request[c].at \notin Inside
    BY <1>1, RequestsAssumption DEF BaseInv, MutexIsHeld
  <1>5. had \in Seq(Byte)
    BY <1>3, FileIsBytes
  <1>6. /\ bytes \in Seq(Byte)
        /\ ~done => left \in Seq(Byte) /\ Len(left) > 0 /\ Then(Then(had, bytes), left) = Then(had, rest)
        /\ done => bytes = rest
    <2> HIDE DEF had, rest
    <2>1. QED
      BY <1>3, <1>5, RestIsCut
  <1>7. ~done => Len(left) <= 2
    <2>1. ASSUME ~done
          PROVE  n + 1 \in 1 .. Len(rest) + 1 /\ Len(rest) \in (n + 1) - 1 .. Len(rest)
      BY <1>3, <2>1
    <2>2. ~done => Len(left) = Len(rest) - (n + 1) + 1
      <3> HIDE DEF rest, done
      <3>1. QED
        BY <1>3, <2>1, Slice
    <2> HIDE DEF left
    <2>3. QED
      BY <1>3, <2>2
  <1>8. Write(bytes) /\ stamp' = (IF done THEN Nothing ELSE left) /\ mutex' = IF done THEN NULL ELSE Timer
    BY <1>2, <1>4
  <1> HIDE DEF had, bytes, left, done
  <1>9. /\ FileTypes'
        /\ Appends => taken' = Then(had, bytes)
        /\ ~device /\ f_pos = Size => f_pos' = Size'
    BY <1>1, <1>3, <1>6, <1>8, WriteWrites DEF had
  <1>10. \A c \in Clients : request[c].at \notin {"end", "back", "reading", "sending", "seek_end", "writing", "start"}
    BY <1>4 DEF Inside
  <1>11. alive
    BY <1>4, RequestsAssumption DEF BaseInv, DeadIsQuiet
  <1>12. BaseInv'
    <2>1. ThreadTypes'
      <3>1. stamp' \in Seq(Byte) /\ Len(stamp') <= 2
        BY <1>6, <1>7, <1>8, NothingIsSeq
      <3>2. mutex' \in Clients \cup {Timer, NULL}
        BY <1>8
      <3>3. QED
        BY <1>1, <3>1, <3>2, RequestsAssumption DEF BaseInv, ThreadTypes
    <2>2. MutexIsHeld'
      <3>1. left = Nothing => Len(left) = 0
        BY NothingIsSeq
      <3>2. stamp' # Nothing <=> mutex' = Timer
        BY <1>6, <1>8, <3>1, RequestsAssumption
      <3>3. \A c \in Clients : mutex' # c
        BY <1>8, RequestsAssumption
      <3>4. QED
        BY <1>1, <1>4, <3>2, <3>3 DEF MutexIsHeld
    <2>3. ASSUME NEW c \in Clients
          PROVE  Knows(c)'
      <3>1. Knows(c)
        BY DEF BaseInv
      <3>2. QED
        BY <1>1, <1>10, <3>1 DEF Knows
    <2>4. DeadIsQuiet'
      BY <1>1, <1>11 DEF DeadIsQuiet
    <2>5. QED
      BY <1>9, <2>1, <2>2, <2>3, <2>4 DEF BaseInv
  <1>13. ASSUME PositionInv
        PROVE  PositionInv' /\ taken' = Then(had, bytes)
    <2>1. (~device => f_pos = Size) /\ Appends /\ Whole(Then(had, rest))
      BY <1>1, <1>3, <1>4, <1>11, <1>13 DEF PositionInv, AtEnd, Appends, Stamped, had
    <2>2. taken' = Then(had, bytes) /\ (~device => f_pos' = Size')
      BY <1>9, <2>1
    <2>3. taken' \in Seq(Byte)
      BY <1>9 DEF FileTypes
    <2>4. done => taken' = Then(had, rest)
      BY <1>6, <2>2
    <2>5. ~done => Then(taken', left) = Then(had, rest)
      BY <1>6, <2>2
    <2>6. Whole(taken')
      <3>1. CASE done
        BY <2>1, <2>4, <3>1
      <3>2. CASE ~done
        <4>1. left \in Seq(Byte) /\ Whole(Then(taken', left))
          BY <1>6, <2>1, <2>5, <3>2
        <4>2. QED
          BY <2>3, <4>1, WholeBeginning
      <3>3. QED
        BY <3>1, <3>2
    <2>7. Range(taken) \subseteq Range(taken')
      <3>1. Range(had) \subseteq Range(Then(had, bytes))
        BY <1>5, <1>6, RangeOfBoth
      <3>2. QED
        BY <2>2, <3>1 DEF had
    <2>8. AtEnd'
      BY <1>1, <2>2 DEF AtEnd
    <2>9. Stamped'
      <3>1. CASE done
        BY <1>8, <3>1 DEF Stamped
      <3>2. CASE ~done
        <4>1. Whole(Then(taken', left))
          BY <2>1, <2>5, <3>2
        <4>2. QED
          BY <1>8, <3>2, <4>1 DEF Stamped, Whole
      <3>3. QED
        BY <3>1, <3>2
    <2>10. ASSUME NEW c \in Clients
          PROVE  Positioned(c)' /\ Written(c)'
      <3>1. Written(c)
        BY <1>13 DEF PositionInv
      <3>2. Positioned(c)'
        BY <1>1, <1>10 DEF Positioned
      <3>3. Written(c)'
        BY <1>1, <1>10, <2>7, <3>1 DEF Written
      <3>4. QED
        BY <3>2, <3>3
    <2>11. PositionInv'
      BY <2>6, <2>8, <2>9, <2>10 DEF PositionInv, Whole
    <2>12. QED
      BY <2>2, <2>11
  <1>14. ASSUME ReplyInv
         PROVE  ReplyInv'
    <2>1. ASSUME NEW c \in Clients
          PROVE  Replied(c)'
      <3>1. Replied(c)
        BY <1>14 DEF ReplyInv
      <3>2. QED
        BY <1>1, <1>10, <3>1 DEF Replied
    <2>2. QED
      BY <2>1 DEF ReplyInv
  <1>15. QED
    BY <1>6, <1>12, <1>13, <1>14 DEF StaysRight, had

\* What the timer has written by then stays, and the position is after it.
LEMMA StampFailsKeeps ==
  ASSUME BaseInv, StampFails
  PROVE  StaysRight
  <1>1. /\ UNCHANGED << taken, f_pos, device, request, alive, ticks >>
        /\ stamp # Nothing /\ stamp' = Nothing /\ mutex' = NULL
    BY DEF StampFails, Unlock, file, Nothing
  <1>2. /\ Content' = Content /\ Size' = Size /\ taken' = taken /\ (FileTypes' <=> FileTypes)
        /\ \A c \in Clients : /\ Knows(c)' <=> Knows(c)
                              /\ Positioned(c)' <=> Positioned(c)
                              /\ Written(c)' <=> Written(c)
                              /\ Replied(c)' <=> Replied(c)
    BY <1>1, SameFileAndRequests
  <1>3. mutex = Timer
    BY <1>1 DEF BaseInv, MutexIsHeld
  <1>4. ThreadTypes'
    <2>1. stamp' \in Seq(Byte) /\ Len(stamp') <= 2
      BY <1>1, NothingIsSeq
    <2>2. QED
      BY <1>1, <2>1 DEF BaseInv, ThreadTypes
  <1>5. MutexIsHeld' /\ DeadIsQuiet'
    BY <1>1, <1>3, RequestsAssumption DEF BaseInv, MutexIsHeld, DeadIsQuiet
  <1>6. BaseInv'
    BY <1>2, <1>4, <1>5 DEF BaseInv
  <1>7. PositionInv => PositionInv'
    <2>1. AtEnd => AtEnd'
      BY <1>1, <1>2, <1>3 DEF AtEnd
    <2>2. Whole(taken) => Whole(taken)'
      BY <1>2 DEF Whole
    <2>3. Stamped'
      BY <1>1 DEF Stamped
    <2>4. QED
      BY <1>2, <2>1, <2>2, <2>3 DEF PositionInv
  <1>8. ReplyInv => ReplyInv'
    BY <1>2 DEF ReplyInv
  <1>9. QED
    BY <1>6, <1>7, <1>8 DEF StaysRight

-----------------------------------------------------------------------------
(* The signal that ends the process *)

LEMMA BreakPipeKeeps ==
  ASSUME BaseInv, NEW c \in Clients, BreakPipe(c)
  PROVE  StaysRight
  <1> DEFINE ended == [NewRequest EXCEPT !.at = "closed"]
  <1>1. /\ UNCHANGED << taken, f_pos, device, ticks, stamp >>
        /\ alive' = FALSE /\ mutex' = NULL /\ request[c].at \in Inside
        /\ request' = [d \in Clients |-> ended]
    BY DEF BreakPipe, Unlock, file, Inside
  <1>2. /\ ended \in Request /\ ended.at = "closed" /\ ended.whence = "SEEK_SET" /\ ended.packet = << >>
    <2>1. << >> \in Seq(Byte)
      OBVIOUS
    <2>2. QED
      BY <2>1 DEF NewRequest, Request, Inside
  <1> HIDE DEF ended
  <1>3. /\ Content' = Content /\ Size' = Size /\ taken' = taken /\ (FileTypes' <=> FileTypes)
    BY <1>1, FileUnchanged
  <1>4. \A d \in Clients : request'[d] = ended
    BY <1>1
  <1>5. stamp = Nothing
    BY <1>1, RequestsAssumption DEF BaseInv, MutexIsHeld
  <1>6. ThreadTypes'
    <2>1. request' \in [Clients -> Request]
      BY <1>1, <1>2
    <2>2. \A d \in Clients : request'[d].packet \in Packets(d)
      BY <1>2, <1>4 DEF Packets
    <2>3. \A d : Packets(d)' = Packets(d)
      BY DEF Packets, Packet
    <2>4. QED
      BY <1>1, <2>1, <2>2, <2>3 DEF BaseInv, ThreadTypes
  <1>7. MutexIsHeld' /\ DeadIsQuiet'
    <2>1. \A d \in Clients : request'[d].at = "closed"
      BY <1>2, <1>4
    <2>2. QED
      BY <1>1, <1>5, <2>1, RequestsAssumption DEF MutexIsHeld, DeadIsQuiet, Inside
  <1>8. \A d \in Clients : Knows(d)' /\ Positioned(d)' /\ Written(d)' /\ Replied(d)'
    <2>1. ASSUME NEW d \in Clients
          PROVE  Knows(d)' /\ Positioned(d)' /\ Written(d)' /\ Replied(d)'
      BY <1>2, <1>4 DEF Knows, Positioned, Written, Replied
    <2>2. QED
      BY <2>1
  <1>9. BaseInv'
    BY <1>3, <1>6, <1>7, <1>8 DEF BaseInv
  <1>10. PositionInv => PositionInv'
    <2>1. AtEnd' /\ Stamped'
      BY <1>1, <1>5 DEF AtEnd, Stamped
    <2>2. Whole(taken) => Whole(taken)'
      BY <1>3 DEF Whole
    <2>3. QED
      BY <1>8, <2>1, <2>2 DEF PositionInv
  <1>11. ReplyInv'
    BY <1>8 DEF ReplyInv
  <1>12. QED
    BY <1>9, <1>10, <1>11 DEF StaysRight

-----------------------------------------------------------------------------
(* The invariants *)

\* The file of an earlier run, if there is one, is one whole line.
LEMMA InitIsRight ==
  ASSUME Init
  PROVE  BaseInv /\ (PositionKept => PositionInv) /\ ReplyInv
  <1> DEFINE old == Line(NULL)
  <1>1. /\ device \in Builds /\ device \in BOOLEAN /\ f_pos = 0 /\ mutex = NULL /\ alive = TRUE
        /\ request = [c \in Clients |-> NewRequest] /\ ticks = 0 /\ stamp = Nothing
    BY RequestsAssumption DEF Init, Nothing
  <1>2. taken = Nothing \/ (device \in Leftover /\ taken = old)
    BY DEF Init, Nothing
  <1>3. /\ old \in Seq(Byte) /\ Len(old) = 2
        /\ \A i \in 1 .. 2 : old[i][1] = NULL /\ old[i][2] = i
    BY LineProperties DEF Senders
  <1>4. Nothing \in Seq(Byte) /\ Len(Nothing) = 0
    BY NothingIsSeq
  <1> HIDE DEF old
  <1>5. taken \in Seq(Byte)
    BY <1>2, <1>3, <1>4
  <1>6. Size \in Nat /\ (~device => Size = Len(taken))
    BY <1>5, StopsAreInFile
  <1>7. 0 \in Nat /\ 0 <= Size
    BY <1>6
  <1>8. FileTypes
    BY <1>1, <1>5, <1>7 DEF FileTypes
  <1>9. ASSUME NEW c \in Clients
        PROVE  /\ request[c] \in Request /\ request[c].packet \in Packets(c)
               /\ request[c].at = "recv" /\ request[c].whence = "SEEK_SET" /\ request[c].reply = Nothing
    <2>1. request[c] = NewRequest
      BY <1>1
    <2>2. NewRequest \in Request
      <3>1. << >> \in Seq(Byte)
        OBVIOUS
      <3>2. QED
        BY <3>1 DEF NewRequest, Request, Inside
    <2>3. NewRequest.packet \in Packets(c)
      BY DEF NewRequest, Packets
    <2>4. QED
      BY <2>1, <2>2, <2>3 DEF NewRequest, Nothing
  <1>10. ThreadTypes
    <2>1. request \in [Clients -> Request]
      <3>1. \A c \in Clients : request[c] \in Request
        BY <1>9
      <3> HIDE DEF Request
      <3>2. request = [c \in Clients |-> request[c]]
        BY <1>1
      <3>3. QED
        BY <3>1, <3>2
    <2>2. \A c \in Clients : request[c].packet \in Packets(c)
      BY <1>9
    <2>3. ticks \in 0 .. MaxTicks /\ mutex \in Clients \cup {Timer, NULL}
      <3>1. MaxTicks \in Nat
        BY RequestsAssumption
      <3>2. ticks = 0 /\ mutex = NULL
        BY <1>1
      <3>3. ticks \in 0 .. MaxTicks
        BY <3>1, <3>2
      <3>4. QED
        BY <3>2, <3>3
    <2>4. alive \in BOOLEAN /\ stamp \in Seq(Byte) /\ Len(stamp) <= 2
      BY <1>1, <1>4
    <2>5. QED
      BY <1>1, <2>1, <2>2, <2>3, <2>4 DEF ThreadTypes
  <1>11. MutexIsHeld /\ DeadIsQuiet
    BY <1>1, <1>9, RequestsAssumption DEF MutexIsHeld, DeadIsQuiet, Inside
  <1>12. \A c \in Clients : Knows(c) /\ Positioned(c) /\ Written(c) /\ Replied(c)
    <2>1. ASSUME NEW c \in Clients
          PROVE  Knows(c) /\ Positioned(c) /\ Written(c) /\ Replied(c)
      BY <1>9 DEF Knows, Positioned, Written, Replied
    <2>2. QED
      BY <2>1
  <1>13. ASSUME PositionKept
         PROVE  AtEnd
    <2>1. ~device => taken = Nothing
      BY <1>1, <1>2, <1>13 DEF PositionKept
    <2>2. QED
      BY <1>1, <1>4, <1>6, <2>1 DEF AtEnd
  <1>14. Whole(taken) /\ Stamped
    <2>1. Whole(Nothing)
      BY DEF Whole, Nothing
    <2>2. Whole(old)
      <3>1. DOMAIN old = 1 .. 2
        BY <1>3
      <3>2. QED
        BY <1>3, <3>1 DEF Whole
    <2>3. QED
      BY <1>1, <1>2, <2>1, <2>2 DEF Stamped
  <1>15. QED
    BY <1>8, <1>10, <1>11, <1>12, <1>13, <1>14 DEF BaseInv, PositionInv, ReplyInv, Whole

LEMMA NextKeeps ==
  ASSUME BaseInv, [Next]_vars
  PROVE  StaysRight
  <1>1. ASSUME NEW c \in Clients, Step(c)
        PROVE  StaysRight
    <2>1. CASE Recv(c) \/ RecvFails(c) \/ RecvSeekCommand(c) \/ Ioctl(c)
      BY <2>1, RecvKeeps, RecvFailsKeeps, RecvSeekCommandKeeps, IoctlKeeps
    <2>2. CASE SeekEnd(c) \/ WriteSome(c) \/ WriteFails(c) \/ ReadFails(c) \/ SendFails(c)
      BY <2>2, SeekEndKeeps, WriteSomeKeeps, FailuresKeep
    <2>3. CASE SeekStart(c) \/ SeekRangeEnd(c) \/ SeekBack(c) \/ ReadChunk(c) \/ Send(c)
      BY <2>3, SeekStartKeeps, SeekRangeEndKeeps, SeekBackKeeps, ReadChunkKeeps, SendKeeps
    <2>4. CASE BreakPipe(c)
      BY <2>4, BreakPipeKeeps
    <2>5. QED
      BY <1>1, <2>1, <2>2, <2>3, <2>4 DEF Step
  <1>2. ASSUME NEW c \in Clients, TakeLock(c)
        PROVE  StaysRight
    BY <1>2, LockKeeps
  <1>3. CASE Tick
    BY <1>3, TickKeeps
  <1>4. CASE Stamp
    BY <1>4, StampKeeps
  <1>5. CASE StampFails
    BY <1>5, StampFailsKeeps
  <1>6. CASE UNCHANGED vars
    BY <1>6, StutteringKeeps
  <1>7. QED
    BY <1>1, <1>2, <1>3, <1>4, <1>5, <1>6 DEF Next

\* Whatever fails, the types hold, the mutex is held by the thread between lock and
\* unlock, and the position of the regular file stays in the file.
THEOREM Invariance == Spec => []BaseInv
  <1>1. Init => BaseInv
    BY InitIsRight
  <1>2. BaseInv /\ [Next]_vars => BaseInv'
    BY NextKeeps DEF StaysRight
  <1>3. QED
    BY <1>1, <1>2, PTL DEF Spec

\* In every state of a request the thread's place, status and packet are those of the
\* code, and what it still has to read is not negative.
THEOREM TypeCorrect == Spec => []TypeOK
  <1>1. BaseInv => TypeOK
    <2> SUFFICES ASSUME BaseInv
                 PROVE  TypeOK
      OBVIOUS
    <2>1. /\ device \in Builds /\ device \in BOOLEAN /\ f_pos \in Nat
          /\ mutex \in Clients \cup {Timer, NULL} /\ ticks \in 0 .. MaxTicks /\ alive \in BOOLEAN
      BY RequestsAssumption DEF BaseInv, ThreadTypes, FileTypes
    <2>2. Len(stamp) \in 0 .. Len(Timestamp)
      <3>1. stamp \in Seq(Byte) /\ Len(stamp) <= 2
        BY DEF BaseInv, ThreadTypes
      <3>2. Len(stamp) \in Nat
        BY <3>1
      <3> DEFINE length == Len(stamp)
      <3>3. length \in Nat /\ length <= 2
        BY <3>1, <3>2
      <3> HIDE DEF length
      <3>4. length \in 0 .. 2
        BY <3>3
      <3>5. QED
        BY <3>4, TimestampProperties DEF length
    <2>3. ASSUME NEW c \in Clients
          PROVE  /\ request[c].at \in {"recv", "ioctl", "write", "seek_end", "writing", "sync", "read",
                                       "start", "end", "back", "reading", "sending", "closed"}
                 /\ request[c].status \in {"in_progress", "success", "error"}
                 /\ request[c].packet \in Packets(c)
                 /\ request[c].todo \in Nat
      <3>1. request[c] \in Request /\ request[c].packet \in Packets(c)
        BY RequestFields
      <3>2. QED
        BY <3>1 DEF Request, Inside
    <2>4. QED
      BY <2>1, <2>2, <2>3 DEF TypeOK
  <1>2. QED
    BY <1>1, Invariance, PTL

\* No two threads are between lock and unlock of the safe file, and none leaves with the
\* mutex, on whichever error path.
THEOREM MutualExclusion == Spec => []MutexIsHeld
  <1>1. BaseInv => MutexIsHeld
    BY DEF BaseInv
  <1>2. QED
    BY <1>1, Invariance, PTL

-----------------------------------------------------------------------------
(* What the invariants say of the runs' properties *)

\* Where no reply on the regular file is cut off and no earlier run has left a line, the
\* timer finds the position at the end of the file.
THEOREM PositionInvariance ==
  ASSUME PositionKept
  PROVE  Spec => [](BaseInv /\ PositionInv)
  <1>1. Init => BaseInv /\ PositionInv
    BY InitIsRight
  <1>2. BaseInv /\ PositionInv /\ [Next]_vars => (BaseInv /\ PositionInv)'
    BY NextKeeps DEF StaysRight
  <1>3. QED
    BY <1>1, <1>2, PTL DEF Spec

\* Where sends take all of their bytes, what a client has received is the range its read
\* began with, up to the position.
THEOREM ReplyInvariance ==
  ASSUME NoShortSends
  PROVE  Spec => [](BaseInv /\ ReplyInv)
  <1>1. Init => BaseInv /\ ReplyInv
    BY InitIsRight
  <1>2. BaseInv /\ ReplyInv /\ [Next]_vars => (BaseInv /\ ReplyInv)'
    BY NextKeeps DEF StaysRight
  <1>3. QED
    BY <1>1, <1>2, PTL DEF Spec

\* No byte of another packet or timestamp gets between two of a packet, however many
\* write calls it takes and in whatever order the threads run.
THEOREM PacketsWhole ==
  ASSUME PositionKept
  PROVE  Spec => []PacketsStayWhole
  <1>1. PositionInv => PacketsStayWhole
    BY DEF PositionInv, Whole, PacketsStayWhole
  <1>2. QED
    BY <1>1, PositionInvariance, PTL

\* A step appends to what the file has taken, or leaves it.
LEMMA StepsAppend ==
  ASSUME BaseInv, PositionInv, [Next]_vars
  PROVE  taken' = taken \/ \E bytes \in Seq(Byte) : taken' = Then(taken, bytes)
  <1>1. UNCHANGED taken => taken' = taken
    OBVIOUS
  <1>2. ASSUME NEW c \in Clients, Step(c), ~WriteSome(c)
        PROVE  UNCHANGED taken
    <2>1. CASE Recv(c) \/ RecvFails(c) \/ RecvSeekCommand(c) \/ Ioctl(c)
      BY <2>1 DEF Recv, RecvFails, RecvSeekCommand, Ioctl, file
    <2>2. CASE SeekEnd(c) \/ WriteFails(c) \/ ReadFails(c) \/ SendFails(c)
      BY <2>2 DEF SeekEnd, WriteFails, ReadFails, SendFails, file
    <2>3. CASE SeekStart(c) \/ SeekRangeEnd(c) \/ SeekBack(c)
      BY <2>3 DEF SeekStart, SeekRangeEnd, SeekBack
    <2>4. CASE ReadChunk(c) \/ Send(c) \/ BreakPipe(c)
      BY <2>4 DEF ReadChunk, Send, BreakPipe, file
    <2>5. QED
      BY <1>2, <2>1, <2>2, <2>3, <2>4 DEF Step
  <1>3. ASSUME NEW c \in Clients, TakeLock(c)
        PROVE  UNCHANGED taken
    BY <1>3 DEF TakeLock, WriteLock, Sync, ReadLock, LockFor, file
  <1>4. Tick \/ StampFails \/ UNCHANGED vars => UNCHANGED taken
    BY DEF Tick, StampFails, vars, file
  <1>5. ASSUME NEW c \in Clients, WriteSome(c)
        PROVE  \E bytes \in Seq(Byte) : taken' = Then(taken, bytes)
    BY <1>5, WriteSomeKeeps
  <1>6. Stamp => \E bytes \in Seq(Byte) : taken' = Then(taken, bytes)
    BY StampKeeps
  <1>7. QED
    BY <1>1, <1>2, <1>3, <1>4, <1>5, <1>6 DEF Next

\* Nothing that was written to the file is ever overwritten, by a packet or a timestamp.
THEOREM FileGrows ==
  ASSUME PositionKept
  PROVE  Spec => FileOnlyGrows
  <1>1. ASSUME BaseInv, PositionInv, [Next]_vars
        PROVE  IsPrefix(taken, taken')
    <2> DEFINE had == taken
    <2>1. had \in Seq(Byte)
      BY <1>1, FileIsBytes DEF BaseInv
    <2>2. taken' = had \/ \E bytes \in Seq(Byte) : taken' = Then(had, bytes)
      BY <1>1, StepsAppend
    <2> HIDE DEF had
    <2>3. IsPrefix(had, had)
      BY <2>1 DEF IsPrefix
    <2>4. ASSUME NEW bytes \in Seq(Byte)
          PROVE  IsPrefix(had, Then(had, bytes))
      <3> DEFINE both == Then(had, bytes)
      <3>1. both \in Seq(Byte) /\ Len(both) = Len(had) + Len(bytes)
        BY <2>1, ThenProperties
      <3>2. \A i \in 1 .. Len(had) : both[i] = had[i]
        BY <2>1, ThenProperties
      <3> HIDE DEF both
      <3>3. Len(had) \in Nat /\ Len(bytes) \in Nat /\ Len(had) <= Len(both)
        BY <2>1, <3>1
      <3>4. SubSeq(had, 1, Len(had)) = had
        BY <2>1, SubSeqFull
      <3>5. SubSeq(both, 1, Len(had)) = had
        <4> DEFINE m == Len(had)
                   first == SubSeq(both, 1, m)
        <4>1. m \in Nat /\ 1 \in 1 .. Len(both) + 1 /\ m \in 1 - 1 .. Len(both) /\ m - 1 + 1 = m
          BY <3>1, <3>3
        <4>2. first \in Seq(Byte) /\ Len(first) = m - 1 + 1
          BY <3>1, <4>1, Slice
        <4>3. \A i \in 1 .. m - 1 + 1 : first[i] = both[1 + i - 1]
          BY <3>1, <4>1, Slice
        <4> HIDE DEF first
        <4>4. Len(first) = Len(had) /\ \A i \in 1 .. Len(had) : first[i] = had[i]
          BY <3>2, <4>1, <4>2, <4>3
        <4>5. first = had
          BY <2>1, <4>2, <4>4
        <4>6. QED
          BY <4>5 DEF first
      <3>6. IsPrefix(had, both)
        BY <3>3, <3>4, <3>5 DEF IsPrefix
      <3>7. QED
        BY <3>6 DEF both
    <2>5. IsPrefix(had, taken')
      BY <2>2, <2>3, <2>4
    <2>6. QED
      BY <2>5 DEF had
  <1>2. QED
    BY <1>1, PositionInvariance, PTL DEF Spec, FileOnlyGrows

-----------------------------------------------------------------------------
(* Replies *)

\* A request that succeeds does so with a send.
LEMMA AnswersAreSent ==
  ASSUME BaseInv, [Next]_vars, NEW c \in Clients, Answered(c)
  PROVE  Send(c)
  <1>1. /\ request[c].at # "closed" /\ request'[c].at = "closed" /\ request'[c].status = "success"
        /\ request \in [Clients -> Request] /\ request[c] \in Request
    BY RequestFields DEF Answered
  <1>2. UNCHANGED request => FALSE
    BY <1>1
  <1>3. ASSUME NEW d \in Clients, BreakPipe(d)
        PROVE  FALSE
    <2> DEFINE ended == [NewRequest EXCEPT !.at = "closed"]
    <2>1. request' = [e \in Clients |-> ended]
      BY <1>3 DEF BreakPipe
    <2>2. ended.status = "in_progress"
      BY DEF NewRequest
    <2> HIDE DEF ended
    <2>3. request'[c] = ended
      BY <2>1
    <2>4. QED
      BY <1>1, <2>2, <2>3
  <1>4. ASSUME NEW d \in Clients, d # c, Step(d) \/ TakeLock(d)
        PROVE  request'[c] = request[c]
    <2>1. CASE TakeLock(d)
      BY <1>1, <1>4, <2>1 DEF TakeLock, WriteLock, Sync, ReadLock, LockFor, Go
    <2>2. CASE Recv(d) \/ RecvFails(d) \/ RecvSeekCommand(d) \/ Ioctl(d)
      BY <1>1, <1>4, <2>2 DEF Recv, RecvFails, RecvSeekCommand, Ioctl, Go, Close
    <2>3. CASE SeekEnd(d) \/ WriteFails(d) \/ ReadFails(d) \/ SendFails(d)
      BY <1>1, <1>4, <2>3 DEF SeekEnd, WriteFails, ReadFails, SendFails, Go, Close
    <2>4. CASE SeekStart(d) \/ SeekRangeEnd(d) \/ SeekBack(d) \/ ReadChunk(d)
      BY <1>1, <1>4, <2>4 DEF SeekStart, SeekRangeEnd, SeekBack, ReadChunk, Go, Close
    <2>5. CASE WriteSome(d)
      <3>1. \E new : Enters(d, new)
        BY <2>5, WriteSomeIsAfterWrite
      <3>2. QED
        BY <1>4, <3>1, EntersRequest
    <2>6. CASE Send(d)
      <3>1. \E new : Enters(d, new)
        BY <2>6, SendIsAfterSend
      <3>2. QED
        BY <1>4, <3>1, EntersRequest
    <2>7. QED
      BY <1>4, <1>3, <2>1, <2>2, <2>3, <2>4, <2>5, <2>6 DEF Step
  <1>5. ASSUME TakeLock(c)
        PROVE  request'[c].at # "closed"
    <2>1. CASE WriteLock(c)
      BY <1>1, <2>1 DEF WriteLock, LockFor, Go, Request
    <2>2. CASE Sync(c)
      BY <1>1, <2>2 DEF Sync, Go, Request
    <2>3. CASE ReadLock(c)
      BY <1>1, <2>3 DEF ReadLock, LockFor, Go, Request
    <2>4. QED
      BY <1>5, <2>1, <2>2, <2>3 DEF TakeLock
  <1>6. ASSUME Step(c), ~Send(c)
        PROVE  request'[c].at # "closed" \/ request'[c].status = "error"
    <2>1. CASE RecvFails(c) \/ RecvSeekCommand(c) \/ Ioctl(c)
      BY <1>1, <2>1 DEF RecvFails, RecvSeekCommand, Ioctl, Go, Close, Request
    <2>2. CASE Recv(c)
      <3>1. PICK packet \in Packets(c) :
              request' = [request EXCEPT ![c].packet = packet, ![c].rest = packet,
                                         ![c].at = IF packet = << >> THEN "sync" ELSE "write"]
        BY <2>2 DEF Recv
      <3> DEFINE at == IF packet = << >> THEN "sync" ELSE "write"
      <3>2. at # "closed"
        OBVIOUS
      <3>3. request' = [request EXCEPT ![c] = [request[c] EXCEPT !.packet = packet, !.rest = packet, !.at = at]]
        BY <1>1, <3>1
      <3> HIDE DEF at
      <3>4. QED
        BY <1>1, <3>2, <3>3 DEF Request
    <2>3. CASE SeekEnd(c) \/ WriteFails(c) \/ ReadFails(c) \/ SendFails(c)
      BY <1>1, <2>3 DEF SeekEnd, WriteFails, ReadFails, SendFails, Go, Close, Request
    <2>4. CASE SeekStart(c) \/ SeekRangeEnd(c) \/ SeekBack(c) \/ ReadChunk(c)
      BY <1>1, <2>4 DEF SeekStart, SeekRangeEnd, SeekBack, ReadChunk, Go, Close, Request
    <2>5. CASE WriteSome(c)
      <3>1. PICK n \in 1 .. Len(request[c].rest) : Enters(c, AfterWrite(request[c], n))
        BY <2>5, WriteSomeIsAfterWrite
      <3>2. request'[c] = AfterWrite(request[c], n)
        BY <3>1, EntersRequest
      <3>3. request[c].at = "writing"
        BY <2>5 DEF WriteSome
      <3>4. AfterWrite(request[c], n).at # "closed"
        <4> DEFINE r == request[c]
                   at == IF IsLast(r.packet) THEN "sync" ELSE "read"
                   left == SubSeq(r.rest, n + 1, Len(r.rest))
        <4>1. at # "closed"
          OBVIOUS
        <4>2. AfterWrite(r, n) = [r EXCEPT !.rest = left] \/ AfterWrite(r, n) = [r EXCEPT !.at = at]
          BY DEF AfterWrite
        <4> HIDE DEF at, left
        <4>3. QED
          BY <1>1, <3>3, <4>1, <4>2 DEF Request
      <3>5. QED
        BY <3>2, <3>4
    <2>6. QED
      BY <1>3, <1>6, <2>1, <2>2, <2>3, <2>4, <2>5 DEF Step
  <1>7. Tick \/ Stamp \/ StampFails \/ UNCHANGED vars => UNCHANGED request
    BY DEF Tick, Stamp, StampFails, vars
  <1>8. QED
    BY <1>1, <1>2, <1>3, <1>4, <1>5, <1>6, <1>7 DEF Next

\* The last send of a reply completes the range it was read for.
LEMMA AnswerIsRest ==
  ASSUME BaseInv, ReplyInv, NoShortSends, NEW c \in Clients, Answered(c), Send(c), Undisturbed(c)
  PROVE  request'[c].reply = SubSeq(Content, request[c].start + 1, Size)
  <1> DEFINE r == request[c]
             chunk == r.chunk
             reply == Then(r.reply, SubSeq(chunk, 1, Len(chunk)))
  <1>1. /\ r \in Request /\ r.at = "sending" /\ device \in Builds /\ request'[c].at = "closed"
        /\ r.sended = 0 /\ chunk \in Seq(Byte) /\ Len(chunk) \in Nat
        /\ f_pos <= Size /\ r.todo = Size - f_pos
        /\ Then(r.reply, chunk) = SubSeq(Content, r.start + 1, f_pos)
    <2>1. r \in Request /\ Replied(c) /\ device \in Builds
      BY RequestFields DEF BaseInv, ThreadTypes
    <2>2. r.at = "sending" /\ request'[c].at = "closed"
      BY DEF Send, Answered
    <2>3. chunk \in Seq(Byte) /\ Len(chunk) \in Nat
      BY <2>1 DEF Request
    <2>4. /\ r.sended = 0 /\ f_pos <= Size /\ r.todo = Size - f_pos
          /\ Then(r.reply, chunk) = SubSeq(Content, r.start + 1, f_pos)
      BY <2>1, <2>2 DEF Replied
    <2>5. QED
      BY <2>1, <2>2, <2>3, <2>4
  <1>2. Enters(c, AfterSend(r, Len(chunk)))
    BY <1>1, SendIsAfterSend DEF NoShortSends
  <1>3. request'[c] = AfterSend(r, Len(chunk))
    BY <1>2, EntersRequest
  <1>4. SubSeq(chunk, 1, Len(chunk)) = chunk
    BY <1>1, SubSeqFull
  <1>5. SendsLast(r, Len(chunk))
    BY <1>1 DEF SendsLast
  <1> DEFINE new == AfterSend(r, Len(chunk))
             sended == r.sended + Len(chunk)
  <1>6. new = IF r.todo = 0
              THEN [[r EXCEPT !.reply = reply, !.sended = sended] EXCEPT !.at = "closed", !.status = "success"]
              ELSE [[r EXCEPT !.reply = reply, !.sended = sended] EXCEPT !.at = "reading"]
    BY <1>5 DEF AfterSend, Sent
  <1>7. reply = Then(r.reply, chunk)
    BY <1>4
  <1> HIDE DEF new, reply, sended
  <1>8. r.todo = 0 /\ new.reply = reply
    BY <1>1, <1>3, <1>6 DEF Request, new
  <1>9. f_pos = Size
    <2>1. f_pos \in Nat /\ Size \in Nat
      BY FileIsBytes DEF BaseInv, FileTypes
    <2>2. QED
      BY <1>1, <1>8, <2>1
  <1>10. QED
    BY <1>1, <1>3, <1>7, <1>8, <1>9 DEF new

\* A client that nobody's seek command disturbs gets all of the file, its packet included.
THEOREM ReplyIsWhole ==
  ASSUME PositionKept, NoShortSends
  PROVE  Spec => ReplyIsContent
  <1>1. ASSUME BaseInv, PositionInv, ReplyInv, [Next]_vars, NEW c \in Clients, Answered(c), NobodySeeks
        PROVE  request'[c].reply = Content /\ Range(request[c].packet) \subseteq Range(taken)
    <2>1. Send(c)
      BY <1>1, AnswersAreSent
    <2>2. request[c].at = "sending" /\ request[c].whence = "SEEK_SET" /\ Undisturbed(c)
      BY <1>1, <2>1 DEF Send, NobodySeeks, Undisturbed
    <2>3. request[c].start = 0 /\ Range(request[c].packet) \subseteq Range(taken)
      BY <1>1, <2>2, RequestFields DEF Knows, Written
    <2>4. request'[c].reply = SubSeq(Content, request[c].start + 1, Size)
      BY <1>1, <2>1, <2>2, AnswerIsRest
    <2>5. SubSeq(Content, 1, Size) = Content
      <3>1. Content \in Seq(Byte) /\ Len(Content) = Size
        BY <1>1, FileIsBytes DEF BaseInv
      <3>2. SubSeq(Content, 1, Len(Content)) = Content
        BY <3>1, SubSeqFull
      <3>3. QED
        BY <3>1, <3>2
    <2>6. QED
      BY <2>3, <2>4, <2>5
  <1>2. BaseInv /\ PositionInv /\ ReplyInv /\ [Next]_vars =>
          \A c \in Clients :
            Answered(c) /\ NobodySeeks =>
              /\ request'[c].reply = Content
              /\ Range(request[c].packet) \subseteq Range(taken)
    BY <1>1
  <1>3. QED
    BY <1>2, PositionInvariance, ReplyInvariance, PTL DEF Spec, ReplyIsContent

\* The one client that seeks gets the device from where its read began, whoever writes.
THEOREM SeekReplyIsTheRest ==
  ASSUME NoShortSends, \A c, d \in Seekers : c = d
  PROVE  Spec => SeekReplyIsRest
  <1>1. ASSUME BaseInv, ReplyInv, [Next]_vars, NEW c \in Clients, Answered(c), request[c].whence = "SEEK_CUR"
        PROVE  request'[c].reply = SubSeq(Content, request[c].start + 1, Len(Content))
    <2>1. Send(c)
      BY <1>1, AnswersAreSent
    <2>2. Undisturbed(c)
      <3>1. c \in Seekers
        BY <1>1, RequestFields DEF Knows
      <3>2. ASSUME NEW d \in Clients \ {c}
            PROVE  request[d].whence = "SEEK_SET"
        <4>1. request[d] \in Request /\ Knows(d)
          BY <1>1, RequestFields
        <4>2. request[d].whence = "SEEK_CUR" => d \in Seekers
          BY <4>1 DEF Knows
        <4>3. request[d].whence \in {"SEEK_SET", "SEEK_CUR"}
          BY <4>1 DEF Request
        <4>4. QED
          BY <3>1, <4>2, <4>3
      <3>3. QED
        BY <3>2 DEF Undisturbed
    <2>3. request'[c].reply = SubSeq(Content, request[c].start + 1, Size)
      BY <1>1, <2>1, <2>2, AnswerIsRest
    <2>4. Len(Content) = Size
      BY <1>1, FileIsBytes DEF BaseInv
    <2>5. QED
      BY <2>3, <2>4
  <1>2. BaseInv /\ ReplyInv /\ [Next]_vars =>
          \A c \in Clients :
            Answered(c) /\ request[c].whence = "SEEK_CUR" =>
              request'[c].reply = SubSeq(Content, request[c].start + 1, Len(Content))
    BY <1>1
  <1>3. QED
    BY <1>2, ReplyInvariance, PTL DEF Spec, SeekReplyIsRest
=============================================================================
