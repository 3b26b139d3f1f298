-------------------------------- MODULE Wire --------------------------------
(***************************************************************************)
(* A log from the device to the reader: LOG in TargetLib/slog/ShrinkLog.h  *)
(* driven by a line of Tags.h, the interface and the text file it is       *)
(* collected in, and Decoder::DecodeTextFormat driven by map.slog.  Both   *)
(* files come from one run of the processor.                               *)
(*                                                                         *)
(* What crosses the interface is a sequence of characters.  A character    *)
(* is known by what it stands for: half a byte of an argument of a log,    *)
(* a character of a string, the NUL after it, the end of a line.  It may   *)
(* be disturbed on its way, or LOG may be.                                 *)
(***************************************************************************)
EXTENDS Codec, IdWidth

Seqs == INSTANCE SequencesExt

CONSTANTS Messages,     \* the messages that are logged, each with an id
          Rows,         \* rows of the map: every id is in 1 .. Rows
          LongDouble,   \* the firmware defines SLOG_LONG_DOUBLE_ENABLE
          BigEndian,    \* the target stores the highest byte first; the host does not
          Strings,      \* contents of string arguments
          MaxLogs,      \* bound: logs made before they are collected
          Disturbances, \* what may happen to them, see DisturbanceKinds
          MaxHits       \* bound: how often it does

DisturbanceKinds == {"lose", "late", "reset", "interrupt"}

(* Sizes of int and long long other than these are errors of ShrinkLog.h.  *)
ASSUME WireAssumption ==
  /\ Rows \in Nat \ {0}
  /\ \A message \in Messages :
       message \in Seq(Placeholders) /\ \A k \in DOMAIN message : Encodable(message[k])
  /\ \A string \in Strings : string \in Seq({"chr", "eol"})
  /\ LongDouble \in BOOLEAN /\ BigEndian \in BOOLEAN
  /\ {SizeOf["int"], SizeOf["long long"]} \subseteq {1, 2, 4, 8}
  /\ SizeOf["int"] <= SizeOf["long long"]
  /\ MaxLogs \in Nat /\ MaxHits \in Nat
  /\ Disturbances \subseteq DisturbanceKinds

VARIABLES
  logged,   \* the calls of LOG: message and the string it passes
  me,       \* the call that is running
  lpc,      \* where LOG is
  tagIt,    \* the argument code it looks at
  va,       \* the argument va_arg yields next
  wire,     \* the characters collected
  cut,      \* the calls of which a character is missing there
  hits,     \* the disturbances so far
  dpc,      \* where the decoder is
  rest,     \* lines not read yet
  line,     \* the line being decoded
  cursor,   \* characters of it consumed
  row,      \* the descriptor of its message
  shown,    \* values printed for it
  decoded   \* the logs printed

faults  == <<cut, hits>>
device  == <<logged, me, lpc, tagIt, va, wire, faults>>
decoder == <<dpc, rest, line, cursor, row, shown, decoded>>
vars    == <<device, decoder>>

Init ==
  /\ logged = <<>> /\ me = 0 /\ lpc = "idle" /\ tagIt = 1 /\ va = 1
  /\ wire = <<>> /\ cut = {} /\ hits = 0
  /\ dpc = "off" /\ rest = <<>> /\ line = <<>> /\ cursor = 0
  /\ row = <<>> /\ shown = <<>> /\ decoded = <<>>

-----------------------------------------------------------------------------
(* Characters.  Argument 0 of a log is its id.                             *)

Char(kind, log, arg, pos) == [kind |-> kind, log |-> log, arg |-> arg, pos |-> pos]

HexText(log, arg, bytes) == [k \in 1 .. 2 * bytes |-> Char("hex", log, arg, k)]

StringText(log, arg, content) ==
  [k \in DOMAIN content |-> Char(content[k], log, arg, k)]

EndOfLine(log) == Char("eol", log, 0, 0)
Nul(log)       == Char("nul", log, 0, 0)
IdText(log)    == HexText(log, 0, HeaderIdBytes(Rows))

(* The union through which an integer is sent: what SLOG_INT_MAX_B_SIZE    *)
(* has no branch for is not sent.                                          *)
IntBytes == IF SizeOf["long long"] \in {4, 8} THEN SizeOf["long long"] ELSE 0

(* va_arg fills the member of the size asked for, of an int at least; then *)
(* the whole union is shifted out.  The member is at the low end of the    *)
(* union or, on a big-endian target, at the high end.                      *)
Filled(bytes) ==
  /\ bytes <= IntBytes
  /\ BigEndian => IntBytes \in {bytes, SizeOf["int"]}

(* Digits of an uninitialized union, or of a shift by more than its width, *)
(* stand for nothing in the argument.                                      *)
IntegerText(log, arg, bytes) ==
  [k \in 1 .. 2 * bytes |-> Char("hex", log, arg, IF Filled(bytes) THEN k ELSE 0)]

(* The bytes of a floating-point number as they lie in memory; HexText is  *)
(* the order the decoder takes them in, the one of its host.               *)
MemoryText(log, arg, bytes) ==
  [k \in 1 .. 2 * bytes |->
     Char("hex", log, arg,
          IF ~BigEndian THEN k ELSE IF k % 2 = 1 THEN 2 * bytes - k ELSE 2 * bytes + 2 - k)]

(* The branches of LOG, by argument code, and what they send.              *)
HasBranch(code) ==
  \/ code <= 8 /\ IntBytes > 0
  \/ code \in {24, StringCode}
  \/ code = 32 /\ LongDouble

CodeText(log, arg, code, content) ==
  CASE code <= 8         -> IntegerText(log, arg, code)
    [] code = 24         -> MemoryText(log, arg, 8)
    [] code = 32         -> MemoryText(log, arg, 16)
    [] code = StringCode -> Append(StringText(log, arg, content), Nul(log))

(* All that one call of LOG sends.                                         *)
ArgText(log, message, content, k) ==
  LET Sends(j) == HasBranch(ArgCode(message[j]))
  IN  IF Sends(k)
      THEN CodeText(log, 1 + Cardinality({j \in 1 .. k - 1 : Sends(j)}), ArgCode(message[k]), content)
      ELSE <<>>

LogText(log, message, content) ==
  Append(Seqs!FlattenSeq(<<IdText(log)>> \o
                         [k \in DOMAIN message |-> ArgText(log, message, content, k)]),
         EndOfLine(log))

Current == logged[me]
Codes   == [k \in DOMAIN Current.message |-> ArgCode(Current.message[k])]

-----------------------------------------------------------------------------
(* LOG.                                                                    *)

(* A string is passed only to a message that has a place for it.           *)
Contents(message) ==
  IF \E k \in DOMAIN message : ArgCode(message[k]) = StringCode THEN Strings ELSE {<<>>}

LogBegin(message, content) ==
  /\ dpc = "off" /\ lpc = "idle"
  /\ Len(logged) < MaxLogs
  /\ logged' = Append(logged, [message |-> message, string |-> content])
  /\ me' = Len(logged')
  /\ wire' = wire \o IdText(me')
  /\ lpc' = "args" /\ tagIt' = 1 /\ va' = 1
  /\ UNCHANGED <<faults, decoder>>

More == lpc = "args" /\ tagIt <= Len(Codes)

(* One branch of the loop takes an argument and sends its characters.      *)
Send(chars) ==
  /\ wire' = wire \o chars
  /\ va' = va + 1
  /\ tagIt' = tagIt + 1
  /\ UNCHANGED <<logged, me, lpc, faults, decoder>>

Argument == CodeText(me, va, Codes[tagIt], Current.string)

PrintStaticArgument == More /\ Codes[tagIt] <= 8 /\ IntBytes > 0 /\ Send(Argument)

PrintDouble == More /\ Codes[tagIt] = 24 /\ Send(Argument)

PrintLongDouble == More /\ Codes[tagIt] = 32 /\ LongDouble /\ Send(Argument)

PrintStringArgument == More /\ Codes[tagIt] = StringCode /\ Send(Argument)

(* No branch for this code: nothing is sent and va_arg is not called.      *)
SkipCode ==
  /\ More /\ ~HasBranch(Codes[tagIt])
  /\ tagIt' = tagIt + 1
  /\ UNCHANGED <<logged, me, lpc, va, wire, faults, decoder>>

(* The newline goes through putchar, the rest through SlogPutchar.         *)
LogEnd ==
  /\ lpc = "args" /\ tagIt > Len(Codes)
  /\ wire' = Append(wire, EndOfLine(me))
  /\ lpc' = "idle" /\ tagIt' = 1 /\ va' = 1
  /\ UNCHANGED <<logged, me, faults, decoder>>

-----------------------------------------------------------------------------
(* Disturbances, before the characters are in the file.                    *)

Disturb(kind) ==
  /\ kind \in Disturbances /\ hits < MaxHits
  /\ dpc = "off"
  /\ hits' = hits + 1
  /\ UNCHANGED decoder

Before(k) == SubSeq(wire, 1, k - 1)
After(k)  == SubSeq(wire, k + 1, Len(wire))

(* The interface loses a character; also a line end, when putchar and      *)
(* SlogPutchar are not the same interface.  LOG reads nothing back, so it  *)
(* does not matter when, and this waits for the end of the call.           *)
Lose ==
  /\ Disturb("lose") /\ lpc = "idle"
  /\ \E k \in DOMAIN wire : wire' = Before(k) \o After(k) /\ cut' = cut \cup {wire[k].log}
  /\ UNCHANGED <<logged, me, lpc, tagIt, va>>

IsLineEnd(k) == wire[k] = EndOfLine(wire[k].log)

(* putchar keeps a line end back while SlogPutchar sends on.               *)
Late ==
  /\ Disturb("late") /\ lpc = "idle"
  /\ \E k, j \in DOMAIN wire :
       /\ k < j /\ IsLineEnd(k) /\ \A i \in k + 1 .. j : ~IsLineEnd(i)
       /\ wire' = Before(k) \o SubSeq(wire, k + 1, j) \o <<wire[k]>> \o After(j)
  /\ UNCHANGED <<logged, me, lpc, tagIt, va, cut>>

Mine == {k \in DOMAIN wire : wire[k].log = me}

(* The device is reset before the k-th character is sent, or the newline.  *)
Reset ==
  /\ Disturb("reset") /\ lpc = "args"
  /\ \E k \in Mine \cup {Len(wire) + 1} :
       (\A i \in k .. Len(wire) : i \in Mine) /\ wire' = Before(k)
  /\ cut' = cut \cup {me}
  /\ lpc' = "idle" /\ tagIt' = 1 /\ va' = 1
  /\ UNCHANGED <<logged, me>>

(* An interrupt handler makes a log of any message after a character of    *)
(* the call, and after the logs of the interrupts before it.               *)
Interrupt ==
  /\ Disturb("interrupt") /\ lpc = "args"
  /\ Len(logged) < MaxLogs
  /\ \E message \in Messages : \E content \in Contents(message), k \in DOMAIN wire :
       /\ \E j \in Mine : j <= k
       /\ \A i \in k + 1 .. Len(wire) : i \in Mine
       /\ logged' = Append(logged, [message |-> message, string |-> content])
       /\ wire' = Before(k + 1) \o LogText(Len(logged'), message, content) \o After(k)
  /\ UNCHANGED <<me, lpc, tagIt, va, cut>>

-----------------------------------------------------------------------------
(* The decoder, started on the collected file.  An exception in            *)
(* DecodeTextFormat, which is noexcept, terminates it: nothing is printed. *)

Collect ==
  /\ dpc = "off" /\ lpc = "idle"
  /\ dpc' = "line" /\ rest' = wire
  /\ UNCHANGED <<device, line, cursor, row, shown, decoded>>

Terminate ==
  /\ dpc' = "terminated"
  /\ UNCHANGED <<device, rest, line, cursor, row, shown, decoded>>

FirstLine ==
  LET ends == {k \in DOMAIN rest : rest[k].kind = "eol"}
  IN  IF ends = {} THEN Len(rest) + 1 ELSE CHOOSE k \in ends : \A j \in ends : k <= j

(* std::getline: up to the newline, or up to the end of the file.          *)
GetLine ==
  /\ dpc = "line" /\ rest # <<>>
  /\ line' = SubSeq(rest, 1, FirstLine - 1)
  /\ rest' = SubSeq(rest, FirstLine + 1, Len(rest))
  /\ cursor' = 0
  /\ dpc' = "index"
  /\ UNCHANGED <<device, row, shown, decoded>>

EndOfFile ==
  /\ dpc = "line" /\ rest = <<>>
  /\ dpc' = "done"
  /\ UNCHANGED <<device, rest, line, cursor, row, shown, decoded>>

(* hexStringToType throws on a character that is no hex digit, and so at   *)
(* the end of the line.  A character of a string may be a digit or not.    *)
Readable(n, kinds) ==
  /\ cursor + n <= Len(line)
  /\ \A k \in cursor + 1 .. cursor + n : line[k].kind \in kinds

CanRead(n)  == Readable(n, {"hex", "chr"})
MayThrow(n) == ~Readable(n, {"hex"})

Read(n) == SubSeq(line, cursor + 1, cursor + n)

IndexChars == 2 * DecoderIdBytes(Rows)

(* The logs whose id these characters are.                                 *)
Heard == {n \in DOMAIN logged : Read(IndexChars) = IdText(n)}

(* Other characters make any number: one beyond the map, or one of any     *)
(* row, which may be empty.                                                *)
IndexRows ==
  IF Heard # {} THEN {logged[n].message : n \in Heard} ELSE {<<>>} \cup Messages

IndexTerminates ==
  /\ dpc = "index"
  /\ IF CanRead(IndexChars) THEN MayThrow(IndexChars) \/ Heard = {} ELSE TRUE
  /\ Terminate

(* Mutation: the cursor stays before the id.                               *)
ReadIndex_Stay ==
  /\ dpc = "index"
  /\ CanRead(IndexChars)
  /\ \E message \in IndexRows : row' = Descriptor(message)
  /\ shown' = <<Read(IndexChars)>>
  /\ dpc' = "chunks"
  /\ UNCHANGED <<device, rest, line, cursor, decoded>>

(* Mutation: the values of the previous line are kept.                     *)
ReadIndex_KeepShown ==
  /\ dpc = "index"
  /\ CanRead(IndexChars)
  /\ \E message \in IndexRows : row' = Descriptor(message)
  /\ cursor' = cursor + 2
  /\ shown' = IF shown = <<>> THEN <<Read(IndexChars)>> ELSE shown
  /\ dpc' = "chunks"
  /\ UNCHANGED <<device, rest, line, decoded>>

(* The cursor moves two characters, one byte, however wide the id is.      *)
ReadIndex ==
  /\ dpc = "index"
  /\ CanRead(IndexChars)
  /\ \E message \in IndexRows : row' = Descriptor(message)
  /\ cursor' = cursor + 2
  /\ shown' = <<Read(IndexChars)>>
  /\ dpc' = "chunks"
  /\ UNCHANGED <<device, rest, line, decoded>>

Chunk == row[Len(shown)]

NextChunk == dpc = "chunks" /\ Len(shown) <= Len(row)

Show(value, n) ==
  /\ shown' = Append(shown, value)
  /\ cursor' = cursor + n
  /\ UNCHANGED <<device, dpc, rest, line, row, decoded>>

StringEnds == {k \in cursor + 1 .. Len(line) : line[k].kind = "nul"}

ReadString ==
  /\ NextChunk /\ Chunk.type = "s"
  /\ StringEnds # {}
  /\ LET n == CHOOSE k \in StringEnds : \A j \in StringEnds : k <= j
     IN  Show(SubSeq(line, cursor + 1, n - 1), n - cursor)

(* Bytes that fit the type they are read into: 64 bits for an integer,     *)
(* with a cast for each signed size, float, double or long double.         *)
Fits(arg) ==
  CASE arg.type = "u" -> arg.bytes <= 8
    [] arg.type = "i" -> arg.bytes \in {1, 2, 4, 8}
    [] arg.type = "d" -> arg.bytes <= 16

ReadNumber ==
  /\ NextChunk /\ Chunk.type # "s"
  /\ Fits(Chunk) /\ CanRead(2 * Chunk.bytes)
  /\ Show(Read(2 * Chunk.bytes), 2 * Chunk.bytes)

NumberTerminates ==
  /\ NextChunk /\ Chunk.type # "s"
  /\ Fits(Chunk) => MayThrow(2 * Chunk.bytes)
  /\ Terminate

FinishLine ==
  /\ decoded' = Append(decoded, shown)
  /\ dpc' = "line"
  /\ UNCHANGED <<device, rest, line, cursor, row, shown>>

(* Mutation: the loop tries the same chunk again.                          *)
StringBreaks_Continue ==
  NextChunk /\ Chunk.type = "s" /\ StringEnds = {} /\ UNCHANGED vars

(* Mutation: the break leaves the loop over the lines, too.                *)
StringBreaks_Stop ==
  /\ NextChunk /\ Chunk.type = "s" /\ StringEnds = {}
  /\ decoded' = Append(decoded, shown)
  /\ dpc' = "done"
  /\ UNCHANGED <<device, rest, line, cursor, row, shown>>

(* A string without its NUL breaks the loop over the chunks.               *)
StringBreaks == NextChunk /\ Chunk.type = "s" /\ StringEnds = {} /\ FinishLine

LinePrinted == dpc = "chunks" /\ Len(shown) > Len(row) /\ FinishLine

-----------------------------------------------------------------------------
Device ==
  \/ \E message \in Messages : \E content \in Contents(message) : LogBegin(message, content)
  \/ PrintStaticArgument \/ PrintDouble \/ PrintLongDouble
  \/ PrintStringArgument \/ SkipCode \/ LogEnd

Disturbance == Lose \/ Late \/ Reset \/ Interrupt

DecodeStep ==
  \/ GetLine \/ EndOfFile \/ IndexTerminates \/ ReadIndex
  \/ ReadString \/ ReadNumber \/ NumberTerminates \/ StringBreaks \/ LinePrinted

Next == Device \/ Disturbance \/ Collect \/ DecodeStep

Spec == Init /\ [][Next]_vars

(* The decoder is a sequential program: once started it runs.              *)
FairSpec == Spec /\ WF_vars(DecodeStep)

-----------------------------------------------------------------------------
CharKinds == {"hex", "chr", "nul", "eol"}

TypeOK ==
  /\ lpc \in {"idle", "args"}
  /\ dpc \in {"off", "line", "index", "chunks", "done", "terminated"}
  /\ Len(logged) <= MaxLogs
  /\ \A n \in DOMAIN logged : logged[n].message \in Messages
  /\ \A k \in DOMAIN wire : wire[k].kind \in CharKinds
  /\ va <= tagIt
  /\ cursor <= Len(line) + 2
  /\ Len(shown) <= Len(row) + 1
  /\ cut \subseteq DOMAIN logged

(* What the n-th log is to its reader: its id and each of its arguments.   *)
Values(n) ==
  LET message == logged[n].message
  IN  <<IdText(n)>> \o
      [k \in DOMAIN message |->
         IF message[k] = [ext |-> "", base |-> "s"]
         THEN StringText(n, k, logged[n].string)
         ELSE HexText(n, k, GetByteSize(message[k]).bytes)]

Sent == [n \in DOMAIN logged |-> Values(n)]

(* The placeholders that work: integers and pointers of up to the bytes of *)
(* the union, doubles of 64 bits, long doubles of 128; on a big-endian     *)
(* target integers that fill the union, and strings.                       *)
Supported(p) ==
  \/ p.base \in {"d", "u"} /\ p.ext \notin {"L", "%"} /\ Filled(IntegerSize(p.ext))
  \/ p.base = "c" /\ p.ext = "" /\ Filled(1)
  \/ p.base = "s" /\ p.ext = ""
  \/ p.base = "p" /\ p.ext = "" /\ Filled(SizeOf["void*"])
  \/ p.base = "f" /\ p.ext = "" /\ SizeOf["double"] = 8 /\ ~BigEndian
  \/ p.base = "f" /\ p.ext = "L" /\ SizeOf["long double"] = 16 /\ LongDouble /\ ~BigEndian

(* Every log that was made is shown with its own values, in order, and the *)
(* decoder does not give up: "supports almost all printf features,         *)
(* including floats, size modifiers" (README.md:33), through five pieces   *)
(* of code that each read placeholders in a way of their own.              *)
LogsSurvive == dpc \in {"done", "terminated"} => dpc = "done" /\ decoded = Sent

SendsNewline(log) ==
  /\ \E k \in DOMAIN log.message : ArgCode(log.message[k]) = StringCode
  /\ \E k \in DOMAIN log.string : log.string[k] = "eol"

(* The characters of the n-th log are all in the file, in one piece, in    *)
(* a line of their own.                                                    *)
Intact(n) ==
  LET places == {k \in DOMAIN wire : wire[k].log = n}
      first  == CHOOSE k \in places : \A j \in places : k <= j
      last   == CHOOSE k \in places : \A j \in places : k >= j
  IN  /\ n \notin cut
      /\ first .. last = places
      /\ wire[last].kind = "eol"
      /\ first = 1 \/ wire[first - 1].kind = "eol"

Readers(n) == {k \in DOMAIN decoded : decoded[k] = Values(n)}

Expected ==
  {n \in DOMAIN logged :
     /\ \A k \in DOMAIN logged[n].message : Supported(logged[n].message[k])
     /\ ~SendsNewline(logged[n])
     /\ Intact(n)}

(* Damage stays in its line.  If the decoder gets to the end, every log    *)
(* whose own line arrived is shown with its own values, once, and before   *)
(* those behind it, whatever a lost character, a late line end, a reset,   *)
(* an interrupt, a message that cannot be decoded or a newline in a string *)
(* did to the lines around it.                                             *)
OthersSurvive ==
  dpc = "done" =>
    /\ \A n \in Expected : \E k \in DOMAIN decoded : Readers(n) = {k}
    /\ \A m, n \in Expected : m < n =>
         \A j \in Readers(m), k \in Readers(n) : j < k

(* The decoder reaches the end of any file or terminates.                  *)
DecodingEnds == dpc = "line" ~> dpc \in {"done", "terminated"}

(* Step by step, decoding is the channel's.                                *)
Channel == INSTANCE LogChannel WITH sent <- Sent
ImplementsLogChannel == Channel!Spec

=============================================================================
