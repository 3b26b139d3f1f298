----------------------------- MODULE Wire_proofs ------------------------------
(***************************************************************************)
(* Proofs about Wire for any type configuration, any messages and any      *)
(* number of logs: the types of its state, that logs of supported          *)
(* placeholders arrive when nothing disturbs them, and that damage to one  *)
(* of them stays in its line.                                              *)
(***************************************************************************)
EXTENDS Wire, NaturalOrder, SequenceTheorems

-----------------------------------------------------------------------------
(* Sequences.                                                              *)

LEMMA MapSeq ==
  ASSUME NEW S, NEW n \in Nat, NEW f \in [1 .. n -> S]
  PROVE  f \in Seq(S) /\ Len(f) = n /\ DOMAIN f = 1 .. n
  OBVIOUS

(* A piece of a sequence, and its characters.                              *)
LEMMA Piece ==
  ASSUME NEW S, NEW s \in Seq(S), NEW a \in Nat \ {0}, NEW b \in Nat, b <= Len(s), a <= b + 1
  PROVE  /\ SubSeq(s, a, b) \in Seq(S)
         /\ Len(SubSeq(s, a, b)) = b - a + 1
         /\ \A i \in 1 .. b - a + 1 : SubSeq(s, a, b)[i] = s[a + i - 1]
<1>1. \A i \in a .. b : s[i] \in S
  BY ElementOfSeq, LenProperties
<1> QED
  BY <1>1, SubSeqProperties

(* Any piece.                                                              *)
LEMMA AnyPiece ==
  ASSUME NEW S, NEW s \in Seq(S), NEW a \in Nat \ {0}, NEW b \in Nat, b <= Len(s)
  PROVE  SubSeq(s, a, b) \in Seq(S)
<1>1. \A i \in a .. b : s[i] \in S
  BY ElementOfSeq, LenProperties
<1> QED
  BY <1>1, SubSeqProperties

-----------------------------------------------------------------------------
(* The tables of ArgEncoder.                                               *)

LEMMA IntegerSizes ==
  ASSUME NEW ext \in Modifiers \cup {"%"}, ext # "L"
  PROVE  IntegerSize(ext) \in AllowedSizes
  BY SizeAssumption DEF IntegerSize, Modifiers, AllowedSizes, TypeNames

Args == [bytes : AllowedSizes \cup {WideStringCode, StringCode}, type : {"i", "u", "s", "d"}]

LEMMA ArgTypes ==
  ASSUME NEW p \in Placeholders, Encodable(p)
  PROVE  GetByteSize(p) \in Args /\ GetByteSize(p).bytes \in Nat /\ ArgCode(p) \in Nat
<1>1. p.ext \in Modifiers \cup {"%"}
  BY DEF Placeholders, PercentSign
<1>2. /\ SizeOf["wchar_t"] \in AllowedSizes /\ SizeOf["long double"] \in AllowedSizes
      /\ SizeOf["double"] \in AllowedSizes /\ SizeOf["void*"] \in AllowedSizes
  BY SizeAssumption DEF TypeNames
<1>3. GetByteSize(p) \in Args
  <2>1. CASE p.base \in {"d", "u"}
    BY <1>1, <2>1, IntegerSizes DEF Encodable, GetByteSize, Arg, Args
  <2>2. CASE p.base = "c"
    BY <1>2, <2>2 DEF Encodable, GetByteSize, Arg, AllowedSizes, Args
  <2>3. CASE p.base = "s"
    BY <2>3 DEF Encodable, GetByteSize, Arg, Args
  <2>4. CASE p.base = "f"
    BY <1>2, <2>4 DEF Encodable, GetByteSize, Arg, Args
  <2>5. CASE p.base = "p"
    BY <1>2, <2>5 DEF Encodable, GetByteSize, Arg, Args
  <2> QED
    BY <2>1, <2>2, <2>3, <2>4, <2>5 DEF Encodable
<1> QED
  BY <1>3 DEF ArgCode, Args, AllowedSizes, WideStringCode, StringCode

LEMMA Bounds == Rows \in Nat \ {0} /\ MaxLogs \in Nat
  BY WireAssumption

LEMMA MessageTypes ==
  ASSUME NEW message \in Messages
  PROVE  /\ message \in Seq(Placeholders) /\ Len(message) \in Nat
         /\ DOMAIN message = 1 .. Len(message)
         /\ \A k \in DOMAIN message : message[k] \in Placeholders /\ Encodable(message[k])
  BY WireAssumption, LenProperties, ElementOfSeq

(* A row has a chunk for each placeholder that is found.                   *)
LEMMA RowTypes ==
  ASSUME NEW message \in Messages \cup {<<>>}
  PROVE  Descriptor(message) \in Seq(Args) /\ Len(Descriptor(message)) \in Nat
<1>1. /\ message \in Seq(Placeholders) /\ Len(message) \in Nat
      /\ DOMAIN message = 1 .. Len(message)
      /\ \A k \in 1 .. Len(message) : GetByteSize(message[k]) \in Args
  <2>1. CASE message \in Messages
    BY <2>1, MessageTypes, ArgTypes
  <2>2. CASE message = <<>>
    BY <2>2
  <2> QED
    BY <2>1, <2>2
<1> DEFINE found == {k \in DOMAIN message : Chunked(Unify(message[k]))}
<1>2. IsFiniteSet(1 .. Len(message)) /\ Cardinality(1 .. Len(message)) = Len(message)
  BY <1>1, FS_Interval
<1>3. found \in SUBSET (1 .. Len(message))
  BY <1>1
<1>4. Cardinality(found) \in Nat /\ Cardinality(found) <= Len(message)
  BY <1>2, <1>3, FS_Subset, FS_CardinalityType
<1>5. Chunks(message) = [k \in 1 .. Cardinality(found) |-> GetByteSize(message[k])]
  BY DEF Chunks
<1> HIDE DEF found
<1>6. Chunks(message) \in [1 .. Cardinality(found) -> Args]
  BY <1>1, <1>4, <1>5
<1>7. Chunks(message) \in Seq(Args)
  BY <1>4, <1>6, MapSeq
<1>8. Descriptor(message) \in Seq(Args)
  BY <1>7, EmptySeq DEF Descriptor
<1> QED
  BY <1>8, LenProperties

-----------------------------------------------------------------------------
(* The characters of logs in N.                                            *)

CharsOf(N) == [kind : CharKinds, log : N, arg : Nat, pos : Nat]
Chars == CharsOf(Nat)
Logs  == [message : Messages \cup {<<>>}, string : Strings \cup {<<>>}]

LEMMA HexTextType ==
  ASSUME NEW N, NEW n \in N, NEW a \in Nat, NEW b \in Nat
  PROVE  /\ HexText(n, a, b) \in Seq(CharsOf(N)) /\ Len(HexText(n, a, b)) = 2 * b
         /\ \A k \in 1 .. 2 * b : HexText(n, a, b)[k] = Char("hex", n, a, k)
<1>1. 2 * b \in Nat
  OBVIOUS
<1>2. \A k \in 1 .. 2 * b : Char("hex", n, a, k) \in CharsOf(N)
  BY DEF Char, CharsOf, CharKinds
<1>3. HexText(n, a, b) \in [1 .. 2 * b -> CharsOf(N)]
  BY <1>2 DEF HexText
<1> QED
  BY <1>1, <1>3, MapSeq DEF HexText

LEMMA HexChars ==
  ASSUME NEW N, NEW n \in N, NEW a \in Nat, NEW b \in Nat
  PROVE  /\ HexText(n, a, b) \in Seq(CharsOf(N)) /\ Len(HexText(n, a, b)) \in Nat
         /\ \A k \in 1 .. Len(HexText(n, a, b)) : /\ HexText(n, a, b)[k].kind = "hex"
                                                 /\ HexText(n, a, b)[k].kind # "eol"
<1> DEFINE t == HexText(n, a, b)
<1>1. \A k : Char("hex", n, a, k).kind = "hex"
  BY DEF Char
<1>2. t \in Seq(CharsOf(N)) /\ Len(t) = 2 * b /\ \A k \in 1 .. 2 * b : t[k] = Char("hex", n, a, k)
  BY HexTextType
<1>3. Len(t) \in Nat
  BY <1>2, LenProperties
<1> HIDE DEF t
<1>4. \A k \in 1 .. Len(t) : t[k].kind = "hex"
  BY <1>1, <1>2
<1> QED
  BY <1>2, <1>3, <1>4 DEF t

LEMMA StringTextType ==
  ASSUME NEW N, NEW n \in N, NEW a \in Nat, NEW content \in Seq({"chr", "eol"})
  PROVE  /\ StringText(n, a, content) \in Seq(CharsOf(N))
         /\ Len(StringText(n, a, content)) = Len(content)
         /\ \A k \in 1 .. Len(content) :
              StringText(n, a, content)[k] = Char(content[k], n, a, k)
<1>1. Len(content) \in Nat /\ DOMAIN content = 1 .. Len(content)
  BY LenProperties
<1>2. \A k \in 1 .. Len(content) : content[k] \in {"chr", "eol"}
  BY ElementOfSeq
<1>3. \A k \in 1 .. Len(content) : Char(content[k], n, a, k) \in CharsOf(N)
  BY <1>2 DEF Char, CharsOf, CharKinds
<1>4. StringText(n, a, content) \in [1 .. Len(content) -> CharsOf(N)]
  BY <1>1, <1>3 DEF StringText
<1> QED
  BY <1>1, <1>4, MapSeq DEF StringText

LEMMA MarkTypes ==
  ASSUME NEW N, NEW n \in N
  PROVE  Nul(n) \in CharsOf(N) /\ EndOfLine(n) \in CharsOf(N)
  BY DEF Nul, EndOfLine, Char, CharsOf, CharKinds

LEMMA IdTextType ==
  ASSUME NEW N, NEW n \in N
  PROVE  IdText(n) \in Seq(CharsOf(N))
<1>1. HeaderIdBytes(Rows) \in Nat
  BY DEF HeaderIdBytes
<1> QED
  BY <1>1, HexTextType DEF IdText

(* The characters of t are of log n, its digits of argument a.             *)
OfArgument(t, n, a) ==
  \A j \in 1 .. Len(t) : t[j].log = n /\ (t[j].kind = "hex" => t[j].arg = a)

(* The digits of an argument in any order, or none of its.                 *)
LEMMA DigitsType ==
  ASSUME NEW N, NEW n \in N, NEW a \in Nat, NEW b \in Nat, NEW t,
         t = [k \in 1 .. 2 * b |-> t[k]],
         \A k \in 1 .. 2 * b : \E p \in Nat : t[k] = Char("hex", n, a, p)
  PROVE  /\ t \in Seq(CharsOf(N))
         /\ OfArgument(t, n, a)
<1>1. 2 * b \in Nat
  OBVIOUS
<1>2. \A p \in Nat : /\ Char("hex", n, a, p) \in CharsOf(N)
                     /\ Char("hex", n, a, p).log = n /\ Char("hex", n, a, p).arg = a
  BY DEF Char, CharsOf, CharKinds
<1>3. t \in [1 .. 2 * b -> CharsOf(N)]
  BY <1>2
<1>4. t \in Seq(CharsOf(N)) /\ Len(t) = 2 * b
  BY <1>1, <1>3, MapSeq
<1> QED
  BY <1>2, <1>4 DEF OfArgument

LEMMA IntegerTextType ==
  ASSUME NEW N, NEW n \in N, NEW a \in Nat, NEW b \in Nat, NEW t, t = IntegerText(n, a, b)
  PROVE  /\ t \in Seq(CharsOf(N))
         /\ OfArgument(t, n, a)
<1>1. t = [k \in 1 .. 2 * b |-> t[k]]
  BY DEF IntegerText
<1>2. ASSUME NEW k \in 1 .. 2 * b PROVE \E p \in Nat : t[k] = Char("hex", n, a, p)
  <2>1. t[k] = Char("hex", n, a, IF Filled(b) THEN k ELSE 0)
    BY DEF IntegerText
  <2>2. k \in Nat /\ 0 \in Nat
    OBVIOUS
  <2> QED
    BY <2>1, <2>2
<1> QED
  BY <1>1, <1>2, DigitsType

LEMMA MemoryTextType ==
  ASSUME NEW N, NEW n \in N, NEW a \in Nat, NEW b \in Nat, NEW t, t = MemoryText(n, a, b)
  PROVE  /\ t \in Seq(CharsOf(N))
         /\ OfArgument(t, n, a)
<1>1. t = [k \in 1 .. 2 * b |-> t[k]]
  BY DEF MemoryText
<1>2. ASSUME NEW k \in 1 .. 2 * b PROVE \E p \in Nat : t[k] = Char("hex", n, a, p)
  <2> DEFINE p == IF ~BigEndian THEN k ELSE IF k % 2 = 1 THEN 2 * b - k ELSE 2 * b + 2 - k
  <2>1. t[k] = Char("hex", n, a, p)
    BY DEF MemoryText
  <2>2. p \in Nat
    OBVIOUS
  <2> HIDE DEF p
  <2> QED
    BY <2>1, <2>2
<1> QED
  BY <1>1, <1>2, DigitsType

(* What a branch of LOG sends for an argument.                             *)
LEMMA CodeTextType ==
  ASSUME NEW N, NEW n \in N, NEW a \in Nat, NEW code \in Nat, HasBranch(code),
         NEW content \in Seq({"chr", "eol"}), NEW t, t = CodeText(n, a, code, content)
  PROVE  /\ t \in Seq(CharsOf(N))
         /\ OfArgument(t, n, a)
<1>1. CASE code <= 8
  <2>1. t = IntegerText(n, a, code)
    BY <1>1 DEF CodeText, StringCode
  <2> QED
    BY <2>1, IntegerTextType
<1>3. CASE code = 24
  <2>1. t = MemoryText(n, a, 8)
    BY <1>3 DEF CodeText, StringCode
  <2> QED
    BY <2>1, MemoryTextType
<1>4. CASE code = 32
  <2>1. t = MemoryText(n, a, 16)
    BY <1>4 DEF CodeText, StringCode
  <2> QED
    BY <2>1, MemoryTextType
<1>5. CASE code = StringCode
  <2>1. PICK str : str = StringText(n, a, content)
    OBVIOUS
  <2>2. t = Append(str, Nul(n))
    BY <1>5, <2>1 DEF CodeText, StringCode
  <2>3. /\ str \in Seq(CharsOf(N)) /\ Len(str) = Len(content)
        /\ \A j \in 1 .. Len(content) : str[j] = Char(content[j], n, a, j)
    BY <2>1, StringTextType
  <2>4. \A j \in 1 .. Len(content) : content[j] \in {"chr", "eol"}
    BY ElementOfSeq
  <2>5. \A j \in 1 .. Len(str) : str[j].log = n /\ str[j].kind # "hex"
    <3>1. \A j : Char(content[j], n, a, j).log = n /\ Char(content[j], n, a, j).kind = content[j]
      BY DEF Char
    <3>2. \A j \in 1 .. Len(content) : content[j] # "hex"
      BY <2>4
    <3> QED
      BY <2>3, <3>1, <3>2
  <2>6. Nul(n) \in CharsOf(N) /\ Nul(n).log = n /\ Nul(n).kind # "hex"
    BY MarkTypes DEF Nul, Char
  <2>7. /\ t \in Seq(CharsOf(N)) /\ Len(t) = Len(str) + 1 /\ Len(str) \in Nat
        /\ t[Len(str) + 1] = Nul(n) /\ \A j \in 1 .. Len(str) : t[j] = str[j]
    BY <2>2, <2>3, <2>6, AppendProperties, LenProperties
  <2>8. \A j \in 1 .. Len(t) : t[j].log = n /\ t[j].kind # "hex"
    <3>1. \A j \in 1 .. Len(t) : j \in 1 .. Len(str) \/ j = Len(str) + 1
      BY <2>7
    <3> QED
      BY <2>5, <2>6, <2>7, <3>1
  <2> QED
    BY <2>7, <2>8 DEF OfArgument
<1> QED
  BY <1>1, <1>3, <1>4, <1>5 DEF HasBranch

LEMMA StringTypes ==
  ASSUME NEW content \in Strings \cup {<<>>}
  PROVE  content \in Seq({"chr", "eol"})
  BY WireAssumption, EmptySeq

-----------------------------------------------------------------------------
(* All that one call sends.                                                *)

(* Putting sequences one behind the other, as a recursive function.        *)
Runs(f, s, n) == f = [i \in 1 .. n |-> IF i = 1 THEN s[i] ELSE f[i - 1] \o s[i]]

LEMMA Flattened ==
  ASSUME NEW s, Len(s) \in Nat, Len(s) # 0
  PROVE  \E f : Runs(f, s, Len(s)) /\ Seqs!FlattenSeq(s) = f[Len(s)]
<1> DEFINE S == {n \in Nat : \E f : Runs(f, s, n)}
<1>1. 0 \in S
  <2> DEFINE f == [i \in 1 .. 0 |-> {}]
  <2>1. Runs(f, s, 0)
    BY 1 .. 0 = {} DEF Runs
  <2> QED
    BY <2>1
<1>2. ASSUME NEW n \in S PROVE n + 1 \in S
  <2>1. PICK f : Runs(f, s, n)
    OBVIOUS
  <2> DEFINE last == IF n + 1 = 1 THEN s[n + 1] ELSE f[n] \o s[n + 1]
             g == [i \in 1 .. n + 1 |-> IF i = n + 1 THEN last ELSE f[i]]
  <2>2. n \in Nat /\ n + 1 \in Nat
    OBVIOUS
  <2>3. \A i \in 1 .. n + 1 : i \in 1 .. n \/ i = n + 1
    BY <2>2
  <2>4. ASSUME NEW i \in 1 .. n + 1 PROVE g[i] = IF i = 1 THEN s[i] ELSE g[i - 1] \o s[i]
    <3>1. i # 1 => i - 1 \in 1 .. n /\ i - 1 \in 1 .. n + 1 /\ i - 1 # n + 1
      BY <2>2
    <3>2. i # 1 => g[i - 1] = f[i - 1]
      BY <3>1
    <3>3. CASE i = n + 1
      <4>1. g[i] = last
        BY <3>3
      <4>2. i # 1 => i - 1 = n
        BY <2>2, <3>3
      <4> HIDE DEF g
      <4> QED
        BY <3>2, <3>3, <4>1, <4>2
    <3>4. CASE i \in 1 .. n
      <4>1. i # n + 1
        BY <2>2, <3>4
      <4>2. g[i] = f[i]
        BY <4>1
      <4>3. f[i] = IF i = 1 THEN s[i] ELSE f[i - 1] \o s[i]
        BY <2>1, <3>4 DEF Runs
      <4> HIDE DEF g
      <4> QED
        BY <3>2, <4>2, <4>3
    <3> QED
      BY <2>3, <3>3, <3>4
  <2>5. g = [i \in 1 .. n + 1 |-> g[i]]
    OBVIOUS
  <2> HIDE DEF g
  <2>6. Runs(g, s, n + 1)
    BY <2>4, <2>5 DEF Runs
  <2> QED
    BY <2>2, <2>6
<1>3. S = Nat
  <2>1. S \in SUBSET Nat
    OBVIOUS
  <2> HIDE DEF S
  <2> QED
    BY <1>1, <1>2, <2>1, Induction
<1>4. \E f : Runs(f, s, Len(s))
  <2>1. Len(s) \in S
    <3> HIDE DEF S
    <3> QED
      BY <1>3
  <2> QED
    BY <2>1
<1> DEFINE h == CHOOSE f : f = [i \in 1 .. Len(s) |-> IF i = 1 THEN s[i] ELSE f[i - 1] \o s[i]]
<1>5. Runs(h, s, Len(s))
  BY <1>4 DEF Runs
<1>6. Seqs!FlattenSeq(s) = h[Len(s)]
  BY DEF Seqs!FlattenSeq
<1> HIDE DEF h
<1> QED
  BY <1>5, <1>6

(* The first character of log n, and texts that are of log n and have it   *)
(* nowhere, or nowhere but at their begin.                                 *)
FirstChar(n) == Char("hex", n, 0, 1)

LEMMA FirstChars ==
  \A m : FirstChar(m).log = m /\ FirstChar(m).kind = "hex" /\ FirstChar(m).arg = 0
         /\ FirstChar(m).pos = 1
  BY DEF FirstChar, Char

Continues(t, n) == \A j \in 1 .. Len(t) : t[j].log = n /\ t[j] # FirstChar(n)
Opens(t, n)     == \A j \in 1 .. Len(t) : t[j].log = n /\ (t[j] = FirstChar(n) => j = 1)

LEMMA ArgTextType ==
  ASSUME NEW N, NEW n \in N, NEW message \in Messages, NEW content \in Strings \cup {<<>>},
         NEW k \in 1 .. Len(message), NEW t, t = ArgText(n, message, content, k)
  PROVE  t \in Seq(CharsOf(N)) /\ Continues(t, n)
<1>1. /\ Len(message) \in Nat /\ k \in Nat /\ ArgCode(message[k]) \in Nat
  BY MessageTypes, ArgTypes
<1> DEFINE before == {j \in 1 .. k - 1 : HasBranch(ArgCode(message[j]))}
<1>2. Cardinality(before) \in Nat
  <2>1. before \in SUBSET (1 .. k - 1)
    OBVIOUS
  <2>2. 1 \in Int /\ k - 1 \in Int
    BY <1>1
  <2>3. IsFiniteSet(1 .. k - 1)
    BY <2>2, FS_Interval
  <2> HIDE DEF before
  <2> QED
    BY <2>1, <2>3, FS_Subset, FS_CardinalityType
<1>3. PICK a : a = 1 + Cardinality(before)
  OBVIOUS
<1>4. a \in Nat /\ a # 0
  BY <1>2, <1>3
<1>5. CASE HasBranch(ArgCode(message[k]))
  <2>1. t = CodeText(n, a, ArgCode(message[k]), content)
    BY <1>3, <1>5 DEF ArgText
  <2>2. content \in Seq({"chr", "eol"})
    BY StringTypes
  <2>3. t \in Seq(CharsOf(N)) /\ OfArgument(t, n, a)
    BY <1>1, <1>4, <1>5, <2>1, <2>2, CodeTextType
  <2> QED
    BY <1>4, <2>3, FirstChars DEF OfArgument, Continues
<1>6. CASE ~HasBranch(ArgCode(message[k]))
  <2>1. t = <<>>
    BY <1>6 DEF ArgText
  <2>2. t \in Seq(CharsOf(N)) /\ Len(t) = 0 /\ 1 .. 0 = {}
    BY <2>1, EmptySeq
  <2> QED
    BY <2>2 DEF Continues
<1> QED
  BY <1>5, <1>6

(* A call adds the text of its placeholders one after the other.           *)
Adds(f, n, message, content) ==
  /\ f[1] = IdText(n)
  /\ \A k \in 1 .. Len(message) : f[k + 1] = f[k] \o ArgText(n, message, content, k)

LEMMA LogTextAdds ==
  ASSUME NEW n, NEW message \in Messages, NEW content \in Strings \cup {<<>>}
  PROVE  \E f : /\ Adds(f, n, message, content)
                /\ LogText(n, message, content) = Append(f[Len(message) + 1], EndOfLine(n))
<1>1. Len(message) \in Nat /\ DOMAIN message = 1 .. Len(message)
  BY MessageTypes
<1>2. PICK L, args, id : /\ L = Len(message) /\ id = <<IdText(n)>>
                          /\ args = [k \in 1 .. L |-> ArgText(n, message, content, k)]
  OBVIOUS
<1>0. L \in Nat
  BY <1>1, <1>2
<1>3. PICK S : S = {IdText(n)} \cup {args[k] : k \in 1 .. L}
  OBVIOUS
<1>4. id \in Seq(S) /\ Len(id) = 1 /\ id[1] = IdText(n)
  BY <1>2, <1>3
<1>5. args \in Seq(S) /\ Len(args) = L
  <2>1. args \in [1 .. L -> S]
    BY <1>2, <1>3
  <2> QED
    BY <1>0, <2>1, MapSeq
<1>6. PICK s : s = id \o args
  OBVIOUS
<1>7. Len(s) = L + 1 /\ s[1] = IdText(n) /\ \A k \in 1 .. L : s[k + 1] = args[k]
  <2>1. Len(s) = Len(id) + Len(args)
    BY <1>4, <1>5, <1>6, ConcatProperties
  <2>2. \A i \in 1 .. Len(id) + Len(args) :
          s[i] = IF i <= Len(id) THEN id[i] ELSE args[i - Len(id)]
    BY <1>4, <1>5, <1>6, ConcatProperties
  <2>3. ASSUME NEW k \in 1 .. L PROVE s[k + 1] = args[k]
    <3>1. k + 1 \in 1 .. 1 + L /\ ~(k + 1 <= 1) /\ k + 1 - 1 = k
      BY <1>0
    <3>2. s[k + 1] = IF k + 1 <= 1 THEN id[k + 1] ELSE args[k + 1 - 1]
      BY <1>4, <1>5, <2>2, <3>1
    <3> QED
      BY <3>1, <3>2
  <2>4. 1 \in 1 .. 1 + L /\ 1 <= 1 /\ 1 + L = L + 1
    BY <1>0
  <2> QED
    BY <1>4, <1>5, <2>1, <2>2, <2>3, <2>4
<1>8. PICK f : Runs(f, s, L + 1) /\ Seqs!FlattenSeq(s) = f[L + 1]
  <2>1. Len(s) \in Nat /\ Len(s) # 0
    BY <1>0, <1>7
  <2> QED
    BY <1>7, <2>1, Flattened
<1>9. Adds(f, n, message, content)
  <2>1. \A i \in 1 .. L + 1 : f[i] = IF i = 1 THEN s[i] ELSE f[i - 1] \o s[i]
    BY <1>8 DEF Runs
  <2>2. \A k \in 1 .. L : k + 1 \in 1 .. L + 1 /\ k + 1 # 1 /\ k + 1 - 1 = k
    BY <1>0
  <2>3. ASSUME NEW k \in 1 .. L PROVE f[k + 1] = f[k] \o args[k]
    <3>1. f[k + 1] = IF k + 1 = 1 THEN s[k + 1] ELSE f[k + 1 - 1] \o s[k + 1]
      BY <2>1, <2>2
    <3> QED
      BY <1>7, <2>2, <3>1
  <2>4. 1 \in 1 .. L + 1
    BY <1>0
  <2> QED
    BY <1>2, <1>7, <2>1, <2>3, <2>4 DEF Adds
<1>10. LogText(n, message, content) = Append(f[L + 1], EndOfLine(n))
  <2>1. LogText(n, message, content) = Append(Seqs!FlattenSeq(s), EndOfLine(n))
    BY <1>1, <1>2, <1>6 DEF LogText
  <2> QED
    BY <1>8, <2>1
<1> QED
  BY <1>2, <1>9, <1>10

(* What a handler's log puts in: its own characters, and the line end.     *)
LEMMA AddsType ==
  ASSUME NEW N, NEW n \in N, NEW message \in Messages, NEW content \in Strings \cup {<<>>},
         NEW f, Adds(f, n, message, content)
  PROVE  \A k \in 0 .. Len(message) : f[k + 1] \in Seq(CharsOf(N)) /\ Opens(f[k + 1], n)
                                      /\ Len(f[k + 1]) >= 1
<1>1. PICK L \in Nat : L = Len(message)
  <2>1. Len(message) \in Nat
    BY MessageTypes
  <2> QED
    BY <2>1
<1> DEFINE I(k) == f[k + 1] \in Seq(CharsOf(N)) /\ Opens(f[k + 1], n) /\ Len(f[k + 1]) >= 1
           S == {k \in Nat : k <= L => I(k)}
<1>2. 0 \in S
  <2>1. PICK t, b : t = IdText(n) /\ b = HeaderIdBytes(Rows)
    OBVIOUS
  <2>2. b \in Nat /\ b >= 1
    BY <2>1 DEF HeaderIdBytes
  <2>3. t = HexText(n, 0, b)
    BY <2>1 DEF IdText
  <2>4. t \in Seq(CharsOf(N)) /\ Len(t) = 2 * b /\ \A j \in 1 .. 2 * b : t[j] = Char("hex", n, 0, j)
    BY <2>2, <2>3, HexTextType
  <2>5. \A j : Char("hex", n, 0, j).log = n /\ Char("hex", n, 0, j).pos = j
    BY DEF Char
  <2>6. Opens(t, n)
    BY <2>4, <2>5, FirstChars DEF Opens
  <2>7. 0 + 1 = 1 /\ 2 * b >= 1
    BY <2>2
  <2>8. f[1] = t
    BY <2>1 DEF Adds
  <2>9. I(0)
    BY <2>4, <2>6, <2>7, <2>8
  <2> QED
    BY <2>9
<1>3. ASSUME NEW k \in S PROVE k + 1 \in S
  <2> SUFFICES ASSUME k + 1 <= L PROVE I(k + 1)
    OBVIOUS
  <2>1. k \in Nat /\ k + 1 \in 1 .. L /\ I(k)
    OBVIOUS
  <2>2. PICK t, u, v : t = f[k + 1] /\ u = ArgText(n, message, content, k + 1) /\ v = f[k + 1 + 1]
    OBVIOUS
  <2>3. u \in Seq(CharsOf(N)) /\ Continues(u, n)
    BY <1>1, <2>1, <2>2, ArgTextType
  <2>4. t \in Seq(CharsOf(N)) /\ Opens(t, n) /\ Len(t) >= 1
    BY <2>1, <2>2
  <2>5. v = t \o u
    BY <1>1, <2>1, <2>2 DEF Adds
  <2> HIDE DEF I, S
  <2>6. /\ v \in Seq(CharsOf(N)) /\ Len(v) = Len(t) + Len(u) /\ Len(t) \in Nat /\ Len(u) \in Nat
        /\ \A j \in 1 .. Len(t) + Len(u) : v[j] = IF j <= Len(t) THEN t[j] ELSE u[j - Len(t)]
    BY <2>3, <2>4, <2>5, ConcatProperties, LenProperties
  <2>7. Opens(v, n)
    <3> SUFFICES ASSUME NEW j \in 1 .. Len(v)
                 PROVE  v[j].log = n /\ (v[j] = FirstChar(n) => j = 1)
      BY DEF Opens
    <3>1. CASE j <= Len(t)
      <4>1. j \in 1 .. Len(t) /\ v[j] = t[j]
        BY <2>6, <3>1
      <4> QED
        BY <2>4, <4>1 DEF Opens
    <3>2. CASE ~(j <= Len(t))
      <4>1. j - Len(t) \in 1 .. Len(u) /\ v[j] = u[j - Len(t)]
        BY <2>6, <3>2
      <4> QED
        BY <2>3, <4>1 DEF Continues
    <3> QED
      BY <3>1, <3>2
  <2>8. Len(v) >= 1
    BY <2>4, <2>6
  <2> QED
    BY <2>2, <2>6, <2>7, <2>8 DEF I
<1>4. S = Nat
  <2>1. S \in SUBSET Nat
    OBVIOUS
  <2> HIDE DEF S
  <2> QED
    BY <1>2, <1>3, <2>1, Induction
<1>5. ASSUME NEW k \in 0 .. L PROVE I(k)
  <2>1. k \in S /\ k <= L
    <3> HIDE DEF S
    <3> QED
      BY <1>4
  <2> HIDE DEF I
  <2> QED
    BY <2>1
<1> QED
  BY <1>1, <1>5

LEMMA LogTextType ==
  ASSUME NEW N, NEW n \in N, NEW message \in Messages, NEW content \in Strings \cup {<<>>},
         NEW t, t = LogText(n, message, content)
  PROVE  t \in Seq(CharsOf(N)) /\ Opens(t, n)
<1>1. PICK f : /\ Adds(f, n, message, content)
               /\ t = Append(f[Len(message) + 1], EndOfLine(n))
  BY LogTextAdds
<1>2. PICK own : own = f[Len(message) + 1]
  OBVIOUS
<1>3. own \in Seq(CharsOf(N)) /\ Opens(own, n)
  <2>1. Len(message) \in 0 .. Len(message)
    BY MessageTypes
  <2> QED
    BY <1>1, <1>2, <2>1, AddsType
<1>4. EndOfLine(n) \in CharsOf(N) /\ EndOfLine(n).log = n /\ EndOfLine(n).kind = "eol"
  BY MarkTypes DEF EndOfLine, Char
<1>5. /\ t \in Seq(CharsOf(N)) /\ Len(t) = Len(own) + 1 /\ Len(own) \in Nat
      /\ t[Len(own) + 1] = EndOfLine(n) /\ \A j \in 1 .. Len(own) : t[j] = own[j]
  BY <1>1, <1>2, <1>3, <1>4, AppendProperties, LenProperties
<1>6. \A j \in 1 .. Len(t) : j \in 1 .. Len(own) \/ j = Len(own) + 1
  BY <1>5
<1>7. EndOfLine(n) # FirstChar(n)
  BY <1>4, FirstChars
<1> QED
  BY <1>3, <1>4, <1>5, <1>6, <1>7 DEF Opens

-----------------------------------------------------------------------------
(* The device.                                                             *)

DeviceTypes ==
  /\ logged \in Seq(Logs) /\ Len(logged) <= MaxLogs
  /\ \A n \in DOMAIN logged : logged[n].message \in Messages
  /\ me \in 0 .. Len(logged)
  /\ lpc \in {"idle", "args"}
  /\ lpc = "args" => me # 0
  /\ tagIt \in Nat /\ va \in Nat /\ 1 <= va /\ va <= tagIt
  /\ wire \in Seq(CharsOf(DOMAIN logged))
  /\ cut \subseteq DOMAIN logged

LEMMA Lengths ==
  ASSUME DeviceTypes
  PROVE  /\ Len(logged) \in Nat /\ DOMAIN logged = 1 .. Len(logged)
         /\ Len(wire) \in Nat /\ DOMAIN wire = 1 .. Len(wire)
         /\ lpc = "args" => me \in DOMAIN logged
         /\ \A n \in DOMAIN logged :
              /\ logged[n].message \in Messages
              /\ logged[n].string \in Strings \cup {<<>>}
<1>1. /\ Len(logged) \in Nat /\ DOMAIN logged = 1 .. Len(logged)
      /\ Len(wire) \in Nat /\ DOMAIN wire = 1 .. Len(wire)
  BY LenProperties DEF DeviceTypes
<1>2. \A n \in DOMAIN logged : logged[n] \in Logs
  BY <1>1, ElementOfSeq DEF DeviceTypes
<1>3. \A n \in DOMAIN logged : logged[n].string \in Strings \cup {<<>>}
  BY <1>2 DEF Logs
<1> QED
  BY <1>1, <1>3 DEF DeviceTypes

(* The codes of the message that is sent.                                  *)
LEMMA CodesOfMessage ==
  ASSUME DeviceTypes, lpc = "args"
  PROVE  /\ Len(Codes) = Len(Current.message) /\ Len(Codes) \in Nat
         /\ \A k \in 1 .. Len(Codes) : /\ Codes[k] = ArgCode(Current.message[k])
                                       /\ Codes[k] \in Nat
<1>1. Current.message \in Messages
  BY Lengths DEF Current
<1>2. /\ DOMAIN Current.message = 1 .. Len(Current.message) /\ Len(Current.message) \in Nat
      /\ \A k \in DOMAIN Current.message : ArgCode(Current.message[k]) \in Nat
  BY <1>1, MessageTypes, ArgTypes
<1>3. Codes \in [1 .. Len(Current.message) -> Nat]
  BY <1>2 DEF Codes
<1> QED
  BY <1>2, <1>3, MapSeq DEF Codes

(* Sending.                                                                *)
LEMMA SendTypes ==
  ASSUME DeviceTypes, lpc = "args", NEW chars \in Seq(CharsOf(DOMAIN logged)), Send(chars)
  PROVE  DeviceTypes'
<1>1. wire' \in Seq(CharsOf(DOMAIN logged))
  BY ConcatProperties DEF DeviceTypes, Send
<1> QED
  BY <1>1 DEF DeviceTypes, Send, faults

(* The four branches that send.                                            *)
Sends == lpc = "args" /\ tagIt \in 1 .. Len(Codes) /\ HasBranch(Codes[tagIt]) /\ Send(Argument)

LEMMA PrintsSend ==
  ASSUME DeviceTypes, PrintStaticArgument \/ PrintDouble \/ PrintLongDouble \/ PrintStringArgument
  PROVE  Sends
<1>1. lpc = "args" /\ tagIt <= Len(Codes) /\ Send(Argument)
  BY DEF PrintStaticArgument, PrintDouble, PrintLongDouble, PrintStringArgument, More
<1>2. tagIt \in 1 .. Len(Codes)
  BY <1>1, CodesOfMessage DEF DeviceTypes
<1>3. HasBranch(Codes[tagIt])
  BY DEF PrintStaticArgument, PrintDouble, PrintLongDouble, PrintStringArgument, HasBranch
<1> QED
  BY <1>1, <1>2, <1>3 DEF Sends

LEMMA ArgumentType ==
  ASSUME DeviceTypes, Sends
  PROVE  /\ Argument \in Seq(CharsOf(DOMAIN logged))
         /\ OfArgument(Argument, me, va)
<1>1. lpc = "args" /\ me \in DOMAIN logged /\ va \in Nat
  BY Lengths DEF Sends, DeviceTypes
<1>2. Current.string \in Seq({"chr", "eol"})
  BY <1>1, Lengths, StringTypes DEF Current
<1>3. Codes[tagIt] \in Nat /\ HasBranch(Codes[tagIt])
  BY <1>1, CodesOfMessage DEF Sends
<1>4. PICK t, N, n, a, code, content :
        /\ t = Argument /\ N = DOMAIN logged /\ n = me /\ a = va
        /\ code = Codes[tagIt] /\ content = Current.string
  OBVIOUS
<1>5. t = CodeText(n, a, code, content)
  BY <1>4 DEF Argument
<1>6. /\ t \in Seq(CharsOf(N))
      /\ OfArgument(t, n, a)
  <2>1. n \in N /\ a \in Nat /\ code \in Nat /\ HasBranch(code) /\ content \in Seq({"chr", "eol"})
    BY <1>1, <1>2, <1>3, <1>4
  <2> QED
    BY <1>5, <2>1, CodeTextType
<1> QED
  BY <1>4, <1>6

LEMMA MoreLogged ==
  ASSUME DeviceTypes, NEW message \in Messages, NEW content \in Strings \cup {<<>>},
         Len(logged) < MaxLogs,
         logged' = Append(logged, [message |-> message, string |-> content])
  PROVE  /\ logged' \in Seq(Logs) /\ Len(logged') = Len(logged) + 1 /\ Len(logged') <= MaxLogs
         /\ DOMAIN logged \subseteq DOMAIN logged' /\ Len(logged') \in DOMAIN logged'
         /\ \A n \in DOMAIN logged' : logged'[n].message \in Messages
         /\ \A n \in DOMAIN logged : logged'[n] = logged[n]
         /\ logged'[Len(logged')] = [message |-> message, string |-> content]
         /\ wire \in Seq(CharsOf(DOMAIN logged'))
<1> DEFINE log == [message |-> message, string |-> content]
<1>1. log \in Logs /\ log.message = message
  BY DEF Logs
<1>2. /\ Len(logged) \in Nat /\ DOMAIN logged = 1 .. Len(logged) /\ logged \in Seq(Logs)
      /\ MaxLogs \in Nat
      /\ \A n \in DOMAIN logged : logged[n].message \in Messages
  BY Lengths, Bounds DEF DeviceTypes
<1> HIDE DEF log
<1>3. /\ logged' \in Seq(Logs) /\ Len(logged') = Len(logged) + 1
      /\ \A n \in 1 .. Len(logged) : logged'[n] = logged[n]
      /\ logged'[Len(logged) + 1] = log
  BY <1>1, <1>2, AppendProperties DEF log
<1>4. DOMAIN logged' = 1 .. Len(logged')
  BY <1>3, LenProperties
<1>5. CharsOf(DOMAIN logged) \subseteq CharsOf(DOMAIN logged')
  BY <1>2, <1>3, <1>4 DEF CharsOf
<1>6. wire \in Seq(CharsOf(DOMAIN logged'))
  BY <1>5, SeqMonotonic DEF DeviceTypes
<1>7. \A n \in DOMAIN logged' : logged'[n].message \in Messages
  <2> SUFFICES ASSUME NEW n \in DOMAIN logged' PROVE logged'[n].message \in Messages
    OBVIOUS
  <2>1. n \in 1 .. Len(logged) \/ n = Len(logged) + 1
    BY <1>2, <1>3, <1>4
  <2> QED
    BY <1>1, <1>2, <1>3, <2>1
<1> QED
  BY <1>2, <1>3, <1>4, <1>6, <1>7 DEF log

LEMMA DeviceNext ==
  ASSUME DeviceTypes, Device
  PROVE  DeviceTypes'
<1> USE DEF faults
<1>1. ASSUME NEW message \in Messages, NEW content \in Contents(message),
             LogBegin(message, content)
      PROVE  DeviceTypes'
  <2>1. content \in Strings \cup {<<>>}
    BY DEF Contents
  <2>2. /\ logged' = Append(logged, [message |-> message, string |-> content])
        /\ Len(logged) < MaxLogs /\ me' = Len(logged') /\ wire' = wire \o IdText(me')
        /\ lpc' = "args" /\ tagIt' = 1 /\ va' = 1 /\ cut' = cut
    BY <1>1 DEF LogBegin
  <2>3. /\ logged' \in Seq(Logs) /\ Len(logged') = Len(logged) + 1 /\ Len(logged') <= MaxLogs
        /\ DOMAIN logged \subseteq DOMAIN logged' /\ Len(logged') \in DOMAIN logged'
        /\ \A n \in DOMAIN logged' : logged'[n].message \in Messages
        /\ wire \in Seq(CharsOf(DOMAIN logged')) /\ Len(logged) \in Nat
    BY <2>1, <2>2, MoreLogged, Lengths
  <2>4. IdText(me') \in Seq(CharsOf(DOMAIN logged'))
    BY <2>2, <2>3, IdTextType
  <2>5. wire' \in Seq(CharsOf(DOMAIN logged'))
    BY <2>2, <2>3, <2>4, ConcatProperties
  <2> QED
    BY <2>2, <2>3, <2>5 DEF DeviceTypes
<1>2. ASSUME PrintStaticArgument \/ PrintDouble \/ PrintLongDouble \/ PrintStringArgument
      PROVE  DeviceTypes'
  <2>1. Sends
    BY <1>2, PrintsSend
  <2> QED
    BY <2>1, ArgumentType, SendTypes DEF Sends
<1>7. CASE SkipCode
  BY <1>7 DEF SkipCode, DeviceTypes
<1>8. CASE LogEnd
  <2>1. EndOfLine(me) \in CharsOf(DOMAIN logged)
    BY <1>8, Lengths, MarkTypes DEF LogEnd
  <2>2. wire' \in Seq(CharsOf(DOMAIN logged))
    BY <1>8, <2>1, AppendProperties DEF LogEnd, DeviceTypes
  <2> QED
    BY <1>8, <2>2 DEF LogEnd, DeviceTypes
<1> QED
  BY <1>1, <1>2, <1>7, <1>8 DEF Device

(* What is left of the wire around a place in it.                          *)
LEMMA Around ==
  ASSUME DeviceTypes, NEW k \in 1 .. Len(wire) + 1
  PROVE  /\ Before(k) \in Seq(CharsOf(DOMAIN logged))
         /\ After(k) \in Seq(CharsOf(DOMAIN logged))
         /\ k <= Len(wire) => wire[k] \in CharsOf(DOMAIN logged) /\ wire[k].log \in DOMAIN logged
<1>1. wire \in Seq(CharsOf(DOMAIN logged)) /\ Len(wire) \in Nat
  BY Lengths DEF DeviceTypes
<1>2. k - 1 \in Nat /\ k - 1 <= Len(wire) /\ k + 1 \in Nat \ {0}
  BY <1>1
<1>3. k <= Len(wire) => wire[k] \in CharsOf(DOMAIN logged)
  BY <1>1, ElementOfSeq
<1>4. /\ Before(k) \in Seq(CharsOf(DOMAIN logged))
      /\ After(k) \in Seq(CharsOf(DOMAIN logged))
  BY <1>1, <1>2, AnyPiece DEF Before, After
<1> QED
  BY <1>3, <1>4 DEF CharsOf

LEMMA DisturbanceNext ==
  ASSUME DeviceTypes, Disturbance
  PROVE  DeviceTypes'
<1> USE DEF faults
<1> DEFINE C == CharsOf(DOMAIN logged)
<1>0. /\ wire \in Seq(C) /\ Len(wire) \in Nat /\ DOMAIN wire = 1 .. Len(wire)
      /\ DOMAIN logged = 1 .. Len(logged) /\ Len(logged) \in Nat
  BY Lengths DEF DeviceTypes
<1>1. CASE Lose
  <2>1. PICK k \in DOMAIN wire : wire' = Before(k) \o After(k) /\ cut' = cut \cup {wire[k].log}
    BY <1>1 DEF Lose
  <2>2. wire' \in Seq(C) /\ wire[k].log \in DOMAIN logged
    BY <1>0, <2>1, Around, ConcatProperties
  <2> QED
    BY <1>1, <2>1, <2>2 DEF Lose, DeviceTypes
<1>2. CASE Late
  <2>1. PICK k \in DOMAIN wire, j \in DOMAIN wire :
          k < j /\ wire' = Before(k) \o SubSeq(wire, k + 1, j) \o <<wire[k]>> \o After(j)
    BY <1>2 DEF Late
  <2>2. Before(k) \in Seq(C) /\ After(j) \in Seq(C) /\ wire[k] \in C
    BY <1>0, <2>1, Around
  <2>3. SubSeq(wire, k + 1, j) \in Seq(C)
    <3>1. k + 1 \in Nat \ {0} /\ j \in Nat /\ j <= Len(wire)
      BY <1>0
    <3> QED
      BY <1>0, <3>1, AnyPiece
  <2>4. <<wire[k]>> \in Seq(C)
    BY <2>2
  <2>5. wire' \in Seq(C)
    BY <2>1, <2>2, <2>3, <2>4, ConcatProperties
  <2> QED
    BY <1>2, <2>5 DEF Late, DeviceTypes
<1>3. CASE Reset
  <2>1. PICK k \in Mine \cup {Len(wire) + 1} : wire' = Before(k)
    BY <1>3 DEF Reset
  <2>2. k \in 1 .. Len(wire) + 1
    BY <1>0 DEF Mine
  <2>3. wire' \in Seq(C) /\ me \in DOMAIN logged
    BY <1>3, <2>1, <2>2, Around, Lengths DEF Reset
  <2> QED
    BY <1>3, <2>3 DEF Reset, DeviceTypes
<1>4. CASE Interrupt
  <2> DEFINE n == Len(logged')
             M == CharsOf(DOMAIN logged')
  <2>0. PICK message \in Messages : \E content \in Contents(message), k \in DOMAIN wire :
          /\ logged' = Append(logged, [message |-> message, string |-> content])
          /\ wire' = Before(k + 1) \o LogText(n, message, content) \o After(k)
    BY <1>4 DEF Interrupt
  <2>1. PICK content \in Contents(message), k \in DOMAIN wire :
          /\ logged' = Append(logged, [message |-> message, string |-> content])
          /\ wire' = Before(k + 1) \o LogText(n, message, content) \o After(k)
    BY <2>0
  <2>2. /\ lpc = "args" /\ Len(logged) < MaxLogs /\ UNCHANGED <<me, lpc, tagIt, va, cut>>
        /\ content \in Strings \cup {<<>>}
    BY <1>4 DEF Interrupt, Contents
  <2>3. /\ logged' \in Seq(Logs) /\ n = Len(logged) + 1 /\ n <= MaxLogs
        /\ DOMAIN logged \subseteq DOMAIN logged' /\ n \in DOMAIN logged'
        /\ \A i \in DOMAIN logged' : logged'[i].message \in Messages
    BY <2>1, <2>2, MoreLogged
  <2>4. C \subseteq M
    BY <2>3 DEF CharsOf
  <2>5. k \in 1 .. Len(wire) + 1 /\ k + 1 \in 1 .. Len(wire) + 1
    BY <1>0
  <2>6. Before(k + 1) \in Seq(C) /\ After(k) \in Seq(C)
    BY <2>5, Around
  <2> HIDE DEF n, M, C
  <2>7. LogText(n, message, content) \in Seq(M)
    BY <2>2, <2>3, LogTextType DEF M
  <2>8. Before(k + 1) \in Seq(M) /\ After(k) \in Seq(M)
    BY <2>4, <2>6, SeqMonotonic
  <2>9. wire' \in Seq(M)
    <3>1. Before(k + 1) \o LogText(n, message, content) \in Seq(M)
      BY <2>7, <2>8, ConcatProperties
    <3> QED
      BY <2>1, <2>8, <3>1, ConcatProperties
  <2> QED
    BY SMTT(30), <1>0, <2>2, <2>3, <2>9 DEF DeviceTypes, n, M
<1> QED
  BY <1>1, <1>2, <1>3, <1>4 DEF Disturbance

-----------------------------------------------------------------------------
(* The decoder.                                                            *)

DecoderTypes ==
  /\ dpc \in {"off", "line", "index", "chunks", "done", "terminated"}
  /\ rest \in Seq(Chars) /\ line \in Seq(Chars)
  /\ cursor \in Nat /\ cursor <= Len(line) + 2
  /\ row \in Seq(Args)
  /\ shown \in Seq(Seq(Chars)) /\ Len(shown) <= Len(row) + 1
  /\ dpc = "chunks" => Len(shown) >= 1

TypeInv == DeviceTypes /\ DecoderTypes

LEMMA FirstLineType ==
  ASSUME rest \in Seq(Chars)
  PROVE  FirstLine \in 1 .. Len(rest) + 1
<1> DEFINE ends == {k \in DOMAIN rest : rest[k].kind = "eol"}
<1>1. Len(rest) \in Nat /\ ends \subseteq 1 .. Len(rest)
  BY LenProperties
<1>2. CASE ends = {}
  BY <1>1, <1>2 DEF FirstLine
<1>3. CASE ends # {}
  <2>1. FirstLine = CHOOSE k \in ends : \A j \in ends : k <= j
    BY <1>3 DEF FirstLine
  <2>2. ends \in SUBSET Nat
    BY <1>1
  <2> HIDE DEF ends
  <2>3. FirstLine \in ends
    BY <1>3, <2>1, <2>2, LeastChosen
  <2> QED
    BY <1>1, <2>3
<1> QED
  BY <1>2, <1>3

(* Characters up to n are there to be read.                                *)
LEMMA ReadType ==
  ASSUME DecoderTypes, NEW n \in Nat, CanRead(n)
  PROVE  Read(n) \in Seq(Chars) /\ cursor + n <= Len(line) /\ Len(line) \in Nat
<1>1. cursor + n <= Len(line) /\ cursor + 1 \in Nat \ {0} /\ cursor + n \in Nat
  BY DEF CanRead, Readable, DecoderTypes
<1>2. Read(n) \in Seq(Chars)
  BY <1>1, AnyPiece DEF Read, DecoderTypes
<1> QED
  BY <1>1, <1>2, LenProperties DEF DecoderTypes

LEMMA ShowTypes ==
  ASSUME DecoderTypes, NextChunk, NEW value \in Seq(Chars), NEW n \in Nat,
         cursor + n <= Len(line), Show(value, n)
  PROVE  DecoderTypes'
<1>1. /\ Len(shown) <= Len(row) /\ shown' = Append(shown, value) /\ cursor' = cursor + n
      /\ UNCHANGED <<dpc, rest, line, row>>
  BY DEF NextChunk, Show
<1>2. shown' \in Seq(Seq(Chars)) /\ Len(shown') = Len(shown) + 1
  BY <1>1, AppendProperties DEF DecoderTypes
<1>3. Len(row) \in Nat /\ Len(line) \in Nat /\ Len(shown) \in Nat
  BY LenProperties DEF DecoderTypes
<1> QED
  BY <1>1, <1>2, <1>3 DEF DecoderTypes

LEMMA DecodeStepTypes ==
  ASSUME TypeInv, DecodeStep
  PROVE  DecoderTypes'
<1> USE DEF TypeInv
<1>1. CASE GetLine
  <2>1. FirstLine \in 1 .. Len(rest) + 1 /\ Len(rest) \in Nat
    BY FirstLineType, LenProperties DEF DecoderTypes
  <2>2. FirstLine - 1 \in Nat /\ FirstLine - 1 <= Len(rest) /\ FirstLine + 1 \in Nat \ {0}
    BY <2>1
  <2>3. /\ SubSeq(rest, 1, FirstLine - 1) \in Seq(Chars)
        /\ SubSeq(rest, FirstLine + 1, Len(rest)) \in Seq(Chars)
    BY <2>1, <2>2, AnyPiece DEF DecoderTypes
  <2>4. /\ line' \in Seq(Chars) /\ rest' \in Seq(Chars) /\ cursor' = 0 /\ dpc' = "index"
        /\ UNCHANGED <<row, shown>>
    BY <1>1, <2>3 DEF GetLine
  <2>5. Len(line') \in Nat
    BY <2>4, LenProperties
  <2> QED
    BY <2>4, <2>5 DEF DecoderTypes
<1>2. CASE EndOfFile \/ IndexTerminates \/ NumberTerminates
  BY <1>2 DEF EndOfFile, IndexTerminates, NumberTerminates, Terminate, DecoderTypes
<1>3. CASE ReadIndex
  <2>1. IndexChars \in Nat /\ IndexChars >= 2
    BY DEF IndexChars, DecoderIdBytes
  <2>2. PICK message \in IndexRows : row' = Descriptor(message)
    BY <1>3 DEF ReadIndex
  <2>3. message \in Messages \cup {<<>>}
    BY <2>2, Lengths DEF IndexRows, Heard
  <2>4. row' \in Seq(Args) /\ Len(row') \in Nat
    BY <2>2, <2>3, RowTypes
  <2>5. /\ CanRead(IndexChars) /\ cursor' = cursor + 2 /\ shown' = <<Read(IndexChars)>>
        /\ dpc' = "chunks" /\ UNCHANGED <<rest, line>>
    BY <1>3 DEF ReadIndex
  <2>6. Read(IndexChars) \in Seq(Chars) /\ cursor + IndexChars <= Len(line) /\ Len(line) \in Nat
    BY <2>1, <2>5, ReadType
  <2>7. shown' \in Seq(Seq(Chars)) /\ Len(shown') = 1
    BY <2>5, <2>6
  <2> QED
    BY <2>1, <2>4, <2>5, <2>6, <2>7 DEF DecoderTypes
<1>4. CASE ReadString
  <2> DEFINE n == CHOOSE k \in StringEnds : \A j \in StringEnds : k <= j
  <2>1. Len(line) \in Nat /\ cursor \in Nat /\ StringEnds \subseteq cursor + 1 .. Len(line)
    BY LenProperties DEF DecoderTypes, StringEnds
  <2>2. StringEnds \in SUBSET Nat /\ StringEnds # {}
    BY <1>4, <2>1 DEF ReadString
  <2>3. n \in StringEnds
    BY <2>2, LeastChosen
  <2>4. NextChunk /\ Show(SubSeq(line, cursor + 1, n - 1), n - cursor)
    BY <1>4 DEF ReadString
  <2> HIDE DEF n
  <2>5. n \in cursor + 1 .. Len(line)
    BY <2>1, <2>3
  <2>6. /\ n - cursor \in Nat /\ cursor + (n - cursor) <= Len(line)
        /\ cursor + 1 \in Nat \ {0} /\ n - 1 \in Nat /\ n - 1 <= Len(line)
    BY <2>1, <2>5
  <2>7. SubSeq(line, cursor + 1, n - 1) \in Seq(Chars)
    BY <2>6, AnyPiece DEF DecoderTypes
  <2> QED
    BY <2>4, <2>6, <2>7, ShowTypes
<1>5. CASE ReadNumber
  <2>1. /\ NextChunk /\ CanRead(2 * Chunk.bytes)
        /\ Show(Read(2 * Chunk.bytes), 2 * Chunk.bytes)
    BY <1>5 DEF ReadNumber
  <2>2. Len(shown) \in 1 .. Len(row)
    <3>1. Len(shown) \in Nat /\ Len(row) \in Nat /\ Len(shown) <= Len(row)
      BY <2>1, LenProperties DEF NextChunk, DecoderTypes
    <3> QED
      BY <2>1, <3>1 DEF NextChunk, DecoderTypes
  <2>3. Chunk \in Args
    BY <2>2, ElementOfSeq DEF Chunk, DecoderTypes
  <2>4. 2 * Chunk.bytes \in Nat
    BY <2>3 DEF Args, AllowedSizes, StringCode, WideStringCode
  <2> QED
    BY <2>1, <2>4, ReadType, ShowTypes
<1>6. CASE StringBreaks \/ LinePrinted
  BY <1>6 DEF StringBreaks, LinePrinted, FinishLine, DecoderTypes
<1> QED
  BY <1>1, <1>2, <1>3, <1>4, <1>5, <1>6 DEF DecodeStep

LEMMA TypeNext ==
  ASSUME TypeInv, [Next]_vars
  PROVE  TypeInv'
<1> USE DEF TypeInv
<1>1. CASE Device
  <2>1. UNCHANGED decoder
    BY <1>1 DEF Device, LogBegin, PrintStaticArgument, PrintDouble, PrintLongDouble,
         PrintStringArgument, SkipCode, LogEnd, Send
  <2> QED
    BY <1>1, <2>1, DeviceNext DEF decoder, DecoderTypes
<1>2. CASE Disturbance
  <2>1. UNCHANGED decoder
    BY <1>2 DEF Disturbance, Lose, Late, Reset, Interrupt, Disturb
  <2> QED
    BY <1>2, <2>1, DisturbanceNext DEF decoder, DecoderTypes
<1>3. CASE Collect
  <2>1. CharsOf(DOMAIN logged) \subseteq Chars
    BY Lengths DEF CharsOf, Chars
  <2>2. wire \in Seq(Chars)
    BY <2>1, SeqMonotonic DEF DeviceTypes
  <2>3. UNCHANGED <<logged, me, lpc, tagIt, va, wire, cut>>
    BY <1>3 DEF Collect, device, faults
  <2>4. /\ dpc' = "line" /\ rest' = wire
        /\ UNCHANGED <<line, cursor, row, shown>>
    BY <1>3 DEF Collect
  <2> QED
    BY <2>2, <2>3, <2>4 DEF DeviceTypes, DecoderTypes
<1>4. CASE DecodeStep
  <2>1. UNCHANGED device
    BY <1>4 DEF DecodeStep, GetLine, EndOfFile, IndexTerminates, ReadIndex, ReadString, ReadNumber,
         NumberTerminates, StringBreaks, LinePrinted, Terminate, Show, FinishLine
  <2> QED
    BY <1>4, <2>1, DecodeStepTypes DEF device, faults, DeviceTypes
<1>5. CASE UNCHANGED vars
  BY <1>5 DEF vars, device, faults, decoder, DeviceTypes, DecoderTypes
<1> QED
  BY <1>1, <1>2, <1>3, <1>4, <1>5 DEF Next

LEMMA TypeInit == Init => TypeInv
<1> SUFFICES ASSUME Init PROVE TypeInv
  OBVIOUS
<1>1. \A S : <<>> \in Seq(S) /\ Len(<<>>) = 0
  BY EmptySeq
<1>2. DeviceTypes
  BY <1>1, Bounds DEF Init, DeviceTypes
<1>3. DecoderTypes
  BY <1>1 DEF Init, DecoderTypes
<1> QED
  BY <1>2, <1>3 DEF TypeInv

(* Whatever is lost, late, cut off or interrupted, the decoder stays in    *)
(* its line but for the two characters of a wide id, takes no more chunks  *)
(* than the row has, and LOG takes no more arguments than there are codes. *)
THEOREM WireTypeCorrect == Spec => []TypeOK
<1>1. TypeInv => TypeOK
  <2> SUFFICES ASSUME TypeInv PROVE TypeOK
    OBVIOUS
  <2>1. \A k \in DOMAIN wire : wire[k].kind \in CharKinds
    <3> SUFFICES ASSUME NEW k \in DOMAIN wire PROVE wire[k].kind \in CharKinds
      OBVIOUS
    <3>1. wire[k] \in CharsOf(DOMAIN logged)
      BY Lengths, ElementOfSeq DEF TypeInv, DeviceTypes
    <3> QED
      BY <3>1 DEF CharsOf
  <2> QED
    BY <2>1 DEF TypeInv, DeviceTypes, DecoderTypes, TypeOK
<1> QED
  BY <1>1, TypeInit, TypeNext, PTL DEF Spec

-----------------------------------------------------------------------------
(* Delivery: nothing disturbs the logs, ids have one byte, placeholders    *)
(* are supported and strings hold neither a NUL nor a line end.            *)

Undisturbed ==
  /\ Disturbances = {}
  /\ Rows < 254
  /\ \A message \in Messages : \A k \in DOMAIN message : Supported(message[k])
  /\ \A string \in Strings : string \in Seq({"chr"})

(* What the five readers of a supported placeholder make of it: a string,  *)
(* or a number whose bytes LOG sends and the decoder takes.                *)
SentBytes(p, bytes) ==
  \/ ArgCode(p) = bytes /\ bytes \in {1, 2, 4, 8} /\ Filled(bytes)
  \/ ArgCode(p) = 24 /\ bytes = 8 /\ ~BigEndian
  \/ ArgCode(p) = 32 /\ bytes = 16 /\ LongDouble /\ ~BigEndian

LEMMA FilledSize ==
  ASSUME NEW bytes, Filled(bytes)
  PROVE  bytes <= IntBytes /\ IntBytes \in {0, 4, 8}
  BY DEF Filled, IntBytes

LEMMA SupportedInteger ==
  ASSUME NEW p \in Placeholders, Supported(p), p.base \in {"d", "u"}
  PROVE  /\ GetByteSize(p) = Arg(IntegerSize(p.ext), IF p.base = "d" THEN "i" ELSE "u")
         /\ IntegerSize(p.ext) \in {1, 2, 4, 8} /\ Filled(IntegerSize(p.ext))
<1>1. p.ext \in Modifiers \cup {"%"}
  BY DEF Placeholders, PercentSign
<1>2. p.ext # "L" /\ Filled(IntegerSize(p.ext))
  BY DEF Supported
<1>3. IntegerSize(p.ext) \in AllowedSizes
  BY <1>1, <1>2, IntegerSizes
<1>4. GetByteSize(p) = Arg(IntegerSize(p.ext), IF p.base = "d" THEN "i" ELSE "u")
  BY DEF GetByteSize
<1>5. IntegerSize(p.ext) \in {1, 2, 4, 8}
  BY <1>2, <1>3, FilledSize DEF AllowedSizes
<1> QED
  BY <1>2, <1>4, <1>5

LEMMA SupportedNumber ==
  ASSUME NEW p \in Placeholders, Supported(p), p.base # "s"
  PROVE  /\ GetByteSize(p).bytes \in {1, 2, 4, 8, 16} /\ GetByteSize(p).type # "s"
         /\ Fits(GetByteSize(p)) /\ SentBytes(p, GetByteSize(p).bytes)
<1>1. CASE p.base \in {"d", "u"}
  <2> DEFINE b == IntegerSize(p.ext)
  <2>1. /\ GetByteSize(p) = Arg(b, IF p.base = "d" THEN "i" ELSE "u")
        /\ b \in {1, 2, 4, 8} /\ Filled(b)
    BY <1>1, SupportedInteger
  <2> HIDE DEF b
  <2>2. GetByteSize(p).bytes = b /\ GetByteSize(p).type \in {"i", "u"}
    BY <2>1 DEF Arg
  <2>3. ArgCode(p) = b
    BY <2>1, <2>2 DEF ArgCode
  <2>4. Fits(GetByteSize(p))
    <3>1. CASE GetByteSize(p).type = "i"
      BY <2>1, <2>2, <3>1 DEF Fits
    <3>2. CASE GetByteSize(p).type = "u"
      <4>1. b <= 8
        BY <2>1
      <4> QED
        BY <2>2, <3>2, <4>1 DEF Fits
    <3> QED
      BY <2>2, <3>1, <3>2
  <2> QED
    BY <2>1, <2>2, <2>3, <2>4 DEF SentBytes
<1>2. CASE p.base = "c"
  <2>1. GetByteSize(p) = Arg(1, "u") /\ Filled(1)
    BY <1>2 DEF Supported, GetByteSize
  <2> QED
    BY <2>1 DEF Arg, ArgCode, Fits, SentBytes
<1>3. CASE p.base = "f" /\ p.ext = ""
  <2>1. GetByteSize(p) = Arg(8, "d") /\ ~BigEndian
    BY <1>3 DEF Supported, GetByteSize
  <2> QED
    BY <2>1 DEF Arg, ArgCode, Fits, SentBytes
<1>4. CASE p.base = "f" /\ p.ext = "L"
  <2>1. GetByteSize(p) = Arg(16, "d") /\ LongDouble /\ ~BigEndian
    BY <1>4 DEF Supported, GetByteSize
  <2> QED
    BY <2>1 DEF Arg, ArgCode, Fits, SentBytes
<1>5. CASE p.base = "p"
  <2> DEFINE b == SizeOf["void*"]
  <2>1. b \in AllowedSizes /\ Filled(b)
    BY <1>5, SizeAssumption DEF Supported, TypeNames
  <2>2. GetByteSize(p) = Arg(b, "u")
    BY <1>5 DEF GetByteSize
  <2> HIDE DEF b
  <2>3. b \in {1, 2, 4, 8}
    BY <2>1, FilledSize DEF AllowedSizes
  <2> QED
    BY <2>1, <2>2, <2>3 DEF Arg, ArgCode, Fits, SentBytes
<1> QED
  BY <1>1, <1>2, <1>3, <1>4, <1>5 DEF Supported

LEMMA SupportedString ==
  ASSUME NEW p \in Placeholders, Supported(p), p.base = "s"
  PROVE  /\ GetByteSize(p) = Arg(StringCode, "s") /\ ArgCode(p) = StringCode
         /\ p = [ext |-> "", base |-> "s"]
<1>1. p.ext = ""
  BY DEF Supported
<1>2. GetByteSize(p) = Arg(StringCode, "s")
  BY <1>1 DEF GetByteSize
<1>3. p = [ext |-> "", base |-> "s"]
  BY <1>1 DEF Placeholders, PercentSign
<1>4. GetByteSize(p).bytes = 127 /\ GetByteSize(p).type = "s"
  BY <1>2 DEF Arg, StringCode
<1>5. ArgCode(p) = StringCode
  BY <1>4 DEF ArgCode, StringCode
<1> QED
  BY <1>2, <1>3, <1>5

(* LOG sends a supported placeholder by one of its branches, and what the  *)
(* decoder takes for it.                                                   *)
LEMMA CodeOfSupported ==
  ASSUME NEW p \in Placeholders, Supported(p), NEW n, NEW a, NEW content
  PROVE  /\ HasBranch(ArgCode(p))
         /\ CodeText(n, a, ArgCode(p), content) =
              IF p.base = "s" THEN Append(StringText(n, a, content), Nul(n))
              ELSE HexText(n, a, GetByteSize(p).bytes)
<1>1. CASE p.base = "s"
  <2>1. ArgCode(p) = StringCode
    BY <1>1, SupportedString
  <2> QED
    BY <1>1, <2>1 DEF CodeText, HasBranch, StringCode
<1>2. CASE p.base # "s"
  <2>1. PICK b, c, t : b = GetByteSize(p).bytes /\ c = ArgCode(p) /\ t = CodeText(n, a, c, content)
    OBVIOUS
  <2>2. \/ c = b /\ b \in {1, 2, 4, 8} /\ Filled(b)
        \/ c = 24 /\ b = 8 /\ ~BigEndian
        \/ c = 32 /\ b = 16 /\ LongDouble /\ ~BigEndian
    BY <1>2, <2>1, SupportedNumber DEF SentBytes
  <2>3. CASE c = b /\ b \in {1, 2, 4, 8} /\ Filled(b)
    <3>1. IntBytes > 0
      BY <2>3, FilledSize
    <3>2. t = IntegerText(n, a, b)
      BY <2>1, <2>3 DEF CodeText, StringCode
    <3>3. t = HexText(n, a, b)
      BY <2>3, <3>2 DEF IntegerText, HexText
    <3> QED
      BY <1>2, <2>1, <2>3, <3>1, <3>3 DEF HasBranch
  <2>4. CASE c = 24 /\ b = 8 /\ ~BigEndian
    <3>1. t = MemoryText(n, a, b)
      BY <2>1, <2>4 DEF CodeText, StringCode
    <3>2. t = HexText(n, a, b)
      BY <2>4, <3>1 DEF MemoryText, HexText
    <3> QED
      BY <1>2, <2>1, <2>4, <3>2 DEF HasBranch
  <2>5. CASE c = 32 /\ b = 16 /\ LongDouble /\ ~BigEndian
    <3>1. t = MemoryText(n, a, b)
      BY <2>1, <2>5 DEF CodeText, StringCode
    <3>2. t = HexText(n, a, b)
      BY <2>5, <3>1 DEF MemoryText, HexText
    <3> QED
      BY <1>2, <2>1, <2>5, <3>2 DEF HasBranch
  <2> QED
    BY <2>2, <2>3, <2>4, <2>5
<1> QED
  BY <1>1, <1>2

LEMMA SupportedFound ==
  ASSUME NEW p \in Placeholders, Supported(p)
  PROVE  Chunked(Unify(p))
<1>1. p \in [ext : Modifiers \cup {"%"}, base : Conversions]
  BY DEF Placeholders, PercentSign, Conversions
<1>2. CASE p.base \in {"d", "u"}
  <2>1. Unify(p) = [p EXCEPT !.ext = "ll"]
    BY <1>2 DEF Supported, Unify
  <2> QED
    BY <1>1, <1>2, <2>1 DEF Chunked
<1>3. CASE p.base \in {"c", "s", "p"}
  BY <1>3 DEF Supported, Unify, Chunked
<1>4. CASE p.base = "f" /\ p.ext = ""
  <2>1. Unify(p) = [p EXCEPT !.ext = "L"]
    BY <1>4 DEF Unify, WithL
  <2> QED
    BY <1>1, <1>4, <2>1 DEF Chunked
<1>5. CASE p.base = "f" /\ p.ext = "L"
  BY <1>5 DEF Unify, Chunked
<1> QED
  BY <1>2, <1>3, <1>4, <1>5 DEF Supported

(* The row of a message has all its placeholders.                          *)
LEMMA SupportedRow ==
  ASSUME NEW message \in Messages, \A k \in DOMAIN message : Supported(message[k])
  PROVE  /\ Len(Descriptor(message)) = Len(message)
         /\ \A k \in 1 .. Len(message) : Descriptor(message)[k] = GetByteSize(message[k])
<1>1. /\ Len(message) \in Nat /\ DOMAIN message = 1 .. Len(message)
      /\ \A k \in 1 .. Len(message) :
           message[k] \in Placeholders /\ Encodable(message[k]) /\ Supported(message[k])
  BY MessageTypes
<1>2. {k \in DOMAIN message : Chunked(Unify(message[k]))} = 1 .. Len(message)
  BY <1>1, SupportedFound
<1>3. Cardinality(1 .. Len(message)) = Len(message)
  <2>1. Len(message) \in Nat
    BY <1>1
  <2> QED
    BY SMTT(30), <2>1, FS_Interval
<1>4. Chunks(message) = [k \in 1 .. Len(message) |-> GetByteSize(message[k])]
  BY <1>2, <1>3 DEF Chunks
<1>5. Len(Chunks(message)) = Len(message) /\ DOMAIN Chunks(message) = 1 .. Len(message)
  <2>1. Chunks(message) \in [1 .. Len(message) -> Args]
    BY <1>1, <1>4, ArgTypes
  <2> QED
    BY <1>1, <2>1, MapSeq
<1>6. RowLoads(message)
  <2> SUFFICES ASSUME NEW k \in 1 .. Len(message) PROVE Decodable(Chunks(message)[k])
    BY <1>5 DEF RowLoads
  <2>1. CASE message[k].base = "s"
    <3>1. GetByteSize(message[k]) = Arg(StringCode, "s")
      BY <1>1, <2>1, SupportedString
    <3>2. Chunks(message)[k].bytes = StringCode
      BY <1>4, <3>1 DEF Arg
    <3> QED
      BY <3>2 DEF Decodable
  <2>2. CASE message[k].base # "s"
    <3>1. GetByteSize(message[k]).bytes \in {1, 2, 4, 8, 16}
      BY <1>1, <2>2, SupportedNumber
    <3> QED
      BY <1>4, <3>1 DEF Decodable
  <2> QED
    BY <2>1, <2>2
<1> QED
  BY <1>4, <1>5, <1>6 DEF Descriptor

-----------------------------------------------------------------------------
(* The wire as the blocks of its logs: the id, then the arguments.         *)

Length(n) == Len(logged[n].message)

(* A log that can be shown: of supported placeholders, and without a line  *)
(* end in its string.                                                      *)
Proper(n) ==
  /\ \A k \in DOMAIN logged[n].message : Supported(logged[n].message[k])
  /\ ~SendsNewline(logged[n])

LEMMA ProperSame ==
  ASSUME NEW n, logged'[n] = logged[n]
  PROVE  Proper(n)' = Proper(n)
  BY DEF Proper, SendsNewline, Supported, Filled, IntBytes, ArgCode, GetByteSize, Arg, IntegerSize

LEMMA UndisturbedProper ==
  ASSUME Undisturbed, DeviceTypes
  PROVE  \A n \in DOMAIN logged : Proper(n)
<1> SUFFICES ASSUME NEW n \in DOMAIN logged PROVE Proper(n)
  OBVIOUS
<1>1. logged[n].message \in Messages /\ logged[n].string \in Strings \cup {<<>>}
  BY Lengths
<1>2. \A k \in DOMAIN logged[n].message : Supported(logged[n].message[k])
  BY <1>1 DEF Undisturbed
<1>3. PICK string : string = logged[n].string
  OBVIOUS
<1>4. string \in Seq({"chr"})
  BY <1>1, <1>3, EmptySeq DEF Undisturbed
<1>5. \A k \in DOMAIN string : string[k] # "eol"
  BY <1>4, LenProperties, ElementOfSeq
<1> QED
  BY <1>2, <1>3, <1>5 DEF Proper, SendsNewline

LEMMA ProperArgument ==
  ASSUME DeviceTypes, NEW n \in DOMAIN logged, Proper(n), NEW a \in 1 .. Length(n)
  PROVE  /\ logged[n].message[a] \in Placeholders /\ Encodable(logged[n].message[a])
         /\ Supported(logged[n].message[a])
         /\ logged[n].message[a].base = "s" =>
              /\ logged[n].string \in Seq({"chr", "eol"}) /\ Len(logged[n].string) \in Nat
              /\ \A j \in 1 .. Len(logged[n].string) : logged[n].string[j] = "chr"
<1>1. /\ logged[n].message \in Messages /\ a \in DOMAIN logged[n].message
      /\ logged[n].string \in Seq({"chr", "eol"})
  BY Lengths, MessageTypes, StringTypes DEF Length
<1>2. PICK p : p = logged[n].message[a]
  OBVIOUS
<1>3. p \in Placeholders /\ Encodable(p) /\ Supported(p)
  BY <1>1, <1>2, MessageTypes DEF Proper
<1>4. PICK string : string = logged[n].string
  OBVIOUS
<1>5. /\ string \in Seq({"chr", "eol"}) /\ Len(string) \in Nat
      /\ DOMAIN string = 1 .. Len(string)
  BY <1>1, <1>4, LenProperties
<1>6. ASSUME p.base = "s" PROVE \A j \in 1 .. Len(string) : string[j] = "chr"
  <2>1. ArgCode(p) = StringCode
    BY <1>3, <1>6, SupportedString
  <2>2. \A j \in DOMAIN string : string[j] # "eol"
    BY <1>1, <1>2, <1>4, <2>1 DEF Proper, SendsNewline
  <2> QED
    BY <1>5, <2>2, ElementOfSeq
<1> QED
  BY <1>2, <1>3, <1>4, <1>5, <1>6

Block(n, a) ==
  IF a = 0 THEN IdText(n)
  ELSE IF logged[n].message[a].base = "s"
  THEN Append(StringText(n, a, logged[n].string), Nul(n))
  ELSE HexText(n, a, GetByteSize(logged[n].message[a]).bytes)

Closed(n)  == n # me \/ lpc = "idle"
Reached(n) == IF Closed(n) THEN Length(n) + 1 ELSE tagIt

Text(n) == [a \in 0 .. Length(n) |-> Block(n, a)]

(* The first r texts lie in the sequence w one behind the other, text a    *)
(* from place[a] on, and no line ends there.                               *)
Blocks(w, place, text, r) ==
  /\ 1 <= place[0] /\ place[r] <= Len(w) + 1
  /\ \A a \in 0 .. r : place[0] <= place[a] /\ place[a] <= place[r]
  /\ \A a \in 0 .. r - 1 :
       /\ place[a + 1] = place[a] + Len(text[a])
       /\ \A j \in 1 .. Len(text[a]) : w[place[a] + j - 1] = text[a][j]
  /\ \A p \in place[0] .. place[r] - 1 : w[p].kind # "eol"

(* The line end of log n, and the beginning of the log behind it.          *)
Ended(at, n) ==
  /\ at[n][Length(n) + 1] <= Len(wire)
  /\ wire[at[n][Length(n) + 1]] = EndOfLine(n)
  /\ at[n + 1][0] = at[n][Length(n) + 1] + 1

(* Block a of log n begins at at[n][a].                                    *)
Laid(at) ==
  /\ at[1][0] = 1
  /\ \A n \in 1 .. me : /\ Blocks(wire, at[n], Text(n), Reached(n))
                        /\ Closed(n) => Ended(at, n)
  /\ lpc = "idle" => at[me + 1][0] = Len(wire) + 1
  /\ lpc = "args" => at[me][tagIt] = Len(wire) + 1

(* The call that runs is the last one, and has taken one argument for each *)
(* code it passed.                                                         *)
CallInv ==
  /\ me = Len(logged)
  /\ lpc = "args" => va = tagIt /\ tagIt <= Length(me) + 1

Layouts == [Nat -> [Nat -> Nat]]

(* The characters of a block: none ends the line, none but the last one of *)
(* a string is a NUL, those of a number are digits.                        *)
LEMMA BlockText ==
  ASSUME DeviceTypes, NEW n \in DOMAIN logged, Proper(n), NEW a \in 0 .. Length(n)
  PROVE  /\ Block(n, a) \in Seq(CharsOf(DOMAIN logged)) /\ Len(Block(n, a)) \in Nat
         /\ \A j \in 1 .. Len(Block(n, a)) : Block(n, a)[j].kind # "eol"
<1>0. n \in Nat /\ a \in Nat
  BY Lengths DEF Length
<1>1. CASE a = 0
  <2>1. Block(n, a) = HexText(n, 0, HeaderIdBytes(Rows)) /\ HeaderIdBytes(Rows) \in Nat
    BY <1>1 DEF Block, IdText, HeaderIdBytes
  <2>2. PICK b \in Nat : b = HeaderIdBytes(Rows)
    BY <2>1
  <2>3. PICK t : t = HexText(n, 0, b)
    OBVIOUS
  <2>4. /\ t \in Seq(CharsOf(DOMAIN logged)) /\ Len(t) \in Nat
        /\ \A k \in 1 .. Len(t) : t[k].kind # "eol"
    BY <1>0, <2>3, HexChars
  <2>5. Block(n, a) = t
    BY <2>1, <2>2, <2>3
  <2> QED
    BY <2>4, <2>5
<1>2. CASE a # 0 /\ logged[n].message[a].base = "s"
  <2> DEFINE content == logged[n].string
             str == StringText(n, a, content)
  <2>0. a \in 1 .. Length(n)
    BY <1>2, <1>0, Lengths, MessageTypes DEF Length
  <2>1. content \in Seq({"chr", "eol"})
    BY <1>2, <2>0, ProperArgument
  <2>2. \A j \in 1 .. Len(content) : content[j] = "chr"
    BY <1>2, <2>0, ProperArgument
  <2> HIDE DEF content
  <2>3. /\ str \in Seq(CharsOf(DOMAIN logged)) /\ Len(str) = Len(content)
        /\ \A j \in 1 .. Len(content) : str[j] = Char(content[j], n, a, j)
    BY <1>0, <2>1, StringTextType
  <2>4. Nul(n) \in CharsOf(DOMAIN logged)
    BY MarkTypes
  <2>5. Block(n, a) = Append(str, Nul(n))
    BY <1>2 DEF Block, content
  <2>6. Len(content) \in Nat
    BY <2>1, LenProperties
  <2> HIDE DEF str
  <2>7. /\ Block(n, a) \in Seq(CharsOf(DOMAIN logged)) /\ Len(Block(n, a)) = Len(content) + 1
        /\ \A j \in 1 .. Len(content) : Block(n, a)[j] = Char(content[j], n, a, j)
        /\ Block(n, a)[Len(content) + 1] = Nul(n)
    BY <2>3, <2>4, <2>5, AppendProperties
  <2>8. \A j \in 1 .. Len(Block(n, a)) : j \in 1 .. Len(content) \/ j = Len(content) + 1
    BY <2>6, <2>7
  <2>9. \A j \in 1 .. Len(Block(n, a)) : Block(n, a)[j].kind # "eol"
    <3>1. Nul(n).kind = "nul" /\ \A j \in 1 .. Len(content) : Char(content[j], n, a, j).kind = "chr"
      BY <2>2 DEF Char, Nul
    <3> QED
      BY <2>7, <2>8, <3>1
  <2> QED
    BY <2>6, <2>7, <2>9
<1>3. CASE a # 0 /\ logged[n].message[a].base # "s"
  <2>1. GetByteSize(logged[n].message[a]).bytes \in Nat
    BY <1>3, <1>0, Lengths, MessageTypes, ArgTypes DEF Length
  <2>2. Block(n, a) = HexText(n, a, GetByteSize(logged[n].message[a]).bytes)
    BY <1>3 DEF Block
  <2>3. PICK b \in Nat : b = GetByteSize(logged[n].message[a]).bytes
    BY <2>1
  <2>4. PICK t : t = HexText(n, a, b)
    OBVIOUS
  <2>5. /\ t \in Seq(CharsOf(DOMAIN logged)) /\ Len(t) \in Nat
        /\ \A k \in 1 .. Len(t) : t[k].kind # "eol"
    BY <1>0, <2>4, HexChars
  <2>6. Block(n, a) = t
    BY <2>2, <2>3, <2>4
  <2> QED
    BY <2>5, <2>6
<1> QED
  BY <1>1, <1>2, <1>3

LEMMA TextType ==
  ASSUME DeviceTypes, NEW n \in DOMAIN logged, Proper(n)
  PROVE  /\ Length(n) \in Nat /\ n \in Nat /\ n >= 1
         /\ Text(n) \in [0 .. Length(n) -> Seq(Chars)]
         /\ \A a \in 0 .. Length(n) : \A j \in 1 .. Len(Text(n)[a]) : Text(n)[a][j].kind # "eol"
<1>1. Length(n) \in Nat /\ n \in Nat /\ n >= 1
  BY Lengths, MessageTypes DEF Length
<1>2. CharsOf(DOMAIN logged) \subseteq Chars
  BY Lengths DEF CharsOf, Chars
<1>3. ASSUME NEW a \in 0 .. Length(n)
      PROVE  /\ Block(n, a) \in Seq(Chars)
             /\ \A j \in 1 .. Len(Block(n, a)) : Block(n, a)[j].kind # "eol"
  BY <1>2, BlockText, SeqMonotonic
<1> QED
  BY <1>1, <1>3 DEF Text

LEMMA TextSame ==
  ASSUME NEW n, logged'[n] = logged[n]
  PROVE  Length(n)' = Length(n) /\ Text(n)' = Text(n)
<1>1. Length(n)' = Length(n)
  BY DEF Length
<1>2. \A a : Block(n, a)' = Block(n, a)
  BY DEF Block, IdText, HexText, StringText, Nul, Char
<1> QED
  BY <1>1, <1>2 DEF Text

-----------------------------------------------------------------------------
(* Blocks on a wire that grows.                                            *)

LEMMA BlockRange ==
  ASSUME NEW w \in Seq(Chars), NEW place \in [Nat -> Nat],
         NEW L \in Nat, NEW text \in [0 .. L -> Seq(Chars)], NEW r \in 0 .. L + 1,
         Blocks(w, place, text, r), NEW a \in 0 .. r - 1
  PROVE  /\ a \in Nat /\ place[a] \in Nat /\ place[a] >= 1 /\ Len(text[a]) \in Nat
         /\ place[a] + Len(text[a]) = place[a + 1]
         /\ place[a] + Len(text[a]) <= place[r]
         /\ place[a] + Len(text[a]) <= Len(w) + 1
<1>1. /\ a \in Nat /\ a + 1 \in 0 .. r /\ a \in 0 .. r /\ a \in 0 .. L /\ r \in Nat
      /\ a + 1 \in Nat
  OBVIOUS
<1>2. /\ place[0] \in Nat /\ place[r] \in Nat /\ place[a] \in Nat /\ place[a + 1] \in Nat
      /\ Len(w) \in Nat /\ Len(text[a]) \in Nat
  BY <1>1, LenProperties
<1>3. /\ 1 <= place[0] /\ place[r] <= Len(w) + 1 /\ place[0] <= place[a]
      /\ place[a + 1] <= place[r] /\ place[a + 1] = place[a] + Len(text[a])
  BY <1>1 DEF Blocks
<1> DEFINE first == place[0]   here == place[a]   next == place[a + 1]   last == place[r]
           size == Len(w)      part == Len(text[a])
<1>4. /\ first \in Nat /\ here \in Nat /\ next \in Nat /\ last \in Nat
      /\ size \in Nat /\ part \in Nat
      /\ 1 <= first /\ last <= size + 1 /\ first <= here /\ next <= last /\ next = here + part
  BY <1>2, <1>3
<1> HIDE DEF first, here, next, last, size, part
<1>5. here >= 1 /\ here + part <= last /\ here + part <= size + 1
  BY <1>4
<1> QED
  BY <1>1, <1>4, <1>5 DEF here, next, last, size, part

LEMMA BlocksStay ==
  ASSUME NEW w \in Seq(Chars), NEW v \in Seq(Chars), Len(v) >= Len(w),
         \A k \in 1 .. Len(w) : v[k] = w[k],
         NEW p \in [Nat -> Nat], NEW q \in [Nat -> Nat],
         NEW L \in Nat, NEW text \in [0 .. L -> Seq(Chars)], NEW r \in 0 .. L + 1,
         \A a \in 0 .. r : q[a] = p[a],
         Blocks(w, p, text, r)
  PROVE  Blocks(v, q, text, r)
<1>1. Len(w) \in Nat /\ Len(v) \in Nat /\ r \in Nat /\ 0 \in 0 .. r /\ r \in 0 .. r
  BY LenProperties
<1>2. /\ p[0] \in Nat /\ p[r] \in Nat /\ q[0] = p[0] /\ q[r] = p[r]
      /\ 1 <= p[0] /\ p[r] <= Len(w) + 1
  BY <1>1 DEF Blocks
<1>3. \A a \in 0 .. r : q[0] <= q[a] /\ q[a] <= q[r]
  BY <1>2 DEF Blocks
<1>4. ASSUME NEW a \in 0 .. r - 1
      PROVE  /\ q[a + 1] = q[a] + Len(text[a])
             /\ \A j \in 1 .. Len(text[a]) : v[q[a] + j - 1] = text[a][j]
  <2>1. /\ a \in Nat /\ p[a] \in Nat /\ p[a] >= 1 /\ Len(text[a]) \in Nat
        /\ p[a] + Len(text[a]) <= Len(w) + 1
    BY BlockRange
  <2>2. a \in 0 .. r /\ a + 1 \in 0 .. r
    BY <1>1, <2>1
  <2>3. \A j \in 1 .. Len(text[a]) : p[a] + j - 1 \in 1 .. Len(w)
    <3> DEFINE here == p[a]   size == Len(w)   part == Len(text[a])
    <3>1. here \in Nat /\ here >= 1 /\ size \in Nat /\ part \in Nat /\ here + part <= size + 1
      BY <1>1, <2>1
    <3> HIDE DEF here, size, part
    <3>2. \A j \in 1 .. part : here + j - 1 \in 1 .. size
      BY <3>1
    <3> QED
      BY <3>2 DEF here, size, part
  <2>4. /\ p[a + 1] = p[a] + Len(text[a])
        /\ \A j \in 1 .. Len(text[a]) : w[p[a] + j - 1] = text[a][j]
    BY DEF Blocks
  <2> QED
    BY <2>2, <2>3, <2>4
<1>5. ASSUME NEW i \in q[0] .. q[r] - 1 PROVE v[i].kind # "eol"
  <2>1. i \in p[0] .. p[r] - 1 /\ i \in 1 .. Len(w)
    BY SMTT(30), <1>1, <1>2
  <2> QED
    BY <2>1 DEF Blocks
<1>6. 1 <= q[0] /\ q[r] <= Len(v) + 1
  BY <1>1, <1>2
<1> QED
  BY <1>3, <1>4, <1>5, <1>6 DEF Blocks

(* Another block.                                                          *)
LEMMA Behind ==
  ASSUME NEW w \in Seq(Chars), NEW t \in Seq(Chars)
  PROVE  /\ w \o t \in Seq(Chars) /\ Len(w) \in Nat /\ Len(t) \in Nat
         /\ Len(w \o t) = Len(w) + Len(t)
         /\ \A k \in 1 .. Len(w) : (w \o t)[k] = w[k]
         /\ \A j \in 1 .. Len(t) : (w \o t)[Len(w) + j] = t[j]
<1> DEFINE v == w \o t   m == Len(w)   n == Len(t)
<1>1. m \in Nat /\ n \in Nat
  BY LenProperties
<1>2. /\ v \in Seq(Chars) /\ Len(v) = m + n
      /\ \A i \in 1 .. m + n : v[i] = IF i <= m THEN w[i] ELSE t[i - m]
  BY ConcatProperties
<1> HIDE DEF v, m, n
<1>3. \A k \in 1 .. m : k \in 1 .. m + n /\ k <= m
  BY <1>1
<1>4. \A j \in 1 .. n : m + j \in 1 .. m + n /\ ~(m + j <= m) /\ m + j - m = j
  BY <1>1
<1>5. \A k \in 1 .. m : v[k] = w[k]
  BY <1>2, <1>3
<1>6. \A j \in 1 .. n : v[m + j] = t[j]
  <2> SUFFICES ASSUME NEW j \in 1 .. n PROVE v[m + j] = t[j]
    OBVIOUS
  <2> DEFINE i == m + j
  <2>1. i \in 1 .. m + n /\ ~(i <= m) /\ i - m = j
    BY <1>1, <1>4
  <2> HIDE DEF i
  <2>2. v[i] = IF i <= m THEN w[i] ELSE t[i - m]
    BY <1>2, <2>1
  <2>3. v[i] = t[i - m]
    BY <2>1, <2>2
  <2> QED
    BY <2>1, <2>3 DEF i
<1> QED
  BY <1>1, <1>2, <1>5, <1>6 DEF v, m, n

LEMMA BlocksGrow ==
  ASSUME NEW w \in Seq(Chars),
         NEW p \in [Nat -> Nat], NEW q \in [Nat -> Nat],
         NEW L \in Nat, NEW text \in [0 .. L -> Seq(Chars)], NEW r \in 0 .. L,
         \A a \in 0 .. r : q[a] = p[a],
         Blocks(w, p, text, r), p[r] = Len(w) + 1,
         NEW v \in Seq(Chars), v = w \o text[r], q[r + 1] = Len(v) + 1,
         \A j \in 1 .. Len(text[r]) : text[r][j].kind # "eol"
  PROVE  Blocks(v, q, text, r + 1)
<1> DEFINE t == text[r]   m == Len(w)   n == Len(t)   first == q[0]   end == q[r]
           end1 == q[r + 1]
<1>1. /\ r \in Nat /\ r \in 0 .. L + 1 /\ 0 \in 0 .. r /\ r \in 0 .. r /\ t \in Seq(Chars)
      /\ r + 1 - 1 = r
  OBVIOUS
<1>2. /\ m \in Nat /\ n \in Nat /\ Len(v) = m + n
      /\ \A k \in 1 .. m : v[k] = w[k]
      /\ \A j \in 1 .. n : v[m + j] = t[j]
  BY <1>1, Behind
<1>3. Blocks(v, q, text, r)
  <2>1. Len(v) >= Len(w)
    <3> HIDE DEF t, n
    <3> QED
      BY <1>2
  <2> QED
    BY <1>1, <1>2, <2>1, BlocksStay
<1>4. end = m + 1 /\ end1 = m + n + 1 /\ first \in Nat
  BY <1>1, <1>2
<1>5. 1 <= first /\ \A a \in 0 .. r : first <= q[a] /\ q[a] <= end
  BY <1>3 DEF Blocks
<1>6. \A a \in 0 .. r : q[a] \in Nat
  <2>1. \A a \in 0 .. r : a \in Nat
    BY <1>1
  <2> QED
    BY <2>1
<1>7. \A a \in 0 .. r + 1 : first <= q[a] /\ q[a] <= end1
  <2> SUFFICES ASSUME NEW a \in 0 .. r + 1 PROVE first <= q[a] /\ q[a] <= end1
    OBVIOUS
  <2>0. first <= end /\ end <= end1 /\ end \in Nat /\ end1 \in Nat
    <3>1. first <= end
      BY <1>1, <1>5
    <3> HIDE DEF t, m, n, first, end, end1
    <3> QED
      BY <1>2, <1>4, <3>1
  <2>1. CASE a \in 0 .. r
    <3> DEFINE here == q[a]
    <3>1. here \in Nat /\ first <= here /\ here <= end
      BY <1>5, <1>6, <2>1
    <3> HIDE DEF here, t, m, n, first, end, end1
    <3>2. first <= here /\ here <= end1
      BY <1>4, <2>0, <3>1
    <3> QED
      BY <3>2 DEF here
  <2>2. CASE a = r + 1
    <3>1. q[a] = end1
      BY <2>2
    <3> HIDE DEF t, m, n, first, end, end1
    <3>2. first <= end1 /\ end1 <= end1
      BY <1>2, <1>4, <2>0
    <3> QED
      BY <3>1, <3>2
  <2>3. a \in 0 .. r \/ a = r + 1
    BY <1>1
  <2> QED
    BY <2>1, <2>2, <2>3
<1>8. \A a \in 0 .. r : /\ q[a + 1] = q[a] + Len(text[a])
                         /\ \A j \in 1 .. Len(text[a]) : v[q[a] + j - 1] = text[a][j]
  <2> SUFFICES ASSUME NEW a \in 0 .. r
               PROVE  /\ q[a + 1] = q[a] + Len(text[a])
                      /\ \A j \in 1 .. Len(text[a]) : v[q[a] + j - 1] = text[a][j]
    OBVIOUS
  <2>1. CASE a = r
    <3>1. \A j \in 1 .. n : end + j - 1 = m + j
      <4> HIDE DEF t, m, n, first, end, end1
      <4> QED
        BY <1>2, <1>4
    <3>2. end1 = end + n
      <4> HIDE DEF t, m, n, first, end, end1
      <4> QED
        BY <1>2, <1>4
    <3>3. \A j \in 1 .. n : v[end + j - 1] = t[j]
      BY <1>2, <3>1
    <3> QED
      BY <2>1, <3>2, <3>3
  <2>2. CASE a # r
    <3>1. a \in 0 .. r - 1
      BY <1>1, <2>2
    <3> QED
      BY <1>3, <3>1 DEF Blocks
  <2> QED
    BY <2>1, <2>2
<1>9. \A i \in first .. end1 - 1 : v[i].kind # "eol"
  <2> SUFFICES ASSUME NEW i \in first .. end1 - 1 PROVE v[i].kind # "eol"
    OBVIOUS
  <2>1. \/ i \in first .. end - 1
        \/ i - m \in 1 .. n /\ i = m + (i - m)
    <3> HIDE DEF t, m, n, first, end, end1
    <3> QED
      BY <1>2, <1>4
  <2>2. CASE i \in first .. end - 1
    BY <1>3, <2>2 DEF Blocks
  <2>3. CASE i - m \in 1 .. n /\ i = m + (i - m)
    <3>1. v[i] = t[i - m]
      BY <1>2, <2>3
    <3> QED
      BY <2>3, <3>1
  <2> QED
    BY <2>1, <2>2, <2>3
<1>10. end1 <= Len(v) + 1
  <2> HIDE DEF t, m, n, first, end, end1
  <2> QED
    BY <1>2, <1>4
<1>11. \A a \in 0 .. (r + 1) - 1 :
         /\ q[a + 1] = q[a] + Len(text[a])
         /\ \A j \in 1 .. Len(text[a]) : v[q[a] + j - 1] = text[a][j]
  <2>1. 0 .. (r + 1) - 1 = 0 .. r
    BY <1>1
  <2> QED
    BY <1>8, <2>1, Zenon
<1> QED
  BY <1>5, <1>7, <1>9, <1>10, <1>11, Zenon DEF Blocks

-----------------------------------------------------------------------------
(* LOG lays its blocks.                                                    *)

(* The layout bt has x as the place of block a of log n, and is like at.   *)
Moved(bt, at, n, a, x) ==
  bt[n][a] = x /\ \A m, b \in Nat : m # n \/ b # a => bt[m][b] = at[m][b]

LEMMA WithLayout ==
  ASSUME NEW at \in Layouts, NEW n \in Nat, NEW a \in Nat, NEW x \in Nat
  PROVE  \E bt \in Layouts : Moved(bt, at, n, a, x)
<1> DEFINE bt == [m \in Nat |-> [b \in Nat |-> IF m = n /\ b = a THEN x ELSE at[m][b]]]
<1>1. \A m, b \in Nat : at[m][b] \in Nat
  BY DEF Layouts
<1>2. bt \in Layouts
  BY <1>1 DEF Layouts
<1>3. Moved(bt, at, n, a, x)
  BY DEF Moved
<1> HIDE DEF bt
<1> QED
  BY <1>2, <1>3

LEMMA LayoutTypes ==
  ASSUME NEW at \in Layouts, NEW n \in Nat
  PROVE  at[n] \in [Nat -> Nat] /\ \A a \in Nat : at[n][a] \in Nat
  BY DEF Layouts

LEMMA WireType ==
  ASSUME DeviceTypes
  PROVE  wire \in Seq(Chars)
<1>1. CharsOf(DOMAIN logged) \subseteq Chars
  BY Lengths DEF CharsOf, Chars
<1> QED
  BY <1>1, SeqMonotonic DEF DeviceTypes

LEMMA WireTypeNext ==
  ASSUME DeviceTypes'
  PROVE  wire' \in Seq(Chars)
<1>1. /\ wire' \in Seq(CharsOf(DOMAIN logged')) /\ logged' \in Seq(Logs)
  BY DEF DeviceTypes
<1>2. DOMAIN logged' \subseteq Nat
  BY <1>1, LenProperties
<1>3. CharsOf(DOMAIN logged') \subseteq Chars
  BY <1>2 DEF CharsOf, Chars
<1> QED
  BY <1>1, <1>3, SeqMonotonic

(* A log whose call is over stays where it is.                             *)
LEMMA Kept ==
  ASSUME Undisturbed, DeviceTypes, NEW at \in Layouts, NEW bt \in Layouts,
         NEW n \in DOMAIN logged, Closed(n), Closed(n)', logged'[n] = logged[n],
         wire' \in Seq(Chars), Len(wire') >= Len(wire),
         \A k \in 1 .. Len(wire) : wire'[k] = wire[k],
         \A a \in 0 .. Length(n) + 1 : bt[n][a] = at[n][a], bt[n + 1][0] = at[n + 1][0],
         Blocks(wire, at[n], Text(n), Reached(n)), Ended(at, n)
  PROVE  Blocks(wire', bt[n], Text(n)', Reached(n)') /\ Ended(bt, n)'
<1>1. /\ Length(n) \in Nat /\ n \in Nat /\ Text(n) \in [0 .. Length(n) -> Seq(Chars)]
      /\ wire \in Seq(Chars)
  BY TextType, WireType, UndisturbedProper
<1>2. Text(n)' = Text(n) /\ Length(n)' = Length(n)
  BY TextSame
<1>3. Reached(n) = Length(n) + 1 /\ Reached(n)' = Length(n) + 1
  BY <1>2 DEF Reached
<1>4. at[n] \in [Nat -> Nat] /\ bt[n] \in [Nat -> Nat]
  BY <1>1, LayoutTypes
<1>5. Blocks(wire', bt[n], Text(n), Length(n) + 1)
  <2> DEFINE L == Length(n)   text == Text(n)   v == wire'
  <2>1. L + 1 \in 0 .. L + 1 /\ L \in Nat
    BY <1>1
  <2>2. /\ Blocks(wire, at[n], text, L + 1) /\ text \in [0 .. L -> Seq(Chars)]
        /\ v \in Seq(Chars) /\ \A a \in 0 .. L + 1 : bt[n][a] = at[n][a]
        /\ Len(v) >= Len(wire) /\ \A k \in 1 .. Len(wire) : v[k] = wire[k]
    BY <1>1, <1>3
  <2> HIDE DEF L, text, v
  <2>3. Blocks(v, bt[n], text, L + 1)
    BY <1>1, <1>4, <2>1, <2>2, BlocksStay
  <2> QED
    BY <2>3 DEF L, text, v
<1>6. Ended(bt, n)'
  <2>1. Length(n) + 1 \in 0 .. Length(n) + 1 /\ Length(n) + 1 \in Nat
    BY <1>1
  <2>2. bt[n][Length(n) + 1] = at[n][Length(n) + 1]
    BY <2>1
  <2> DEFINE last == at[n][Length(n) + 1]
  <2>3. last \in Nat /\ last >= 1
    <3>1. 0 \in 0 .. Length(n) + 1 /\ 0 \in Nat
      BY <1>1
    <3>2. at[n][0] \in Nat /\ last \in Nat
      BY <1>4, <2>1
    <3>3. 1 <= at[n][0] /\ at[n][0] <= last
      BY <1>3, <2>1 DEF Blocks
    <3> HIDE DEF last
    <3> QED
      BY <3>2, <3>3
  <2>4. last <= Len(wire) /\ wire[last] = EndOfLine(n) /\ at[n + 1][0] = last + 1
    BY DEF Ended
  <2>5. Len(wire) \in Nat /\ Len(wire') \in Nat
    BY <1>1, LenProperties
  <2> HIDE DEF last
  <2>6. last \in 1 .. Len(wire) /\ last <= Len(wire')
    BY <2>3, <2>4, <2>5
  <2>7. wire'[last] = EndOfLine(n) /\ bt[n + 1][0] = last + 1
    BY <2>4, <2>6
  <2>8. EndOfLine(n)' = EndOfLine(n)
    BY DEF EndOfLine, Char
  <2> QED
    BY <1>2, <2>2, <2>6, <2>7, <2>8 DEF Ended, last
<1> QED
  BY <1>2, <1>3, <1>5, <1>6

LEMMA BlocksNone ==
  ASSUME NEW w \in Seq(Chars), NEW p \in [Nat -> Nat], NEW text, p[0] = Len(w) + 1
  PROVE  Blocks(w, p, text, 0)
<1>1. Len(w) \in Nat
  BY LenProperties
<1> DEFINE here == p[0]
<1>2. here \in Nat /\ 1 <= here /\ here <= Len(w) + 1
  BY <1>1
<1>3. \A a \in 0 .. 0 : a = 0
  OBVIOUS
<1>4. 0 .. 0 - 1 = {}
  OBVIOUS
<1> HIDE DEF here
<1>5. here .. here - 1 = {}
  BY <1>2
<1>6. \A a \in 0 .. 0 : p[0] <= p[a] /\ p[a] <= p[0]
  BY <1>2, <1>3 DEF here
<1> QED
  BY <1>2, <1>4, <1>5, <1>6 DEF here, Blocks

(* The same of the next state.                                             *)
TextTypes ==
  \A n \in DOMAIN logged :
    /\ Length(n) \in Nat /\ Text(n) \in [0 .. Length(n) -> Seq(Chars)]
    /\ \A a \in 0 .. Length(n) : \A j \in 1 .. Len(Text(n)[a]) : Text(n)[a][j].kind # "eol"

LEMMA TextTypesHold == Undisturbed /\ DeviceTypes => TextTypes
  BY TextType, UndisturbedProper DEF TextTypes

LEMMA TextTypesNext ==
  ASSUME Undisturbed, DeviceTypes'
  PROVE  TextTypes'
<1>1. (Undisturbed /\ DeviceTypes => TextTypes)'
  BY TextTypesHold, PTL
<1>2. Undisturbed'
  BY DEF Undisturbed, Supported, Filled, IntBytes, GetByteSize, Arg, IntegerSize
<1> QED
  BY <1>1, <1>2

(* The id of a new log.                                                    *)
LEMMA LaidBegin ==
  ASSUME Undisturbed, DeviceTypes, DeviceTypes', CallInv, NEW at \in Layouts, Laid(at),
         NEW message \in Messages, NEW content \in Contents(message), LogBegin(message, content)
  PROVE  CallInv' /\ \E bt \in Layouts : Laid(bt)'
<1>0. PICK n : n = me + 1
  OBVIOUS
<1>1. /\ me = Len(logged) /\ lpc = "idle" /\ me \in Nat /\ n \in Nat /\ Len(logged) \in Nat
      /\ DOMAIN logged = 1 .. me
  BY <1>0, Lengths DEF CallInv, LogBegin
<1>2. content \in Strings \cup {<<>>}
  BY DEF Contents
<1>3. /\ Len(logged) < MaxLogs /\ me' = Len(logged') /\ wire' = wire \o IdText(me')
      /\ logged' = Append(logged, [message |-> message, string |-> content])
      /\ lpc' = "args" /\ tagIt' = 1 /\ va' = 1
  BY DEF LogBegin
<1>4. /\ Len(logged') = Len(logged) + 1 /\ n \in DOMAIN logged'
      /\ \A m \in 1 .. me : logged'[m] = logged[m]
      /\ logged'[n].message = message
  BY <1>0, <1>1, <1>2, <1>3, MoreLogged
<1>5. me' = n
  BY <1>0, <1>1, <1>3, <1>4
<1>6. Length(n)' = Len(message) /\ Len(message) \in Nat
  BY <1>4, MessageTypes DEF Length
<1>7. CallInv'
  BY <1>1, <1>3, <1>5, <1>6 DEF CallInv
<1>8. /\ wire \in Seq(Chars) /\ wire' \in Seq(Chars) /\ Len(wire') \in Nat
  BY WireType, WireTypeNext, LenProperties
<1>9. PICK x \in Nat : x = Len(wire') + 1
  BY <1>8
<1>10a. PICK bt \in Layouts : Moved(bt, at, n, 1, x)
  BY <1>1, WithLayout
<1>10. bt[n][1] = x /\ \A m, b \in Nat : m # n \/ b # 1 => bt[m][b] = at[m][b]
  BY <1>10a DEF Moved
<1>11. IdText(me') = Block(n, 0)' /\ Block(n, 0)' = Text(n)'[0]
  <2>1. 0 \in 0 .. Length(n)'
    BY <1>6
  <2>2. Block(n, 0) = IdText(n) /\ Block(n, 0)' = IdText(n)'
    BY DEF Block
  <2>3. IdText(n)' = IdText(n)
    BY DEF IdText, HexText, Char
  <2> QED
    BY <1>5, <2>1, <2>2, <2>3 DEF Text
<1>12. /\ Length(n)' \in Nat /\ Text(n)' \in [0 .. Length(n)' -> Seq(Chars)]
       /\ \A j \in 1 .. Len(Text(n)'[0]) : Text(n)'[0][j].kind # "eol"
  <2>1. n \in DOMAIN logged' /\ TextTypes'
    BY <1>4, TextTypesNext
  <2>2. 0 \in 0 .. Length(n)'
    BY <1>6
  <2> QED
    BY <2>1, <2>2 DEF TextTypes
<1>13. Blocks(wire', bt[n], Text(n)', 1)
  <2> DEFINE L == Length(n)'   text == Text(n)'   v == wire'   p == at[n]   q == bt[n]
  <2>1. /\ L \in Nat /\ text \in [0 .. L -> Seq(Chars)] /\ 0 \in 0 .. L /\ v \in Seq(Chars)
        /\ \A j \in 1 .. Len(text[0]) : text[0][j].kind # "eol"
    BY <1>6, <1>8, <1>12
  <2>2. p \in [Nat -> Nat] /\ q \in [Nat -> Nat]
    BY <1>1, <1>10, LayoutTypes
  <2>3. q[0] = p[0] /\ p[0] = Len(wire) + 1 /\ q[0 + 1] = Len(v) + 1
    BY <1>0, <1>1, <1>9, <1>10 DEF Laid
  <2>4. v = wire \o text[0]
    BY <1>3, <1>11
  <2>5. Blocks(wire, p, text, 0)
    BY <1>8, <2>2, <2>3, BlocksNone
  <2>6. \A a \in 0 .. 0 : q[a] = p[a]
    BY <2>3
  <2> HIDE DEF L, text, v, p, q
  <2>7. Blocks(v, q, text, 0 + 1)
    BY <1>8, <2>1, <2>2, <2>3, <2>4, <2>5, <2>6, BlocksGrow
  <2> QED
    BY <2>7 DEF L, text, v, p, q
<1>14. ASSUME NEW m \in 1 .. me
       PROVE  Blocks(wire', bt[m], Text(m)', Reached(m)') /\ Ended(bt, m)'
  <2>1. m \in DOMAIN logged /\ m \in Nat /\ m + 1 \in Nat /\ m # n
    BY <1>0, <1>1
  <2>2. Closed(m) /\ Closed(m)'
    BY <1>0, <1>1, <1>5 DEF Closed
  <2>3. Blocks(wire, at[m], Text(m), Reached(m)) /\ Ended(at, m)
    BY <2>2 DEF Laid
  <2>4. /\ Len(wire') >= Len(wire) /\ \A k \in 1 .. Len(wire) : wire'[k] = wire[k]
    <3>1. IdText(me') \in Seq(Chars)
      BY <1>1, <1>5, IdTextType DEF Chars
    <3>2. /\ Len(wire') = Len(wire) + Len(IdText(me')) /\ Len(wire) \in Nat
          /\ Len(IdText(me')) \in Nat /\ \A k \in 1 .. Len(wire) : wire'[k] = wire[k]
      BY <1>3, <1>8, <3>1, Behind
    <3> QED
      BY <3>2
  <2>5. Length(m) \in Nat
    BY <2>1, TextType, UndisturbedProper
  <2>6. \A a \in 0 .. Length(m) + 1 : bt[m][a] = at[m][a]
    BY <1>10, <2>1, <2>5
  <2>7. bt[m + 1][0] = at[m + 1][0]
    BY <1>10, <2>1
  <2>8. logged'[m] = logged[m]
    BY <1>4
  <2> QED
    BY <1>8, <1>10, <2>1, <2>2, <2>3, <2>4, <2>6, <2>7, <2>8, Kept
<1>15. Reached(n)' = 1 /\ ~Closed(n)'
  BY <1>0, <1>1, <1>3, <1>5 DEF Reached, Closed
<1>16. bt[1][0] = 1
  <2>1. bt[1][0] = at[1][0]
    BY <1>9, <1>10
  <2> QED
    BY <2>1 DEF Laid
<1>17. Laid(bt)'
  <2>1. ASSUME NEW m \in 1 .. me'
        PROVE  Blocks(wire', bt[m], Text(m)', Reached(m)') /\ (Closed(m)' => Ended(bt, m)')
    <3>1. CASE m = n
      BY <1>13, <1>15, <3>1
    <3>2. CASE m # n
      <4>1. m \in 1 .. me
          BY <1>0, <1>1, <1>5, <3>2
      <4> QED
        BY <1>14, <4>1
    <3> QED
      BY <3>1, <3>2
  <2>2. bt[me'][tagIt'] = Len(wire') + 1
    BY <1>3, <1>5, <1>9, <1>10
  <2> QED
    BY <1>3, <1>16, <2>1, <2>2 DEF Laid
<1> QED
  BY <1>7, <1>10, <1>17

(* Of the branches of LOG, the one of an argument sends its block.         *)
LEMMA SendsBlock ==
  ASSUME DeviceTypes, lpc = "args" => Proper(me) /\ va = tagIt,
         \/ PrintStaticArgument \/ PrintDouble \/ PrintLongDouble
         \/ PrintStringArgument \/ SkipCode
  PROVE  /\ lpc = "args" /\ me \in DOMAIN logged /\ tagIt \in 1 .. Length(me)
         /\ Send(Block(me, tagIt))
<1>1. lpc = "args" /\ tagIt <= Len(Codes)
  BY DEF PrintStaticArgument, PrintDouble, PrintLongDouble, PrintStringArgument, SkipCode, More
<1>2. /\ me \in DOMAIN logged /\ tagIt \in Nat /\ 1 <= tagIt /\ va = tagIt
      /\ Current.message \in Messages /\ Current.string \in Strings \cup {<<>>}
  BY <1>1, Lengths DEF Current, DeviceTypes
<1>3. tagIt \in 1 .. Length(me) /\ tagIt # 0
  BY <1>1, <1>2, CodesOfMessage DEF Length, Current
<1> DEFINE p == Current.message[tagIt]
<1>4. Codes[tagIt] = ArgCode(p)
  BY <1>1, <1>2, CodesOfMessage
<1>5. p \in Placeholders /\ Supported(p)
  BY <1>1, <1>2, <1>3, ProperArgument DEF Current
<1>6. p = logged[me].message[tagIt]
  BY DEF Current
<1> HIDE DEF p
<1>7. HasBranch(Codes[tagIt])
  BY <1>4, <1>5, CodeOfSupported
<1>8. PrintStaticArgument \/ PrintDouble \/ PrintLongDouble \/ PrintStringArgument
  BY <1>7 DEF SkipCode
<1>9. Argument = Block(me, tagIt)
  <2>1. PICK content : content = Current.string
    OBVIOUS
  <2>2. Argument = IF p.base = "s" THEN Append(StringText(me, va, content), Nul(me))
                   ELSE HexText(me, va, GetByteSize(p).bytes)
    BY <1>4, <1>5, <2>1, CodeOfSupported DEF Argument
  <2> QED
    BY <1>2, <1>3, <1>6, <2>1, <2>2 DEF Block, Current
<1> QED
  BY <1>1, <1>2, <1>3, <1>8, <1>9, PrintsSend DEF Sends

(* An argument.                                                            *)
LEMMA LaidSend ==
  ASSUME Undisturbed, DeviceTypes, DeviceTypes', CallInv, NEW at \in Layouts, Laid(at),
         lpc = "args", me \in DOMAIN logged, tagIt \in 1 .. Length(me), Send(Block(me, tagIt))
  PROVE  CallInv' /\ \E bt \in Layouts : Laid(bt)'
<1>0. PICK n : n = me
  OBVIOUS
<1>1. /\ me = Len(logged) /\ n \in Nat /\ n >= 1 /\ DOMAIN logged = 1 .. me
      /\ tagIt \in Nat /\ tagIt >= 1 /\ Length(n) \in Nat /\ tagIt <= Length(n) /\ va = tagIt
  BY <1>0, Lengths, TextType, UndisturbedProper DEF CallInv
<1>2. /\ wire' = wire \o Block(me, tagIt) /\ va' = va + 1 /\ tagIt' = tagIt + 1
      /\ UNCHANGED <<logged, me, lpc>>
  BY DEF Send
<1>3. /\ \A m \in DOMAIN logged : Text(m)' = Text(m) /\ Length(m)' = Length(m)
      /\ \A m : Closed(m)' <=> Closed(m)
  BY <1>2, TextSame DEF Closed
<1>4. CallInv'
  <2>1. Length(me)' = Length(me)
    BY <1>2, <1>3
  <2> QED
    BY <1>0, <1>1, <1>2, <2>1 DEF CallInv
<1>5. wire \in Seq(Chars) /\ wire' \in Seq(Chars) /\ Len(wire') \in Nat
  BY WireType, WireTypeNext, LenProperties
<1>6. PICK x, t \in Nat : x = Len(wire') + 1 /\ t = tagIt + 1 /\ t # 0
  BY <1>1, <1>5
<1>7a. PICK bt \in Layouts : Moved(bt, at, n, t, x)
  BY <1>1, WithLayout
<1>7. bt[n][t] = x /\ \A m, b \in Nat : m # n \/ b # t => bt[m][b] = at[m][b]
  BY <1>7a DEF Moved
<1>8. Blocks(wire', bt[n], Text(n), tagIt + 1)
  <2> DEFINE L == Length(n)   text == Text(n)   v == wire'   p == at[n]   q == bt[n]
             b == tagIt
  <2>1. /\ L \in Nat /\ text \in [0 .. L -> Seq(Chars)] /\ b \in 0 .. L /\ v \in Seq(Chars)
        /\ \A j \in 1 .. Len(text[b]) : text[b][j].kind # "eol"
    <3>1. n \in DOMAIN logged /\ b \in 0 .. L /\ L \in Nat
      BY <1>0, <1>1
    <3> HIDE DEF b
    <3>2. \A j \in 1 .. Len(text[b]) : text[b][j].kind # "eol"
      BY <3>1, TextType, UndisturbedProper, Zenon
    <3> QED
      BY <1>5, <3>1, <3>2, TextType, UndisturbedProper
  <2>2. p \in [Nat -> Nat] /\ q \in [Nat -> Nat]
    BY <1>1, <1>7, LayoutTypes
  <2>3. p[b] = Len(wire) + 1 /\ q[b + 1] = Len(v) + 1
    BY <1>0, <1>6, <1>7 DEF Laid
  <2>4. v = wire \o text[b]
    BY <1>0, <1>2, <2>1 DEF Text
  <2>5. Blocks(wire, p, text, b)
    <3>1. Reached(n) = b
      BY <1>0, <1>1 DEF Reached, Closed
    <3>2. Blocks(wire, at[n], Text(n), Reached(n))
      BY <1>0, <1>1 DEF Laid
    <3> QED
      BY <3>1, <3>2
  <2>6. \A a \in 0 .. b : q[a] = p[a]
    BY <1>1, <1>6, <1>7
  <2> HIDE DEF L, text, v, p, q, b
  <2>7. Blocks(v, q, text, b + 1)
    BY <1>5, <2>1, <2>2, <2>3, <2>4, <2>5, <2>6, BlocksGrow
  <2> QED
    BY <2>7 DEF L, text, v, p, q, b
<1>9. Len(wire') >= Len(wire) /\ \A k \in 1 .. Len(wire) : wire'[k] = wire[k]
  <2> DEFINE s == Text(me)[tagIt]
  <2>1. s \in Seq(Chars) /\ wire' = wire \o s
    <3>1. Proper(me) /\ tagIt \in 0 .. Length(me) /\ me \in DOMAIN logged
      BY <1>0, <1>1, UndisturbedProper
    <3>2. s \in Seq(Chars)
      BY <3>1, TextType
    <3> QED
      BY <1>2, <3>1, <3>2 DEF Text
  <2> HIDE DEF s
  <2>2. /\ Len(wire') = Len(wire) + Len(s) /\ Len(wire) \in Nat /\ Len(s) \in Nat
        /\ \A k \in 1 .. Len(wire) : wire'[k] = wire[k]
    BY <1>5, <2>1, Behind
  <2> QED
    BY <2>2
<1>10. ASSUME NEW m \in 1 .. me, m # n
       PROVE  Blocks(wire', bt[m], Text(m)', Reached(m)') /\ Ended(bt, m)'
  <2>1. m \in DOMAIN logged /\ m \in Nat /\ m + 1 \in Nat /\ m < me
    BY <1>0, <1>1, <1>10
  <2>2. Closed(m) /\ Closed(m)'
    BY <1>2, <2>1 DEF Closed
  <2>3. Blocks(wire, at[m], Text(m), Reached(m)) /\ Ended(at, m)
    BY <2>2 DEF Laid
  <2>4. Length(m) \in Nat
    BY <2>1, TextType, UndisturbedProper
  <2>5. \A a \in 0 .. Length(m) + 1 : bt[m][a] = at[m][a]
    BY <1>7, <1>10, <2>1, <2>4
  <2>6. bt[m + 1][0] = at[m + 1][0]
    BY <1>6, <1>7, <2>1
  <2>7. logged'[m] = logged[m]
    BY <1>2
  <2> QED
    BY <1>5, <1>7, <1>9, <2>1, <2>2, <2>3, <2>5, <2>6, <2>7, Kept
<1>11. bt[1][0] = 1
  <2>1. bt[1][0] = at[1][0]
    BY <1>6, <1>7
  <2> QED
    BY <2>1 DEF Laid
<1>12. Reached(n)' = tagIt + 1 /\ ~Closed(n)'
  BY <1>0, <1>1, <1>2 DEF Reached, Closed
<1>13. Laid(bt)'
  <2>1. ASSUME NEW m \in 1 .. me'
        PROVE  Blocks(wire', bt[m], Text(m)', Reached(m)') /\ (Closed(m)' => Ended(bt, m)')
    <3>1. CASE m = n
      BY <1>0, <1>1, <1>3, <1>8, <1>12, <3>1
    <3>2. CASE m # n
      BY <1>2, <1>10, <3>2
    <3> QED
      BY <3>1, <3>2
  <2> QED
    BY <1>0, <1>2, <1>6, <1>7, <1>11, <2>1 DEF Laid
<1> QED
  BY <1>4, <1>7, <1>13

(* The end of the line.                                                    *)
LEMMA LaidEnd ==
  ASSUME Undisturbed, DeviceTypes, DeviceTypes', CallInv, NEW at \in Layouts, Laid(at), LogEnd
  PROVE  CallInv' /\ \E bt \in Layouts : Laid(bt)'
<1>0. PICK n : n = me
  OBVIOUS
<1>1. /\ lpc = "args" /\ tagIt > Len(Codes) /\ wire' = Append(wire, EndOfLine(me))
      /\ lpc' = "idle" /\ tagIt' = 1 /\ va' = 1 /\ UNCHANGED <<logged, me>>
  BY DEF LogEnd
<1>2. me \in DOMAIN logged /\ Len(Codes) = Length(me)
  BY <1>1, Lengths, CodesOfMessage DEF Length, Current
<1>3. /\ me = Len(logged) /\ n \in Nat /\ n >= 1 /\ DOMAIN logged = 1 .. me
      /\ Length(n) \in Nat /\ tagIt = Length(n) + 1
  <2>1. /\ me = Len(logged) /\ n \in Nat /\ n >= 1 /\ DOMAIN logged = 1 .. me
        /\ Length(n) \in Nat /\ tagIt \in Nat /\ tagIt <= Length(n) + 1
    BY <1>0, <1>1, <1>2, Lengths, TextType DEF CallInv, DeviceTypes
  <2> QED
    BY <1>0, <1>1, <1>2, <2>1
<1>4. \A m \in DOMAIN logged : Text(m)' = Text(m) /\ Length(m)' = Length(m)
  BY <1>1, TextSame
<1>5. CallInv'
  BY <1>0, <1>1, <1>3 DEF CallInv
<1>6. /\ wire \in Seq(Chars) /\ wire' \in Seq(Chars) /\ Len(wire') \in Nat /\ Len(wire) \in Nat
  BY WireType, WireTypeNext, LenProperties
<1>7. /\ Len(wire') = Len(wire) + 1 /\ wire'[Len(wire) + 1] = EndOfLine(me)
      /\ \A k \in 1 .. Len(wire) : wire'[k] = wire[k]
  <2>1. EndOfLine(me) \in Chars
    BY <1>0, <1>3, MarkTypes DEF Chars
  <2> QED
    BY <1>1, <1>6, <2>1, AppendProperties
<1>8. Len(wire') >= Len(wire)
  BY <1>6, <1>7
<1>9. PICK x, t \in Nat : x = Len(wire') + 1 /\ t = n + 1
  BY <1>3, <1>6
<1>10a. PICK bt \in Layouts : Moved(bt, at, t, 0, x)
  BY <1>9, WithLayout
<1>10. bt[t][0] = x /\ \A m, b \in Nat : m # t \/ b # 0 => bt[m][b] = at[m][b]
  BY <1>10a DEF Moved
<1>11. Reached(n) = Length(n) + 1 /\ Reached(n)' = Length(n) + 1 /\ Closed(n)'
  BY <1>0, <1>1, <1>3, <1>4 DEF Reached, Closed
<1>12. Blocks(wire', bt[n], Text(n), Length(n) + 1)
  <2> DEFINE L == Length(n)   text == Text(n)   v == wire'   p == at[n]   q == bt[n]
  <2>1. /\ L \in Nat /\ text \in [0 .. L -> Seq(Chars)] /\ L + 1 \in 0 .. L + 1
        /\ v \in Seq(Chars) /\ Len(v) >= Len(wire) /\ \A k \in 1 .. Len(wire) : v[k] = wire[k]
    <3>1. text \in [0 .. L -> Seq(Chars)]
      BY <1>0, <1>2, TextType, UndisturbedProper
    <3>2. L \in Nat /\ L + 1 \in 0 .. L + 1
      BY <1>3
    <3> QED
      BY <1>6, <1>7, <1>8, <3>1, <3>2
  <2>2. p \in [Nat -> Nat] /\ q \in [Nat -> Nat]
    BY <1>3, <1>10, LayoutTypes
  <2>3. Blocks(wire, p, text, L + 1)
    <3>1. Blocks(wire, at[n], Text(n), Reached(n))
      BY <1>0, <1>3 DEF Laid
    <3> QED
      BY <1>11, <3>1
  <2>4. \A a \in 0 .. L + 1 : q[a] = p[a]
    BY <1>3, <1>9, <1>10
  <2> HIDE DEF L, text, v, p, q
  <2>5. Blocks(v, q, text, L + 1)
    BY <1>6, <2>1, <2>2, <2>3, <2>4, BlocksStay
  <2> QED
    BY <2>5 DEF L, text, v, p, q
<1>13. Ended(bt, n)'
  <2>1. at[n][Length(n) + 1] = Len(wire) + 1
    BY <1>0, <1>1, <1>3 DEF Laid
  <2>2. bt[n][Length(n) + 1] = at[n][Length(n) + 1]
    BY <1>3, <1>9, <1>10
  <2>3. EndOfLine(me)' = EndOfLine(me)
    BY <1>1 DEF EndOfLine, Char
  <2>4. bt[n + 1][0] = Len(wire) + 1 + 1 /\ Len(wire) + 1 <= Len(wire')
    BY <1>6, <1>7, <1>9, <1>10
  <2>5. Length(n)' = Length(n) /\ me' = me
    BY <1>0, <1>1, <1>2, <1>4
  <2> QED
    BY <1>0, <1>7, <2>1, <2>2, <2>3, <2>4, <2>5 DEF Ended
<1>14. ASSUME NEW m \in 1 .. me, m # n
       PROVE  Blocks(wire', bt[m], Text(m)', Reached(m)') /\ Ended(bt, m)'
  <2>1. m \in DOMAIN logged /\ m \in Nat /\ m + 1 \in Nat /\ m < me /\ m # n + 1 /\ m + 1 # n + 1
    BY <1>0, <1>3, <1>14
  <2>2. Closed(m) /\ Closed(m)'
    BY <1>1, <2>1 DEF Closed
  <2>3. Blocks(wire, at[m], Text(m), Reached(m)) /\ Ended(at, m)
    BY <2>2 DEF Laid
  <2>4. Length(m) \in Nat
    BY <2>1, TextType, UndisturbedProper
  <2>5. \A a \in 0 .. Length(m) + 1 : bt[m][a] = at[m][a]
    BY <1>9, <1>10, <2>1, <2>4
  <2>6. bt[m + 1][0] = at[m + 1][0]
    BY <1>9, <1>10, <2>1
  <2>7. logged'[m] = logged[m]
    BY <1>1
  <2> QED
    BY <1>6, <1>7, <1>8, <1>10, <2>1, <2>2, <2>3, <2>5, <2>6, <2>7, Kept
<1>15. bt[1][0] = 1
  <2>1. bt[1][0] = at[1][0]
    BY <1>3, <1>9, <1>10
  <2> QED
    BY <2>1 DEF Laid
<1>16. Laid(bt)'
  <2>1. ASSUME NEW m \in 1 .. me'
        PROVE  Blocks(wire', bt[m], Text(m)', Reached(m)') /\ (Closed(m)' => Ended(bt, m)')
    <3>1. CASE m = n
      <4>1. Blocks(wire', bt[n], Text(n)', Reached(n)')
        BY <1>0, <1>2, <1>4, <1>11, <1>12
      <4> QED
        BY <1>13, <3>1, <4>1
    <3>2. CASE m # n
      BY <1>1, <1>14, <3>2
    <3> QED
      BY <3>1, <3>2
  <2> QED
    BY <1>0, <1>1, <1>9, <1>10, <1>15, <2>1 DEF Laid
<1> QED
  BY <1>5, <1>10, <1>16

-----------------------------------------------------------------------------
(* The decoder reads the blocks.                                           *)

(* The sequence s is w from a up to b, and w[b] is not in it.              *)
Part(s, w, a, b) ==
  /\ a <= b /\ Len(s) = b - a
  /\ \A k \in 1 .. b - a : s[k] = w[a + k - 1]

LEMMA PartOfPart ==
  ASSUME NEW w \in Seq(Chars), NEW s \in Seq(Chars), NEW a \in Nat, NEW b \in Nat,
         Part(s, w, a, b), NEW i \in Nat \ {0}, NEW j \in Nat, i <= j + 1, j <= Len(s)
  PROVE  Part(SubSeq(s, i, j), w, a + i - 1, a + j)
<1> DEFINE t == SubSeq(s, i, j)
<1>1. /\ t \in Seq(Chars) /\ Len(t) = j - i + 1
      /\ \A k \in 1 .. j - i + 1 : t[k] = s[i + k - 1]
  BY Piece
<1> HIDE DEF t
<1>2. Len(s) = b - a /\ \A k \in 1 .. b - a : s[k] = w[a + k - 1]
  BY DEF Part
<1>3. a + j - (a + i - 1) = j - i + 1 /\ a + i - 1 <= a + j
  OBVIOUS
<1>4. ASSUME NEW k \in 1 .. j - i + 1 PROVE t[k] = w[a + i - 1 + k - 1]
  <2>1. i + k - 1 \in 1 .. b - a /\ a + (i + k - 1) - 1 = a + i - 1 + k - 1
    BY <1>2
  <2>2. s[i + k - 1] = w[a + (i + k - 1) - 1]
    BY <1>2, <2>1
  <2> QED
    BY <1>1, <2>1, <2>2
<1>5. Part(t, w, a + i - 1, a + j)
  BY <1>1, <1>3, <1>4 DEF Part
<1> QED
  BY <1>5 DEF t

(* What the n-th log shows.                                                *)
LEMMA ValuesType ==
  ASSUME DeviceTypes, NEW n \in DOMAIN logged, Proper(n)
  PROVE  /\ Values(n) \in Seq(Seq(Chars)) /\ Len(Values(n)) = Length(n) + 1
         /\ Values(n)[1] = IdText(n)
         /\ \A a \in 1 .. Length(n) :
              Values(n)[a + 1] =
                IF logged[n].message[a].base = "s" THEN StringText(n, a, logged[n].string)
                ELSE HexText(n, a, GetByteSize(logged[n].message[a]).bytes)
<1> DEFINE message == logged[n].message
           string == logged[n].string
           text(a) == IF message[a].base = "s" THEN StringText(n, a, string)
                      ELSE HexText(n, a, GetByteSize(message[a]).bytes)
           texts == [a \in DOMAIN message |-> text(a)]
<1>1. /\ message \in Messages /\ n \in Nat /\ Length(n) \in Nat
      /\ string \in Seq({"chr", "eol"})
  BY Lengths, TextType, StringTypes
<1>2. /\ DOMAIN message = 1 .. Length(n)
      /\ \A a \in 1 .. Length(n) : /\ message[a] \in Placeholders /\ Encodable(message[a])
                                   /\ Supported(message[a])
  BY <1>1, MessageTypes DEF Length, Proper
<1>3. ASSUME NEW a \in 1 .. Length(n)
      PROVE  /\ message[a].base = "s" <=> message[a] = [ext |-> "", base |-> "s"]
             /\ text(a) \in Seq(Chars)
  <2>0. a \in Nat
    BY <1>1
  <2>1. message[a].base = "s" <=> message[a] = [ext |-> "", base |-> "s"]
    <3>1. PICK p : p = message[a]
      OBVIOUS
    <3>2. CASE p.base = "s"
      BY <1>2, <3>1, <3>2, SupportedString
    <3> HIDE DEF message, text, texts
    <3>3. [ext |-> "", base |-> "s"].base = "s"
      OBVIOUS
    <3> QED
      BY <3>1, <3>2, <3>3
  <2>2. StringText(n, a, string) \in Seq(Chars)
    BY <1>1, <2>0, StringTextType DEF Chars
  <2>3. GetByteSize(message[a]).bytes \in Nat
    BY <1>2, ArgTypes
  <2>4. HexText(n, a, GetByteSize(message[a]).bytes) \in Seq(Chars)
    BY <1>1, <2>0, <2>3, HexTextType DEF Chars
  <2> QED
    BY <2>1, <2>2, <2>4
<1>4. Values(n) = <<IdText(n)>> \o texts
  BY <1>2, <1>3 DEF Values
<1>5. texts \in Seq(Seq(Chars)) /\ Len(texts) = Length(n)
  <2>1. texts \in [1 .. Length(n) -> Seq(Chars)]
    BY <1>2, <1>3
  <2> HIDE DEF texts
  <2> QED
    BY <1>1, <2>1, MapSeq
<1>6. \A a \in 1 .. Length(n) : texts[a] = text(a)
  BY <1>2
<1>7. IdText(n) \in Seq(Chars)
  BY <1>1, IdTextType DEF Chars
<1> DEFINE one == <<IdText(n)>>
<1>8. one \in Seq(Seq(Chars)) /\ Len(one) = 1 /\ one[1] = IdText(n)
  BY <1>7
<1> HIDE DEF texts, one, text
<1>9. Values(n) = one \o texts
  BY <1>4 DEF one
<1>10. /\ Values(n) \in Seq(Seq(Chars)) /\ Len(Values(n)) = 1 + Length(n)
       /\ \A i \in 1 .. 1 + Length(n) : Values(n)[i] = IF i <= 1 THEN one[i] ELSE texts[i - 1]
  <2>1. /\ one \o texts \in Seq(Seq(Chars)) /\ Len(one \o texts) = Len(one) + Len(texts)
        /\ \A i \in 1 .. Len(one) + Len(texts) :
             (one \o texts)[i] = IF i <= Len(one) THEN one[i] ELSE texts[i - Len(one)]
    BY <1>5, <1>8, ConcatProperties, Zenon
  <2> QED
    BY <1>5, <1>8, <1>9, <2>1
<1>11. Values(n)[1] = IdText(n)
  BY <1>1, <1>8, <1>10
<1>12. \A a \in 1 .. Length(n) : Values(n)[a + 1] = text(a)
  <2> SUFFICES ASSUME NEW a \in 1 .. Length(n) PROVE Values(n)[a + 1] = text(a)
    OBVIOUS
  <2> DEFINE i == a + 1
  <2>1. i \in 1 .. 1 + Length(n) /\ ~(i <= 1) /\ i - 1 = a
    BY <1>1
  <2> HIDE DEF i
  <2>2. Values(n)[i] = texts[a]
    BY <1>10, <2>1
  <2> QED
    BY <1>6, <2>2 DEF i
<1>13. Len(Values(n)) = Length(n) + 1
  BY <1>1, <1>10
<1> QED
  BY <1>10, <1>11, <1>12, <1>13 DEF text

(* Log n lies on the wire with block a at at[n][a], in one piece, its line *)
(* end behind it.                                                          *)
Lies(at, n) ==
  /\ n \in DOMAIN logged /\ Proper(n) /\ at[n] \in [Nat -> Nat]
  /\ Blocks(wire, at[n], Text(n), Length(n) + 1)
  /\ at[n][Length(n) + 1] <= Len(wire) /\ wire[at[n][Length(n) + 1]].kind = "eol"

LEMMA Lying ==
  ASSUME Undisturbed, DeviceTypes, CallInv, NEW at \in Layouts, Laid(at), lpc = "idle",
         NEW n \in 1 .. me
  PROVE  Lies(at, n) /\ at[n + 1][0] = at[n][Length(n) + 1] + 1
<1>1. n \in DOMAIN logged /\ n \in Nat /\ Length(n) \in Nat
  BY Lengths, TextType, UndisturbedProper DEF CallInv
<1>2. at[n] \in [Nat -> Nat]
  BY <1>1, LayoutTypes
<1>3. Closed(n) /\ Reached(n) = Length(n) + 1
  BY DEF Closed, Reached
<1>4. Blocks(wire, at[n], Text(n), Length(n) + 1) /\ Ended(at, n)
  BY <1>3 DEF Laid
<1>5. EndOfLine(n).kind = "eol"
  BY DEF EndOfLine, Char
<1> QED
  BY <1>1, <1>2, <1>4, <1>5, UndisturbedProper DEF Ended, Lies

LEMMA LineOf ==
  ASSUME DeviceTypes, NEW at, NEW n, Lies(at, n)
  PROVE  /\ n \in DOMAIN logged /\ Length(n) \in Nat
         /\ at[n] \in [Nat -> Nat] /\ Blocks(wire, at[n], Text(n), Length(n) + 1)
         /\ at[n][0] \in Nat /\ at[n][Length(n) + 1] \in Nat
         /\ 1 <= at[n][0] /\ at[n][0] <= at[n][Length(n) + 1]
         /\ at[n][Length(n) + 1] <= Len(wire) /\ Len(wire) \in Nat
         /\ wire[at[n][Length(n) + 1]].kind = "eol"
         /\ \A k \in at[n][0] .. at[n][Length(n) + 1] - 1 : wire[k].kind # "eol"
<1>1. n \in DOMAIN logged /\ n \in Nat /\ Length(n) \in Nat /\ Len(wire) \in Nat
  BY Lengths, TextType DEF Lies
<1>2. at[n] \in [Nat -> Nat] /\ Length(n) + 1 \in Nat /\ 0 \in Nat
  <2>1. at[n] \in [Nat -> Nat]
    BY DEF Lies
  <2>2. Length(n) + 1 \in Nat
    BY <1>1
  <2> QED
    BY <2>1, <2>2
<1>4. Blocks(wire, at[n], Text(n), Length(n) + 1)
  BY DEF Lies
<1>7. Length(n) + 1 \in 0 .. Length(n) + 1
  BY <1>1
<1>8. /\ 1 <= at[n][0] /\ at[n][0] <= at[n][Length(n) + 1]
      /\ \A k \in at[n][0] .. at[n][Length(n) + 1] - 1 : wire[k].kind # "eol"
  BY <1>4, <1>7 DEF Blocks
<1>9. at[n][0] \in Nat /\ at[n][Length(n) + 1] \in Nat
  BY <1>2
<1> QED
  BY <1>1, <1>2, <1>4, <1>8, <1>9 DEF Lies

(* A block in it.                                                          *)
LEMMA BlockInLine ==
  ASSUME DeviceTypes, NEW at, NEW n, Lies(at, n), NEW a \in 0 .. Length(n), line \in Seq(Chars),
         Part(line, wire, at[n][0], at[n][Length(n) + 1]), cursor = at[n][a] - at[n][0]
  PROVE  /\ Block(n, a) \in Seq(Chars) /\ Len(Block(n, a)) \in Nat
         /\ cursor \in Nat /\ Len(line) \in Nat
         /\ cursor + Len(Block(n, a)) <= Len(line)
         /\ cursor + Len(Block(n, a)) = at[n][a + 1] - at[n][0]
         /\ \A j \in 1 .. Len(Block(n, a)) : line[cursor + j] = Block(n, a)[j]
<1> DEFINE p == at[n]   L == Length(n)   text == Text(n)   t == Block(n, a)
           first == p[0]   here == p[a]   next == p[a + 1]   end == p[L + 1]   m == Len(t)
<1>1. /\ n \in DOMAIN logged /\ L \in Nat /\ p \in [Nat -> Nat] /\ Blocks(wire, p, text, L + 1)
      /\ first \in Nat /\ end \in Nat
  BY LineOf
<1>2. text \in [0 .. L -> Seq(Chars)] /\ wire \in Seq(Chars)
  BY <1>1, TextType, WireType DEF Lies
<1>3. t = text[a] /\ t \in Seq(Chars) /\ m \in Nat
  <2>1. t = text[a]
    BY DEF Text
  <2>2. text[a] \in Seq(Chars)
    BY <1>2
  <2> HIDE DEF t, text
  <2> QED
    BY <2>1, <2>2, LenProperties
<1>4. a \in Nat /\ a \in 0 .. (L + 1) - 1 /\ a \in 0 .. L + 1 /\ L + 1 \in 0 .. L + 1
  <2>1. L \in Nat /\ a \in 0 .. L
    BY <1>1
  <2> HIDE DEF L
  <2> QED
    BY <2>1
<1>5. here \in Nat /\ next \in Nat
  <2>1. a \in Nat /\ a + 1 \in Nat
    BY <1>4
  <2>2. p \in [Nat -> Nat]
    BY <1>1
  <2> HIDE DEF p
  <2> QED
    BY <2>1, <2>2
<1>6. /\ next = here + m /\ next <= end /\ here + m = next
  <2> HIDE DEF p, L, text, t
  <2>1. /\ p[a] + Len(text[a]) = p[a + 1] /\ p[a] + Len(text[a]) <= p[L + 1]
    BY <1>1, <1>2, <1>4, BlockRange
  <2> QED
    BY <1>3, <1>5, <2>1
<1>7. first <= here
  BY <1>1, <1>4 DEF Blocks
<1>8. /\ Len(line) = end - first /\ \A k \in 1 .. end - first : line[k] = wire[first + k - 1]
  BY DEF Part
<1>9. \A j \in 1 .. m : wire[here + j - 1] = t[j]
  BY <1>1, <1>3, <1>4 DEF Blocks
<1>10. cursor = here - first
  OBVIOUS
<1> HIDE DEF p, L, text, t, first, here, next, end, m
<1>11. /\ cursor \in Nat /\ cursor + m <= end - first /\ cursor + m = next - first
       /\ end - first \in Nat
  <2>1. /\ first \in Nat /\ end \in Nat /\ m \in Nat /\ here \in Nat /\ next = here + m
        /\ next <= end /\ first <= here /\ cursor = here - first
    BY <1>1, <1>3, <1>5, <1>6, <1>7, <1>10
  <2> QED
    BY <2>1
<1>12. ASSUME NEW j \in 1 .. m PROVE line[cursor + j] = t[j]
  <2>1. cursor + j \in 1 .. end - first /\ first + (cursor + j) - 1 = here + j - 1
    <3>1. /\ first \in Nat /\ end \in Nat /\ m \in Nat /\ here \in Nat
          /\ cursor = here - first /\ cursor + m <= end - first /\ cursor \in Nat
      BY <1>1, <1>3, <1>5, <1>10, <1>11
    <3>2. cursor + j >= 1 /\ cursor + j <= end - first /\ cursor + j \in Int
      BY <3>1
    <3>3. end - first \in Int /\ first + (cursor + j) - 1 = here + j - 1
      BY SMTT(30), <3>1
    <3> QED
      BY <3>2, <3>3
  <2>2. line[cursor + j] = wire[first + (cursor + j) - 1]
    BY <1>8, <2>1
  <2> QED
    BY <1>9, <2>1, <2>2
<1>13. Len(line) \in Nat /\ cursor + m <= Len(line)
  BY <1>8, <1>11
<1> QED
  BY <1>3, <1>11, <1>12, <1>13 DEF p, L, t, first, next, m

(* Where the decoder is in the wire: it printed the first logs, it has the *)
(* line of the next one and has shown the arguments before the cursor, and *)
(* the lines behind that one are still to be read.                         *)
ShowInv(at, n) ==
  /\ row = Descriptor(logged[n].message)
  /\ Len(shown) \in 1 .. Length(n) + 1
  /\ \A k \in 1 .. Len(shown) : shown[k] = Values(n)[k]
  /\ cursor = at[n][Len(shown)] - at[n][0]

DecodeInv(at) ==
  /\ decoded \in Seq(Seq(Seq(Chars))) /\ Len(decoded) <= me
  /\ \A k \in 1 .. Len(decoded) : decoded[k] = Values(k)
  /\ dpc \in {"off", "line", "index", "chunks", "done"}
  /\ dpc = "off" => decoded = <<>>
  /\ dpc # "off" => lpc = "idle"
  /\ dpc = "line" => Part(rest, wire, at[Len(decoded) + 1][0], Len(wire) + 1)
  /\ dpc \in {"index", "chunks"} =>
       LET n == Len(decoded) + 1
       IN  /\ n <= me
           /\ Part(line, wire, at[n][0], at[n][Length(n) + 1])
           /\ Part(rest, wire, at[n + 1][0], Len(wire) + 1)
           /\ dpc = "index" => cursor = 0
           /\ dpc = "chunks" => ShowInv(at, n)
  /\ dpc = "done" => Len(decoded) = me

(* The line of log n is being read, its arguments before the cursor shown. *)
Reading(at, n) ==
  /\ Lies(at, n)
  /\ Part(line, wire, at[n][0], at[n][Length(n) + 1])
  /\ dpc = "index" => cursor = 0
  /\ dpc = "chunks" => ShowInv(at, n)

LEMMA ReadingTypes ==
  ASSUME TypeInv, NEW at, NEW n, Reading(at, n)
  PROVE  /\ n \in DOMAIN logged /\ Length(n) \in Nat /\ line \in Seq(Chars) /\ DeviceTypes
         /\ \A a \in 0 .. Length(n) + 1 : at[n][a] \in Nat
<1>1. n \in DOMAIN logged /\ Length(n) \in Nat /\ at[n] \in [Nat -> Nat]
  BY LineOf DEF TypeInv, Reading
<1>2. \A a \in 0 .. Length(n) + 1 : at[n][a] \in Nat
  <2>1. \A a \in 0 .. Length(n) + 1 : a \in Nat
    BY <1>1
  <2> QED
    BY <1>1, <2>1
<1> QED
  BY <1>1, <1>2 DEF TypeInv, DecoderTypes

LEMMA LiesSame ==
  ASSUME NEW at, NEW n, Lies(at, n), UNCHANGED <<logged, wire>>
  PROVE  Lies(at, n)'
<1>1. Length(n)' = Length(n) /\ Text(n)' = Text(n)
  BY TextSame
<1>2. Proper(n)' = Proper(n)
  BY ProperSame
<1> QED
  BY <1>1, <1>2 DEF Lies

(* A line that is being read.                                              *)
LEMMA LineRead ==
  ASSUME Undisturbed, TypeInv, CallInv, NEW at \in Layouts, Laid(at), DecodeInv(at),
         dpc \in {"index", "chunks"}, NEW n, n = Len(decoded) + 1
  PROVE  /\ n \in 1 .. me /\ lpc = "idle" /\ Reading(at, n)
         /\ Part(rest, wire, at[n + 1][0], Len(wire) + 1)
<1>1. Len(decoded) \in Nat
  BY LenProperties DEF DecodeInv
<1>2. /\ n <= me /\ lpc = "idle"
      /\ Part(line, wire, at[n][0], at[n][Length(n) + 1])
      /\ Part(rest, wire, at[n + 1][0], Len(wire) + 1)
  BY DEF DecodeInv
<1>3. n \in 1 .. me
  <2>1. me \in Nat
    BY Lengths DEF TypeInv, CallInv
  <2> QED
    BY <1>1, <1>2, <2>1
<1>4. Lies(at, n)
  BY <1>2, <1>3, Lying DEF TypeInv
<1> QED
  BY <1>2, <1>3, <1>4 DEF Reading, DecodeInv

LEMMA ReadingKept ==
  ASSUME Undisturbed, TypeInv, CallInv, NEW at \in Layouts, Laid(at), DecodeInv(at),
         dpc \in {"index", "chunks"}, dpc' \in {"index", "chunks"},
         NEW n, n = Len(decoded) + 1, Reading(at, n)',
         UNCHANGED <<logged, me, lpc, wire, rest, line, decoded>>
  PROVE  DecodeInv(at)'
<1>1. \A k : Values(k)' = Values(k) /\ Length(k)' = Length(k)
  BY DEF Values, IdText, HexText, StringText, Char, Length
<1>2. /\ n \in 1 .. me /\ n = Len(decoded') + 1 /\ lpc' = "idle"
      /\ Part(rest', wire', at[n + 1][0], Len(wire') + 1)
  BY LineRead
<1>3. /\ Part(line', wire', at[n][0], at[n][Length(n)' + 1])
      /\ dpc' = "index" => cursor' = 0
      /\ dpc' = "chunks" => ShowInv(at, n)'
  BY <1>1 DEF Reading
<1>4. /\ decoded' \in Seq(Seq(Seq(Chars))) /\ Len(decoded') <= me'
      /\ \A i \in 1 .. Len(decoded') : decoded'[i] = Values(i)'
  BY <1>1 DEF DecodeInv
<1> QED
  BY <1>2, <1>3, <1>4 DEF DecodeInv

(* Digits that are there are read.                                         *)
LEMMA DigitsRead ==
  ASSUME DeviceTypes, NEW at, NEW n, Lies(at, n), NEW a \in 0 .. Length(n), line \in Seq(Chars),
         Part(line, wire, at[n][0], at[n][Length(n) + 1]), cursor = at[n][a] - at[n][0],
         NEW b \in Nat, b = Len(Block(n, a)), \A j \in 1 .. b : Block(n, a)[j].kind = "hex"
  PROVE  /\ CanRead(b) /\ ~MayThrow(b) /\ Read(b) = Block(n, a)
         /\ cursor + b = at[n][a + 1] - at[n][0]
<1> DEFINE t == Block(n, a)
<1>1. /\ t \in Seq(Chars) /\ cursor \in Nat /\ Len(line) \in Nat /\ cursor + b <= Len(line)
      /\ cursor + b = at[n][a + 1] - at[n][0]
      /\ \A j \in 1 .. b : line[cursor + j] = t[j]
  BY BlockInLine
<1>2. Len(t) = b /\ \A j \in 1 .. b : t[j].kind = "hex"
  OBVIOUS
<1> HIDE DEF t
<1>3. ASSUME NEW k \in cursor + 1 .. cursor + b PROVE line[k].kind = "hex"
  <2> DEFINE j == k - cursor
  <2>1. j \in 1 .. b /\ cursor + j = k
    BY <1>1
  <2> HIDE DEF j
  <2> QED
    BY <1>1, <1>2, <2>1
<1>4. Readable(b, {"hex"}) /\ Readable(b, {"hex", "chr"})
  BY <1>1, <1>3 DEF Readable
<1>5. Read(b) = t
  <2> DEFINE c == cursor + 1   d == cursor + b   size == Len(line)
  <2>1. /\ cursor \in Nat /\ size \in Nat /\ d <= size
    BY <1>1
  <2>2. c \in Nat \ {0} /\ d \in Nat /\ c <= d + 1
    BY <2>1
  <2>3. d - c + 1 = b
    BY <2>1
  <2>4. \A j \in 1 .. b : c + j - 1 = cursor + j
    BY <2>1
  <2>5. Read(b) = SubSeq(line, c, d)
    BY DEF Read
  <2> HIDE DEF c, d
  <2>6. d <= Len(line)
    BY <2>1
  <2>7. /\ Read(b) \in Seq(Chars) /\ Len(Read(b)) = b
        /\ \A j \in 1 .. b : Read(b)[j] = line[c + j - 1]
    <3>1. /\ SubSeq(line, c, d) \in Seq(Chars) /\ Len(SubSeq(line, c, d)) = d - c + 1
          /\ \A i \in 1 .. d - c + 1 : SubSeq(line, c, d)[i] = line[c + i - 1]
      BY <2>2, <2>6, Piece
    <3> QED
      BY <2>3, <2>5, <3>1
  <2>8. \A j \in 1 .. b : Read(b)[j] = t[j]
    <3> SUFFICES ASSUME NEW j \in 1 .. b PROVE Read(b)[j] = t[j]
      OBVIOUS
    <3>1. Read(b)[j] = line[c + j - 1] /\ c + j - 1 = cursor + j
      BY <2>4, <2>7
    <3>2. line[cursor + j] = t[j]
      BY <1>1
    <3> QED
      BY <3>1, <3>2
  <2> QED
    BY <1>1, <1>2, <2>7, <2>8, SeqEqual
<1> QED
  BY <1>1, <1>4, <1>5 DEF CanRead, MayThrow, t

(* A line is fetched.                                                      *)
LEMMA LineFetched ==
  ASSUME Undisturbed, TypeInv, CallInv, NEW at \in Layouts, Laid(at), DecodeInv(at), GetLine
  PROVE  DecodeInv(at)'
<1>1. /\ dpc = "line" /\ rest # <<>> /\ dpc' = "index" /\ cursor' = 0
      /\ line' = SubSeq(rest, 1, FirstLine - 1)
      /\ rest' = SubSeq(rest, FirstLine + 1, Len(rest))
      /\ UNCHANGED <<logged, me, lpc, wire, decoded>>
  BY DEF GetLine, device
<1>2. /\ lpc = "idle" /\ Len(decoded) \in Nat /\ Len(decoded) <= me
      /\ Part(rest, wire, at[Len(decoded) + 1][0], Len(wire) + 1)
  BY <1>1, LenProperties DEF DecodeInv
<1>3. /\ me \in Nat /\ wire \in Seq(Chars) /\ Len(wire) \in Nat
      /\ rest \in Seq(Chars) /\ Len(rest) \in Nat
  BY Lengths, WireType, LenProperties DEF TypeInv, DecoderTypes, CallInv
<1>4. PICK n \in Nat : n = Len(decoded) + 1
  BY <1>2
<1>5. n \in 1 .. me
  <2>1. SUFFICES ASSUME n = me + 1 PROVE FALSE
    BY <1>2, <1>3, <1>4
  <2>2. at[n][0] = Len(wire) + 1
    BY <1>2, <2>1 DEF Laid
  <2>3. Len(rest) = Len(wire) + 1 - (Len(wire) + 1)
    BY <1>2, <1>4, <2>2 DEF Part
  <2>4. Len(rest) = 0
    BY <1>3, <2>3
  <2> QED
    BY <1>1, <1>3, <2>4
<1> DEFINE first == at[n][0]   end == at[n][Length(n) + 1]   next == at[n + 1][0]
           size == Len(wire)   lim == Len(rest)   stop == end - first + 1
<1>6. /\ first \in Nat /\ end \in Nat /\ 1 <= first /\ first <= end /\ end <= size
      /\ wire[end].kind = "eol" /\ next = end + 1
      /\ \A k \in first .. end - 1 : wire[k].kind # "eol"
  BY <1>2, <1>5, Lying, LineOf DEF TypeInv
<1>7. Part(rest, wire, first, size + 1)
  BY <1>2, <1>4
<1>8. lim = (size + 1) - first /\ \A k \in 1 .. (size + 1) - first : rest[k] = wire[first + k - 1]
  <2> HIDE DEF first, size
  <2> QED
    BY <1>7, Zenon DEF Part, lim
<1>9. size \in Nat /\ lim \in Nat
  BY <1>3
<1> HIDE DEF first, end, next, size, lim, stop
<1>10. stop \in 1 .. lim /\ stop \in 1 .. (size + 1) - first /\ first + stop - 1 = end /\ stop \in Nat
  BY <1>6, <1>8, <1>9 DEF stop
<1>11. FirstLine = stop
  <2> DEFINE ends == {k \in DOMAIN rest : rest[k].kind = "eol"}
  <2>1. DOMAIN rest = 1 .. lim
    BY <1>3, LenProperties DEF lim
  <2>2. stop \in ends
    <3>1. rest[stop] = wire[end]
      BY <1>8, <1>10
    <3> QED
      BY <1>6, <1>10, <2>1, <3>1
  <2>3. ASSUME NEW k \in ends, k < stop PROVE FALSE
    <3>1. k \in 1 .. lim /\ rest[k].kind = "eol"
      BY <2>1
    <3> DEFINE i == first + k - 1
    <3>2. i \in first .. end - 1 /\ k \in 1 .. (size + 1) - first
      BY <1>6, <1>8, <1>9, <1>10, <2>3, <3>1 DEF stop
    <3> HIDE DEF i
    <3>3. wire[i].kind # "eol"
      BY <1>6, <3>2
    <3>4. rest[k] = wire[i]
      BY <1>8, <3>2 DEF i
    <3> QED
      BY <3>1, <3>3, <3>4
  <2>4. ends \in SUBSET Nat /\ ends # {}
    BY <1>9, <2>1, <2>2
  <2>5. FirstLine = CHOOSE k \in ends : \A j \in ends : k <= j
    BY <2>2 DEF FirstLine
  <2> HIDE DEF ends
  <2>6. FirstLine \in ends /\ \A j \in ends : FirstLine <= j
    BY <2>4, <2>5, LeastChosen
  <2>7. FirstLine <= stop /\ ~(FirstLine < stop) /\ FirstLine \in Nat
    BY <2>2, <2>3, <2>4, <2>6
  <2> QED
    BY <1>10, <2>7
<1>12. Part(line', wire, first, end)
  <2>1. 1 \in Nat \ {0} /\ stop - 1 \in Nat /\ 1 <= stop - 1 + 1 /\ stop - 1 <= Len(rest)
    BY <1>10 DEF lim
  <2>2. first \in Nat /\ size + 1 \in Nat
    BY <1>6, <1>9
  <2>3. Part(SubSeq(rest, 1, stop - 1), wire, first + 1 - 1, first + (stop - 1))
    BY <1>3, <1>7, <2>1, <2>2, PartOfPart
  <2>4. first + 1 - 1 = first /\ first + (stop - 1) = end
    BY <1>6, <1>10
  <2> QED
    BY <1>1, <1>11, <2>3, <2>4
<1>13. Part(rest', wire, next, size + 1)
  <2>1. stop + 1 \in Nat \ {0} /\ stop + 1 <= Len(rest) + 1 /\ Len(rest) <= Len(rest)
    BY <1>9, <1>10 DEF lim
  <2>2. first \in Nat /\ size + 1 \in Nat
    BY <1>6, <1>9
  <2>3. Part(SubSeq(rest, stop + 1, Len(rest)), wire, first + (stop + 1) - 1, first + Len(rest))
    BY <1>3, <1>7, <2>1, <2>2, PartOfPart
  <2>4. first + (stop + 1) - 1 = next /\ first + lim = size + 1
    BY <1>6, <1>8, <1>9, <1>10
  <2> QED
    BY <1>1, <1>11, <2>3, <2>4 DEF lim
<1>14. /\ n <= me' /\ Part(line', wire', at[n][0], at[n][Length(n)' + 1])
       /\ Part(rest', wire', at[n + 1][0], Len(wire') + 1)
  <2>1. Length(n)' = Length(n)
    BY <1>1 DEF Length
  <2> QED
    BY <1>1, <1>5, <1>12, <1>13, <2>1 DEF first, end, next, size
<1>15. n = Len(decoded') + 1
  BY <1>1, <1>4
<1>16. \A k : Values(k)' = Values(k)
  BY <1>1 DEF Values, IdText, HexText, StringText, Char
<1> QED
  BY <1>1, <1>2, <1>14, <1>15, <1>16 DEF DecodeInv

(* The id finds the row of its message.                                    *)
LEMMA IdFound ==
  ASSUME TypeInv, Rows < 254, NEW at, NEW n, Reading(at, n), dpc = "index"
  PROVE  /\ CanRead(IndexChars) /\ ~MayThrow(IndexChars)
         /\ Read(IndexChars) = IdText(n) /\ Heard = {n}
         /\ IndexChars = 2 /\ at[n][1] - at[n][0] = 2
<1>1. /\ n \in DOMAIN logged /\ Length(n) \in Nat /\ Lies(at, n)
      /\ Part(line, wire, at[n][0], at[n][Length(n) + 1]) /\ line \in Seq(Chars)
      /\ \A a \in 0 .. Length(n) + 1 : at[n][a] \in Nat
  BY ReadingTypes DEF Reading
<1>2. DecoderIdBytes(Rows) = 1 /\ HeaderIdBytes(Rows) = 1 /\ Rows \in Nat
  BY Bounds DEF DecoderIdBytes, HeaderIdBytes, MaxMessageIndex
<1>3. IndexChars = 2
  BY <1>2 DEF IndexChars
<1>4. /\ \A m : IdText(m) = HexText(m, 0, 1)
      /\ Block(n, 0) = IdText(n)
  BY <1>2 DEF IdText, Block
<1>5. ASSUME NEW m \in DOMAIN logged
      PROVE  Len(IdText(m)) = 2 /\ \A k \in 1 .. 2 : IdText(m)[k] = Char("hex", m, 0, k)
  <2>1. /\ Len(HexText(m, 0, 1)) = 2 * 1
        /\ \A k \in 1 .. 2 * 1 : HexText(m, 0, 1)[k] = Char("hex", m, 0, k)
    BY HexTextType
  <2>2. 2 * 1 = 2
    OBVIOUS
  <2> QED
    BY <1>4, <2>1, <2>2
<1>6. 0 \in 0 .. Length(n) /\ 0 \in 0 .. Length(n) + 1
  BY <1>1
<1>7. cursor = 0 /\ at[n][0] \in Nat /\ at[n][1] \in Nat
  <2>1. cursor = 0
    BY DEF Reading
  <2>2. 1 \in 0 .. Length(n) + 1
    BY <1>1
  <2> QED
    BY <1>1, <1>6, <2>1, <2>2
<1>8. cursor = at[n][0] - at[n][0]
  BY <1>7
<1>9. 2 = Len(Block(n, 0)) /\ \A j \in 1 .. 2 : Block(n, 0)[j].kind = "hex"
  <2>1. \A k : Char("hex", n, 0, k).kind = "hex"
    BY DEF Char
  <2> QED
    BY <1>1, <1>4, <1>5, <2>1
<1>10. /\ CanRead(2) /\ ~MayThrow(2) /\ Read(2) = Block(n, 0)
       /\ cursor + 2 = at[n][0 + 1] - at[n][0]
  <2>1. DeviceTypes /\ 2 \in Nat
    BY DEF TypeInv
  <2> QED
    BY <1>1, <1>6, <1>8, <1>9, <2>1, DigitsRead
<1>11. Heard = {n}
  <2>1. ASSUME NEW m \in DOMAIN logged, IdText(m) = IdText(n) PROVE m = n
    <3>1. Char("hex", m, 0, 1) = Char("hex", n, 0, 1)
      BY <1>1, <1>5, <2>1
    <3>2. Char("hex", m, 0, 1).log = m /\ Char("hex", n, 0, 1).log = n
      BY DEF Char
    <3> QED
      BY <3>1, <3>2
  <2>2. Heard = {m \in DOMAIN logged : IdText(n) = IdText(m)}
    BY <1>3, <1>4, <1>10 DEF Heard
  <2> QED
    BY <1>1, <2>1, <2>2
<1>12. at[n][1] - at[n][0] = 2
  BY <1>7, <1>10
<1> QED
  BY <1>3, <1>4, <1>10, <1>11, <1>12

LEMMA ReadingIndexed ==
  ASSUME TypeInv, Rows < 254, NEW at, NEW n, Reading(at, n), ReadIndex
  PROVE  Reading(at, n)'
<1>1. /\ dpc = "index" /\ dpc' = "chunks" /\ cursor' = cursor + 2
      /\ shown' = <<Read(IndexChars)>>
      /\ \E message \in IndexRows : row' = Descriptor(message)
      /\ UNCHANGED <<logged, me, lpc, wire, rest, line, decoded>>
  BY DEF ReadIndex, device
<1>2. /\ Read(IndexChars) = IdText(n) /\ Heard = {n} /\ at[n][1] - at[n][0] = 2
      /\ n \in DOMAIN logged /\ Length(n) \in Nat /\ cursor = 0
  BY <1>1, IdFound, ReadingTypes DEF Reading
<1>3. row' = Descriptor(logged[n].message)
  BY <1>1, <1>2 DEF IndexRows
<1>4. Len(shown') = 1 /\ shown'[1] = Values(n)[1]
  BY <1>1, <1>2, ValuesType DEF TypeInv, Reading, Lies
<1>5. Values(n)' = Values(n) /\ Length(n)' = Length(n)
  BY <1>1 DEF Values, IdText, HexText, StringText, Char, Length
<1>6. ShowInv(at, n)'
  <2>1. cursor' = at[n][Len(shown')] - at[n][0]
    BY <1>1, <1>2, <1>4
  <2>2. Len(shown') \in 1 .. Length(n)' + 1
    BY <1>2, <1>4, <1>5
  <2>3. \A k \in 1 .. Len(shown') : shown'[k] = Values(n)'[k]
    BY <1>4, <1>5
  <2> QED
    BY <1>1, <1>3, <2>1, <2>2, <2>3 DEF ShowInv
<1>7. Lies(at, n)'
  BY <1>1, LiesSame DEF Reading
<1> QED
  BY <1>1, <1>5, <1>6, <1>7 DEF Reading

LEMMA IdRead ==
  ASSUME Undisturbed, TypeInv, CallInv, NEW at \in Layouts, Laid(at), DecodeInv(at), ReadIndex
  PROVE  DecodeInv(at)'
<1>1. PICK n : n = Len(decoded) + 1
  OBVIOUS
<1>2. /\ dpc = "index" /\ dpc' = "chunks"
      /\ UNCHANGED <<logged, me, lpc, wire, rest, line, decoded>>
  BY DEF ReadIndex, device
<1>3. Reading(at, n) /\ n \in 1 .. me
  BY <1>1, <1>2, LineRead
<1>4. Reading(at, n)'
  BY <1>3, ReadingIndexed DEF Undisturbed
<1> QED
  BY <1>1, <1>2, <1>3, <1>4, ReadingKept

(* The argument that is read next.                                         *)
LEMMA NextArgument ==
  ASSUME TypeInv, NEW at, NEW n, Reading(at, n), dpc = "chunks"
  PROVE  /\ n \in DOMAIN logged /\ Length(n) \in Nat
         /\ Len(row) = Length(n) /\ Len(shown) \in 1 .. Length(n) + 1
         /\ \A k \in 1 .. Len(shown) : shown[k] = Values(n)[k]
         /\ cursor = at[n][Len(shown)] - at[n][0]
         /\ Len(shown) \in 1 .. Length(n) =>
              LET p == logged[n].message[Len(shown)]
              IN  /\ p \in Placeholders /\ Supported(p) /\ Encodable(p)
                  /\ Chunk = GetByteSize(p)
                  /\ Block(n, Len(shown)) =
                       IF p.base = "s"
                       THEN Append(StringText(n, Len(shown), logged[n].string), Nul(n))
                       ELSE HexText(n, Len(shown), GetByteSize(p).bytes)
                  /\ Values(n)[Len(shown) + 1] =
                       IF p.base = "s" THEN StringText(n, Len(shown), logged[n].string)
                       ELSE HexText(n, Len(shown), GetByteSize(p).bytes)
<1>1. n \in DOMAIN logged /\ Length(n) \in Nat /\ Proper(n)
  BY ReadingTypes DEF Reading, Lies
<1>2. /\ row = Descriptor(logged[n].message) /\ Len(shown) \in 1 .. Length(n) + 1
      /\ \A k \in 1 .. Len(shown) : shown[k] = Values(n)[k]
      /\ cursor = at[n][Len(shown)] - at[n][0]
  BY DEF Reading, ShowInv
<1>3. logged[n].message \in Messages
  BY <1>1, Lengths DEF TypeInv
<1>4. /\ Len(row) = Length(n)
      /\ \A k \in 1 .. Length(n) : row[k] = GetByteSize(logged[n].message[k])
  BY <1>1, <1>2, <1>3, SupportedRow DEF Length, Proper
<1>5. ASSUME NEW a \in 1 .. Length(n)
      PROVE  /\ logged[n].message[a] \in Placeholders /\ Supported(logged[n].message[a])
             /\ Encodable(logged[n].message[a]) /\ a # 0
  BY <1>1, ProperArgument DEF TypeInv
<1> DEFINE a == Len(shown)   p == logged[n].message[a]
<1>6. ASSUME a \in 1 .. Length(n)
      PROVE  /\ p \in Placeholders /\ Supported(p) /\ Encodable(p) /\ Chunk = GetByteSize(p)
             /\ Block(n, a) = IF p.base = "s" THEN Append(StringText(n, a, logged[n].string), Nul(n))
                              ELSE HexText(n, a, GetByteSize(p).bytes)
             /\ Values(n)[a + 1] = IF p.base = "s" THEN StringText(n, a, logged[n].string)
                                   ELSE HexText(n, a, GetByteSize(p).bytes)
  <2>1. p \in Placeholders /\ Supported(p) /\ Encodable(p) /\ a # 0
    BY <1>5, <1>6
  <2>2. Chunk = GetByteSize(p)
    BY <1>4, <1>6 DEF Chunk
  <2>3. Block(n, a) = IF p.base = "s" THEN Append(StringText(n, a, logged[n].string), Nul(n))
                      ELSE HexText(n, a, GetByteSize(p).bytes)
    BY <2>1 DEF Block
  <2>4. Values(n)[a + 1] = IF p.base = "s" THEN StringText(n, a, logged[n].string)
                           ELSE HexText(n, a, GetByteSize(p).bytes)
    BY <1>1, <1>6, ValuesType DEF TypeInv
  <2> QED
    BY <2>1, <2>2, <2>3, <2>4
<1> QED
  BY <1>1, <1>2, <1>4, <1>6

LEMMA ReadingShown ==
  ASSUME TypeInv, NEW at, NEW n, Reading(at, n), dpc = "chunks", Len(shown) \in 1 .. Length(n),
         NEW value, NEW k, Show(value, k), value = Values(n)[Len(shown) + 1],
         cursor + k = at[n][Len(shown) + 1] - at[n][0]
  PROVE  Reading(at, n)'
<1>1. /\ shown' = Append(shown, value) /\ cursor' = cursor + k
      /\ UNCHANGED <<logged, me, lpc, wire, dpc, rest, line, row, decoded>>
  BY DEF Show, device
<1>2. /\ n \in DOMAIN logged /\ Length(n) \in Nat /\ row = Descriptor(logged[n].message)
      /\ \A i \in 1 .. Len(shown) : shown[i] = Values(n)[i]
  BY ReadingTypes DEF Reading, ShowInv
<1>3. value \in Seq(Chars)
  <2>1. Len(shown) + 1 \in 1 .. Length(n) + 1
    BY <1>2
  <2>2. Values(n) \in Seq(Seq(Chars)) /\ Len(Values(n)) = Length(n) + 1
    BY <1>2, ValuesType DEF TypeInv, Reading, Lies
  <2> QED
    BY <2>1, <2>2, ElementOfSeq
<1>4. /\ Len(shown') = Len(shown) + 1 /\ shown'[Len(shown) + 1] = value
      /\ \A i \in 1 .. Len(shown) : shown'[i] = shown[i]
  BY <1>1, <1>3, AppendProperties DEF TypeInv, DecoderTypes
<1>5. Values(n)' = Values(n) /\ Length(n)' = Length(n)
  BY <1>1 DEF Values, IdText, HexText, StringText, Char, Length
<1>6. ShowInv(at, n)'
  <2>1. Len(shown') \in 1 .. Length(n) + 1
    BY <1>2, <1>4
  <2>2. \A i \in 1 .. Len(shown') : shown'[i] = Values(n)[i]
    <3>1. \A i \in 1 .. Len(shown') : i \in 1 .. Len(shown) \/ i = Len(shown) + 1
      BY <1>4
    <3> QED
      BY <1>2, <1>4, <3>1
  <2>3. cursor' = at[n][Len(shown')] - at[n][0]
    BY <1>1, <1>4
  <2> QED
    BY <1>1, <1>2, <1>5, <2>1, <2>2, <2>3 DEF ShowInv
<1>7. Lies(at, n)'
  BY <1>1, LiesSame DEF Reading
<1> QED
  BY <1>1, <1>5, <1>6, <1>7 DEF Reading

(* A number: its digits are there.                                         *)
LEMMA NumberFound ==
  ASSUME TypeInv, NEW at, NEW n, Reading(at, n), NextChunk, Chunk.type # "s"
  PROVE  /\ dpc = "chunks" /\ Len(shown) \in 1 .. Length(n)
         /\ Fits(Chunk) /\ ~MayThrow(2 * Chunk.bytes)
         /\ Read(2 * Chunk.bytes) = Values(n)[Len(shown) + 1]
         /\ cursor + 2 * Chunk.bytes = at[n][Len(shown) + 1] - at[n][0]
<1>1. dpc = "chunks" /\ Len(shown) <= Len(row)
  BY DEF NextChunk
<1>2. PICK a : a = Len(shown)
  OBVIOUS
<1>3. /\ n \in DOMAIN logged /\ n \in Nat /\ Length(n) \in Nat
      /\ Len(row) = Length(n) /\ a \in 1 .. Length(n) + 1
      /\ cursor = at[n][a] - at[n][0]
  BY <1>1, <1>2, NextArgument, Lengths DEF TypeInv
<1>4. a \in 1 .. Length(n)
  BY <1>1, <1>2, <1>3
<1>5. PICK p : p = logged[n].message[a]
  OBVIOUS
<1>6. /\ p \in Placeholders /\ Supported(p) /\ Encodable(p) /\ Chunk = GetByteSize(p)
      /\ Block(n, a) = IF p.base = "s" THEN Append(StringText(n, a, logged[n].string), Nul(n))
                       ELSE HexText(n, a, GetByteSize(p).bytes)
      /\ Values(n)[a + 1] = IF p.base = "s" THEN StringText(n, a, logged[n].string)
                            ELSE HexText(n, a, GetByteSize(p).bytes)
  BY <1>1, <1>2, <1>4, <1>5, NextArgument
<1>7. p.base # "s"
  <2>1. Arg(StringCode, "s").type = "s"
    BY DEF Arg
  <2> QED
    BY <1>6, <2>1, SupportedString
<1>8. PICK b \in Nat : b = GetByteSize(p).bytes
  BY <1>6, ArgTypes
<1>9. Fits(Chunk) /\ Chunk.bytes = b /\ Block(n, a) = HexText(n, a, b) /\ Values(n)[a + 1] = HexText(n, a, b)
  BY <1>6, <1>7, <1>8, SupportedNumber
<1>10. /\ Len(HexText(n, a, b)) = 2 * b
       /\ \A j \in 1 .. 2 * b : HexText(n, a, b)[j].kind = "hex"
  <2>1. a \in Nat /\ n \in Nat
    BY <1>3, <1>4
  <2>2. \A j : Char("hex", n, a, j).kind = "hex"
    BY DEF Char
  <2>3. /\ Len(HexText(n, a, b)) = 2 * b
        /\ \A j \in 1 .. 2 * b : HexText(n, a, b)[j] = Char("hex", n, a, j)
    BY <2>1, HexTextType
  <2> QED
    BY <2>2, <2>3
<1>11. PICK d \in Nat : d = 2 * b
  BY <1>8
<1>12. /\ CanRead(d) /\ ~MayThrow(d) /\ Read(d) = Block(n, a)
       /\ cursor + d = at[n][a + 1] - at[n][0]
  <2>1. /\ Part(line, wire, at[n][0], at[n][Length(n) + 1]) /\ line \in Seq(Chars) /\ DeviceTypes
        /\ Lies(at, n)
    BY ReadingTypes DEF Reading
  <2>2. d = Len(Block(n, a)) /\ \A j \in 1 .. d : Block(n, a)[j].kind = "hex"
    BY <1>4, <1>9, <1>10, <1>11
  <2>3. a \in 0 .. Length(n)
    BY <1>3, <1>4
  <2>4. cursor = at[n][a] - at[n][0]
    BY <1>3
  <2> QED
    BY <2>1, <2>2, <2>3, <2>4, DigitsRead
<1> QED
  BY <1>1, <1>2, <1>4, <1>9, <1>11, <1>12

(* A string: its NUL is there, and the first one behind the cursor.        *)
LEMMA StringFound ==
  ASSUME TypeInv, NEW at, NEW n, Reading(at, n), NextChunk, Chunk.type = "s"
  PROVE  /\ dpc = "chunks" /\ Len(shown) \in 1 .. Length(n) /\ StringEnds # {}
         /\ LET e == CHOOSE k \in StringEnds : \A j \in StringEnds : k <= j
            IN  /\ SubSeq(line, cursor + 1, e - 1) = Values(n)[Len(shown) + 1]
                /\ cursor + (e - cursor) = at[n][Len(shown) + 1] - at[n][0]
<1>1. dpc = "chunks" /\ Len(shown) <= Len(row)
  BY DEF NextChunk
<1>2. PICK a : a = Len(shown)
  OBVIOUS
<1>3. /\ n \in DOMAIN logged /\ n \in Nat /\ Length(n) \in Nat
      /\ Len(row) = Length(n) /\ a \in 1 .. Length(n) + 1
      /\ cursor = at[n][a] - at[n][0]
  BY <1>1, <1>2, NextArgument, Lengths DEF TypeInv
<1>4. a \in 1 .. Length(n)
  BY <1>1, <1>2, <1>3
<1>5. PICK p : p = logged[n].message[a]
  OBVIOUS
<1>6. /\ p \in Placeholders /\ Supported(p) /\ Encodable(p) /\ Chunk = GetByteSize(p)
      /\ Block(n, a) = IF p.base = "s" THEN Append(StringText(n, a, logged[n].string), Nul(n))
                       ELSE HexText(n, a, GetByteSize(p).bytes)
      /\ Values(n)[a + 1] = IF p.base = "s" THEN StringText(n, a, logged[n].string)
                            ELSE HexText(n, a, GetByteSize(p).bytes)
  BY <1>1, <1>2, <1>4, <1>5, NextArgument
<1>7. p.base = "s"
  BY <1>6, SupportedNumber
<1>8. PICK content, str : content = logged[n].string /\ str = StringText(n, a, content)
  OBVIOUS
<1>9. Block(n, a) = Append(str, Nul(n)) /\ Values(n)[a + 1] = str
  BY <1>6, <1>7, <1>8
<1>10. content \in Seq({"chr", "eol"}) /\ \A j \in 1 .. Len(content) : content[j] = "chr"
  <2>1. DeviceTypes /\ Proper(n)
    BY DEF TypeInv, Reading, Lies
  <2> QED
    BY <1>3, <1>4, <1>5, <1>7, <1>8, <2>1, ProperArgument
<1>11. a \in Nat /\ n \in Nat
  BY <1>3, <1>4
<1>12. /\ str \in Seq(Chars) /\ Len(str) = Len(content) /\ Len(str) \in Nat
       /\ \A j \in 1 .. Len(str) : str[j] = Char(content[j], n, a, j)
  <2>1. /\ str \in Seq(Chars) /\ Len(str) = Len(content)
        /\ \A j \in 1 .. Len(content) : str[j] = Char(content[j], n, a, j)
    <3>1. /\ StringText(n, a, content) \in Seq(CharsOf(Nat))
          /\ Len(StringText(n, a, content)) = Len(content)
          /\ \A j \in 1 .. Len(content) :
               StringText(n, a, content)[j] = Char(content[j], n, a, j)
      BY <1>10, <1>11, StringTextType
    <3> QED
      BY <1>8, <3>1 DEF Chars
  <2> QED
    BY <2>1, LenProperties
<1>13. \A j \in 1 .. Len(str) : str[j].kind = "chr"
  <2>1. \A j \in 1 .. Len(str) : content[j] = "chr"
    BY <1>10, <1>12
  <2>2. \A j \in 1 .. Len(str) : Char(content[j], n, a, j).kind = "chr"
    BY <2>1 DEF Char
  <2> QED
    BY <1>12, <2>2
<1>14. PICK t : t = Block(n, a)
  OBVIOUS
<1>15. /\ Len(t) = Len(str) + 1 /\ t[Len(str) + 1].kind = "nul"
       /\ \A j \in 1 .. Len(str) : t[j] = str[j]
  <2>1. Nul(n) \in Chars /\ Nul(n).kind = "nul"
    BY <1>11 DEF Nul, Char, Chars, CharsOf, CharKinds
  <2> QED
    BY <1>9, <1>12, <1>14, <2>1, AppendProperties
<1>16. /\ cursor \in Nat /\ Len(line) \in Nat /\ cursor + Len(t) <= Len(line)
       /\ cursor + Len(t) = at[n][a + 1] - at[n][0]
       /\ \A j \in 1 .. Len(t) : line[cursor + j] = t[j]
       /\ line \in Seq(Chars)
  <2>1. /\ Part(line, wire, at[n][0], at[n][Length(n) + 1]) /\ line \in Seq(Chars) /\ DeviceTypes
        /\ a \in 0 .. Length(n) /\ Lies(at, n)
    BY <1>4, ReadingTypes DEF Reading
  <2> QED
    BY <1>3, <1>14, <2>1, BlockInLine
<1>17. PICK m \in Nat : m = Len(str)
  BY <1>12
<1>18. PICK e : e = cursor + m + 1
  OBVIOUS
<1>19. /\ e \in Nat /\ e \in cursor + 1 .. Len(line) /\ e - cursor \in Nat
       /\ cursor + (e - cursor) = at[n][a + 1] - at[n][0]
       /\ cursor + (m + 1) = e
  <2>1. cursor + (m + 1) = at[n][a + 1] - at[n][0] /\ cursor + (m + 1) <= Len(line)
    BY <1>15, <1>16, <1>17
  <2>2. /\ e \in Nat /\ e \in cursor + 1 .. Len(line) /\ e - cursor \in Nat
        /\ cursor + (e - cursor) = cursor + (m + 1) /\ cursor + (m + 1) = e
    BY <1>16, <1>17, <1>18, <2>1
  <2> QED
    BY <2>1, <2>2
<1>20. e \in StringEnds
  <2>1. line[e] = t[m + 1]
    BY <1>15, <1>16, <1>17, <1>19
  <2> QED
    BY <1>15, <1>17, <1>19, <2>1 DEF StringEnds
<1>21. ASSUME NEW k \in StringEnds, k < e PROVE FALSE
  <2>1. k \in cursor + 1 .. Len(line) /\ line[k].kind = "nul"
    BY DEF StringEnds
  <2>2. PICK j : j = k - cursor
    OBVIOUS
  <2>3. j \in 1 .. m /\ cursor + j = k
    BY SMTT(30), <1>16, <1>17, <1>18, <1>21, <2>1, <2>2
  <2>4. line[k] = t[j]
    BY <1>15, <1>16, <1>17, <2>3
  <2> QED
    BY <1>13, <1>15, <1>17, <2>1, <2>3, <2>4
<1>22. StringEnds \in SUBSET Nat /\ StringEnds # {}
  <2>1. cursor + 1 \in Nat
    BY <1>16
  <2>2. \A k \in cursor + 1 .. Len(line) : k \in Nat
    BY <1>16, <2>1
  <2> QED
    BY <1>20, <2>2 DEF StringEnds
<1>23. PICK c : c = CHOOSE k \in StringEnds : \A j \in StringEnds : k <= j
  OBVIOUS
<1>24. c = e
  <2>1. c \in StringEnds /\ \A j \in StringEnds : c <= j
    BY <1>22, <1>23, LeastChosen
  <2>2. c \in Nat /\ c <= e /\ ~(c < e)
    BY <1>20, <1>21, <1>22, <2>1
  <2> QED
    BY <1>19, <2>2
<1>25. SubSeq(line, cursor + 1, e - 1) = str
  <2>1. PICK c1, e1 : c1 = cursor + 1 /\ e1 = e - 1
    OBVIOUS
  <2>2. c1 \in Nat \ {0} /\ e1 \in Nat /\ c1 <= e1 + 1 /\ e1 <= Len(line) /\ e1 - c1 + 1 = m
    BY <1>16, <1>17, <1>18, <1>19, <2>1
  <2>3. \A j \in 1 .. m : c1 + j - 1 = cursor + j
    BY <1>16, <2>1
  <2>4. PICK s : s = SubSeq(line, c1, e1)
    OBVIOUS
  <2>5. s \in Seq(Chars) /\ Len(s) = e1 - c1 + 1 /\ \A j \in 1 .. e1 - c1 + 1 : s[j] = line[c1 + j - 1]
    BY <1>16, <2>2, <2>4, Piece
  <2>6. \A j \in 1 .. m : s[j] = str[j]
    <3> SUFFICES ASSUME NEW j \in 1 .. m PROVE s[j] = str[j]
      OBVIOUS
    <3>1. s[j] = line[cursor + j]
      BY <2>2, <2>3, <2>5
    <3>2. j \in 1 .. Len(t)
      BY <1>15, <1>17
    <3> QED
      BY <1>15, <1>16, <1>17, <3>1, <3>2
  <2>7. s = str
    BY <1>12, <1>17, <2>2, <2>5, <2>6, SeqEqual
  <2> QED
    BY <2>1, <2>4, <2>7
<1> QED
  BY <1>1, <1>2, <1>4, <1>9, <1>19, <1>22, <1>23, <1>24, <1>25

(* All of it has been shown.                                               *)
LEMMA AllShown ==
  ASSUME TypeInv, NEW at, NEW n, Reading(at, n), dpc = "chunks", Len(shown) > Len(row)
  PROVE  shown = Values(n)
<1>1. /\ n \in DOMAIN logged /\ Length(n) \in Nat
      /\ Len(row) = Length(n) /\ Len(shown) \in 1 .. Length(n) + 1
      /\ \A k \in 1 .. Len(shown) : shown[k] = Values(n)[k]
  BY NextArgument
<1>2. Len(shown) = Length(n) + 1
  BY <1>1
<1>3. Values(n) \in Seq(Seq(Chars)) /\ Len(Values(n)) = Length(n) + 1
  BY <1>1, ValuesType DEF TypeInv, Reading, Lies
<1>4. shown \in Seq(Seq(Chars))
  BY DEF TypeInv, DecoderTypes
<1> QED
  BY <1>1, <1>2, <1>3, <1>4, SeqEqual

(* A line is printed.                                                      *)
LEMMA LineShown ==
  ASSUME Undisturbed, TypeInv, CallInv, NEW at \in Layouts, Laid(at), DecodeInv(at), LinePrinted
  PROVE  /\ DecodeInv(at)'
         /\ Len(decoded) < me /\ decoded' = Append(decoded, Values(Len(decoded) + 1))
<1>1. PICK n : n = Len(decoded) + 1
  OBVIOUS
<1>2. /\ dpc = "chunks" /\ Len(shown) > Len(row) /\ decoded' = Append(decoded, shown)
      /\ dpc' = "line" /\ UNCHANGED <<logged, me, lpc, wire, rest>>
  BY DEF LinePrinted, FinishLine, device
<1>3. n \in 1 .. me /\ lpc = "idle" /\ Reading(at, n)
  BY <1>1, <1>2, LineRead
<1>4. shown = Values(n)
  BY <1>2, <1>3, AllShown
<1>5. /\ decoded \in Seq(Seq(Seq(Chars))) /\ Len(decoded) \in Nat
      /\ \A k \in 1 .. Len(decoded) : decoded[k] = Values(k)
  BY LenProperties DEF DecodeInv
<1>6. /\ decoded' \in Seq(Seq(Seq(Chars))) /\ Len(decoded') = n
      /\ decoded'[n] = Values(n) /\ \A k \in 1 .. Len(decoded) : decoded'[k] = decoded[k]
  <2>1. shown \in Seq(Seq(Chars))
    BY DEF TypeInv, DecoderTypes
  <2> QED
    BY <1>1, <1>2, <1>4, <1>5, <2>1, AppendProperties
<1>7. \A k : Values(k)' = Values(k)
  BY <1>2 DEF Values, IdText, HexText, StringText, Char
<1>8. \A k \in 1 .. Len(decoded') : decoded'[k] = Values(k)'
  <2>1. \A k \in 1 .. Len(decoded') : k \in 1 .. Len(decoded) \/ k = n
    BY <1>1, <1>5, <1>6
  <2> QED
    BY <1>5, <1>6, <1>7, <2>1
<1>9. Part(rest', wire', at[Len(decoded') + 1][0], Len(wire') + 1)
  BY <1>1, <1>2, <1>6, LineRead
<1>10. Len(decoded') <= me' /\ lpc' = "idle"
  BY <1>2, <1>3, <1>6
<1>11. DecodeInv(at)'
  BY <1>2, <1>6, <1>8, <1>9, <1>10 DEF DecodeInv
<1>12. Len(decoded) < me
  <2>1. me \in Nat
    BY Lengths DEF TypeInv, CallInv
  <2> QED
    BY <1>1, <1>3, <1>5, <2>1
<1> QED
  BY <1>1, <1>2, <1>4, <1>11, <1>12

(* The end of the file is behind the last line.                            *)
LEMMA FileRead ==
  ASSUME Undisturbed, TypeInv, CallInv, NEW at \in Layouts, Laid(at), DecodeInv(at), EndOfFile
  PROVE  DecodeInv(at)'
<1>1. /\ dpc = "line" /\ rest = <<>> /\ dpc' = "done"
      /\ UNCHANGED <<logged, me, lpc, wire, decoded>>
  BY DEF EndOfFile, device
<1>2. /\ lpc = "idle" /\ Len(decoded) \in Nat /\ Len(decoded) <= me
      /\ Part(rest, wire, at[Len(decoded) + 1][0], Len(wire) + 1)
  BY <1>1, LenProperties DEF DecodeInv
<1>3. me \in Nat /\ Len(wire) \in Nat
  BY Lengths DEF TypeInv, CallInv
<1>4. PICK n \in Nat : n = Len(decoded) + 1
  BY <1>2
<1>5. Len(decoded) = me
  <2>1. SUFFICES ASSUME n \in 1 .. me PROVE FALSE
    BY <1>2, <1>3, <1>4
  <2>2. PICK first, end : first = at[n][0] /\ end = at[n][Length(n) + 1]
    OBVIOUS
  <2>3. first \in Nat /\ end \in Nat /\ first <= end /\ end <= Len(wire)
    BY <1>2, <2>1, <2>2, Lying, LineOf DEF TypeInv
  <2>4. Len(rest) = (Len(wire) + 1) - first /\ Len(rest) = 0
    BY <1>1, <1>2, <1>4, <2>2 DEF Part
  <2> QED
    BY <1>3, <2>3, <2>4
<1>6. \A k : Values(k)' = Values(k)
  BY <1>1 DEF Values, IdText, HexText, StringText, Char
<1> QED
  BY <1>1, <1>2, <1>5, <1>6 DEF DecodeInv

(* Each log is shown as it was made, behind those before it.               *)
LEMMA DecodeKept ==
  ASSUME Undisturbed, TypeInv, CallInv, NEW at \in Layouts, Laid(at), DecodeInv(at), DecodeStep
  PROVE  /\ DecodeInv(at)'
         /\ \/ decoded' = decoded
            \/ Len(decoded) < me /\ decoded' = Append(decoded, Values(Len(decoded) + 1))
<1>0. PICK n : n = Len(decoded) + 1
  OBVIOUS
<1>1. CASE GetLine
  BY <1>1, LineFetched DEF GetLine
<1>2. CASE EndOfFile
  BY <1>2, FileRead DEF EndOfFile
<1>3. CASE IndexTerminates
  <2>1. dpc = "index"
    BY <1>3 DEF IndexTerminates
  <2>2. CanRead(IndexChars) /\ ~MayThrow(IndexChars) /\ Heard = {n}
    BY <1>0, <2>1, IdFound, LineRead DEF Undisturbed
  <2> QED
    BY <1>3, <2>2 DEF IndexTerminates
<1>4. CASE ReadIndex
  BY <1>4, IdRead DEF ReadIndex
<1>5. CASE ReadString
  <2>1. NextChunk /\ Chunk.type = "s"
    BY <1>5 DEF ReadString
  <2>0. Reading(at, n)
    BY <1>0, <2>1, LineRead DEF NextChunk
  <2>2. PICK e : e = CHOOSE k \in StringEnds : \A j \in StringEnds : k <= j
    OBVIOUS
  <2>3. Show(SubSeq(line, cursor + 1, e - 1), e - cursor)
    BY <1>5, <2>2 DEF ReadString
  <2>4. /\ dpc = "chunks" /\ Len(shown) \in 1 .. Length(n)
        /\ SubSeq(line, cursor + 1, e - 1) = Values(n)[Len(shown) + 1]
        /\ cursor + (e - cursor) = at[n][Len(shown) + 1] - at[n][0]
    BY <1>0, <2>0, <2>1, <2>2, StringFound
  <2>5. DecodeInv(at)'
    <3>1. Reading(at, n)'
      BY <2>0, <2>3, <2>4, ReadingShown
    <3> QED
      BY <1>0, <2>3, <2>4, <3>1, ReadingKept DEF Show, device
  <2> QED
    BY <2>3, <2>5 DEF Show
<1>6. CASE ReadNumber
  <2>1. NextChunk /\ Chunk.type # "s"
    BY <1>6 DEF ReadNumber
  <2>0. Reading(at, n)
    BY <1>0, <2>1, LineRead DEF NextChunk
  <2>2. Show(Read(2 * Chunk.bytes), 2 * Chunk.bytes)
    BY <1>6 DEF ReadNumber
  <2>3. /\ dpc = "chunks" /\ Len(shown) \in 1 .. Length(n)
        /\ Read(2 * Chunk.bytes) = Values(n)[Len(shown) + 1]
        /\ cursor + 2 * Chunk.bytes = at[n][Len(shown) + 1] - at[n][0]
    BY <1>0, <2>0, <2>1, NumberFound
  <2>4. DecodeInv(at)'
    <3>1. Reading(at, n)'
      BY <2>0, <2>2, <2>3, ReadingShown
    <3> QED
      BY <1>0, <2>2, <2>3, <3>1, ReadingKept DEF Show, device
  <2> QED
    BY <2>2, <2>4 DEF Show
<1>7. CASE NumberTerminates
  <2>1. NextChunk /\ Chunk.type # "s" /\ (Fits(Chunk) => MayThrow(2 * Chunk.bytes))
    BY <1>7 DEF NumberTerminates
  <2> QED
    BY <1>0, <2>1, NumberFound, LineRead DEF NextChunk
<1>8. CASE StringBreaks
  <2>1. NextChunk /\ Chunk.type = "s" /\ StringEnds = {}
    BY <1>8 DEF StringBreaks
  <2> QED
    BY <1>0, <2>1, StringFound, LineRead DEF NextChunk
<1>9. CASE LinePrinted
  BY <1>9, LineShown
<1> QED
  BY <1>1, <1>2, <1>3, <1>4, <1>5, <1>6, <1>7, <1>8, <1>9 DEF DecodeStep

-----------------------------------------------------------------------------
(* Together.                                                               *)

DeliveryInv == TypeInv /\ CallInv /\ \E at \in Layouts : Laid(at) /\ DecodeInv(at)

(* What a step does to the logs made and to the logs shown.                *)
Delivers ==
  \/ UNCHANGED <<logged, decoded>>
  \/ \E message \in Messages : \E content \in Contents(message) :
       LogBegin(message, content)
  \/ /\ logged' = logged
     /\ Len(decoded) < me /\ decoded' = Append(decoded, Values(Len(decoded) + 1))

LEMMA LaidSame ==
  ASSUME NEW at, CallInv, Laid(at), UNCHANGED <<logged, me, lpc, tagIt, va, wire>>
  PROVE  CallInv' /\ Laid(at)'
<1>1. \A n : /\ Length(n)' = Length(n) /\ Text(n)' = Text(n)
             /\ Closed(n)' = Closed(n) /\ Reached(n)' = Reached(n)
  <2>1. \A n : Length(n)' = Length(n) /\ Text(n)' = Text(n)
    BY TextSame
  <2>2. \A n : Closed(n)' = Closed(n)
    BY DEF Closed
  <2> QED
    BY <2>1, <2>2 DEF Reached
<1>2. CallInv'
  BY <1>1 DEF CallInv
<1>3. ASSUME NEW n \in 1 .. me
      PROVE  Blocks(wire', at[n], Text(n)', Reached(n)') /\ (Closed(n)' => Ended(at, n)')
  <2>1. Blocks(wire, at[n], Text(n), Reached(n)) /\ (Closed(n) => Ended(at, n))
    BY DEF Laid
  <2>2. Ended(at, n) => Ended(at, n)'
    BY <1>1 DEF Ended, EndOfLine, Char
  <2> QED
    BY <1>1, <2>1, <2>2
<1>4. /\ at[1][0] = 1
      /\ lpc' = "idle" => at[me' + 1][0] = Len(wire') + 1
      /\ lpc' = "args" => at[me'][tagIt'] = Len(wire') + 1
  BY DEF Laid
<1> QED
  BY <1>2, <1>3, <1>4 DEF Laid

LEMMA DeliveryNext ==
  ASSUME Undisturbed, DeliveryInv, [Next]_vars
  PROVE  DeliveryInv' /\ Delivers
<1>1. TypeInv'
  BY TypeNext DEF DeliveryInv
<1>2. /\ TypeInv /\ CallInv /\ DeviceTypes /\ DeviceTypes'
  BY <1>1 DEF DeliveryInv, TypeInv
<1>3. PICK at \in Layouts : Laid(at) /\ DecodeInv(at)
  BY DEF DeliveryInv
<1>4. ASSUME NEW bt, me' = Len(logged'), DeviceTypes', dpc' = "off", decoded' = <<>>
      PROVE  DecodeInv(bt)'
  <2>1. Len(decoded') = 0 /\ decoded' \in Seq(Seq(Seq(Chars))) /\ 1 .. 0 = {}
    BY <1>4, EmptySeq
  <2>2. me' >= 0
    BY <1>4 DEF DeviceTypes
  <2> QED
    BY <1>4, <2>1, <2>2 DEF DecodeInv
<1>5. ASSUME NEW message \in Messages, NEW content \in Contents(message),
             LogBegin(message, content)
      PROVE  DeliveryInv' /\ Delivers
  <2>1. CallInv' /\ \E bt \in Layouts : Laid(bt)'
    BY <1>2, <1>3, <1>5, LaidBegin
  <2>2. dpc' = "off" /\ decoded' = <<>> /\ me' = Len(logged')
    BY <1>3, <1>5 DEF LogBegin, decoder, DecodeInv
  <2>3. PICK bt \in Layouts : Laid(bt)'
    BY <2>1
  <2>4. DecodeInv(bt)'
    BY <1>2, <1>4, <2>2
  <2> QED
    BY <1>1, <1>5, <2>1, <2>3, <2>4 DEF DeliveryInv, Delivers
<1>6. CASE \/ PrintStaticArgument \/ PrintDouble \/ PrintLongDouble
           \/ PrintStringArgument \/ SkipCode
  <2>1. /\ lpc = "args" /\ me \in DOMAIN logged /\ tagIt \in 1 .. Length(me)
        /\ Send(Block(me, tagIt))
    BY <1>2, <1>6, SendsBlock, UndisturbedProper, Lengths DEF CallInv
  <2>2. CallInv' /\ \E bt \in Layouts : Laid(bt)'
    BY <1>2, <1>3, <2>1, LaidSend
  <2>3. dpc' = "off" /\ decoded' = <<>> /\ UNCHANGED <<logged, me, decoded>>
    BY <1>3, <2>1 DEF Send, decoder, DecodeInv
  <2>4. me' = Len(logged')
    BY <1>2, <2>3 DEF CallInv
  <2>5. PICK bt \in Layouts : Laid(bt)'
    BY <2>2
  <2>6. DecodeInv(bt)'
    BY <1>2, <1>4, <2>3, <2>4
  <2> QED
    BY <1>1, <2>2, <2>3, <2>5, <2>6 DEF DeliveryInv, Delivers
<1>7. CASE LogEnd
  <2>1. CallInv' /\ \E bt \in Layouts : Laid(bt)'
    BY <1>2, <1>3, <1>7, LaidEnd
  <2>2. dpc' = "off" /\ decoded' = <<>> /\ UNCHANGED <<logged, me, decoded>>
    BY <1>3, <1>7 DEF LogEnd, decoder, DecodeInv
  <2>3. me' = Len(logged')
    BY <1>2, <2>2 DEF CallInv
  <2>4. PICK bt \in Layouts : Laid(bt)'
    BY <2>1
  <2>5. DecodeInv(bt)'
    BY <1>2, <1>4, <2>2, <2>3
  <2> QED
    BY <1>1, <2>1, <2>2, <2>4, <2>5 DEF DeliveryInv, Delivers
<1>8. CASE Disturbance
  BY <1>8 DEF Disturbance, Lose, Late, Reset, Interrupt, Disturb, Undisturbed
<1>9. CASE Collect
  <2>1. /\ dpc = "off" /\ lpc = "idle" /\ dpc' = "line" /\ rest' = wire
        /\ UNCHANGED <<logged, me, lpc, tagIt, va, wire, decoded>>
    BY <1>9 DEF Collect, device
  <2>2. CallInv' /\ Laid(at)'
    BY <1>2, <1>3, <2>1, LaidSame
  <2>3. decoded = <<>> /\ Len(decoded) = 0
    BY <1>3, <2>1 DEF DecodeInv
  <2>4. at[1][0] = 1 /\ Len(wire) \in Nat
    BY <1>2, <1>3, Lengths DEF Laid
  <2>5. Part(wire, wire, 1, Len(wire) + 1)
    <3>1. (Len(wire) + 1) - 1 = Len(wire) /\ 1 <= Len(wire) + 1
      BY <2>4
    <3>2. \A k \in 1 .. Len(wire) : 1 + k - 1 = k
      OBVIOUS
    <3> QED
      BY <3>1, <3>2 DEF Part
  <2>6. DecodeInv(at)'
    <3>1. Part(rest', wire', at[Len(decoded') + 1][0], Len(wire') + 1)
      BY <2>1, <2>3, <2>4, <2>5
    <3>2. /\ decoded' \in Seq(Seq(Seq(Chars))) /\ Len(decoded') <= me'
          /\ \A k \in 1 .. Len(decoded') : decoded'[k] = Values(k)'
      BY <1>3, <2>1, <2>3 DEF DecodeInv
    <3> QED
      BY <2>1, <3>1, <3>2 DEF DecodeInv
  <2> QED
    BY <1>1, <1>3, <2>1, <2>2, <2>6 DEF DeliveryInv, Delivers
<1>10. CASE DecodeStep
  <2>1. UNCHANGED <<logged, me, lpc, tagIt, va, wire>>
    BY <1>10 DEF DecodeStep, GetLine, EndOfFile, IndexTerminates, ReadIndex, ReadString,
         ReadNumber, NumberTerminates, StringBreaks, LinePrinted, Terminate, Show, FinishLine,
         device
  <2>2. CallInv' /\ Laid(at)'
    BY <1>2, <1>3, <2>1, LaidSame
  <2>3. /\ DecodeInv(at)'
        /\ \/ decoded' = decoded
           \/ Len(decoded) < me /\ decoded' = Append(decoded, Values(Len(decoded) + 1))
    BY <1>2, <1>3, <1>10, DecodeKept
  <2> QED
    BY <1>1, <1>3, <2>1, <2>2, <2>3 DEF DeliveryInv, Delivers
<1>11. CASE UNCHANGED vars
  <2>1. UNCHANGED <<logged, me, lpc, tagIt, va, wire>> /\ UNCHANGED decoder
    BY <1>11 DEF vars, device
  <2>2. CallInv' /\ Laid(at)'
    BY <1>2, <1>3, <2>1, LaidSame
  <2>3. \A k : Values(k)' = Values(k) /\ Length(k)' = Length(k)
    BY <2>1 DEF Values, IdText, HexText, StringText, Char, Length
  <2>4. \A n : ShowInv(at, n) => ShowInv(at, n)'
    BY <2>1, <2>3 DEF ShowInv, decoder
  <2>5. DecodeInv(at)'
    BY <1>3, <2>1, <2>3, <2>4 DEF DecodeInv, decoder
  <2> QED
    BY <1>1, <1>3, <2>1, <2>2, <2>5 DEF DeliveryInv, Delivers, decoder
<1> QED
  BY <1>5, <1>6, <1>7, <1>8, <1>9, <1>10, <1>11 DEF Next, Device

LEMMA DeliveryInit == Init => DeliveryInv
<1> SUFFICES ASSUME Init PROVE DeliveryInv
  OBVIOUS
<1>1. TypeInv
  BY TypeInit
<1>2. me = 0 /\ logged = <<>> /\ wire = <<>> /\ lpc = "idle" /\ dpc = "off" /\ decoded = <<>>
  BY DEF Init
<1>3. CallInv
  BY <1>2 DEF CallInv
<1>4. PICK at : at = [n \in Nat |-> [a \in Nat |-> 1]]
  OBVIOUS
<1>5. at \in Layouts /\ at[1][0] = 1
  BY <1>4 DEF Layouts
<1>6. Laid(at)
  <2>1. 1 .. 0 = {} /\ 0 + 1 = 1
    OBVIOUS
  <2> QED
    BY <1>2, <1>5, <2>1 DEF Laid
<1>7. DecodeInv(at)
  <2>1. decoded \in Seq(Seq(Seq(Chars))) /\ Len(decoded) = 0 /\ 1 .. 0 = {}
    BY <1>2, EmptySeq
  <2> QED
    BY <1>2, <2>1 DEF DecodeInv
<1> QED
  BY <1>1, <1>3, <1>5, <1>6, <1>7 DEF DeliveryInv

(* Logs of supported placeholders are all shown, each with the values it   *)
(* was made with and in the order they were made, and the decoder does not *)
(* terminate: for any type configuration, messages, strings without a line *)
(* end, and number of logs.  ArgEncoder, UnifyArgumentTags, LOG,           *)
(* DescriptorChunker and the argument printers agree on every byte.        *)
THEOREM LogsAreDelivered ==
  ASSUME Undisturbed
  PROVE  Spec => []LogsSurvive
<1>1. DeliveryInv /\ [Next]_vars => DeliveryInv'
  BY DeliveryNext
<1>2. DeliveryInv => LogsSurvive
  <2> SUFFICES ASSUME DeliveryInv, dpc \in {"done", "terminated"}
               PROVE  dpc = "done" /\ decoded = Sent
    BY DEF LogsSurvive
  <2>1. PICK at \in Layouts : DecodeInv(at)
    BY DEF DeliveryInv
  <2>2. /\ dpc = "done" /\ Len(decoded) = me /\ decoded \in Seq(Seq(Seq(Chars)))
        /\ \A k \in 1 .. me : decoded[k] = Values(k)
    BY <2>1 DEF DecodeInv
  <2>3. DOMAIN logged = 1 .. me
    BY Lengths DEF DeliveryInv, TypeInv, CallInv
  <2>4. decoded = [k \in 1 .. me |-> decoded[k]]
    BY <2>2, LenProperties
  <2>5. Sent = [k \in 1 .. me |-> Values(k)]
    BY <2>3 DEF Sent
  <2> QED
    BY <2>2, <2>4, <2>5
<1> QED
  BY <1>1, <1>2, DeliveryInit, PTL DEF Spec

(* And step by step: a call of LOG is the channel's Log, a printed line    *)
(* its Decode, and every other step of LOG, of the interface and of the    *)
(* decoder leaves the logs made and the logs shown as they are.            *)
THEOREM WireImplementsChannel ==
  ASSUME Undisturbed
  PROVE  Spec => ImplementsLogChannel
<1>1. Init => Channel!Init
  <2> SUFFICES ASSUME Init PROVE Sent = <<>> /\ decoded = <<>>
    BY DEF Channel!Init
  <2>1. logged = <<>> /\ decoded = <<>>
    BY DEF Init
  <2>2. DOMAIN logged = {}
    BY <2>1
  <2> QED
    BY <2>1, <2>2 DEF Sent
<1>2. ASSUME DeliveryInv, [Next]_vars
      PROVE  [Channel!Log \/ Channel!Decode]_(Channel!vars)
  <2>0. /\ me = Len(logged) /\ DeviceTypes /\ me \in Nat /\ DOMAIN logged = 1 .. me
    BY <1>2, Lengths DEF DeliveryInv, TypeInv, CallInv
  <2>1. Delivers
    BY <1>2, DeliveryNext
  <2>2. ASSUME logged' = logged PROVE Sent' = Sent
    <3>1. \A n : Values(n)' = Values(n)
      BY <2>2 DEF Values, IdText, HexText, StringText, Char
    <3> QED
      BY <2>2, <3>1 DEF Sent
  <2>3. CASE UNCHANGED <<logged, decoded>>
    BY <2>2, <2>3 DEF Channel!vars
  <2>4. ASSUME NEW message \in Messages, NEW content \in Contents(message),
               LogBegin(message, content)
        PROVE  Channel!Log
    <3>1. content \in Strings \cup {<<>>}
      BY DEF Contents
    <3>2. /\ logged' = Append(logged, [message |-> message, string |-> content])
          /\ Len(logged) < MaxLogs /\ decoded' = decoded
      BY <2>4 DEF LogBegin, decoder
    <3>3. /\ Len(logged') = me + 1 /\ DOMAIN logged' = 1 .. me + 1
          /\ \A n \in 1 .. me : logged'[n] = logged[n]
      <4>1. /\ logged' \in Seq(Logs) /\ Len(logged') = Len(logged) + 1
            /\ \A n \in DOMAIN logged : logged'[n] = logged[n]
        BY <2>0, <3>1, <3>2, MoreLogged
      <4> QED
        BY <2>0, <4>1, LenProperties
    <3>4. PICK last : last = Values(me + 1)'
      OBVIOUS
    <3>5. \A n \in 1 .. me : Values(n)' = Values(n)
      BY <3>3 DEF Values, IdText, HexText, StringText, Char
    <3>6. PICK k : k = me + 1
      OBVIOUS
    <3>7. Sent' = [n \in 1 .. k |-> Values(n)']
      BY <3>3, <3>6 DEF Sent
    <3>8. Sent = [n \in 1 .. me |-> Values(n)]
      BY <2>0 DEF Sent
    <3>9. Sent' # <<>> /\ Sent' = Append(Sent, Sent'[Len(Sent')])
      <4> DEFINE s == Sent   t == Sent'   v(n) == Values(n)   u(n) == Values(n)'
      <4>1. /\ t = [n \in 1 .. me + 1 |-> u(n)] /\ s = [n \in 1 .. me |-> v(n)]
            /\ \A n \in 1 .. me : u(n) = v(n)
        BY <3>5, <3>6, <3>7, <3>8
      <4> HIDE DEF s, t, v, u
      <4>2. t # <<>> /\ t = Append(s, t[Len(t)])
        BY <2>0, <4>1
      <4> QED
        BY <4>2 DEF s, t
    <3> QED
      BY <3>2, <3>9 DEF Channel!Log
  <2>5. CASE /\ logged' = logged
             /\ Len(decoded) < me /\ decoded' = Append(decoded, Values(Len(decoded) + 1))
    <3>1. Sent' = Sent
      BY <2>2, <2>5
    <3>2. Sent = [n \in 1 .. me |-> Values(n)]
      BY <2>0 DEF Sent
    <3>3. Len(Sent) = me
      BY <2>0, <3>2
    <3>4. Len(decoded) \in Nat
      BY <1>2, LenProperties DEF DeliveryInv, DecodeInv
    <3>5. Len(decoded) + 1 \in 1 .. me
      BY <2>0, <2>5, <3>4
    <3>6. Sent[Len(decoded) + 1] = Values(Len(decoded) + 1)
      BY <3>2, <3>5
    <3> QED
      BY <2>5, <3>1, <3>3, <3>6 DEF Channel!Decode
  <2> QED
    BY <2>1, <2>3, <2>4, <2>5 DEF Delivers
<1>3. DeliveryInv /\ [Next]_vars => DeliveryInv'
  BY DeliveryNext
<1> QED
  BY <1>1, <1>2, <1>3, DeliveryInit, PTL DEF Spec, ImplementsLogChannel, Channel!Spec

-----------------------------------------------------------------------------
(* Damage.  A character is taken out of a sequence, moved back, or others  *)
(* are put in.                                                             *)

LEMMA SeqPlaces ==
  ASSUME NEW w \in Seq(Chars)
  PROVE  /\ Len(w) \in Nat /\ DOMAIN w = 1 .. Len(w)
         /\ \A k \in 1 .. Len(w) : w[k] \in Chars /\ w[k].log \in Nat
<1>1. Len(w) \in Nat /\ DOMAIN w = 1 .. Len(w)
  BY LenProperties
<1>2. \A k \in 1 .. Len(w) : w[k] \in Chars
  BY <1>1, ElementOfSeq
<1> QED
  BY <1>1, <1>2 DEF Chars, CharsOf

TwoParts(v, s, t, m, n) ==
  /\ v \in Seq(Chars) /\ Len(v) = m + n
  /\ \A i \in 1 .. m + n : v[i] = IF i <= m THEN s[i] ELSE t[i - m]

LEMMA Joined ==
  ASSUME NEW s \in Seq(Chars), NEW t \in Seq(Chars)
  PROVE  TwoParts(s \o t, s, t, Len(s), Len(t))
  BY ConcatProperties DEF TwoParts

(* The sequence v is w without the element at k.                           *)
Shorter(v, w, k) ==
  /\ Len(v) = Len(w) - 1
  /\ \A i \in 1 .. Len(v) : v[i] = w[IF i < k THEN i ELSE i + 1]

LEMMA TakenOut ==
  ASSUME NEW w \in Seq(Chars), NEW k \in 1 .. Len(w)
  PROVE  Shorter(SubSeq(w, 1, k - 1) \o SubSeq(w, k + 1, Len(w)), w, k)
<1>00. PICK v : v = SubSeq(w, 1, k - 1) \o SubSeq(w, k + 1, Len(w))
  OBVIOUS
<1>0. PICK size \in Nat : size = Len(w)
  BY SeqPlaces
<1>1. PICK s, t : s = SubSeq(w, 1, k - 1) /\ t = SubSeq(w, k + 1, Len(w))
  OBVIOUS
<1>2. k \in Nat /\ 1 <= k /\ k <= size
  BY <1>0
<1>3. s \in Seq(Chars) /\ Len(s) = k - 1 /\ \A i \in 1 .. k - 1 : s[i] = w[i]
  <2>1. /\ SubSeq(w, 1, k - 1) \in Seq(Chars) /\ Len(SubSeq(w, 1, k - 1)) = (k - 1) - 1 + 1
        /\ \A i \in 1 .. (k - 1) - 1 + 1 : SubSeq(w, 1, k - 1)[i] = w[1 + i - 1]
    BY <1>0, <1>2, Piece
  <2>2. (k - 1) - 1 + 1 = k - 1 /\ \A i \in 1 .. k - 1 : 1 + i - 1 = i
    BY <1>2
  <2> QED
    BY <1>1, <2>1, <2>2
<1>4. t \in Seq(Chars) /\ Len(t) = size - k /\ \A i \in 1 .. size - k : t[i] = w[k + i]
  <2>1. /\ SubSeq(w, k + 1, size) \in Seq(Chars)
        /\ Len(SubSeq(w, k + 1, size)) = size - (k + 1) + 1
        /\ \A i \in 1 .. size - (k + 1) + 1 : SubSeq(w, k + 1, size)[i] = w[(k + 1) + i - 1]
    BY <1>0, <1>2, Piece
  <2>2. size - (k + 1) + 1 = size - k /\ \A i \in 1 .. size - k : (k + 1) + i - 1 = k + i
    BY <1>2
  <2> QED
    BY <1>0, <1>1, <2>1, <2>2
<1>5. /\ Len(v) = (k - 1) + (size - k)
      /\ \A i \in 1 .. (k - 1) + (size - k) : v[i] = IF i <= k - 1 THEN s[i] ELSE t[i - (k - 1)]
  <2>1. PICK a, b : a = k - 1 /\ b = size - k
    OBVIOUS
  <2>2. Len(v) = a + b /\ \A i \in 1 .. a + b : v[i] = IF i <= a THEN s[i] ELSE t[i - a]
    <3>1. s \in Seq(Chars) /\ t \in Seq(Chars) /\ a = Len(s) /\ b = Len(t) /\ v = s \o t
      BY <1>00, <1>1, <1>3, <1>4, <2>1
    <3>2. TwoParts(v, s, t, a, b)
      BY <3>1, Joined
    <3> QED
      BY <3>2 DEF TwoParts
  <2> QED
    BY <2>1, <2>2
<1>6. Len(v) = size - 1
  <2>1. (k - 1) + (size - k) = size - 1
    BY <1>2
  <2> QED
    BY <1>5, <2>1
<1>7. ASSUME NEW i \in 1 .. size - 1 PROVE v[i] = w[IF i < k THEN i ELSE i + 1]
  <2>1. i \in 1 .. (k - 1) + (size - k)
    BY <1>2
  <2>2. CASE i < k
    <3>1. i <= k - 1 /\ i \in 1 .. k - 1
      BY <1>2, <2>2
    <3> QED
      BY <1>3, <1>5, <2>1, <2>2, <3>1
  <2>3. CASE ~(i < k)
    <3>1. ~(i <= k - 1) /\ i - (k - 1) \in 1 .. size - k /\ k + (i - (k - 1)) = i + 1
      BY <1>2, <2>3
    <3>2. t[i - (k - 1)] = w[i + 1]
      BY <1>4, <3>1
    <3> QED
      BY <1>5, <2>1, <2>3, <3>1, <3>2
  <2> QED
    BY <2>2, <2>3
<1> QED
  BY <1>00, <1>0, <1>6, <1>7 DEF Shorter

(* The sequence v is w with t put in behind place k.                       *)
Inserted(v, w, k, t) ==
  /\ Len(v) = Len(w) + Len(t)
  /\ \A i \in 1 .. Len(v) : v[i] = IF i <= k THEN w[i]
                                   ELSE IF i <= k + Len(t) THEN t[i - k] ELSE w[i - Len(t)]

LEMMA InsertedBehind ==
  ASSUME NEW w \in Seq(Chars), NEW t \in Seq(Chars)
  PROVE  Inserted(w \o t, w, Len(w), t)
<1>1. PICK v, m, n : v = w \o t /\ m = Len(w) /\ n = Len(t)
  OBVIOUS
<1>2. m \in Nat /\ n \in Nat
  BY <1>1, SeqPlaces
<1>3. TwoParts(v, w, t, m, n)
  BY <1>1, Joined
<1>4. Len(v) = m + n /\ \A i \in 1 .. m + n : v[i] = IF i <= m THEN w[i] ELSE t[i - m]
  BY <1>3 DEF TwoParts
<1>5. \A i \in 1 .. m + n : i <= m + n
  BY <1>2
<1> QED
  BY <1>1, <1>4, <1>5 DEF Inserted

LEMMA PutIn ==
  ASSUME NEW w \in Seq(Chars), NEW k \in 0 .. Len(w), NEW t \in Seq(Chars)
  PROVE  Inserted(SubSeq(w, 1, k) \o t \o SubSeq(w, k + 1, Len(w)), w, k, t)
<1>00. PICK v : v = SubSeq(w, 1, k) \o t \o SubSeq(w, k + 1, Len(w))
  OBVIOUS
<1>0. PICK size \in Nat, n \in Nat : size = Len(w) /\ n = Len(t)
  BY SeqPlaces
<1>1. PICK s, r : s = SubSeq(w, 1, k) /\ r = SubSeq(w, k + 1, Len(w))
  OBVIOUS
<1>2. k \in Nat /\ k <= size
  BY <1>0
<1>3. s \in Seq(Chars) /\ Len(s) = k /\ \A i \in 1 .. k : s[i] = w[i]
  <2>1. /\ SubSeq(w, 1, k) \in Seq(Chars) /\ Len(SubSeq(w, 1, k)) = k - 1 + 1
        /\ \A i \in 1 .. k - 1 + 1 : SubSeq(w, 1, k)[i] = w[1 + i - 1]
    BY <1>0, <1>2, Piece
  <2>2. k - 1 + 1 = k /\ \A i \in 1 .. k : 1 + i - 1 = i
    BY <1>2
  <2> QED
    BY <1>1, <2>1, <2>2
<1>4. r \in Seq(Chars) /\ Len(r) = size - k /\ \A i \in 1 .. size - k : r[i] = w[k + i]
  <2>1. /\ SubSeq(w, k + 1, size) \in Seq(Chars)
        /\ Len(SubSeq(w, k + 1, size)) = size - (k + 1) + 1
        /\ \A i \in 1 .. size - (k + 1) + 1 : SubSeq(w, k + 1, size)[i] = w[(k + 1) + i - 1]
    <3>1. PICK c : c = k + 1
      OBVIOUS
    <3>2. c \in Nat \ {0} /\ c <= size + 1 /\ size <= Len(w)
      BY <1>0, <1>2, <3>1
    <3>3. /\ SubSeq(w, c, size) \in Seq(Chars) /\ Len(SubSeq(w, c, size)) = size - c + 1
          /\ \A i \in 1 .. size - c + 1 : SubSeq(w, c, size)[i] = w[c + i - 1]
      BY <3>2, Piece
    <3> QED
      BY <3>1, <3>3
  <2>2. size - (k + 1) + 1 = size - k /\ \A i \in 1 .. size - k : (k + 1) + i - 1 = k + i
    BY <1>2
  <2> QED
    BY <1>0, <1>1, <2>1, <2>2
<1>5. PICK u : u = s \o t
  OBVIOUS
<1>6. /\ u \in Seq(Chars) /\ Len(u) = k + n
      /\ \A i \in 1 .. k + n : u[i] = IF i <= k THEN s[i] ELSE t[i - k]
  BY <1>0, <1>3, <1>5, Joined DEF TwoParts
<1>7. /\ Len(v) = (k + n) + (size - k)
      /\ \A i \in 1 .. (k + n) + (size - k) : v[i] = IF i <= k + n THEN u[i] ELSE r[i - (k + n)]
  <2>1. PICK a, b : a = k + n /\ b = size - k
    OBVIOUS
  <2>2. Len(v) = a + b /\ \A i \in 1 .. a + b : v[i] = IF i <= a THEN u[i] ELSE r[i - a]
    <3>1. u \in Seq(Chars) /\ r \in Seq(Chars) /\ a = Len(u) /\ b = Len(r) /\ v = u \o r
      BY <1>00, <1>1, <1>4, <1>5, <1>6, <2>1
    <3>2. TwoParts(v, u, r, a, b)
      BY <3>1, Joined
    <3> QED
      BY <3>2 DEF TwoParts
  <2> QED
    BY <2>1, <2>2
<1>8. Len(v) = size + n
  <2>1. (k + n) + (size - k) = size + n
    BY <1>0, <1>2
  <2> QED
    BY <1>7, <2>1
<1>9. ASSUME NEW i \in 1 .. size + n
      PROVE  v[i] = IF i <= k THEN w[i] ELSE IF i <= k + n THEN t[i - k] ELSE w[i - n]
  <2>1. i \in 1 .. (k + n) + (size - k)
    BY <1>0, <1>2
  <2>2. CASE i <= k
    <3>1. i <= k + n /\ i \in 1 .. k /\ i \in 1 .. k + n
      BY <1>0, <1>2, <2>2
    <3> QED
      BY <1>3, <1>6, <1>7, <2>1, <2>2, <3>1
  <2>3. CASE ~(i <= k) /\ i <= k + n
    <3>1. i \in 1 .. k + n
      BY <1>0, <1>2, <2>3
    <3> QED
      BY <1>6, <1>7, <2>1, <2>3, <3>1
  <2>4. CASE ~(i <= k + n)
    <3>1. ~(i <= k) /\ i - (k + n) \in 1 .. size - k /\ k + (i - (k + n)) = i - n
      BY <1>0, <1>2, <2>4
    <3>2. r[i - (k + n)] = w[i - n]
      BY <1>4, <3>1
    <3> QED
      BY <1>7, <2>1, <2>4, <3>1, <3>2
  <2> QED
    BY <2>2, <2>3, <2>4
<1> QED
  BY <1>00, <1>0, <1>8, <1>9 DEF Inserted

(* The sequence v is w with the element at k moved to j.                   *)
Later(v, w, k, j) ==
  /\ Len(v) = Len(w)
  /\ \A i \in 1 .. Len(v) :
       v[i] = w[IF i < k \/ i > j THEN i ELSE IF i = j THEN k ELSE i + 1]

LEMMA MovedBack ==
  ASSUME NEW w \in Seq(Chars), NEW k \in 1 .. Len(w), NEW j \in 1 .. Len(w), k < j
  PROVE  Later(SubSeq(w, 1, k - 1) \o SubSeq(w, k + 1, j) \o <<w[k]>> \o SubSeq(w, j + 1, Len(w)),
               w, k, j)
<1>00. PICK v : v = SubSeq(w, 1, k - 1) \o SubSeq(w, k + 1, j) \o <<w[k]>> \o SubSeq(w, j + 1, Len(w))
  OBVIOUS
<1>0. PICK size \in Nat : size = Len(w)
  BY SeqPlaces
<1>1. PICK s, r, one, t : /\ s = SubSeq(w, 1, k - 1) /\ r = SubSeq(w, k + 1, j)
                          /\ one = <<w[k]>> /\ t = SubSeq(w, j + 1, Len(w))
  OBVIOUS
<1>2. k \in Nat /\ j \in Nat /\ 1 <= k /\ k < j /\ j <= size
  BY <1>0
<1>3. s \in Seq(Chars) /\ Len(s) = k - 1 /\ \A i \in 1 .. k - 1 : s[i] = w[i]
  <2>1. /\ SubSeq(w, 1, k - 1) \in Seq(Chars) /\ Len(SubSeq(w, 1, k - 1)) = (k - 1) - 1 + 1
        /\ \A i \in 1 .. (k - 1) - 1 + 1 : SubSeq(w, 1, k - 1)[i] = w[1 + i - 1]
    BY <1>0, <1>2, Piece
  <2>2. (k - 1) - 1 + 1 = k - 1 /\ \A i \in 1 .. k - 1 : 1 + i - 1 = i
    BY <1>2
  <2> QED
    BY <1>1, <2>1, <2>2
<1>4. r \in Seq(Chars) /\ Len(r) = j - k /\ \A i \in 1 .. j - k : r[i] = w[k + i]
  <2>1. /\ SubSeq(w, k + 1, j) \in Seq(Chars) /\ Len(SubSeq(w, k + 1, j)) = j - (k + 1) + 1
        /\ \A i \in 1 .. j - (k + 1) + 1 : SubSeq(w, k + 1, j)[i] = w[(k + 1) + i - 1]
    BY <1>0, <1>2, Piece
  <2>2. j - (k + 1) + 1 = j - k /\ \A i \in 1 .. j - k : (k + 1) + i - 1 = k + i
    BY <1>2
  <2> QED
    BY <1>1, <2>1, <2>2
<1>5. t \in Seq(Chars) /\ Len(t) = size - j /\ \A i \in 1 .. size - j : t[i] = w[j + i]
  <2>1. /\ SubSeq(w, j + 1, size) \in Seq(Chars)
        /\ Len(SubSeq(w, j + 1, size)) = size - (j + 1) + 1
        /\ \A i \in 1 .. size - (j + 1) + 1 : SubSeq(w, j + 1, size)[i] = w[(j + 1) + i - 1]
    BY <1>0, <1>2, Piece
  <2>2. size - (j + 1) + 1 = size - j /\ \A i \in 1 .. size - j : (j + 1) + i - 1 = j + i
    BY <1>2
  <2> QED
    BY <1>0, <1>1, <2>1, <2>2
<1>6. one \in Seq(Chars) /\ Len(one) = 1 /\ one[1] = w[k]
  BY <1>1, SeqPlaces
<1>7. PICK u, x : u = s \o r /\ x = u \o one
  OBVIOUS
<1>8. /\ u \in Seq(Chars) /\ Len(u) = (k - 1) + (j - k)
      /\ \A i \in 1 .. (k - 1) + (j - k) : u[i] = IF i <= k - 1 THEN s[i] ELSE r[i - (k - 1)]
  <2>1. PICK a, b : a = k - 1 /\ b = j - k
    OBVIOUS
  <2>2. /\ u \in Seq(Chars) /\ Len(u) = a + b
        /\ \A i \in 1 .. a + b : u[i] = IF i <= a THEN s[i] ELSE r[i - a]
    <3>1. s \in Seq(Chars) /\ r \in Seq(Chars) /\ a = Len(s) /\ b = Len(r) /\ u = s \o r
      BY <1>3, <1>4, <1>7, <2>1
    <3>2. TwoParts(u, s, r, a, b)
      BY <3>1, Joined
    <3> QED
      BY <3>2 DEF TwoParts
  <2> QED
    BY <2>1, <2>2
<1>9. (k - 1) + (j - k) = j - 1 /\ j - 1 \in Nat /\ (j - 1) + 1 = j
  BY <1>2
<1>10. /\ x \in Seq(Chars) /\ Len(x) = j
       /\ \A i \in 1 .. j : x[i] = IF i <= j - 1 THEN u[i] ELSE one[i - (j - 1)]
  <2>1. PICK a : a = j - 1
    OBVIOUS
  <2>2. /\ x \in Seq(Chars) /\ Len(x) = a + 1
        /\ \A i \in 1 .. a + 1 : x[i] = IF i <= a THEN u[i] ELSE one[i - a]
    <3>1. u \in Seq(Chars) /\ one \in Seq(Chars) /\ a = Len(u) /\ 1 = Len(one) /\ x = u \o one
      BY <1>6, <1>7, <1>8, <1>9, <2>1
    <3>2. TwoParts(x, u, one, a, 1)
      BY <3>1, Joined
    <3> QED
      BY <3>2 DEF TwoParts
  <2> QED
    BY <1>9, <2>1, <2>2
<1>11. /\ Len(v) = j + (size - j)
       /\ \A i \in 1 .. j + (size - j) : v[i] = IF i <= j THEN x[i] ELSE t[i - j]
  <2>1. PICK b : b = size - j
    OBVIOUS
  <2>2. Len(v) = j + b /\ \A i \in 1 .. j + b : v[i] = IF i <= j THEN x[i] ELSE t[i - j]
    <3>1. x \in Seq(Chars) /\ t \in Seq(Chars) /\ j = Len(x) /\ b = Len(t) /\ v = x \o t
      BY <1>00, <1>1, <1>5, <1>7, <1>10, <2>1
    <3>2. TwoParts(v, x, t, j, b)
      BY <3>1, Joined
    <3> QED
      BY <3>2 DEF TwoParts
  <2> QED
    BY <2>1, <2>2
<1>12. Len(v) = size
  BY <1>2, <1>11
<1>13. ASSUME NEW i \in 1 .. size
       PROVE  v[i] = w[IF i < k \/ i > j THEN i ELSE IF i = j THEN k ELSE i + 1]
  <2>1. i \in 1 .. j + (size - j)
    BY <1>0, <1>2
  <2>2. CASE i < k
    <3>1. i <= j /\ i <= j - 1 /\ i <= k - 1 /\ i \in 1 .. k - 1 /\ i \in 1 .. j
          /\ i \in 1 .. (k - 1) + (j - k)
      BY <1>2, <2>2
    <3>2. v[i] = x[i] /\ x[i] = u[i] /\ u[i] = s[i] /\ s[i] = w[i]
      BY <1>3, <1>8, <1>10, <1>11, <2>1, <3>1
    <3> QED
      BY <2>2, <3>2
  <2>3. CASE i > j
    <3>1. ~(i <= j) /\ i - j \in 1 .. size - j /\ j + (i - j) = i
      BY <1>2, <2>3
    <3>2. v[i] = t[i - j] /\ t[i - j] = w[i]
      BY <1>5, <1>11, <2>1, <3>1
    <3> QED
      BY <2>3, <3>2
  <2>4. CASE i = j
    <3>1. i <= j /\ ~(i <= j - 1) /\ i - (j - 1) = 1 /\ i \in 1 .. j /\ ~(i < k \/ i > j)
      BY <1>2, <2>4
    <3>2. v[i] = x[i] /\ x[i] = one[1]
      BY <1>10, <1>11, <2>1, <3>1
    <3> QED
      BY <1>6, <2>4, <3>1, <3>2
  <2>5. CASE ~(i < k) /\ i < j
    <3>1. /\ i <= j /\ i <= j - 1 /\ ~(i <= k - 1) /\ i \in 1 .. j
          /\ i \in 1 .. (k - 1) + (j - k) /\ i - (k - 1) \in 1 .. j - k /\ k + (i - (k - 1)) = i + 1
          /\ ~(i < k \/ i > j) /\ i # j
      BY <1>2, <2>5
    <3>2. v[i] = x[i] /\ x[i] = u[i] /\ u[i] = r[i - (k - 1)] /\ r[i - (k - 1)] = w[i + 1]
      BY <1>4, <1>8, <1>10, <1>11, <2>1, <3>1
    <3> QED
      BY <3>1, <3>2
  <2>6. i < k \/ i > j \/ i = j \/ (~(i < k) /\ i < j)
    BY <1>0, <1>2
  <2> QED
    BY <2>2, <2>3, <2>4, <2>5, <2>6
<1> QED
  BY <1>00, <1>0, <1>12, <1>13 DEF Later

-----------------------------------------------------------------------------
(* The characters of a log on a wire that is disturbed.                    *)

(* The characters of log n in w are those of own, in their order, and the  *)
(* one at k is the rank[k]-th.                                             *)
Strewn(w, own, rank, n) ==
  /\ rank \in [Nat -> Nat]
  /\ \A k \in 1 .. Len(w) :
       w[k].log = n => rank[k] \in 1 .. Len(own) /\ own[rank[k]] = w[k]
  /\ \A j, k \in 1 .. Len(w) :
       w[j].log = n /\ w[k].log = n /\ j < k => rank[j] < rank[k]
  /\ \A i \in 1 .. Len(own) : \E k \in 1 .. Len(w) : w[k].log = n /\ rank[k] = i

(* The characters of log n in v are those in w, in their order, and the    *)
(* one at i comes from back[i].                                            *)
Comes(v, w, back, n) ==
  /\ back \in [Nat -> Nat]
  /\ \A i \in 1 .. Len(v) :
       v[i].log = n => back[i] \in 1 .. Len(w) /\ w[back[i]] = v[i]
  /\ \A i, j \in 1 .. Len(v) :
       v[i].log = n /\ v[j].log = n /\ i < j => back[i] < back[j]
  /\ \A k \in 1 .. Len(w) :
       w[k].log = n => \E i \in 1 .. Len(v) : v[i].log = n /\ back[i] = k

LEMMA StrewnComes ==
  ASSUME NEW w \in Seq(Chars), NEW v \in Seq(Chars), NEW n, NEW own, NEW rank, NEW back,
         Strewn(w, own, rank, n), Comes(v, w, back, n)
  PROVE  \E moved : Strewn(v, own, moved, n)
<1>1. PICK moved : moved = [i \in Nat |-> rank[back[i]]]
  OBVIOUS
<1>2. Len(v) \in Nat /\ Len(w) \in Nat
  BY LenProperties
<1>3. rank \in [Nat -> Nat] /\ back \in [Nat -> Nat]
  BY DEF Strewn, Comes
<1>4. moved \in [Nat -> Nat] /\ \A i \in Nat : moved[i] = rank[back[i]]
  BY <1>1, <1>3
<1>5. ASSUME NEW i \in 1 .. Len(v), v[i].log = n
      PROVE  back[i] \in 1 .. Len(w) /\ w[back[i]] = v[i] /\ moved[i] = rank[back[i]]
  <2>1. i \in Nat
    BY <1>2
  <2> QED
    BY <1>4, <1>5, <2>1 DEF Comes
<1>6. ASSUME NEW i \in 1 .. Len(v), v[i].log = n
      PROVE  moved[i] \in 1 .. Len(own) /\ own[moved[i]] = v[i]
  <2>1. PICK k \in 1 .. Len(w) : k = back[i]
    BY <1>5, <1>6
  <2>2. w[k] = v[i] /\ w[k].log = n /\ moved[i] = rank[k]
    BY <1>5, <1>6, <2>1
  <2>3. rank[k] \in 1 .. Len(own) /\ own[rank[k]] = w[k]
    BY <2>2 DEF Strewn
  <2> QED
    BY <2>2, <2>3
<1>7. ASSUME NEW i \in 1 .. Len(v), NEW j \in 1 .. Len(v), v[i].log = n, v[j].log = n, i < j
      PROVE  moved[i] < moved[j]
  <2>1. PICK x, y : x = back[i] /\ y = back[j]
    OBVIOUS
  <2>2. x \in 1 .. Len(w) /\ y \in 1 .. Len(w) /\ x < y
    BY <1>5, <1>7, <2>1 DEF Comes
  <2>3. w[x].log = n /\ w[y].log = n /\ moved[i] = rank[x] /\ moved[j] = rank[y]
    BY <1>5, <1>7, <2>1
  <2>4. rank[x] < rank[y]
    BY <2>2, <2>3 DEF Strewn
  <2> QED
    BY <2>3, <2>4
<1>8. ASSUME NEW i \in 1 .. Len(own)
      PROVE  \E k \in 1 .. Len(v) : v[k].log = n /\ moved[k] = i
  <2>1. PICK j \in 1 .. Len(w) : w[j].log = n /\ rank[j] = i
    BY DEF Strewn
  <2>2. PICK k \in 1 .. Len(v) : v[k].log = n /\ back[k] = j
    BY <2>1 DEF Comes
  <2> QED
    BY <1>5, <2>1, <2>2
<1>9. Strewn(v, own, moved, n)
  BY <1>4, <1>6, <1>7, <1>8 DEF Strewn
<1> QED
  BY <1>9

(* More of them are put in behind the last one.                            *)
LEMMA StrewnMore ==
  ASSUME NEW w \in Seq(Chars), NEW v \in Seq(Chars), NEW t \in Seq(Chars), NEW n,
         NEW own \in Seq(Chars), NEW rank, NEW k \in 0 .. Len(w),
         Strewn(w, own, rank, n), Inserted(v, w, k, t),
         \A j \in 1 .. Len(t) : t[j].log = n,
         \A j \in 1 .. Len(w) : w[j].log = n => j <= k,
         NEW more \in Seq(Chars), more = own \o t
  PROVE  \E moved : Strewn(v, more, moved, n)
<1>0. PICK size \in Nat, part \in Nat, len \in Nat :
        size = Len(w) /\ part = Len(t) /\ len = Len(own)
  BY SeqPlaces
<1>1. PICK moved : moved = [i \in Nat |-> IF i <= k THEN rank[i] ELSE len + (i - k)]
  OBVIOUS
<1>2. k \in Nat /\ k <= size
  BY <1>0
<1>3. rank \in [Nat -> Nat]
  BY DEF Strewn
<1>4. /\ moved \in [Nat -> Nat]
      /\ \A i \in Nat : i <= k => moved[i] = rank[i]
      /\ \A i \in Nat : ~(i <= k) => moved[i] = len + (i - k)
  <2>1. \A i \in Nat : ~(i <= k) => len + (i - k) \in Nat
    BY <1>0, <1>2
  <2>2. \A i \in Nat : rank[i] \in Nat
    BY <1>3
  <2> QED
    BY <1>1, <2>1, <2>2
<1>5. /\ Len(v) = size + part
      /\ \A i \in 1 .. size + part : v[i] = IF i <= k THEN w[i]
                                            ELSE IF i <= k + part THEN t[i - k] ELSE w[i - part]
  BY <1>0 DEF Inserted
<1>6. Len(more) = len + part /\ \A i \in 1 .. len + part : more[i] = IF i <= len THEN own[i] ELSE t[i - len]
  <2>1. TwoParts(own \o t, own, t, Len(own), Len(t))
    BY Joined
  <2>2. TwoParts(more, own, t, len, part)
    BY <1>0, <2>1
  <2> QED
    BY <2>2 DEF TwoParts
(* Where a character of n is now.                                          *)
<1>7. ASSUME NEW i \in 1 .. size + part, v[i].log = n
      PROVE  \/ i <= k /\ i \in 1 .. size /\ v[i] = w[i] /\ moved[i] = rank[i]
             \/ ~(i <= k) /\ i - k \in 1 .. part /\ v[i] = t[i - k] /\ moved[i] = len + (i - k)
  <2>0. i \in Nat /\ i >= 1
    BY <1>0
  <2>1. CASE i <= k
    <3>1. i \in 1 .. size
      BY <1>0, <1>2, <2>0, <2>1
    <3> QED
      BY <1>4, <1>5, <2>0, <2>1, <3>1
  <2>2. CASE ~(i <= k) /\ i <= k + part
    <3>1. i - k \in 1 .. part
      BY <1>0, <1>2, <2>0, <2>2
    <3> QED
      BY <1>4, <1>5, <2>0, <2>2, <3>1
  <2>3. CASE ~(i <= k + part)
    <3>1. ~(i <= k) /\ i - part \in 1 .. size /\ ~(i - part <= k)
      BY <1>0, <1>2, <2>0, <2>3
    <3>2. v[i] = w[i - part]
      BY <1>5, <2>3, <3>1
    <3> QED
      BY <1>0, <1>7, <3>1, <3>2
  <2> QED
    BY <2>1, <2>2, <2>3
<1>8. ASSUME NEW i \in 1 .. size, w[i].log = n
      PROVE  rank[i] \in 1 .. len /\ own[rank[i]] = w[i]
  BY <1>0, <1>8 DEF Strewn
<1>9. ASSUME NEW i \in 1 .. size + part, v[i].log = n
      PROVE  moved[i] \in 1 .. len + part /\ more[moved[i]] = v[i]
  <2>1. CASE i <= k /\ i \in 1 .. size /\ v[i] = w[i] /\ moved[i] = rank[i]
    <3>1. rank[i] \in 1 .. len /\ own[rank[i]] = w[i]
      BY <1>8, <1>9, <2>1
    <3>2. rank[i] \in 1 .. len + part /\ rank[i] <= len
      BY <1>0, <3>1
    <3> QED
      BY <1>6, <2>1, <3>1, <3>2
  <2>2. CASE ~(i <= k) /\ i - k \in 1 .. part /\ v[i] = t[i - k] /\ moved[i] = len + (i - k)
    <3>1. PICK j \in 1 .. part : j = i - k
      BY <2>2
    <3>2. len + j \in 1 .. len + part /\ ~(len + j <= len) /\ (len + j) - len = j
      BY <1>0
    <3> QED
      BY <1>6, <2>2, <3>1, <3>2
  <2> QED
    BY <1>7, <1>9, <2>1, <2>2
<1>10. ASSUME NEW i \in 1 .. size + part, NEW j \in 1 .. size + part,
              v[i].log = n, v[j].log = n, i < j
       PROVE  moved[i] < moved[j]
  <2>0. i \in Nat /\ j \in Nat
    BY <1>0
  <2>1. CASE j <= k
    <3>1. i <= k /\ i \in 1 .. Len(w) /\ j \in 1 .. Len(w)
      BY <1>0, <1>2, <1>10, <2>0, <2>1
    <3>2. v[i] = w[i] /\ v[j] = w[j] /\ moved[i] = rank[i] /\ moved[j] = rank[j]
      BY <1>7, <1>10, <2>1, <3>1
    <3> QED
      BY <1>10, <3>1, <3>2 DEF Strewn
  <2>2. CASE ~(j <= k) /\ i <= k
    <3>1. moved[i] = rank[i] /\ rank[i] \in 1 .. len
      BY <1>7, <1>8, <1>10, <2>2
    <3>2. moved[j] = len + (j - k) /\ j - k \in 1 .. part
      BY <1>7, <1>10, <2>2
    <3> QED
      BY <1>0, <3>1, <3>2
  <2>3. CASE ~(i <= k)
    <3>1. ~(j <= k)
      BY <1>2, <1>10, <2>0, <2>3
    <3>2. moved[i] = len + (i - k) /\ moved[j] = len + (j - k)
      BY <1>7, <1>10, <2>3, <3>1
    <3> QED
      BY <1>0, <1>2, <1>10, <2>0, <3>2
  <2> QED
    BY <2>1, <2>2, <2>3
<1>11. ASSUME NEW i \in 1 .. len + part
       PROVE  \E j \in 1 .. size + part : v[j].log = n /\ moved[j] = i
  <2>1. CASE i <= len
    <3>1. PICK j \in 1 .. size : w[j].log = n /\ rank[j] = i
      <4>1. i \in 1 .. Len(own)
        BY <1>0, <2>1
      <4> QED
        BY <1>0, <4>1 DEF Strewn
    <3>2. j <= k /\ j \in 1 .. size + part /\ j \in Nat
      BY <1>0, <3>1
    <3>3. v[j] = w[j] /\ moved[j] = rank[j]
      BY <1>4, <1>5, <3>2
    <3> QED
      BY <3>1, <3>2, <3>3
  <2>2. CASE ~(i <= len)
    <3>1. PICK j : j = k + (i - len)
      OBVIOUS
    <3>2. j \in 1 .. size + part /\ j \in Nat /\ ~(j <= k) /\ j <= k + part /\ j - k \in 1 .. part
          /\ len + (j - k) = i
      BY <1>0, <1>2, <2>2, <3>1
    <3>3. v[j] = t[j - k] /\ moved[j] = i
      BY <1>4, <1>5, <3>2
    <3>4. v[j].log = n
      BY <1>0, <3>2, <3>3
    <3> QED
      BY <3>2, <3>3, <3>4
  <2> QED
    BY <2>1, <2>2
<1>12. Strewn(v, more, moved, n)
  BY <1>4, <1>5, <1>6, <1>9, <1>10, <1>11 DEF Strewn
<1> QED
  BY <1>12

(* Characters of other logs are put in.                                    *)
LEMMA ComesInserted ==
  ASSUME NEW w \in Seq(Chars), NEW v \in Seq(Chars), NEW t \in Seq(Chars), NEW n,
         NEW k \in 0 .. Len(w), Inserted(v, w, k, t), \A j \in 1 .. Len(t) : t[j].log # n
  PROVE  \E back : Comes(v, w, back, n)
<1>0. PICK size \in Nat, part \in Nat : size = Len(w) /\ part = Len(t)
  BY SeqPlaces
<1>1. PICK back : back = [i \in Nat |-> IF i <= k THEN i ELSE IF i <= k + part THEN 0 ELSE i - part]
  OBVIOUS
<1>2. k \in Nat /\ k <= size
  BY <1>0
<1>3. /\ back \in [Nat -> Nat]
      /\ \A i \in Nat : i <= k => back[i] = i
      /\ \A i \in Nat : ~(i <= k + part) => back[i] = i - part
  <2>1. \A i \in Nat : ~(i <= k + part) => i - part \in Nat /\ ~(i <= k)
    BY <1>0, <1>2
  <2> QED
    BY <1>1, <2>1
<1>4. /\ Len(v) = size + part
      /\ \A i \in 1 .. size + part : v[i] = IF i <= k THEN w[i]
                                            ELSE IF i <= k + part THEN t[i - k] ELSE w[i - part]
  BY <1>0 DEF Inserted
<1>5. ASSUME NEW i \in 1 .. size + part, v[i].log = n
      PROVE  /\ i \in Nat /\ back[i] \in 1 .. size /\ w[back[i]] = v[i]
             /\ \/ i <= k /\ back[i] = i
                \/ ~(i <= k + part) /\ back[i] = i - part
  <2>0. i \in Nat /\ i >= 1
    BY <1>0
  <2>1. CASE i <= k
    <3>1. i \in 1 .. size
      BY <1>0, <1>2, <2>0, <2>1
    <3> QED
      BY <1>3, <1>4, <2>0, <2>1, <3>1
  <2>2. CASE ~(i <= k) /\ i <= k + part
    <3>1. i - k \in 1 .. part
      BY <1>0, <1>2, <2>0, <2>2
    <3>2. v[i] = t[i - k]
      BY <1>4, <2>2
    <3> QED
      BY <1>0, <1>5, <3>1, <3>2
  <2>3. CASE ~(i <= k + part)
    <3>1. ~(i <= k) /\ i - part \in 1 .. size
      BY <1>0, <1>2, <2>0, <2>3
    <3>2. v[i] = w[i - part]
      BY <1>4, <2>3, <3>1
    <3> QED
      BY <1>3, <2>0, <2>3, <3>1, <3>2
  <2> QED
    BY <2>1, <2>2, <2>3
<1>6. ASSUME NEW i \in 1 .. size + part, NEW j \in 1 .. size + part,
             v[i].log = n, v[j].log = n, i < j
      PROVE  back[i] < back[j]
  <2>1. i \in Nat /\ j \in Nat
    BY <1>0
  <2>2. (i <= k /\ back[i] = i) \/ (~(i <= k + part) /\ back[i] = i - part)
    BY <1>5, <1>6
  <2>3. (j <= k /\ back[j] = j) \/ (~(j <= k + part) /\ back[j] = j - part)
    BY <1>5, <1>6
  <2>4. CASE i <= k /\ back[i] = i
    BY <1>0, <1>2, <1>6, <2>1, <2>3, <2>4
  <2>5. CASE ~(i <= k + part) /\ back[i] = i - part
    BY <1>0, <1>2, <1>6, <2>1, <2>3, <2>5
  <2> QED
    BY <2>2, <2>4, <2>5
<1>7. ASSUME NEW j \in 1 .. size, w[j].log = n
      PROVE  \E i \in 1 .. size + part : v[i].log = n /\ back[i] = j
  <2>1. CASE j <= k
    <3>1. j \in 1 .. size + part /\ j \in Nat
      BY <1>0
    <3>2. v[j] = w[j] /\ back[j] = j
      BY <1>3, <1>4, <2>1, <3>1
    <3> QED
      BY <1>7, <3>1, <3>2
  <2>2. CASE ~(j <= k)
    <3>1. PICK i : i = j + part
      OBVIOUS
    <3>2. i \in 1 .. size + part /\ i \in Nat /\ ~(i <= k + part) /\ ~(i <= k) /\ i - part = j
      BY <1>0, <1>2, <2>2, <3>1
    <3>3. v[i] = w[j] /\ back[i] = j
      BY <1>3, <1>4, <3>2
    <3> QED
      BY <1>7, <3>2, <3>3
  <2> QED
    BY <2>1, <2>2
<1>8. Comes(v, w, back, n)
  <2>1. \A i \in 1 .. size + part : v[i].log = n => back[i] \in 1 .. size /\ w[back[i]] = v[i]
    BY <1>5
  <2>2. \A i, j \in 1 .. size + part : v[i].log = n /\ v[j].log = n /\ i < j => back[i] < back[j]
    BY <1>6
  <2> QED
    BY <1>0, <1>3, <1>4, <1>7, <2>1, <2>2 DEF Comes
<1> QED
  BY <1>8

(* The first character of a log comes before its others, and before the    *)
(* first one of a later log.                                               *)
Order(w) ==
  \A i, j \in 1 .. Len(w) : \A m \in Nat :
    /\ w[i] = FirstChar(m)
    /\ w[j].log = m \/ \E n \in Nat : n > m /\ w[j] = FirstChar(n)
    => i <= j

(* Taking away and moving back line ends keep it.                          *)
LEMMA OrderBack ==
  ASSUME NEW w \in Seq(Chars), NEW v \in Seq(Chars), NEW back, Order(w),
         \A i \in 1 .. Len(v) : back[i] \in 1 .. Len(w) /\ w[back[i]] = v[i],
         \A i, j \in 1 .. Len(v) : j < i /\ v[i].kind # "eol" => back[j] < back[i]
  PROVE  Order(v)
<1> SUFFICES ASSUME NEW i \in 1 .. Len(v), NEW j \in 1 .. Len(v), NEW m \in Nat,
                    v[i] = FirstChar(m),
                    v[j].log = m \/ \E n \in Nat : n > m /\ v[j] = FirstChar(n),
                    j < i
             PROVE  FALSE
  <2>1. Len(v) \in Nat
    BY LenProperties
  <2>2. \A i, j \in 1 .. Len(v) : ~(i <= j) => j < i
    BY <2>1
  <2> QED
    BY <2>2 DEF Order
<1>1. PICK x, y : x = back[i] /\ y = back[j]
  OBVIOUS
<1>2. v[i].kind # "eol"
  BY FirstChars
<1>3. x \in 1 .. Len(w) /\ y \in 1 .. Len(w) /\ w[x] = v[i] /\ w[y] = v[j] /\ y < x
  BY <1>1, <1>2
<1>4. x <= y
  BY <1>3 DEF Order
<1>5. x \in Nat /\ y \in Nat
  BY <1>3, LenProperties
<1> QED
  BY <1>3, <1>4, <1>5

(* So does what a call sends next, and the log of an interrupt.            *)
LEMMA OrderInserted ==
  ASSUME NEW w \in Seq(Chars), NEW v \in Seq(Chars), NEW t \in Seq(Chars), NEW n \in Nat,
         NEW k \in 0 .. Len(w), Inserted(v, w, k, t), Order(w),
         \A i \in 1 .. Len(w) : \A m \in Nat : w[i] = FirstChar(m) => i <= k,
         \A j \in 1 .. Len(t) : t[j].log = n,
         \A j \in 1 .. Len(t) :
           t[j] = FirstChar(n) => j = 1 /\ \A i \in 1 .. Len(w) : w[i].log < n
  PROVE  Order(v)
<1>0. PICK size \in Nat, part \in Nat : size = Len(w) /\ part = Len(t)
  BY SeqPlaces
<1>1. k \in Nat /\ k <= size
  BY <1>0
<1>2. /\ Len(v) = size + part
      /\ \A i \in 1 .. size + part : v[i] = IF i <= k THEN w[i]
                                            ELSE IF i <= k + part THEN t[i - k] ELSE w[i - part]
  BY <1>0 DEF Inserted
<1> SUFFICES ASSUME NEW i \in 1 .. size + part, NEW j \in 1 .. size + part, NEW m \in Nat,
                    v[i] = FirstChar(m),
                    v[j].log = m \/ \E l \in Nat : l > m /\ v[j] = FirstChar(l),
                    j < i
             PROVE  FALSE
  <2>1. \A i, j \in 1 .. size + part : ~(i <= j) => j < i
    BY <1>0
  <2> QED
    BY <1>2, <2>1 DEF Order
<1>3. i \in Nat /\ j \in Nat /\ i >= 1 /\ j >= 1
  BY <1>0
<1>4. CASE i <= k
  <2>1. j <= k /\ i \in 1 .. size /\ j \in 1 .. size /\ ~(i <= j)
    BY <1>0, <1>1, <1>3, <1>4
  <2>2. v[i] = w[i] /\ v[j] = w[j]
    BY <1>2, <1>4, <2>1
  <2>3. i <= j
    BY <1>0, <2>1, <2>2 DEF Order
  <2> QED
    BY <2>1, <2>3
<1>5. CASE ~(i <= k) /\ i <= k + part
  <2>1. i - k \in 1 .. part /\ v[i] = t[i - k]
    BY <1>0, <1>1, <1>2, <1>3, <1>5
  <2>2. PICK c \in 1 .. part : c = i - k
    BY <2>1
  <2>3. t[c] = FirstChar(m) /\ t[c].log = n
    BY <1>0, <2>1, <2>2
  <2>4. m = n
    BY <2>3, FirstChars
  <2>5. c = 1 /\ \A l \in 1 .. size : w[l].log < n
    BY <1>0, <2>3, <2>4
  <2>6. j <= k /\ j \in 1 .. size
    BY <1>0, <1>1, <1>3, <2>2, <2>5
  <2>7. v[j] = w[j]
    BY <1>2, <2>6
  <2>8. w[j].log < n /\ w[j].log \in Nat
    BY <1>0, <2>5, <2>6, SeqPlaces
  <2>9. CASE v[j].log = m
    BY <2>4, <2>7, <2>8, <2>9
  <2>10. CASE \E l \in Nat : l > m /\ v[j] = FirstChar(l)
    <3>1. PICK l \in Nat : l > m /\ v[j] = FirstChar(l)
      BY <2>10
    <3>2. w[j].log = l
      BY <2>7, <3>1, FirstChars
    <3> QED
      BY <2>4, <2>8, <3>1, <3>2
  <2> QED
    BY <2>9, <2>10
<1>6. CASE ~(i <= k + part)
  <2>1. ~(i <= k) /\ i - part \in 1 .. size /\ ~(i - part <= k)
    BY <1>0, <1>1, <1>3, <1>6
  <2>2. PICK c \in 1 .. size : c = i - part
    BY <2>1
  <2>3. w[c] = FirstChar(m)
    BY <1>2, <1>6, <2>1, <2>2
  <2>4. c <= k
    BY <1>0, <2>3
  <2> QED
    BY <2>1, <2>2, <2>4
<1> QED
  BY <1>4, <1>5, <1>6

(* A character is lost.                                                    *)
LEMMA LoseKeeps ==
  ASSUME NEW w \in Seq(Chars), NEW v \in Seq(Chars), NEW k \in 1 .. Len(w), Order(w),
         v = SubSeq(w, 1, k - 1) \o SubSeq(w, k + 1, Len(w))
  PROVE  Order(v) /\ \A n : n # w[k].log => \E back : Comes(v, w, back, n)
<1>0. PICK size \in Nat : size = Len(w)
  BY SeqPlaces
<1>1. k \in Nat /\ 1 <= k /\ k <= size
  BY <1>0
<1>2. PICK back : back = [i \in Nat |-> IF i < k THEN i ELSE i + 1]
  OBVIOUS
<1>3. /\ back \in [Nat -> Nat] /\ \A i \in Nat : back[i] = IF i < k THEN i ELSE i + 1
  BY <1>2
<1>4. Len(v) = size - 1 /\ \A i \in 1 .. size - 1 : v[i] = w[IF i < k THEN i ELSE i + 1]
  <2>1. Shorter(v, w, k)
    BY TakenOut
  <2> QED
    BY <1>0, <2>1 DEF Shorter
<1>5. ASSUME NEW i \in 1 .. size - 1
      PROVE  i \in Nat /\ back[i] \in 1 .. size /\ back[i] # k /\ w[back[i]] = v[i]
  <2>1. i \in Nat /\ i >= 1 /\ i <= size - 1
    BY <1>0
  <2>2. back[i] = IF i < k THEN i ELSE i + 1
    BY <1>3, <2>1
  <2>3. back[i] \in 1 .. size /\ back[i] # k
    BY <1>0, <1>1, <2>1, <2>2
  <2> QED
    BY <1>4, <2>1, <2>2, <2>3
<1>6. ASSUME NEW i \in 1 .. size - 1, NEW j \in 1 .. size - 1, i < j
      PROVE  back[i] < back[j]
  <2>1. i \in Nat /\ j \in Nat
    BY <1>5
  <2>2. back[i] = (IF i < k THEN i ELSE i + 1) /\ back[j] = (IF j < k THEN j ELSE j + 1)
    BY <1>3, <2>1
  <2> QED
    BY <1>1, <1>6, <2>1, <2>2
<1>7. ASSUME NEW j \in 1 .. size, j # k
      PROVE  \E i \in 1 .. size - 1 : back[i] = j
  <2>1. j \in Nat /\ j >= 1 /\ j <= size
    BY <1>0
  <2>2. CASE j < k
    <3>1. j \in 1 .. size - 1
      BY <1>0, <1>1, <2>1, <2>2
    <3> QED
      BY <1>3, <2>1, <2>2, <3>1
  <2>3. CASE ~(j < k)
    <3>1. PICK i : i = j - 1
      OBVIOUS
    <3>2. i \in 1 .. size - 1 /\ i \in Nat /\ ~(i < k) /\ i + 1 = j
      BY <1>0, <1>1, <1>7, <2>1, <2>3, <3>1
    <3> QED
      BY <1>3, <3>2
  <2> QED
    BY <2>2, <2>3
<1>8. Order(v)
  <2>1. \A i \in 1 .. Len(v) : back[i] \in 1 .. Len(w) /\ w[back[i]] = v[i]
    BY <1>0, <1>4, <1>5
  <2>2. \A i, j \in 1 .. Len(v) : j < i /\ v[i].kind # "eol" => back[j] < back[i]
    BY <1>4, <1>6
  <2> QED
    BY <2>1, <2>2, OrderBack, Zenon
<1>9. ASSUME NEW n, n # w[k].log PROVE Comes(v, w, back, n)
  <2>1. ASSUME NEW j \in 1 .. size, w[j].log = n
        PROVE  \E i \in 1 .. size - 1 : v[i].log = n /\ back[i] = j
    <3>1. j # k
      BY <1>9, <2>1
    <3>2. PICK i \in 1 .. size - 1 : back[i] = j
      BY <1>7, <3>1
    <3> QED
      BY <1>5, <2>1, <3>2
  <2> QED
    BY <1>0, <1>3, <1>4, <1>5, <1>6, <2>1 DEF Comes
<1> QED
  BY <1>8, <1>9

(* A line end is late.                                                     *)
LEMMA LateKeeps ==
  ASSUME NEW w \in Seq(Chars), NEW v \in Seq(Chars), NEW k \in 1 .. Len(w),
         NEW j \in 1 .. Len(w), k < j, Order(w), w[k].kind = "eol",
         v = SubSeq(w, 1, k - 1) \o SubSeq(w, k + 1, j) \o <<w[k]>> \o SubSeq(w, j + 1, Len(w))
  PROVE  /\ Order(v)
         /\ \A n : (w[k].log = n => \A i \in k + 1 .. j : w[i].log # n)
                     => \E back : Comes(v, w, back, n)
<1>0. PICK size \in Nat : size = Len(w)
  BY SeqPlaces
<1>1. k \in Nat /\ 1 <= k /\ k <= size /\ j \in Nat /\ j <= size /\ k < j
  BY <1>0
<1> DEFINE Back(i) == IF i < k \/ i > j THEN i ELSE IF i = j THEN k ELSE i + 1
<1>2. PICK back : back = [i \in Nat |-> Back(i)]
  OBVIOUS
<1>3. /\ back \in [Nat -> Nat] /\ \A i \in Nat : back[i] = Back(i)
  BY <1>1, <1>2
<1>4. Len(v) = size /\ \A i \in 1 .. size : v[i] = w[Back(i)]
  <2>1. Later(v, w, k, j)
    BY MovedBack
  <2> QED
    BY <1>0, <2>1 DEF Later
<1>5. ASSUME NEW i \in 1 .. size
      PROVE  i \in Nat /\ back[i] \in 1 .. size /\ w[back[i]] = v[i]
  <2>1. i \in Nat /\ i >= 1 /\ i <= size
    BY <1>0
  <2>2. Back(i) \in 1 .. size
    BY <1>0, <1>1, <2>1
  <2> QED
    BY <1>3, <1>4, <2>1, <2>2
<1>6. ASSUME NEW i \in 1 .. size, NEW l \in 1 .. size, l < i
      PROVE  \/ back[l] < back[i]
             \/ i = j /\ back[i] = k /\ back[l] \in k + 1 .. j
  <2>1. i \in Nat /\ l \in Nat /\ back[i] = Back(i) /\ back[l] = Back(l)
    BY <1>3, <1>5
  <2> QED
    BY <1>1, <1>6, <2>1
<1>7. ASSUME NEW l \in 1 .. size
      PROVE  \E i \in 1 .. size : back[i] = l
  <2>1. l \in Nat /\ l >= 1 /\ l <= size
    BY <1>0
  <2>2. CASE l < k \/ l > j
    BY <1>3, <2>1, <2>2
  <2>3. CASE l = k
    <3>1. j \in 1 .. size /\ j \in Nat /\ Back(j) = k
      BY <1>0, <1>1
    <3> QED
      BY <1>3, <2>3, <3>1
  <2>4. CASE l > k /\ l <= j
    <3>1. PICK i : i = l - 1
      OBVIOUS
    <3>2. i \in 1 .. size /\ i \in Nat /\ Back(i) = l
      BY <1>0, <1>1, <2>1, <2>4, <3>1
    <3> QED
      BY <1>3, <3>2
  <2> QED
    BY <1>1, <2>1, <2>2, <2>3, <2>4
<1>8. Order(v)
  <2>1. ASSUME NEW i \in 1 .. size, NEW l \in 1 .. size, l < i, v[i].kind # "eol"
        PROVE  back[l] < back[i]
    <3>1. back[i] # k
      BY <1>5, <2>1
    <3> QED
      BY <1>6, <2>1, <3>1
  <2>2. \A i \in 1 .. Len(v) : back[i] \in 1 .. Len(w) /\ w[back[i]] = v[i]
    BY <1>0, <1>4, <1>5
  <2>3. \A i, l \in 1 .. Len(v) : l < i /\ v[i].kind # "eol" => back[l] < back[i]
    BY <1>4, <2>1
  <2> QED
    BY <2>2, <2>3, OrderBack, Zenon
<1>9. ASSUME NEW n, w[k].log = n => \A i \in k + 1 .. j : w[i].log # n
      PROVE  Comes(v, w, back, n)
  <2>1. ASSUME NEW l \in 1 .. size, w[l].log = n
        PROVE  \E i \in 1 .. size : v[i].log = n /\ back[i] = l
    <3>1. PICK i \in 1 .. size : back[i] = l
      BY <1>7
    <3> QED
      BY <1>5, <2>1, <3>1
  <2>2. ASSUME NEW l \in 1 .. size, NEW i \in 1 .. size, v[l].log = n, v[i].log = n, l < i
        PROVE  back[l] < back[i]
    <3>1. ASSUME i = j /\ back[i] = k /\ back[l] \in k + 1 .. j PROVE FALSE
      <4>1. w[k].log = n /\ w[back[l]].log = n
        BY <1>5, <2>2, <3>1
      <4> QED
        BY <1>9, <3>1, <4>1
    <3> QED
      BY <1>6, <2>2, <3>1
  <2> QED
    BY <1>0, <1>3, <1>4, <1>5, <2>1, <2>2 DEF Comes
<1> QED
  BY <1>8, <1>9

(* The end of the wire is missing.                                         *)
LEMMA ResetKeeps ==
  ASSUME NEW w \in Seq(Chars), NEW v \in Seq(Chars), NEW k \in 1 .. Len(w) + 1, Order(w),
         v = SubSeq(w, 1, k - 1)
  PROVE  /\ Order(v)
         /\ \A n : (\A i \in k .. Len(w) : w[i].log # n) => \E back : Comes(v, w, back, n)
<1>0. PICK size \in Nat : size = Len(w)
  BY SeqPlaces
<1>1. k \in Nat /\ 1 <= k /\ k <= size + 1
  BY <1>0
<1>2. PICK back : back = [i \in Nat |-> i]
  OBVIOUS
<1>3. back \in [Nat -> Nat] /\ \A i \in Nat : back[i] = i
  BY <1>2
<1>4. Len(v) = k - 1 /\ \A i \in 1 .. k - 1 : v[i] = w[i]
  <2>1. PICK last : last = k - 1
    OBVIOUS
  <2>2. last \in Nat /\ last <= Len(w) /\ 1 <= last + 1 /\ last - 1 + 1 = last
        /\ \A i \in 1 .. last : 1 + i - 1 = i
    BY <1>0, <1>1, <2>1
  <2>3. /\ Len(SubSeq(w, 1, last)) = last - 1 + 1
        /\ \A i \in 1 .. last - 1 + 1 : SubSeq(w, 1, last)[i] = w[1 + i - 1]
    BY <2>2, Piece
  <2> QED
    BY <2>1, <2>2, <2>3
<1>5. ASSUME NEW i \in 1 .. k - 1
      PROVE  i \in Nat /\ back[i] = i /\ back[i] \in 1 .. size /\ w[back[i]] = v[i]
  <2>1. i \in Nat /\ i \in 1 .. size
    BY <1>0, <1>1
  <2> QED
    BY <1>3, <1>4, <2>1
<1>6. Order(v)
  <2>1. \A i \in 1 .. Len(v) : back[i] \in 1 .. Len(w) /\ w[back[i]] = v[i]
    BY <1>0, <1>4, <1>5
  <2>2. \A i, j \in 1 .. Len(v) : j < i /\ v[i].kind # "eol" => back[j] < back[i]
    BY <1>4, <1>5
  <2> QED
    BY <2>1, <2>2, OrderBack, Zenon
<1>7. ASSUME NEW n, \A i \in k .. size : w[i].log # n PROVE Comes(v, w, back, n)
  <2>1. ASSUME NEW l \in 1 .. size, w[l].log = n
        PROVE  \E i \in 1 .. k - 1 : v[i].log = n /\ back[i] = l
    <3>1. l \in 1 .. k - 1
      BY <1>0, <1>1, <1>7, <2>1
    <3> QED
      BY <1>5, <2>1, <3>1
  <2> QED
    BY <1>0, <1>3, <1>4, <1>5, <2>1 DEF Comes
<1> QED
  BY <1>0, <1>6, <1>7

(* Nothing happens to the wire.                                            *)
LEMMA ComesSame ==
  ASSUME NEW w \in Seq(Chars), NEW n
  PROVE  \E back : Comes(w, w, back, n)
<1>1. PICK back : back = [i \in Nat |-> i]
  OBVIOUS
<1>2. back \in [Nat -> Nat] /\ \A i \in 1 .. Len(w) : back[i] = i
  BY <1>1, LenProperties
<1>3. Comes(w, w, back, n)
  BY <1>2 DEF Comes
<1> QED
  BY <1>3

-----------------------------------------------------------------------------
(* What a call has sent stays together in order.                           *)

(* The sequence own is the first r texts, one behind the other.            *)
Spelled(own, place, text, r) ==
  /\ own \in Seq(Chars) /\ place \in [Nat -> Nat]
  /\ place[0] = 1 /\ place[r] = Len(own) + 1
  /\ Blocks(own, place, text, r)

LEMMA SpelledNone ==
  ASSUME NEW text
  PROVE  \E place : Spelled(<<>>, place, text, 0)
<1>1. PICK place : place = [a \in Nat |-> 1]
  OBVIOUS
<1>2. place \in [Nat -> Nat] /\ place[0] = 1
  BY <1>1
<1>3. PICK own : own = <<>>
  OBVIOUS
<1>4. own \in Seq(Chars) /\ Len(own) = 0
  BY <1>3, EmptySeq
<1>5. place[0] = Len(own) + 1
  BY <1>2, <1>4
<1>6. Blocks(own, place, text, 0)
  BY <1>2, <1>4, <1>5, BlocksNone
<1> QED
  BY <1>2, <1>3, <1>4, <1>5, <1>6 DEF Spelled

LEMMA SpelledMore ==
  ASSUME NEW L \in Nat, NEW text \in [0 .. L -> Seq(Chars)], NEW r \in 0 .. L,
         \A j \in 1 .. Len(text[r]) : text[r][j].kind # "eol",
         NEW own, NEW p, Spelled(own, p, text, r), NEW more, more = own \o text[r]
  PROVE  \E place : Spelled(more, place, text, r + 1)
<1>1. /\ own \in Seq(Chars) /\ p \in [Nat -> Nat] /\ p[0] = 1 /\ p[r] = Len(own) + 1
      /\ Blocks(own, p, text, r) /\ text[r] \in Seq(Chars)
  BY DEF Spelled
<1>2. more \in Seq(Chars) /\ Len(more) \in Nat
  BY <1>1, ConcatProperties, LenProperties
<1>3. r \in Nat /\ r + 1 \in Nat /\ 0 \in 0 .. r /\ r + 1 # 0
  OBVIOUS
<1>4. PICK x \in Nat : x = Len(more) + 1
  BY <1>2
<1>5. PICK q : q = [p EXCEPT ![r + 1] = x]
  OBVIOUS
<1>6. q \in [Nat -> Nat] /\ q[r + 1] = x /\ \A a \in 0 .. r : q[a] = p[a]
  <2>1. \A a \in 0 .. r : a \in Nat /\ a # r + 1
    BY <1>3
  <2> QED
    BY <1>1, <1>3, <1>5, <2>1
<1>7. q[r + 1] = Len(more) + 1
  BY <1>4, <1>6
<1>8. Blocks(more, q, text, r + 1)
  BY <1>1, <1>2, <1>6, <1>7, BlocksGrow
<1>9. q[0] = 1
  BY <1>1, <1>3, <1>6
<1>10. Spelled(more, q, text, r + 1)
  BY <1>2, <1>6, <1>7, <1>8, <1>9 DEF Spelled
<1> QED
  BY <1>10

Whole(own, n) == IF Closed(n) THEN Append(own, EndOfLine(n)) ELSE own

(* The characters log n has sent so far are on the wire, in their order,   *)
(* and no others of it.                                                    *)
Collected(n) ==
  \E own, place, rank : /\ Spelled(own, place, Text(n), Reached(n))
                        /\ Strewn(wire, Whole(own, n), rank, n)

ScatterInv ==
  /\ Order(wire)
  /\ lpc = "args" /\ Proper(me) => va = tagIt /\ tagIt <= Length(me) + 1
  /\ \A n \in DOMAIN logged \ cut : Proper(n) => Collected(n)

(* The texts of logs that can be shown.                                    *)
ProperTexts ==
  \A n \in DOMAIN logged : Proper(n) =>
    /\ Length(n) \in Nat /\ Text(n) \in [0 .. Length(n) -> Seq(Chars)]
    /\ \A a \in 0 .. Length(n) : \A j \in 1 .. Len(Text(n)[a]) : Text(n)[a][j].kind # "eol"

LEMMA ProperTextsHold == DeviceTypes => ProperTexts
  BY TextType DEF ProperTexts

LEMMA ProperTextsNext ==
  ASSUME DeviceTypes'
  PROVE  ProperTexts'
<1>1. (DeviceTypes => ProperTexts)'
  BY ProperTextsHold, PTL
<1> QED
  BY <1>1

(* A log whose characters are not touched.                                 *)
LEMMA CollectedKept ==
  ASSUME NEW n, Collected(n), wire \in Seq(Chars), wire' \in Seq(Chars),
         logged'[n] = logged[n], Closed(n)' = Closed(n), Closed(n) \/ tagIt' = tagIt,
         NEW back, Comes(wire', wire, back, n)
  PROVE  Collected(n)'
<1>1. PICK own, place, rank : /\ Spelled(own, place, Text(n), Reached(n))
                              /\ Strewn(wire, Whole(own, n), rank, n)
  BY DEF Collected
<1>2. Text(n)' = Text(n) /\ Length(n)' = Length(n)
  BY TextSame
<1>3. Reached(n)' = Reached(n)
  BY <1>2 DEF Reached
<1>4. Whole(own, n)' = Whole(own, n)
  BY DEF Whole, EndOfLine, Char
<1>5. PICK moved : Strewn(wire', Whole(own, n), moved, n)
  BY <1>1, StrewnComes
<1> QED
  BY <1>1, <1>2, <1>3, <1>4, <1>5 DEF Collected

(* The next block of the call.                                             *)
LEMMA CollectedMore ==
  ASSUME NEW n \in DOMAIN logged, Collected(n), Proper(n), ProperTexts, ~Closed(n), ~Closed(n)',
         wire \in Seq(Chars), wire' \in Seq(Chars), logged'[n] = logged[n],
         tagIt \in 0 .. Length(n), tagIt' = tagIt + 1, wire' = wire \o Block(n, tagIt),
         \A j \in 1 .. Len(Block(n, tagIt)) : Block(n, tagIt)[j].log = n
  PROVE  Collected(n)'
<1>1. PICK own, place, rank : Spelled(own, place, Text(n), tagIt) /\ Strewn(wire, own, rank, n)
  BY DEF Collected, Reached, Whole
<1>2. PICK t : t = Text(n)[tagIt]
  OBVIOUS
<1>3. /\ t = Block(n, tagIt) /\ t \in Seq(Chars) /\ \A j \in 1 .. Len(t) : t[j].kind # "eol"
      /\ Length(n) \in Nat /\ Text(n) \in [0 .. Length(n) -> Seq(Chars)]
  BY <1>2 DEF ProperTexts, Text
<1>4. PICK more : more = own \o t
  OBVIOUS
<1>5. PICK next : Spelled(more, next, Text(n), tagIt + 1)
  BY <1>1, <1>2, <1>3, <1>4, SpelledMore
<1>6. own \in Seq(Chars) /\ more \in Seq(Chars)
  BY <1>1, <1>5 DEF Spelled
<1>7. Inserted(wire', wire, Len(wire), t) /\ Len(wire) \in 0 .. Len(wire)
  BY <1>3, InsertedBehind, SeqPlaces
<1>8. \A j \in 1 .. Len(wire) : wire[j].log = n => j <= Len(wire)
  BY SeqPlaces
<1>9. PICK moved : Strewn(wire', more, moved, n)
  BY <1>1, <1>3, <1>4, <1>6, <1>7, <1>8, StrewnMore
<1>10. Text(n)' = Text(n)
  BY TextSame
<1> QED
  BY <1>5, <1>9, <1>10 DEF Collected, Reached, Whole

(* The first text of a log that begins.                                    *)
LEMMA IdChars ==
  ASSUME NEW n \in Nat
  PROVE  /\ IdText(n) \in Seq(Chars) /\ Len(IdText(n)) \in Nat /\ Len(IdText(n)) >= 1
         /\ IdText(n)[1] = FirstChar(n)
         /\ \A j \in 1 .. Len(IdText(n)) : /\ IdText(n)[j].log = n
                                           /\ IdText(n)[j] = FirstChar(n) => j = 1
<1>1. PICK b \in Nat : b = HeaderIdBytes(Rows) /\ b >= 1
  BY DEF HeaderIdBytes
<1>2. PICK t : t = HexText(n, 0, b)
  OBVIOUS
<1>3. t \in Seq(Chars) /\ Len(t) = 2 * b /\ \A j \in 1 .. 2 * b : t[j] = Char("hex", n, 0, j)
  BY <1>2, HexTextType DEF Chars
<1>4. 2 * b \in Nat /\ 2 * b >= 1 /\ 1 \in 1 .. 2 * b
  BY <1>1
<1>5. \A j : Char("hex", n, 0, j).log = n /\ Char("hex", n, 0, j).pos = j
  BY DEF Char
<1>6. t[1] = FirstChar(n)
  BY <1>3, <1>4 DEF FirstChar
<1>7. \A j \in 1 .. 2 * b : t[j].log = n /\ (t[j] = FirstChar(n) => j = 1)
  BY <1>3, <1>5, FirstChars
<1>8. IdText(n) = t
  BY <1>1, <1>2 DEF IdText
<1> QED
  BY <1>3, <1>4, <1>6, <1>7, <1>8

LEMMA SpelledId ==
  ASSUME NEW L \in Nat, NEW text \in [0 .. L -> Seq(Chars)],
         \A j \in 1 .. Len(text[0]) : text[0][j].kind # "eol"
  PROVE  \E place : Spelled(text[0], place, text, 1)
<1>1. PICK p : Spelled(<<>>, p, text, 0)
  BY SpelledNone
<1>2. 0 \in 0 .. L /\ text[0] \in Seq(Chars)
  OBVIOUS
<1>3. PICK t : t = text[0]
  OBVIOUS
<1>4. t = <<>> \o t
  BY <1>2, <1>3, ConcatEmptySeq
<1>5. PICK none : none = <<>>
  OBVIOUS
<1>6. Spelled(none, p, text, 0) /\ t = none \o text[0]
  BY <1>1, <1>3, <1>4, <1>5
<1>7. PICK q : Spelled(t, q, text, 0 + 1)
  BY <1>2, <1>6, SpelledMore
<1>8. 0 + 1 = 1
  OBVIOUS
<1> QED
  BY <1>3, <1>7, <1>8

(* All the texts of a log, put one behind the other.                       *)
LEMMA SpelledAll ==
  ASSUME NEW L \in Nat, NEW text \in [0 .. L -> Seq(Chars)],
         \A a \in 0 .. L : \A j \in 1 .. Len(text[a]) : text[a][j].kind # "eol",
         NEW f, f[1] = text[0], \A a \in 1 .. L : f[a + 1] = f[a] \o text[a]
  PROVE  \E place : Spelled(f[L + 1], place, text, L + 1)
<1> DEFINE I(k) == \E place : Spelled(f[k + 1], place, text, k + 1)
           S == {k \in Nat : k <= L => I(k)}
<1>1. 0 \in S
  <2>1. 0 \in 0 .. L /\ 0 + 1 = 1
    OBVIOUS
  <2>2. PICK t : t = text[0]
    OBVIOUS
  <2>3. \E place : Spelled(t, place, text, 1)
    BY <2>1, <2>2, SpelledId
  <2>4. I(0)
    BY <2>1, <2>2, <2>3
  <2> QED
    BY <2>4
<1>2. ASSUME NEW k \in S PROVE k + 1 \in S
  <2> SUFFICES ASSUME k + 1 <= L PROVE I(k + 1)
    OBVIOUS
  <2>1. k \in Nat /\ k + 1 \in 1 .. L /\ k + 1 \in 0 .. L /\ I(k)
    OBVIOUS
  <2>2. PICK r, t, u, v : r = k + 1 /\ t = f[k + 1] /\ u = text[k + 1] /\ v = f[k + 1 + 1]
    OBVIOUS
  <2>3. v = t \o u /\ r \in 0 .. L
    BY <2>1, <2>2
  <2>4. PICK p : Spelled(t, p, text, r)
    BY <2>1, <2>2
  <2>5. \A j \in 1 .. Len(text[r]) : text[r][j].kind # "eol"
    BY <2>3
  <2> HIDE DEF I, S
  <2>6. \E place : Spelled(v, place, text, r + 1)
    BY <2>2, <2>3, <2>4, <2>5, SpelledMore
  <2> QED
    BY <2>2, <2>6 DEF I
<1>3. S = Nat
  <2>1. S \in SUBSET Nat
    OBVIOUS
  <2> HIDE DEF S
  <2> QED
    BY <1>1, <1>2, <2>1, Induction
<1>4. L \in S /\ L <= L
  <2> HIDE DEF S
  <2> QED
    BY <1>3
<1>5. I(L)
  <2> HIDE DEF I
  <2> QED
    BY <1>4
<1> QED
  BY <1>5

LEMMA StrewnNew ==
  ASSUME NEW w \in Seq(Chars), NEW v \in Seq(Chars), NEW t \in Seq(Chars), NEW n,
         NEW k \in 0 .. Len(w), Inserted(v, w, k, t),
         \A j \in 1 .. Len(t) : t[j].log = n, \A j \in 1 .. Len(w) : w[j].log # n
  PROVE  \E rank : Strewn(v, t, rank, n)
<1>1. PICK own, rank : own = <<>> /\ rank = [i \in Nat |-> 1]
  OBVIOUS
<1>2. own \in Seq(Chars) /\ Len(own) = 0 /\ t = own \o t
  BY <1>1, EmptySeq, ConcatEmptySeq
<1>3. Strewn(w, own, rank, n)
  <2>1. rank \in [Nat -> Nat] /\ 1 .. 0 = {}
    BY <1>1
  <2> QED
    BY <1>2, <2>1 DEF Strewn
<1> QED
  BY <1>2, <1>3, StrewnMore

(* What the branches of LOG send.                                          *)
LEMMA SentChars ==
  ASSUME DeviceTypes, \/ PrintStaticArgument \/ PrintDouble \/ PrintLongDouble
                      \/ PrintStringArgument \/ SkipCode
  PROVE  /\ lpc = "args" /\ me \in DOMAIN logged /\ UNCHANGED <<logged, me, lpc, cut, decoder>>
         /\ \E t \in Seq(Chars) :
              /\ wire' = wire \o t
              /\ \A j \in 1 .. Len(t) : t[j].log = me /\ t[j] # FirstChar(me)
<1>1. lpc = "args"
  BY DEF PrintStaticArgument, PrintDouble, PrintLongDouble, PrintStringArgument, SkipCode, More
<1>2. /\ me \in DOMAIN logged /\ me \in Nat /\ va \in Nat /\ va # 0
      /\ Current.string \in Strings \cup {<<>>}
  BY <1>1, Lengths DEF Current, DeviceTypes
<1>3. UNCHANGED <<logged, me, lpc, cut, decoder>>
  BY DEF PrintStaticArgument, PrintDouble, PrintLongDouble, PrintStringArgument, SkipCode, Send,
     faults
<1>4. CASE PrintStaticArgument \/ PrintDouble \/ PrintLongDouble \/ PrintStringArgument
  <2>1. Sends
    BY <1>4, PrintsSend
  <2>2. PICK t : t = Argument
    OBVIOUS
  <2>3. t \in Seq(CharsOf(DOMAIN logged)) /\ OfArgument(t, me, va)
    BY <2>1, <2>2, ArgumentType
  <2>4. t \in Seq(Chars)
    <3>1. CharsOf(DOMAIN logged) \subseteq Chars
      BY Lengths DEF CharsOf, Chars
    <3> QED
      BY <2>3, <3>1, SeqMonotonic
  <2>5. \A j \in 1 .. Len(t) : t[j].log = me /\ t[j] # FirstChar(me)
    BY <1>2, <2>3, FirstChars DEF OfArgument
  <2>6. wire' = wire \o t
    BY <2>1, <2>2 DEF Sends, Send
  <2> QED
    BY <1>1, <1>2, <1>3, <2>4, <2>5, <2>6
<1>5. CASE SkipCode
  <2>1. PICK t : t = <<>>
    OBVIOUS
  <2>2. t \in Seq(Chars) /\ Len(t) = 0 /\ 1 .. 0 = {}
    BY <2>1, EmptySeq
  <2>3. wire' = wire \o t
    <3>1. wire \in Seq(Chars) /\ wire' = wire
      BY <1>5, WireType DEF SkipCode
    <3> QED
      BY <2>1, <3>1, ConcatEmptySeq
  <2> QED
    BY <1>1, <1>2, <1>3, <2>2, <2>3
<1> QED
  BY <1>4, <1>5

(* The logs whose call does not run keep their characters when others are  *)
(* put in.                                                                 *)
LEMMA OthersKept ==
  ASSUME DeviceTypes, DeviceTypes', NEW k \in 0 .. Len(wire), NEW t \in Seq(Chars), NEW m,
         Inserted(wire', wire, k, t), \A j \in 1 .. Len(t) : t[j].log = m,
         NEW n, n # m, Collected(n), logged'[n] = logged[n],
         Closed(n)' = Closed(n), Closed(n) \/ tagIt' = tagIt
  PROVE  Collected(n)'
<1>1. wire \in Seq(Chars) /\ wire' \in Seq(Chars)
  BY WireType, WireTypeNext
<1>2. \A j \in 1 .. Len(t) : t[j].log # n
  OBVIOUS
<1>3. PICK back : Comes(wire', wire, back, n)
  BY <1>1, <1>2, ComesInserted
<1> QED
  BY <1>1, <1>3, CollectedKept

(* The line end of the call.                                               *)
LEMMA CollectedEnded ==
  ASSUME NEW n \in Nat, Collected(n), ~Closed(n), Closed(n)',
         wire \in Seq(Chars), wire' \in Seq(Chars), logged'[n] = logged[n],
         tagIt = Length(n) + 1, wire' = Append(wire, EndOfLine(n))
  PROVE  Collected(n)'
<1>1. PICK own, place, rank : Spelled(own, place, Text(n), tagIt) /\ Strewn(wire, own, rank, n)
  BY DEF Collected, Reached, Whole
<1>2. PICK e, t : e = EndOfLine(n) /\ t = <<e>>
  OBVIOUS
<1>3. e \in Chars /\ e.log = n
  BY <1>2, MarkTypes DEF Chars, EndOfLine, Char
<1>4. t \in Seq(Chars) /\ Len(t) = 1 /\ \A j \in 1 .. Len(t) : t[j].log = n
  BY <1>2, <1>3
<1>5. own \in Seq(Chars)
  BY <1>1 DEF Spelled
<1>6. PICK more : more = Append(own, e)
  OBVIOUS
<1>7. more = own \o t /\ more \in Seq(Chars) /\ wire' = wire \o t
  BY <1>2, <1>3, <1>5, <1>6, AppendIsConcat, AppendProperties
<1>8. Inserted(wire', wire, Len(wire), t) /\ Len(wire) \in 0 .. Len(wire)
  BY <1>4, <1>7, InsertedBehind, SeqPlaces
<1>9. \A j \in 1 .. Len(wire) : wire[j].log = n => j <= Len(wire)
  BY SeqPlaces
<1>10. PICK moved : Strewn(wire', more, moved, n)
  BY <1>1, <1>4, <1>5, <1>7, <1>8, <1>9, StrewnMore
<1>11. Text(n)' = Text(n) /\ Length(n)' = Length(n)
  BY TextSame
<1>12. Reached(n)' = tagIt
  BY <1>11 DEF Reached
<1>13. Whole(own, n)' = more
  BY <1>2, <1>6 DEF Whole, EndOfLine, Char
<1> QED
  BY <1>1, <1>10, <1>11, <1>12, <1>13 DEF Collected

(* The characters of a log that is new.                                    *)
LEMMA CollectedNew ==
  ASSUME DeviceTypes, DeviceTypes', NEW n \in Nat,
         NEW k \in 0 .. Len(wire), NEW t \in Seq(Chars), Inserted(wire', wire, k, t),
         \A j \in 1 .. Len(t) : t[j].log = n, \A j \in 1 .. Len(wire) : wire[j].log # n,
         NEW own, NEW place, Spelled(own, place, Text(n)', Reached(n)'),
         t = IF Closed(n)' THEN Append(own, EndOfLine(n)) ELSE own
  PROVE  Collected(n)'
<1>1. wire \in Seq(Chars) /\ wire' \in Seq(Chars)
  BY WireType, WireTypeNext
<1>2. PICK rank : Strewn(wire', t, rank, n)
  BY <1>1, StrewnNew
<1>3. Whole(own, n)' = t
  BY DEF Whole, EndOfLine, Char
<1> QED
  BY <1>2, <1>3 DEF Collected

(* The first text of the log of a call.                                    *)
LEMMA SpelledBegin ==
  ASSUME DeviceTypes', NEW n \in DOMAIN logged', Proper(n)'
  PROVE  \E place : Spelled(IdText(n), place, Text(n)', 1)
<1>1. PICK text, L : text = Text(n)' /\ L = Length(n)'
  OBVIOUS
<1>2. ProperTexts'
  BY ProperTextsNext
<1>3. /\ L \in Nat /\ text \in [0 .. L -> Seq(Chars)]
      /\ \A a \in 0 .. L : \A j \in 1 .. Len(text[a]) : text[a][j].kind # "eol"
  BY <1>1, <1>2 DEF ProperTexts
<1>4. 0 \in 0 .. L
  BY <1>3
<1>5. PICK own : own = IdText(n)
  OBVIOUS
<1>6. text[0] = own
  <2>1. text[0] = IdText(n)'
    BY <1>1, <1>4 DEF Text, Block
  <2> QED
    BY <1>5, <2>1 DEF IdText, HexText, Char
<1>7. \E place : Spelled(own, place, text, 1)
  BY <1>3, <1>4, <1>6, SpelledId
<1> QED
  BY <1>1, <1>5, <1>7

(* What a handler's call sends of a supported placeholder.                 *)
LEMMA ArgTextSent ==
  ASSUME NEW n, NEW message \in Messages, \A k \in DOMAIN message : Supported(message[k]),
         NEW content, NEW k \in 1 .. Len(message)
  PROVE  ArgText(n, message, content, k) =
           IF message[k].base = "s" THEN Append(StringText(n, k, content), Nul(n))
           ELSE HexText(n, k, GetByteSize(message[k]).bytes)
<1>1. /\ Len(message) \in Nat /\ DOMAIN message = 1 .. Len(message) /\ k \in Nat
      /\ \A j \in 1 .. Len(message) : message[j] \in Placeholders /\ Supported(message[j])
  BY MessageTypes
<1>2. \A j \in 1 .. Len(message) : HasBranch(ArgCode(message[j]))
  BY <1>1, CodeOfSupported
<1>3. {j \in 1 .. k - 1 : HasBranch(ArgCode(message[j]))} = 1 .. k - 1
  <2>1. \A j \in 1 .. k - 1 : j \in 1 .. Len(message)
    BY <1>1
  <2> QED
    BY <1>2, <2>1
<1>4. 1 + Cardinality(1 .. k - 1) = k
  <2>1. PICK m \in Nat : m = k - 1
    BY <1>1
  <2>2. Cardinality(1 .. m) = m
    BY SMTT(30), FS_Interval
  <2> QED
    BY <1>1, <2>1, <2>2
<1>5. ArgText(n, message, content, k) = CodeText(n, k, ArgCode(message[k]), content)
  BY <1>2, <1>3, <1>4 DEF ArgText
<1> QED
  BY <1>1, <1>5, CodeOfSupported

LEMMA SpelledLog ==
  ASSUME DeviceTypes', NEW n \in DOMAIN logged', Proper(n)',
         NEW message \in Messages, NEW content \in Strings \cup {<<>>},
         logged'[n] = [message |-> message, string |-> content]
  PROVE  \E own, place : /\ Spelled(own, place, Text(n)', Length(n)' + 1)
                         /\ LogText(n, message, content) = Append(own, EndOfLine(n))
<1>1. PICK text, L : text = Text(n)' /\ L = Length(n)'
  OBVIOUS
<1>2. ProperTexts'
  BY ProperTextsNext
<1>3. /\ L \in Nat /\ text \in [0 .. L -> Seq(Chars)]
      /\ \A a \in 0 .. L : \A j \in 1 .. Len(text[a]) : text[a][j].kind # "eol"
  BY <1>1, <1>2 DEF ProperTexts
<1>4. /\ logged'[n].message = message /\ logged'[n].string = content /\ L = Len(message)
      /\ \A k \in DOMAIN message : Supported(message[k])
  <2>1. logged'[n].message = message /\ logged'[n].string = content
    OBVIOUS
  <2>2. \A k \in DOMAIN logged'[n].message : Supported(logged'[n].message[k])
    BY DEF Proper, Supported, Filled, IntBytes, IntegerSize
  <2> QED
    BY <1>1, <2>1, <2>2 DEF Length
<1>5. PICK f : /\ Adds(f, n, message, content)
               /\ LogText(n, message, content) = Append(f[Len(message) + 1], EndOfLine(n))
  BY LogTextAdds
<1>6. f[1] = text[0]
  <2>1. 0 \in 0 .. L
    BY <1>3
  <2>2. text[0] = IdText(n)'
    BY <1>1, <2>1 DEF Text, Block
  <2>3. IdText(n)' = IdText(n)
    BY DEF IdText, HexText, Char
  <2> QED
    BY <1>5, <2>2, <2>3 DEF Adds
<1>7. ASSUME NEW a \in 1 .. L PROVE f[a + 1] = f[a] \o text[a]
  <2>1. a \in 0 .. L /\ a # 0
    BY <1>3
  <2>2. text[a] = Block(n, a)'
    BY <1>1, <2>1 DEF Text
  <2>3. Block(n, a)' = IF message[a].base = "s" THEN Append(StringText(n, a, content), Nul(n))
                       ELSE HexText(n, a, GetByteSize(message[a]).bytes)
    BY <1>4, <2>1 DEF Block, StringText, HexText, Nul, Char
  <2>4. text[a] = ArgText(n, message, content, a)
    BY <1>4, <2>2, <2>3, ArgTextSent
  <2> QED
    BY <1>4, <1>5, <2>4 DEF Adds
<1>8. PICK own : own = f[L + 1]
  OBVIOUS
<1>9. \E place : Spelled(own, place, text, L + 1)
  BY <1>3, <1>6, <1>7, <1>8, SpelledAll
<1> QED
  BY <1>1, <1>4, <1>5, <1>8, <1>9

LEMMA LogsOnWire ==
  ASSUME DeviceTypes
  PROVE  /\ wire \in Seq(Chars) /\ Len(wire) \in Nat /\ DOMAIN wire = 1 .. Len(wire)
         /\ Len(wire) \in 0 .. Len(wire)
         /\ \A k \in 1 .. Len(wire) : wire[k].log \in DOMAIN logged /\ wire[k].log <= Len(logged)
<1>1. wire \in Seq(CharsOf(DOMAIN logged)) /\ wire \in Seq(Chars)
  BY WireType DEF DeviceTypes
<1>2. \A k \in 1 .. Len(wire) : wire[k] \in CharsOf(DOMAIN logged)
  BY <1>1, ElementOfSeq
<1>3. \A k \in 1 .. Len(wire) : wire[k].log \in DOMAIN logged
  BY <1>2 DEF CharsOf
<1> QED
  BY <1>1, <1>3, Lengths, SeqPlaces

-----------------------------------------------------------------------------
(* Every step leaves what the logs sent in order.                          *)

LEMMA ScatterBegin ==
  ASSUME DeviceTypes, DeviceTypes', ScatterInv, NEW message \in Messages,
         NEW content \in Contents(message), LogBegin(message, content)
  PROVE  ScatterInv'
<1>1. /\ logged' = Append(logged, [message |-> message, string |-> content])
      /\ Len(logged) < MaxLogs /\ me' = Len(logged') /\ wire' = wire \o IdText(me')
      /\ lpc = "idle" /\ lpc' = "args" /\ tagIt' = 1 /\ va' = 1 /\ cut' = cut
      /\ content \in Strings \cup {<<>>}
  BY DEF LogBegin, faults, Contents
<1>2. /\ Len(logged') = Len(logged) + 1 /\ Len(logged) \in Nat
      /\ DOMAIN logged = 1 .. Len(logged) /\ DOMAIN logged' = 1 .. Len(logged) + 1
      /\ \A m \in DOMAIN logged : logged'[m] = logged[m]
  <2>1. /\ logged' \in Seq(Logs) /\ Len(logged') = Len(logged) + 1
        /\ \A m \in DOMAIN logged : logged'[m] = logged[m]
    BY <1>1, MoreLogged
  <2> QED
    BY <2>1, Lengths, LenProperties
<1>3. PICK n, t : n = me' /\ t = IdText(n)
  OBVIOUS
<1>4. n \in Nat /\ n = Len(logged) + 1 /\ n \in DOMAIN logged' /\ n \notin DOMAIN logged
  BY <1>1, <1>2, <1>3
<1>5. /\ t \in Seq(Chars) /\ \A j \in 1 .. Len(t) : t[j].log = n
      /\ \A j \in 1 .. Len(t) : t[j] = FirstChar(n) => j = 1
  BY <1>3, <1>4, IdChars
<1>6. /\ wire \in Seq(Chars) /\ wire' \in Seq(Chars) /\ Len(wire) \in 0 .. Len(wire)
      /\ \A i \in 1 .. Len(wire) : wire[i].log < n /\ wire[i].log # n /\ i <= Len(wire)
  <2>1. \A l \in DOMAIN logged : l < n
    BY <1>2, <1>4
  <2> QED
    BY <1>4, <2>1, LogsOnWire, WireTypeNext
<1>7. wire' = wire \o t
  BY <1>1, <1>3
<1>8. Inserted(wire', wire, Len(wire), t)
  BY <1>5, <1>6, <1>7, InsertedBehind
<1>9. Order(wire')
  <2>1. \A i \in 1 .. Len(wire) : \A m \in Nat : wire[i] = FirstChar(m) => i <= Len(wire)
    BY <1>6
  <2>2. \A j \in 1 .. Len(t) : t[j] = FirstChar(n) =>
          j = 1 /\ \A i \in 1 .. Len(wire) : wire[i].log < n
    BY <1>5, <1>6
  <2>3. Order(wire)
    BY DEF ScatterInv
  <2> QED
    BY <1>4, <1>5, <1>6, <1>8, <2>1, <2>2, <2>3, OrderInserted
<1>10. lpc' = "args" /\ Proper(me)' => va' = tagIt' /\ tagIt' <= Length(me)' + 1
  <2>1. ASSUME Proper(me)' PROVE Length(me)' \in Nat
    <3>1. ProperTexts'
      BY ProperTextsNext
    <3>2. me' \in DOMAIN logged'
      BY <1>3, <1>4
    <3> QED
      BY <2>1, <3>1, <3>2 DEF ProperTexts
  <2> QED
    BY <1>1, <2>1
<1>11. ASSUME NEW m \in DOMAIN logged' \ cut', Proper(m)' PROVE Collected(m)'
  <2>1. CASE m = n
    <3>1. Reached(m)' = 1 /\ ~Closed(m)'
      BY <1>1, <1>3, <2>1 DEF Reached, Closed
    <3>2. Proper(n)' /\ Reached(n)' = 1 /\ ~Closed(n)'
      BY <1>11, <2>1, <3>1
    <3>3. PICK place : Spelled(t, place, Text(n)', Reached(n)')
      BY <1>3, <1>4, <3>2, SpelledBegin
    <3>4. Collected(n)'
      BY <1>4, <1>5, <1>6, <1>8, <3>2, <3>3, CollectedNew
    <3> QED
      BY <2>1, <3>4
  <2>2. CASE m # n
    <3>1. m \in DOMAIN logged \ cut /\ logged'[m] = logged[m]
      BY <1>1, <1>2, <1>4, <2>2
    <3>2. Collected(m)
      BY <1>11, <3>1, ProperSame DEF ScatterInv
    <3>3. Closed(m) /\ Closed(m)'
      BY <1>1, <1>3, <2>2 DEF Closed
    <3>4. Closed(m)' = Closed(m)
      BY <3>3
    <3> QED
      BY <1>5, <1>6, <1>8, <2>2, <3>1, <3>2, <3>3, <3>4, OthersKept
  <2> QED
    BY <2>1, <2>2
<1> QED
  BY <1>9, <1>10, <1>11 DEF ScatterInv

LEMMA ScatterSend ==
  ASSUME DeviceTypes, DeviceTypes', ScatterInv,
         \/ PrintStaticArgument \/ PrintDouble \/ PrintLongDouble
         \/ PrintStringArgument \/ SkipCode
  PROVE  ScatterInv'
<1>1. lpc = "args" /\ me \in DOMAIN logged /\ UNCHANGED <<logged, me, lpc, cut>>
  BY SentChars
<1>2. PICK t \in Seq(Chars) : /\ wire' = wire \o t
                              /\ \A j \in 1 .. Len(t) : t[j].log = me /\ t[j] # FirstChar(me)
  BY SentChars
<1>3. /\ wire \in Seq(Chars) /\ wire' \in Seq(Chars) /\ Len(wire) \in 0 .. Len(wire)
      /\ Len(wire) \in Nat /\ me \in Nat
  BY <1>1, LogsOnWire, WireTypeNext, Lengths
<1>4. Inserted(wire', wire, Len(wire), t)
  BY <1>2, <1>3, InsertedBehind
<1>5. Order(wire')
  <2>1. \A i \in 1 .. Len(wire) : \A m \in Nat : wire[i] = FirstChar(m) => i <= Len(wire)
    BY <1>3
  <2>2. \A j \in 1 .. Len(t) : t[j] = FirstChar(me) =>
          j = 1 /\ \A i \in 1 .. Len(wire) : wire[i].log < me
    BY <1>2
  <2>3. Order(wire) /\ \A j \in 1 .. Len(t) : t[j].log = me
    BY <1>2 DEF ScatterInv
  <2> QED
    BY <1>3, <1>4, <2>1, <2>2, <2>3, OrderInserted
<1>6. \A m : Closed(m)' = Closed(m) /\ Proper(m)' = Proper(m) /\ Length(m)' = Length(m)
  <2>1. \A m : Proper(m)' = Proper(m) /\ Length(m)' = Length(m)
    BY <1>1, ProperSame, TextSame
  <2> QED
    BY <1>1, <2>1 DEF Closed
<1>7. ASSUME Proper(me)
      PROVE  /\ tagIt \in 1 .. Length(me) /\ Send(Block(me, tagIt)) /\ Length(me) \in Nat
             /\ va = tagIt /\ tagIt \in Nat
  <2>1. lpc = "args" => Proper(me) /\ va = tagIt
    BY <1>7 DEF ScatterInv
  <2>2. Length(me) \in Nat
    BY <1>1, <1>7, TextType
  <2> QED
    BY <1>1, <2>1, <2>2, SendsBlock DEF DeviceTypes
<1>8. lpc' = "args" /\ Proper(me)' => va' = tagIt' /\ tagIt' <= Length(me)' + 1
  <2> SUFFICES ASSUME Proper(me)' PROVE va' = tagIt' /\ tagIt' <= Length(me)' + 1
    OBVIOUS
  <2>1. Proper(me) /\ Length(me)' = Length(me)
    BY <1>1, ProperSame, TextSame
  <2>2. va' = va + 1 /\ tagIt' = tagIt + 1
    BY <1>7, <2>1 DEF Send
  <2> QED
    BY <1>7, <2>1, <2>2
<1>9. ASSUME NEW n \in DOMAIN logged' \ cut', Proper(n)' PROVE Collected(n)'
  <2>1. n \in DOMAIN logged \ cut /\ logged'[n] = logged[n] /\ Proper(n) /\ Collected(n)
    BY <1>1, <1>6, <1>9 DEF ScatterInv
  <2>2. CASE n = me
    <3>1. PICK b : b = Block(n, tagIt)
      OBVIOUS
    <3>2. /\ tagIt \in 1 .. Length(n) /\ Length(n) \in Nat
          /\ wire' = wire \o b /\ tagIt' = tagIt + 1
      BY <1>7, <2>1, <2>2, <3>1 DEF Send
    <3>3. tagIt \in 0 .. Length(n) /\ ProperTexts
      BY <3>2, ProperTextsHold
    <3>4. b \in Seq(Chars)
      BY <2>1, <3>1, <3>3 DEF ProperTexts, Text
    <3>5. \A j \in 1 .. Len(b) : b[j].log = n
      <4>1. PICK m, d, c \in Nat : m = Len(wire) /\ d = Len(b) /\ c = Len(t)
        BY <3>4, SeqPlaces
      <4>2. Inserted(wire', wire, m, b)
        BY <1>3, <3>2, <3>4, <4>1, InsertedBehind
      <4>3. m + d = m + c /\ m \in Nat /\ d \in Nat
        BY <1>3, <1>4, <3>4, <4>1, <4>2, SeqPlaces DEF Inserted
      <4>4. c = d
        BY <4>3
      <4>5. ASSUME NEW j \in 1 .. d PROVE b[j] = t[j]
        <5>1. PICK i : i = m + j
          OBVIOUS
        <5>2. i \in 1 .. m + d /\ ~(i <= m) /\ i <= m + d /\ i - m = j
          BY <4>3, <5>1
        <5>3. wire'[i] = b[j]
          BY <4>1, <4>2, <4>3, <5>2 DEF Inserted
        <5>4. wire'[i] = t[j]
          BY <1>4, <4>1, <4>4, <5>2 DEF Inserted
        <5> QED
          BY <5>3, <5>4
      <4> QED
        BY <1>2, <2>2, <4>1, <4>4, <4>5
    <3>6. ~Closed(n) /\ ~Closed(n)'
      BY <1>1, <2>2 DEF Closed
    <3> QED
      BY <1>3, <2>1, <3>1, <3>2, <3>3, <3>5, <3>6, CollectedMore
  <2>3. CASE n # me
    <3>1. Closed(n) /\ Closed(n)' = Closed(n)
      BY <1>6, <2>3 DEF Closed
    <3>2. \A j \in 1 .. Len(t) : t[j].log = me
      BY <1>2
    <3> QED
      BY <1>3, <1>4, <2>1, <2>3, <3>1, <3>2, OthersKept
  <2> QED
    BY <2>2, <2>3
<1> QED
  BY <1>5, <1>8, <1>9 DEF ScatterInv

LEMMA ScatterEnd ==
  ASSUME DeviceTypes, DeviceTypes', ScatterInv, LogEnd
  PROVE  ScatterInv'
<1>1. /\ lpc = "args" /\ lpc' = "idle" /\ tagIt > Len(Codes)
      /\ wire' = Append(wire, EndOfLine(me)) /\ UNCHANGED <<logged, me, cut>>
  BY DEF LogEnd, faults
<1>2. me \in DOMAIN logged /\ me \in Nat /\ tagIt \in Nat
  BY <1>1, Lengths DEF DeviceTypes
<1>3. /\ wire \in Seq(Chars) /\ wire' \in Seq(Chars) /\ Len(wire) \in 0 .. Len(wire)
      /\ Len(wire) \in Nat
  BY LogsOnWire, WireTypeNext
<1>4. PICK t : t = <<EndOfLine(me)>>
  OBVIOUS
<1>5. EndOfLine(me) \in Chars /\ EndOfLine(me).log = me /\ EndOfLine(me).kind = "eol"
  BY <1>2, MarkTypes DEF Chars, EndOfLine, Char
<1>6. t \in Seq(Chars) /\ \A j \in 1 .. Len(t) : t[j].log = me /\ t[j] # FirstChar(me)
  <2>1. Len(t) = 1 /\ t[1] = EndOfLine(me) /\ EndOfLine(me) # FirstChar(me)
    BY <1>4, <1>5, FirstChars
  <2> QED
    BY <1>4, <1>5, <2>1
<1>7. wire' = wire \o t
  BY <1>1, <1>3, <1>4, <1>5, AppendIsConcat
<1>8. Inserted(wire', wire, Len(wire), t)
  BY <1>3, <1>6, <1>7, InsertedBehind
<1>9. Order(wire')
  <2>1. \A i \in 1 .. Len(wire) : \A m \in Nat : wire[i] = FirstChar(m) => i <= Len(wire)
    BY <1>3
  <2>2. \A j \in 1 .. Len(t) : t[j] = FirstChar(me) =>
          j = 1 /\ \A i \in 1 .. Len(wire) : wire[i].log < me
    BY <1>6
  <2>3. Order(wire) /\ \A j \in 1 .. Len(t) : t[j].log = me
    BY <1>6 DEF ScatterInv
  <2> QED
    BY <1>2, <1>3, <1>6, <1>8, <2>1, <2>2, <2>3, OrderInserted
<1>10. ASSUME NEW n \in DOMAIN logged' \ cut', Proper(n)' PROVE Collected(n)'
  <2>1. n \in DOMAIN logged \ cut /\ logged'[n] = logged[n] /\ Proper(n) /\ Collected(n)
    BY <1>1, <1>10, ProperSame DEF ScatterInv
  <2>2. CASE n = me
    <3>1. tagIt = Length(n) + 1
      <4>1. tagIt <= Length(n) + 1 /\ Length(n) \in Nat
        BY <1>1, <2>1, <2>2, TextType DEF ScatterInv
      <4>2. tagIt > Length(n)
        BY <1>1, <2>2, CodesOfMessage DEF Length, Current
      <4> QED
        BY <1>2, <4>1, <4>2
    <3>2. ~Closed(n) /\ Closed(n)'
      BY <1>1, <2>2 DEF Closed
    <3>3. n \in Nat /\ wire' = Append(wire, EndOfLine(n))
      BY <1>1, <1>2, <2>2
    <3> QED
      BY <1>3, <2>1, <3>1, <3>2, <3>3, CollectedEnded
  <2>3. CASE n # me
    <3>1. Closed(n) /\ Closed(n)'
      BY <1>1, <2>3 DEF Closed
    <3>2. Closed(n)' = Closed(n) /\ \A j \in 1 .. Len(t) : t[j].log = me
      BY <1>6, <3>1
    <3> QED
      BY <1>3, <1>6, <1>8, <2>1, <2>3, <3>1, <3>2, OthersKept
  <2> QED
    BY <2>2, <2>3
<1> QED
  BY <1>1, <1>9, <1>10 DEF ScatterInv

LEMMA ScatterLose ==
  ASSUME DeviceTypes, DeviceTypes', ScatterInv, Lose
  PROVE  ScatterInv'
<1>1. /\ lpc = "idle" /\ UNCHANGED <<logged, me, lpc, tagIt, va>>
  BY DEF Lose
<1>2. PICK k \in DOMAIN wire : wire' = Before(k) \o After(k) /\ cut' = cut \cup {wire[k].log}
  BY DEF Lose
<1>3. /\ wire \in Seq(Chars) /\ wire' \in Seq(Chars) /\ k \in 1 .. Len(wire)
  BY LogsOnWire, WireTypeNext
<1>4. PICK v : v = wire'
  OBVIOUS
<1>5. v \in Seq(Chars) /\ v = SubSeq(wire, 1, k - 1) \o SubSeq(wire, k + 1, Len(wire)) /\ Order(wire)
  BY <1>2, <1>3, <1>4 DEF Before, After, ScatterInv
<1>6. Order(v) /\ \A n : n # wire[k].log => \E back : Comes(v, wire, back, n)
  BY <1>3, <1>5, LoseKeeps
<1>7. ASSUME NEW n \in DOMAIN logged' \ cut', Proper(n)' PROVE Collected(n)'
  <2>1. n \in DOMAIN logged \ cut /\ logged'[n] = logged[n] /\ n # wire[k].log
    BY <1>1, <1>2
  <2>2. Collected(n)
    BY <1>7, <2>1, ProperSame DEF ScatterInv
  <2>3. PICK back : Comes(wire', wire, back, n)
    BY <1>4, <1>6, <2>1
  <2>4. Closed(n)' = Closed(n) /\ tagIt' = tagIt
    BY <1>1 DEF Closed
  <2> QED
    BY <1>3, <2>1, <2>2, <2>3, <2>4, CollectedKept
<1> QED
  BY <1>1, <1>4, <1>6, <1>7 DEF ScatterInv

(* The line end of a log is the last of its characters.                    *)
LEMMA LineEndLast ==
  ASSUME NEW n, Collected(n), wire \in Seq(Chars), NEW k \in 1 .. Len(wire), wire[k].log = n,
         wire[k].kind = "eol", NEW i \in 1 .. Len(wire), k < i
  PROVE  wire[i].log # n
<1> SUFFICES ASSUME wire[i].log = n PROVE FALSE
  OBVIOUS
<1>1. PICK own, place, rank : /\ Spelled(own, place, Text(n), Reached(n))
                              /\ Strewn(wire, Whole(own, n), rank, n)
  BY DEF Collected
<1>2. PICK whole : whole = Whole(own, n)
  OBVIOUS
<1>3. /\ rank[k] \in 1 .. Len(whole) /\ whole[rank[k]] = wire[k]
      /\ rank[i] \in 1 .. Len(whole) /\ rank[k] < rank[i]
  BY <1>1, <1>2 DEF Strewn
<1>4. own \in Seq(Chars) /\ Len(own) \in Nat /\ \A p \in 1 .. Len(own) : own[p].kind # "eol"
  <2>1. /\ own \in Seq(Chars) /\ place[0] = 1 /\ place[Reached(n)] = Len(own) + 1
        /\ \A p \in place[0] .. place[Reached(n)] - 1 : own[p].kind # "eol"
    BY <1>1 DEF Spelled, Blocks
  <2>2. Len(own) \in Nat
    BY <2>1, LenProperties
  <2>3. (Len(own) + 1) - 1 = Len(own)
    BY <2>2
  <2> QED
    BY <2>1, <2>2, <2>3
<1>5. CASE ~Closed(n)
  BY <1>2, <1>3, <1>4, <1>5 DEF Whole
<1>6. CASE Closed(n)
  <2>1. PICK e : e = EndOfLine(n)
    OBVIOUS
  <2>2. n \in Nat
    <3>1. wire[k].log \in Nat
      BY SeqPlaces
    <3> QED
      BY <3>1
  <2>3. e \in Chars
    BY <2>1, <2>2, MarkTypes DEF Chars
  <2>4. /\ Len(whole) = Len(own) + 1 /\ \A p \in 1 .. Len(own) : whole[p] = own[p]
    BY <1>2, <1>4, <1>6, <2>1, <2>3, AppendProperties DEF Whole
  <2>5. rank[k] \in 1 .. Len(own)
    BY <1>3, <1>4, <2>4
  <2> QED
    BY <1>3, <1>4, <2>4, <2>5
<1> QED
  BY <1>5, <1>6

LEMMA ScatterLate ==
  ASSUME DeviceTypes, DeviceTypes', ScatterInv, Late
  PROVE  ScatterInv'
<1>1. /\ lpc = "idle" /\ UNCHANGED <<logged, me, lpc, tagIt, va, cut>>
  BY DEF Late
<1>2. PICK k \in DOMAIN wire, j \in DOMAIN wire :
        /\ k < j /\ IsLineEnd(k)
        /\ wire' = Before(k) \o SubSeq(wire, k + 1, j) \o <<wire[k]>> \o After(j)
  BY DEF Late
<1>3. /\ wire \in Seq(Chars) /\ wire' \in Seq(Chars) /\ k \in 1 .. Len(wire) /\ j \in 1 .. Len(wire)
      /\ Len(wire) \in Nat
  BY LogsOnWire, WireTypeNext
<1>4. PICK v : v = wire'
  OBVIOUS
<1>5. /\ v \in Seq(Chars) /\ Order(wire)
      /\ v = SubSeq(wire, 1, k - 1) \o SubSeq(wire, k + 1, j) \o <<wire[k]>>
             \o SubSeq(wire, j + 1, Len(wire))
  BY <1>2, <1>3, <1>4 DEF Before, After, ScatterInv
<1>6. wire[k].kind = "eol"
  <2>1. \A l : EndOfLine(l).kind = "eol"
    BY DEF EndOfLine, Char
  <2> QED
    BY <1>2, <2>1 DEF IsLineEnd
<1>7. /\ Order(v)
      /\ \A n : (wire[k].log = n => \A i \in k + 1 .. j : wire[i].log # n)
                  => \E back : Comes(v, wire, back, n)
  BY <1>2, <1>3, <1>5, <1>6, LateKeeps
<1>8. ASSUME NEW n \in DOMAIN logged' \ cut', Proper(n)' PROVE Collected(n)'
  <2>1. n \in DOMAIN logged \ cut /\ logged'[n] = logged[n]
    BY <1>1
  <2>2. Collected(n)
    BY <1>8, <2>1, ProperSame DEF ScatterInv
  <2>3. ASSUME wire[k].log = n, NEW i \in k + 1 .. j PROVE wire[i].log # n
    <3>1. i \in 1 .. Len(wire) /\ k < i
      BY <1>3
    <3> QED
      BY <1>3, <1>6, <2>2, <2>3, <3>1, LineEndLast
  <2>4. PICK back : Comes(wire', wire, back, n)
    BY <1>4, <1>7, <2>3
  <2>5. Closed(n)' = Closed(n) /\ tagIt' = tagIt
    BY <1>1 DEF Closed
  <2> QED
    BY <1>3, <2>1, <2>2, <2>4, <2>5, CollectedKept
<1> QED
  BY <1>1, <1>4, <1>7, <1>8 DEF ScatterInv

LEMMA ScatterReset ==
  ASSUME DeviceTypes, DeviceTypes', ScatterInv, Reset
  PROVE  ScatterInv'
<1>1. lpc = "args" /\ lpc' = "idle" /\ cut' = cut \cup {me} /\ UNCHANGED <<logged, me>>
  BY DEF Reset
<1>2. PICK k \in Mine \cup {Len(wire) + 1} :
        (\A i \in k .. Len(wire) : i \in Mine) /\ wire' = Before(k)
  BY DEF Reset
<1>3. /\ wire \in Seq(Chars) /\ wire' \in Seq(Chars) /\ k \in 1 .. Len(wire) + 1
  BY LogsOnWire, WireTypeNext DEF Mine
<1>4. PICK v : v = wire'
  OBVIOUS
<1>5. v \in Seq(Chars) /\ v = SubSeq(wire, 1, k - 1) /\ Order(wire)
  BY <1>2, <1>3, <1>4 DEF Before, ScatterInv
<1>6. /\ Order(v)
      /\ \A n : (\A i \in k .. Len(wire) : wire[i].log # n) => \E back : Comes(v, wire, back, n)
  BY <1>3, <1>5, ResetKeeps
<1>7. ASSUME NEW n \in DOMAIN logged' \ cut', Proper(n)' PROVE Collected(n)'
  <2>1. n \in DOMAIN logged \ cut /\ logged'[n] = logged[n] /\ n # me
    BY <1>1
  <2>2. Collected(n)
    BY <1>7, <2>1, ProperSame DEF ScatterInv
  <2>3. \A i \in k .. Len(wire) : wire[i].log # n
    BY <1>2, <2>1 DEF Mine
  <2>4. PICK back : Comes(wire', wire, back, n)
    BY <1>4, <1>6, <2>3
  <2>5. Closed(n) /\ Closed(n)'
    BY <1>1, <2>1 DEF Closed
  <2>6. Closed(n)' = Closed(n)
    BY <2>5
  <2> QED
    BY <1>3, <2>1, <2>2, <2>4, <2>5, <2>6, CollectedKept
<1> QED
  BY <1>1, <1>4, <1>6, <1>7 DEF ScatterInv

LEMMA ScatterInterrupt ==
  ASSUME DeviceTypes, DeviceTypes', ScatterInv, Interrupt
  PROVE  ScatterInv'
<1>0. PICK message \in Messages : \E content \in Contents(message), k \in DOMAIN wire :
        /\ \E j \in Mine : j <= k
        /\ \A i \in k + 1 .. Len(wire) : i \in Mine
        /\ logged' = Append(logged, [message |-> message, string |-> content])
        /\ wire' = Before(k + 1) \o LogText(Len(logged'), message, content) \o After(k)
  BY DEF Interrupt
<1>6a. PICK content \in Contents(message), k \in DOMAIN wire :
        /\ \E j \in Mine : j <= k
        /\ \A i \in k + 1 .. Len(wire) : i \in Mine
        /\ logged' = Append(logged, [message |-> message, string |-> content])
        /\ wire' = Before(k + 1) \o LogText(Len(logged'), message, content) \o After(k)
  BY <1>0
<1>1. /\ lpc = "args" /\ Len(logged) < MaxLogs /\ UNCHANGED <<me, lpc, tagIt, va, cut>>
      /\ content \in Strings \cup {<<>>}
  BY DEF Interrupt, Contents
<1>2. /\ Len(logged') = Len(logged) + 1 /\ Len(logged) \in Nat
      /\ DOMAIN logged = 1 .. Len(logged) /\ DOMAIN logged' = 1 .. Len(logged) + 1
      /\ \A m \in DOMAIN logged : logged'[m] = logged[m]
      /\ logged'[Len(logged')] = [message |-> message, string |-> content]
      /\ me \in DOMAIN logged
  <2>1. /\ logged' \in Seq(Logs) /\ Len(logged') = Len(logged) + 1
        /\ \A m \in DOMAIN logged : logged'[m] = logged[m]
        /\ logged'[Len(logged')] = [message |-> message, string |-> content]
    BY <1>1, <1>6a, MoreLogged
  <2> QED
    BY <1>1, <2>1, Lengths, LenProperties
<1>3. PICK n, t : n = Len(logged') /\ t = LogText(n, message, content)
  OBVIOUS
<1>4. n \in Nat /\ n = Len(logged) + 1 /\ n \in DOMAIN logged' /\ n \notin DOMAIN logged
  BY <1>2, <1>3
<1>5. /\ t \in Seq(Chars) /\ \A j \in 1 .. Len(t) : t[j].log = n
      /\ \A j \in 1 .. Len(t) : t[j] = FirstChar(n) => j = 1
  <2>1. t \in Seq(Chars) /\ Opens(t, n)
    BY <1>1, <1>3, <1>4, LogTextType DEF Chars
  <2> QED
    BY <2>1 DEF Opens
<1>6. /\ k \in DOMAIN wire
      /\ \E j \in Mine : j <= k
      /\ \A i \in k + 1 .. Len(wire) : i \in Mine
      /\ wire' = Before(k + 1) \o t \o After(k)
  BY <1>3, <1>6a
<1>7. /\ wire \in Seq(Chars) /\ wire' \in Seq(Chars) /\ k \in 0 .. Len(wire) /\ k \in Nat
      /\ Len(wire) \in Nat /\ DOMAIN wire = 1 .. Len(wire)
      /\ \A i \in 1 .. Len(wire) : wire[i].log < n /\ wire[i].log # n
  <2>1. \A l \in DOMAIN logged : l < n
    BY <1>2, <1>4
  <2>2. k \in 0 .. Len(wire)
    BY LogsOnWire
  <2> QED
    BY <1>4, <2>1, <2>2, LogsOnWire, WireTypeNext
<1>8. Inserted(wire', wire, k, t)
  <2>1. (k + 1) - 1 = k
    BY <1>7
  <2>2. wire' = SubSeq(wire, 1, k) \o t \o SubSeq(wire, k + 1, Len(wire))
    BY <1>6, <2>1 DEF Before, After
  <2> QED
    BY <1>5, <1>7, <2>2, PutIn
<1>9. Order(wire')
  <2>1. ASSUME NEW i \in 1 .. Len(wire), NEW m \in Nat, wire[i] = FirstChar(m)
        PROVE  i <= k
    <3> SUFFICES ASSUME ~(i <= k) PROVE FALSE
      OBVIOUS
    <3>1. i \in k + 1 .. Len(wire)
      BY <1>7
    <3>2. wire[i].log = me
      BY <1>6, <3>1 DEF Mine
    <3>3. m = me
      BY <2>1, <3>2, FirstChars
    <3>4. PICK j \in 1 .. Len(wire) : wire[j].log = me /\ j <= k
      BY <1>6, <1>7 DEF Mine
    <3>5. i <= j
      BY <2>1, <3>3, <3>4 DEF ScatterInv, Order
    <3> QED
      BY <1>7, <3>4, <3>5
  <2>2. \A j \in 1 .. Len(t) : t[j] = FirstChar(n) =>
          j = 1 /\ \A i \in 1 .. Len(wire) : wire[i].log < n
    BY <1>5, <1>7
  <2>3. Order(wire) /\ \A j \in 1 .. Len(t) : t[j].log = n
    BY <1>5 DEF ScatterInv
  <2> QED
    BY <1>4, <1>5, <1>7, <1>8, <2>1, <2>2, <2>3, OrderInserted
<1>10. lpc' = "args" /\ Proper(me)' => va' = tagIt' /\ tagIt' <= Length(me)' + 1
  <2>1. logged'[me] = logged[me]
    BY <1>2
  <2>2. PICK m : m = me
    OBVIOUS
  <2>3. Proper(m)' = Proper(m) /\ Length(m)' = Length(m)
    BY <2>1, <2>2, ProperSame, TextSame
  <2>4. (Proper(me)' <=> Proper(m)') /\ Length(me)' = Length(m)'
    BY <1>1, <2>2
  <2> QED
    BY <1>1, <2>2, <2>3, <2>4 DEF ScatterInv
<1>11. ASSUME NEW m \in DOMAIN logged' \ cut', Proper(m)' PROVE Collected(m)'
  <2>1. CASE m = n
    <3>1. Closed(n)'
      BY <1>1, <1>2, <1>4 DEF Closed
    <3>2. Reached(n)' = Length(n)' + 1
      BY <3>1 DEF Reached
    <3>3. PICK own, place : /\ Spelled(own, place, Text(n)', Length(n)' + 1)
                            /\ t = Append(own, EndOfLine(n))
      <4>1. Proper(n)' /\ logged'[n] = [message |-> message, string |-> content]
        BY <1>2, <1>3, <1>11, <2>1
      <4> QED
        BY <1>1, <1>3, <1>4, <4>1, SpelledLog
    <3>4. Spelled(own, place, Text(n)', Reached(n)')
      BY <3>2, <3>3
    <3>5. Collected(n)'
      BY <1>4, <1>5, <1>7, <1>8, <3>1, <3>3, <3>4, CollectedNew
    <3> QED
      BY <2>1, <3>5
  <2>2. CASE m # n
    <3>1. m \in DOMAIN logged \ cut /\ logged'[m] = logged[m]
      BY <1>1, <1>2, <1>4, <2>2
    <3>2. Collected(m)
      BY <1>11, <3>1, ProperSame DEF ScatterInv
    <3>3. Closed(m)' = Closed(m) /\ tagIt' = tagIt
      BY <1>1 DEF Closed
    <3> QED
      BY <1>5, <1>7, <1>8, <2>2, <3>1, <3>2, <3>3, OthersKept
  <2> QED
    BY <2>1, <2>2
<1> QED
  BY <1>9, <1>10, <1>11 DEF ScatterInv

LEMMA ScatterSame ==
  ASSUME DeviceTypes, ScatterInv, UNCHANGED <<logged, me, lpc, tagIt, va, wire, cut>>
  PROVE  ScatterInv'
<1>1. \A n : /\ Closed(n)' = Closed(n) /\ Proper(n)' = Proper(n) /\ Length(n)' = Length(n)
             /\ logged'[n] = logged[n]
  <2>1. \A n : Proper(n)' = Proper(n) /\ Length(n)' = Length(n)
    BY ProperSame, TextSame
  <2> QED
    BY <2>1 DEF Closed
<1>2. ASSUME NEW n \in DOMAIN logged' \ cut', Proper(n)' PROVE Collected(n)'
  <2>1. n \in DOMAIN logged \ cut /\ Collected(n)
    BY <1>1, <1>2 DEF ScatterInv
  <2>2. wire \in Seq(Chars) /\ wire' \in Seq(Chars)
    BY WireType
  <2>3. PICK back : Comes(wire', wire, back, n)
    BY <2>2, ComesSame
  <2> QED
    BY <1>1, <2>1, <2>2, <2>3, CollectedKept
<1>3. lpc' = "args" /\ Proper(me)' => va' = tagIt' /\ tagIt' <= Length(me)' + 1
  <2>1. Length(me)' = Length(me) /\ Proper(me)' = Proper(me)
    BY DEF Length, Proper, SendsNewline, Supported, Filled, IntBytes, ArgCode, GetByteSize, Arg,
           IntegerSize
  <2> QED
    BY <2>1 DEF ScatterInv
<1>4. Order(wire')
  BY DEF ScatterInv
<1> QED
  BY <1>2, <1>3, <1>4 DEF ScatterInv

LEMMA ScatterNext ==
  ASSUME TypeInv, ScatterInv, [Next]_vars
  PROVE  ScatterInv'
<1>1. DeviceTypes /\ DeviceTypes'
  <2>1. TypeInv'
    BY TypeNext
  <2> QED
    BY <2>1 DEF TypeInv
<1>2. CASE Device
  BY <1>1, <1>2, ScatterBegin, ScatterSend, ScatterEnd DEF Device
<1>3. CASE Disturbance
  BY <1>1, <1>3, ScatterLose, ScatterLate, ScatterReset, ScatterInterrupt DEF Disturbance
<1>4. CASE Collect \/ DecodeStep \/ UNCHANGED vars
  <2>1. UNCHANGED device
    BY <1>4 DEF DecodeStep, GetLine, EndOfFile, IndexTerminates, ReadIndex, ReadString,
         ReadNumber, NumberTerminates, StringBreaks, LinePrinted, Terminate, Show, FinishLine,
         Collect, vars
  <2>2. UNCHANGED <<logged, me, lpc, tagIt, va, wire, cut>>
    BY <2>1 DEF device, faults
  <2> QED
    BY <1>1, <2>2, ScatterSame
<1> QED
  BY <1>2, <1>3, <1>4 DEF Next

LEMMA ScatterInit == Init => ScatterInv
<1> SUFFICES ASSUME Init PROVE ScatterInv
  OBVIOUS
<1>1. logged = <<>> /\ wire = <<>> /\ lpc = "idle"
  BY DEF Init
<1>2. DOMAIN logged = {} /\ Len(wire) = 0 /\ 1 .. 0 = {}
  BY <1>1
<1> QED
  BY <1>1, <1>2 DEF ScatterInv, Order

-----------------------------------------------------------------------------
(* A log that arrives in a line of its own.                                *)

(* Numbers that increase along an interval and leave none out count it.    *)
LEMMA Consecutive ==
  ASSUME NEW first \in Nat, NEW last \in Nat, NEW N \in Nat, NEW f,
         \A k \in first .. last : f[k] \in 1 .. N,
         \A j, k \in first .. last : j < k => f[j] < f[k],
         \A i \in 1 .. N : \E k \in first .. last : f[k] = i
  PROVE  /\ \A k \in first .. last : f[k] = k - first + 1
         /\ \A i \in 1 .. N : first + i - 1 \in first .. last /\ f[first + i - 1] = i
<1>1. \A k \in first .. last : f[k] = k - first + 1
  <2> DEFINE T == {k \in first .. last : f[k] # k - first + 1}
  <2> SUFFICES ASSUME T # {} PROVE FALSE
    OBVIOUS
  <2>1. T \in SUBSET Nat
    OBVIOUS
  <2>2. PICK k \in T : \A j \in T : k <= j
    <3> HIDE DEF T
    <3> QED
      BY <2>1, Least
  <2>3. k \in first .. last /\ k \in Nat /\ f[k] \in 1 .. N /\ f[k] # k - first + 1
    OBVIOUS
  <2>4. ASSUME NEW j \in first .. last, j < k PROVE f[j] = j - first + 1
    <3>1. j \in Nat /\ ~(k <= j)
      BY <2>3, <2>4
    <3> QED
      BY <2>2, <3>1
  <2>5. f[k] >= k - first + 1
    <3>1. CASE k = first
      BY <2>3, <3>1
    <3>2. CASE k # first
      <4>1. PICK j : j = k - 1
        OBVIOUS
      <4>2. j \in first .. last /\ j < k /\ j - first + 1 = k - first
        BY <2>3, <3>2, <4>1
      <4>3. f[j] = k - first /\ f[j] < f[k]
        BY <2>3, <2>4, <4>2
      <4> QED
        BY <2>3, <4>3
    <3> QED
      BY <3>1, <3>2
  <2>6. PICK i : i = k - first + 1
    OBVIOUS
  <2>7. i \in 1 .. N /\ i < f[k] /\ i \in Nat
    BY <2>3, <2>5, <2>6
  <2>8. PICK l \in first .. last : f[l] = i
    BY <2>7
  <2>9. l \in Nat /\ l # k
    BY <2>7, <2>8
  <2>10. CASE l < k
    <3>1. f[l] = l - first + 1
      BY <2>4, <2>10
    <3> QED
      BY <2>3, <2>6, <2>8, <2>9, <2>10, <3>1
  <2>11. CASE k < l
    <3>1. f[k] < f[l]
      BY <2>3, <2>11
    <3> QED
      BY <2>3, <2>7, <2>8, <3>1
  <2> QED
    BY <2>3, <2>9, <2>10, <2>11
<1>2. ASSUME NEW i \in 1 .. N PROVE first + i - 1 \in first .. last /\ f[first + i - 1] = i
  <2>1. PICK k \in first .. last : f[k] = i
    OBVIOUS
  <2>2. k - first + 1 = i /\ k \in Nat
    BY <1>1, <2>1
  <2>3. first + i - 1 = k
    BY <2>2
  <2> QED
    BY <2>1, <2>3
<1> QED
  BY <1>1, <1>2

(* Blocks of a piece of the wire.                                          *)
LEMMA BlocksMoved ==
  ASSUME NEW w \in Seq(Chars), NEW v \in Seq(Chars), NEW c \in Nat, Len(v) + c <= Len(w),
         \A i \in 1 .. Len(v) : w[c + i] = v[i],
         NEW p \in [Nat -> Nat], NEW q \in [Nat -> Nat], \A a \in Nat : q[a] = p[a] + c,
         NEW L \in Nat, NEW text \in [0 .. L -> Seq(Chars)], NEW r \in 0 .. L + 1,
         Blocks(v, p, text, r)
  PROVE  Blocks(w, q, text, r)
<1>1. PICK size \in Nat, part \in Nat : size = Len(w) /\ part = Len(v)
  BY SeqPlaces
<1>2. r \in Nat /\ 0 \in 0 .. r /\ \A a \in 0 .. r : a \in Nat
  OBVIOUS
<1>3. \A a \in Nat : p[a] \in Nat /\ q[a] \in Nat
  OBVIOUS
<1>4. PICK x \in Nat, y \in Nat : x = p[0] /\ y = p[r]
  BY <1>2, <1>3
<1>5. q[0] = x + c /\ q[r] = y + c
  BY <1>2, <1>4
<1>6. 1 <= x /\ y <= part + 1 /\ \A k \in x .. y - 1 : v[k].kind # "eol"
  BY <1>1, <1>4 DEF Blocks
<1>7. 1 <= q[0] /\ q[r] <= size + 1
  BY <1>1, <1>5, <1>6
<1>8. ASSUME NEW a \in 0 .. r PROVE q[0] <= q[a] /\ q[a] <= q[r]
  <2>1. PICK d \in Nat : d = p[a]
    BY <1>2, <1>3
  <2>2. q[a] = d + c /\ x <= d /\ d <= y
    BY <1>2, <1>4, <2>1 DEF Blocks
  <2>3. x + c <= d + c /\ d + c <= y + c
    BY <2>2
  <2> QED
    BY <1>5, <2>2, <2>3
<1>9. ASSUME NEW a \in 0 .. r - 1
      PROVE  /\ q[a + 1] = q[a] + Len(text[a])
             /\ \A j \in 1 .. Len(text[a]) : w[q[a] + j - 1] = text[a][j]
  <2>1. a \in Nat /\ a + 1 \in Nat
    BY <1>2
  <2>2. /\ Len(text[a]) \in Nat /\ p[a] >= 1 /\ p[a] + Len(text[a]) = p[a + 1]
        /\ p[a] + Len(text[a]) <= Len(v) + 1
    BY BlockRange
  <2>6. PICK m \in Nat, b \in Nat : m = Len(text[a]) /\ b = p[a]
    BY <1>3, <2>1, <2>2
  <2>3. b >= 1 /\ b + m = p[a + 1] /\ b + m <= part + 1
    BY <1>1, <2>2, <2>6
  <2>4. q[a] = b + c /\ q[a + 1] = (b + c) + m
    <3>1. q[a] = b + c /\ q[a + 1] = (b + m) + c
      BY <2>1, <2>3, <2>6
    <3>2. (b + m) + c = (b + c) + m
      OBVIOUS
    <3> QED
      BY <3>1, <3>2
  <2>5. ASSUME NEW j \in 1 .. m PROVE w[q[a] + j - 1] = text[a][j]
    <3>1. PICK i : i = b + j - 1
      OBVIOUS
    <3>2. i \in 1 .. part /\ q[a] + j - 1 = c + i
      BY <1>1, <2>3, <2>4, <3>1
    <3>3. v[i] = text[a][j]
      BY <2>6, <3>1 DEF Blocks
    <3> QED
      BY <1>1, <3>2, <3>3
  <2> QED
    BY <2>4, <2>5, <2>6
<1>10. ASSUME NEW k \in q[0] .. q[r] - 1 PROVE w[k].kind # "eol"
  <2>1. PICK i : i = k - c
    OBVIOUS
  <2>2. i \in x .. y - 1 /\ i \in 1 .. part /\ c + i = k
    BY <1>1, <1>5, <1>6, <2>1
  <2> QED
    BY <1>1, <1>6, <2>2
<1> QED
  BY <1>1, <1>7, <1>8, <1>9, <1>10 DEF Blocks

(* Log n stands in a line of its own, its blocks where p has them.         *)
Stands(p, n) ==
  /\ p \in [Nat -> Nat] /\ Blocks(wire, p, Text(n), Length(n) + 1)
  /\ p[Length(n) + 1] <= Len(wire) /\ wire[p[Length(n) + 1]].kind = "eol"
  /\ p[0] = 1 \/ wire[p[0] - 1].kind = "eol"
  /\ wire[p[0]] = FirstChar(n)

(* A log that lost nothing and that nothing parts does.                    *)
LEMMA Placed ==
  ASSUME DeviceTypes, ScatterInv, lpc = "idle", NEW n \in DOMAIN logged, Proper(n), Intact(n)
  PROVE  \E p : Stands(p, n)
<1>1. n \in Nat /\ Length(n) \in Nat /\ Text(n) \in [0 .. Length(n) -> Seq(Chars)]
  BY TextType
<1>2a. PICK L \in Nat : L = Length(n)
  BY <1>1
<1>2b. PICK text \in [0 .. L -> Seq(Chars)] : text = Text(n)
  BY <1>1, <1>2a
<1>2. L = Length(n) /\ text = Text(n)
  BY <1>2a, <1>2b
<1>3. Collected(n)
  BY DEF Intact, ScatterInv
<1>4. Closed(n) /\ Reached(n) = L + 1
  BY <1>2 DEF Closed, Reached
<1>5. PICK e, own, place, rank, whole :
        /\ e = EndOfLine(n) /\ whole = Append(own, e)
        /\ Spelled(own, place, text, L + 1) /\ Strewn(wire, whole, rank, n)
  BY <1>2, <1>3, <1>4 DEF Collected, Whole
<1>6. e \in Chars /\ e.kind = "eol"
  BY <1>1, <1>5, MarkTypes DEF Chars, EndOfLine, Char
<1>7. /\ own \in Seq(Chars) /\ place \in [Nat -> Nat] /\ place[0] = 1
      /\ place[L + 1] = Len(own) + 1 /\ Blocks(own, place, text, L + 1)
  BY <1>5 DEF Spelled
<1>8. /\ wire \in Seq(Chars) /\ Len(wire) \in Nat /\ DOMAIN wire = 1 .. Len(wire)
  BY LogsOnWire
<1>9. PICK size \in Nat, len \in Nat : size = Len(wire) /\ len = Len(own)
  BY <1>7, <1>8, SeqPlaces
<1>10. /\ Len(whole) = len + 1 /\ whole[len + 1] = e
       /\ \A i \in 1 .. len : whole[i] = own[i]
  BY <1>5, <1>6, <1>7, <1>9, AppendProperties
<1>11. PICK places : places = {k \in DOMAIN wire : wire[k].log = n}
  OBVIOUS
<1>12. places \in SUBSET (1 .. size) /\ places \in SUBSET Nat /\ places # {}
  <2>1. 1 \in 1 .. Len(whole)
    BY <1>9, <1>10
  <2>2. PICK k \in 1 .. Len(wire) : wire[k].log = n
    BY <1>5, <2>1 DEF Strewn
  <2>3. k \in places
    BY <1>8, <1>11, <2>2
  <2> QED
    BY <1>8, <1>9, <1>11, <2>3
<1>13. PICK first, last : /\ first = CHOOSE k \in places : \A j \in places : k <= j
                          /\ last = CHOOSE k \in places : \A j \in places : k >= j
  OBVIOUS
<1>14. first \in places
  BY <1>12, <1>13, LeastChosen
<1>15. last \in places
  <2>1. PICK g : g = CHOOSE j \in places : \A i \in places : i <= j
    OBVIOUS
  <2>2. g \in places /\ \A i \in places : i <= g
    BY <1>9, <1>12, <2>1, Greatest
  <2>3. \A i \in places : g >= i
    BY <1>12, <2>2
  <2>4. \E k \in places : \A j \in places : k >= j
    BY <2>2, <2>3
  <2> QED
    BY <1>13, <2>4
<1>16. first .. last = places /\ (first = 1 \/ wire[first - 1].kind = "eol")
  BY <1>11, <1>13 DEF Intact
<1>17. first \in Nat /\ last \in Nat /\ first >= 1 /\ last <= size
  BY <1>12, <1>14, <1>15
<1>18. \A k \in first .. last :
         k \in 1 .. size /\ wire[k].log = n /\ rank[k] \in 1 .. len + 1 /\ whole[rank[k]] = wire[k]
  BY <1>5, <1>8, <1>9, <1>10, <1>11, <1>16 DEF Strewn
<1>19. \A j, k \in first .. last : j < k => rank[j] < rank[k]
  BY <1>5, <1>9, <1>18 DEF Strewn
<1>20. \A i \in 1 .. len + 1 : \E k \in first .. last : rank[k] = i
  BY <1>5, <1>8, <1>10, <1>11, <1>16 DEF Strewn
<1>21. \A i \in 1 .. len + 1 : first + i - 1 \in first .. last /\ rank[first + i - 1] = i
  <2>1. PICK N \in Nat : N = len + 1
    BY <1>9
  <2>2. \A k \in first .. last : rank[k] \in 1 .. N
    BY <1>18, <2>1
  <2>3. \A i \in 1 .. N : \E k \in first .. last : rank[k] = i
    BY <1>20, <2>1
  <2> QED
    BY <1>17, <1>19, <2>1, <2>2, <2>3, Consecutive
<1>22. PICK c \in Nat : c = first - 1
  BY <1>17
<1>23. ASSUME NEW i \in 1 .. len + 1
       PROVE  c + i \in 1 .. size /\ wire[c + i] = whole[i]
  <2>1. first + i - 1 \in first .. last /\ rank[first + i - 1] = i
    BY <1>21
  <2>2. c + i = first + i - 1
    BY <1>17, <1>22
  <2> QED
    BY <1>18, <2>1, <2>2
<1>24. PICK q : q = [a \in Nat |-> place[a] + c]
  OBVIOUS
<1>25. q \in [Nat -> Nat] /\ \A a \in Nat : q[a] = place[a] + c
  <2>1. ASSUME NEW a \in Nat PROVE place[a] + c \in Nat
    <3>1. PICK x \in Nat : x = place[a]
      BY <1>7
    <3> QED
      BY <1>22, <3>1
  <2>2. \A a \in Nat : q[a] = place[a] + c
    BY <1>24
  <2>3. q \in [Nat -> Nat]
    BY <1>24, <2>1
  <2> QED
    BY <2>2, <2>3
<1>26. c + (len + 1) \in 1 .. size /\ wire[c + (len + 1)] = e
  BY <1>9, <1>10, <1>23
<1>27. Blocks(wire, q, text, L + 1)
  <2>1. Len(own) + c <= Len(wire)
    BY <1>9, <1>26
  <2>2. \A i \in 1 .. Len(own) : wire[c + i] = own[i]
    BY <1>9, <1>10, <1>23
  <2>3. L + 1 \in 0 .. L + 1
    OBVIOUS
  <2> QED
    BY <1>7, <1>8, <1>25, <2>1, <2>2, <2>3, BlocksMoved
<1>28. q[0] = first /\ q[L + 1] = c + (len + 1)
  <2>1. 0 \in Nat /\ L + 1 \in Nat
    OBVIOUS
  <2> QED
    BY <1>7, <1>9, <1>17, <1>22, <1>25, <2>1
<1>29. wire[first] = FirstChar(n)
  <2>1. PICK id : id = text[0]
    OBVIOUS
  <2>2. 0 \in 0 .. L /\ 0 \in 0 .. (L + 1) - 1
    OBVIOUS
  <2>3. id = IdText(n)
    BY <1>2, <2>1, <2>2 DEF Text, Block
  <2>4. 1 \in 1 .. Len(id) /\ id[1] = FirstChar(n)
    BY <1>1, <2>3, IdChars
  <2>5. wire[q[0] + 1 - 1] = id[1]
    BY <1>27, <2>1, <2>2, <2>4 DEF Blocks
  <2>6. q[0] + 1 - 1 = first
    BY <1>17, <1>28
  <2> QED
    BY <2>4, <2>5, <2>6
<1>30. q[L + 1] <= Len(wire) /\ wire[q[L + 1]].kind = "eol"
  BY <1>6, <1>9, <1>26, <1>28
<1>31. q[0] = 1 \/ wire[q[0] - 1].kind = "eol"
  BY <1>16, <1>28
<1>32. wire[q[0]] = FirstChar(n)
  BY <1>28, <1>29
<1>33. Blocks(wire, q, Text(n), Length(n) + 1)
  BY <1>2, <1>27
<1>34. q[Length(n) + 1] <= Len(wire) /\ wire[q[Length(n) + 1]].kind = "eol"
  BY <1>2, <1>30
<1>35. Stands(q, n)
  BY <1>25, <1>31, <1>32, <1>33, <1>34 DEF Stands
<1> QED
  BY <1>35

(* All that are expected do.                                               *)
Located(at) == \A n \in Expected : Lies(at, n) /\ Stands(at[n], n)

LEMMA ExpectedPlaced ==
  ASSUME DeviceTypes, ScatterInv, lpc = "idle"
  PROVE  \E at : Located(at)
<1>1. PICK at : at = [n \in DOMAIN logged |-> CHOOSE p : Stands(p, n)]
  OBVIOUS
<1>2. ASSUME NEW n \in Expected PROVE Lies(at, n) /\ Stands(at[n], n)
  <2>1. n \in DOMAIN logged /\ Proper(n) /\ Intact(n)
    BY DEF Expected, Proper
  <2>2. at[n] = CHOOSE p : Stands(p, n)
    BY <1>1, <2>1
  <2>3. \E p : Stands(p, n)
    BY <2>1, Placed
  <2>4. Stands(at[n], n)
    BY <2>2, <2>3
  <2> QED
    BY <2>1, <2>4 DEF Stands, Lies
<1> QED
  BY <1>2 DEF Located

LEMMA LocatedSame ==
  ASSUME NEW at, Located(at), UNCHANGED <<logged, wire, cut>>
  PROVE  Located(at)' /\ Expected' = Expected
<1>1. Expected' = Expected
  <2>1. \A n : Intact(n)' = Intact(n) /\ Proper(n)' = Proper(n)
    BY ProperSame DEF Intact
  <2>2. \A n : Proper(n) <=> (\A k \in DOMAIN logged[n].message : Supported(logged[n].message[k]))
                             /\ ~SendsNewline(logged[n])
    BY DEF Proper
  <2>3. Expected = {n \in DOMAIN logged : Proper(n) /\ Intact(n)}
    BY <2>2 DEF Expected
  <2>4. Expected' = {n \in DOMAIN logged' : Proper(n)' /\ Intact(n)'}
    BY DEF Expected, Proper
  <2> QED
    BY <2>1, <2>3, <2>4
<1>2. ASSUME NEW n \in Expected PROVE Lies(at, n)' /\ Stands(at[n], n)'
  <2>1. Lies(at, n) /\ Stands(at[n], n)
    BY DEF Located
  <2>2. Length(n)' = Length(n) /\ Text(n)' = Text(n)
    BY TextSame
  <2>3. FirstChar(n)' = FirstChar(n)
    BY DEF FirstChar, Char
  <2> QED
    BY <2>1, <2>2, <2>3, LiesSame DEF Stands
<1> QED
  BY <1>1, <1>2 DEF Located

-----------------------------------------------------------------------------
(* The decoder, line by line.                                              *)

(* A line is taken off the file: up to e, and up to next with its end.     *)
LEMMA LineTaken ==
  ASSUME rest \in Seq(Chars), wire \in Seq(Chars), rest # <<>>,
         NEW pos \in Nat, Part(rest, wire, pos, Len(wire) + 1)
  PROVE  \E e, next \in Nat :
           /\ pos <= e /\ e <= next /\ pos < next /\ next <= e + 1
           /\ pos <= Len(wire) /\ e <= Len(wire) + 1
           /\ \A k \in pos .. e - 1 : wire[k].kind # "eol"
           /\ e <= Len(wire) => wire[e].kind = "eol" /\ next = e + 1
           /\ e > Len(wire) => next = Len(wire) + 1
           /\ Part(SubSeq(rest, 1, FirstLine - 1), wire, pos, e)
           /\ Part(SubSeq(rest, FirstLine + 1, Len(rest)), wire, next, Len(wire) + 1)
<1>1. PICK size \in Nat, lim \in Nat : size = Len(wire) /\ lim = Len(rest)
  BY LenProperties
<1>2. PICK stop \in Nat : stop = FirstLine /\ 1 <= stop /\ stop <= lim + 1
  BY <1>1, FirstLineType
<1>3. Part(rest, wire, pos, size + 1) /\ pos <= size + 1 /\ lim = (size + 1) - pos
      /\ \A k \in 1 .. (size + 1) - pos : rest[k] = wire[pos + k - 1]
  BY <1>1 DEF Part
<1>4. lim >= 1
  <2>1. lim # 0
    BY <1>1, EmptySeq
  <2> QED
    BY <2>1
<1>5. PICK ends : ends = {k \in DOMAIN rest : rest[k].kind = "eol"}
  OBVIOUS
<1>6. DOMAIN rest = 1 .. lim /\ ends \in SUBSET Nat
  BY <1>1, <1>5, LenProperties
<1>7. /\ stop <= lim => rest[stop].kind = "eol"
      /\ \A k \in 1 .. lim : k < stop => rest[k].kind # "eol"
  <2>1. CASE ends = {}
    <3>1. stop = lim + 1
      BY <1>1, <1>2, <1>5, <2>1 DEF FirstLine
    <3>2. \A k \in 1 .. lim : rest[k].kind # "eol"
      BY <1>5, <1>6, <2>1
    <3> QED
      BY <3>1, <3>2
  <2>2. CASE ends # {}
    <3>1. FirstLine = CHOOSE k \in ends : \A j \in ends : k <= j
      BY <1>5, <2>2 DEF FirstLine
    <3>2. stop \in ends /\ \A j \in ends : stop <= j
      BY <1>2, <1>6, <2>2, <3>1, LeastChosen
    <3>3. \A k \in 1 .. lim : k < stop => k \notin ends
      BY <3>2
    <3> QED
      BY <1>5, <1>6, <3>2, <3>3
  <2> QED
    BY <2>1, <2>2
<1>8. PICK e \in Nat : e = pos + stop - 1
  BY <1>2
<1>9. PICK next \in Nat : next = IF e <= size THEN e + 1 ELSE size + 1
  OBVIOUS
<1>10. /\ pos <= e /\ e <= next /\ pos < next /\ next <= e + 1 /\ pos <= size /\ e <= size + 1
       /\ e <= size <=> stop <= lim
       /\ e <= size => next = e + 1
       /\ e > size => next = size + 1
  BY <1>2, <1>3, <1>4, <1>8, <1>9
<1>11. ASSUME NEW k \in pos .. e - 1 PROVE wire[k].kind # "eol"
  <2>1. PICK i \in Nat : i = k - pos + 1
    OBVIOUS
  <2>2. i \in 1 .. lim /\ i < stop /\ pos + i - 1 = k /\ i \in 1 .. (size + 1) - pos
    BY <1>3, <1>8, <1>10, <2>1
  <2> QED
    BY <1>3, <1>7, <2>2
<1>12. ASSUME e <= size PROVE wire[e].kind = "eol"
  <2>1. stop <= lim /\ stop \in 1 .. (size + 1) - pos /\ pos + stop - 1 = e
    BY <1>2, <1>3, <1>8, <1>10, <1>12
  <2> QED
    BY <1>3, <1>7, <2>1
<1>13. Part(SubSeq(rest, 1, stop - 1), wire, pos, e)
  <2>1. 1 \in Nat \ {0} /\ stop - 1 \in Nat /\ 1 <= stop - 1 + 1 /\ stop - 1 <= Len(rest)
        /\ size + 1 \in Nat
    BY <1>1, <1>2
  <2>2. Part(SubSeq(rest, 1, stop - 1), wire, pos + 1 - 1, pos + (stop - 1))
    BY <1>3, <2>1, PartOfPart
  <2>3. pos + 1 - 1 = pos /\ pos + (stop - 1) = e
    BY <1>8
  <2> QED
    BY <2>2, <2>3
<1>14. Part(SubSeq(rest, stop + 1, lim), wire, next, size + 1)
  <2>1. CASE stop <= lim
    <3>1. stop + 1 \in Nat \ {0} /\ stop + 1 <= lim + 1 /\ lim <= Len(rest) /\ size + 1 \in Nat
      BY <1>1, <2>1
    <3>2. Part(SubSeq(rest, stop + 1, lim), wire, pos + (stop + 1) - 1, pos + lim)
      BY <1>3, <3>1, PartOfPart
    <3>3. pos + (stop + 1) - 1 = next /\ pos + lim = size + 1
      BY <1>3, <1>8, <1>9, <1>10, <2>1
    <3> QED
      BY <3>2, <3>3
  <2>2. CASE ~(stop <= lim)
    <3>1. next = size + 1
      BY <1>9, <1>10, <2>2
    <3>2. Len(SubSeq(rest, stop + 1, lim)) = 0
      BY <1>2, <2>2
    <3>3. (size + 1) - next = 0 /\ 1 .. 0 = {} /\ next <= size + 1
      BY <3>1
    <3> QED
      BY <3>2, <3>3 DEF Part
  <2> QED
    BY <2>1, <2>2
<1>15. /\ Part(SubSeq(rest, 1, FirstLine - 1), wire, pos, e)
       /\ Part(SubSeq(rest, FirstLine + 1, Len(rest)), wire, next, Len(wire) + 1)
  BY <1>1, <1>2, <1>13, <1>14
<1> QED
  BY <1>1, <1>10, <1>11, <1>12, <1>15

(* The lines begun, the one that is being read included.                   *)
Fetched == dpc \in {"index", "chunks"}
Started == Len(decoded) + IF Fetched THEN 1 ELSE 0

(* The k-th of them begins at ls[k] and what is left of the file at pos.   *)
Lines(ls, pos) ==
  /\ ls \in [Nat -> Nat] /\ pos \in Nat /\ 1 <= pos
  /\ Part(rest, wire, pos, Len(wire) + 1)
  /\ \A k \in 1 .. Started : 1 <= ls[k] /\ ls[k] < pos
  /\ \A j, k \in 1 .. Started : j < k => ls[j] < ls[k]

(* What was printed for a line begins as the line does, and is the log     *)
(* that is expected there.                                                 *)
Printed(at, ls) ==
  /\ decoded \in Seq(Seq(Seq(Chars)))
  /\ \A k \in 1 .. Len(decoded) :
       /\ decoded[k][1][1] = wire[ls[k]]
       /\ \A n \in Expected : at[n][0] = ls[k] => decoded[k] = Values(n)

(* No log that is expected is passed over.                                 *)
Ahead(at, ls, pos) ==
  \A n \in Expected : at[n][0] >= pos \/ \E k \in 1 .. Started : ls[k] = at[n][0]

(* The line that begins at first is being read, and the log expected there *)
(* with it.                                                                *)
Taken(at, first) ==
  Fetched =>
    /\ \A n \in Expected : at[n][0] = first => Reading(at, n)
    /\ dpc = "index" => cursor = 0 /\ (Len(line) > 0 => line[1] = wire[first])
    /\ dpc = "chunks" => shown[1][1] = wire[first]

Follow(at, ls, pos) ==
  Lines(ls, pos) /\ Printed(at, ls) /\ Ahead(at, ls, pos) /\ Taken(at, ls[Len(decoded) + 1])

LEMMA ValuesSame == logged' = logged => \A n : Values(n)' = Values(n)
  BY DEF Values, IdText, HexText, StringText, Char

LEMMA FollowStart ==
  ASSUME TypeInv, decoded = <<>>, NEW at, Located(at), Collect
  PROVE  \E ls, pos : Follow(at, ls, pos)'
<1>1. /\ dpc' = "line" /\ rest' = wire /\ UNCHANGED <<logged, wire, cut, decoded>>
  BY DEF Collect, device, faults
<1>2. Located(at)' /\ Expected' = Expected
  BY <1>1, LocatedSame
<1>3. PICK ls : ls = [k \in Nat |-> 0]
  OBVIOUS
<1>4. wire' \in Seq(Chars) /\ Len(wire') \in Nat
  BY <1>1, LogsOnWire DEF TypeInv
<1>5. Started' = 0 /\ 1 .. 0 = {} /\ Len(decoded') = 0
  BY <1>1 DEF Started, Fetched
<1>6. Part(rest', wire', 1, Len(wire') + 1)
  <2>1. \A k : 1 + k - 1 \in Nat => TRUE
    OBVIOUS
  <2>2. PICK size \in Nat : size = Len(wire')
    BY <1>4
  <2>3. 1 <= size + 1 /\ (size + 1) - 1 = size /\ \A k \in 1 .. size : 1 + k - 1 = k
    OBVIOUS
  <2> QED
    BY <1>1, <2>2, <2>3 DEF Part
<1>7. Lines(ls, 1)'
  <2>1. ls \in [Nat -> Nat]
    BY <1>3
  <2> QED
    BY <1>5, <1>6, <2>1 DEF Lines
<1>8. Printed(at, ls)'
  BY <1>1, <1>5, EmptySeq DEF Printed
<1>9. Ahead(at, ls, 1)'
  <2>1. \A n \in Expected : at[n][0] >= 1
    BY LineOf DEF Located, TypeInv
  <2> QED
    BY <1>2, <2>1 DEF Ahead
<1>10. Taken(at, ls[Len(decoded) + 1])'
  BY <1>1 DEF Taken, Fetched
<1> QED
  BY <1>7, <1>8, <1>9, <1>10 DEF Follow

LEMMA FollowFetched ==
  ASSUME TypeInv, NEW at, NEW ls, NEW pos, Located(at), Follow(at, ls, pos), GetLine
  PROVE  \E ms, next : Follow(at, ms, next)'
<1>1. /\ dpc = "line" /\ rest # <<>> /\ dpc' = "index" /\ cursor' = 0
      /\ line' = SubSeq(rest, 1, FirstLine - 1)
      /\ rest' = SubSeq(rest, FirstLine + 1, Len(rest))
      /\ UNCHANGED <<logged, wire, cut, decoded>>
  BY DEF GetLine, device, faults
<1>2. Located(at)' /\ Expected' = Expected
  BY <1>1, LocatedSame
<1>3. /\ ls \in [Nat -> Nat] /\ pos \in Nat /\ 1 <= pos
      /\ Part(rest, wire, pos, Len(wire) + 1)
      /\ decoded \in Seq(Seq(Seq(Chars)))
  BY DEF Follow, Lines, Printed
<1>4. wire \in Seq(Chars) /\ rest \in Seq(Chars) /\ Len(wire) \in Nat
  BY LogsOnWire DEF TypeInv, DecoderTypes
<1>5. PICK e \in Nat, next \in Nat :
        /\ pos <= e /\ e <= next /\ pos < next /\ next <= e + 1
        /\ pos <= Len(wire) /\ e <= Len(wire) + 1
        /\ \A k \in pos .. e - 1 : wire[k].kind # "eol"
        /\ e <= Len(wire) => wire[e].kind = "eol" /\ next = e + 1
        /\ Part(line', wire, pos, e)
        /\ Part(rest', wire, next, Len(wire) + 1)
  <2>1. \E e, next \in Nat :
           /\ pos <= e /\ e <= next /\ pos < next /\ next <= e + 1
           /\ pos <= Len(wire) /\ e <= Len(wire) + 1
           /\ \A k \in pos .. e - 1 : wire[k].kind # "eol"
           /\ e <= Len(wire) => wire[e].kind = "eol" /\ next = e + 1
           /\ e > Len(wire) => next = Len(wire) + 1
           /\ Part(SubSeq(rest, 1, FirstLine - 1), wire, pos, e)
           /\ Part(SubSeq(rest, FirstLine + 1, Len(rest)), wire, next, Len(wire) + 1)
    BY <1>1, <1>3, <1>4, LineTaken
  <2> QED
    BY <1>1, <2>1
<1>6. PICK c \in Nat : c = Len(decoded)
  BY <1>3, LenProperties
<1>7. Started = c /\ Started' = c + 1 /\ Len(decoded') = c /\ c + 1 \in Nat
  BY <1>1, <1>6 DEF Started, Fetched
<1>8. /\ \A k \in 1 .. c : ls[k] \in Nat /\ 1 <= ls[k] /\ ls[k] < pos
      /\ \A j, k \in 1 .. c : j < k => ls[j] < ls[k]
      /\ \A n \in Expected : at[n][0] >= pos \/ \E k \in 1 .. c : ls[k] = at[n][0]
  <2>1. \A k \in 1 .. c : k \in Nat
    OBVIOUS
  <2>2. \A k \in 1 .. c : ls[k] \in Nat
    BY <1>3, <2>1
  <2>3. \A k \in 1 .. c : 1 <= ls[k] /\ ls[k] < pos
    BY <1>7 DEF Follow, Lines
  <2>4. \A j, k \in 1 .. c : j < k => ls[j] < ls[k]
    BY <1>7 DEF Follow, Lines
  <2>5. \A n \in Expected : at[n][0] >= pos \/ \E k \in 1 .. c : ls[k] = at[n][0]
    BY <1>7 DEF Follow, Ahead
  <2> QED
    BY <2>2, <2>3, <2>4, <2>5
<1>9. PICK ms : ms = [ls EXCEPT ![c + 1] = pos]
  OBVIOUS
<1>10. ms \in [Nat -> Nat] /\ ms[c + 1] = pos /\ \A k \in 1 .. c : ms[k] = ls[k]
  <2>1. \A k \in 1 .. c : k \in Nat /\ k # c + 1
    OBVIOUS
  <2> QED
    BY <1>3, <1>7, <1>9, <2>1
<1>11. \A k \in 1 .. c + 1 : k \in 1 .. c \/ k = c + 1
  OBVIOUS
<1>12. Lines(ms, next)'
  <2>1. ASSUME NEW k \in 1 .. c + 1 PROVE 1 <= ms[k] /\ ms[k] < next
    <3>1. CASE k = c + 1
      BY <1>3, <1>5, <1>10, <3>1
    <3>2. CASE k \in 1 .. c
      <4>1. PICK x \in Nat : x = ls[k] /\ 1 <= x /\ x < pos
        BY <1>8, <3>2
      <4> QED
        BY SMTT(30), <1>3, <1>5, <1>10, <3>2, <4>1
    <3> QED
      BY <1>11, <3>1, <3>2
  <2>2. ASSUME NEW j \in 1 .. c + 1, NEW k \in 1 .. c + 1, j < k PROVE ms[j] < ms[k]
    <3>1. j \in 1 .. c
      BY <2>2
    <3> QED
      BY <1>8, <1>10, <1>11, <2>2, <3>1
  <2>3. Part(rest', wire', next, Len(wire') + 1) /\ 1 <= next
    BY <1>1, <1>3, <1>5
  <2> QED
    BY <1>7, <1>10, <2>1, <2>2, <2>3 DEF Lines
<1>13. Printed(at, ms)'
  <2>1. \A n : Values(n)' = Values(n)
    BY <1>1, ValuesSame
  <2>2. \A k \in 1 .. c :
          /\ decoded[k][1][1] = wire[ls[k]]
          /\ \A n \in Expected : at[n][0] = ls[k] => decoded[k] = Values(n)
    BY <1>6 DEF Follow, Printed
  <2>3. decoded \in Seq(Seq(Seq(Chars))) /\ decoded' = decoded /\ wire' = wire
    BY <1>1, <1>3 DEF Follow, Printed
  <2>4. \A k \in 1 .. c :
          /\ decoded'[k][1][1] = wire'[ms[k]]
          /\ \A n \in Expected' : at[n][0] = ms[k] => decoded'[k] = Values(n)'
    BY <1>2, <1>10, <2>1, <2>2, <2>3
  <2> QED
    BY <1>6, <2>3, <2>4 DEF Printed
<1>14. ASSUME NEW n \in Expected
       PROVE  /\ at[n][0] \in Nat /\ Length(n) \in Nat /\ at[n][Length(n) + 1] \in Nat
              /\ at[n][0] <= at[n][Length(n) + 1] /\ at[n][Length(n) + 1] <= Len(wire)
              /\ wire[at[n][Length(n) + 1]].kind = "eol"
              /\ \A k \in at[n][0] .. at[n][Length(n) + 1] - 1 : wire[k].kind # "eol"
              /\ at[n][0] = 1 \/ wire[at[n][0] - 1].kind = "eol"
  BY LineOf DEF Located, TypeInv, Stands
<1>15. Ahead(at, ms, next)'
  <2>1. ASSUME NEW n \in Expected, ~(at[n][0] >= next)
        PROVE  \E k \in 1 .. c + 1 : ms[k] = at[n][0]
    <3>1. PICK first \in Nat : first = at[n][0]
      BY <1>14
    <3>2. CASE first > pos
      <4>1. PICK p \in Nat : p = first - 1
        BY <3>2, <1>3
      <4>0. first # 1 /\ p >= pos
        BY <1>3, <3>2, <4>1
      <4>2. wire[p].kind = "eol" /\ p >= pos
        BY <1>14, <3>1, <4>0, <4>1
      <4>3. ~(p <= e - 1)
        BY <1>5, <4>2
      <4> QED
        BY <1>5, <2>1, <3>1, <4>1, <4>3
    <3>3. CASE first = pos
      BY <1>10, <3>1, <3>3
    <3>4. CASE first < pos
      <4>1. PICK k \in 1 .. c : ls[k] = at[n][0]
        <5>1. ~(at[n][0] >= pos)
          <6>1. pos \in Nat /\ ~(first >= pos)
            BY <1>3, <3>4
          <6> QED
            BY <3>1, <6>1
        <5> QED
          BY <1>8, <5>1
      <4> QED
        BY <1>10, <4>1
    <3> QED
      BY <1>3, <3>2, <3>3, <3>4
  <2> QED
    BY <1>2, <1>7, <2>1 DEF Ahead
<1>16. ASSUME NEW n \in Expected, at[n][0] = pos PROVE Reading(at, n)'
  <2>1. PICK first \in Nat, end \in Nat : first = at[n][0] /\ end = at[n][Length(n) + 1]
    BY <1>14
  <2>2. /\ first = pos /\ first <= end /\ end <= Len(wire) /\ wire[end].kind = "eol"
        /\ \A k \in first .. end - 1 : wire[k].kind # "eol"
    BY <1>14, <1>16, <2>1
  <2>3. ~(end <= e - 1)
    BY <1>5, <2>2
  <2>4. e <= end
    BY <2>3
  <2>5. e <= Len(wire)
    BY <1>4, <2>2, <2>4
  <2>6. wire[e].kind = "eol"
    BY <1>5, <2>5
  <2>7. e = end
    BY <1>5, <2>2, <2>4, <2>6
  <2>8. Part(line', wire', at[n][0], at[n][Length(n)' + 1])
    <3>1. Length(n)' = Length(n)
      BY <1>1 DEF Length
    <3> QED
      BY <1>1, <1>5, <2>1, <2>2, <2>7, <3>1
  <2>9. Lies(at, n)'
    BY <1>2 DEF Located
  <2> QED
    BY <1>1, <2>8, <2>9 DEF Reading
<1>17. Len(line') > 0 => line'[1] = wire'[pos]
  <2>1. Len(line') = e - pos /\ \A k \in 1 .. e - pos : line'[k] = wire[pos + k - 1]
    BY <1>5 DEF Part
  <2>2. SUFFICES ASSUME Len(line') > 0 PROVE line'[1] = wire[pos]
    BY <1>1
  <2>3. 1 \in 1 .. e - pos /\ pos + 1 - 1 = pos
    <3>1. e - pos > 0
      BY <2>1, <2>2
    <3> QED
      BY <1>3, <3>1
  <2> QED
    BY <2>1, <2>3
<1>18. Taken(at, ms[Len(decoded) + 1])'
  <2>1. ms[Len(decoded') + 1] = pos
    BY <1>7, <1>10
  <2> QED
    BY <1>1, <1>2, <1>16, <1>17, <2>1 DEF Taken
<1> QED
  BY <1>12, <1>13, <1>15, <1>18 DEF Follow

LEMMA FollowEnded ==
  ASSUME NEW at, NEW ls, NEW pos, Located(at), Follow(at, ls, pos), EndOfFile
  PROVE  Follow(at, ls, pos)'
<1>1. dpc = "line" /\ dpc' = "done" /\ UNCHANGED <<logged, wire, cut, decoded, rest>>
  BY DEF EndOfFile, device, faults
<1>2. Expected' = Expected /\ Started' = Started /\ \A n : Values(n)' = Values(n)
  BY <1>1, LocatedSame, ValuesSame DEF Started, Fetched
<1>3. Lines(ls, pos)' /\ Printed(at, ls)' /\ Ahead(at, ls, pos)'
  BY <1>1, <1>2 DEF Follow, Lines, Printed, Ahead
<1>4. Taken(at, ls[Len(decoded) + 1])'
  BY <1>1 DEF Taken, Fetched
<1> QED
  BY <1>3, <1>4 DEF Follow

(* A step within a line.                                                   *)
LEMMA FollowKept ==
  ASSUME NEW at, NEW ls, NEW pos, Located(at), Follow(at, ls, pos), Fetched, dpc' = "chunks",
         NEW first, first = ls[Len(decoded) + 1],
         UNCHANGED <<logged, wire, cut, decoded, rest>>,
         shown'[1][1] = wire[first],
         \A n \in Expected : at[n][0] = first => Reading(at, n)'
  PROVE  Follow(at, ls, pos)'
<1>1. Expected' = Expected /\ Started' = Started /\ \A n : Values(n)' = Values(n)
  BY LocatedSame, ValuesSame DEF Started, Fetched
<1>2. Lines(ls, pos)' /\ Printed(at, ls)' /\ Ahead(at, ls, pos)'
  BY <1>1 DEF Follow, Lines, Printed, Ahead
<1>3. Taken(at, ls[Len(decoded) + 1])'
  BY <1>1 DEF Taken
<1> QED
  BY <1>2, <1>3 DEF Follow

LEMMA FollowIndexed ==
  ASSUME TypeInv, Rows < 254, NEW at, NEW ls, NEW pos, Located(at), Follow(at, ls, pos), ReadIndex
  PROVE  Follow(at, ls, pos)'
<1>1. /\ dpc = "index" /\ dpc' = "chunks" /\ CanRead(IndexChars)
      /\ shown' = <<Read(IndexChars)>>
      /\ UNCHANGED <<logged, wire, cut, decoded, rest>>
  BY DEF ReadIndex, device, faults
<1>2. PICK first : first = ls[Len(decoded) + 1]
  OBVIOUS
<1>3. /\ \A n \in Expected : at[n][0] = first => Reading(at, n)
      /\ cursor = 0 /\ (Len(line) > 0 => line[1] = wire[first])
  BY <1>1, <1>2 DEF Follow, Taken, Fetched
<1>4. IndexChars = 2
  <2>1. DecoderIdBytes(Rows) = 1
    BY Bounds DEF DecoderIdBytes, MaxMessageIndex
  <2> QED
    BY <2>1 DEF IndexChars
<1>5. line \in Seq(Chars) /\ Len(line) \in Nat /\ 2 <= Len(line)
  BY <1>1, <1>3, <1>4, LenProperties DEF CanRead, Readable, TypeInv, DecoderTypes
<1>6. shown'[1][1] = wire[first]
  <2>1. Read(2) = SubSeq(line, 1, 2)
    BY <1>3 DEF Read
  <2>2. 1 \in Nat \ {0} /\ 2 \in Nat /\ 1 <= 2 + 1 /\ 1 \in 1 .. 2 - 1 + 1 /\ 1 + 1 - 1 = 1
    OBVIOUS
  <2>3. \A i \in 1 .. 2 - 1 + 1 : SubSeq(line, 1, 2)[i] = line[1 + i - 1]
    BY <1>5, <2>2, Piece
  <2>4. SubSeq(line, 1, 2)[1] = line[1]
    BY <2>2, <2>3
  <2>5. line[1] = wire[first]
    BY <1>3, <1>5
  <2>6. shown'[1] = Read(2)
    BY <1>1, <1>4
  <2> QED
    BY <2>1, <2>4, <2>5, <2>6
<1>7. \A n \in Expected : at[n][0] = first => Reading(at, n)'
  BY <1>3, ReadingIndexed
<1>8. Fetched
  BY <1>1 DEF Fetched
<1> QED
  BY <1>1, <1>2, <1>6, <1>7, <1>8, FollowKept

LEMMA FollowShown ==
  ASSUME TypeInv, NEW at, NEW ls, NEW pos, Located(at), Follow(at, ls, pos),
         ReadString \/ ReadNumber
  PROVE  Follow(at, ls, pos)'
<1>1. PICK first : first = ls[Len(decoded) + 1]
  OBVIOUS
<1>2. dpc = "chunks" /\ Fetched
  BY DEF ReadString, ReadNumber, NextChunk, Fetched
<1>3. /\ \A n \in Expected : at[n][0] = first => Reading(at, n)
      /\ shown[1][1] = wire[first]
  BY <1>1, <1>2 DEF Follow, Taken
<1>4. PICK value, k :
        /\ Show(value, k) /\ value \in Seq(Chars)
        /\ \A n \in Expected : at[n][0] = first =>
             /\ Len(shown) \in 1 .. Length(n) /\ value = Values(n)[Len(shown) + 1]
             /\ cursor + k = at[n][Len(shown) + 1] - at[n][0]
  <2>1. CASE ReadString
    <3>1. NextChunk /\ Chunk.type = "s" /\ StringEnds # {}
      BY <2>1 DEF ReadString
    <3>2. PICK e : e = CHOOSE i \in StringEnds : \A j \in StringEnds : i <= j
      OBVIOUS
    <3>3. Show(SubSeq(line, cursor + 1, e - 1), e - cursor)
      BY <2>1, <3>2 DEF ReadString
    <3>4. SubSeq(line, cursor + 1, e - 1) \in Seq(Chars)
      <4>1. /\ line \in Seq(Chars) /\ Len(line) \in Nat /\ cursor \in Nat
            /\ StringEnds \subseteq cursor + 1 .. Len(line)
        BY LenProperties DEF TypeInv, DecoderTypes, StringEnds
      <4>2. StringEnds \in SUBSET Nat
        BY <4>1
      <4>3. e \in StringEnds
        BY <3>1, <3>2, <4>2, LeastChosen
      <4>4. e \in cursor + 1 .. Len(line)
        BY <4>1, <4>3
      <4>5. cursor + 1 \in Nat \ {0} /\ e - 1 \in Nat /\ e - 1 <= Len(line)
        BY <4>1, <4>4
      <4> QED
        BY <4>1, <4>5, AnyPiece
    <3>5. ASSUME NEW n \in Expected, at[n][0] = first
          PROVE  /\ Len(shown) \in 1 .. Length(n)
                 /\ SubSeq(line, cursor + 1, e - 1) = Values(n)[Len(shown) + 1]
                 /\ cursor + (e - cursor) = at[n][Len(shown) + 1] - at[n][0]
      BY <1>3, <3>1, <3>2, <3>5, StringFound
    <3>6. PICK value, k : value = SubSeq(line, cursor + 1, e - 1) /\ k = e - cursor
      OBVIOUS
    <3>7. Show(value, k) /\ value \in Seq(Chars)
      BY <3>3, <3>4, <3>6
    <3>8. \A n \in Expected : at[n][0] = first =>
            /\ Len(shown) \in 1 .. Length(n) /\ value = Values(n)[Len(shown) + 1]
            /\ cursor + k = at[n][Len(shown) + 1] - at[n][0]
      BY <3>5, <3>6
    <3> QED
      BY <3>7, <3>8
  <2>2. CASE ReadNumber
    <3>1. /\ NextChunk /\ Chunk.type # "s" /\ CanRead(2 * Chunk.bytes)
          /\ Show(Read(2 * Chunk.bytes), 2 * Chunk.bytes)
      BY <2>2 DEF ReadNumber
    <3>2. Len(shown) \in 1 .. Len(row)
      <4>1. /\ Len(shown) \in Nat /\ Len(row) \in Nat /\ Len(shown) <= Len(row)
            /\ Len(shown) >= 1
        BY <1>2, <3>1, LenProperties DEF NextChunk, TypeInv, DecoderTypes
      <4> QED
        BY <4>1
    <3>3. Chunk \in Args
      BY <3>2, ElementOfSeq DEF Chunk, TypeInv, DecoderTypes
    <3>4. 2 * Chunk.bytes \in Nat
      BY <3>3 DEF Args, AllowedSizes, StringCode, WideStringCode
    <3>5. Read(2 * Chunk.bytes) \in Seq(Chars)
      BY <3>1, <3>4, ReadType DEF TypeInv
    <3>6. ASSUME NEW n \in Expected, at[n][0] = first
          PROVE  /\ Len(shown) \in 1 .. Length(n)
                 /\ Read(2 * Chunk.bytes) = Values(n)[Len(shown) + 1]
                 /\ cursor + 2 * Chunk.bytes = at[n][Len(shown) + 1] - at[n][0]
      BY <1>3, <3>1, <3>6, NumberFound
    <3> QED
      BY <3>1, <3>5, <3>6
  <2> QED
    BY <2>1, <2>2
<1>5. /\ dpc' = dpc /\ shown' = Append(shown, value)
      /\ UNCHANGED <<logged, wire, cut, decoded, rest>>
  BY <1>4 DEF Show, device, faults
<1>6. shown'[1][1] = wire[first]
  <2>1. shown \in Seq(Seq(Chars)) /\ Len(shown) \in Nat /\ Len(shown) >= 1
    BY <1>2, LenProperties DEF TypeInv, DecoderTypes
  <2>2. \A i \in 1 .. Len(shown) : shown'[i] = shown[i]
    BY <1>4, <1>5, <2>1, AppendProperties
  <2>3. 1 \in 1 .. Len(shown)
    BY <2>1
  <2> QED
    BY <1>3, <2>2, <2>3
<1>7. ASSUME NEW n \in Expected, at[n][0] = first PROVE Reading(at, n)'
  BY <1>2, <1>3, <1>4, <1>7, ReadingShown
<1> QED
  BY <1>1, <1>2, <1>5, <1>6, <1>7, FollowKept

LEMMA FollowPrinted ==
  ASSUME TypeInv, NEW at, NEW ls, NEW pos, Located(at), Follow(at, ls, pos),
         LinePrinted \/ StringBreaks
  PROVE  Follow(at, ls, pos)'
<1>1. /\ dpc = "chunks" /\ dpc' = "line" /\ decoded' = Append(decoded, shown)
      /\ UNCHANGED <<logged, wire, cut, rest>>
  BY DEF LinePrinted, StringBreaks, NextChunk, FinishLine, device, faults
<1>2. PICK c \in Nat : c = Len(decoded)
  BY LenProperties DEF Follow, Printed
<1>3. PICK first : first = ls[c + 1]
  OBVIOUS
<1>4. /\ \A n \in Expected : at[n][0] = first => Reading(at, n)
      /\ shown[1][1] = wire[first]
  BY <1>1, <1>2, <1>3 DEF Follow, Taken, Fetched
<1>5. ASSUME NEW n \in Expected, at[n][0] = first PROVE shown = Values(n)
  <2>1. Reading(at, n)
    BY <1>4, <1>5
  <2>2. CASE LinePrinted
    BY <1>1, <2>1, <2>2, AllShown DEF LinePrinted
  <2>3. CASE StringBreaks
    BY <2>1, <2>3, StringFound DEF StringBreaks
  <2> QED
    BY <2>2, <2>3
<1>6. decoded \in Seq(Seq(Seq(Chars))) /\ shown \in Seq(Seq(Chars))
  BY DEF Follow, Printed, TypeInv, DecoderTypes
<1>7. /\ decoded' \in Seq(Seq(Seq(Chars))) /\ Len(decoded') = c + 1
      /\ decoded'[c + 1] = shown /\ \A k \in 1 .. c : decoded'[k] = decoded[k]
  BY <1>1, <1>2, <1>6, AppendProperties
<1>8. /\ Expected' = Expected /\ \A n : Values(n)' = Values(n)
      /\ Started = c + 1 /\ Started' = c + 1
  <2>1. Started = c + 1
    BY <1>1, <1>2 DEF Started, Fetched
  <2>2. Started' = c + 1
    BY <1>1, <1>7 DEF Started, Fetched
  <2> QED
    BY <1>1, <2>1, <2>2, LocatedSame, ValuesSame
<1>9. Lines(ls, pos)' /\ Ahead(at, ls, pos)'
  BY <1>1, <1>8 DEF Follow, Lines, Ahead
<1>10. Printed(at, ls)'
  <2>1. ASSUME NEW k \in 1 .. c + 1
        PROVE  /\ decoded'[k][1][1] = wire[ls[k]]
               /\ \A n \in Expected : at[n][0] = ls[k] => decoded'[k] = Values(n)
    <3>1. CASE k = c + 1
      BY <1>3, <1>4, <1>5, <1>7, <3>1
    <3>2. CASE k \in 1 .. c
      BY <1>2, <1>7, <3>2 DEF Follow, Printed
    <3> QED
      BY <3>1, <3>2
  <2> QED
    BY <1>1, <1>7, <1>8, <2>1 DEF Printed
<1>11. Taken(at, ls[Len(decoded) + 1])'
  BY <1>1 DEF Taken, Fetched
<1> QED
  BY <1>9, <1>10, <1>11 DEF Follow

(* Together: what the device sent is in order, and the decoder follows the *)
(* lines of the file.                                                      *)
DamageInv ==
  /\ TypeInv /\ ScatterInv
  /\ dpc = "off" => decoded = <<>>
  /\ dpc # "off" => lpc = "idle"
  /\ dpc \in {"line", "index", "chunks"} =>
       \E at, ls, pos : Located(at) /\ Follow(at, ls, pos)
  /\ dpc = "done" => rest = <<>> /\ \E at, ls, pos : Located(at) /\ Follow(at, ls, pos)

LEMMA DamageNext ==
  ASSUME DamageInv, Rows < 254, [Next]_vars
  PROVE  DamageInv'
<1>1. TypeInv /\ ScatterInv /\ TypeInv' /\ ScatterInv'
  BY TypeNext, ScatterNext DEF DamageInv
<1>2. CASE Device \/ Disturbance
  <2>1. dpc = "off"
    <3>1. CASE Disturbance
      BY <3>1 DEF Disturbance, Lose, Late, Reset, Interrupt, Disturb
    <3>2. CASE \E message \in Messages : \E content \in Contents(message) : LogBegin(message, content)
      BY <3>2 DEF LogBegin
    <3>3. CASE PrintStaticArgument \/ PrintDouble \/ PrintLongDouble \/ PrintStringArgument
               \/ SkipCode \/ LogEnd
      <4>1. lpc = "args"
        BY <3>3 DEF PrintStaticArgument, PrintDouble, PrintLongDouble, PrintStringArgument,
             SkipCode, LogEnd, More
      <4> QED
        BY <4>1 DEF DamageInv
    <3> QED
      BY <1>2, <3>1, <3>2, <3>3 DEF Device
  <2>2. UNCHANGED <<dpc, decoded>>
    BY <1>2 DEF Device, LogBegin, PrintStaticArgument, PrintDouble, PrintLongDouble,
         PrintStringArgument, SkipCode, LogEnd, Send, Disturbance, Lose, Late, Reset, Interrupt,
         Disturb, decoder
  <2> QED
    BY <1>1, <2>1, <2>2 DEF DamageInv
<1>3. CASE Collect
  <2>1. dpc = "off" /\ lpc = "idle" /\ dpc' = "line" /\ lpc' = "idle" /\ decoded = <<>>
        /\ UNCHANGED <<logged, wire, cut>>
    BY <1>3 DEF Collect, device, faults, DamageInv
  <2>2. PICK at : Located(at)
    BY <1>1, <2>1, ExpectedPlaced DEF TypeInv
  <2>3. \E ls, pos : Follow(at, ls, pos)'
    BY <1>1, <1>3, <2>1, <2>2, FollowStart
  <2>4. Located(at)'
    BY <2>1, <2>2, LocatedSame
  <2> QED
    BY <1>1, <2>1, <2>3, <2>4 DEF DamageInv
<1>4. CASE IndexTerminates \/ NumberTerminates
  <2>1. dpc' = "terminated" /\ lpc' = lpc /\ dpc # "off"
    BY <1>4 DEF IndexTerminates, NumberTerminates, NextChunk, Terminate, device
  <2> QED
    BY <1>1, <2>1 DEF DamageInv
<1>5. CASE GetLine \/ EndOfFile \/ ReadIndex \/ ReadString \/ ReadNumber \/ StringBreaks \/ LinePrinted
  <2>1. /\ dpc \in {"line", "index", "chunks"} /\ dpc' \in {"line", "index", "chunks", "done"}
        /\ UNCHANGED <<lpc, logged, wire, cut>>
        /\ dpc' = "done" => rest' = <<>>
    <3>1. CASE GetLine \/ EndOfFile \/ ReadIndex \/ StringBreaks \/ LinePrinted
      BY <3>1 DEF GetLine, EndOfFile, ReadIndex, StringBreaks, LinePrinted, NextChunk, FinishLine,
           device, faults
    <3>2. CASE ReadString \/ ReadNumber
      BY <3>2 DEF ReadString, ReadNumber, NextChunk, Show, device, faults
    <3> QED
      BY <1>5, <3>1, <3>2
  <2>2. PICK at, ls, pos : Located(at) /\ Follow(at, ls, pos)
    BY <2>1 DEF DamageInv
  <2>3. Located(at)'
    BY <2>1, <2>2, LocatedSame
  <2>4. \E ms, next : Follow(at, ms, next)'
    <3>1. CASE GetLine
      BY <1>1, <2>2, <3>1, FollowFetched
    <3>2. CASE EndOfFile
      BY <2>2, <3>2, FollowEnded
    <3>3. CASE ReadIndex
      BY <1>1, <2>2, <3>3, FollowIndexed
    <3>4. CASE ReadString \/ ReadNumber
      BY <1>1, <2>2, <3>4, FollowShown
    <3>5. CASE StringBreaks \/ LinePrinted
      BY <1>1, <2>2, <3>5, FollowPrinted
    <3> QED
      BY <1>5, <3>1, <3>2, <3>3, <3>4, <3>5
  <2>5. lpc' = "idle" /\ dpc' # "off"
    BY <2>1 DEF DamageInv
  <2> QED
    BY <1>1, <2>1, <2>3, <2>4, <2>5 DEF DamageInv
<1>6. CASE UNCHANGED vars
  <2>1. UNCHANGED <<device, decoder, dpc, lpc, decoded, rest, logged, wire, cut, line, cursor, row, shown>>
    BY <1>6 DEF vars, device, decoder, faults
  <2>2. ASSUME NEW at, NEW ls, NEW pos, Located(at), Follow(at, ls, pos)
        PROVE  Located(at)' /\ Follow(at, ls, pos)'
    <3>1. Located(at)' /\ Expected' = Expected
      BY <2>1, <2>2, LocatedSame
    <3>2. \A n : Values(n)' = Values(n) /\ Length(n)' = Length(n)
      BY <2>1, ValuesSame DEF Length
    <3>3. Started' = Started
      BY <2>1 DEF Started, Fetched
    <3>4. \A n : Reading(at, n) => Reading(at, n)'
      BY <2>1, <3>2, LiesSame DEF Reading, ShowInv
    <3>5. Lines(ls, pos)' /\ Printed(at, ls)' /\ Ahead(at, ls, pos)'
      BY <2>1, <2>2, <3>1, <3>2, <3>3 DEF Follow, Lines, Printed, Ahead
    <3>6. Taken(at, ls[Len(decoded) + 1])'
      BY <2>1, <2>2, <3>1, <3>4 DEF Follow, Taken, Fetched
    <3> QED
      BY <3>1, <3>5, <3>6 DEF Follow
  <2> QED
    BY <1>1, <2>1, <2>2 DEF DamageInv
<1> QED
  BY <1>2, <1>3, <1>4, <1>5, <1>6 DEF Next, DecodeStep

LEMMA DamageInit == Init => DamageInv
<1> SUFFICES ASSUME Init PROVE DamageInv
  OBVIOUS
<1>1. TypeInv /\ ScatterInv
  BY TypeInit, ScatterInit
<1>2. dpc = "off" /\ decoded = <<>>
  BY DEF Init
<1> QED
  BY <1>1, <1>2 DEF DamageInv

(* At the end of the file every line has been followed.                    *)
LEMMA AllFollowed ==
  ASSUME DamageInv
  PROVE  OthersSurvive
<1> SUFFICES ASSUME dpc = "done"
             PROVE  /\ \A n \in Expected : \E k \in DOMAIN decoded : Readers(n) = {k}
                    /\ \A m, n \in Expected : m < n =>
                         \A j \in Readers(m), k \in Readers(n) : j < k
  BY DEF OthersSurvive
<1>1. PICK at, ls, pos : Located(at) /\ Follow(at, ls, pos)
  BY DEF DamageInv
<1>2. rest = <<>> /\ DeviceTypes /\ Order(wire)
  BY DEF DamageInv, TypeInv, ScatterInv
<1>3. PICK size \in Nat : size = Len(wire)
  BY <1>2, LogsOnWire
<1>4. decoded \in Seq(Seq(Seq(Chars)))
  BY <1>1 DEF Follow, Printed
<1>5. PICK c \in Nat : c = Len(decoded) /\ DOMAIN decoded = 1 .. c
  BY <1>4, LenProperties
<1>6. Started = c
  BY <1>5 DEF Started, Fetched
<1>7. ls \in [Nat -> Nat] /\ pos \in Nat /\ Part(rest, wire, pos, size + 1)
  BY <1>1, <1>3 DEF Follow, Lines
<1>8. pos = size + 1
  <2>1. Len(rest) = (size + 1) - pos
    BY <1>7 DEF Part
  <2>2. Len(rest) = 0
    BY <1>2
  <2> QED
    BY <1>7, <2>1, <2>2
<1>9. \A k \in 1 .. c : ls[k] \in Nat /\ ls[k] \in 1 .. size
  <2> SUFFICES ASSUME NEW k \in 1 .. c PROVE ls[k] \in Nat /\ ls[k] \in 1 .. size
    OBVIOUS
  <2>1. PICK x \in Nat : x = ls[k]
    BY <1>7
  <2>2. 1 <= ls[k] /\ ls[k] < pos
    BY <1>1, <1>6 DEF Follow, Lines
  <2> QED
    BY <1>8, <2>1, <2>2
<1>10. \A j, k \in 1 .. c : j < k => ls[j] < ls[k]
  BY <1>1, <1>6 DEF Follow, Lines
<1>11. \A k \in 1 .. c : /\ decoded[k][1][1] = wire[ls[k]]
                         /\ \A n \in Expected : at[n][0] = ls[k] => decoded[k] = Values(n)
  BY <1>1, <1>5 DEF Follow, Printed
<1>12. ASSUME NEW n \in Expected
       PROVE  n \in Nat /\ at[n][0] \in 1 .. size /\ wire[at[n][0]] = FirstChar(n)
              /\ Values(n)[1][1] = FirstChar(n)
  <2>1. Lies(at, n) /\ Stands(at[n], n) /\ n \in DOMAIN logged /\ Proper(n)
    BY <1>1 DEF Located, Lies
  <2>2. n \in Nat
    BY <1>2, <2>1, Lengths
  <2>3. at[n][0] \in 1 .. size
    <3>1. PICK first \in Nat, end \in Nat : /\ first = at[n][0] /\ 1 <= first /\ first <= end
                                            /\ end <= Len(wire)
      BY <1>2, <2>1, LineOf
    <3> QED
      BY <1>3, <3>1
  <2>4. Values(n)[1] = IdText(n)
    BY <1>2, <2>1, ValuesType
  <2>5. IdText(n)[1] = FirstChar(n)
    BY <2>2, IdChars
  <2> QED
    BY <2>1, <2>2, <2>3, <2>4, <2>5 DEF Stands
<1>13. ASSUME NEW n \in Expected
       PROVE  \E k \in 1 .. c : ls[k] = at[n][0] /\ decoded[k] = Values(n)
  <2>1. ~(at[n][0] >= pos)
    <3>1. PICK first \in Nat : first = at[n][0] /\ first <= size
      BY <1>12
    <3> QED
      BY <1>8, <3>1
  <2>2. at[n][0] >= pos \/ \E k \in 1 .. c : ls[k] = at[n][0]
    BY <1>1, <1>6 DEF Follow, Ahead
  <2>3. PICK k \in 1 .. c : ls[k] = at[n][0]
    BY <2>1, <2>2
  <2> QED
    BY <1>11, <2>3
<1>14. ASSUME NEW n \in Expected, NEW k \in Readers(n)
       PROVE  k \in 1 .. c /\ wire[ls[k]] = FirstChar(n)
  <2>1. k \in 1 .. c /\ decoded[k] = Values(n)
    BY <1>5, <1>14 DEF Readers
  <2> QED
    BY <1>11, <1>12, <2>1
<1>15. \A j, k \in 1 .. c : ls[j] = ls[k] => j = k
  <2> SUFFICES ASSUME NEW j \in 1 .. c, NEW k \in 1 .. c, ls[j] = ls[k], j # k PROVE FALSE
    OBVIOUS
  <2>1. j < k \/ k < j
    OBVIOUS
  <2>2. PICK x \in Nat : x = ls[j] /\ x = ls[k]
    BY <1>9
  <2> QED
    BY <1>10, <2>1, <2>2
<1>16. ASSUME NEW n \in Expected
       PROVE  \E k \in DOMAIN decoded : Readers(n) = {k}
  <2>1. PICK k \in 1 .. c : ls[k] = at[n][0] /\ decoded[k] = Values(n)
    BY <1>13
  <2>2. k \in Readers(n)
    BY <1>5, <2>1 DEF Readers
  <2>3. ASSUME NEW j \in Readers(n) PROVE j = k
    <3>1. PICK x \in 1 .. size, y \in 1 .. size : x = ls[j] /\ y = ls[k]
      BY <1>9, <1>14, <2>1
    <3>2. wire[x] = FirstChar(n) /\ wire[y] = FirstChar(n) /\ j \in 1 .. c
      BY <1>12, <1>14, <2>1, <3>1
    <3>3. x <= y /\ y <= x
      BY <1>2, <1>3, <1>12, <3>2, FirstChars DEF Order
    <3>4. x = y
      BY <3>3
    <3> QED
      BY <1>15, <3>1, <3>2, <3>4
  <2> QED
    BY <1>5, <2>1, <2>2, <2>3
<1>17. ASSUME NEW m \in Expected, NEW n \in Expected, m < n,
              NEW j \in Readers(m), NEW k \in Readers(n)
       PROVE  j < k
  <2>1. PICK x \in 1 .. size, y \in 1 .. size : x = ls[j] /\ y = ls[k]
    BY <1>9, <1>14
  <2>2. wire[x] = FirstChar(m) /\ wire[y] = FirstChar(n) /\ j \in 1 .. c /\ k \in 1 .. c
    BY <1>14, <2>1
  <2>3. m \in Nat /\ n \in Nat /\ n > m
    BY <1>12, <1>17
  <2>4. x <= y
    BY <1>2, <1>3, <2>2, <2>3 DEF Order
  <2>5. x # y
    BY <2>2, <2>3, FirstChars
  <2>6. ~(j = k) /\ ~(k < j)
    BY <1>10, <2>1, <2>2, <2>4, <2>5
  <2> QED
    BY <2>2, <2>6
<1> QED
  BY <1>16, <1>17

(* Whatever a lost character, a late line end, a reset, an interrupt, a    *)
(* message that cannot be decoded or a newline in a string did to other    *)
(* lines: when the decoder reaches the end of the file, each log that      *)
(* arrived whole, in a line of its own, and whose placeholders are         *)
(* supported has been shown once, with its own values, in the order of the *)
(* calls.  For any messages, strings, types, number of logs and of         *)
(* disturbances, and a map of up to 253 rows, as from 254 on the two ends  *)
(* work out the width of an id differently.                                *)
THEOREM DamageStaysInItsLine ==
  ASSUME Rows < 254
  PROVE  Spec => []OthersSurvive
<1>1. Init => DamageInv
  BY DamageInit
<1>2. DamageInv /\ [Next]_vars => DamageInv'
  BY DamageNext
<1>3. DamageInv => OthersSurvive
  BY AllFollowed
<1> QED
  BY <1>1, <1>2, <1>3, PTL DEF Spec

=============================================================================
