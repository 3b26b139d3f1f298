------------------------ MODULE CommentFilter_proofs -------------------------
(***************************************************************************)
(* Proofs about the parts of a file in which calls are looked for, for     *)
(* texts of any length and any minimum width of a range.                   *)
(***************************************************************************)
EXTENDS CommentFilter, NaturalOrder, SequenceTheorems

(* All ranges so far end at or before the position looked at, and outside  *)
(* a comment also at or before the start of the current part.              *)
RangeInv ==
  /\ content \in Seq(Classes)
  /\ it \in 1 .. Len(content) + 1
  /\ partBegin \in 1 .. it
  /\ result \in Seq(Nat \X Nat)
  /\ RangesDisjoint
  /\ \A n \in 1 .. Len(result) : result[n][2] <= it
  /\ ~inComment /\ ~done => \A n \in 1 .. Len(result) : result[n][2] <= partBegin

(* A range that begins where the others ended and ends no later than end.  *)
LEMMA AddRange ==
  ASSUME RangeInv, \A n \in 1 .. Len(result) : result[n][2] <= partBegin,
         NEW end \in Int, end <= it, content' = content, result' = WithRange(end)
  PROVE  /\ result' \in Seq(Nat \X Nat)
         /\ RangesDisjoint'
         /\ \A n \in 1 .. Len(result') : result'[n][2] <= it
<1>1. CASE end - partBegin < Width
  <2>1. result' = result
    BY <1>1, FilterAssumption DEF WithRange, RangeInv
  <2> QED
    BY <2>1 DEF RangeInv, RangesDisjoint, End
<1>2. CASE end - partBegin >= Width
  <2> DEFINE r == <<partBegin, end>>
  <2>1. /\ r \in Nat \X Nat /\ r[1] = partBegin /\ r[2] = end
        /\ 1 <= r[1] /\ r[1] <= r[2] /\ r[2] <= Len(content) + 1
        /\ Len(content) \in Nat /\ it \in Nat
    BY <1>2, FilterAssumption, LenProperties DEF RangeInv
  <2>2. result' = Append(result, r)
    BY <1>2 DEF WithRange
  <2> HIDE DEF r
  <2>3. /\ result' \in Seq(Nat \X Nat) /\ Len(result') = Len(result) + 1
        /\ \A n \in 1 .. Len(result) : result'[n] = result[n]
        /\ result'[Len(result) + 1] = r
        /\ Len(result) \in Nat
    BY <2>1, <2>2, AppendProperties, LenProperties DEF RangeInv
  <2>4. /\ DOMAIN result' = 1 .. Len(result) + 1
        /\ DOMAIN result = 1 .. Len(result)
    BY <2>3, LenProperties DEF RangeInv
  <2>5. \A n \in 1 .. Len(result) : result[n] \in Nat \X Nat
    BY ElementOfSeq DEF RangeInv
  <2>6. ASSUME NEW n \in DOMAIN result'
        PROVE  /\ 1 <= result'[n][1] /\ result'[n][1] <= result'[n][2]
               /\ result'[n][2] <= Len(content) + 1
               /\ \A m \in DOMAIN result' : m < n => result'[m][2] <= result'[n][1]
    <3>1. CASE n = Len(result) + 1
      <4>1. \A m \in DOMAIN result' : m < n => m \in 1 .. Len(result)
        BY <2>3, <2>4, <3>1
      <4> QED
        BY <2>1, <2>3, <3>1, <4>1
    <3>2. CASE n \in 1 .. Len(result)
      <4>1. \A m \in DOMAIN result' : m < n => m \in 1 .. Len(result)
        BY <2>3, <2>4, <3>2
      <4>2. /\ 1 <= result[n][1] /\ result[n][1] <= result[n][2]
            /\ result[n][2] <= Len(content) + 1
            /\ \A m \in 1 .. Len(result) : m < n => result[m][2] <= result[n][1]
        BY <2>4, <3>2 DEF RangeInv, RangesDisjoint, End
      <4> QED
        BY <2>3, <3>2, <4>1, <4>2
    <3> QED
      BY SMTT(30), <2>3, <2>4, <3>1, <3>2
  <2>7. ASSUME NEW n \in 1 .. Len(result') PROVE result'[n][2] <= it
    <3>1. CASE n = Len(result) + 1
      BY <2>1, <2>3, <3>1
    <3>2. CASE n \in 1 .. Len(result)
      BY <2>3, <3>2 DEF RangeInv
    <3> QED
      BY <2>3, <3>1, <3>2
  <2> QED
    BY <2>3, <2>6, <2>7 DEF RangesDisjoint, End
<1>3. end - partBegin < Width \/ end - partBegin >= Width
  BY FilterAssumption DEF RangeInv
<1> QED
  BY <1>1, <1>2, <1>3

(* A step to the next character that adds no range.                        *)
LEMMA SameRanges ==
  ASSUME RangeInv, UNCHANGED <<content, result, done>>, it <= Len(content), it' = it + 1,
         \/ partBegin' = it + 1
         \/ partBegin' = partBegin /\ (inComment' \/ ~inComment)
  PROVE  RangeInv'
<1>1. /\ Len(content) \in Nat /\ it \in Nat /\ partBegin \in Nat
      /\ \A n \in 1 .. Len(result) : result[n] \in Nat \X Nat
  BY LenProperties, ElementOfSeq DEF RangeInv
<1> QED
  BY SMTT(30), <1>1 DEF RangeInv, RangesDisjoint, End

LEMMA RangeInit == Init => RangeInv
<1> SUFFICES ASSUME Init PROVE RangeInv
  OBVIOUS
<1>1. content \in Seq(Classes) /\ Len(content) \in Nat
  BY FilterAssumption, LenProperties DEF Init
<1>2. result = <<>> /\ result \in Seq(Nat \X Nat) /\ Len(result) = 0 /\ DOMAIN result = {}
  BY EmptySeq DEF Init
<1> QED
  BY <1>1, <1>2 DEF Init, RangeInv, RangesDisjoint

LEMMA RangeNext ==
  ASSUME RangeInv, [Next]_vars
  PROVE  RangeInv'
<1> USE DEF flags
<1>0. Len(content) \in Nat /\ it \in Nat
  BY LenProperties DEF RangeInv
<1>1. CASE TooShort
  BY <1>1 DEF TooShort, RangeInv, RangesDisjoint, End
<1>2. CASE EndBlock
  BY <1>2, SameRanges DEF EndBlock, Step
<1>3. CASE InBlock
  BY <1>3, SameRanges DEF InBlock, Step
<1>4. CASE InLine
  BY <1>4, SameRanges DEF InLine, Step
<1>5. CASE InCode
  BY <1>5, SameRanges DEF InCode, Step
<1>6. CASE AfterSlash
  <2>1. /\ it <= Len(content) /\ it' = it + 1 /\ ~done /\ ~inComment
        /\ UNCHANGED <<content, done, partBegin>>
        /\ inComment' = (Here \in {"*", "/"})
    BY <1>6 DEF AfterSlash, Step
  <2>2. CASE result' = result
    BY <2>1, <2>2, SameRanges
  <2>3. CASE Here \in {"*", "/"}
    <3>1. result' = WithRange(it) \/ result' = WithRange(it - 2)
      BY <1>6, <2>3 DEF AfterSlash
    <3>2. \A n \in 1 .. Len(result) : result[n][2] <= partBegin
      BY <2>1 DEF RangeInv
    <3>3. /\ result' \in Seq(Nat \X Nat)
          /\ RangesDisjoint'
          /\ \A n \in 1 .. Len(result') : result'[n][2] <= it
      <4>1. PICK end \in {it, it - 2} : result' = WithRange(end)
        BY <3>1
      <4>2. end \in Int /\ end <= it
        BY <1>0
      <4>3. content' = content
        BY <2>1
      <4> QED
        BY <3>2, <4>1, <4>2, <4>3, AddRange
    <3>4. \A n \in 1 .. Len(result') : result'[n] \in Nat \X Nat
      BY <3>3, ElementOfSeq
    <3>5. \A n \in 1 .. Len(result') : result'[n][2] <= it'
      <4> SUFFICES ASSUME NEW n \in 1 .. Len(result') PROVE result'[n][2] <= it'
        OBVIOUS
      <4>1. result'[n] \in Nat \X Nat
        BY <3>4
      <4>2. result'[n][2] \in Nat /\ result'[n][2] <= it
        BY <3>3, <4>1
      <4> QED
        BY <1>0, <2>1, <4>2
    <3>6. it' \in 1 .. Len(content') + 1 /\ partBegin' \in 1 .. it'
      BY <1>0, <2>1 DEF RangeInv
    <3>7. inComment'
      BY <2>1, <2>3
    <3> QED
      BY <2>1, <3>3, <3>5, <3>6, <3>7 DEF RangeInv
  <2>4. Here \notin {"*", "/"} => result' = result
    BY <1>6 DEF AfterSlash
  <2> QED
    BY <2>2, <2>3, <2>4
<1>7. CASE Finish
  <2>1. /\ UNCHANGED <<content, it, inComment, partBegin>> /\ done' /\ ~done
        /\ result' = IF ~inComment \/ result = <<>> THEN WithRange(it) ELSE result
    BY <1>7 DEF Finish
  <2>2. CASE ~inComment \/ result = <<>>
    <3>1. \A n \in 1 .. Len(result) : result[n][2] <= partBegin
      BY <2>1, <2>2 DEF RangeInv
    <3>2. /\ result' \in Seq(Nat \X Nat)
          /\ RangesDisjoint'
          /\ \A n \in 1 .. Len(result') : result'[n][2] <= it
      <4>1. it \in Int /\ it <= it /\ content' = content /\ result' = WithRange(it)
        BY <1>0, <2>1, <2>2
      <4> QED
        BY <3>1, <4>1, AddRange
    <3> QED
      BY <2>1, <3>2 DEF RangeInv
  <2>3. CASE ~(~inComment \/ result = <<>>)
    BY <2>1, <2>3 DEF RangeInv, RangesDisjoint, End
  <2> QED
    BY <2>2, <2>3
<1>8. CASE UNCHANGED vars
  BY <1>8 DEF vars, RangeInv, RangesDisjoint, End
<1> QED
  BY <1>1, <1>2, <1>3, <1>4, <1>5, <1>6, <1>7, <1>8 DEF Next

(* The ranges FilterUncommentedParts returns lie in the file, in order,    *)
(* and do not overlap, whatever the file holds.                            *)
THEOREM RangesAreDisjoint == Spec => []RangesDisjoint
<1>1. RangeInv => RangesDisjoint
  BY DEF RangeInv
<1> QED
  BY <1>1, RangeInit, RangeNext, PTL DEF Spec

-----------------------------------------------------------------------------
(* The reference.  What it is made of depends on the text alone.           *)

LEMMA SameText ==
  ASSUME content' = content
  PROVE  /\ End' = End /\ TokensFrom' = TokensFrom /\ Tokens' = Tokens
         /\ Comments' = Comments /\ Literals' = Literals
         /\ \A e : CodeEnd(e)' = CodeEnd(e)
  BY DEF End, TokensFrom, Tokens, Comments, Literals, At, LineOpens, BlockOpens, Over,
         FirstOf, Escaped, CodeEnd

LEMMA SamePlaces ==
  ASSUME content' = content, NEW k
  PROVE  /\ LineOpens(k)' = LineOpens(k) /\ BlockOpens(k)' = BlockOpens(k) /\ Over(k)' = Over(k)
         /\ \A text : At(k, text)' = At(k, text)
  BY DEF End, At, LineOpens, BlockOpens, Over, FirstOf, Escaped

LEMMA SamePlain ==
  ASSUME content' = content
  PROVE  Plain' = Plain
  BY SameText, SamePlaces DEF Plain, Inside

LEMMA Places ==
  ASSUME content \in Seq(Classes)
  PROVE  /\ End \in Nat \ {0} /\ Len(content) \in Nat /\ End = Len(content) + 1
         /\ \A k \in 1 .. End - 1 : content[k] \in Classes
<1>1. Len(content) \in Nat
  BY LenProperties
<1> QED
  BY <1>1, ElementOfSeq DEF End

(* What opens at a place.                                                  *)
LEMMA OpensAt ==
  ASSUME content \in Seq(Classes), NEW k \in Nat \ {0}
  PROVE  /\ At(k, <<"q">>) <=> k < End /\ content[k] = "q"
         /\ LineOpens(k) <=> k + 1 < End /\ content[k] = "/" /\ content[k + 1] = "/"
         /\ BlockOpens(k) <=> k + 1 < End /\ content[k] = "/" /\ content[k + 1] = "*"
         /\ At(k, <<"*", "/">>) <=> k + 1 < End /\ content[k] = "*" /\ content[k + 1] = "/"
<1>1. End \in Nat /\ k + 1 - 1 = k /\ k + 2 - 1 = k + 1
  BY Places
<1>2. \A c : At(k, <<c>>) <=> k < End /\ content[k] = c
  BY <1>1 DEF At
<1>3. \A c, d : At(k, <<c, d>>) <=> k < End /\ content[k] = c /\ k + 1 < End /\ content[k + 1] = d
  BY <1>1 DEF At
<1> QED
  BY <1>1, <1>2, <1>3 DEF LineOpens, BlockOpens

LEMMA FirstIs ==
  ASSUME content \in Seq(Classes), NEW S \in SUBSET (1 .. End)
  PROVE  /\ FirstOf(S) \in 1 .. End /\ \A j \in S : FirstOf(S) <= j
         /\ S # {} => FirstOf(S) \in S
         /\ S = {} => FirstOf(S) = End
<1>1. End \in Nat \ {0} /\ S \in SUBSET Nat
  BY Places
<1>2. CASE S = {}
  BY <1>1, <1>2 DEF FirstOf
<1>3. CASE S # {}
  <2>1. FirstOf(S) = CHOOSE k \in S : \A j \in S : k <= j
    BY <1>3 DEF FirstOf
  <2>2. FirstOf(S) \in S /\ \A j \in S : FirstOf(S) <= j
    BY <1>1, <1>3, <2>1, LeastChosen
  <2> QED
    BY <1>3, <2>2
<1> QED
  BY <1>2, <1>3

Opens(k) == LineOpens(k) \/ BlockOpens(k) \/ At(k, <<"q">>)

(* A comment or literal is over behind where it opens.                     *)
LEMMA OverBehind ==
  ASSUME content \in Seq(Classes), NEW k \in 1 .. End - 1, Opens(k)
  PROVE  Over(k) \in k + 1 .. End
<1>1. End \in Nat \ {0} /\ k \in Nat \ {0}
  BY Places
<1> DEFINE L == {j + 1 : j \in {i \in k + 2 .. End - 1 : content[i] = "nl"}}
           B == {j + 2 : j \in {i \in k + 2 .. End - 2 : At(i, <<"*", "/">>)}}
           Q == {j + 1 : j \in {i \in k + 1 .. End - 1 : content[i] = "q" /\ ~Escaped(i)}}
<1>2. \E S \in {L, B, Q} : Over(k) = FirstOf(S)
  BY DEF Opens, Over
<1>3. \A S \in {L, B, Q} : S \subseteq k + 1 .. End
  BY <1>1
<1> HIDE DEF L, B, Q
<1>4. PICK S \in {L, B, Q} : Over(k) = FirstOf(S)
  BY <1>2
<1>5. S \subseteq k + 1 .. End /\ S \subseteq 1 .. End
  BY <1>1, <1>3
<1> QED
  BY <1>1, <1>4, <1>5, FirstIs

(* The recursion ends at the end of the text.                              *)
Scan(f, k) ==
  IF k = End THEN {}
  ELSE IF Opens(k) THEN {<<k, Over(k)>>} \cup f[Over(k)] ELSE f[k + 1]

LEMMA TokensScan ==
  ASSUME content \in Seq(Classes)
  PROVE  TokensFrom = [k \in 1 .. End |-> Scan(TokensFrom, k)]
<1>0. End \in Nat \ {0}
  BY Places
<1> DEFINE next == [k \in 1 .. End |-> IF k < End /\ Opens(k) THEN Over(k) ELSE k + 1]
           base == [k \in 1 .. End |-> IF k < End /\ Opens(k) THEN {<<k, Over(k)>>} ELSE {}]
           own  == 1 .. End
<1>1. \E f : Follows(f, next, base, own, {}, End)
  <2> HIDE DEF next, base, own
  <2> QED
    BY <1>0, Descent
<1>2. ASSUME NEW f, NEW k \in 1 .. End
      PROVE  Along(next, base, own, {}, End, f, k) = Scan(f, k)
  <2>1. CASE k = End
    BY <1>0, <2>1 DEF Along, Scan
  <2>2. CASE k < End /\ Opens(k)
    <3>1. Over(k) \in k + 1 .. End
      BY <1>0, <2>2, OverBehind
    <3> QED
      BY <1>0, <2>2, <3>1 DEF Along, Scan
  <2>3. CASE k < End /\ ~Opens(k)
    BY <1>0, <2>3 DEF Along, Scan
  <2> HIDE DEF next, base, own
  <2> QED
    BY <1>0, <2>1, <2>2, <2>3
<1> HIDE DEF next, base, own
<1>4. \E f : f = [k \in 1 .. End |-> Scan(f, k)]
  <2>1. PICK f : f = [k \in 1 .. End |-> Along(next, base, own, {}, End, f, k)]
    BY <1>1 DEF Follows
  <2> QED
    BY <1>2, <2>1
<1>5. TokensFrom = CHOOSE f : f = [k \in 1 .. End |-> Scan(f, k)]
  BY DEF TokensFrom, Scan, Opens
<1> QED
  BY <1>4, <1>5

LEMMA TokensStep ==
  ASSUME content \in Seq(Classes)
  PROVE  /\ TokensFrom[End] = {}
         /\ \A k \in 1 .. End - 1 :
              TokensFrom[k] = IF Opens(k) THEN {<<k, Over(k)>>} \cup TokensFrom[Over(k)]
                              ELSE TokensFrom[k + 1]
<1>1. End \in Nat \ {0}
  BY Places
<1>2. \A k \in 1 .. End : TokensFrom[k] = Scan(TokensFrom, k)
  BY TokensScan
<1>3. \A k \in 1 .. End - 1 : k \in 1 .. End /\ k # End
  BY <1>1
<1>4. End \in 1 .. End
  BY <1>1
<1> QED
  BY <1>2, <1>3, <1>4 DEF Scan

(* Comments and literals are in the text, none is empty, and those from a  *)
(* position on begin there or later.                                       *)
TokensOf(k) ==
  \A t \in TokensFrom[k] :
    /\ t = <<t[1], t[2]>> /\ t[1] \in k .. End - 1 /\ t[2] \in t[1] + 1 .. End
    /\ Opens(t[1]) /\ t[2] = Over(t[1])

LEMMA TokensAt ==
  ASSUME content \in Seq(Classes), NEW k \in 1 .. End
  PROVE  TokensOf(k)
<1>0. End \in Nat \ {0}
  BY Places
<1> DEFINE S == {n \in Nat : \A j \in 1 .. End : End - j <= n => TokensOf(j)}
<1>1. 0 \in S
  <2>1. TokensOf(End)
    BY TokensStep DEF TokensOf
  <2>2. \A j \in 1 .. End : End - j <= 0 => j = End
    BY <1>0
  <2> QED
    BY <2>1, <2>2
<1>2. ASSUME NEW n \in S PROVE n + 1 \in S
  <2> SUFFICES ASSUME NEW j \in 1 .. End, End - j <= n + 1 PROVE TokensOf(j)
    OBVIOUS
  <2>1. CASE j = End
    BY <2>1, TokensStep DEF TokensOf
  <2>2. CASE j \in 1 .. End - 1 /\ Opens(j)
    <3>1. Over(j) \in j + 1 .. End
      BY <2>2, OverBehind
    <3>2. TokensFrom[j] = {<<j, Over(j)>>} \cup TokensFrom[Over(j)]
      BY <2>2, TokensStep
    <3>3. Over(j) \in 1 .. End /\ End - Over(j) <= n
      BY <1>0, <3>1
    <3>4. TokensOf(Over(j))
      BY <3>3
    <3>5. ASSUME NEW t \in TokensFrom[Over(j)]
          PROVE  /\ t = <<t[1], t[2]>> /\ t[1] \in j .. End - 1 /\ t[2] \in t[1] + 1 .. End
                 /\ Opens(t[1]) /\ t[2] = Over(t[1])
      BY <1>0, <3>1, <3>4 DEF TokensOf
    <3> QED
      BY <1>0, <2>2, <3>1, <3>2, <3>5 DEF TokensOf
  <2>3. CASE j \in 1 .. End - 1 /\ ~Opens(j)
    <3>1. TokensFrom[j] = TokensFrom[j + 1]
      BY <2>3, TokensStep
    <3>2. j + 1 \in 1 .. End /\ End - (j + 1) <= n
      BY <1>0, <2>3
    <3>3. TokensOf(j + 1)
      BY <3>2
    <3> QED
      BY <1>0, <2>3, <3>1, <3>3 DEF TokensOf
  <2> QED
    BY <1>0, <2>1, <2>2, <2>3
<1>3. S = Nat
  <2>1. S \in SUBSET Nat
    OBVIOUS
  <2> HIDE DEF S
  <2> QED
    BY <1>1, <1>2, <2>1, Induction
<1>4. End - k \in Nat /\ End - k <= End - k
  BY <1>0
<1>5. End - k \in S
  <2> HIDE DEF S
  <2> QED
    BY <1>3, <1>4
<1> QED
  BY <1>4, <1>5

-----------------------------------------------------------------------------
(* The pass against the reference: s is the last place before it where one *)
(* of the tokens of the reference may begin.                               *)

Scanned(s) ==
  /\ s \in 1 .. End
  /\ TokensFrom[s] \subseteq Tokens
  /\ \A t \in Tokens \ TokensFrom[s] : t[2] <= s

LEMMA ScanStart ==
  ASSUME content \in Seq(Classes)
  PROVE  Scanned(1)
  BY Places DEF Scanned, Tokens

LEMMA TokenTypes ==
  ASSUME content \in Seq(Classes), NEW t \in Tokens
  PROVE  /\ t = <<t[1], t[2]>> /\ t[1] \in 1 .. End - 1 /\ t[2] \in t[1] + 1 .. End
         /\ Opens(t[1]) /\ t[2] = Over(t[1])
<1>1. 1 \in 1 .. End /\ End \in Nat
  BY Places
<1>2. TokensOf(1)
  BY <1>1, TokensAt
<1> QED
  BY <1>1, <1>2 DEF TokensOf, Tokens

(* What began before s is over.                                            *)
LEMMA Behindhand ==
  ASSUME content \in Seq(Classes), NEW s, Scanned(s), NEW t \in Tokens
  PROVE  \/ t \in TokensFrom[s] /\ t[1] >= s
         \/ t \notin TokensFrom[s] /\ t[1] < s
<1>1. /\ t[1] \in 1 .. End - 1 /\ t[2] \in t[1] + 1 .. End /\ End \in Nat
      /\ s \in 1 .. End
  BY Places, TokenTypes DEF Scanned
<1>2. CASE t \in TokensFrom[s]
  <2>1. TokensOf(s)
    BY <1>1, TokensAt
  <2>2. t[1] \in s .. End - 1
    BY <1>2, <2>1 DEF TokensOf
  <2>3. t[1] >= s
    BY <1>1, <2>2
  <2> QED
    BY <1>2, <2>3
<1>3. CASE t \notin TokensFrom[s]
  <2>1. t[2] <= s
    BY <1>3 DEF Scanned
  <2> QED
    BY <1>1, <1>3, <2>1
<1> QED
  BY <1>2, <1>3

LEMMA ScanCode ==
  ASSUME content \in Seq(Classes), NEW s, Scanned(s), s < End, ~Opens(s), NEW n, n = s + 1
  PROVE  Scanned(n) /\ \A t \in Tokens : t[1] < n => t[1] < s
<1>1. s \in 1 .. End - 1 /\ End \in Nat /\ n \in 1 .. End
  BY Places DEF Scanned
<1>2. TokensFrom[s] = TokensFrom[n]
  BY <1>1, TokensStep
<1>3. Scanned(n)
  <2>1. ASSUME NEW t \in Tokens \ TokensFrom[n] PROVE t[2] <= n
    <3>1. t[2] <= s /\ t[2] \in 1 .. End
      <4>1. t[1] \in 1 .. End - 1 /\ t[2] \in t[1] + 1 .. End
        BY TokenTypes
      <4> QED
        BY <1>1, <1>2, <2>1, <4>1 DEF Scanned
    <3> QED
      BY <1>1, <3>1
  <2> QED
    BY <1>1, <1>2, <2>1 DEF Scanned
<1>4. ASSUME NEW t \in Tokens, t[1] < n PROVE t[1] < s
  <2>1. t[1] \in 1 .. End
    BY <1>1, TokenTypes
  <2>2. t \notin TokensFrom[n]
    BY <1>1, <1>3, <1>4, <2>1, Behindhand
  <2> QED
    BY <1>2, <2>2, Behindhand
<1> QED
  BY <1>3, <1>4

LEMMA ScanToken ==
  ASSUME content \in Seq(Classes), NEW s, Scanned(s), s < End, Opens(s), NEW n, n = Over(s)
  PROVE  /\ Scanned(n) /\ n \in s + 1 .. End /\ <<s, n>> \in Tokens
         /\ \A t \in Tokens : t[1] < n => t[1] < s \/ t = <<s, n>>
<1>1. s \in 1 .. End - 1 /\ End \in Nat
  BY Places DEF Scanned
<1>2. n \in s + 1 .. End /\ n \in 1 .. End
  BY <1>1, OverBehind
<1>3. TokensFrom[s] = {<<s, n>>} \cup TokensFrom[n]
  BY <1>1, TokensStep
<1>4. Scanned(n)
  <2>1. ASSUME NEW t \in Tokens \ TokensFrom[n] PROVE t[2] <= n
    <3>1. CASE t = <<s, n>>
      BY <1>1, <1>2, <3>1
    <3>2. CASE t # <<s, n>>
      <4>1. t[2] <= s
        BY <1>3, <2>1, <3>2 DEF Scanned
      <4>2. t[1] \in 1 .. End - 1 /\ t[2] \in t[1] + 1 .. End
        BY TokenTypes
      <4> QED
        BY <1>1, <1>2, <4>1, <4>2
    <3> QED
      BY <3>1, <3>2
  <2> QED
    BY <1>2, <1>3, <2>1 DEF Scanned
<1>5. ASSUME NEW t \in Tokens, t[1] < n PROVE t[1] < s \/ t = <<s, n>>
  <2>1. t[1] \in 1 .. End
    BY <1>1, TokenTypes
  <2>2. t \notin TokensFrom[n]
    BY <1>2, <1>4, <1>5, <2>1, Behindhand
  <2> QED
    BY <1>3, <2>2, Behindhand
<1> QED
  BY <1>2, <1>3, <1>4, <1>5 DEF Scanned

(* Where the pass is, by its flags.                                        *)
AtCode(s)    == ~inComment /\ ~firstSlashDetected /\ ~endStarDetected /\ s = it
AtLiteral(s) ==
  /\ ~inComment /\ ~firstSlashDetected /\ ~endStarDetected
  /\ At(s, <<"q">>) /\ it \in s + 1 .. Over(s) - 1
AtSlash(s)   ==
  /\ ~inComment /\ firstSlashDetected /\ ~endStarDetected
  /\ it = s + 1 /\ content[s] = "/"
AtLine(s)    ==
  /\ inComment /\ ~blockComment /\ ~endStarDetected
  /\ LineOpens(s) /\ s + 2 <= it
  /\ \A i \in s + 2 .. it - 1 : content[i] # "nl"
AtBlock(s)   ==
  /\ inComment /\ blockComment
  /\ BlockOpens(s) /\ s + 2 <= it
  /\ \A i \in s + 2 .. it - 2 : ~At(i, <<"*", "/">>)
  /\ endStarDetected <=> s + 2 <= it - 1 /\ content[it - 1] = "*"

Where(s) == AtCode(s) \/ AtLiteral(s) \/ AtSlash(s) \/ AtLine(s) \/ AtBlock(s)

(* What was searched of the comments and of the code that begin before s.  *)
Looked(b) ==
  \E e \in {c[1] : c \in Comments} \cup {End} :
    /\ b <= e
    /\ CodeEnd(e) - b >= Width =>
         \E r \in Ranges : (b .. CodeEnd(e) - 1) \subseteq Inside(r)

Begins(s) == {1} \cup {c[2] : c \in {d \in Comments : d[1] < s}}

PartInv(s) ==
  /\ partBegin <= s
  /\ inComment => \A r \in Ranges : r[2] <= s + 1
  /\ \A c \in Comments : c[1] < s =>
       c[2] <= partBegin /\ \A r \in Ranges : Inside(r) \cap Inside(c) \subseteq {c[1]}
  /\ \A b \in Begins(s) : (~inComment /\ b = partBegin) \/ Looked(b)

Passed == \E s \in 1 .. End : Scanned(s) /\ Where(s) /\ PartInv(s)

PassInv ==
  /\ Len(content) < Width => result = <<>>
  /\ Plain => IF done THEN NothingCommented /\ CodeSearched ELSE Passed

LEMMA SameScanned ==
  ASSUME content' = content, NEW s
  PROVE  Scanned(s)' = Scanned(s)
  BY SameText DEF Scanned

(* The pass goes on, and no comment began or ended.                        *)
LEMMA PartSame ==
  ASSUME NEW s, NEW n, PartInv(s), UNCHANGED <<content, result, partBegin>>,
         RangeInv, s \in Nat, n \in Nat, s <= n,
         (n = s /\ inComment' = inComment) \/ (~inComment /\ ~inComment'),
         \A c \in Comments : c[1] < n => c[1] < s
  PROVE  PartInv(n)'
<1>1. Comments' = Comments /\ End' = End /\ Ranges' = Ranges
  BY SameText DEF Ranges
<1>2. \A c \in Comments : c[1] < n => c[1] < s
  OBVIOUS
<1>3. \A b : Looked(b)' = Looked(b)
  BY <1>1, SameText DEF Looked, Inside
<1>4. Begins(n)' \subseteq Begins(s)
  BY <1>1, <1>2 DEF Begins
<1>5. partBegin \in Nat
  BY LenProperties DEF RangeInv
<1> QED
  BY <1>1, <1>2, <1>3, <1>4, <1>5 DEF PartInv, Inside

(* What a part that is wide enough adds to the ranges.                     *)
LEMMA AppendRange ==
  ASSUME RangeInv, NEW end \in Int, result' = WithRange(end)
  PROVE  /\ \A r \in Ranges' :
              r \in Ranges \/ (r = <<partBegin, end>> /\ end - partBegin >= Width)
         /\ \A r \in Ranges : r \in Ranges'
         /\ end - partBegin >= Width => <<partBegin, end>> \in Ranges'
<1>1. result \in Seq(Nat \X Nat) /\ partBegin \in Nat /\ Width \in Nat \ {0}
  BY FilterAssumption, LenProperties DEF RangeInv
<1>2. CASE end - partBegin >= Width
  <2> DEFINE r == <<partBegin, end>>
  <2>1. r \in Nat \X Nat
    BY <1>1, <1>2
  <2> HIDE DEF r
  <2>2. result' = Append(result, r)
    BY <1>2 DEF WithRange, r
  <2>3. /\ Len(result) \in Nat /\ Len(result') = Len(result) + 1
        /\ DOMAIN result = 1 .. Len(result) /\ DOMAIN result' = 1 .. Len(result) + 1
        /\ \A n \in 1 .. Len(result) : result'[n] = result[n]
        /\ result'[Len(result) + 1] = r
    BY <1>1, <2>1, <2>2, AppendProperties, LenProperties
  <2>4. Ranges' = Ranges \cup {r}
    BY <2>3 DEF Ranges
  <2> QED
    BY <1>2, <2>4 DEF r
<1>3. CASE ~(end - partBegin >= Width)
  BY <1>3 DEF WithRange, Ranges
<1> QED
  BY <1>2, <1>3

(* Where a comment is over that no character has ended so far.             *)
LEMMA LineOver ==
  ASSUME content \in Seq(Classes), it \in 1 .. End, NEW s \in 1 .. End - 1, AtLine(s)
  PROVE  /\ it < End /\ Here = "nl" => Over(s) = it + 1
         /\ it = End => Over(s) = End
<1>0. End \in Nat \ {0} /\ it \in Nat /\ s \in Nat
  BY Places
<1> DEFINE S == {j + 1 : j \in {i \in s + 2 .. End - 1 : content[i] = "nl"}}
<1>1. Over(s) = FirstOf(S)
  <2>1. LineOpens(s) /\ ~BlockOpens(s) /\ ~At(s, <<"q">>)
    BY <1>0, OpensAt DEF AtLine
  <2> QED
    BY <2>1 DEF Over
<1>2. S \in SUBSET (1 .. End)
  BY <1>0
<1>3. \A j \in S : j >= it + 1
  BY <1>0 DEF AtLine
<1>4. it < End /\ Here = "nl" => it + 1 \in S
  BY <1>0 DEF AtLine, Here
<1>5. it = End => S = {}
  BY SMTT(30), <1>0, <1>3
<1> HIDE DEF S
<1>6. FirstOf(S) \in 1 .. End /\ \A j \in S : FirstOf(S) <= j
  BY <1>2, FirstIs
<1>7. S # {} => FirstOf(S) \in S
  BY <1>2, FirstIs
<1>8. S = {} => FirstOf(S) = End
  BY <1>2, FirstIs
<1> QED
  BY <1>0, <1>1, <1>3, <1>4, <1>5, <1>6, <1>7, <1>8

LEMMA BlockOver ==
  ASSUME content \in Seq(Classes), it \in 1 .. End, NEW s \in 1 .. End - 1, AtBlock(s)
  PROVE  /\ it < End => Over(s) >= it + 1
         /\ it < End /\ endStarDetected /\ Here = "/" => Over(s) = it + 1
         /\ it = End => Over(s) = End
<1>0. End \in Nat \ {0} /\ it \in Nat /\ s \in Nat
  BY Places
<1> DEFINE S == {j + 2 : j \in {i \in s + 2 .. End - 2 : At(i, <<"*", "/">>)}}
<1>1. Over(s) = FirstOf(S)
  <2>1. BlockOpens(s) /\ ~LineOpens(s) /\ ~At(s, <<"q">>)
    BY <1>0, OpensAt DEF AtBlock
  <2> QED
    BY <2>1 DEF Over
<1>2. S \in SUBSET (1 .. End)
  BY <1>0
<1>3. \A j \in S : j >= it + 1
  BY <1>0 DEF AtBlock
<1>4. it < End /\ endStarDetected /\ Here = "/" => it + 1 \in S
  <2> SUFFICES ASSUME it < End, endStarDetected, Here = "/" PROVE it + 1 \in S
    OBVIOUS
  <2>1. /\ it - 1 \in s + 2 .. End - 2 /\ content[it - 1] = "*" /\ content[it - 1 + 1] = "/"
        /\ it - 1 \in Nat \ {0} /\ it - 1 + 1 < End /\ it - 1 + 2 = it + 1
    BY <1>0 DEF AtBlock, Here
  <2>2. At(it - 1, <<"*", "/">>)
    BY <2>1, OpensAt
  <2> QED
    BY <2>1, <2>2
<1> HIDE DEF S
<1>5. it = End => S = {}
  BY <1>0, <1>2, <1>3
<1>6. FirstOf(S) \in 1 .. End /\ \A j \in S : FirstOf(S) <= j
  BY <1>2, FirstIs
<1>7. S # {} => FirstOf(S) \in S
  BY <1>2, FirstIs
<1>8. S = {} => FirstOf(S) = End
  BY <1>2, FirstIs
<1> QED
  BY <1>0, <1>1, <1>3, <1>4, <1>5, <1>6, <1>7, <1>8

(* A character of the code that is no slash.                               *)
LEMMA CodeCharacter ==
  ASSUME content \in Seq(Classes), NEW s, Scanned(s), s = it, it < End, Here # "/",
         content' = content, it' = it + 1,
         ~inComment', ~firstSlashDetected', ~endStarDetected'
  PROVE  \E n \in 1 .. End :
           /\ Scanned(n) /\ s <= n /\ (AtCode(n)' \/ AtLiteral(n)')
           /\ \A c \in Comments : c[1] < n => c[1] < s
<1>0. End \in Nat \ {0} /\ s \in 1 .. End - 1 /\ s \in Nat \ {0} /\ it \in Nat
  BY Places DEF Scanned
<1>1. CASE Here = "q"
  <2>1. At(s, <<"q">>) /\ Opens(s)
    BY <1>0, <1>1, OpensAt DEF Here, Opens
  <2>2. PICK n : n = Over(s)
    OBVIOUS
  <2>3. /\ Scanned(n) /\ n \in s + 1 .. End
        /\ \A t \in Tokens : t[1] < n => t[1] < s \/ t = <<s, n>>
    BY <1>0, <2>1, <2>2, ScanToken
  <2>4. \A c \in Comments : c[1] < n => c[1] < s
    BY <1>1, <2>3 DEF Comments, Here
  <2>5. CASE n = s + 1
    BY <1>0, <2>3, <2>4, <2>5 DEF AtCode
  <2>6. CASE n # s + 1
    <3>1. AtLiteral(s)'
      <4>1. At(s, <<"q">>)' /\ Over(s)' = n
        BY <2>1, <2>2, SamePlaces
      <4>2. it + 1 \in s + 1 .. n - 1
        BY <1>0, <2>3, <2>6
      <4> QED
        BY <4>1, <4>2 DEF AtLiteral
    <3> QED
      BY <1>0, <3>1
  <2> QED
    BY <2>5, <2>6
<1>2. CASE Here # "q"
  <2>1. ~Opens(s)
    BY <1>0, <1>2, OpensAt DEF Here, Opens
  <2>2. PICK n : n = s + 1
    OBVIOUS
  <2>3. Scanned(n) /\ \A t \in Tokens : t[1] < n => t[1] < s
    BY <1>0, <2>1, <2>2, ScanCode
  <2>4. AtCode(n)' /\ n \in 1 .. End /\ s <= n
    BY <1>0, <2>2 DEF AtCode
  <2> QED
    BY <2>3, <2>4 DEF Comments
<1> QED
  BY <1>1, <1>2

(* A comment begins: what is in front of it was searched.                  *)
LEMMA PartOpen ==
  ASSUME RangeInv, NEW s, PartInv(s), Scanned(s), it = s + 1, it < End, Opens(s),
         content[s] = "/", ~done, ~inComment, inComment', UNCHANGED <<content, partBegin>>,
         NEW end \in {it, it - 2}, result' = WithRange(end), CodeEnd(s) <= end
  PROVE  PartInv(s)'
<1>0. /\ End \in Nat \ {0} /\ s \in 1 .. End - 1 /\ s \in Nat /\ it \in Nat
      /\ partBegin \in Nat /\ partBegin <= s /\ content \in Seq(Classes)
      /\ Width \in Nat \ {0} /\ end \in Int
  BY Places, LenProperties, FilterAssumption DEF Scanned, RangeInv, PartInv
<1>1. Comments' = Comments /\ End' = End /\ Begins(s)' = Begins(s)
  BY SameText DEF Begins
<1>2. /\ \A r \in Ranges' : r \in Ranges \/ (r = <<partBegin, end>> /\ end <= s + 1)
      /\ \A r \in Ranges : r \in Ranges'
      /\ end - partBegin >= Width => <<partBegin, end>> \in Ranges'
  BY <1>0, AppendRange
<1>3. \A r \in Ranges : r \in Nat \X Nat /\ r[2] <= partBegin
  <2>1. \A n \in 1 .. Len(result) : result[n] \in Nat \X Nat /\ result[n][2] <= partBegin
    BY ElementOfSeq DEF RangeInv
  <2> QED
    BY <2>1, LenProperties DEF Ranges, RangeInv
<1>4. ASSUME NEW r \in Ranges' PROVE r[2] <= s + 1
  BY <1>0, <1>2, <1>3, <1>4
<1>5. ASSUME NEW c \in Comments, c[1] < s, NEW r \in Ranges'
      PROVE  c[2] <= partBegin /\ Inside(r) \cap Inside(c) \subseteq {c[1]}
  <2>1. c[2] <= partBegin /\ \A q \in Ranges : Inside(q) \cap Inside(c) \subseteq {c[1]}
    BY <1>5 DEF PartInv
  <2>2. c[2] \in Nat
    BY <1>0, TokenTypes DEF Comments
  <2> QED
    BY <1>0, <1>2, <1>5, <2>1, <2>2 DEF Inside
<1>6. ASSUME NEW b \in Begins(s) PROVE Looked(b)'
  <2>1. CASE Looked(b)
    BY <1>1, <1>2, <2>1, SameText DEF Looked, Inside
  <2>2. CASE b = partBegin
    <3>1. s \in {c[1] : c \in Comments}
      <4>1. <<s, Over(s)>> \in Tokens
        BY <1>0, ScanToken
      <4>2. <<s, Over(s)>> \in Comments
        BY <4>1 DEF Comments
      <4> QED
        BY <4>2
    <3>2. ASSUME CodeEnd(s) - b >= Width
          PROVE  \E r \in Ranges' : (b .. CodeEnd(s) - 1) \subseteq Inside(r)
      <4>1. CodeEnd(s) \in Int /\ end >= CodeEnd(s) /\ end - partBegin >= Width
        BY <1>0, <2>2, <3>2 DEF CodeEnd
      <4>2. (b .. CodeEnd(s) - 1) \subseteq Inside(<<partBegin, end>>)
        BY <1>0, <2>2, <4>1 DEF Inside
      <4> QED
        BY <1>2, <4>1, <4>2
    <3>3. \E e \in {c[1] : c \in Comments} \cup {End} :
            /\ b <= e
            /\ CodeEnd(e) - b >= Width =>
                 \E r \in Ranges' : (b .. CodeEnd(e) - 1) \subseteq Inside(r)
      BY <1>0, <2>2, <3>1, <3>2
    <3>4. \A e : CodeEnd(e)' = CodeEnd(e)
      BY SameText
    <3> QED
      BY <1>1, <3>3, <3>4 DEF Looked, Inside
  <2> QED
    BY <1>6, <2>1, <2>2 DEF PartInv
<1> QED
  BY <1>0, <1>1, <1>4, <1>5, <1>6 DEF PartInv, Inside

(* A comment is over at n.                                                 *)
LEMMA PartClose ==
  ASSUME RangeInv, NEW s, PartInv(s), Scanned(s), s < End, Opens(s), NEW n, n = Over(s),
         inComment, ~inComment', partBegin' = n, UNCHANGED <<content, result>>
  PROVE  PartInv(n)' /\ Scanned(n)
<1>0. /\ End \in Nat \ {0} /\ s \in 1 .. End - 1 /\ s \in Nat
      /\ partBegin \in Nat /\ partBegin <= s /\ content \in Seq(Classes)
  BY Places, LenProperties DEF Scanned, RangeInv, PartInv
<1>1. /\ Scanned(n) /\ n \in s + 1 .. End
      /\ \A c \in Comments : c[1] < n => c[1] < s \/ c = <<s, n>>
  BY <1>0, ScanToken DEF Comments
<1>2. Comments' = Comments /\ End' = End /\ Ranges' = Ranges
  BY SameText DEF Ranges
<1>3. ASSUME NEW c \in Comments, c[1] < n, NEW r \in Ranges
      PROVE  Inside(r) \cap Inside(c) \subseteq {c[1]}
  <2>1. r \in Nat \X Nat /\ r[2] <= s + 1
    <3>1. \A m \in 1 .. Len(result) : result[m] \in Nat \X Nat
      BY ElementOfSeq DEF RangeInv
    <3> QED
      BY <3>1, LenProperties DEF Ranges, RangeInv, PartInv
  <2>2. CASE c[1] < s
    BY <2>2 DEF PartInv
  <2>3. CASE c = <<s, n>>
    BY <1>0, <1>1, <2>1, <2>3 DEF Inside
  <2> QED
    BY <1>1, <1>3, <2>2, <2>3
<1>4. ASSUME NEW c \in Comments, c[1] < n PROVE c[2] <= n
  <2>1. c[2] \in Nat
    BY <1>0, TokenTypes DEF Comments
  <2> QED
    BY <1>0, <1>1, <1>4, <2>1 DEF PartInv
<1>5. ASSUME NEW b \in Begins(n)' PROVE b = n \/ Looked(b)'
  <2>1. b \in Begins(s) \/ b = n
    BY <1>1, <1>2 DEF Begins
  <2>2. b \in Begins(s) => Looked(b)
    BY DEF PartInv
  <2> QED
    BY <1>2, <2>1, <2>2, SameText DEF Looked, Inside
<1> QED
  BY <1>0, <1>1, <1>2, <1>3, <1>4, <1>5 DEF PartInv, Inside

LEMMA PassedTypes ==
  ASSUME RangeInv, NEW s, Scanned(s), PartInv(s)
  PROVE  /\ content \in Seq(Classes) /\ End \in Nat \ {0} /\ End = Len(content) + 1
         /\ s \in 1 .. End /\ s \in Nat \ {0} /\ it \in 1 .. End /\ it \in Nat \ {0}
  BY Places DEF RangeInv, Scanned

(* The same place, and a place in the code.                                *)
LEMMA PassedHere ==
  ASSUME RangeInv, NEW s, Scanned(s), PartInv(s), UNCHANGED <<content, result, partBegin>>,
         inComment' = inComment, Where(s)'
  PROVE  Passed'
<1>0. s \in Nat /\ s <= s /\ \A c \in Comments : c[1] < s => c[1] < s
  BY PassedTypes
<1>1. PartInv(s)'
  BY <1>0, PartSame
<1>2. End' = End /\ Scanned(s)' /\ s \in 1 .. End
  BY SameText, SameScanned DEF Scanned
<1> QED
  BY <1>1, <1>2 DEF Passed

LEMMA PassedOn ==
  ASSUME RangeInv, NEW s, Scanned(s), PartInv(s), UNCHANGED <<content, result, partBegin>>,
         ~inComment, ~inComment', NEW n \in 1 .. End, Scanned(n), s <= n, Where(n)',
         \A c \in Comments : c[1] < n => c[1] < s
  PROVE  Passed'
<1>1. s \in Nat /\ n \in Nat
  BY PassedTypes
<1>2. PartInv(n)'
  BY <1>1, PartSame
<1>3. End' = End /\ Scanned(n)'
  BY SameText, SameScanned
<1> QED
  BY <1>2, <1>3 DEF Passed

LEMMA PassInCode ==
  ASSUME RangeInv, Plain, NEW s, Scanned(s), Where(s), PartInv(s), InCode
  PROVE  Passed'
<1>0. /\ content \in Seq(Classes) /\ End \in Nat \ {0} /\ End = Len(content) + 1
      /\ s \in 1 .. End /\ s \in Nat \ {0} /\ it \in 1 .. End /\ it \in Nat \ {0}
  BY PassedTypes
<1>1. /\ it < End /\ it' = it + 1 /\ ~inComment /\ ~firstSlashDetected /\ ~endStarDetected
      /\ firstSlashDetected' = (Here = "/")
      /\ UNCHANGED <<content, result, partBegin, inComment, blockComment, endStarDetected>>
  BY <1>0 DEF InCode, Step
<1>2. CASE AtCode(s) /\ Here = "/"
  <2>1. AtSlash(s)'
    BY <1>1, <1>2 DEF AtCode, AtSlash, Here
  <2> QED
    BY <1>1, <2>1, PassedHere DEF Where
<1>3. CASE AtCode(s) /\ Here # "/"
  <2>1. s = it /\ ~inComment' /\ ~firstSlashDetected' /\ ~endStarDetected'
    BY <1>1, <1>3 DEF AtCode
  <2>2. PICK n \in 1 .. End :
           /\ Scanned(n) /\ s <= n /\ (AtCode(n)' \/ AtLiteral(n)')
           /\ \A c \in Comments : c[1] < n => c[1] < s
    BY <1>0, <1>1, <1>3, <2>1, CodeCharacter
  <2> QED
    BY <1>1, <2>2, PassedOn DEF Where
<1>4. CASE AtLiteral(s)
  <2>1. At(s, <<"q">>) /\ it \in s + 1 .. Over(s) - 1 /\ s < End /\ Opens(s) /\ content[s] = "q"
    BY <1>0, <1>4, OpensAt DEF AtLiteral, Opens
  <2>2. PICK n : n = Over(s)
    OBVIOUS
  <2>3. /\ Scanned(n) /\ n \in s + 1 .. End /\ <<s, n>> \in Tokens
        /\ \A t \in Tokens : t[1] < n => t[1] < s \/ t = <<s, n>>
    BY <1>0, <2>1, <2>2, ScanToken
  <2>4. \A c \in Comments : c[1] < n => c[1] < s
    BY <2>1, <2>3 DEF Comments
  <2>5. Here # "/"
    <3>1. <<s, n>> \in Literals
      BY <2>1, <2>3 DEF Literals, Comments
    <3>2. it \in Inside(<<s, n>>)
      BY <1>0, <2>1, <2>2, <2>3 DEF Inside
    <3> QED
      BY <3>1, <3>2 DEF Plain, Here
  <2>6. ~inComment' /\ ~firstSlashDetected' /\ ~endStarDetected'
    BY <1>1, <2>5
  <2>7. CASE it + 1 = n
    <3>1. AtCode(n)' /\ n \in 1 .. End /\ s <= n
      BY <1>0, <1>1, <2>3, <2>6, <2>7 DEF AtCode
    <3> QED
      BY <1>1, <2>3, <2>4, <3>1, PassedOn DEF Where
  <2>8. CASE it + 1 # n
    <3>1. At(s, <<"q">>)' /\ Over(s)' = n
      BY <1>1, <2>1, <2>2, SamePlaces
    <3>2. it + 1 \in s + 1 .. n - 1
      BY <1>0, <2>1, <2>2, <2>3, <2>8
    <3>3. AtLiteral(s)'
      BY <1>1, <2>6, <3>1, <3>2 DEF AtLiteral
    <3> QED
      BY <1>1, <3>3, PassedHere DEF Where
  <2> QED
    BY <2>7, <2>8
<1> QED
  BY <1>1, <1>2, <1>3, <1>4 DEF Where, AtSlash, AtLine, AtBlock

LEMMA PassAfterSlash ==
  ASSUME RangeInv, NEW s, Scanned(s), Where(s), PartInv(s), AfterSlash
  PROVE  Passed'
<1>0. /\ content \in Seq(Classes) /\ End \in Nat \ {0} /\ End = Len(content) + 1
      /\ s \in 1 .. End /\ s \in Nat \ {0} /\ it \in 1 .. End /\ it \in Nat \ {0}
  BY PassedTypes
<1>1. /\ it < End /\ it' = it + 1 /\ ~done /\ ~inComment /\ firstSlashDetected
      /\ ~endStarDetected
      /\ inComment' = (Here \in {"*", "/"}) /\ blockComment' = (Here = "*")
      /\ firstSlashDetected' = (Here \in {"*", "/"})
      /\ UNCHANGED <<content, partBegin, endStarDetected>>
  BY <1>0 DEF AfterSlash, Step
<1>2. it = s + 1 /\ content[s] = "/"
  BY <1>1 DEF Where, AtCode, AtLiteral, AtSlash, AtLine, AtBlock
<1>3. CASE Here \in {"*", "/"}
  <2>1. Opens(s) /\ (Here = "*" => BlockOpens(s)) /\ (Here = "/" => LineOpens(s))
    BY <1>0, <1>1, <1>2, <1>3, OpensAt DEF Opens, Here
  <2>2. PICK end \in {it, it - 2} : result' = WithRange(end) /\ CodeEnd(s) <= end
    <3>1. CASE Here = "*"
      BY <1>0, <1>2, <3>1 DEF AfterSlash, CodeEnd
    <3>2. CASE Here = "/"
      BY <1>0, <1>2, <2>1, <3>2 DEF AfterSlash, CodeEnd
    <3> QED
      BY <1>3, <3>1, <3>2
  <2>3. PartInv(s)'
    BY <1>1, <1>2, <1>3, <2>1, <2>2, PartOpen
  <2>4. Where(s)'
    <3>1. LineOpens(s)' = LineOpens(s) /\ BlockOpens(s)' = BlockOpens(s)
      BY <1>1, SamePlaces
    <3>2. /\ s + 2 <= it' /\ s + 2 .. it' - 1 = {} /\ s + 2 .. it' - 2 = {}
          /\ ~(s + 2 <= it' - 1)
      BY <1>0, <1>1, <1>2
    <3>3. CASE Here = "*"
      <4>1. AtBlock(s)'
        BY <1>1, <2>1, <3>1, <3>2, <3>3 DEF AtBlock
      <4> QED
        BY <4>1 DEF Where
    <3>4. CASE Here = "/"
      <4>1. AtLine(s)'
        BY <1>1, <2>1, <3>1, <3>2, <3>4 DEF AtLine
      <4> QED
        BY <4>1 DEF Where
    <3> QED
      BY <1>3, <3>3, <3>4
  <2>5. End' = End /\ Scanned(s)'
    BY <1>1, SameText, SameScanned
  <2> QED
    BY <1>0, <2>3, <2>4, <2>5 DEF Passed
<1>4. CASE Here \notin {"*", "/"}
  <2>1. ~Opens(s)
    BY <1>0, <1>2, <1>4, OpensAt DEF Opens, Here
  <2>2. Scanned(it) /\ \A t \in Tokens : t[1] < it => t[1] < s
    BY <1>0, <1>1, <1>2, <2>1, ScanCode
  <2>3. /\ ~inComment' /\ ~firstSlashDetected' /\ ~endStarDetected'
        /\ result' = result
    <3>1. ~inComment' /\ ~firstSlashDetected' /\ ~endStarDetected'
      BY <1>1, <1>4
    <3>2. result' = result
      BY <1>4 DEF AfterSlash
    <3> QED
      BY <3>1, <3>2
  <2>4. PICK m : m = it
    OBVIOUS
  <2>5. PICK n \in 1 .. End :
           /\ Scanned(n) /\ m <= n /\ (AtCode(n)' \/ AtLiteral(n)')
           /\ \A c \in Comments : c[1] < n => c[1] < m
    BY <1>0, <1>1, <1>4, <2>2, <2>3, <2>4, CodeCharacter
  <2>6. s <= n /\ \A c \in Comments : c[1] < n => c[1] < s
    BY <1>0, <1>2, <2>2, <2>4, <2>5 DEF Comments
  <2> QED
    BY <1>1, <2>3, <2>5, <2>6, PassedOn DEF Where
<1> QED
  BY <1>3, <1>4

(* A comment that began at s is over behind this character.                *)
LEMMA PassedOver ==
  ASSUME RangeInv, NEW s, Scanned(s), PartInv(s), s < End, Opens(s), Over(s) = it + 1,
         inComment, ~inComment', ~firstSlashDetected', ~endStarDetected',
         it' = it + 1, partBegin' = it + 1, UNCHANGED <<content, result>>
  PROVE  Passed'
<1>1. PICK n : n = Over(s)
  OBVIOUS
<1>2. PartInv(n)' /\ Scanned(n)
  BY <1>1, PartClose
<1>3. End' = End /\ Scanned(n)' /\ n \in 1 .. End
  BY <1>2, SameText, SameScanned DEF Scanned
<1>4. AtCode(n)'
  BY <1>1 DEF AtCode
<1> QED
  BY <1>2, <1>3, <1>4 DEF Passed, Where

LEMMA PassInLine ==
  ASSUME RangeInv, NEW s, Scanned(s), Where(s), PartInv(s), InLine
  PROVE  Passed'
<1>0. /\ content \in Seq(Classes) /\ End \in Nat \ {0} /\ End = Len(content) + 1
      /\ s \in 1 .. End /\ s \in Nat \ {0} /\ it \in 1 .. End /\ it \in Nat \ {0}
  BY PassedTypes
<1>1. /\ it < End /\ it' = it + 1 /\ inComment /\ ~blockComment /\ ~endStarDetected
      /\ UNCHANGED <<content, result, blockComment, endStarDetected>>
  BY <1>0 DEF InLine, Step
<1>2. AtLine(s)
  BY <1>1 DEF Where, AtCode, AtLiteral, AtSlash, AtBlock
<1>3. s < End /\ Opens(s)
  BY <1>0, <1>2, OpensAt DEF AtLine, Opens
<1>4. CASE Here = "nl"
  <2>1. Over(s) = it + 1
    BY <1>0, <1>1, <1>2, <1>3, <1>4, LineOver
  <2>2. ~firstSlashDetected' /\ ~inComment' /\ partBegin' = it + 1
    BY <1>4 DEF InLine
  <2> QED
    BY <1>1, <1>3, <2>1, <2>2, PassedOver
<1>5. CASE Here # "nl"
  <2>1. UNCHANGED <<inComment, partBegin>>
    BY <1>5 DEF InLine
  <2>2. AtLine(s)'
    <3>1. LineOpens(s)' = LineOpens(s)
      BY <1>1, SamePlaces
    <3>2. \A i \in s + 2 .. it' - 1 : content[i] # "nl"
      BY <1>0, <1>1, <1>2, <1>5 DEF AtLine, Here
    <3> QED
      BY <1>0, <1>1, <1>2, <2>1, <3>1, <3>2 DEF AtLine
  <2> QED
    BY <1>1, <2>1, <2>2, PassedHere DEF Where
<1> QED
  BY <1>4, <1>5

(* The next character of a block comment that is none of its end.          *)
LEMMA AtBlockNext ==
  ASSUME RangeInv, NEW s \in Nat \ {0}, AtBlock(s), it < End, it' = it + 1,
         UNCHANGED <<content, inComment, blockComment>>,
         endStarDetected => Here # "/", endStarDetected' = (Here = "*")
  PROVE  AtBlock(s)'
<1>0. content \in Seq(Classes) /\ it \in Nat /\ End \in Nat
  BY Places DEF RangeInv
<1>1. BlockOpens(s)' = BlockOpens(s) /\ \A i : At(i, <<"*", "/">>)' = At(i, <<"*", "/">>)
  BY SamePlaces
<1>2. s + 2 <= it' /\ it' - 1 = it /\ s + 2 <= it
  BY <1>0 DEF AtBlock
<1>3. ASSUME NEW i \in s + 2 .. it' - 2 PROVE ~At(i, <<"*", "/">>)
  <2>1. CASE i = it - 1
    <3>1. content[i] # "*" \/ content[i + 1] # "/"
      BY <1>0, <1>3, <2>1 DEF AtBlock, Here
    <3> QED
      BY <1>0, <1>3, <3>1, OpensAt
  <2>2. CASE i # it - 1
    BY <1>0, <1>3, <2>2 DEF AtBlock
  <2> QED
    BY <2>1, <2>2
<1> QED
  BY <1>0, <1>1, <1>2, <1>3 DEF AtBlock, Here

LEMMA PassInBlock ==
  ASSUME RangeInv, NEW s, Scanned(s), Where(s), PartInv(s), InBlock
  PROVE  Passed'
<1>0. /\ content \in Seq(Classes) /\ End \in Nat \ {0} /\ End = Len(content) + 1
      /\ s \in 1 .. End /\ s \in Nat \ {0} /\ it \in 1 .. End /\ it \in Nat \ {0}
  BY PassedTypes
<1>1. /\ it < End /\ it' = it + 1 /\ inComment /\ blockComment /\ ~endStarDetected
      /\ endStarDetected' = (Here = "*")
      /\ UNCHANGED <<content, result, partBegin, inComment, blockComment>>
  BY <1>0 DEF InBlock, Step
<1>2. AtBlock(s)
  BY <1>1 DEF Where, AtCode, AtLiteral, AtSlash, AtLine
<1>3. AtBlock(s)'
  BY <1>0, <1>1, <1>2, AtBlockNext
<1> QED
  BY <1>1, <1>3, PassedHere DEF Where

LEMMA PassEndBlock ==
  ASSUME RangeInv, Plain, NEW s, Scanned(s), Where(s), PartInv(s), EndBlock
  PROVE  Passed'
<1>0. /\ content \in Seq(Classes) /\ End \in Nat \ {0} /\ End = Len(content) + 1
      /\ s \in 1 .. End /\ s \in Nat \ {0} /\ it \in 1 .. End /\ it \in Nat \ {0}
  BY PassedTypes
<1>1. /\ it < End /\ it' = it + 1 /\ endStarDetected /\ endStarDetected' = FALSE
      /\ UNCHANGED <<content, result>>
  BY <1>0 DEF EndBlock, Step
<1>2. AtBlock(s)
  BY <1>1 DEF Where, AtCode, AtLiteral, AtSlash, AtLine
<1>3. s < End /\ BlockOpens(s) /\ Opens(s) /\ content[s] = "/"
  BY <1>0, <1>2, OpensAt DEF AtBlock, Opens
<1>4. CASE Here = "/"
  <2>1. Over(s) = it + 1
    BY <1>0, <1>1, <1>2, <1>3, <1>4, BlockOver
  <2>2. ~firstSlashDetected' /\ ~inComment' /\ partBegin' = it + 1 /\ inComment
    BY <1>2, <1>4 DEF EndBlock, AtBlock
  <2> QED
    BY <1>1, <1>3, <2>1, <2>2, PassedOver
<1>5. CASE Here # "/"
  <2>1. Here # "*"
    <3> DEFINE c == <<s, Over(s)>>
    <3>1. Over(s) \in Nat /\ Over(s) >= it + 1
      BY <1>0, <1>1, <1>2, <1>3, OverBehind, BlockOver
    <3>2. c \in Comments
      BY <1>0, <1>3, ScanToken DEF Comments
    <3>3. ~\E k \in c[1] + 2 .. c[2] - 2 : content[k] = "*" /\ content[k + 1] = "*"
      BY <1>3, <3>2 DEF Plain
    <3>4. it - 1 \in s + 2 .. Over(s) - 2 /\ content[it - 1] = "*" /\ it - 1 + 1 = it
      BY <1>0, <1>1, <1>2, <3>1 DEF AtBlock
    <3> QED
      BY <3>3, <3>4 DEF Here
  <2>2. UNCHANGED <<inComment, blockComment, partBegin>>
    BY <1>5 DEF EndBlock
  <2>3. AtBlock(s)'
    BY <1>0, <1>1, <1>2, <1>5, <2>1, <2>2, AtBlockNext
  <2> QED
    BY <1>1, <2>2, <2>3, PassedHere DEF Where
<1> QED
  BY <1>4, <1>5

-----------------------------------------------------------------------------
(* The end of the text.                                                    *)

AllBegins == {1} \cup {c[2] : c \in Comments}

LEMMA GapLooked ==
  ASSUME content \in Seq(Classes), Width \in Nat, \A b \in AllBegins : Looked(b)
  PROVE  \A gap \in Gaps : Covered(gap)
<1> DEFINE ends == {c[1] : c \in Comments} \cup {End}
<1>1. SUFFICES ASSUME NEW b \in AllBegins
               PROVE  Covered(<<b, FirstOf({e \in ends : e >= b})>>)
  BY Zenon DEF Gaps, AllBegins
<1>2. End \in Nat \ {0} /\ b \in Nat
  BY Places, TokenTypes DEF AllBegins, Comments
<1>3. PICK e \in ends :
        /\ b <= e
        /\ CodeEnd(e) - b >= Width =>
             \E r \in Ranges : (b .. CodeEnd(e) - 1) \subseteq Inside(r)
  BY DEF Looked
<1>4. PICK S : S = {d \in ends : d >= b}
  OBVIOUS
<1>5. e \in S /\ S \in SUBSET (1 .. End)
  <2>1. \A d \in ends : d \in 1 .. End
    BY <1>2, TokenTypes DEF Comments
  <2> HIDE DEF ends
  <2> QED
    BY <1>2, <1>3, <1>4, <2>1
<1>6. FirstOf(S) \in 1 .. End /\ FirstOf(S) <= e
  BY <1>5, FirstIs
<1>7. Covered(<<b, FirstOf(S)>>)
  <2> DEFINE f == FirstOf(S)
  <2>1. SUFFICES ASSUME CodeEnd(f) - b >= Width
                 PROVE  \E r \in Ranges : (b .. CodeEnd(f) - 1) \subseteq Inside(r)
    BY DEF Covered
  <2>2. e \in Nat /\ f \in Nat /\ f <= e
    BY <1>2, <1>5, <1>6
  <2> HIDE DEF f
  <2>3. CodeEnd(f) \in Int /\ CodeEnd(e) \in Int /\ CodeEnd(f) <= CodeEnd(e)
    BY <2>2 DEF CodeEnd
  <2>4. PICK r \in Ranges : (b .. CodeEnd(e) - 1) \subseteq Inside(r)
    BY <1>2, <1>3, <2>1, <2>3
  <2>5. (b .. CodeEnd(f) - 1) \subseteq (b .. CodeEnd(e) - 1)
    BY <1>2, <2>3
  <2> QED
    BY <2>4, <2>5
<1> QED
  BY <1>4, <1>7

(* The same after a step that keeps the text.                              *)
LEMMA SameGaps ==
  ASSUME content' = content
  PROVE  Gaps' = Gaps /\ AllBegins' = AllBegins
  BY SameText DEF Gaps, AllBegins, FirstOf, End

GapsCovered ==
  content \in Seq(Classes) /\ Width \in Nat /\ (\A b \in AllBegins : Looked(b))
    => \A gap \in Gaps : Covered(gap)

LEMMA GapsAreCovered == GapsCovered
  BY GapLooked DEF GapsCovered

LEMMA GapsNext ==
  ASSUME content \in Seq(Classes), Width \in Nat, content' = content,
         \A b \in AllBegins : Looked(b)'
  PROVE  CodeSearched'
<1>1. GapsCovered'
  BY GapsAreCovered, PTL
<1> QED
  BY <1>1, SameGaps DEF GapsCovered, CodeSearched, AllCodeSearched

(* A text that is too short has no gap to search.                          *)
LEMMA ShortLooked ==
  ASSUME content \in Seq(Classes), Len(content) < Width, UNCHANGED content, NEW b \in AllBegins
  PROVE  Looked(b)'
<1>1. /\ End \in Nat \ {0} /\ End = Len(content) + 1 /\ Width \in Nat \ {0}
      /\ b \in 1 .. End
  BY Places, TokenTypes, FilterAssumption DEF AllBegins, Comments
<1>2. b <= End /\ ~(CodeEnd(End) - b >= Width)
  BY <1>1 DEF CodeEnd
<1>3. End' = End /\ CodeEnd(End)' = CodeEnd(End)
  BY SameText
<1> QED
  BY <1>2, <1>3 DEF Looked

(* What is looked at stays looked at, and a new part is.                   *)
LEMMA LookedMore ==
  ASSUME UNCHANGED content, \A r \in Ranges : r \in Ranges', NEW b, Looked(b)
  PROVE  Looked(b)'
  BY SameText DEF Looked, Inside

LEMMA PassFinishCode ==
  ASSUME RangeInv, NEW s, Scanned(s), Where(s), PartInv(s), Finish, ~inComment
  PROVE  NothingCommented' /\ CodeSearched'
<1>0. /\ content \in Seq(Classes) /\ End \in Nat \ {0} /\ End = Len(content) + 1
      /\ s \in 1 .. End /\ s \in Nat \ {0} /\ it \in 1 .. End /\ it \in Nat \ {0}
      /\ partBegin \in Nat /\ Width \in Nat \ {0}
  BY PassedTypes, FilterAssumption DEF RangeInv
<1>1. it = End /\ result' = WithRange(End) /\ content' = content
  BY <1>0 DEF Finish
<1>2. TokensFrom[s] = {}
  <2>1. CASE AtCode(s)
    BY <1>0, <1>1, <2>1, TokensStep DEF AtCode
  <2>2. CASE AtLiteral(s)
    <3>1. s \in 1 .. End - 1 /\ Opens(s)
      BY <1>0, <2>2, OpensAt DEF AtLiteral, Opens
    <3>2. Over(s) \in s + 1 .. End
      BY <1>0, <3>1, OverBehind
    <3> QED
      BY <1>0, <1>1, <2>2, <3>2 DEF AtLiteral
  <2>3. CASE AtSlash(s)
    <3>1. s \in 1 .. End - 1 /\ s + 1 = End /\ ~Opens(s)
      BY <1>0, <1>1, <2>3, OpensAt DEF AtSlash, Opens
    <3> QED
      BY <1>0, <3>1, TokensStep
  <2> QED
    BY <2>1, <2>2, <2>3 DEF Where, AtLine, AtBlock
<1>3. \A c \in Comments : c[1] < s /\ c[2] \in Nat
  BY <1>0, <1>2, Behindhand, TokenTypes DEF Comments
<1>4. Comments' = Comments /\ End' = End
  BY <1>1, SameText
<1>5. /\ \A r \in Ranges' : r \in Ranges \/ r = <<partBegin, End>>
      /\ \A r \in Ranges : r \in Ranges'
      /\ End - partBegin >= Width => <<partBegin, End>> \in Ranges'
  BY <1>0, <1>1, AppendRange
<1>6. ASSUME NEW c \in Comments, NEW r \in Ranges'
      PROVE  Inside(r) \cap Inside(c) \subseteq {c[1]}
  <2>1. c[2] <= partBegin /\ \A q \in Ranges : Inside(q) \cap Inside(c) \subseteq {c[1]}
    BY <1>3 DEF PartInv
  <2> QED
    BY <1>0, <1>3, <1>5, <2>1 DEF Inside
<1>7. ASSUME NEW b \in AllBegins PROVE Looked(b)'
  <2>1. b \in Begins(s)
    BY <1>3 DEF AllBegins, Begins
  <2>2. CASE Looked(b)
    BY <1>1, <1>5, <2>2, LookedMore
  <2>3. CASE b = partBegin
    <3>1. ASSUME CodeEnd(End) - b >= Width
          PROVE  \E r \in Ranges' : (b .. CodeEnd(End) - 1) \subseteq Inside(r)
      <4>0. CodeEnd(End) \in Int /\ CodeEnd(End) <= End
        BY <1>0 DEF CodeEnd
      <4>1. (b .. CodeEnd(End) - 1) \subseteq Inside(<<partBegin, End>>)
        BY <1>0, <2>3, <4>0 DEF Inside
      <4> QED
        BY <1>0, <1>5, <2>3, <3>1, <4>0, <4>1
    <3>2. b <= End
      BY <1>0, <2>3 DEF PartInv
    <3>3. \E e \in {c[1] : c \in Comments} \cup {End} :
            /\ b <= e
            /\ CodeEnd(e) - b >= Width =>
                 \E r \in Ranges' : (b .. CodeEnd(e) - 1) \subseteq Inside(r)
      BY <3>1, <3>2
    <3>4. \A e : CodeEnd(e)' = CodeEnd(e)
      BY <1>1, SameText
    <3> QED
      BY <1>4, <3>3, <3>4 DEF Looked, Inside
  <2> QED
    BY <2>1, <2>2, <2>3 DEF PartInv
<1>8. NothingCommented'
  BY <1>4, <1>6 DEF NothingCommented, Inside
<1>9. CodeSearched'
  BY <1>0, <1>1, <1>4, <1>7, GapsNext
<1> QED
  BY <1>8, <1>9

LEMMA PassFinishComment ==
  ASSUME RangeInv, NEW s, Scanned(s), Where(s), PartInv(s), Finish, inComment
  PROVE  NothingCommented' /\ CodeSearched'
<1>0. /\ content \in Seq(Classes) /\ End \in Nat \ {0} /\ End = Len(content) + 1
      /\ s \in 1 .. End /\ s \in Nat \ {0} /\ it \in 1 .. End /\ it \in Nat \ {0}
      /\ partBegin \in Nat /\ Width \in Nat \ {0}
  BY PassedTypes, FilterAssumption DEF RangeInv
<1>1. /\ it = End /\ content' = content /\ inComment' = inComment
      /\ result' = IF result = <<>> THEN WithRange(End) ELSE result
  BY <1>0 DEF Finish, flags
<1>2. s < End /\ Opens(s) /\ Over(s) = End
  <2>1. CASE AtLine(s)
    <3>1. s \in 1 .. End - 1 /\ Opens(s)
      BY <1>0, <2>1, OpensAt DEF AtLine, Opens
    <3> QED
      BY <1>0, <1>1, <2>1, <3>1, LineOver
  <2>2. CASE AtBlock(s)
    <3>1. s \in 1 .. End - 1 /\ Opens(s)
      BY <1>0, <2>2, OpensAt DEF AtBlock, Opens
    <3> QED
      BY <1>0, <1>1, <2>2, <3>1, BlockOver
  <2> QED
    BY <2>1, <2>2 DEF Where, AtCode, AtLiteral, AtSlash
<1>3. \A c \in Comments : (c[1] < s \/ c = <<s, End>>) /\ c[2] \in Nat
  <2>1. \A t \in Tokens : t[1] < End => t[1] < s \/ t = <<s, End>>
    BY <1>0, <1>2, ScanToken
  <2>2. \A t \in Tokens : t[1] \in 1 .. End - 1 /\ t[2] \in t[1] + 1 .. End
    BY <1>0, TokenTypes
  <2>3. \A t \in Tokens : t[1] < End /\ t[2] \in Nat
    BY <1>0, <2>2
  <2> QED
    BY <2>1, <2>3 DEF Comments
<1>4. Comments' = Comments /\ End' = End
  BY <1>1, SameText
<1>5. \A r \in Ranges : r \in Ranges'
  <2>1. CASE result = <<>>
    <3>1. result' = WithRange(End) /\ End \in Int
      BY <1>0, <1>1, <2>1
    <3> QED
      BY <3>1, AppendRange
  <2>2. CASE result # <<>>
    BY <1>1, <2>2 DEF Ranges
  <2> QED
    BY <2>1, <2>2
<1>6. ASSUME NEW c \in Comments, NEW r \in Ranges'
      PROVE  \/ Inside(r) \cap Inside(c) \subseteq {c[1]}
             \/ c[2] = End /\ Len(result') = 1
  <2>1. CASE result # <<>>
    <3>1. result' = result /\ r \in Ranges
      BY <1>1, <2>1 DEF Ranges
    <3>2. r \in Nat \X Nat /\ r[2] <= s + 1
      <4>1. PICK m \in DOMAIN result : r = result[m]
        BY <3>1 DEF Ranges
      <4>2. m \in 1 .. Len(result) /\ result \in Seq(Nat \X Nat)
        BY <4>1, LenProperties DEF RangeInv
      <4>3. result[m] \in Nat \X Nat
        BY <4>2, ElementOfSeq
      <4> QED
        BY <1>0, <3>1, <4>1, <4>3 DEF PartInv
    <3>3. CASE c[1] < s
      BY <3>1, <3>3 DEF PartInv
    <3>4. CASE c = <<s, End>>
      BY <1>0, <3>2, <3>4 DEF Inside
    <3> QED
      BY <1>3, <3>3, <3>4
  <2>2. CASE result = <<>>
    <3>1. Ranges = {} /\ Len(result) = 0 /\ result \in Seq(Nat \X Nat)
      BY <2>2, EmptySeq DEF Ranges, RangeInv
    <3>2. r = <<partBegin, End>> /\ End - partBegin >= Width
      <4>1. result' = WithRange(End) /\ End \in Int
        BY <1>0, <1>1, <2>2
      <4>2. r \in Ranges \/ (r = <<partBegin, End>> /\ End - partBegin >= Width)
        BY <4>1, AppendRange
      <4> QED
        BY <3>1, <4>2
    <3>3. Len(result') = 1
      <4>1. <<partBegin, End>> \in Nat \X Nat
        BY <1>0
      <4>2. result' = Append(result, <<partBegin, End>>)
        BY <1>1, <2>2, <3>2 DEF WithRange
      <4> QED
        BY <3>1, <4>1, <4>2, AppendProperties
    <3>4. CASE c[1] < s
      <4>1. c[2] <= partBegin
        BY <3>4 DEF PartInv
      <4> QED
        BY <1>0, <1>3, <3>2, <4>1 DEF Inside
    <3>5. CASE c = <<s, End>>
      BY <3>3, <3>5
    <3> QED
      BY <1>3, <3>4, <3>5
  <2> QED
    BY <2>1, <2>2
<1>7. ASSUME NEW b \in AllBegins PROVE Looked(b)'
  <2>1. b \in Begins(s) \/ b = End
    BY <1>3 DEF AllBegins, Begins
  <2>2. CASE b \in Begins(s)
    <3>1. Looked(b)
      BY <2>2 DEF PartInv
    <3> QED
      BY <1>1, <1>5, <3>1, LookedMore
  <2>3. CASE b = End
    <3>1. ~(CodeEnd(End) - End >= Width)
      BY <1>0 DEF CodeEnd
    <3>2. CodeEnd(End)' = CodeEnd(End)
      BY <1>1, SameText
    <3> QED
      BY <1>0, <1>4, <2>3, <3>1, <3>2 DEF Looked
  <2> QED
    BY <2>1, <2>2, <2>3
<1>8. NothingCommented'
  BY <1>1, <1>4, <1>6 DEF NothingCommented, Inside
<1>9. CodeSearched'
  BY <1>0, <1>1, <1>4, <1>7, GapsNext
<1> QED
  BY <1>8, <1>9

LEMMA PassInit == RangeInv /\ Init => PassInv
<1> SUFFICES ASSUME RangeInv, Init PROVE PassInv
  OBVIOUS
<1>1. content \in Seq(Classes) /\ End \in Nat \ {0}
  BY Places DEF RangeInv
<1>2. Scanned(1) /\ 1 \in 1 .. End
  BY <1>1, ScanStart
<1>3. AtCode(1) /\ ~inComment /\ partBegin = 1 /\ Ranges = {} /\ ~done /\ result = <<>>
  BY DEF AtCode, Init, Ranges
<1>4. \A c \in Comments : ~(c[1] < 1)
  BY <1>1, TokenTypes DEF Comments
<1>5. PartInv(1)
  BY <1>3, <1>4 DEF PartInv, Begins
<1> QED
  BY <1>2, <1>3, <1>5 DEF PassInv, Passed, Where

LEMMA PassNext ==
  ASSUME RangeInv, PassInv, [Next]_vars
  PROVE  PassInv'
<1> USE DEF flags
<1>1. CASE UNCHANGED vars
  <2>1. UNCHANGED <<content, it, firstSlashDetected, inComment, blockComment, endStarDetected,
                    partBegin, result, done>>
    BY <1>1 DEF vars
  <2>2. /\ Plain' = Plain /\ Comments' = Comments /\ End' = End /\ Ranges' = Ranges
        /\ Passed => Passed'
    <3>1. ASSUME NEW s, Scanned(s), Where(s), PartInv(s), s \in 1 .. End PROVE Passed'
      <4>1. Where(s)'
        BY <2>1, <3>1, SamePlaces DEF Where, AtCode, AtLiteral, AtSlash, AtLine, AtBlock
      <4> QED
        BY <2>1, <3>1, <4>1, PassedHere
    <3> QED
      BY <2>1, <3>1, SameText, SamePlain DEF Ranges, Passed
  <2>3. NothingCommented' = NothingCommented
    BY <2>1, <2>2 DEF NothingCommented, Inside
  <2>4. CodeSearched' = CodeSearched
    BY <2>1, <2>2, SameGaps, SameText DEF CodeSearched, AllCodeSearched, Covered, Inside
  <2> QED
    BY <2>1, <2>2, <2>3, <2>4 DEF PassInv
<1>2. CASE TooShort
  <2>1. done' /\ UNCHANGED <<content, result>> /\ result = <<>>
    BY <1>2 DEF TooShort, PassInv
  <2>2. Ranges' = {}
    BY <2>1 DEF Ranges
  <2>3. NothingCommented'
    BY <2>2 DEF NothingCommented
  <2>4. CodeSearched'
    <3>1. content \in Seq(Classes) /\ Len(content) < Width /\ Width \in Nat
      BY <1>2, FilterAssumption DEF TooShort, RangeInv
    <3>2. \A b \in AllBegins : Looked(b)'
      BY <2>1, <3>1, ShortLooked
    <3> QED
      BY <2>1, <3>1, <3>2, GapsNext
  <2> QED
    BY <2>1, <2>3, <2>4 DEF PassInv
<1>3. CASE Next /\ ~TooShort
  <2>1. ~done /\ content' = content /\ ~(Len(content') < Width)
    BY <1>3, FilterAssumption, LenProperties
       DEF Next, EndBlock, InBlock, InLine, AfterSlash, InCode, Finish, Step, RangeInv
  <2>2. SUFFICES ASSUME Plain
                 PROVE  IF done' THEN NothingCommented' /\ CodeSearched' ELSE Passed'
    BY <2>1, SamePlain DEF PassInv
  <2>3. PICK s \in 1 .. End : Scanned(s) /\ Where(s) /\ PartInv(s)
    BY <2>1, <2>2 DEF PassInv, Passed
  <2>4. CASE Finish
    BY <2>3, <2>4, PassFinishCode, PassFinishComment DEF Finish
  <2>5. CASE EndBlock \/ InBlock \/ InLine \/ AfterSlash \/ InCode
    <3>1. ~done'
      BY <2>1, <2>5 DEF EndBlock, InBlock, InLine, AfterSlash, InCode, Step
    <3> QED
      BY <2>2, <2>3, <2>5, <3>1,
         PassEndBlock, PassInBlock, PassInLine, PassAfterSlash, PassInCode
  <2> QED
    BY <1>3, <2>4, <2>5 DEF Next
<1> QED
  BY <1>1, <1>2, <1>3

(* In a text of any length that is Plain (no two stars in a row in a block *)
(* comment before those that end it, no backslash in a line comment, no    *)
(* slash in a literal) nothing of a comment is searched for calls but its  *)
(* first slash, except when the file ends in a comment and has no range    *)
(* but the one that is then made of all of it.                             *)
THEOREM CommentsAreSkipped == Spec => []NothingCommented
<1>1. RangeInv /\ PassInv => NothingCommented
  BY DEF PassInv, NothingCommented
<1>2. RangeInv /\ PassInv /\ [Next]_vars => RangeInv' /\ PassInv'
  BY RangeNext, PassNext
<1> QED
  BY <1>1, <1>2, RangeInit, PassInit, PTL DEF Spec

(* In such a text no code that is wide enough to hold a call is left out.  *)
(* The condition is needed: AllCodeSearched, without it, does not hold.    *)
THEOREM CodeIsSearched == Spec => []CodeSearched
<1>1. RangeInv /\ PassInv => CodeSearched
  BY DEF PassInv, CodeSearched, AllCodeSearched
<1>2. RangeInv /\ PassInv /\ [Next]_vars => RangeInv' /\ PassInv'
  BY RangeNext, PassNext
<1> QED
  BY <1>1, <1>2, RangeInit, PassInit, PTL DEF Spec

=============================================================================
