-------------------------- MODULE LogSearch_proofs --------------------------
(***************************************************************************)
(* Proofs about the search for calls, for texts of any length: what it     *)
(* finds is a call, and every call is found and shown as it was written.   *)
(***************************************************************************)
EXTENDS LogSearch, CommentFilter_proofs

(* The search for calls does not interfere with the filter it starts with, *)
(* so that the ranges it goes through are these.                           *)
THEOREM SearchFilters ==
  SearchSpec => Spec /\ []RangesDisjoint /\ []NothingCommented /\ []CodeSearched
<1>1. SearchInit => Init
  BY DEF SearchInit
<1>2. [SearchNext]_allVars => [Next]_vars
  BY DEF SearchNext, FirstPart, FindNext, NextPart, allVars, Next
<1>3. SearchSpec => Spec
  BY <1>1, <1>2, PTL DEF SearchSpec, Spec
<1> QED
  BY <1>3, RangesAreDisjoint, CommentsAreSkipped, CodeIsSearched, PTL

-----------------------------------------------------------------------------
(* The search for calls.  Its pattern against the reference: what is at a  *)
(* place, where the recursions of both end.                                *)

(* What comes behind some characters.                                      *)
LEMMA BehindIs ==
  ASSUME content \in Seq(Classes), NEW stop \in 1 .. End, NEW k \in 1 .. stop, NEW chars
  PROVE  /\ Behind(k, chars, stop) \in k .. stop
         /\ \A j \in k .. Behind(k, chars, stop) - 1 : content[j] \in chars
         /\ Behind(k, chars, stop) < stop => content[Behind(k, chars, stop)] \notin chars
<1> DEFINE rest == {j \in k .. stop - 1 : content[j] \notin chars}
<1>1. stop \in Nat /\ k \in Nat
  BY Places
<1>2. CASE rest = {}
  BY <1>1, <1>2 DEF Behind
<1>3. CASE rest # {}
  <2> DEFINE b == CHOOSE j \in rest : \A i \in rest : j <= i
  <2>1. Behind(k, chars, stop) = b
    BY <1>3 DEF Behind
  <2>2. rest \in SUBSET Nat
    BY <1>1
  <2>3. b \in rest /\ \A i \in rest : b <= i
    <3> HIDE DEF rest
    <3> QED
      BY <1>3, <2>2, LeastChosen
  <2> HIDE DEF b
  <2>4. b \in k .. stop - 1 /\ content[b] \notin chars
    BY <2>3
  <2>5. ASSUME NEW j \in k .. b - 1 PROVE content[j] \in chars
    <3>1. j \in k .. stop - 1 /\ ~(b <= j)
      BY <1>1, <2>4, <2>5
    <3> QED
      BY <2>3, <3>1
  <2> QED
    BY <1>1, <2>1, <2>4, <2>5
<1> QED
  BY <1>2, <1>3

LEMMA BreakIs ==
  ASSUME content \in Seq(Classes), NEW stop \in 1 .. End, NEW k \in 1 .. stop - 1,
         NEW b, b = LastBreak(SubSeq(content, 1, stop - 1), k)
  PROVE  /\ b \in k .. stop - 1
         /\ b > k => content[b] = "nl" /\ \A i \in k + 1 .. b : content[i] \in Blanks
<1> DEFINE text == SubSeq(content, 1, stop - 1)
           breaks == {j \in k + 1 .. Len(text) :
                        text[j] = "nl" /\ \A i \in k + 1 .. j : text[i] \in Blanks}
<1>1. stop \in Nat /\ k \in Nat /\ End = Len(content) + 1 /\ Len(content) \in Nat
  BY Places
<1>2. stop - 1 \in Nat /\ stop - 1 <= Len(content)
  BY <1>1
<1>3. Len(text) = stop - 1 /\ \A j \in 1 .. stop - 1 : text[j] = content[j]
  BY <1>1, <1>2, SubSeqProperties
<1> HIDE DEF text
<1>4. breaks \in SUBSET (1 .. stop - 1) /\ stop - 1 \in Nat
  BY <1>1, <1>3
<1>5. b = IF breaks = {} THEN k ELSE CHOOSE j \in breaks : \A i \in breaks : i <= j
  BY DEF LastBreak, text
<1>6. CASE breaks = {}
  BY <1>1, <1>5, <1>6
<1>7. CASE breaks # {}
  <2>1. b \in breaks
    <3> HIDE DEF breaks
    <3> QED
      BY <1>4, <1>5, <1>7, Greatest
  <2>2. b \in k + 1 .. stop - 1 /\ text[b] = "nl" /\ \A i \in k + 1 .. b : text[i] \in Blanks
    BY <1>3, <2>1
  <2> QED
    BY <1>1, <1>3, <2>2
<1> QED
  BY <1>6, <1>7

-----------------------------------------------------------------------------
(* The recursions of the search and of its reference end.                  *)

Skip(f, k) ==
  IF k >= End THEN End
  ELSE IF content[k] \in Blanks THEN f[k + 1]
  ELSE IF At(k, <<"bs", "nl">>) THEN f[k + 2] ELSE k

LEMMA SkippedScan ==
  ASSUME content \in Seq(Classes)
  PROVE  Skipped = [k \in 1 .. End + 1 |-> Skip(Skipped, k)]
<1>0. End \in Nat \ {0} /\ End + 1 \in Nat
  BY Places
<1> DEFINE next == [k \in 1 .. End + 1 |->
                      IF k >= End THEN 0 ELSE IF content[k] \in Blanks THEN k + 1
                      ELSE IF At(k, <<"bs", "nl">>) THEN k + 2 ELSE 0]
           base == [k \in 1 .. End + 1 |-> IF k >= End THEN End ELSE k]
           own  == {}
<1>1. \E f : Follows(f, next, base, own, {}, End + 1)
  <2> HIDE DEF next, base, own
  <2> QED
    BY <1>0, Descent
<1>2. ASSUME NEW f, NEW k \in 1 .. End + 1
      PROVE  Along(next, base, own, {}, End + 1, f, k) = Skip(f, k)
  <2>1. CASE k >= End
    BY <1>0, <2>1 DEF Along, Skip
  <2>2. CASE k < End /\ content[k] \in Blanks
    BY <1>0, <2>2 DEF Along, Skip
  <2>3. CASE k < End /\ content[k] \notin Blanks /\ At(k, <<"bs", "nl">>)
    <3>1. k + 2 \in k + 1 .. End + 1 /\ next[k] = k + 2
      BY <1>0, <2>3
    <3> QED
      BY <1>0, <2>3, <3>1 DEF Along, Skip
  <2>4. CASE k < End /\ content[k] \notin Blanks /\ ~At(k, <<"bs", "nl">>)
    BY <1>0, <2>4 DEF Along, Skip
  <2> HIDE DEF next, base, own
  <2> QED
    BY <1>0, <2>1, <2>2, <2>3, <2>4
<1> HIDE DEF next, base, own
<1>3. \E f : f = [k \in 1 .. End + 1 |-> Skip(f, k)]
  <2>1. PICK f : f = [k \in 1 .. End + 1 |-> Along(next, base, own, {}, End + 1, f, k)]
    BY <1>1 DEF Follows
  <2> QED
    BY <1>2, <2>1
<1>4. Skipped = CHOOSE f : f = [k \in 1 .. End + 1 |-> Skip(f, k)]
  BY DEF Skipped, Skip
<1> QED
  BY <1>3, <1>4

LEMMA SkippedTo ==
  ASSUME content \in Seq(Classes), NEW k \in 1 .. End
  PROVE  Skipped[k] \in k .. End
<1>0. End \in Nat \ {0}
  BY Places
<1> DEFINE S == {n \in Nat : \A j \in 1 .. End + 1 : End + 1 - j <= n =>
                   Skipped[j] \in 1 .. End /\ (j <= End => Skipped[j] >= j)}
<1>1. \A j \in 1 .. End + 1 : Skipped[j] = Skip(Skipped, j)
  BY SkippedScan
<1>2. ASSUME NEW j \in 1 .. End + 1, j >= End PROVE Skipped[j] = End
  BY <1>1, <1>2 DEF Skip
<1>3. 0 \in S
  BY <1>0, <1>2
<1>4. ASSUME NEW n \in S PROVE n + 1 \in S
  <2> SUFFICES ASSUME NEW j \in 1 .. End + 1, End + 1 - j <= n + 1
               PROVE  Skipped[j] \in 1 .. End /\ (j <= End => Skipped[j] >= j)
    OBVIOUS
  <2>1. CASE j >= End
    BY <1>0, <1>2, <2>1
  <2>2. CASE j < End /\ content[j] \in Blanks
    <3>1. Skipped[j] = Skipped[j + 1]
      BY <1>0, <1>1, <2>2 DEF Skip
    <3>2. j + 1 \in 1 .. End + 1 /\ End + 1 - (j + 1) <= n /\ j + 1 <= End
      BY <1>0, <2>2
    <3> QED
      BY <1>0, <3>1, <3>2
  <2>3. CASE j < End /\ content[j] \notin Blanks /\ At(j, <<"bs", "nl">>)
    <3>1. Skipped[j] = Skipped[j + 2]
      BY <1>0, <1>1, <2>3 DEF Skip
    <3>2. j + 2 \in 1 .. End + 1 /\ End + 1 - (j + 2) <= n
      BY <1>0, <2>3
    <3>3. Skipped[j + 2] \in 1 .. End /\ (j + 2 <= End => Skipped[j + 2] >= j + 2)
      BY <3>2
    <3>4. j + 2 > End => j + 2 = End + 1 /\ Skipped[j + 2] = End
      BY <1>0, <1>2, <2>3, <3>2
    <3> QED
      BY <1>0, <2>3, <3>1, <3>3, <3>4
  <2>4. CASE j < End /\ content[j] \notin Blanks /\ ~At(j, <<"bs", "nl">>)
    <3>1. Skipped[j] = j
      BY <1>0, <1>1, <2>4 DEF Skip
    <3> QED
      BY <1>0, <2>4, <3>1
  <2> QED
    BY <1>0, <2>1, <2>2, <2>3, <2>4
<1>5. S = Nat
  <2>1. S \in SUBSET Nat
    OBVIOUS
  <2> HIDE DEF S
  <2> QED
    BY <1>3, <1>4, <2>1, Induction
<1>6. End + 1 - k \in S /\ k <= End /\ k \in 1 .. End + 1 /\ End + 1 - k <= End + 1 - k
  <2> HIDE DEF S
  <2> QED
    BY <1>0, <1>5
<1> QED
  BY <1>0, <1>6

Chain(f, k) ==
  LET open == Skipped[k]
  IN  IF At(open, <<"q">>) THEN {<<open, Over(open)>>} \cup f[Over(open)] ELSE {}

LEMMA StringsScan ==
  ASSUME content \in Seq(Classes)
  PROVE  Strings = [k \in 1 .. End |-> Chain(Strings, k)]
<1>0. End \in Nat \ {0}
  BY Places
<1> DEFINE next == [k \in 1 .. End |-> IF At(Skipped[k], <<"q">>) THEN Over(Skipped[k]) ELSE 0]
           base == [k \in 1 .. End |-> IF At(Skipped[k], <<"q">>)
                                       THEN {<<Skipped[k], Over(Skipped[k])>>} ELSE {}]
           own  == 1 .. End
<1>1. \E f : Follows(f, next, base, own, {}, End)
  <2> HIDE DEF next, base, own
  <2> QED
    BY <1>0, Descent
<1>2. ASSUME NEW f, NEW k \in 1 .. End
      PROVE  Along(next, base, own, {}, End, f, k) = Chain(f, k)
  <2>1. CASE At(Skipped[k], <<"q">>)
    <3>1. Skipped[k] \in k .. End
      BY SkippedTo
    <3>2. Skipped[k] \in 1 .. End - 1 /\ Opens(Skipped[k])
      BY <1>0, <2>1, <3>1, OpensAt DEF Opens
    <3>3. Over(Skipped[k]) \in Skipped[k] + 1 .. End
      BY <3>2, OverBehind
    <3>4. next[k] \in k + 1 .. End
      BY <1>0, <2>1, <3>1, <3>3
    <3> QED
      BY <2>1, <3>4 DEF Along, Chain
  <2>2. CASE ~At(Skipped[k], <<"q">>)
    BY <1>0, <2>2 DEF Along, Chain
  <2> QED
    BY <2>1, <2>2
<1> HIDE DEF next, base, own
<1>3. \E f : f = [k \in 1 .. End |-> Chain(f, k)]
  <2>1. PICK f : f = [k \in 1 .. End |-> Along(next, base, own, {}, End, f, k)]
    BY <1>1 DEF Follows
  <2> QED
    BY <1>2, <2>1
<1>4. Strings = CHOOSE f : f = [k \in 1 .. End |-> Chain(f, k)]
  BY DEF Strings, Chain
<1> QED
  BY <1>3, <1>4

Close(f, stop, k) ==
  IF k >= stop \/ content[k] = "nl" THEN 0
  ELSE IF content[k] = "q"
       THEN LET next == Behind(k + 1, Blanks, stop)
            IN  IF next = stop THEN 0
                ELSE IF content[next] = "e" THEN k
                ELSE IF content[next] = "q" THEN f[next + 1] ELSE 0
  ELSE IF content[k] = "bs"
       THEN LET break == LastBreak(SubSeq(content, 1, stop - 1), k)
            IN  IF break > k THEN f[break + 1] ELSE f[k + 2]
  ELSE f[k + 1]

LEMMA ClosingScan ==
  ASSUME content \in Seq(Classes), NEW stop \in 1 .. End
  PROVE  ClosingQuote(stop) = [k \in 1 .. stop + 1 |-> Close(ClosingQuote(stop), stop, k)]
<1>0. stop \in Nat \ {0} /\ stop + 1 \in Nat
  BY Places
<1> DEFINE behind(k) == Behind(k + 1, Blanks, stop)
           break(k) == LastBreak(SubSeq(content, 1, stop - 1), k)
           next == [k \in 1 .. stop + 1 |->
                      IF k >= stop \/ content[k] = "nl" THEN 0
                      ELSE IF content[k] = "q"
                           THEN IF behind(k) # stop /\ content[behind(k)] = "q"
                                THEN behind(k) + 1 ELSE 0
                      ELSE IF content[k] = "bs"
                           THEN IF break(k) > k THEN break(k) + 1 ELSE k + 2
                      ELSE k + 1]
           base == [k \in 1 .. stop + 1 |->
                      IF k < stop /\ content[k] = "q" /\ behind(k) # stop
                                 /\ content[behind(k)] = "e" THEN k ELSE 0]
           own == {}
<1>1. \E f : Follows(f, next, base, own, {}, stop + 1)
  <2> HIDE DEF next, base, own
  <2> QED
    BY <1>0, Descent
<1>2. ASSUME NEW f, NEW k \in 1 .. stop + 1
      PROVE  Along(next, base, own, {}, stop + 1, f, k) = Close(f, stop, k)
  <2>1. CASE k >= stop \/ content[k] = "nl"
    BY <1>0, <2>1 DEF Along, Close
  <2>2. CASE k < stop /\ content[k] = "q"
    <3>1. behind(k) \in k + 1 .. stop
      BY <1>0, <2>2, BehindIs
    <3> HIDE DEF behind
    <3>2. next[k] = IF behind(k) # stop /\ content[behind(k)] = "q" THEN behind(k) + 1 ELSE 0
      BY <1>0, <2>2
    <3>3. base[k] = IF behind(k) # stop /\ content[behind(k)] = "e" THEN k ELSE 0
      BY <1>0, <2>2
    <3>4. Close(f, stop, k) = IF behind(k) = stop THEN 0
                              ELSE IF content[behind(k)] = "e" THEN k
                              ELSE IF content[behind(k)] = "q" THEN f[behind(k) + 1] ELSE 0
      BY <1>0, <2>2 DEF Close, behind
    <3> HIDE DEF next, base, own
    <3>5. behind(k) # stop => behind(k) + 1 \in k + 1 .. stop + 1
      BY <1>0, <3>1
    <3>6. 0 \notin k + 1 .. stop + 1
      BY <1>0
    <3>7. k \notin own
      BY DEF own
    <3> QED
      BY <3>2, <3>3, <3>4, <3>5, <3>6, <3>7 DEF Along
  <2>3. CASE k < stop /\ content[k] = "bs"
    <3>1. break(k) \in k .. stop - 1
      BY <1>0, <2>3, BreakIs
    <3> HIDE DEF break
    <3>2. next[k] = IF break(k) > k THEN break(k) + 1 ELSE k + 2
      BY <1>0, <2>3
    <3>3. Close(f, stop, k) = IF break(k) > k THEN f[break(k) + 1] ELSE f[k + 2]
      BY <1>0, <2>3 DEF Close, break
    <3> HIDE DEF next
    <3>4. next[k] \in k + 1 .. stop + 1
      BY <1>0, <2>3, <3>1, <3>2
    <3> QED
      BY <3>2, <3>3, <3>4 DEF Along
  <2>4. CASE k < stop /\ content[k] \notin {"nl", "q", "bs"}
    <3>1. next[k] = k + 1 /\ k + 1 \in k + 1 .. stop + 1
      BY <1>0, <2>4
    <3> QED
      BY <1>0, <2>4, <3>1 DEF Along, Close
  <2> HIDE DEF next, base, own
  <2> QED
    BY <1>0, <2>1, <2>2, <2>3, <2>4
<1> HIDE DEF next, base, own
<1>3. \E f : f = [k \in 1 .. stop + 1 |-> Close(f, stop, k)]
  <2>1. PICK f : f = [k \in 1 .. stop + 1 |-> Along(next, base, own, {}, stop + 1, f, k)]
    BY <1>1 DEF Follows
  <2> QED
    BY <1>2, <2>1
<1>4. ClosingQuote(stop) = CHOOSE f : f = [k \in 1 .. stop + 1 |-> Close(f, stop, k)]
  BY DEF ClosingQuote, Close
<1> QED
  BY <1>3, <1>4

-----------------------------------------------------------------------------
(* A string the search takes for one is one of literals of the reference.  *)

LEMMA CharactersAt ==
  ASSUME content \in Seq(Classes), NEW k \in Nat \ {0}
  PROVE  /\ \A c : At(k, <<c>>) <=> k < End /\ content[k] = c
         /\ \A c, d : At(k, <<c, d>>) <=> /\ k + 1 < End
                                        /\ content[k] = c /\ content[k + 1] = d
<1>1. End \in Nat /\ k + 1 - 1 = k /\ k + 2 - 1 = k + 1
  BY Places
<1>2. \A c : At(k, <<c>>) <=> k < End /\ content[k] = c
  BY <1>1 DEF At
<1>3. \A c, d : At(k, <<c, d>>) <=> k < End /\ content[k] = c /\ k + 1 < End /\ content[k + 1] = d
  BY <1>1 DEF At
<1> QED
  BY <1>1, <1>2, <1>3

LEMMA SkippedIs ==
  ASSUME content \in Seq(Classes), NEW k \in 1 .. End, NEW n \in k .. End - 1,
         \A j \in k .. n - 1 : content[j] \in Blanks \/ At(j, <<"bs", "nl">>),
         content[n] \notin Blanks \cup {"bs"}
  PROVE  Skipped[k] = n
<1>0. End \in Nat \ {0}
  BY Places
<1> DEFINE S == {m \in Nat : \A j \in k .. n : n - j <= m => Skipped[j] = n}
<1>1. \A j \in k .. n : Skipped[j] = Skip(Skipped, j) /\ j \in 1 .. End - 1
  <2>1. \A j \in k .. n : j \in 1 .. End + 1 /\ j \in 1 .. End - 1
    BY <1>0
  <2> QED
    BY <2>1, SkippedScan
<1>2. 0 \in S
  <2>1. ~At(n, <<"bs", "nl">>)
    BY <1>0, CharactersAt
  <2>2. Skipped[n] = n
    BY <1>0, <1>1, <2>1 DEF Skip
  <2> QED
    BY <1>0, <2>2
<1>3. ASSUME NEW m \in S PROVE m + 1 \in S
  <2> SUFFICES ASSUME NEW j \in k .. n, n - j <= m + 1 PROVE Skipped[j] = n
    OBVIOUS
  <2>1. CASE j = n
    BY <1>0, <1>2, <2>1
  <2>2. CASE j < n /\ content[j] \in Blanks
    <3>1. Skipped[j] = Skipped[j + 1]
      BY <1>0, <1>1, <2>2 DEF Skip
    <3>2. j + 1 \in k .. n /\ n - (j + 1) <= m
      BY <1>0, <2>2
    <3> QED
      BY <3>1, <3>2
  <2>3. CASE j < n /\ content[j] \notin Blanks
    <3>1. At(j, <<"bs", "nl">>)
      BY <1>0, <2>3
    <3>2. Skipped[j] = Skipped[j + 2]
      BY <1>0, <1>1, <2>3, <3>1 DEF Skip
    <3>3. content[j + 1] = "nl"
      BY <1>0, <3>1, CharactersAt
    <3>4. j + 1 # n
      BY <3>3 DEF Blanks
    <3>5. j + 2 \in k .. n /\ n - (j + 2) <= m
      BY <1>0, <2>3, <3>4
    <3> QED
      BY <3>2, <3>5
  <2> QED
    BY <1>0, <2>1, <2>2, <2>3
<1>4. S = Nat
  <2>1. S \in SUBSET Nat
    OBVIOUS
  <2> HIDE DEF S
  <2> QED
    BY <1>2, <1>3, <2>1, Induction
<1>5. n - k \in S /\ k \in k .. n /\ n - k <= n - k
  <2> HIDE DEF S
  <2> QED
    BY <1>0, <1>4
<1> QED
  BY <1>5

LEMMA EscapedBy ==
  ASSUME content \in Seq(Classes), NEW k \in 2 .. End
  PROVE  /\ content[k - 1] # "bs" => ~Escaped(k)
         /\ content[k - 1] = "bs" /\ k > 2 /\ content[k - 2] # "bs" => Escaped(k)
<1>0. End \in Nat \ {0}
  BY Places
<1>1. ASSUME Escaped(k) PROVE content[k - 1] = "bs"
  <2>1. PICK n \in 1 .. k - 1 : \A i \in k - n .. k - 1 : content[i] = "bs"
    BY <1>1 DEF Escaped
  <2>2. k - 1 \in k - n .. k - 1
    BY <1>0
  <2> QED
    BY <2>1, <2>2
<1>2. ASSUME content[k - 1] = "bs", k > 2, content[k - 2] # "bs" PROVE Escaped(k)
  <2>1. 1 \in 1 .. k - 1 /\ 1 % 2 = 1 /\ k - 1 - 1 = k - 2
    BY <1>0
  <2>2. \A i \in k - 1 .. k - 1 : content[i] = "bs"
    BY <1>0, <1>2
  <2> QED
    BY <1>2, <2>1, <2>2 DEF Escaped
<1> QED
  BY <1>1, <1>2

(* A literal ends with the first quote that no backslash escapes.          *)
LEMMA LiteralOver ==
  ASSUME content \in Seq(Classes), NEW t \in Literals
  PROVE  /\ t[1] \in 1 .. End - 1 /\ t[2] \in t[1] + 1 .. End /\ t = <<t[1], t[2]>>
         /\ content[t[1]] = "q" /\ t[2] = Over(t[1])
         /\ \A j \in t[1] + 1 .. t[2] - 2 : content[j] = "q" => Escaped(j)
<1>0. End \in Nat \ {0}
  BY Places
<1>1. /\ t \in Tokens /\ content[t[1]] # "/"
      /\ t = <<t[1], t[2]>> /\ t[1] \in 1 .. End - 1 /\ t[2] \in t[1] + 1 .. End
      /\ Opens(t[1]) /\ t[2] = Over(t[1])
  BY TokenTypes DEF Literals, Comments
<1>2. content[t[1]] = "q" /\ ~LineOpens(t[1]) /\ ~BlockOpens(t[1]) /\ At(t[1], <<"q">>)
  BY <1>0, <1>1, OpensAt DEF Opens
<1> DEFINE Q == {j + 1 : j \in {i \in t[1] + 1 .. End - 1 : content[i] = "q" /\ ~Escaped(i)}}
<1>3. Over(t[1]) = FirstOf(Q)
  BY <1>2 DEF Over
<1>4. Q \in SUBSET (1 .. End)
  BY <1>0, <1>1
<1>5. \A j \in Q : t[2] <= j
  <2> HIDE DEF Q
  <2> QED
    BY <1>1, <1>3, <1>4, FirstIs
<1>6. ASSUME NEW j \in t[1] + 1 .. t[2] - 2, content[j] = "q", ~Escaped(j) PROVE FALSE
  <2>1. j \in t[1] + 1 .. End - 1
    BY <1>0, <1>1, <1>6
  <2>2. j + 1 \in Q
    BY <1>6, <2>1
  <2>3. t[2] <= j + 1
    <3> HIDE DEF Q
    <3> QED
      BY <1>5, <2>2
  <2> QED
    BY <1>0, <1>1, <1>6, <2>3
<1> QED
  BY <1>1, <1>2, <1>6

(* Within such a literal every newline is behind a backslash, and no       *)
(* backslash is behind another one.                                        *)
LEMMA LiteralPlain ==
  ASSUME content \in Seq(Classes), PlainStrings, NEW t \in Literals
  PROVE  /\ t[2] - 1 \in t[1] + 1 .. End - 1 /\ content[t[2] - 1] = "q"
         /\ ~Escaped(t[2] - 1) /\ Closed(t)
         /\ \A j \in t[1] .. t[2] - 1 : content[j] = "nl" => content[j - 1] = "bs"
         /\ \A j \in t[1] .. t[2] - 1 : content[j] # "L" /\ ~At(j, <<"bs", "bs">>)
<1>0. End \in Nat \ {0} /\ t[1] \in 1 .. End - 1 /\ t[2] \in t[1] + 1 .. End
  BY Places, LiteralOver
<1>1. Closed(t) /\ \A j \in Inside(t) : content[j] # "L" /\ ~At(j, <<"bs", "bs">>)
  BY DEF PlainStrings
<1> QED
  BY <1>0, <1>1 DEF Closed, Inside

(* A backslash in such a literal is alone and not in front of its end, and *)
(* blanks behind it hold no newline but right behind it.                   *)
LEMMA BackslashIn ==
  ASSUME content \in Seq(Classes), PlainStrings, NEW t \in Literals,
         NEW k \in t[1] .. t[2] - 1, content[k] = "bs"
  PROVE  /\ k \in t[1] + 1 .. t[2] - 3 /\ content[k - 1] # "bs" /\ content[k + 1] # "bs"
         /\ \A b \in k + 2 .. End - 1 :
              ~(content[b] = "nl" /\ \A i \in k + 1 .. b : content[i] \in Blanks)
<1>0. /\ End \in Nat \ {0} /\ t[1] \in 1 .. End - 1 /\ t[2] - 1 \in t[1] + 1 .. End - 1
      /\ t[2] \in Nat /\ k \in Nat \ {0}
      /\ content[t[1]] = "q" /\ content[t[2] - 1] = "q" /\ ~Escaped(t[2] - 1)
      /\ \A j \in t[1] .. t[2] - 1 : content[j] = "nl" => content[j - 1] = "bs"
      /\ \A j \in t[1] .. t[2] - 1 : ~At(j, <<"bs", "bs">>)
  BY Places, LiteralOver, LiteralPlain
<1>1. k > t[1] /\ k < t[2] - 1 /\ k < End - 1
  <2>1. k # t[1] /\ k # t[2] - 1
    BY <1>0
  <2> QED
    BY <1>0, <2>1
<1>2. content[k - 1] # "bs" /\ content[k + 1] # "bs"
  <2>1. /\ k - 1 \in t[1] .. t[2] - 1 /\ k - 1 \in Nat \ {0} /\ k - 1 + 1 = k /\ k < End
        /\ k + 1 < End
    BY <1>0, <1>1
  <2>2. ~At(k - 1, <<"bs", "bs">>) /\ ~At(k, <<"bs", "bs">>)
    BY <1>0, <2>1
  <2>3. content[k - 1] # "bs"
    BY <2>1, <2>2, CharactersAt
  <2>4. content[k + 1] # "bs"
    BY <1>0, <2>1, <2>2, CharactersAt
  <2> QED
    BY <2>3, <2>4
<1>3. k + 1 # t[2] - 1
  <2> SUFFICES ASSUME k + 1 = t[2] - 1 PROVE FALSE
    OBVIOUS
  <2> DEFINE n == t[2] - 1
  <2>1. n \in 2 .. End /\ n > 2 /\ n - 1 = k /\ n - 2 = k - 1
    BY <1>0, <1>1
  <2>2. ~Escaped(n)
    BY <1>0
  <2> HIDE DEF n
  <2> QED
    BY <1>2, <2>1, <2>2, EscapedBy
<1>4. ASSUME NEW b \in k + 2 .. End - 1, content[b] = "nl",
             \A i \in k + 1 .. b : content[i] \in Blanks
      PROVE  FALSE
  <2>1. b < t[2] - 1
    <3>1. t[2] - 1 <= b => t[2] - 1 \in k + 1 .. b
      BY <1>0, <1>1
    <3>2. content[t[2] - 1] \notin Blanks
      BY <1>0 DEF Blanks
    <3> QED
      BY <1>0, <1>4, <3>1, <3>2
  <2>2. b \in t[1] .. t[2] - 1 /\ b - 1 \in k + 1 .. b
    BY <1>0, <1>1, <2>1
  <2>3. content[b - 1] = "bs" /\ content[b - 1] \in Blanks
    BY <1>0, <1>4, <2>2
  <2> QED
    BY <2>3 DEF Blanks
<1> QED
  BY <1>0, <1>1, <1>2, <1>3, <1>4

(* The search goes through such a literal as the reference does.           *)
LEMMA LiteralWalk ==
  ASSUME content \in Seq(Classes), PlainStrings, NEW t \in Literals, NEW stop \in 1 .. End,
         NEW k \in t[1] + 1 .. t[2] - 2, k < stop, content[k - 1] # "bs"
  PROVE  \E n \in {k + 1, k + 2} :
           /\ n \in t[1] + 1 .. t[2] - 1 /\ n <= stop + 1 /\ content[n - 1] # "bs"
           /\ ClosingQuote(stop)[n] = ClosingQuote(stop)[k]
<1> DEFINE close == ClosingQuote(stop)
<1>0. /\ End \in Nat \ {0} /\ stop \in Nat /\ t[1] \in 1 .. End - 1
      /\ t[2] - 1 \in t[1] + 1 .. End - 1 /\ t[2] \in Nat
      /\ \A j \in t[1] .. t[2] - 1 : content[j] = "nl" => content[j - 1] = "bs"
      /\ \A j \in t[1] + 1 .. t[2] - 2 : content[j] = "q" => Escaped(j)
  BY Places, LiteralOver, LiteralPlain
<1>1. /\ k \in 1 .. stop + 1 /\ k \in 2 .. End /\ k \in 1 .. stop - 1
      /\ k \in Nat \ {0} /\ k \in t[1] .. t[2] - 1
  BY <1>0
<1>2. content[k] # "q" /\ content[k] # "nl" /\ close[k] = Close(close, stop, k)
  <2>1. content[k] # "q"
    BY <1>0, <1>1, EscapedBy
  <2>2. close[k] = Close(close, stop, k)
    BY <1>1, ClosingScan
  <2> QED
    BY <1>0, <1>1, <2>1, <2>2
<1> HIDE DEF close
<1>3. CASE content[k] # "bs"
  <2>1. close[k + 1] = close[k] /\ k + 1 - 1 = k
    BY <1>0, <1>1, <1>2, <1>3 DEF Close
  <2>2. k + 1 \in t[1] + 1 .. t[2] - 1 /\ k + 1 <= stop + 1
    BY <1>0, <1>1
  <2> QED
    BY <1>3, <2>1, <2>2 DEF close
<1>4. CASE content[k] = "bs"
  <2> DEFINE b == LastBreak(SubSeq(content, 1, stop - 1), k)
  <2>1. /\ b \in k .. stop - 1
        /\ b > k => content[b] = "nl" /\ \A i \in k + 1 .. b : content[i] \in Blanks
    BY <1>1, BreakIs
  <2>2. close[k] = IF b > k THEN close[b + 1] ELSE close[k + 2]
    BY <1>0, <1>1, <1>2, <1>4 DEF Close
  <2> HIDE DEF b
  <2>3. /\ k \in t[1] + 1 .. t[2] - 3 /\ content[k + 1] # "bs"
        /\ \A i \in k + 2 .. End - 1 :
             ~(content[i] = "nl" /\ \A j \in k + 1 .. i : content[j] \in Blanks)
    BY <1>1, <1>4, BackslashIn
  <2>4. b = k \/ b = k + 1
    <3>1. b \notin k + 2 .. End - 1
      BY <1>0, <2>1, <2>3
    <3> QED
      BY <1>0, <1>1, <2>1, <3>1
  <2>5. close[k] = close[k + 2]
    <3>1. k + 1 + 1 = k + 2
      BY <1>1
    <3> QED
      BY <1>1, <2>2, <2>4, <3>1
  <2>6. k + 2 \in t[1] + 1 .. t[2] - 1 /\ k + 2 <= stop + 1 /\ k + 2 - 1 = k + 1
    BY <1>0, <1>1, <2>3
  <2> QED
    BY <2>3, <2>5, <2>6 DEF close
<1> QED
  BY <1>3, <1>4

(* The walk through such a literal comes to its end.                       *)
LEMMA ClosingLiteral ==
  ASSUME content \in Seq(Classes), PlainStrings, NEW t \in Literals, NEW stop \in 1 .. End,
         t[1] < stop, ClosingQuote(stop)[t[1] + 1] # 0
  PROVE  t[2] <= stop /\ ClosingQuote(stop)[t[2] - 1] # 0
<1> DEFINE close == ClosingQuote(stop)
           o == t[1]
           last == t[2] - 1
           S == {n \in Nat : \A k \in o + 1 .. last :
                   /\ last - k <= n /\ k <= stop + 1
                   /\ content[k - 1] # "bs" /\ close[k] # 0
                   => last < stop /\ close[last] # 0}
<1>0. /\ End \in Nat \ {0} /\ stop \in Nat /\ o \in 1 .. End - 1 /\ last \in o + 1 .. End - 1
      /\ content[o] = "q" /\ content[last] = "q" /\ ~Escaped(last) /\ t[2] = last + 1
      /\ o < stop
  BY Places, LiteralOver, LiteralPlain
<1>1. /\ \A j \in o .. last : content[j] = "nl" => content[j - 1] = "bs"
      /\ \A j \in o .. last : ~At(j, <<"bs", "bs">>)
      /\ \A j \in o + 1 .. last - 1 : content[j] = "q" => Escaped(j)
  <2>1. t[2] - 2 = last - 1
    BY <1>0
  <2> QED
    BY <2>1, LiteralOver, LiteralPlain
<1>2. \A k \in 1 .. stop + 1 : close[k] = Close(close, stop, k)
  BY ClosingScan
<1> HIDE DEF close, o, last
<1>3. ASSUME NEW k \in o + 1 .. last, close[k] # 0, k <= stop + 1
      PROVE  k < stop /\ k \in 1 .. stop /\ content[k] # "nl"
  <2>1. k \in 1 .. stop + 1 /\ k \in Nat
    BY <1>0, <1>3
  <2>2. ~(k >= stop \/ content[k] = "nl")
    BY <1>2, <1>3, <2>1 DEF Close
  <2> QED
    BY <1>0, <2>1, <2>2
<1>4. ASSUME NEW k \in o + 1 .. last - 1, k < stop, content[k - 1] # "bs", close[k] # 0
      PROVE  \E n \in {k + 1, k + 2} :
               n \in o + 1 .. last /\ n <= stop + 1 /\ content[n - 1] # "bs" /\ close[n] # 0
  <2>1. k \in t[1] + 1 .. t[2] - 2
    BY <1>0 DEF o, last
  <2>2. PICK n \in {k + 1, k + 2} :
          /\ n \in t[1] + 1 .. t[2] - 1 /\ n <= stop + 1 /\ content[n - 1] # "bs"
          /\ ClosingQuote(stop)[n] = ClosingQuote(stop)[k]
    BY <1>4, <2>1, LiteralWalk
  <2> QED
    BY <1>4, <2>2 DEF close, o, last
<1>5. 0 \in S
  <2> SUFFICES ASSUME NEW k \in o + 1 .. last, last - k <= 0, close[k] # 0, k <= stop + 1
               PROVE  last < stop /\ close[last] # 0
    BY <1>0
  <2>1. k = last
    BY <1>0
  <2> QED
    BY <1>0, <1>3, <2>1
<1>6. ASSUME NEW n \in S PROVE n + 1 \in S
  <2> SUFFICES ASSUME NEW k \in o + 1 .. last, last - k <= n + 1, k <= stop + 1,
                      content[k - 1] # "bs", close[k] # 0
               PROVE  last < stop /\ close[last] # 0
    OBVIOUS
  <2>1. CASE k = last
    BY <1>0, <1>3, <2>1
  <2>2. CASE k # last
    <3>1. k < stop /\ k \in o + 1 .. last - 1
      BY <1>0, <1>3, <2>2
    <3>2. PICK m \in {k + 1, k + 2} :
            m \in o + 1 .. last /\ m <= stop + 1 /\ content[m - 1] # "bs" /\ close[m] # 0
      BY <1>4, <3>1
    <3>3. last - m <= n
      BY <1>0, <3>1, <3>2
    <3> QED
      BY <3>2, <3>3
  <2> QED
    BY <2>1, <2>2
<1>7. S = Nat
  <2>1. S \in SUBSET Nat
    OBVIOUS
  <2> HIDE DEF S
  <2> QED
    BY <1>5, <1>6, <2>1, Induction
<1>8. PICK n \in S : n = last - (o + 1)
  <2> HIDE DEF S
  <2>1. last - (o + 1) \in Nat
    BY <1>0
  <2> QED
    BY <1>7, <2>1
<1>9. PICK k \in o + 1 .. last : k = o + 1
  BY <1>0
<1>10. last - k <= n /\ k <= stop + 1 /\ content[k - 1] # "bs" /\ close[k] # 0
  <2>1. k - 1 = o /\ k <= stop + 1 /\ last - k <= n
    BY <1>0, <1>8, <1>9
  <2> QED
    BY <1>0, <1>9, <2>1 DEF close, o
<1>11. last < stop /\ close[last] # 0
  BY <1>8, <1>10
<1> QED
  BY <1>0, <1>11 DEF close, last

(* Behind it comes the end of the call or another literal.                 *)
LEMMA ClosingNext ==
  ASSUME content \in Seq(Classes), NEW stop \in 1 .. End, NEW k \in 1 .. stop - 1,
         content[k] = "q", ClosingQuote(stop)[k] # 0,
         NEW next, next = Behind(k + 1, Blanks, stop)
  PROVE  /\ next \in k + 1 .. stop - 1
         /\ \A j \in k + 1 .. next - 1 : content[j] \in Blanks
         /\ \/ content[next] = "e"
            \/ content[next] = "q" /\ ClosingQuote(stop)[next + 1] # 0
<1>0. stop \in Nat /\ k \in Nat /\ k + 1 \in 1 .. stop /\ k \in 1 .. stop + 1
  BY Places
<1>1. next \in k + 1 .. stop /\ \A j \in k + 1 .. next - 1 : content[j] \in Blanks
  BY <1>0, BehindIs
<1> DEFINE close == ClosingQuote(stop)
<1>2. close[k] = Close(close, stop, k)
  BY <1>0, ClosingScan
<1> HIDE DEF close
<1>3. close[k] = IF next = stop THEN 0 ELSE IF content[next] = "e" THEN k
                 ELSE IF content[next] = "q" THEN close[next + 1] ELSE 0
  BY <1>0, <1>2 DEF Close
<1>4. close[k] # 0
  BY DEF close
<1>5. next # stop /\ (content[next] = "e" \/ (content[next] = "q" /\ close[next + 1] # 0))
  BY <1>0, <1>3, <1>4
<1> QED
  BY <1>0, <1>1, <1>5 DEF close

(* Where a token of the reference may begin: outside the tokens, or at one.*)
LEMMA ScannedAt ==
  ASSUME content \in Seq(Classes), NEW k \in 1 .. End,
         \A t \in Tokens : t[1] < k => t[2] <= k
  PROVE  Scanned(k)
<1>0. End \in Nat \ {0}
  BY Places
<1> DEFINE T == {k - s : s \in {s \in 1 .. k : Scanned(s)}}
<1>1. T \in SUBSET Nat
  BY <1>0
<1>2. k - 1 \in T
  BY <1>0, ScanStart
<1>3. PICK d \in T : \A e \in T : d <= e
  <2> HIDE DEF T
  <2> QED
    BY <1>1, <1>2, Least
<1>4. PICK s \in 1 .. k : Scanned(s) /\ d = k - s
  BY <1>3
<1>5. ASSUME NEW n \in s + 1 .. k, Scanned(n) PROVE FALSE
  <2>1. n \in 1 .. k /\ k - n < d
    BY <1>0, <1>4, <1>5
  <2>2. k - n \in T
    BY <1>5, <2>1
  <2>3. d <= k - n
    <3> HIDE DEF T
    <3> QED
      BY <1>3, <2>2
  <2> QED
    BY <1>0, <1>4, <2>1, <2>3
<1>6. s = k
  <2> SUFFICES ASSUME s < k PROVE FALSE
    BY <1>0, <1>4
  <2>1. s < End /\ s \in 1 .. End - 1 /\ s + 1 \in s + 1 .. k
    BY <1>0, <1>4
  <2>2. CASE Opens(s)
    <3>1. Scanned(Over(s)) /\ Over(s) \in s + 1 .. End /\ <<s, Over(s)>> \in Tokens
      BY <1>4, <2>1, <2>2, ScanToken
    <3>2. Over(s) <= k
      BY <3>1
    <3>3. Over(s) \in s + 1 .. k
      BY <1>0, <1>4, <3>1, <3>2
    <3> QED
      BY <1>5, <3>1, <3>3
  <2>3. CASE ~Opens(s)
    <3>1. Scanned(s + 1)
      BY <1>4, <2>1, <2>3, ScanCode
    <3> QED
      BY <1>5, <2>1, <3>1
  <2> QED
    BY <2>2, <2>3
<1> QED
  BY <1>4, <1>6

(* Nothing begins at a character that is neither a slash nor a quote.      *)
LEMMA ScannedOver ==
  ASSUME content \in Seq(Classes), NEW s, Scanned(s), NEW k \in s .. End,
         \A j \in s .. k - 1 : content[j] \notin {"/", "q"}
  PROVE  Scanned(k)
<1>0. End \in Nat \ {0} /\ s \in 1 .. End /\ k \in 1 .. End
  BY Places DEF Scanned
<1>1. ASSUME NEW t \in Tokens, t[1] < k PROVE t[2] <= k
  <2>1. t[1] \in 1 .. End - 1 /\ t[2] \in t[1] + 1 .. End /\ Opens(t[1])
    BY TokenTypes
  <2>2. content[t[1]] \in {"/", "q"}
    BY <1>0, <2>1, OpensAt DEF Opens
  <2>3. t[1] < s
    BY <1>0, <1>1, <2>1, <2>2
  <2>4. t \notin TokensFrom[s]
    BY <1>0, <2>1, <2>3, Behindhand
  <2>5. t[2] <= s
    BY <2>4 DEF Scanned
  <2> QED
    BY <1>0, <2>1, <2>5
<1> QED
  BY <1>0, <1>1, ScannedAt

(* The literals of a string the search has found.                          *)
StringFound(k) ==
  /\ Strings[k] # {} /\ \A t \in Strings[k] : t \in Literals /\ Closed(t)
  /\ \E t \in Strings[k] : At(Skipped[t[2]], <<"e">>)

LEMMA StringsAre ==
  ASSUME content \in Seq(Classes), PlainStrings, NEW stop \in 1 .. End,
         NEW k \in 1 .. End, NEW o \in 1 .. stop - 1, Skipped[k] = o,
         content[o] = "q", Scanned(o), ClosingQuote(stop)[o + 1] # 0
  PROVE  StringFound(k)
<1>0. End \in Nat \ {0} /\ stop \in Nat
  BY Places
<1> DEFINE S == {n \in Nat : \A i \in 1 .. End, a \in 1 .. stop - 1 :
                   /\ stop - a <= n /\ Skipped[i] = a /\ content[a] = "q"
                   /\ Scanned(a) /\ ClosingQuote(stop)[a + 1] # 0
                   => StringFound(i)}
<1>1. 0 \in S
  BY <1>0
<1>2. ASSUME NEW n \in S PROVE n + 1 \in S
  <2> SUFFICES ASSUME NEW i \in 1 .. End, NEW a \in 1 .. stop - 1,
                      stop - a <= n + 1, Skipped[i] = a, content[a] = "q",
                      Scanned(a), ClosingQuote(stop)[a + 1] # 0
               PROVE  StringFound(i)
    OBVIOUS
  <2> DEFINE t == <<a, Over(a)>>
  <2>1. At(a, <<"q">>) /\ Opens(a) /\ a < End /\ a \in 1 .. End - 1
    BY <1>0, OpensAt DEF Opens
  <2>2. t \in Tokens /\ Scanned(Over(a)) /\ Over(a) \in a + 1 .. End
    BY <2>1, ScanToken
  <2>3. t \in Literals
    BY <2>2 DEF Literals, Comments
  <2>4. Strings[i] = {t} \cup Strings[Over(a)]
    BY <2>1, StringsScan DEF Chain
  <2>5. Over(a) <= stop /\ ClosingQuote(stop)[Over(a) - 1] # 0
    BY <1>0, <2>3, ClosingLiteral
  <2>6. Over(a) - 1 \in 1 .. stop - 1 /\ content[Over(a) - 1] = "q" /\ Closed(t)
    BY <1>0, <2>2, <2>3, <2>5, LiteralPlain
  <2> DEFINE v == Over(a)
             next == Behind(v, Blanks, stop)
  <2>7. v - 1 + 1 = v /\ v \in 2 .. stop /\ v \in a + 1 .. End /\ v \in 1 .. End
    BY <1>0, <2>2, <2>5
  <2>8. /\ next \in v .. stop - 1 /\ \A j \in v .. next - 1 : content[j] \in Blanks
        /\ \/ content[next] = "e"
           \/ content[next] = "q" /\ ClosingQuote(stop)[next + 1] # 0
    BY SMTT(30), <2>5, <2>6, <2>7, ClosingNext
  <2> HIDE DEF v, next
  <2>9. next \in v .. End - 1 /\ content[next] \notin Blanks \cup {"bs"} /\ next \in 1 .. stop - 1
    BY <1>0, <2>7, <2>8 DEF Blanks
  <2>10. Skipped[v] = next
    BY <2>7, <2>8, <2>9, SkippedIs
  <2>11. CASE content[next] = "e"
    <3>1. At(next, <<"e">>) /\ ~At(next, <<"q">>)
      BY <1>0, <2>9, <2>11, CharactersAt
    <3>2. Strings[v] = {}
      BY <2>7, <2>10, <3>1, StringsScan DEF Chain
    <3> QED
      BY <2>3, <2>4, <2>6, <2>10, <3>1, <3>2 DEF StringFound, v
  <2>12. CASE content[next] = "q" /\ ClosingQuote(stop)[next + 1] # 0
    <3>1. Scanned(v)
      BY <2>2 DEF v
    <3>2. next \in v .. End /\ \A j \in v .. next - 1 : content[j] \notin {"/", "q"}
      BY <1>0, <2>7, <2>8, <2>9 DEF Blanks
    <3>3. Scanned(next)
      BY <3>1, <3>2, ScannedOver
    <3>4. stop - next <= n
      BY <1>0, <2>7, <2>9
    <3>5. StringFound(v)
      BY <2>7, <2>9, <2>10, <2>12, <3>3, <3>4
    <3> QED
      BY <2>3, <2>4, <2>6, <3>5 DEF StringFound, v
  <2> QED
    BY <2>8, <2>11, <2>12
<1>3. S = Nat
  <2>1. S \in SUBSET Nat
    OBVIOUS
  <2> HIDE DEF S
  <2> QED
    BY <1>1, <1>2, <2>1, Induction
<1>4. stop - o \in S /\ stop - o <= stop - o
  <2> HIDE DEF S
  <2> QED
    BY <1>0, <1>3
<1> QED
  BY <1>4

(* Where the pattern matches, outside the comments.                        *)
LEMMA MatchScanned ==
  ASSUME content \in Seq(Classes), PlainStrings, NEW stop \in 1 .. End,
         NEW k \in 1 .. stop - 1, Matches(k, stop), \A c \in Comments : k \notin Inside(c)
  PROVE  LET o == Opening(k, stop)
         IN  /\ content[k] = "L" /\ o \in k + 1 .. stop - 1 /\ content[o] = "q"
             /\ ClosingQuote(stop)[o + 1] # 0
             /\ \A j \in k + 1 .. o - 1 : content[j] \in Blanks \cup {"bs"}
             /\ \A t \in Tokens : k \notin Inside(t)
             /\ Scanned(k) /\ Scanned(o)
<1> DEFINE o == Opening(k, stop)
<1>0. End \in Nat \ {0} /\ stop \in Nat /\ k \in 1 .. End - 1 /\ k + 1 \in 1 .. stop
  BY Places
<1>1. /\ content[k] = "L" /\ o < stop /\ content[o] = "q" /\ ClosingQuote(stop)[o + 1] # 0
  BY DEF Matches
<1>2. o \in k + 1 .. stop /\ \A j \in k + 1 .. o - 1 : content[j] \in Blanks \cup {"bs"}
  BY <1>0, BehindIs DEF Opening
<1> HIDE DEF o
<1>3. \A t \in Tokens : k \notin Inside(t)
  <2>1. ASSUME NEW t \in Literals PROVE k \notin Inside(t)
    <3>1. \A j \in t[1] .. t[2] - 1 : content[j] # "L"
      BY LiteralPlain
    <3> QED
      BY <1>1, <3>1 DEF Inside
  <2> QED
    BY <2>1 DEF Literals
<1>4. Scanned(k)
  <2>1. ASSUME NEW t \in Tokens, t[1] < k PROVE t[2] <= k
    <3>1. t[1] \in 1 .. End - 1 /\ t[2] \in t[1] + 1 .. End
      BY TokenTypes
    <3> QED
      BY <1>0, <1>3, <2>1, <3>1 DEF Inside
  <2> QED
    BY <1>0, <2>1, ScannedAt
<1>5. Scanned(o)
  <2>1. o \in k .. End /\ \A j \in k .. o - 1 : j = k \/ j \in k + 1 .. o - 1
    BY <1>0, <1>2
  <2>2. \A j \in k .. o - 1 : content[j] \notin {"/", "q"}
    BY <1>1, <1>2, <2>1 DEF Blanks
  <2> QED
    BY <1>4, <2>1, <2>2, ScannedOver
<1> QED
  BY <1>0, <1>1, <1>2, <1>3, <1>4, <1>5 DEF o

(* What the search takes for a call is one, when it is not in a comment.   *)
LEMMA MatchIsCall ==
  ASSUME content \in Seq(Classes), PlainStrings, PlainTags, NEW stop \in 1 .. End,
         NEW k \in 1 .. stop - 1, Matches(k, stop), \A c \in Comments : k \notin Inside(c)
  PROVE  IsCall(k)
<1> DEFINE o == Opening(k, stop)
<1>0. End \in Nat \ {0} /\ stop \in Nat /\ k \in 1 .. End - 1 /\ k + 1 \in 1 .. stop
  BY Places
<1>1. /\ content[k] = "L" /\ o \in k + 1 .. stop - 1 /\ o < stop /\ content[o] = "q"
      /\ ClosingQuote(stop)[o + 1] # 0 /\ Scanned(o)
      /\ \A t \in Tokens : k \notin Inside(t)
  BY <1>0, MatchScanned
<1>2. o \in k + 1 .. stop /\ \A j \in k + 1 .. o - 1 : content[j] \in Blanks \cup {"bs"}
  BY <1>0, BehindIs DEF Opening
<1> HIDE DEF o
<1>3. Skipped[k + 1] = o
  <2>1. ASSUME NEW j \in k + 1 .. o - 1, content[j] \notin Blanks PROVE At(j, <<"bs", "nl">>)
    <3> DEFINE p == Opening(k, End)
    <3>1. k + 1 \in 1 .. End /\ End \in 1 .. End
      BY <1>0
    <3>2. p \in k + 1 .. End /\ (p < End => content[p] \notin Blanks \cup {"bs"})
      BY <3>1, BehindIs DEF Opening
    <3> HIDE DEF p
    <3>3. j \in k + 1 .. p - 1
      <4>1. p < End => p \notin k + 1 .. o - 1
        BY <1>2, <3>2
      <4> QED
        BY <1>0, <1>1, <1>2, <3>2, <4>1
    <3>4. content[j] = "bs"
      BY <1>2, <2>1
    <3>5. At(j + 1, <<"nl">>)
      BY <1>0, <1>1, <3>3, <3>4 DEF PlainTags, p
    <3>6. j \in Nat \ {0} /\ j + 1 \in Nat \ {0}
      BY <1>0
    <3> QED
      BY <3>4, <3>5, <3>6, CharactersAt
  <2>2. o \in k + 1 .. End - 1 /\ content[o] \notin Blanks \cup {"bs"} /\ k + 1 \in 1 .. End
    BY <1>0, <1>1, <1>2 DEF Blanks
  <2> QED
    BY <2>1, <2>2, SkippedIs
<1>4. StringFound(k + 1)
  <2>1. k + 1 \in 1 .. End /\ o \in 1 .. stop - 1
    BY <1>0, <1>1, <1>2
  <2> QED
    BY <1>1, <1>3, <2>1, StringsAre
<1> QED
  BY <1>1, <1>4 DEF IsCall, StringFound

-----------------------------------------------------------------------------
(* The search.                                                             *)

LEMMA ClosingTo ==
  ASSUME content \in Seq(Classes), NEW stop \in 1 .. End, NEW k \in 1 .. stop + 1
  PROVE  ClosingQuote(stop)[k] = 0 \/ ClosingQuote(stop)[k] \in k .. stop - 1
<1> DEFINE close == ClosingQuote(stop)
           In(j) == close[j] = 0 \/ close[j] \in j .. stop - 1
           S == {n \in Nat : \A j \in 1 .. stop + 1 : stop + 1 - j <= n => In(j)}
<1>0. stop \in Nat \ {0}
  BY Places
<1>1. \A j \in 1 .. stop + 1 : close[j] = Close(close, stop, j)
  BY ClosingScan
<1> HIDE DEF close
<1>2. \A j \in 1 .. stop + 1 : j >= stop => close[j] = 0
  BY <1>1 DEF Close
<1>3. 0 \in S
  BY <1>0, <1>2
<1>4. ASSUME NEW n \in S PROVE n + 1 \in S
  <2> SUFFICES ASSUME NEW j \in 1 .. stop + 1, stop + 1 - j <= n + 1, close[j] # 0
               PROVE  close[j] \in j .. stop - 1
    OBVIOUS
  <2>1. j < stop /\ j \in 1 .. stop - 1 /\ j \in Nat
    BY <1>0, <1>2
  <2>2. close[j] = j \/ \E i \in j + 1 .. stop + 1 : close[j] = close[i]
    <3>0. close[j] = Close(close, stop, j) /\ content[j] # "nl"
      BY <1>1, <2>1 DEF Close
    <3>1. CASE content[j] = "q"
      <4> DEFINE next == Behind(j + 1, Blanks, stop)
      <4>1. next \in j + 1 .. stop
        BY <1>0, <2>1, BehindIs
      <4>2. close[j] = IF next = stop THEN 0 ELSE IF content[next] = "e" THEN j
                       ELSE IF content[next] = "q" THEN close[next + 1] ELSE 0
        BY <1>0, <2>1, <3>0, <3>1 DEF Close
      <4> HIDE DEF next
      <4>3. next + 1 \in j + 1 .. stop + 1
        BY <1>0, <2>1, <4>1
      <4> QED
        BY <4>2, <4>3
    <3>2. CASE content[j] = "bs"
      <4> DEFINE b == LastBreak(SubSeq(content, 1, stop - 1), j)
      <4>1. b \in j .. stop - 1
        BY <2>1, BreakIs
      <4>2. close[j] = IF b > j THEN close[b + 1] ELSE close[j + 2]
        BY <1>0, <2>1, <3>0, <3>2 DEF Close
      <4> HIDE DEF b
      <4>3. b + 1 \in j + 1 .. stop + 1 /\ j + 2 \in j + 1 .. stop + 1
        BY <1>0, <2>1, <4>1
      <4> QED
        BY <4>2, <4>3
    <3>3. CASE content[j] \notin {"q", "bs"}
      <4>1. close[j] = close[j + 1] /\ j + 1 \in j + 1 .. stop + 1
        BY <1>0, <2>1, <3>0, <3>3 DEF Close
      <4> QED
        BY <4>1
    <3> QED
      BY <3>1, <3>2, <3>3
  <2>3. CASE close[j] = j
    BY <1>0, <2>1, <2>3
  <2>4. ASSUME NEW i \in j + 1 .. stop + 1, close[j] = close[i] PROVE close[j] \in j .. stop - 1
    <3>1. i \in 1 .. stop + 1 /\ stop + 1 - i <= n
      BY <1>0, <2>1
    <3>2. close[i] \in i .. stop - 1
      BY <2>4, <3>1
    <3> QED
      BY <1>0, <2>1, <2>4, <3>1, <3>2
  <2> QED
    BY <2>2, <2>3, <2>4
<1>5. S = Nat
  <2>1. S \in SUBSET Nat
    OBVIOUS
  <2> HIDE DEF S
  <2> QED
    BY <1>3, <1>4, <2>1, Induction
<1>6. stop + 1 - k \in S /\ stop + 1 - k <= stop + 1 - k
  <2> HIDE DEF S
  <2> QED
    BY <1>0, <1>5
<1>7. In(k)
  BY <1>6
<1> QED
  BY <1>7 DEF close

(* Every place found is one in a range that the pattern matches, and the   *)
(* search goes on in the part it has come to.                              *)
FoundInv ==
  /\ part \in Nat \ {0}
  /\ ~done => part = 1 /\ found = <<>>
  /\ Len(content) < Width => result = <<>>
  /\ done /\ part <= Len(result) => from \in Nat /\ result[part][1] <= from
  /\ \E S : found \in Seq(S)
  /\ \A n \in 1 .. Len(found) :
       \E r \in Ranges : \E k \in Inside(r) : found[n].tag = k /\ Matches(k, r[2])

LEMMA SameMatches ==
  ASSUME content' = content, NEW k, NEW stop
  PROVE  Matches(k, stop)' = Matches(k, stop)
<1>1. ClosingQuote(stop)' = ClosingQuote(stop)
  BY DEF ClosingQuote, Behind, LastBreak, Blanks
<1>2. Opening(k, stop)' = Opening(k, stop)
  BY DEF Opening, Behind, Blanks
<1> QED
  BY <1>1, <1>2 DEF Matches

LEMMA FoundInit == Init /\ SearchInit => FoundInv
<1> SUFFICES ASSUME Init, SearchInit PROVE FoundInv
  OBVIOUS
<1>1. <<>> \in Seq({}) /\ Len(<<>>) = 0
  OBVIOUS
<1> QED
  BY <1>1 DEF Init, SearchInit, FoundInv

(* While the file is filtered nothing is found.                            *)
LEMMA FoundFiltering ==
  ASSUME RangeInv, FoundInv, RangeInv',
         (TooShort \/ EndBlock \/ InBlock \/ InLine \/ AfterSlash \/ InCode) /\ UNCHANGED search
  PROVE  FoundInv'
<1>1. ~done /\ content' = content /\ part' = part /\ found' = found /\ from' = from
  BY DEF TooShort, EndBlock, InBlock, InLine, AfterSlash, InCode, Step, search
<1>2. part = 1 /\ found = <<>> /\ Len(<<>>) = 0
  BY <1>1 DEF FoundInv
<1>3. Len(content) \in Nat /\ Width \in Nat
  BY LenProperties, FilterAssumption DEF RangeInv
<1>4. Len(content) < Width => result' = <<>>
  BY <1>3 DEF FoundInv, TooShort, EndBlock, InBlock, InLine, AfterSlash, InCode, Step
<1>5. done' => Len(content) < Width
  BY <1>1 DEF TooShort, EndBlock, InBlock, InLine, AfterSlash, InCode, Step
<1> QED
  BY <1>1, <1>2, <1>4, <1>5 DEF FoundInv

LEMMA FoundFirst ==
  ASSUME RangeInv, FoundInv, RangeInv', FirstPart
  PROVE  FoundInv'
<1>1. /\ ~done /\ content' = content /\ part' = part /\ found' = found /\ Len(content) >= Width
      /\ from' = IF result' = <<>> THEN from ELSE result'[1][1]
  BY DEF FirstPart, Finish
<1>2. part = 1 /\ found = <<>> /\ Len(<<>>) = 0 /\ \E S : found \in Seq(S)
  BY <1>1 DEF FoundInv
<1>3. Len(content) \in Nat /\ Width \in Nat
  BY LenProperties, FilterAssumption DEF RangeInv
<1>4. ASSUME 1 <= Len(result') PROVE from' \in Nat /\ result'[1][1] <= from'
  <2>1. result' \in Seq(Nat \X Nat)
    BY DEF RangeInv
  <2>2. result' # <<>> /\ result'[1] \in Nat \X Nat
    BY <1>4, <2>1
  <2> QED
    BY <1>1, <2>2
<1> QED
  BY <1>1, <1>2, <1>3, <1>4 DEF FoundInv

LEMMA FoundNextPart ==
  ASSUME RangeInv, FoundInv, NextPart
  PROVE  FoundInv'
<1>1. /\ content' = content /\ result' = result /\ done' = done /\ found' = found /\ done
      /\ part' = part + 1
      /\ from' = IF part < Len(result) THEN result[part + 1][1] ELSE from
  BY DEF NextPart, vars
<1>2. ASSUME part + 1 <= Len(result) PROVE from' \in Nat /\ result[part + 1][1] <= from'
  <2>1. result \in Seq(Nat \X Nat) /\ part \in Nat \ {0}
    BY DEF RangeInv, FoundInv
  <2>2. part < Len(result) /\ result[part + 1] \in Nat \X Nat
    BY <1>2, <2>1
  <2> QED
    BY <1>1, <2>2
<1>3. Ranges' = Ranges
  BY <1>1 DEF Ranges
<1>4. ASSUME NEW n \in 1 .. Len(found)
      PROVE  \E r \in Ranges' : \E k \in Inside(r) : found[n].tag = k /\ Matches(k, r[2])'
  <2>1. PICK r \in Ranges : \E k \in Inside(r) : found[n].tag = k /\ Matches(k, r[2])
    BY DEF FoundInv
  <2> QED
    BY <1>1, <1>3, <2>1, SameMatches
<1> QED
  BY <1>1, <1>2, <1>3, <1>4 DEF FoundInv, Inside

LEMMA FoundFindNext ==
  ASSUME RangeInv, FoundInv, FindNext
  PROVE  FoundInv'
<1> DEFINE k     == FirstOf(Calls)
           stop  == result[part][2]
           open  == Opening(k, stop)
           close == ClosingQuote(stop)[open + 1]
           text  == Simplified(SubSeq(content, open, close))
           call  == [tag |-> k, text |-> text]
<1>0. /\ done /\ part \in 1 .. Len(result) /\ Calls # {} /\ content' = content
      /\ result' = result /\ done' = done /\ found' = Append(found, call)
      /\ from' = Behind(close + 1, Blanks, stop) + 1
      /\ part' = part \/ part' = Len(result) + 1
  <2>1. part \in Nat \ {0} /\ Len(result) \in Nat
    BY LenProperties DEF FoundInv, RangeInv
  <2> QED
    BY <2>1 DEF FindNext, vars
<1>1. /\ content \in Seq(Classes) /\ result \in Seq(Nat \X Nat) /\ Len(result) \in Nat
      /\ RangesDisjoint /\ End \in Nat \ {0}
  BY LenProperties, Places DEF RangeInv
<1>2. /\ result[part] \in Ranges /\ result[part] \in Nat \X Nat /\ stop \in 1 .. End
      /\ result[part][1] >= 1 /\ result[part][1] <= from /\ from \in Nat
  <2>1. part \in DOMAIN result
    BY <1>0, <1>1
  <2>2. result[part] \in Nat \X Nat
    BY <1>0, <1>1
  <2>3. 1 <= result[part][1] /\ result[part][1] <= stop /\ stop <= End
    BY <1>1, <2>1 DEF RangesDisjoint
  <2>4. from \in Nat /\ result[part][1] <= from
    BY <1>0 DEF FoundInv
  <2> QED
    BY <1>1, <2>1, <2>2, <2>3, <2>4 DEF Ranges
<1>3. k \in from .. stop - 1 /\ Matches(k, stop)
  <2>1. Calls \in SUBSET (1 .. End) /\ \A j \in Calls : j \in from .. stop - 1 /\ Matches(j, stop)
    BY <1>1, <1>2 DEF Calls
  <2>2. k \in Calls
    BY <1>0, <1>1, <2>1, FirstIs
  <2> HIDE DEF k
  <2> QED
    BY <2>1, <2>2
<1> HIDE DEF k
<1>4. k \in Inside(result[part]) /\ k \in Nat /\ k + 1 \in 1 .. stop
  BY <1>1, <1>2, <1>3 DEF Inside
<1>5. open \in k + 1 .. stop /\ open < stop /\ close # 0
  <2>1. open \in k + 1 .. stop
    BY <1>1, <1>2, <1>4, BehindIs DEF Opening
  <2> QED
    BY <1>3, <2>1 DEF Matches
<1>6. close \in open + 1 .. stop - 1
  <2> HIDE DEF open, stop
  <2>1. open + 1 \in 1 .. stop + 1
    BY <1>1, <1>2, <1>4, <1>5
  <2> QED
    BY <1>1, <1>2, <1>5, <2>1, ClosingTo
<1> HIDE DEF open, close, text
<1>7. Behind(close + 1, Blanks, stop) \in close + 1 .. stop
  <2>1. close + 1 \in 1 .. stop
    BY SMTT(30), <1>1, <1>2, <1>4, <1>5, <1>6
  <2> QED
    BY <1>1, <1>2, <2>1, BehindIs
<1>8. from' \in Nat /\ result[part][1] <= from'
  <2> HIDE DEF stop
  <2>1. stop \in Nat /\ k \in Nat /\ open \in Nat /\ close \in Nat
    BY <1>2, <1>3, <1>5, <1>6
  <2>2. result[part][1] \in Nat
    BY <1>2
  <2>3. from' = Behind(close + 1, Blanks, stop) + 1
    BY <1>0
  <2> DEFINE last == Behind(close + 1, Blanks, stop)
  <2>4. last \in close + 1 .. stop /\ from' = last + 1
    BY <1>7, <2>3
  <2> HIDE DEF last
  <2> QED
    BY <1>2, <1>3, <1>5, <1>6, <2>1, <2>2, <2>4
<1>9. /\ \E S : found' \in Seq(S)
      /\ Len(found') = Len(found) + 1 /\ Len(found) \in Nat
      /\ found'[Len(found) + 1] = call
      /\ \A n \in 1 .. Len(found) : found'[n] = found[n]
  <2>1. PICK S : found \in Seq(S)
    BY DEF FoundInv
  <2> DEFINE U == S \cup {call}
  <2>2. found \in Seq(U) /\ call \in U
    BY <2>1
  <2> HIDE DEF U, call
  <2> QED
    BY <1>0, <2>2, AppendProperties
<1>10. Ranges' = Ranges
  BY <1>0 DEF Ranges
<1>11. ASSUME NEW n \in 1 .. Len(found')
       PROVE  \E r \in Ranges : \E j \in Inside(r) : found'[n].tag = j /\ Matches(j, r[2])
  <2>1. CASE n = Len(found) + 1
    <3>1. found'[n].tag = k
      BY <1>9, <2>1
    <3> QED
      BY <1>2, <1>3, <1>4, <3>1
  <2>2. CASE n # Len(found) + 1
    <3>1. n \in 1 .. Len(found)
      BY <1>9, <2>2
    <3>2. found'[n] = found[n]
      BY <1>9, <3>1
    <3> QED
      BY <3>1, <3>2 DEF FoundInv
  <2> QED
    BY <2>1, <2>2
<1>12. ASSUME NEW n \in 1 .. Len(found')
       PROVE  \E r \in Ranges' : \E j \in Inside(r) : found'[n].tag = j /\ Matches(j, r[2])'
  <2>1. PICK r \in Ranges : \E j \in Inside(r) : found'[n].tag = j /\ Matches(j, r[2])
    BY <1>11
  <2> QED
    BY <1>0, <1>10, <2>1, SameMatches
<1>13. part' \in Nat \ {0} /\ (part' <= Len(result) => part' = part)
  BY <1>0, <1>1
<1>14. Len(content') < Width => result' = <<>>
  BY <1>0 DEF FoundInv
<1> HIDE DEF call, stop
<1> QED
  BY <1>0, <1>8, <1>9, <1>12, <1>13, <1>14 DEF FoundInv, Inside

LEMMA FoundNext ==
  RangeInv /\ FoundInv /\ [SearchNext]_allVars /\ RangeInv' => FoundInv'
<1> SUFFICES ASSUME RangeInv, FoundInv, [SearchNext]_allVars, RangeInv' PROVE FoundInv'
  OBVIOUS
<1>1. CASE (TooShort \/ EndBlock \/ InBlock \/ InLine \/ AfterSlash \/ InCode) /\ UNCHANGED search
  BY <1>1, FoundFiltering
<1>2. CASE FirstPart
  BY <1>2, FoundFirst
<1>3. CASE FindNext
  BY <1>3, FoundFindNext
<1>4. CASE NextPart
  BY <1>4, FoundNextPart
<1>5. CASE UNCHANGED allVars
  <2>1. UNCHANGED <<content, done, result, part, from, found>> /\ Ranges' = Ranges
    BY <1>5 DEF allVars, vars, search, Ranges
  <2>2. ASSUME NEW n \in 1 .. Len(found)
        PROVE  \E r \in Ranges' : \E k \in Inside(r) : found[n].tag = k /\ Matches(k, r[2])'
    <3>1. PICK r \in Ranges : \E k \in Inside(r) : found[n].tag = k /\ Matches(k, r[2])
      BY DEF FoundInv
    <3> QED
      BY <2>1, <3>1, SameMatches
  <2> QED
    BY <2>1, <2>2 DEF FoundInv, Inside
<1> QED
  BY <1>1, <1>2, <1>3, <1>4, <1>5 DEF SearchNext

(* What is searched is no comment (NothingCommented), what matches outside *)
(* the comments is a call.                                                 *)
LEMMA FoundAre ==
  RangeInv /\ FoundInv /\ NothingCommented => FoundAreCalls
<1> SUFFICES ASSUME RangeInv, FoundInv, NothingCommented, Searched, PlainTags,
                    NEW n \in DOMAIN found
             PROVE  \/ IsCall(found[n].tag)
                    \/ \E c \in TrailingComments : found[n].tag \in Inside(c)
  BY DEF FoundAreCalls
<1>1. content \in Seq(Classes) /\ End \in Nat \ {0} /\ RangesDisjoint
  BY Places DEF RangeInv
<1>2. n \in 1 .. Len(found)
  BY DEF FoundInv
<1>3. PICK r \in Ranges : \E k \in Inside(r) : found[n].tag = k /\ Matches(k, r[2])
  BY <1>2 DEF FoundInv
<1>4. PICK k \in Inside(r) : found[n].tag = k /\ Matches(k, r[2])
  BY <1>3
<1>5. r[1] >= 1 /\ r[1] \in Nat /\ r[2] \in 1 .. End /\ k \in 1 .. r[2] - 1
  <2>1. PICK m \in DOMAIN result : r = result[m]
    BY DEF Ranges
  <2>2. 1 <= r[1] /\ r[1] <= r[2] /\ r[2] <= End /\ r \in Nat \X Nat
    BY <1>1, <2>1 DEF RangesDisjoint, RangeInv
  <2> QED
    BY <1>1, <1>4, <2>2 DEF Inside
<1>6. ASSUME NEW c \in Comments, k \in Inside(c) PROVE c \in TrailingComments
  <2>1. k # c[1]
    <3>1. content[c[1]] = "/"
      BY DEF Comments
    <3> QED
      BY <1>4, <3>1 DEF Matches
  <2>2. c[2] = End /\ inComment /\ Len(result) = 1
    BY <1>4, <1>6, <2>1 DEF NothingCommented, Searched
  <2> QED
    BY <2>2 DEF TrailingComments
<1>7. CASE \E c \in Comments : k \in Inside(c)
  BY <1>4, <1>6, <1>7
<1>8. CASE \A c \in Comments : k \notin Inside(c)
  <2>1. IsCall(k)
    BY <1>1, <1>4, <1>5, <1>8, MatchIsCall DEF Searched
  <2> QED
    BY <1>4, <2>1
<1> QED
  BY <1>7, <1>8

(* In a text of any length that is Plain, with PlainStrings and PlainTags  *)
(* (see there), every place a tag is written over is a call of the code,   *)
(* or lies in the trailing comment of a file without another part: there   *)
(* the program does write over what a comment holds.                       *)
THEOREM OnlyCallsAreFound == SearchSpec => []FoundAreCalls
<1>1. SearchInit => Init /\ RangeInv /\ FoundInv
  BY RangeInit, FoundInit DEF SearchInit
<1>2. [SearchNext]_allVars => [Next]_vars
  BY DEF SearchNext, FirstPart, FindNext, NextPart, allVars, Next
<1>3. RangeInv /\ FoundInv /\ [SearchNext]_allVars => RangeInv' /\ FoundInv'
  BY <1>2, RangeNext, FoundNext
<1>4. SearchSpec => [](RangeInv /\ FoundInv)
  BY <1>1, <1>3, PTL DEF SearchSpec
<1>5. SearchSpec => []NothingCommented
  BY SearchFilters, PTL
<1> QED
  BY <1>4, <1>5, FoundAre, PTL

-----------------------------------------------------------------------------
(* Texts taken from a text.  s has the characters of g at the places in D, *)
(* from left to right; place i of it is place e[i] of g.                   *)
Listed(s, e, D, g) ==
  /\ s \in Seq(Classes) /\ D \in SUBSET Nat
  /\ e \in [1 .. Len(s) -> D]
  /\ \A i, j \in 1 .. Len(s) : i < j => e[i] < e[j]
  /\ \A d \in D : \E i \in 1 .. Len(s) : e[i] = d
  /\ \A i \in 1 .. Len(s) : s[i] = g[e[i]]

Lists(s, D, g) == \E e : Listed(s, e, D, g)

(* There is only one such text.                                            *)
LEMMA ListedPlaces ==
  ASSUME NEW s, NEW t, NEW d, NEW e, NEW D, NEW g,
         Listed(s, d, D, g), Listed(t, e, D, g)
  PROVE  \A i \in 1 .. Len(s) : i \in 1 .. Len(t) /\ d[i] = e[i]
<1>0. /\ Len(s) \in Nat /\ Len(t) \in Nat
      /\ \A i \in 1 .. Len(s) : d[i] \in D /\ d[i] \in Nat
      /\ \A i \in 1 .. Len(t) : e[i] \in D /\ e[i] \in Nat
  BY LenProperties DEF Listed
<1>1. /\ \A i, j \in 1 .. Len(s) : i < j => d[i] < d[j]
      /\ \A i, j \in 1 .. Len(t) : i < j => e[i] < e[j]
      /\ \A x \in D : \E i \in 1 .. Len(s) : d[i] = x
      /\ \A x \in D : \E i \in 1 .. Len(t) : e[i] = x
  BY DEF Listed
<1> DEFINE S == {n \in Nat : \A i \in 1 .. Len(s) : i <= n => i \in 1 .. Len(t) /\ d[i] = e[i]}
<1>2. 0 \in S
  OBVIOUS
<1>3. ASSUME NEW n \in S PROVE n + 1 \in S
  <2> SUFFICES ASSUME n + 1 \in 1 .. Len(s)
               PROVE  n + 1 \in 1 .. Len(t) /\ d[n + 1] = e[n + 1]
    BY <1>0
  <2> DEFINE m == n + 1
  <2>0. m \in 1 .. Len(s) /\ m \in Nat /\ \A i \in 1 .. Len(s) : i < m => i \in 1 .. Len(t) /\ d[i] = e[i]
    BY <1>0
  <2> HIDE DEF m
  <2>1. PICK j \in 1 .. Len(t) : e[j] = d[m]
    BY <1>0, <1>1, <2>0
  <2>2. ~(j < m)
    <3> SUFFICES ASSUME j < m PROVE FALSE
      OBVIOUS
    <3>1. j \in 1 .. Len(s) /\ d[j] = e[j]
      BY <1>0, <2>0, <2>1
    <3>2. d[j] < d[m] /\ d[j] \in Nat
      BY <1>0, <1>1, <2>0, <3>1
    <3> QED
      BY <2>1, <3>1, <3>2
  <2>3. m \in 1 .. Len(t)
    BY <1>0, <2>0, <2>1, <2>2
  <2>4. e[m] <= d[m]
    <3>1. j = m \/ e[m] < e[j]
      BY <1>0, <1>1, <2>0, <2>1, <2>2, <2>3
    <3>2. e[m] \in Nat /\ d[m] \in Nat
      BY <1>0, <2>0, <2>3
    <3> QED
      BY <2>1, <3>1, <3>2
  <2>5. PICK i \in 1 .. Len(s) : d[i] = e[m]
    BY <1>0, <1>1, <2>3
  <2>6. ~(i < m)
    <3> SUFFICES ASSUME i < m PROVE FALSE
      OBVIOUS
    <3>1. i \in 1 .. Len(t) /\ d[i] = e[i]
      BY <2>0, <2>5
    <3>2. e[i] < e[m] /\ e[i] \in Nat
      BY <1>0, <1>1, <2>3, <3>1
    <3> QED
      BY <2>5, <3>1, <3>2
  <2>7. i = m \/ d[m] < d[i]
    BY <1>0, <1>1, <2>0, <2>5, <2>6
  <2>8. d[m] = e[m]
    <3>1. e[m] \in Nat /\ d[m] \in Nat
      BY <1>0, <2>0, <2>3
    <3> QED
      BY <2>4, <2>5, <2>7, <3>1
  <2> QED
    BY <2>3, <2>8 DEF m
<1>4. S = Nat
  <2>1. S \in SUBSET Nat
    OBVIOUS
  <2> HIDE DEF S
  <2> QED
    BY <1>2, <1>3, <2>1, Induction
<1>5. Len(s) \in S /\ \A i \in 1 .. Len(s) : i <= Len(s)
  <2> HIDE DEF S
  <2> QED
    BY <1>0, <1>4
<1> QED
  BY <1>5

LEMMA ListedOnce ==
  ASSUME NEW s, NEW t, NEW D, NEW g, Lists(s, D, g), Lists(t, D, g)
  PROVE  s = t
<1>1. PICK d : Listed(s, d, D, g)
  BY DEF Lists
<1>2. PICK e : Listed(t, e, D, g)
  BY DEF Lists
<1>3. s \in Seq(Classes) /\ t \in Seq(Classes) /\ Len(s) \in Nat /\ Len(t) \in Nat
  BY <1>1, <1>2, LenProperties DEF Listed
<1>4. \A i \in 1 .. Len(s) : i \in 1 .. Len(t) /\ d[i] = e[i]
  BY <1>1, <1>2, ListedPlaces
<1>5. \A i \in 1 .. Len(t) : i \in 1 .. Len(s)
  BY <1>1, <1>2, ListedPlaces
<1>6. Len(s) = Len(t)
  <2>1. Len(s) <= Len(t)
    BY <1>3, <1>4
  <2>2. Len(t) <= Len(s)
    BY <1>3, <1>5
  <2> QED
    BY <1>3, <2>1, <2>2
<1>7. \A i \in 1 .. Len(s) : s[i] = t[i]
  BY <1>1, <1>2, <1>4 DEF Listed
<1> QED
  BY <1>3, <1>6, <1>7, SeqEqual

LEMMA ListedNone ==
  ASSUME NEW g
  PROVE  Lists(<<>>, {}, g)
<1> DEFINE e == [i \in 1 .. 0 |-> 0]
<1>1. <<>> \in Seq(Classes) /\ Len(<<>>) = 0 /\ 1 .. 0 = {}
  OBVIOUS
<1>2. e \in [1 .. Len(<<>>) -> {}]
  BY <1>1
<1>3. Listed(<<>>, e, {}, g)
  BY <1>1, <1>2 DEF Listed
<1> QED
  BY <1>3 DEF Lists

(* One place more, at the end or at the start.                             *)
LEMMA ListedAppend ==
  ASSUME NEW s, NEW D, NEW g, NEW d \in Nat, Lists(s, D, g), g[d] \in Classes,
         \A x \in D : x < d
  PROVE  Lists(Append(s, g[d]), D \cup {d}, g)
<1>1. PICK e : Listed(s, e, D, g)
  BY DEF Lists
<1>2. /\ s \in Seq(Classes) /\ Len(s) \in Nat /\ D \in SUBSET Nat
      /\ \A i \in 1 .. Len(s) : e[i] \in D /\ e[i] \in Nat
  BY <1>1, LenProperties DEF Listed
<1> DEFINE t == Append(s, g[d])
           f == [i \in 1 .. Len(s) + 1 |-> IF i = Len(s) + 1 THEN d ELSE e[i]]
<1>3. /\ t \in Seq(Classes) /\ Len(t) = Len(s) + 1 /\ t[Len(s) + 1] = g[d]
      /\ \A i \in 1 .. Len(s) : t[i] = s[i]
  BY <1>2, AppendProperties
<1>4. \A i \in 1 .. Len(s) + 1 : i = Len(s) + 1 \/ i \in 1 .. Len(s)
  BY <1>2
<1>5. /\ \A i \in 1 .. Len(s) : f[i] = e[i] /\ i \in 1 .. Len(s) + 1
      /\ f[Len(s) + 1] = d /\ Len(s) + 1 \in 1 .. Len(s) + 1
  BY <1>2
<1>6. f \in [1 .. Len(s) + 1 -> D \cup {d}]
  BY <1>2, <1>4
<1> HIDE DEF f, t
<1>7. \A i, j \in 1 .. Len(s) + 1 : i < j => f[i] < f[j]
  <2> SUFFICES ASSUME NEW i \in 1 .. Len(s) + 1, NEW j \in 1 .. Len(s) + 1, i < j
               PROVE  f[i] < f[j]
    OBVIOUS
  <2>1. i \in 1 .. Len(s)
    BY <1>2
  <2>2. CASE j = Len(s) + 1
    BY <1>2, <1>5, <2>1, <2>2
  <2>3. CASE j \in 1 .. Len(s)
    BY <1>1, <1>5, <2>1, <2>3 DEF Listed
  <2> QED
    BY <1>4, <2>2, <2>3
<1>8. \A x \in D \cup {d} : \E i \in 1 .. Len(s) + 1 : f[i] = x
  BY <1>1, <1>5 DEF Listed
<1>9. \A i \in 1 .. Len(s) + 1 : t[i] = g[f[i]]
  BY <1>1, <1>3, <1>4, <1>5 DEF Listed
<1>10. Listed(t, f, D \cup {d}, g)
  BY <1>2, <1>3, <1>6, <1>7, <1>8, <1>9 DEF Listed
<1> QED
  BY <1>10 DEF Lists, t

LEMMA ListedPrepend ==
  ASSUME NEW s, NEW D, NEW g, NEW d \in Nat, Lists(s, D, g), g[d] \in Classes,
         \A x \in D : d < x
  PROVE  Lists(<<g[d]>> \o s, D \cup {d}, g)
<1>1. PICK e : Listed(s, e, D, g)
  BY DEF Lists
<1>2. /\ s \in Seq(Classes) /\ Len(s) \in Nat /\ D \in SUBSET Nat
      /\ \A i \in 1 .. Len(s) : e[i] \in D /\ e[i] \in Nat
  BY <1>1, LenProperties DEF Listed
<1> DEFINE t == <<g[d]>> \o s
           f == [i \in 1 .. Len(s) + 1 |-> IF i = 1 THEN d ELSE e[i - 1]]
<1>3. /\ t \in Seq(Classes) /\ Len(t) = Len(s) + 1 /\ t[1] = g[d]
      /\ \A i \in 2 .. Len(s) + 1 : t[i] = s[i - 1]
  <2>1. <<g[d]>> \in Seq(Classes) /\ Len(<<g[d]>>) = 1 /\ <<g[d]>>[1] = g[d]
    OBVIOUS
  <2>2. /\ t \in Seq(Classes) /\ Len(t) = 1 + Len(s)
        /\ \A i \in 1 .. 1 + Len(s) : t[i] = IF i <= 1 THEN <<g[d]>>[i] ELSE s[i - 1]
    BY <1>2, <2>1, ConcatProperties
  <2> HIDE DEF t
  <2> QED
    BY <1>2, <2>1, <2>2
<1>4. \A i \in 1 .. Len(s) + 1 : i = 1 \/ (i \in 2 .. Len(s) + 1 /\ i - 1 \in 1 .. Len(s))
  BY <1>2
<1>5. /\ \A i \in 2 .. Len(s) + 1 : f[i] = e[i - 1]
      /\ f[1] = d /\ 1 \in 1 .. Len(s) + 1
  BY <1>2
<1>6. f \in [1 .. Len(s) + 1 -> D \cup {d}]
  BY <1>2, <1>4
<1> HIDE DEF f, t
<1>7. \A i, j \in 1 .. Len(s) + 1 : i < j => f[i] < f[j]
  <2> SUFFICES ASSUME NEW i \in 1 .. Len(s) + 1, NEW j \in 1 .. Len(s) + 1, i < j
               PROVE  f[i] < f[j]
    OBVIOUS
  <2>1. j \in 2 .. Len(s) + 1 /\ j - 1 \in 1 .. Len(s)
    BY <1>2
  <2>2. CASE i = 1
    BY <1>2, <1>5, <2>1, <2>2
  <2>3. CASE i \in 2 .. Len(s) + 1
    <3>1. i - 1 \in 1 .. Len(s) /\ i - 1 < j - 1
      BY <1>2, <2>3
    <3>2. e[i - 1] < e[j - 1]
      BY <1>1, <2>1, <3>1 DEF Listed
    <3> QED
      BY <1>5, <2>1, <2>3, <3>2
  <2> QED
    BY <1>4, <2>2, <2>3
<1>8. \A x \in D \cup {d} : \E i \in 1 .. Len(s) + 1 : f[i] = x
  <2> SUFFICES ASSUME NEW x \in D PROVE \E i \in 1 .. Len(s) + 1 : f[i] = x
    BY <1>5
  <2>1. PICK i \in 1 .. Len(s) : e[i] = x
    BY <1>1 DEF Listed
  <2>2. i + 1 \in 2 .. Len(s) + 1 /\ i + 1 \in 1 .. Len(s) + 1 /\ i + 1 - 1 = i
    BY <1>2
  <2>3. f[i + 1] = e[i + 1 - 1]
    BY <1>5, <2>2
  <2>4. f[i + 1] = x
    BY <2>1, <2>2, <2>3
  <2> QED
    BY <2>2, <2>4
<1>9. ASSUME NEW i \in 1 .. Len(s) + 1 PROVE t[i] = g[f[i]]
  <2>1. CASE i = 1
    BY <1>3, <1>5, <2>1
  <2>2. CASE i # 1
    <3>1. i \in 2 .. Len(s) + 1 /\ i - 1 \in 1 .. Len(s)
      BY <1>4, <2>2
    <3>2. t[i] = s[i - 1] /\ f[i] = e[i - 1]
      BY <1>3, <1>5, <3>1
    <3>3. s[i - 1] = g[e[i - 1]]
      BY <1>1, <3>1 DEF Listed
    <3> QED
      BY <3>2, <3>3
  <2> QED
    BY <2>1, <2>2
<1>10. Listed(t, f, D \cup {d}, g)
  BY <1>2, <1>3, <1>6, <1>7, <1>8, <1>9 DEF Listed
<1> QED
  BY <1>10 DEF Lists, t

(* A part of the text itself.                                              *)
LEMMA ListedPart ==
  ASSUME content \in Seq(Classes), NEW o \in 1 .. End - 1, NEW c \in o .. End - 1
  PROVE  /\ Len(SubSeq(content, o, c)) = c - o + 1
         /\ Listed(SubSeq(content, o, c), [i \in 1 .. c - o + 1 |-> o + i - 1], o .. c, content)
<1> DEFINE s == SubSeq(content, o, c)
           e == [i \in 1 .. c - o + 1 |-> o + i - 1]
<1>0. End \in Nat \ {0} /\ End = Len(content) + 1 /\ o \in Nat /\ c \in Nat /\ o <= c
  BY Places
<1>1. \A i \in o .. c : content[i] \in Classes
  <2>1. \A i \in o .. c : i \in 1 .. Len(content)
    BY <1>0
  <2> QED
    BY <2>1, ElementOfSeq
<1>2. /\ s \in Seq(Classes) /\ Len(s) = c - o + 1
      /\ \A i \in 1 .. c - o + 1 : s[i] = content[o + i - 1]
  <2>1. /\ s \in Seq(Classes) /\ Len(s) = IF o <= c THEN c - o + 1 ELSE 0
        /\ \A i \in 1 .. c - o + 1 : s[i] = content[o + i - 1]
    BY <1>0, <1>1, SubSeqProperties
  <2> QED
    BY <1>0, <2>1
<1> HIDE DEF s
<1>3. e \in [1 .. c - o + 1 -> o .. c]
  BY <1>0
<1>4. \A i, j \in 1 .. c - o + 1 : i < j => e[i] < e[j]
  BY <1>0
<1>5. ASSUME NEW d \in o .. c PROVE \E i \in 1 .. c - o + 1 : e[i] = d
  <2>1. d - o + 1 \in 1 .. c - o + 1 /\ o + (d - o + 1) - 1 = d
    BY <1>0
  <2> QED
    BY <2>1
<1>6. Listed(s, e, o .. c, content)
  BY <1>0, <1>2, <1>3, <1>4, <1>5 DEF Listed
<1> QED
  BY <1>2, <1>6 DEF s

(* Some places of a text left out.                                         *)
Keep(f, text, places, k) ==
  IF k = 0 THEN <<>> ELSE IF k \in places THEN f[k - 1] ELSE Append(f[k - 1], text[k])

LEMMA WithoutScan ==
  ASSUME NEW text, NEW places, Len(text) \in Nat
  PROVE  \E f : /\ f = [k \in 0 .. Len(text) |-> Keep(f, text, places, k)]
                /\ Without(text, places) = f[Len(text)]
<1> DEFINE Runs(f, n) == f = [k \in 0 .. n |-> Keep(f, text, places, k)]
           S == {n \in Nat : \E f : Runs(f, n)}
<1>1. 0 \in S
  <2> DEFINE f == [k \in 0 .. 0 |-> <<>>]
  <2>1. \A k \in 0 .. 0 : k = 0
    OBVIOUS
  <2>2. f = [k \in 0 .. 0 |-> Keep(f, text, places, k)]
    BY <2>1 DEF Keep
  <2> QED
    BY <2>2
<1>2. ASSUME NEW n \in S PROVE n + 1 \in S
  <2>1. PICK f : Runs(f, n)
    OBVIOUS
  <2> DEFINE g == [k \in 0 .. n + 1 |-> IF k = n + 1 THEN Keep(f, text, places, k) ELSE f[k]]
  <2>2. \A k \in 0 .. n : k # n + 1 /\ k \in 0 .. n + 1 /\ g[k] = f[k]
    OBVIOUS
  <2>3. \A k \in 0 .. n : f[k] = Keep(f, text, places, k)
    BY <2>1
  <2> HIDE DEF g
  <2>4. \A k \in 0 .. n + 1 : Keep(g, text, places, k) = Keep(f, text, places, k)
    <3> SUFFICES ASSUME NEW k \in 0 .. n + 1, k # 0
                 PROVE  Keep(g, text, places, k) = Keep(f, text, places, k)
      BY DEF Keep
    <3>1. k - 1 \in 0 .. n
      OBVIOUS
    <3>2. g[k - 1] = f[k - 1]
      BY <2>2, <3>1
    <3> QED
      BY <3>2 DEF Keep
  <2>5. \A k \in 0 .. n + 1 : g[k] = Keep(f, text, places, k)
    <3>1. \A k \in 0 .. n + 1 : k = n + 1 \/ k \in 0 .. n
      OBVIOUS
    <3>2. n + 1 \in 0 .. n + 1
      OBVIOUS
    <3>3. g[n + 1] = Keep(f, text, places, n + 1)
      BY <3>2 DEF g
    <3> QED
      BY <2>2, <2>3, <3>1, <3>3
  <2>6. g = [k \in 0 .. n + 1 |-> Keep(g, text, places, k)]
    BY <2>4, <2>5 DEF g
  <2> QED
    BY <2>6
<1>3. S = Nat
  <2>1. S \in SUBSET Nat
    OBVIOUS
  <2> HIDE DEF S
  <2> QED
    BY <1>1, <1>2, <2>1, Induction
<1>4. \E f : Runs(f, Len(text))
  <2>1. Len(text) \in S
    <3> HIDE DEF S
    <3> QED
      BY <1>3
  <2> QED
    BY <2>1
<1> DEFINE kept == CHOOSE f : f = [k \in 0 .. Len(text) |-> Keep(f, text, places, k)]
<1>5. kept = [k \in 0 .. Len(text) |-> Keep(kept, text, places, k)]
  BY <1>4
<1>6. Without(text, places) = kept[Len(text)]
  BY DEF Without, Keep
<1> HIDE DEF kept
<1> QED
  BY <1>5, <1>6

LEMMA WithoutLists ==
  ASSUME NEW text, NEW e, NEW D, NEW g, Listed(text, e, D, g), NEW places
  PROVE  Lists(Without(text, places), {e[i] : i \in (1 .. Len(text)) \ places}, g)
<1>0. /\ text \in Seq(Classes) /\ Len(text) \in Nat
      /\ \A i \in 1 .. Len(text) : /\ e[i] \in D /\ e[i] \in Nat
                                   /\ text[i] = g[e[i]] /\ text[i] \in Classes
  BY LenProperties, ElementOfSeq DEF Listed
<1>1. PICK f : /\ f = [k \in 0 .. Len(text) |-> Keep(f, text, places, k)]
               /\ Without(text, places) = f[Len(text)]
  BY <1>0, WithoutScan
<1> DEFINE E(k) == {e[i] : i \in (1 .. k) \ places}
           S == {n \in Nat : n <= Len(text) => Lists(f[n], E(n), g)}
<1>2. \A k \in 0 .. Len(text) : f[k] = Keep(f, text, places, k)
  BY <1>1
<1>3. 0 \in S
  <2>1. f[0] = <<>> /\ E(0) = {}
    BY <1>0, <1>2 DEF Keep
  <2>2. Lists(f[0], E(0), g)
    BY <2>1, ListedNone
  <2> QED
    BY <2>2
<1>4. ASSUME NEW n \in S PROVE n + 1 \in S
  <2> SUFFICES ASSUME n + 1 <= Len(text) PROVE Lists(f[n + 1], E(n + 1), g)
    OBVIOUS
  <2>1. Lists(f[n], E(n), g)
    BY <1>0
  <2>2. n + 1 \in 0 .. Len(text) /\ n + 1 # 0 /\ n + 1 - 1 = n /\ n + 1 \in 1 .. Len(text)
    BY <1>0
  <2>3. f[n + 1] = Keep(f, text, places, n + 1)
    BY <1>2, <2>2
  <2>4. (1 .. n + 1) \ places = IF n + 1 \in places THEN (1 .. n) \ places
                                 ELSE ((1 .. n) \ places) \cup {n + 1}
    OBVIOUS
  <2>5. CASE n + 1 \in places
    <3>1. f[n + 1] = f[n] /\ E(n + 1) = E(n)
      BY <2>2, <2>3, <2>4, <2>5 DEF Keep
    <3> QED
      BY <2>1, <3>1
  <2>6. CASE n + 1 \notin places
    <3>1. f[n + 1] = Append(f[n], text[n + 1])
      BY <2>2, <2>3, <2>6 DEF Keep
    <3>2. E(n + 1) = E(n) \cup {e[n + 1]}
      BY <2>4, <2>6
    <3>3. \A x \in E(n) : x < e[n + 1]
      <4> SUFFICES ASSUME NEW i \in (1 .. n) \ places PROVE e[i] < e[n + 1]
        OBVIOUS
      <4>1. i \in 1 .. Len(text) /\ i < n + 1
        BY <1>0, <2>2
      <4> QED
        BY <2>2, <4>1 DEF Listed
    <3>4. e[n + 1] \in Nat /\ text[n + 1] = g[e[n + 1]] /\ g[e[n + 1]] \in Classes
      BY <1>0, <2>2
    <3> HIDE DEF E
    <3>5. Lists(Append(f[n], g[e[n + 1]]), E(n) \cup {e[n + 1]}, g)
      BY <2>1, <3>3, <3>4, ListedAppend
    <3> QED
      BY <3>1, <3>2, <3>4, <3>5
  <2> QED
    BY <2>5, <2>6
<1>5. S = Nat
  <2>1. S \in SUBSET Nat
    OBVIOUS
  <2> HIDE DEF S
  <2> QED
    BY <1>3, <1>4, <2>1, Induction
<1>6. Len(text) \in S /\ Len(text) <= Len(text)
  <2> HIDE DEF S
  <2> QED
    BY <1>0, <1>5
<1>7. Lists(f[Len(text)], E(Len(text)), g)
  BY <1>6
<1> QED
  BY <1>1, <1>7

-----------------------------------------------------------------------------
(* The literals of a string, and what the pattern makes of it.             *)

LEMMA TokensApart ==
  ASSUME content \in Seq(Classes), NEW t \in Tokens, NEW u \in Tokens, t[1] < u[1]
  PROVE  t[2] <= u[1] /\ Scanned(u[1])
<1>0. /\ End \in Nat \ {0} /\ t[1] \in 1 .. End - 1 /\ u[1] \in 1 .. End - 1
      /\ u[1] \in 1 .. End
  BY Places, TokenTypes
<1> DEFINE T == {s \in 1 .. u[1] : Scanned(s)}
<1>1. T \in SUBSET (1 .. u[1]) /\ u[1] \in Nat /\ 1 \in T
  BY <1>0, ScanStart
<1>2. PICK s \in T : \A r \in T : r <= s
  <2> HIDE DEF T
  <2> QED
    BY <1>1, Greatest
<1>3. s \in 1 .. u[1] /\ Scanned(s) /\ \A r \in s + 1 .. u[1] : ~Scanned(r)
  <2>1. \A r \in s + 1 .. u[1] : r \in 1 .. u[1] /\ ~(r <= s)
    BY <1>0, <1>2
  <2> QED
    BY <1>2, <2>1
<1>4. s = u[1]
  <2> SUFFICES ASSUME s < u[1] PROVE FALSE
    BY <1>0, <1>3
  <2>1. s < End /\ s + 1 \in s + 1 .. u[1] /\ s \in Nat
    BY <1>0, <1>3
  <2>2. Opens(s)
    BY <1>3, <2>1, ScanCode
  <2> DEFINE n == Over(s)
  <2>3. /\ Scanned(n) /\ n \in s + 1 .. End
        /\ u[1] < n => u[1] < s \/ u = <<s, n>>
    BY <1>3, <2>1, <2>2, ScanToken
  <2> HIDE DEF n
  <2>4. u[1] < n
    BY <1>0, <1>3, <2>3
  <2> QED
    BY <1>0, <2>1, <2>3, <2>4
<1>5. t \notin TokensFrom[u[1]]
  BY <1>0, <1>3, <1>4, Behindhand
<1> QED
  BY <1>3, <1>4, <1>5 DEF Scanned

LEMMA ClosingWalk ==
  ASSUME content \in Seq(Classes), PlainStrings, NEW t \in Literals, NEW stop \in 1 .. End,
         t[2] <= stop
  PROVE  ClosingQuote(stop)[t[1] + 1] = ClosingQuote(stop)[t[2] - 1]
<1> DEFINE close == ClosingQuote(stop)
           last == t[2] - 1
           S == {n \in Nat : \A k \in t[1] + 1 .. last :
                   last - k <= n /\ content[k - 1] # "bs" => close[k] = close[last]}
<1>0. /\ End \in Nat \ {0} /\ stop \in Nat /\ t[1] \in 1 .. End - 1
      /\ last \in t[1] + 1 .. End - 1 /\ content[t[1]] = "q" /\ t[2] \in Nat
  BY Places, LiteralOver, LiteralPlain
<1>1. 0 \in S
  <2>1. \A k \in t[1] + 1 .. last : last - k <= 0 => k = last
    BY <1>0
  <2> HIDE DEF last
  <2> QED
    BY <2>1
<1>2. ASSUME NEW n \in S PROVE n + 1 \in S
  <2> SUFFICES ASSUME NEW k \in t[1] + 1 .. last, last - k <= n + 1, content[k - 1] # "bs"
               PROVE  close[k] = close[last]
    OBVIOUS
  <2>1. CASE k = last
    BY <2>1
  <2>2. CASE k # last
    <3>1. k \in t[1] + 1 .. t[2] - 2 /\ k < stop
      BY <1>0, <2>2
    <3>2. PICK m \in {k + 1, k + 2} :
            m \in t[1] + 1 .. last /\ content[m - 1] # "bs" /\ close[m] = close[k]
      BY <3>1, LiteralWalk
    <3> HIDE DEF close
    <3>3. last - m <= n
      BY SMTT(30), <1>0, <3>1, <3>2
    <3>4. close[m] = close[last]
      BY <3>2, <3>3
    <3> QED
      BY <3>2, <3>4
  <2> QED
    BY <2>1, <2>2
<1>3. S = Nat
  <2>1. S \in SUBSET Nat
    OBVIOUS
  <2> HIDE DEF S
  <2> QED
    BY <1>1, <1>2, <2>1, Induction
<1>4. PICK k : k = t[1] + 1
  OBVIOUS
<1>5. k \in t[1] + 1 .. last /\ last - k \in Nat /\ k - 1 = t[1]
  BY SMTT(30), <1>0, <1>4
<1>6. last - k \in S /\ last - k <= last - k
  <2> HIDE DEF S
  <2> QED
    BY <1>0, <1>3, <1>5
<1>7. content[k - 1] # "bs"
  BY <1>0, <1>5
<1>8. close[k] = close[last]
  <2> HIDE DEF last, close
  <2> QED
    BY <1>5, <1>6, <1>7
<1> QED
  BY <1>4, <1>8

(* From o to c there are the literals of T with blanks between them.       *)
Region(o, c, T) ==
  /\ T \subseteq Literals
  /\ \E t \in T : t[1] = o
  /\ \E t \in T : t[2] - 1 = c
  /\ \A t \in T : o <= t[1] /\ t[2] - 1 <= c
  /\ \A j \in o .. c : content[j] \in Blanks \/ \E t \in T : j \in Inside(t)

(* A call that is closed at c is over behind the blanks that follow.       *)
Ends(c, stop) ==
  LET next == Behind(c + 1, Blanks, stop)
  IN  next \in c + 1 .. stop - 1 /\ content[next] = "e"

LEMMA RegionIs ==
  ASSUME content \in Seq(Classes), PlainStrings, NEW stop \in 1 .. End,
         NEW k \in 1 .. End, NEW o \in 1 .. stop - 1, Skipped[k] = o,
         content[o] = "q", Scanned(o), ClosingQuote(stop)[o + 1] # 0
  PROVE  /\ Region(o, ClosingQuote(stop)[o + 1], Strings[k])
         /\ Ends(ClosingQuote(stop)[o + 1], stop)
<1>0. End \in Nat \ {0} /\ stop \in Nat
  BY Places
<1> DEFINE close == ClosingQuote(stop)
           Good(i, a) == Region(a, close[a + 1], Strings[i]) /\ Ends(close[a + 1], stop)
           S == {n \in Nat : \A i \in 1 .. End, a \in 1 .. stop - 1 :
                   /\ stop - a <= n /\ Skipped[i] = a /\ content[a] = "q"
                   /\ Scanned(a) /\ close[a + 1] # 0
                   => Good(i, a)}
<1>1. 0 \in S
  BY <1>0
<1>2. ASSUME NEW n \in S PROVE n + 1 \in S
  <2> SUFFICES ASSUME NEW i \in 1 .. End, NEW a \in 1 .. stop - 1,
                      stop - a <= n + 1, Skipped[i] = a, content[a] = "q",
                      Scanned(a), close[a + 1] # 0
               PROVE  Good(i, a)
    OBVIOUS
  <2> DEFINE t == <<a, Over(a)>>
             v == Over(a)
             next == Behind(v, Blanks, stop)
  <2>1. At(a, <<"q">>) /\ Opens(a) /\ a < End /\ a \in 1 .. End - 1
    BY <1>0, OpensAt DEF Opens
  <2>2. t \in Tokens /\ Scanned(v) /\ v \in a + 1 .. End
    BY <2>1, ScanToken
  <2>3. t \in Literals /\ t[1] = a /\ t[2] = v
    BY <2>2 DEF Literals, Comments
  <2>4. Strings[i] = {t} \cup Strings[v]
    BY <2>1, StringsScan DEF Chain
  <2>5. v <= stop /\ close[v - 1] # 0
    BY <1>0, <2>3, ClosingLiteral
  <2>6. close[a + 1] = close[v - 1]
    BY <2>3, <2>5, ClosingWalk
  <2>7. v - 1 \in 1 .. stop - 1 /\ content[v - 1] = "q" /\ v - 1 > a
    BY <1>0, <2>2, <2>3, <2>5, LiteralPlain
  <2> HIDE DEF t, v, close
  <2>8. v - 1 + 1 = v /\ v \in 2 .. stop /\ v \in a + 1 .. End /\ v \in 1 .. End
    BY <1>0, <2>2, <2>5
  <2>9. /\ next \in v .. stop - 1 /\ \A j \in v .. next - 1 : content[j] \in Blanks
        /\ \/ content[next] = "e"
           \/ content[next] = "q" /\ close[next + 1] # 0
    BY <2>5, <2>7, <2>8, ClosingNext DEF close
  <2>10. close[v - 1] = IF content[next] = "e" THEN v - 1 ELSE close[next + 1]
    <3>1. close[v - 1] = Close(close, stop, v - 1)
      <4>1. v - 1 \in 1 .. stop + 1
        BY <1>0, <2>7
      <4> QED
        BY <4>1, ClosingScan DEF close
    <3>2. v - 1 < stop /\ next # stop
      BY <1>0, <2>7, <2>9
    <3> QED
      BY <2>7, <2>8, <2>9, <3>1, <3>2 DEF Close
  <2> HIDE DEF next
  <2>11. next \in v .. End - 1 /\ content[next] \notin Blanks \cup {"bs"}
         /\ next \in 1 .. stop - 1
    BY <1>0, <2>8, <2>9 DEF Blanks
  <2>12. Skipped[v] = next
    BY <2>8, <2>9, <2>11, SkippedIs
  <2>13. CASE content[next] = "e"
    <3>1. ~At(next, <<"q">>)
      BY <1>0, <2>11, <2>13, CharactersAt
    <3>2. Strings[i] = {t}
      BY <2>4, <2>8, <2>12, <3>1, StringsScan DEF Chain
    <3>3. close[a + 1] = v - 1
      BY <2>6, <2>10, <2>13
    <3>4. Region(a, v - 1, {t})
      BY <1>0, <2>3, <2>7, <2>8 DEF Region, Inside
    <3>5. Ends(v - 1, stop)
      <4>1. Behind(v - 1 + 1, Blanks, stop) = next
        BY <2>8 DEF next
      <4> QED
        BY <2>8, <2>9, <2>13, <4>1 DEF Ends
    <3> QED
      BY <3>2, <3>3, <3>4, <3>5
  <2>14. CASE content[next] # "e"
    <3>1. next \in v .. End /\ \A j \in v .. next - 1 : content[j] \notin {"/", "q"}
      BY <1>0, <2>8, <2>9, <2>11 DEF Blanks
    <3>2. Scanned(next)
      BY <2>2, <3>1, ScannedOver
    <3>3. stop - next <= n
      BY <1>0, <2>8, <2>11
    <3>4. Good(v, next)
      BY <2>8, <2>9, <2>11, <2>12, <2>14, <3>2, <3>3
    <3>5. close[a + 1] = close[next + 1]
      BY <2>6, <2>10, <2>14
    <3> DEFINE c == close[next + 1]
    <3>6. Region(next, c, Strings[v]) /\ Ends(c, stop)
      BY <3>4
    <3>7. c \in next + 1 .. stop - 1
      <4>1. next + 1 \in 1 .. stop + 1
        BY <1>0, <2>11
      <4> QED
        BY <2>9, <2>14, <4>1, ClosingTo DEF close
    <3> HIDE DEF c, Good
    <3>8. Region(a, c, {t} \cup Strings[v])
      <4>1. \A u \in {t} \cup Strings[v] : u \in Literals
        BY <2>3, <3>6 DEF Region
      <4>2. \A u \in {t} \cup Strings[v] : a <= u[1] /\ u[2] - 1 <= c
        <5>1. \A u \in Strings[v] : next <= u[1] /\ u[2] - 1 <= c /\ u[1] \in Nat
          <6>1. \A u \in Strings[v] : u[1] \in 1 .. End - 1
            BY <4>1, LiteralOver
          <6> QED
            BY SMTT(30), <1>0, <3>6, <6>1 DEF Region
        <5> QED
          BY <1>0, <2>3, <2>8, <2>9, <3>7, <5>1
      <4>3. ASSUME NEW j \in a .. c, content[j] \notin Blanks
            PROVE  \E u \in {t} \cup Strings[v] : j \in Inside(u)
        <5>1. CASE j < v
          BY <1>0, <2>3, <2>8, <5>1 DEF Inside
        <5>2. CASE j >= v
          <6>1. j \in next .. c
            BY <1>0, <2>8, <2>9, <3>7, <4>3, <5>2
          <6> QED
            BY <3>6, <4>3, <6>1 DEF Region
        <5> QED
          BY <1>0, <2>8, <3>7, <5>1, <5>2
      <4>4. \E u \in {t} \cup Strings[v] : u[1] = a
        BY <2>3
      <4>5. \E u \in {t} \cup Strings[v] : u[2] - 1 = c
        BY <3>6 DEF Region
      <4> QED
        BY <4>1, <4>2, <4>3, <4>4, <4>5 DEF Region
    <3> QED
      BY <2>4, <3>5, <3>6, <3>8 DEF c, Good
  <2> QED
    BY <2>13, <2>14
<1>3. S = Nat
  <2>1. S \in SUBSET Nat
    OBVIOUS
  <2> HIDE DEF S
  <2> QED
    BY <1>1, <1>2, <2>1, Induction
<1>4. stop - o \in S /\ stop - o <= stop - o
  <2> HIDE DEF S
  <2> QED
    BY <1>0, <1>3
<1>5. Good(k, o)
  BY <1>4
<1> QED
  BY <1>5

(* What the reference skips.                                               *)
LEMMA SkippedOver ==
  ASSUME content \in Seq(Classes), NEW k \in 1 .. End
  PROVE  \A j \in k .. Skipped[k] - 1 : content[j] \in Blanks \cup {"bs"}
<1>0. End \in Nat \ {0}
  BY Places
<1> DEFINE Over2(i) == \A j \in i .. Skipped[i] - 1 : content[j] \in Blanks \cup {"bs"}
           S == {n \in Nat : \A i \in 1 .. End : End - i <= n => Over2(i)}
<1>1. \A i \in 1 .. End : Skipped[i] = Skip(Skipped, i) /\ Skipped[i] \in i .. End
  <2>1. \A i \in 1 .. End : i \in 1 .. End + 1
    BY <1>0
  <2> QED
    BY <2>1, SkippedScan, SkippedTo
<1>2. 0 \in S
  <2>1. \A i \in 1 .. End : End - i <= 0 => i .. Skipped[i] - 1 = {}
    BY <1>0, <1>1
  <2> QED
    BY <2>1
<1>3. ASSUME NEW n \in S PROVE n + 1 \in S
  <2> SUFFICES ASSUME NEW i \in 1 .. End, End - i <= n + 1, NEW j \in i .. Skipped[i] - 1
               PROVE  content[j] \in Blanks \cup {"bs"}
    OBVIOUS
  <2>0. i < End /\ Skipped[i] \in Nat
    BY <1>0, <1>1
  <2>1. CASE content[i] \in Blanks
    <3>1. Skipped[i] = Skipped[i + 1]
      BY <1>0, <1>1, <2>0, <2>1 DEF Skip
    <3>2. i + 1 \in 1 .. End /\ End - (i + 1) <= n
      BY <1>0, <2>0
    <3>3. Over2(i + 1)
      BY <3>2
    <3>4. j = i \/ j \in i + 1 .. Skipped[i + 1] - 1
      BY <1>0, <2>0, <3>1
    <3> QED
      BY <2>1, <3>3, <3>4
  <2>2. CASE content[i] \notin Blanks /\ At(i, <<"bs", "nl">>)
    <3>1. Skipped[i] = Skipped[i + 2]
      BY <1>0, <1>1, <2>0, <2>2 DEF Skip
    <3>2. content[i] = "bs" /\ content[i + 1] = "nl" /\ i + 1 < End
      BY <1>0, <2>2, CharactersAt
    <3>3. i + 2 \in 1 .. End /\ End - (i + 2) <= n
      BY <1>0, <2>0, <3>2
    <3>4. Over2(i + 2)
      BY <3>3
    <3>5. j = i \/ j = i + 1 \/ j \in i + 2 .. Skipped[i + 2] - 1
      BY <1>0, <2>0, <3>1
    <3> QED
      BY <3>2, <3>4, <3>5 DEF Blanks
  <2>3. CASE content[i] \notin Blanks /\ ~At(i, <<"bs", "nl">>)
    <3>1. Skipped[i] = i
      BY <1>0, <1>1, <2>0, <2>3 DEF Skip
    <3> QED
      BY <1>0, <3>1
  <2> QED
    BY <2>1, <2>2, <2>3
<1>4. S = Nat
  <2>1. S \in SUBSET Nat
    OBVIOUS
  <2> HIDE DEF S
  <2> QED
    BY <1>2, <1>3, <2>1, Induction
<1>5. End - k \in S /\ End - k <= End - k
  <2> HIDE DEF S
  <2> QED
    BY <1>0, <1>4
<1>6. Over2(k)
  BY <1>5
<1> QED
  BY <1>6

LEMMA BehindAt ==
  ASSUME content \in Seq(Classes), NEW stop \in 1 .. End, NEW n \in 1 .. stop - 1,
         NEW k \in 1 .. n, NEW chars,
         \A j \in k .. n - 1 : content[j] \in chars, content[n] \notin chars
  PROVE  Behind(k, chars, stop) = n
<1>0. End \in Nat /\ stop \in Nat /\ n \in Nat /\ k \in 1 .. stop
  BY Places
<1> DEFINE b == Behind(k, chars, stop)
<1>1. /\ b \in k .. stop /\ \A j \in k .. b - 1 : content[j] \in chars
      /\ b < stop => content[b] \notin chars
  BY <1>0, BehindIs
<1> HIDE DEF b
<1>2. ~(b < n)
  <2>1. b < n => b \in k .. n - 1 /\ b < stop
    BY <1>0, <1>1
  <2> QED
    BY <1>1, <2>1
<1>3. ~(n < b)
  <2>1. n < b => n \in k .. b - 1
    BY <1>0, <1>1
  <2> QED
    BY <1>1, <2>1
<1>4. b = n
  BY <1>0, <1>1, <1>2, <1>3
<1> QED
  BY <1>4 DEF b

(* The literals behind k, which no continued line separates, are followed  *)
(* by the end of the call in front of stop.                                *)
InSight(k, stop) ==
  /\ \A t \in Strings[k] : \A j \in t[2] .. Skipped[t[2]] - 1 : content[j] # "bs"
  /\ \E t \in Strings[k] : /\ At(Skipped[t[2]], <<"e">>)
                           /\ Skipped[t[2]] < stop \/ stop = End

LEMMA InSightCloses ==
  ASSUME content \in Seq(Classes), PlainStrings, NEW stop \in 1 .. End,
         NEW k \in 1 .. End, Scanned(Skipped[k]), InSight(k, stop)
  PROVE  /\ Skipped[k] < stop /\ content[Skipped[k]] = "q"
         /\ ClosingQuote(stop)[Skipped[k] + 1] # 0
<1>0. End \in Nat \ {0} /\ stop \in Nat
  BY Places
<1> DEFINE close == ClosingQuote(stop)
           Good(i) == /\ Skipped[i] < stop /\ content[Skipped[i]] = "q"
                      /\ close[Skipped[i] + 1] # 0
           S == {n \in Nat : \A i \in 1 .. End :
                   End - i <= n /\ Scanned(Skipped[i]) /\ InSight(i, stop) => Good(i)}
<1>1. ASSUME NEW i \in 1 .. End, Strings[i] # {}
      PROVE  /\ At(Skipped[i], <<"q">>) /\ Skipped[i] \in i .. End - 1
             /\ content[Skipped[i]] = "q" /\ Opens(Skipped[i])
             /\ Strings[i] = {<<Skipped[i], Over(Skipped[i])>>} \cup Strings[Over(Skipped[i])]
  <2>1. Strings[i] = Chain(Strings, i)
    BY StringsScan
  <2>2. At(Skipped[i], <<"q">>)
    BY <1>1, <2>1 DEF Chain
  <2>3. Skipped[i] \in i .. End /\ Skipped[i] \in Nat \ {0}
    BY <1>0, SkippedTo
  <2>4. Skipped[i] < End /\ content[Skipped[i]] = "q"
    BY <2>2, <2>3, CharactersAt
  <2>5. Opens(Skipped[i])
    BY <2>2 DEF Opens
  <2> QED
    BY <1>0, <2>1, <2>2, <2>3, <2>4, <2>5 DEF Chain
<1>2. 0 \in S
  <2> SUFFICES ASSUME NEW i \in 1 .. End, End - i <= 0, InSight(i, stop) PROVE FALSE
    OBVIOUS
  <2>1. Strings[i] # {}
    BY DEF InSight
  <2>2. Skipped[i] \in i .. End - 1
    BY <1>1, <2>1
  <2> QED
    BY <1>0, <2>2
<1>3. ASSUME NEW n \in S PROVE n + 1 \in S
  <2> SUFFICES ASSUME NEW i \in 1 .. End, End - i <= n + 1,
                      Scanned(Skipped[i]), InSight(i, stop)
               PROVE  Good(i)
    OBVIOUS
  <2> DEFINE a == Skipped[i]
             v == Over(a)
             t == <<a, v>>
             next == Skipped[v]
  <2>1. /\ a \in i .. End - 1 /\ content[a] = "q" /\ Opens(a)
        /\ Strings[i] = {t} \cup Strings[v] /\ Scanned(a)
    <3>1. Strings[i] # {}
      BY DEF InSight
    <3> QED
      BY <1>1, <3>1
  <2> HIDE DEF a
  <2>2. a < End /\ a \in 1 .. End - 1
    BY <1>0, <2>1
  <2>3. Scanned(v) /\ v \in a + 1 .. End /\ t \in Tokens
    BY <2>1, <2>2, ScanToken
  <2>4. t \in Literals /\ t[1] = a /\ t[2] = v
    BY <2>1, <2>3 DEF Literals, Comments
  <2> HIDE DEF v, t
  <2>5. v \in 1 .. End /\ v - 1 \in a + 1 .. End - 1 /\ content[v - 1] = "q"
    BY <1>0, <2>2, <2>3, <2>4, LiteralPlain
  <2>6. /\ next \in v .. End
        /\ \A j \in v .. next - 1 : content[j] \in Blanks
    <3>1. \A j \in v .. next - 1 : content[j] \in Blanks \cup {"bs"} /\ content[j] # "bs"
      BY <2>1, <2>4, <2>5, SkippedOver DEF InSight
    <3> QED
      BY <2>5, <3>1, SkippedTo
  <2> HIDE DEF next
  <2>7. Scanned(next)
    <3>1. \A j \in v .. next - 1 : content[j] \notin {"/", "q"}
      BY <2>6 DEF Blanks
    <3> QED
      BY <2>3, <2>6, <3>1, ScannedOver
  <2>8. /\ next < stop
        /\ \/ content[next] = "e"
           \/ content[next] = "q" /\ close[next + 1] # 0
    <3>1. PICK u \in Strings[i] : /\ At(Skipped[u[2]], <<"e">>)
                                  /\ Skipped[u[2]] < stop \/ stop = End
      BY DEF InSight
    <3>2. CASE u = t
      <4>1. /\ At(next, <<"e">>) /\ next \in Nat \ {0}
            /\ next < stop \/ stop = End
        BY <1>0, <2>4, <2>5, <2>6, <3>1, <3>2 DEF next
      <4>2. next < End /\ content[next] = "e"
        BY <4>1, CharactersAt
      <4> QED
        BY <4>1, <4>2
    <3>3. CASE u \in Strings[v]
      <4>1. InSight(v, stop)
        BY <2>1, <3>1, <3>3 DEF InSight
      <4>2. End - v <= n
        BY <1>0, <2>1, <2>3, <2>5
      <4>3. Good(v)
        BY <2>5, <2>7, <4>1, <4>2 DEF next
      <4> QED
        BY <4>3 DEF next
    <3> QED
      BY <2>1, <3>1, <3>2, <3>3
  <2>9. Behind(v - 1 + 1, Blanks, stop) = next
    <3>1. next \in 1 .. stop - 1 /\ v \in 1 .. next /\ v - 1 + 1 = v
      BY <1>0, <2>5, <2>6, <2>8
    <3>2. content[next] \notin Blanks
      BY <2>8 DEF Blanks
    <3> QED
      BY <2>6, <3>1, <3>2, BehindAt
  <2>10. close[v - 1] # 0
    <3>1. v - 1 \in 1 .. stop + 1 /\ v - 1 < stop /\ v - 1 # 0 /\ v - 1 \in Nat
      BY <1>0, <2>2, <2>5, <2>6, <2>8
    <3>2. close[v - 1] = Close(close, stop, v - 1)
      BY <3>1, ClosingScan
    <3> HIDE DEF close
    <3>3. next # stop
      BY <2>6, <2>8
    <3> QED
      BY <1>0, <2>5, <2>8, <2>9, <3>1, <3>2, <3>3 DEF Close
  <2>11. v <= stop /\ a < stop
    BY <1>0, <2>2, <2>5, <2>6, <2>8
  <2>12. close[a + 1] = close[v - 1]
    BY <2>4, <2>11, ClosingWalk
  <2> HIDE DEF close
  <2>13. a < stop /\ content[a] = "q" /\ close[a + 1] # 0
    BY <2>1, <2>10, <2>11, <2>12
  <2> QED
    BY <2>13 DEF a
<1>4. S = Nat
  <2>1. S \in SUBSET Nat
    OBVIOUS
  <2> HIDE DEF S
  <2> QED
    BY <1>2, <1>3, <2>1, Induction
<1>5. End - k \in S /\ End - k <= End - k
  <2> HIDE DEF S
  <2> QED
    BY <1>0, <1>4
<1>6. Good(k)
  BY <1>5
<1> QED
  BY <1>6

LEMMA ScannedOutside ==
  ASSUME content \in Seq(Classes), NEW k \in 1 .. End, \A t \in Tokens : k \notin Inside(t)
  PROVE  Scanned(k)
<1>1. ASSUME NEW t \in Tokens, t[1] < k PROVE t[2] <= k
  <2>1. t[1] \in 1 .. End - 1 /\ t[2] \in t[1] + 1 .. End /\ End \in Nat
    BY Places, TokenTypes
  <2> QED
    BY <1>1, <2>1 DEF Inside
<1> QED
  BY <1>1, ScannedAt

(* A call that can be seen is matched in every part that it is wholly in,  *)
(* with its own string.                                                    *)
LEMMA CallStands ==
  ASSUME content \in Seq(Classes), PlainStrings, NEW k \in 1 .. End - 1,
         IsCall(k), Visible(k)
  PROVE  \E c \in k + 2 .. End - 1, last \in k + 3 .. End - 1 :
           /\ Region(Skipped[k + 1], c, Strings[k + 1])
           /\ Skipped[k + 1] \in k + 1 .. c - 1
           /\ \A j \in k + 1 .. Skipped[k + 1] - 1 : content[j] \in Blanks \cup {"bs"}
           /\ c < last /\ \A j \in c + 1 .. last - 1 : content[j] \in Blanks
           /\ content[last] = "e" /\ ~LineOpens(last + 1)
           /\ \A stop \in last + 1 .. End :
                /\ Opening(k, stop) = Skipped[k + 1] /\ Matches(k, stop)
                /\ Region(Skipped[k + 1], ClosingQuote(stop)[Skipped[k + 1] + 1],
                          Strings[k + 1])
<1> DEFINE o == Skipped[k + 1]
<1>0. End \in Nat \ {0} /\ k + 1 \in 1 .. End /\ k \in 1 .. End /\ k \in Nat
  BY Places
<1>1. /\ content[k] = "L" /\ Strings[k + 1] # {}
      /\ \E t \in Strings[k + 1] : At(Skipped[t[2]], <<"e">>)
      /\ \A t \in Tokens : k \notin Inside(t)
  BY DEF IsCall
<1>2. o \in k + 1 .. End /\ \A j \in k + 1 .. o - 1 : content[j] \in Blanks \cup {"bs"}
  BY <1>0, SkippedTo, SkippedOver
<1> HIDE DEF o
<1>3. Scanned(o)
  <2>1. Scanned(k)
    BY <1>0, <1>1, ScannedOutside
  <2>2. o \in k .. End /\ \A j \in k .. o - 1 : j = k \/ j \in k + 1 .. o - 1
    BY <1>0, <1>2
  <2>3. \A j \in k .. o - 1 : content[j] \notin {"/", "q"}
    BY <1>1, <1>2, <2>2 DEF Blanks
  <2> QED
    BY <2>1, <2>2, <2>3, ScannedOver
<1>4. \A t \in Strings[k + 1] :
        /\ \A j \in t[2] .. Skipped[t[2]] - 1 : content[j] # "bs"
        /\ At(Skipped[t[2]], <<"e">>) => ~LineOpens(Skipped[t[2]] + 1)
  BY DEF Visible
<1>5. ASSUME NEW stop \in 1 .. End,
             \E t \in Strings[k + 1] : /\ At(Skipped[t[2]], <<"e">>)
                                       /\ Skipped[t[2]] < stop \/ stop = End
      PROVE  /\ o \in 1 .. stop - 1 /\ content[o] = "q" /\ ClosingQuote(stop)[o + 1] # 0
             /\ Region(o, ClosingQuote(stop)[o + 1], Strings[k + 1])
             /\ Ends(ClosingQuote(stop)[o + 1], stop)
             /\ Opening(k, stop) = o /\ Matches(k, stop)
  <2>1. InSight(k + 1, stop)
    BY <1>4, <1>5 DEF InSight
  <2>2. o < stop /\ content[o] = "q" /\ ClosingQuote(stop)[o + 1] # 0
    BY <1>0, <1>3, <2>1, InSightCloses DEF o
  <2>3. o \in 1 .. stop - 1 /\ k + 1 \in 1 .. o
    BY <1>0, <1>2, <2>2
  <2>4. /\ Region(o, ClosingQuote(stop)[o + 1], Strings[k + 1])
        /\ Ends(ClosingQuote(stop)[o + 1], stop)
    BY <1>0, <1>3, <2>2, <2>3, RegionIs DEF o
  <2>5. Opening(k, stop) = o
    <3>1. content[o] \notin Blanks \cup {"bs"}
      BY <2>2 DEF Blanks
    <3> QED
      BY <1>2, <2>3, <3>1, BehindAt DEF Opening
  <2>6. Matches(k, stop)
    BY <1>1, <2>2, <2>5 DEF Matches
  <2> QED
    BY <2>2, <2>3, <2>4, <2>5, <2>6
<1> DEFINE c == ClosingQuote(End)[o + 1]
           last == Behind(c + 1, Blanks, End)
<1>7. /\ o \in 1 .. End - 1 /\ content[o] = "q" /\ c # 0
      /\ Region(o, c, Strings[k + 1]) /\ Ends(c, End)
  <2>1. End \in 1 .. End
    BY <1>0
  <2> QED
    BY <1>1, <1>5, <2>1
<1>8. c \in o + 1 .. End - 1
  <2>1. o + 1 \in 1 .. End + 1 /\ End \in 1 .. End
    BY <1>0, <1>7
  <2> QED
    BY <1>7, <2>1, ClosingTo
<1> HIDE DEF c
<1>9. /\ last \in c + 1 .. End - 1 /\ content[last] = "e"
      /\ \A j \in c + 1 .. last - 1 : content[j] \in Blanks
  <2>1. last \in c + 1 .. End - 1 /\ content[last] = "e"
    BY <1>7 DEF Ends
  <2>2. c + 1 \in 1 .. End /\ End \in 1 .. End
    BY <1>0, <1>7, <1>8
  <2> QED
    BY <2>1, <2>2, BehindIs
<1> HIDE DEF last
<1>10. PICK t \in Strings[k + 1] : t[2] - 1 = c
  BY <1>7 DEF Region
<1>11. Skipped[t[2]] = last /\ At(last, <<"e">>) /\ ~LineOpens(last + 1)
  <2>1. t[2] \in Nat
    BY <1>7, <1>10, LiteralOver, Places DEF Region
  <2>2. /\ t[2] = c + 1 /\ c + 1 \in 1 .. End /\ last \in c + 1 .. End - 1
        /\ last \in Nat \ {0}
    BY <1>0, <1>7, <1>8, <1>9, <1>10, <2>1
  <2>3. content[last] \notin Blanks \cup {"bs"}
    BY <1>9 DEF Blanks
  <2>4. Skipped[c + 1] = last
    BY <1>9, <2>2, <2>3, SkippedIs
  <2>5. At(last, <<"e">>)
    BY <1>0, <1>9, <2>2, CharactersAt
  <2> QED
    BY <1>4, <2>2, <2>4, <2>5
<1>12. ASSUME NEW stop \in last + 1 .. End
       PROVE  /\ Opening(k, stop) = o /\ Matches(k, stop)
              /\ Region(o, ClosingQuote(stop)[o + 1], Strings[k + 1])
  <2>1. stop \in 1 .. End /\ last < stop
    BY <1>0, <1>8, <1>9, <1>7
  <2> QED
    BY <1>5, <1>10, <1>11, <2>1
<1>13. c \in k + 2 .. End - 1 /\ last \in k + 3 .. End - 1 /\ o \in k + 1 .. c - 1 /\ c < last
  BY <1>0, <1>2, <1>7, <1>8, <1>9
<1> QED
  BY <1>2, <1>7, <1>9, <1>11, <1>12, <1>13 DEF o

-----------------------------------------------------------------------------
(* What SimplifyMultilineString makes of such a string.                    *)

(* A continued line: the backslash and the newline behind it.              *)
Broken(p) == At(p, <<"bs", "nl">>) \/ (p > 1 /\ At(p - 1, <<"bs", "nl">>))

Kept(o, c)   == {p \in o .. c : ~Broken(p)}
Quoted(T)    == UNION {t[1] + 1 .. t[2] - 2 : t \in T}
Delimiter(T, p) == \E t \in T : p = t[1] \/ p = t[2] - 1
Within(T, p)    == \E t \in T : t[1] < p /\ p <= t[2] - 1

(* The literals do not overlap, and none of their quotes is left out.      *)
LEMMA RegionLaid ==
  ASSUME content \in Seq(Classes), PlainStrings, NEW o \in 1 .. End - 1, NEW c \in o .. End - 1,
         NEW T, Region(o, c, T)
  PROVE  /\ \A t \in T : /\ t \in Literals /\ t[1] \in Nat /\ t[2] \in Nat
                         /\ o <= t[1] /\ t[1] < t[2] - 1 /\ t[2] - 1 <= c
                         /\ content[t[1]] = "q" /\ content[t[2] - 1] = "q"
                         /\ t[1] \in Kept(o, c) /\ t[2] - 1 \in Kept(o, c)
         /\ \A t, u \in T : t = u \/ t[2] <= u[1] \/ u[2] <= t[1]
         /\ o \in Kept(o, c) /\ c \in Kept(o, c) /\ content[o] = "q"
<1>0. End \in Nat \ {0} /\ o \in Nat \ {0} /\ c \in Nat
  BY Places
<1>1. ASSUME NEW p \in o .. c, content[p] = "q" PROVE p \in Kept(o, c)
  <2>1. p \in Nat \ {0} /\ p < End
    BY <1>0
  <2>2. ~At(p, <<"bs", "nl">>)
    BY <1>1, <2>1, CharactersAt
  <2>3. p > 1 => ~At(p - 1, <<"bs", "nl">>)
    <3> SUFFICES ASSUME p > 1 PROVE ~At(p - 1, <<"bs", "nl">>)
      OBVIOUS
    <3>1. p - 1 \in Nat \ {0} /\ p - 1 + 1 = p
      BY <2>1
    <3> QED
      BY <1>1, <3>1, CharactersAt
  <2> QED
    BY <2>2, <2>3 DEF Kept, Broken
<1>2. ASSUME NEW t \in T
      PROVE  /\ t \in Literals /\ t[1] \in Nat /\ t[2] \in Nat
             /\ o <= t[1] /\ t[1] < t[2] - 1 /\ t[2] - 1 <= c
             /\ content[t[1]] = "q" /\ content[t[2] - 1] = "q"
             /\ t = <<t[1], Over(t[1])>>
  <2>1. t \in Literals /\ o <= t[1] /\ t[2] - 1 <= c
    BY DEF Region
  <2> QED
    BY <1>0, <2>1, LiteralOver, LiteralPlain
<1>3. ASSUME NEW t \in T PROVE t[1] \in Kept(o, c) /\ t[2] - 1 \in Kept(o, c)
  <2>1. t[1] \in o .. c /\ t[2] - 1 \in o .. c
    BY <1>0, <1>2
  <2> QED
    BY <1>1, <1>2, <2>1
<1>4. ASSUME NEW t \in T, NEW u \in T PROVE t = u \/ t[2] <= u[1] \/ u[2] <= t[1]
  <2>1. t \in Tokens /\ u \in Tokens
    BY <1>2 DEF Literals
  <2>2. CASE t[1] = u[1]
    BY <1>2, <2>2
  <2>3. CASE t[1] < u[1]
    BY <2>1, <2>3, TokensApart
  <2>4. CASE u[1] < t[1]
    BY <2>1, <2>4, TokensApart
  <2> QED
    BY <1>2, <2>2, <2>3, <2>4
<1>5. (\E t \in T : t[1] = o) /\ (\E t \in T : t[2] - 1 = c)
  BY DEF Region
<1> QED
  BY <1>2, <1>3, <1>4, <1>5

(* Where the last newline of the blanks behind k is.                       *)
LEMMA LastBreakIs ==
  ASSUME NEW text, Len(text) \in Nat, NEW k \in 1 .. Len(text), NEW b, b = LastBreak(text, k)
  PROVE  /\ b \in k .. Len(text)
         /\ b > k => text[b] = "nl" /\ \A i \in k + 1 .. b : text[i] \in Blanks
         /\ k < Len(text) /\ text[k + 1] = "nl" => b > k
<1> DEFINE breaks == {j \in k + 1 .. Len(text) :
                        text[j] = "nl" /\ \A i \in k + 1 .. j : text[i] \in Blanks}
<1>1. b = IF breaks = {} THEN k ELSE CHOOSE j \in breaks : \A i \in breaks : i <= j
  BY DEF LastBreak
<1>2. breaks \in SUBSET (1 .. Len(text))
  OBVIOUS
<1>3. k < Len(text) /\ text[k + 1] = "nl" => k + 1 \in breaks
  BY DEF Blanks
<1>4. breaks # {} => b \in breaks
  <2> HIDE DEF breaks
  <2> QED
    BY <1>1, <1>2, Greatest
<1>5. CASE breaks = {}
  BY <1>1, <1>3, <1>5
<1>6. CASE breaks # {}
  BY <1>4, <1>6
<1> QED
  BY <1>5, <1>6

LEMMA ContinuationsAre ==
  ASSUME content \in Seq(Classes), PlainStrings, NEW o \in 1 .. End - 1, NEW c \in o .. End - 1,
         NEW T, Region(o, c, T), NEW i \in 1 .. c - o + 1
  PROVE  i \in Continuations(SubSeq(content, o, c)) <=> Broken(o + i - 1)
<1> DEFINE s == SubSeq(content, o, c)
<1>0. End \in Nat \ {0} /\ o \in Nat \ {0} /\ c \in Nat /\ c - o + 1 \in Nat
  BY Places
<1>1. Len(s) = c - o + 1 /\ \A j \in 1 .. c - o + 1 : s[j] = content[o + j - 1]
  BY ListedPart DEF Listed
<1>2. DOMAIN s = 1 .. c - o + 1
  <2>1. s \in Seq(Classes)
    BY ListedPart DEF Listed
  <2> QED
    BY <1>1, <2>1, LenProperties
<1> HIDE DEF s
<1>3. ASSUME NEW p \in o .. c, content[p] = "bs"
      PROVE  /\ p + 1 \in o .. c /\ p \in Nat \ {0}
             /\ \A b \in p + 2 .. End - 1 :
                  ~(content[b] = "nl" /\ \A j \in p + 1 .. b : content[j] \in Blanks)
  <2>1. PICK t \in T : p \in Inside(t)
    BY <1>3 DEF Region, Blanks
  <2>2. t \in Literals /\ t[2] \in Nat /\ t[1] \in Nat /\ t[2] - 1 <= c
    BY <2>1, RegionLaid
  <2>3. p \in t[1] .. t[2] - 1
    BY <2>1 DEF Inside
  <2>4. /\ p \in t[1] + 1 .. t[2] - 3
        /\ \A b \in p + 2 .. End - 1 :
             ~(content[b] = "nl" /\ \A j \in p + 1 .. b : content[j] \in Blanks)
    BY <1>3, <2>2, <2>3, BackslashIn
  <2> QED
    BY <1>0, <2>2, <2>4
<1>4. ASSUME NEW k \in 1 .. c - o + 1, s[k] = "bs", NEW b, b = LastBreak(s, k)
      PROVE  /\ b > k => b = k + 1 /\ At(o + k - 1, <<"bs", "nl">>)
             /\ At(o + k - 1, <<"bs", "nl">>) => b = k + 1 /\ k + 1 \in 1 .. c - o + 1
  <2>1. /\ b \in k .. c - o + 1
        /\ b > k => s[b] = "nl" /\ \A j \in k + 1 .. b : s[j] \in Blanks
        /\ k < c - o + 1 /\ s[k + 1] = "nl" => b > k
    BY <1>0, <1>1, <1>4, LastBreakIs
  <2> DEFINE p == o + k - 1
  <2>2. p \in o .. c /\ content[p] = "bs" /\ p \in Nat \ {0}
    BY <1>0, <1>1, <1>4
  <2>3. p + 1 \in o .. c /\ p + 1 = o + (k + 1) - 1 /\ k + 1 \in 1 .. c - o + 1
    BY <1>0, <1>3, <2>2
  <2>4. s[k + 1] = content[p + 1]
    BY <1>1, <2>3
  <2>5. ASSUME b > k PROVE b = k + 1
    <3> SUFFICES ASSUME b # k + 1 PROVE FALSE
      OBVIOUS
    <3> DEFINE d == o + b - 1
    <3>1. d \in p + 2 .. End - 1 /\ b \in 1 .. c - o + 1
      BY <1>0, <2>1, <2>5
    <3>2. content[d] = "nl"
      BY <1>1, <2>1, <2>5, <3>1
    <3>3. ASSUME NEW j \in p + 1 .. d PROVE content[j] \in Blanks
      <4>1. j - o + 1 \in k + 1 .. b /\ o + (j - o + 1) - 1 = j /\ j - o + 1 \in 1 .. c - o + 1
        BY <1>0, <2>1
      <4>2. s[j - o + 1] = content[o + (j - o + 1) - 1]
        BY <1>1, <4>1
      <4> QED
        BY <2>1, <2>5, <4>1, <4>2
    <3> HIDE DEF d, p
    <3> QED
      BY <1>3, <2>2, <3>1, <3>2, <3>3
  <2>6. p + 1 < End
    BY <1>0, <2>3
  <2> HIDE DEF p
  <2>7. At(p, <<"bs", "nl">>) <=> content[p + 1] = "nl"
    BY <2>2, <2>6, CharactersAt
  <2> QED
    BY <1>0, <2>1, <2>3, <2>4, <2>5, <2>7 DEF p
<1>5. ASSUME i \in Continuations(s) PROVE Broken(o + i - 1)
  <2>1. PICK k \in DOMAIN s : s[k] = "bs" /\ LastBreak(s, k) > k /\ i \in k .. LastBreak(s, k)
    BY <1>5 DEF Continuations
  <2>2. k \in 1 .. c - o + 1
    BY <1>2
  <2>3. LastBreak(s, k) = k + 1 /\ At(o + k - 1, <<"bs", "nl">>)
    BY <1>4, <2>1, <2>2
  <2>4. CASE i = k
    BY <2>3, <2>4 DEF Broken
  <2>5. CASE i = k + 1
    <3>1. o + i - 1 > 1 /\ o + i - 1 - 1 = o + k - 1
      BY <1>0, <2>2, <2>5
    <3> QED
      BY <2>3, <3>1 DEF Broken
  <2>6. i \in k .. k + 1 /\ i \in Nat /\ k \in Nat
    BY <2>1, <2>2, <2>3
  <2>7. i = k \/ i = k + 1
    BY <2>6
  <2> QED
    BY <2>4, <2>5, <2>7
<1>6. ASSUME NEW k \in 1 .. c - o + 1, At(o + k - 1, <<"bs", "nl">>), i = k \/ i = k + 1
      PROVE  i \in Continuations(s)
  <2>1. o + k - 1 \in Nat \ {0}
    BY <1>0
  <2>2. s[k] = "bs"
    BY <1>1, <1>6, <2>1, CharactersAt
  <2>3. LastBreak(s, k) = k + 1
    BY <1>4, <1>6, <2>2
  <2>4. k \in Nat /\ i \in k .. LastBreak(s, k) /\ LastBreak(s, k) > k /\ k \in DOMAIN s
    BY <1>2, <1>6, <2>3
  <2> QED
    BY <2>2, <2>4 DEF Continuations
<1>7. ASSUME o + i - 1 > 1, At(o + i - 1 - 1, <<"bs", "nl">>) PROVE i \in Continuations(s)
  <2>1. i # 1
    <3> SUFFICES ASSUME i = 1 PROVE FALSE
      OBVIOUS
    <3>1. o - 1 \in Nat \ {0} /\ o - 1 + 1 = o /\ o + i - 1 - 1 = o - 1
      BY <1>0, <1>7
    <3>2. content[o] = "nl"
      BY <1>7, <3>1, CharactersAt
    <3> QED
      BY <3>2, RegionLaid
  <2>2. i - 1 \in 1 .. c - o + 1 /\ o + (i - 1) - 1 = o + i - 1 - 1 /\ i = i - 1 + 1
    BY <1>0, <2>1
  <2> QED
    BY <1>6, <1>7, <2>2
<1>8. At(o + i - 1, <<"bs", "nl">>) => i \in Continuations(s)
  BY <1>6
<1> QED
  BY <1>5, <1>7, <1>8 DEF Broken, s

LEMMA KeptListed ==
  ASSUME content \in Seq(Classes), PlainStrings, NEW o \in 1 .. End - 1, NEW c \in o .. End - 1,
         NEW T, Region(o, c, T)
  PROVE  Lists(Without(SubSeq(content, o, c), Continuations(SubSeq(content, o, c))),
               Kept(o, c), content)
<1> DEFINE s == SubSeq(content, o, c)
           e == [i \in 1 .. c - o + 1 |-> o + i - 1]
<1>0. End \in Nat \ {0} /\ o \in Nat \ {0} /\ c \in Nat /\ c - o + 1 \in Nat
  BY Places
<1>1. Len(s) = c - o + 1 /\ Listed(s, e, o .. c, content)
  BY ListedPart
<1>2. \A i \in 1 .. c - o + 1 : /\ e[i] = o + i - 1 /\ e[i] \in o .. c
                                /\ i \in Continuations(s) <=> Broken(e[i])
  BY <1>0, ContinuationsAre
<1>3. \A p \in o .. c : p - o + 1 \in 1 .. c - o + 1 /\ e[p - o + 1] = p
  BY <1>0
<1> HIDE DEF s, e
<1>4. {e[i] : i \in (1 .. Len(s)) \ Continuations(s)} = Kept(o, c)
  <2>1. ASSUME NEW i \in (1 .. Len(s)) \ Continuations(s) PROVE e[i] \in Kept(o, c)
    BY <1>1, <1>2 DEF Kept
  <2>2. ASSUME NEW p \in Kept(o, c)
        PROVE  \E i \in (1 .. Len(s)) \ Continuations(s) : e[i] = p
    <3>1. p \in o .. c /\ ~Broken(p)
      BY DEF Kept
    <3>2. p - o + 1 \in 1 .. c - o + 1 /\ e[p - o + 1] = p
      BY <1>3, <3>1
    <3>3. p - o + 1 \in (1 .. Len(s)) \ Continuations(s)
      BY <1>1, <1>2, <3>1, <3>2
    <3> QED
      BY <3>2, <3>3
  <2> QED
    BY <2>1, <2>2
<1>5. Lists(Without(s, Continuations(s)), {e[i] : i \in (1 .. Len(s)) \ Continuations(s)}, content)
  BY <1>1, WithoutLists
<1> QED
  BY <1>4, <1>5 DEF s

(* Two places of a text next to each other.                                *)
LEMMA ListedNext ==
  ASSUME NEW s, NEW e, NEW D, NEW g, Listed(s, e, D, g)
  PROVE  /\ Len(s) \in Nat
         /\ \A i \in 1 .. Len(s) : e[i] \in D /\ e[i] \in Nat /\ s[i] = g[e[i]]
         /\ \A i \in 1 .. Len(s) - 1 :
              /\ i \in 1 .. Len(s) /\ i + 1 \in 1 .. Len(s) /\ e[i] < e[i + 1]
              /\ \A d \in D : d <= e[i] \/ e[i + 1] <= d
         /\ \A d \in D : 1 <= Len(s) /\ e[1] <= d /\ d <= e[Len(s)]
<1>0. /\ Len(s) \in Nat
      /\ \A i \in 1 .. Len(s) : e[i] \in D /\ e[i] \in Nat /\ s[i] = g[e[i]]
      /\ \A i, j \in 1 .. Len(s) : i < j => e[i] < e[j]
      /\ \A d \in D : \E i \in 1 .. Len(s) : e[i] = d
  BY LenProperties DEF Listed
<1>1. ASSUME NEW i \in 1 .. Len(s) - 1
      PROVE  i \in 1 .. Len(s) /\ i + 1 \in 1 .. Len(s) /\ e[i] < e[i + 1]
  <2>1. i \in 1 .. Len(s) /\ i + 1 \in 1 .. Len(s) /\ i < i + 1
    BY <1>0
  <2> QED
    BY <1>0, <2>1
<1>2. ASSUME NEW i \in 1 .. Len(s) - 1, NEW d \in D PROVE d <= e[i] \/ e[i + 1] <= d
  <2>1. PICK j \in 1 .. Len(s) : e[j] = d
    BY <1>0
  <2>2. j = i \/ j = i + 1 \/ j < i \/ i + 1 < j
    BY <1>0
  <2>3. /\ e[i] \in Nat /\ e[i + 1] \in Nat /\ e[j] \in Nat
        /\ j < i => e[j] < e[i]
        /\ i + 1 < j => e[i + 1] < e[j]
    BY <1>0, <1>1
  <2> QED
    BY <2>1, <2>2, <2>3
<1>3. ASSUME NEW d \in D PROVE 1 <= Len(s) /\ e[1] <= d /\ d <= e[Len(s)]
  <2>1. PICK j \in 1 .. Len(s) : e[j] = d
    BY <1>0
  <2>2. 1 \in 1 .. Len(s) /\ Len(s) \in 1 .. Len(s) /\ 1 <= Len(s)
    BY <1>0
  <2>3. (j = 1 \/ 1 < j) /\ (j = Len(s) \/ j < Len(s))
    BY <1>0
  <2>4. e[1] \in Nat /\ e[Len(s)] \in Nat /\ e[j] \in Nat
    BY <1>0, <2>2
  <2>5. (1 < j => e[1] < e[j]) /\ (j < Len(s) => e[j] < e[Len(s)])
    BY <1>0, <2>2
  <2> QED
    BY <2>1, <2>2, <2>3, <2>4, <2>5
<1> QED
  BY <1>0, <1>1, <1>2, <1>3

(* A quote is in front of or behind a literal, or a backslash is before it.*)
LEMMA DelimiterIs ==
  ASSUME content \in Seq(Classes), PlainStrings, NEW o \in 1 .. End - 1, NEW c \in o .. End - 1,
         NEW T, Region(o, c, T), NEW q \in Kept(o, c), NEW p \in Kept(o, c), q < p,
         \A d \in Kept(o, c) : d <= q \/ p <= d
  PROVE  content[p] = "q" /\ content[q] # "bs" <=> Delimiter(T, p)
<1>0. /\ End \in Nat \ {0} /\ o \in Nat \ {0} /\ c \in Nat /\ q \in o .. c /\ p \in o .. c
      /\ q \in Nat \ {0} /\ p \in Nat \ {0} /\ ~Broken(q) /\ ~Broken(p)
  BY Places DEF Kept
<1>1. /\ \A t \in T : /\ t \in Literals /\ t[1] \in Nat /\ t[2] \in Nat
                      /\ o <= t[1] /\ t[1] < t[2] - 1 /\ t[2] - 1 <= c
                      /\ content[t[1]] = "q" /\ content[t[2] - 1] = "q"
                      /\ t[1] \in Kept(o, c) /\ t[2] - 1 \in Kept(o, c)
      /\ \A t, u \in T : t = u \/ t[2] <= u[1] \/ u[2] <= t[1]
  BY RegionLaid
<1>2. ASSUME NEW x \in o .. c, content[x] \notin Blanks
      PROVE  \E t \in T : x \in t[1] .. t[2] - 1
  BY <1>2 DEF Region, Inside
<1>3. ASSUME NEW t \in T, p = t[1], content[q] = "bs" PROVE FALSE
  <2>1. PICK u \in T : q \in u[1] .. u[2] - 1
    BY <1>0, <1>2, <1>3 DEF Blanks
  <2>2. q \in u[1] + 1 .. u[2] - 3
    BY <1>1, <1>3, <2>1, BackslashIn
  <2>3. p <= u[2] - 1
    <3>1. u[2] - 1 <= q \/ p <= u[2] - 1
      BY <1>1
    <3> QED
      BY <1>0, <1>1, <2>2, <3>1
  <2>4. t = u \/ t[2] <= u[1] \/ u[2] <= t[1]
    BY <1>1
  <2>5. t[1] \in Nat /\ t[2] \in Nat /\ u[1] \in Nat /\ u[2] \in Nat /\ t[1] < t[2] - 1
    BY <1>1
  <2>6. u[1] < t[1]
    BY <1>0, <1>3, <2>2, <2>5
  <2>7. t # u
    BY <2>5, <2>6
  <2>8. ~(t[2] <= u[1])
    BY <2>5, <2>6
  <2>9. ~(u[2] <= t[1])
    BY <1>0, <1>3, <2>3, <2>5
  <2> QED
    BY <2>4, <2>7, <2>8, <2>9
<1>4. ASSUME NEW t \in T, p = t[2] - 1, content[q] = "bs" PROVE FALSE
  <2>1. t[1] <= q
    <3>1. t[1] <= q \/ p <= t[1]
      BY <1>1
    <3> QED
      BY <1>0, <1>1, <1>4, <3>1
  <2>2. q \in t[1] .. t[2] - 1 /\ t \in Literals
    BY <1>0, <1>1, <1>4, <2>1
  <2>3. q \in t[1] + 1 .. t[2] - 3 /\ content[q + 1] # "bs"
    BY <1>4, <2>2, BackslashIn
  <2>4. q + 1 \in o .. c /\ q + 1 < p /\ q + 1 \in Nat \ {0} /\ q + 1 - 1 = q
    BY <1>0, <1>1, <1>4, <2>3
  <2>5. q + 1 \notin Kept(o, c)
    BY <1>0, <2>4
  <2>6. At(q + 1, <<"bs", "nl">>) \/ At(q, <<"bs", "nl">>)
    BY <2>4, <2>5 DEF Kept, Broken
  <2> QED
    BY <1>0, <2>3, <2>4, <2>6, CharactersAt DEF Broken
<1>5. ASSUME content[p] = "q", content[q] # "bs", ~Delimiter(T, p) PROVE FALSE
  <2>1. PICK t \in T : p \in t[1] .. t[2] - 1
    BY <1>0, <1>2, <1>5 DEF Blanks
  <2>2. p \in t[1] + 1 .. t[2] - 2 /\ t \in Literals /\ t[1] >= 1
    <3>1. p # t[1] /\ p # t[2] - 1
      BY <1>5 DEF Delimiter
    <3> QED
      BY <1>0, <1>1, <2>1, <3>1
  <2>3. Escaped(p)
    BY <1>5, <2>2, LiteralOver
  <2>4. p \in 2 .. End
    BY <1>0, <1>1, <2>2
  <2>5. content[p - 1] = "bs"
    BY <2>3, <2>4, EscapedBy
  <2>6. /\ p - 1 \in o .. c /\ p - 1 \in Nat \ {0} /\ p - 1 + 1 = p
        /\ p - 1 > 1 => p - 1 - 1 \in Nat \ {0} /\ p - 1 - 1 + 1 = p - 1
    BY <1>0, <1>1, <2>1, <2>2
  <2>7. ~At(p - 1, <<"bs", "nl">>)
    BY <1>5, <2>6, CharactersAt
  <2>8. p - 1 > 1 => ~At(p - 1 - 1, <<"bs", "nl">>)
    BY <2>5, <2>6, CharactersAt
  <2>9. p - 1 \in Kept(o, c)
    BY <2>6, <2>7, <2>8 DEF Kept, Broken
  <2>10. p - 1 = q
    <3>1. p - 1 <= q \/ p <= p - 1
      BY <2>9
    <3> QED
      BY <1>0, <3>1
  <2> QED
    BY <1>5, <2>5, <2>10
<1> QED
  BY <1>1, <1>3, <1>4, <1>5 DEF Delimiter

(* From one place to the next only a delimiter leads in or out.            *)
LEMMA WithinNext ==
  ASSUME content \in Seq(Classes), PlainStrings, NEW o \in 1 .. End - 1, NEW c \in o .. End - 1,
         NEW T, Region(o, c, T), NEW p \in Kept(o, c), NEW q \in Kept(o, c), p < q,
         \A d \in Kept(o, c) : d <= p \/ q <= d
  PROVE  Within(T, q) <=> IF Delimiter(T, p) THEN ~Within(T, p) ELSE Within(T, p)
<1>0. p \in Nat /\ q \in Nat
  BY Places DEF Kept
<1>1. /\ \A t \in T : /\ t[1] \in Nat /\ t[2] \in Nat /\ t[1] < t[2] - 1
                      /\ t[1] \in Kept(o, c) /\ t[2] - 1 \in Kept(o, c)
      /\ \A t, u \in T : t = u \/ t[2] <= u[1] \/ u[2] <= t[1]
  BY RegionLaid
<1>2. \A t \in T : (t[1] <= p \/ q <= t[1]) /\ (t[2] - 1 <= p \/ q <= t[2] - 1)
  BY <1>1
<1>3. CASE \E t \in T : p = t[1]
  <2>1. PICK t \in T : p = t[1]
    BY <1>3
  <2>2. ~Within(T, p)
    <3> SUFFICES ASSUME NEW u \in T, u[1] < p, p <= u[2] - 1 PROVE FALSE
      BY DEF Within
    <3>1. t = u \/ t[2] <= u[1] \/ u[2] <= t[1]
      BY <1>1
    <3>2. t[1] \in Nat /\ t[2] \in Nat /\ u[1] \in Nat /\ u[2] \in Nat /\ t[1] < t[2] - 1
      BY <1>1
    <3> QED
      BY <2>1, <3>1, <3>2
  <2>3. Within(T, q)
    <3>1. t[1] < q /\ q <= t[2] - 1
      BY <1>0, <1>1, <1>2, <2>1
    <3> QED
      BY <3>1 DEF Within
  <2> QED
    BY <2>1, <2>2, <2>3 DEF Delimiter
<1>4. CASE \E t \in T : p = t[2] - 1
  <2>1. PICK t \in T : p = t[2] - 1
    BY <1>4
  <2>2. Within(T, p)
    BY <1>0, <1>1, <2>1 DEF Within
  <2>3. ~Within(T, q)
    <3> SUFFICES ASSUME NEW u \in T, u[1] < q, q <= u[2] - 1 PROVE FALSE
      BY DEF Within
    <3>1. t = u \/ t[2] <= u[1] \/ u[2] <= t[1]
      BY <1>1
    <3>2. t[1] \in Nat /\ t[2] \in Nat /\ u[1] \in Nat /\ u[2] \in Nat /\ t[1] < t[2] - 1
      BY <1>1
    <3>3. u[1] <= p
      BY <1>0, <1>2, <3>2
    <3> QED
      BY SMTT(30), <1>0, <2>1, <3>1, <3>2, <3>3
  <2> QED
    BY <2>1, <2>2, <2>3 DEF Delimiter
<1>5. CASE ~Delimiter(T, p)
  <2>1. ASSUME NEW t \in T, t[1] < p, p <= t[2] - 1 PROVE Within(T, q)
    <3>1. p # t[2] - 1
      BY <1>5 DEF Delimiter
    <3>2. t[1] < q /\ q <= t[2] - 1
      BY <1>0, <1>1, <1>2, <2>1, <3>1
    <3> QED
      BY <3>2 DEF Within
  <2>2. ASSUME NEW u \in T, u[1] < q, q <= u[2] - 1 PROVE Within(T, p)
    <3>1. p # u[1]
      BY <1>5 DEF Delimiter
    <3>2. u[1] < p /\ p <= u[2] - 1
      BY <1>0, <1>1, <1>2, <2>2, <3>1
    <3> QED
      BY <3>2 DEF Within
  <2> QED
    BY <1>5, <2>1, <2>2 DEF Within
<1> QED
  BY <1>3, <1>4, <1>5 DEF Delimiter

(* How many places of a set are in front of one.                           *)
LEMMA CountBefore ==
  ASSUME NEW n \in Nat, NEW Q \in SUBSET (1 .. n)
  PROVE  /\ Cardinality({q \in Q : q < 1}) = 0
         /\ \A i \in 1 .. n :
              /\ Cardinality({q \in Q : q < i}) \in Nat
              /\ Cardinality({q \in Q : q < i + 1}) =
                   Cardinality({q \in Q : q < i}) + (IF i \in Q THEN 1 ELSE 0)
         /\ {q \in Q : q < n + 1} = Q
<1>1. {q \in Q : q < 1} = {} /\ {q \in Q : q < n + 1} = Q
  <2>1. \A q \in Q : q \in 1 .. n /\ ~(q < 1) /\ q < n + 1
    OBVIOUS
  <2> QED
    BY <2>1
<1>2. ASSUME NEW i \in 1 .. n
      PROVE  /\ Cardinality({q \in Q : q < i}) \in Nat
             /\ Cardinality({q \in Q : q < i + 1}) =
                  Cardinality({q \in Q : q < i}) + (IF i \in Q THEN 1 ELSE 0)
  <2> DEFINE B == {q \in Q : q < i}
  <2>1. IsFiniteSet(B)
    <3>1. IsFiniteSet(1 .. n)
      BY FS_Interval
    <3>2. B \subseteq 1 .. n
      OBVIOUS
    <3> QED
      BY <3>1, <3>2, FS_Subset
  <2>2. {q \in Q : q < i + 1} = IF i \in Q THEN B \cup {i} ELSE B
    <3>1. \A q \in Q : q < i + 1 <=> q < i \/ q = i
      OBVIOUS
    <3> QED
      BY <3>1
  <2>3. i \notin B
    OBVIOUS
  <2> HIDE DEF B
  <2>4. /\ Cardinality(B) \in Nat
        /\ Cardinality(B \cup {i}) = Cardinality(B) + 1
    BY <2>1, <2>3, FS_CardinalityType, FS_AddElement
  <2> QED
    BY <2>2, <2>4 DEF B
<1> QED
  BY <1>1, <1>2, FS_EmptySet

LEMMA Parity ==
  ASSUME NEW n \in Nat
  PROVE  (n + 1) % 2 = 1 <=> ~(n % 2 = 1)
  OBVIOUS

(* The text between the delimiters, without the continued lines.           *)
LEMMA SimplifiedLists ==
  ASSUME content \in Seq(Classes), PlainStrings, NEW o \in 1 .. End - 1, NEW c \in o .. End - 1,
         NEW T, Region(o, c, T)
  PROVE  Lists(Simplified(SubSeq(content, o, c)), Kept(o, c) \cap Quoted(T), content)
<1> DEFINE string == SubSeq(content, o, c)
           text   == Without(string, Continuations(string))
           Q      == Quotes(text)
           C(i)   == Cardinality({q \in Q : q < i})
           K      == Kept(o, c)
<1>0. o \in K /\ c \in K /\ content[o] = "q"
  BY RegionLaid
<1>1. PICK e : Listed(text, e, K, content)
  BY KeptListed DEF Lists
<1>2. DOMAIN text = 1 .. Len(text)
  BY <1>1, LenProperties DEF Listed
<1>3. /\ Simplified(string) = IF Cardinality(Q) % 2 = 1 THEN Undefined
                              ELSE Without(text, Q \cup {k \in DOMAIN text : ~(C(k) % 2 = 1)})
      /\ Q = {k \in DOMAIN text : text[k] = "q" /\ (k = 1 \/ text[k - 1] # "bs")}
  BY DEF Simplified, Quotes
<1> HIDE DEF text, Q, string
<1>4. /\ Len(text) \in Nat
      /\ \A i \in 1 .. Len(text) : e[i] \in K /\ e[i] \in Nat /\ text[i] = content[e[i]]
      /\ \A i \in 1 .. Len(text) - 1 :
           /\ i \in 1 .. Len(text) /\ i + 1 \in 1 .. Len(text) /\ e[i] < e[i + 1]
           /\ \A d \in K : d <= e[i] \/ e[i + 1] <= d
      /\ \A d \in K : 1 <= Len(text) /\ e[1] <= d /\ d <= e[Len(text)]
  BY <1>1, ListedNext
<1>5. \A d \in K : d \in o .. c /\ d \in Nat
  BY Places DEF Kept
<1>6. 1 <= Len(text) /\ e[1] = o /\ e[Len(text)] = c
  <2>1. 1 <= Len(text) /\ e[1] <= o /\ c <= e[Len(text)]
    BY <1>0, <1>4
  <2>2. 1 \in 1 .. Len(text) /\ Len(text) \in 1 .. Len(text)
    BY <1>4, <2>1
  <2>3. e[1] \in o .. c /\ e[Len(text)] \in o .. c /\ e[1] \in Nat /\ e[Len(text)] \in Nat
    BY <1>4, <1>5, <2>2
  <2>4. o \in Nat /\ c \in Nat
    BY <1>0, <1>5
  <2> QED
    BY <2>1, <2>3, <2>4
<1>7. \E t \in T : t[1] = o
  BY DEF Region
<1>8. \E t \in T : t[2] - 1 = c
  BY DEF Region
<1>9. \A t \in T : t[1] \in Nat /\ t[2] \in Nat /\ o <= t[1] /\ t[1] < t[2] - 1
  BY RegionLaid
<1> HIDE DEF K
<1>10. ASSUME NEW i \in 1 .. Len(text) PROVE i \in Q <=> Delimiter(T, e[i])
  <2>1. CASE i = 1
    <3>1. i \in Q
      BY <1>0, <1>2, <1>3, <1>4, <1>6, <2>1
    <3>2. Delimiter(T, e[i])
      BY <1>6, <1>7, <2>1 DEF Delimiter
    <3> QED
      BY <3>1, <3>2
  <2>2. CASE i # 1
    <3>1. i - 1 \in 1 .. Len(text) - 1 /\ i - 1 + 1 = i
      BY <1>4, <2>2
    <3>2. /\ i - 1 \in 1 .. Len(text) /\ e[i - 1] < e[i]
          /\ \A d \in K : d <= e[i - 1] \/ e[i] <= d
      BY <1>4, <3>1
    <3>3. e[i] \in Kept(o, c) /\ e[i - 1] \in Kept(o, c)
      BY <1>4, <3>2 DEF K
    <3>4. content[e[i]] = "q" /\ content[e[i - 1]] # "bs" <=> Delimiter(T, e[i])
      BY <3>2, <3>3, DelimiterIs DEF K
    <3>5. text[i] = content[e[i]] /\ text[i - 1] = content[e[i - 1]]
      BY <1>4, <3>2
    <3> QED
      BY <1>2, <1>3, <2>2, <3>4, <3>5
  <2> QED
    BY <2>1, <2>2
<1>11. /\ C(1) = 0 /\ {q \in Q : q < Len(text) + 1} = Q
       /\ \A i \in 1 .. Len(text) :
            C(i) \in Nat /\ C(i + 1) = C(i) + (IF i \in Q THEN 1 ELSE 0)
  <2>1. Q \in SUBSET (1 .. Len(text))
    BY <1>2, <1>3
  <2> QED
    BY <1>4, <2>1, CountBefore
<1> HIDE DEF C
<1>12. ASSUME NEW i \in 1 .. Len(text), C(i) % 2 = 1 <=> Within(T, e[i])
       PROVE  C(i + 1) % 2 = 1 <=> IF Delimiter(T, e[i]) THEN ~Within(T, e[i])
                                   ELSE Within(T, e[i])
  <2>1. C(i) \in Nat /\ C(i + 1) = C(i) + (IF i \in Q THEN 1 ELSE 0)
    BY <1>11
  <2>2. CASE i \in Q
    <3>1. C(i + 1) = C(i) + 1
      BY <2>1, <2>2
    <3>2. C(i + 1) % 2 = 1 <=> ~(C(i) % 2 = 1)
      BY <2>1, <3>1, Parity
    <3> QED
      BY <1>10, <1>12, <2>2, <3>2
  <2>3. CASE i \notin Q
    <3>1. C(i + 1) = C(i)
      BY <2>1, <2>3
    <3> QED
      BY <1>10, <1>12, <2>3, <3>1
  <2> QED
    BY <2>2, <2>3
<1> DEFINE S == {m \in Nat : m + 1 <= Len(text) => (C(m + 1) % 2 = 1 <=> Within(T, e[m + 1]))}
<1>13. 0 \in S
  <2>1. ~Within(T, e[1])
    <3> SUFFICES ASSUME NEW t \in T, t[1] < o PROVE FALSE
      BY <1>6 DEF Within
    <3>1. o \in Nat
      BY <1>0, <1>5
    <3> QED
      BY <1>9, <3>1
  <2>2. ~(C(1) % 2 = 1)
    BY <1>11
  <2>3. 0 + 1 = 1
    OBVIOUS
  <2> QED
    BY <2>1, <2>2, <2>3
<1>14. ASSUME NEW m \in S PROVE m + 1 \in S
  <2> SUFFICES ASSUME m + 1 + 1 <= Len(text)
               PROVE  C(m + 1 + 1) % 2 = 1 <=> Within(T, e[m + 1 + 1])
    OBVIOUS
  <2> DEFINE i == m + 1
  <2>1. i \in 1 .. Len(text) /\ i \in 1 .. Len(text) - 1
    BY <1>4
  <2>2. C(i) % 2 = 1 <=> Within(T, e[i])
    BY <2>1
  <2> HIDE DEF i
  <2>3. /\ e[i] \in Kept(o, c) /\ e[i + 1] \in Kept(o, c) /\ e[i] < e[i + 1]
        /\ \A d \in Kept(o, c) : d <= e[i] \/ e[i + 1] <= d
    BY <1>4, <2>1 DEF K
  <2>4. Within(T, e[i + 1]) <=> IF Delimiter(T, e[i]) THEN ~Within(T, e[i]) ELSE Within(T, e[i])
    BY <2>3, WithinNext
  <2>5. C(i + 1) % 2 = 1 <=> Within(T, e[i + 1])
    BY <1>12, <2>1, <2>2, <2>4
  <2> QED
    BY <2>5 DEF i
<1>15. S = Nat
  <2>1. S \in SUBSET Nat
    OBVIOUS
  <2> HIDE DEF S
  <2> QED
    BY <1>13, <1>14, <2>1, Induction
<1>16. \A i \in 1 .. Len(text) : C(i) % 2 = 1 <=> Within(T, e[i])
  <2> SUFFICES ASSUME NEW i \in 1 .. Len(text) PROVE C(i) % 2 = 1 <=> Within(T, e[i])
    OBVIOUS
  <2>1. i - 1 \in Nat /\ i - 1 + 1 = i
    OBVIOUS
  <2>2. i - 1 \in S
    <3> HIDE DEF S
    <3> QED
      BY <1>15, <2>1
  <2> QED
    BY <2>1, <2>2
<1>17. ~(Cardinality(Q) % 2 = 1)
  <2>1. Len(text) \in 1 .. Len(text)
    BY <1>4, <1>6
  <2>2. Delimiter(T, c) /\ Within(T, c)
    <3>1. PICK t \in T : t[2] - 1 = c
      BY <1>8
    <3>2. t[1] < c /\ c <= t[2] - 1
      BY <1>0, <1>5, <1>9, <3>1
    <3> QED
      BY <3>1, <3>2 DEF Delimiter, Within
  <2>3. ~(C(Len(text) + 1) % 2 = 1)
    BY <1>6, <1>12, <1>16, <2>1, <2>2
  <2>4. C(Len(text) + 1) = Cardinality(Q)
    BY <1>11 DEF C
  <2> QED
    BY <2>3, <2>4
<1> DEFINE P == Q \cup {k \in DOMAIN text : ~(C(k) % 2 = 1)}
<1>18. \A p \in Kept(o, c) : ~Delimiter(T, p) /\ Within(T, p) <=> p \in Quoted(T)
  <2> SUFFICES ASSUME NEW p \in Kept(o, c)
               PROVE  ~Delimiter(T, p) /\ Within(T, p) <=> p \in Quoted(T)
    OBVIOUS
  <2>0. p \in Nat
    BY <1>5 DEF K
  <2>1. ASSUME ~Delimiter(T, p), Within(T, p) PROVE p \in Quoted(T)
    <3>1. PICK t \in T : t[1] < p /\ p <= t[2] - 1
      BY <2>1 DEF Within
    <3>2. p # t[2] - 1
      BY <2>1 DEF Delimiter
    <3>3. p \in t[1] + 1 .. t[2] - 2
      BY <1>9, <2>0, <3>1, <3>2
    <3> QED
      BY <3>3 DEF Quoted
  <2>2. ASSUME NEW t \in T, p \in t[1] + 1 .. t[2] - 2
        PROVE  Within(T, p) /\ ~Delimiter(T, p)
    <3>1. t[1] < p /\ p <= t[2] - 1
      BY <1>9, <2>0, <2>2
    <3>2. ASSUME NEW u \in T, p = u[1] \/ p = u[2] - 1 PROVE FALSE
      <4>1. t = u \/ t[2] <= u[1] \/ u[2] <= t[1]
        BY RegionLaid
      <4>2. t[1] \in Nat /\ t[2] \in Nat /\ u[1] \in Nat /\ u[2] \in Nat /\ u[1] < u[2] - 1
        BY <1>9
      <4> QED
        BY SMTT(30), <2>0, <2>2, <3>2, <4>1, <4>2
    <3> QED
      BY <3>1, <3>2 DEF Within, Delimiter
  <2> QED
    BY <2>1, <2>2 DEF Quoted
<1>19. {e[i] : i \in (1 .. Len(text)) \ P} = Kept(o, c) \cap Quoted(T)
  <2>1. ASSUME NEW i \in 1 .. Len(text)
        PROVE  i \notin P <=> e[i] \in Kept(o, c) \cap Quoted(T)
    <3>1. e[i] \in Kept(o, c)
      BY <1>4 DEF K
    <3>2. i \notin P <=> ~Delimiter(T, e[i]) /\ Within(T, e[i])
      BY <1>2, <1>10, <1>16
    <3> QED
      BY <1>18, <3>1, <3>2
  <2>2. \A p \in Kept(o, c) : \E i \in 1 .. Len(text) : e[i] = p
    BY <1>1 DEF Listed, K
  <2> HIDE DEF P
  <2> QED
    BY <2>1, <2>2
<1>20. Lists(Without(text, P), {e[i] : i \in (1 .. Len(text)) \ P}, content)
  BY <1>1, WithoutLists
<1>21. Simplified(string) = Without(text, P)
  BY <1>3, <1>17
<1> QED
  BY <1>19, <1>20, <1>21 DEF string

-----------------------------------------------------------------------------
(* What the decoder shows of it, and what the programmer wrote.            *)

(* The first of the two characters of a newline escape is shown as one.    *)
Shown == [p \in 1 .. End - 1 |-> IF At(p, <<"bs", "n">>) THEN "nl" ELSE content[p]]

Spoken(o, c, T) == {p \in Kept(o, c) \cap Quoted(T) : ~At(p - 1, <<"bs", "n">>)}

(* In a literal an escape is not torn apart.                               *)
LEMMA QuotedIs ==
  ASSUME content \in Seq(Classes), PlainStrings, NEW o \in 1 .. End - 1, NEW c \in o .. End - 1,
         NEW T, Region(o, c, T), NEW p \in Quoted(T)
  PROVE  /\ p \in o .. c /\ p \in 2 .. End - 2 /\ p \in Nat \ {0} /\ p - 1 \in Nat \ {0}
         /\ content[p] \in Classes
         /\ content[p - 1] = "bs" => p - 1 \in Quoted(T)
         /\ content[p] = "bs" => /\ content[p + 1] # "bs" /\ content[p - 1] # "bs"
                                 /\ p + 1 \in Quoted(T)
<1>0. End \in Nat \ {0} /\ o \in Nat \ {0} /\ c \in Nat /\ End = Len(content) + 1
  BY Places
<1>1. PICK t \in T : p \in t[1] + 1 .. t[2] - 2
  BY DEF Quoted
<1>2. /\ t \in Literals /\ t[1] \in Nat /\ t[2] \in Nat
      /\ o <= t[1] /\ t[2] - 1 <= c /\ content[t[1]] = "q"
  BY RegionLaid
<1>3. /\ p \in o .. c /\ p \in 2 .. End - 2 /\ p \in Nat \ {0} /\ p - 1 \in Nat \ {0}
      /\ p \in 1 .. Len(content) /\ p \in t[1] .. t[2] - 1
  BY SMTT(30), <1>0, <1>1, <1>2
<1>4. content[p] \in Classes
  BY <1>3, ElementOfSeq
<1>5. ASSUME content[p - 1] = "bs" PROVE p - 1 \in Quoted(T)
  <2>1. p - 1 # t[1]
    BY <1>2, <1>5
  <2>2. p - 1 \in t[1] + 1 .. t[2] - 2
    BY <1>1, <1>2, <2>1
  <2> QED
    BY <2>2 DEF Quoted
<1>6. ASSUME content[p] = "bs"
      PROVE  content[p + 1] # "bs" /\ content[p - 1] # "bs" /\ p + 1 \in Quoted(T)
  <2>1. p \in t[1] + 1 .. t[2] - 3 /\ content[p - 1] # "bs" /\ content[p + 1] # "bs"
    BY <1>2, <1>3, <1>6, BackslashIn
  <2>2. p + 1 \in t[1] + 1 .. t[2] - 2
    BY SMTT(30), <1>2, <2>1
  <2> QED
    BY <2>1, <2>2 DEF Quoted
<1> QED
  BY <1>3, <1>4, <1>5, <1>6

LEMMA KeptIs ==
  ASSUME content \in Seq(Classes), PlainStrings, NEW o \in 1 .. End - 1, NEW c \in o .. End - 1,
         NEW T, Region(o, c, T), NEW p \in Quoted(T)
  PROVE  /\ p \in Kept(o, c) <=> ~(content[p] = "bs" /\ content[p + 1] = "nl")
                                 /\ ~(content[p - 1] = "bs" /\ content[p] = "nl")
         /\ At(p, <<"bs", "n">>) <=> content[p] = "bs" /\ content[p + 1] = "n"
         /\ At(p - 1, <<"bs", "n">>) <=> content[p - 1] = "bs" /\ content[p] = "n"
         /\ At(p, <<"bs", "nl">>) <=> content[p] = "bs" /\ content[p + 1] = "nl"
<1>1. p \in o .. c /\ p \in 2 .. End - 2 /\ p \in Nat \ {0} /\ p - 1 \in Nat \ {0}
  BY QuotedIs
<1>2. p + 1 < End /\ p - 1 + 1 = p /\ p < End /\ p > 1
  BY <1>1, Places
<1>3. /\ At(p, <<"bs", "nl">>) <=> content[p] = "bs" /\ content[p + 1] = "nl"
      /\ At(p, <<"bs", "n">>) <=> content[p] = "bs" /\ content[p + 1] = "n"
  BY <1>1, <1>2, CharactersAt
<1>4. /\ At(p - 1, <<"bs", "nl">>) <=> content[p - 1] = "bs" /\ content[p] = "nl"
      /\ At(p - 1, <<"bs", "n">>) <=> content[p - 1] = "bs" /\ content[p] = "n"
  BY <1>1, <1>2, CharactersAt
<1> QED
  BY <1>1, <1>2, <1>3, <1>4 DEF Kept, Broken

LEMMA CleanedLists ==
  ASSUME content \in Seq(Classes), PlainStrings, NEW o \in 1 .. End - 1, NEW c \in o .. End - 1,
         NEW T, Region(o, c, T), NEW text, Lists(text, Kept(o, c) \cap Quoted(T), content)
  PROVE  Lists(Cleaned(text), Spoken(o, c, T), Shown)
<1> DEFINE M == Kept(o, c) \cap Quoted(T)
           N == {k \in 1 .. Len(text) - 1 : text[k] = "bs" /\ text[k + 1] = "n"}
           told == [k \in DOMAIN text |-> IF k \in N THEN "nl" ELSE text[k]]
<1>0. PICK e : Listed(text, e, M, content)
  BY DEF Lists
<1>1. /\ Len(text) \in Nat
      /\ \A i \in 1 .. Len(text) : e[i] \in M /\ e[i] \in Nat /\ text[i] = content[e[i]]
      /\ \A i \in 1 .. Len(text) - 1 :
           /\ i \in 1 .. Len(text) /\ i + 1 \in 1 .. Len(text) /\ e[i] < e[i + 1]
           /\ \A d \in M : d <= e[i] \/ e[i + 1] <= d
      /\ \A d \in M : 1 <= Len(text) /\ e[1] <= d /\ d <= e[Len(text)]
  BY <1>0, ListedNext
<1>2. DOMAIN text = 1 .. Len(text) /\ text \in Seq(Classes)
  BY <1>0, LenProperties DEF Listed
<1>3. ASSUME NEW p \in M
      PROVE  /\ p \in Nat \ {0} /\ p \in 1 .. End - 1
             /\ content[p] = "bs" => p + 1 \in M
             /\ At(p - 1, <<"bs", "n">>) => p - 1 \in M /\ At(p - 1, <<"bs", "n">>)
             /\ At(p, <<"bs", "n">>) <=> content[p] = "bs" /\ content[p + 1] = "n"
  <2>1. p \in Quoted(T) /\ p \in Kept(o, c)
    OBVIOUS
  <2>2. /\ p \in 2 .. End - 2 /\ p \in Nat \ {0}
        /\ content[p - 1] = "bs" => p - 1 \in Quoted(T)
        /\ content[p] = "bs" => content[p + 1] # "bs" /\ p + 1 \in Quoted(T)
    BY <2>1, QuotedIs
  <2>3. /\ ~(content[p] = "bs" /\ content[p + 1] = "nl")
        /\ At(p - 1, <<"bs", "n">>) <=> content[p - 1] = "bs" /\ content[p] = "n"
        /\ At(p, <<"bs", "n">>) <=> content[p] = "bs" /\ content[p + 1] = "n"
    BY <2>1, KeptIs
  <2>4. ASSUME content[p] = "bs" PROVE p + 1 \in Kept(o, c)
    <3>1. p + 1 \in Quoted(T) /\ content[p + 1] # "bs" /\ p + 1 - 1 = p
      BY <2>2, <2>4
    <3>2. PICK q : q = p + 1
      OBVIOUS
    <3>3. q \in Quoted(T) /\ content[q] # "bs" /\ content[q] # "nl"
      BY <2>3, <2>4, <3>1, <3>2
    <3>4. q \in Kept(o, c) <=> ~(content[q] = "bs" /\ content[q + 1] = "nl")
                               /\ ~(content[q - 1] = "bs" /\ content[q] = "nl")
      BY <3>3, KeptIs
    <3> QED
      BY <3>2, <3>3, <3>4
  <2>5. ASSUME content[p - 1] = "bs", content[p] = "n" PROVE p - 1 \in Kept(o, c)
    <3>1. p - 1 \in Quoted(T) /\ p - 1 + 1 = p
      BY <2>2, <2>5
    <3>2. PICK q : q = p - 1
      OBVIOUS
    <3>3. q \in Quoted(T) /\ content[q] = "bs" /\ content[q + 1] = "n"
      BY <2>5, <3>1, <3>2
    <3>4. q \in Kept(o, c) <=> ~(content[q] = "bs" /\ content[q + 1] = "nl")
                               /\ ~(content[q - 1] = "bs" /\ content[q] = "nl")
      BY <3>3, KeptIs
    <3>5. ~(content[q] = "bs" /\ content[q + 1] = "nl") /\ content[q] # "nl"
      BY <3>3
    <3> QED
      BY <3>2, <3>4, <3>5
  <2>6. p \in 1 .. End - 1
    BY <2>2, Places
  <2> QED
    BY <2>2, <2>3, <2>4, <2>5, <2>6
<1> HIDE DEF M
<1>4. ASSUME NEW k \in 1 .. Len(text)
      PROVE  /\ k \in N => At(e[k], <<"bs", "n">>)
             /\ At(e[k], <<"bs", "n">>) => k \in N
             /\ k \in N => k + 1 \in 1 .. Len(text) /\ e[k + 1] = e[k] + 1
  <2> DEFINE p == e[k]
  <2>0. p \in M /\ p \in Nat /\ text[k] = content[p]
    BY <1>1
  <2>1. ASSUME content[p] = "bs"
        PROVE  k \in 1 .. Len(text) - 1 /\ k + 1 \in 1 .. Len(text) /\ e[k + 1] = p + 1
    <3>1. p + 1 \in M
      BY <1>3, <2>0, <2>1
    <3>2. p + 1 <= e[Len(text)]
      BY <1>1, <3>1
    <3>3. k # Len(text)
      BY <2>0, <3>2
    <3>4. k \in 1 .. Len(text) - 1
      BY <1>1, <3>3
    <3>5. /\ k + 1 \in 1 .. Len(text) /\ p < e[k + 1] /\ e[k + 1] \in Nat
          /\ p + 1 <= p \/ e[k + 1] <= p + 1
      BY <1>1, <3>1, <3>4
    <3> QED
      BY <2>0, <3>4, <3>5
  <2> HIDE DEF p
  <2>2. content[p] = "bs" => text[k + 1] = content[p + 1]
    BY <1>1, <2>1
  <2>3. At(p, <<"bs", "n">>) <=> content[p] = "bs" /\ content[p + 1] = "n"
    BY <1>3, <2>0
  <2> QED
    BY <2>0, <2>1, <2>2, <2>3 DEF p
<1>5. ASSUME NEW k \in 1 .. Len(text)
      PROVE  k \in {j + 1 : j \in N} <=> At(e[k] - 1, <<"bs", "n">>)
  <2>0. e[k] \in M /\ e[k] \in Nat
    BY <1>1
  <2>1. ASSUME NEW j \in N, k = j + 1 PROVE At(e[k] - 1, <<"bs", "n">>)
    <3>1. j \in 1 .. Len(text)
      BY <1>1
    <3>2. At(e[j], <<"bs", "n">>) /\ e[k] = e[j] + 1 /\ e[j] \in Nat
      BY <1>1, <1>4, <2>1, <3>1
    <3>3. e[k] - 1 = e[j]
      BY <3>2
    <3> QED
      BY <3>2, <3>3
  <2>2. ASSUME At(e[k] - 1, <<"bs", "n">>) PROVE k \in {j + 1 : j \in N}
    <3>1. e[k] - 1 \in M
      BY <1>3, <2>0, <2>2
    <3>2. PICK j \in 1 .. Len(text) : e[j] = e[k] - 1
      BY <1>0, <3>1 DEF Listed
    <3>3. j \in N /\ j + 1 \in 1 .. Len(text) /\ e[j + 1] = e[j] + 1
      BY <1>4, <2>2, <3>2
    <3>4. e[j + 1] = e[k]
      BY <2>0, <3>2, <3>3
    <3>5. ~(j + 1 < k) /\ ~(k < j + 1)
      <4>1. \A i, m \in 1 .. Len(text) : i < m => e[i] < e[m]
        BY <1>0 DEF Listed
      <4> QED
        BY <2>0, <3>3, <3>4, <4>1
    <3>6. k = j + 1
      BY <1>1, <3>5
    <3> HIDE DEF N
    <3> QED
      BY <3>3, <3>6
  <2> HIDE DEF N
  <2> QED
    BY <2>1, <2>2
<1> HIDE DEF N
<1>6. /\ told \in Seq(Classes) /\ Len(told) = Len(text)
      /\ \A k \in 1 .. Len(text) : told[k] = IF k \in N THEN "nl" ELSE text[k]
  <2>1. \A k \in 1 .. Len(text) : (IF k \in N THEN "nl" ELSE text[k]) \in Classes
    <3>1. \A k \in 1 .. Len(text) : text[k] \in Classes
      BY <1>2, ElementOfSeq
    <3> QED
      BY <3>1 DEF Classes
  <2>2. told \in [1 .. Len(text) -> Classes]
    BY <1>2, <2>1
  <2>3. told \in Seq(Classes)
    BY <1>1, <2>2, SeqDef
  <2>4. Len(told) = Len(text)
    <3>1. DOMAIN told = 1 .. Len(told) /\ Len(told) \in Nat
      BY <2>3, LenProperties
    <3>2. DOMAIN told = 1 .. Len(text)
      BY <1>2
    <3> HIDE DEF told
    <3> QED
      BY <1>1, <3>1, <3>2
  <2> QED
    BY <1>2, <2>3, <2>4
<1> HIDE DEF told
<1>7. Listed(told, e, M, Shown)
  <2>1. \A k \in 1 .. Len(text) : told[k] = Shown[e[k]]
    <3> SUFFICES ASSUME NEW k \in 1 .. Len(text) PROVE told[k] = Shown[e[k]]
      OBVIOUS
    <3>1. e[k] \in M /\ text[k] = content[e[k]] /\ e[k] \in 1 .. End - 1
      BY <1>1, <1>3
    <3>2. Shown[e[k]] = IF At(e[k], <<"bs", "n">>) THEN "nl" ELSE content[e[k]]
      BY <3>1 DEF Shown
    <3> QED
      BY <1>4, <1>6, <3>1, <3>2
  <2> QED
    BY <1>0, <1>6, <2>1 DEF Listed
<1> DEFINE P == {j + 1 : j \in N}
<1>8. {e[i] : i \in (1 .. Len(told)) \ P} = Spoken(o, c, T)
  <2>1. \A k \in 1 .. Len(text) : k \notin P <=> e[k] \in Spoken(o, c, T)
    BY <1>1, <1>5 DEF Spoken, M
  <2>2. \A p \in Spoken(o, c, T) : \E i \in 1 .. Len(text) : e[i] = p
    BY <1>0 DEF Spoken, Listed, M
  <2> HIDE DEF P
  <2> QED
    BY <1>6, <2>1, <2>2
<1>9. Lists(Without(told, P), {e[i] : i \in (1 .. Len(told)) \ P}, Shown)
  BY <1>7, WithoutLists
<1>10. Cleaned(text) = Without(told, P)
  BY DEF Cleaned, told, N
<1> QED
  BY <1>8, <1>9, <1>10

(* The recursion of the reference.                                         *)
Speak(f, inside, j) ==
  IF j >= End THEN <<>>
  ELSE IF j \notin inside THEN f[j + 1]
  ELSE IF At(j, <<"bs", "nl">>) THEN f[j + 2]
  ELSE IF At(j, <<"bs", "n">>) THEN <<"nl">> \o f[j + 2]
  ELSE IF content[j] = "bs" THEN <<"bs", content[j + 1]>> \o f[j + 2]
  ELSE <<content[j]>> \o f[j + 1]

LEMMA SpelledScan ==
  ASSUME content \in Seq(Classes), NEW k
  PROVE  \E f : /\ f = [j \in 1 .. End + 1 |-> Speak(f, Quoted(Strings[k + 1]), j)]
                /\ Spelled(k) = f[1]
<1> DEFINE inside == Quoted(Strings[k + 1])
           two(j) == j \in inside /\ content[j] = "bs"
           next == [j \in 1 .. End + 1 |->
                      IF j >= End THEN 0
                      ELSE IF j \in inside /\ (At(j, <<"bs", "nl">>) \/ At(j, <<"bs", "n">>)
                                               \/ content[j] = "bs")
                           THEN j + 2 ELSE j + 1]
           base == [j \in 1 .. End + 1 |->
                      IF j >= End THEN <<>>
                      ELSE IF At(j, <<"bs", "n">>) THEN <<"nl">>
                      ELSE IF content[j] = "bs" THEN <<"bs", content[j + 1]>>
                      ELSE <<content[j]>>]
           led == {j \in 1 .. End + 1 : j \in inside /\ ~At(j, <<"bs", "nl">>)}
<1>0. End \in Nat \ {0} /\ End + 1 \in Nat
  BY Places
<1> HIDE DEF inside
<1>1. \E f : Follows(f, next, base, {}, led, End + 1)
  <2> HIDE DEF next, base, led
  <2> QED
    BY <1>0, Descent
<1>2. ASSUME NEW f, NEW j \in 1 .. End + 1
      PROVE  Along(next, base, {}, led, End + 1, f, j) = Speak(f, inside, j)
  <2>1. /\ j >= End => base[j] = <<>> /\ next[j] \notin j + 1 .. End + 1
        /\ j < End => next[j] \in j + 1 .. End + 1
    <3>1. j >= End => next[j] = 0
      OBVIOUS
    <3>2. j < End => next[j] = j + 1 \/ next[j] = j + 2
      BY <1>0
    <3> HIDE DEF next
    <3> QED
      BY <1>0, <3>1, <3>2
  <2>2. j < End =>
          /\ next[j] = IF j \in inside /\ (At(j, <<"bs", "nl">>) \/ At(j, <<"bs", "n">>)
                                           \/ content[j] = "bs")
                       THEN j + 2 ELSE j + 1
          /\ base[j] = IF At(j, <<"bs", "n">>) THEN <<"nl">>
                       ELSE IF content[j] = "bs" THEN <<"bs", content[j + 1]>>
                       ELSE <<content[j]>>
          /\ j \in led <=> j \in inside /\ ~At(j, <<"bs", "nl">>)
    BY <1>0
  <2> HIDE DEF next, base, led
  <2>3. CASE j >= End
    BY <2>1, <2>3 DEF Along, Speak
  <2>4. CASE j < End /\ j \notin inside
    BY <1>0, <2>1, <2>2, <2>4 DEF Along, Speak
  <2>5. CASE j < End /\ j \in inside
    BY <1>0, <2>1, <2>2, <2>5 DEF Along, Speak
  <2> QED
    BY <1>0, <2>3, <2>4, <2>5
<1> HIDE DEF next, base, led
<1>3. \E f : f = [j \in 1 .. End + 1 |-> Speak(f, inside, j)]
  <2>1. PICK f : f = [j \in 1 .. End + 1 |-> Along(next, base, {}, led, End + 1, f, j)]
    BY <1>1 DEF Follows
  <2> QED
    BY <1>2, <2>1
<1> DEFINE spelled == CHOOSE f : f = [j \in 1 .. End + 1 |-> Speak(f, inside, j)]
<1>4. spelled = [j \in 1 .. End + 1 |-> Speak(spelled, inside, j)]
  BY <1>3
<1>5. Spelled(k) = spelled[1]
  BY DEF Spelled, Speak, inside, Quoted
<1> HIDE DEF spelled
<1> QED
  BY <1>4, <1>5 DEF inside

LEMMA SpelledLists ==
  ASSUME content \in Seq(Classes), PlainStrings, NEW o \in 1 .. End - 1, NEW c \in o .. End - 1,
         NEW k, Region(o, c, Strings[k + 1])
  PROVE  Lists(Spelled(k), Spoken(o, c, Strings[k + 1]), Shown)
<1> DEFINE T == Strings[k + 1]
           N == Spoken(o, c, T)
           From(j) == {p \in N : p >= j}
           Whole(j) == j - 1 \in Quoted(T) => content[j - 1] # "bs"
<1>0. End \in Nat \ {0} /\ End = Len(content) + 1
  BY Places
<1>1. PICK f : /\ f = [j \in 1 .. End + 1 |-> Speak(f, Quoted(T), j)]
               /\ Spelled(k) = f[1]
  BY SpelledScan
<1>2. \A j \in 1 .. End + 1 : f[j] = Speak(f, Quoted(T), j)
  BY <1>1
<1> HIDE DEF T
<1>3. Region(o, c, T)
  BY DEF T
<1>4. ASSUME NEW p \in N PROVE p \in Nat /\ p \in 1 .. End - 1 /\ p \in Quoted(T)
  <2>1. p \in Quoted(T)
    BY DEF Spoken
  <2>2. p \in 2 .. End - 2 /\ p \in Nat \ {0}
    BY <1>3, <2>1, QuotedIs
  <2> QED
    BY <1>0, <2>1, <2>2
<1>5. ASSUME NEW p \in Quoted(T)
      PROVE  /\ p \in Nat \ {0} /\ p \in 2 .. End - 2 /\ content[p] \in Classes
             /\ content[p - 1] = "bs" => p - 1 \in Quoted(T)
             /\ content[p] = "bs" => content[p + 1] # "bs" /\ content[p - 1] # "bs"
                                     /\ p + 1 \in Quoted(T)
             /\ p \in N <=> /\ ~(content[p] = "bs" /\ content[p + 1] = "nl")
                            /\ ~(content[p - 1] = "bs" /\ content[p] = "nl")
                            /\ ~(content[p - 1] = "bs" /\ content[p] = "n")
             /\ At(p, <<"bs", "n">>) <=> content[p] = "bs" /\ content[p + 1] = "n"
             /\ At(p, <<"bs", "nl">>) <=> content[p] = "bs" /\ content[p + 1] = "nl"
             /\ Shown[p] = IF content[p] = "bs" /\ content[p + 1] = "n" THEN "nl" ELSE content[p]
  <2>1. /\ p \in Nat \ {0} /\ p \in 2 .. End - 2 /\ content[p] \in Classes
        /\ content[p - 1] = "bs" => p - 1 \in Quoted(T)
        /\ content[p] = "bs" => content[p + 1] # "bs" /\ content[p - 1] # "bs"
                                /\ p + 1 \in Quoted(T)
    BY <1>3, <1>5, QuotedIs
  <2>2. /\ p \in Kept(o, c) <=> ~(content[p] = "bs" /\ content[p + 1] = "nl")
                                /\ ~(content[p - 1] = "bs" /\ content[p] = "nl")
        /\ At(p, <<"bs", "n">>) <=> content[p] = "bs" /\ content[p + 1] = "n"
        /\ At(p - 1, <<"bs", "n">>) <=> content[p - 1] = "bs" /\ content[p] = "n"
        /\ At(p, <<"bs", "nl">>) <=> content[p] = "bs" /\ content[p + 1] = "nl"
    BY <1>3, <1>5, KeptIs
  <2>3. p \in 1 .. End - 1
    BY <1>0, <2>1
  <2>4. Shown[p] = IF At(p, <<"bs", "n">>) THEN "nl" ELSE content[p]
    BY <2>3 DEF Shown
  <2>5. p \in N <=> p \in Kept(o, c) /\ ~At(p - 1, <<"bs", "n">>)
    BY <1>5 DEF Spoken
  <2> HIDE DEF N
  <2> QED
    BY <2>1, <2>2, <2>4, <2>5
<1> HIDE DEF N
<1> DEFINE S == {n \in Nat : \A j \in 1 .. End + 1 :
                   End + 1 - j <= n /\ Whole(j) => Lists(f[j], From(j), Shown)}
<1>6. ASSUME NEW j \in 1 .. End + 1, j >= End PROVE Lists(f[j], From(j), Shown)
  <2>1. f[j] = <<>>
    BY <1>2, <1>6 DEF Speak
  <2>2. From(j) = {}
    BY <1>0, <1>4, <1>6
  <2> QED
    BY <2>1, <2>2, ListedNone
<1>7. 0 \in S
  <2>1. \A j \in 1 .. End + 1 : End + 1 - j <= 0 => j >= End
    BY <1>0
  <2> HIDE DEF From, Whole
  <2> QED
    BY <1>6, <2>1
<1>8. ASSUME NEW n \in S PROVE n + 1 \in S
  <2> SUFFICES ASSUME NEW j \in 1 .. End + 1, End + 1 - j <= n + 1, Whole(j), j < End
               PROVE  Lists(f[j], From(j), Shown)
    <3>1. \A j \in 1 .. End + 1 : j >= End => Lists(f[j], From(j), Shown)
      BY <1>6
    <3>2. \A j \in 1 .. End + 1 : j < End \/ j >= End
      BY <1>0
    <3> HIDE DEF From, Whole
    <3> QED
      BY <3>1, <3>2
  <2>0. /\ j \in Nat \ {0} /\ j + 1 \in 1 .. End + 1 /\ j + 2 \in 1 .. End + 1
        /\ End + 1 - (j + 1) <= n /\ End + 1 - (j + 2) <= n /\ f[j] = Speak(f, Quoted(T), j)
        /\ j + 1 - 1 = j /\ j + 2 - 1 = j + 1 /\ j + 1 \in Nat
    BY <1>0, <1>2
  <2>1. /\ Whole(j + 1) => Lists(f[j + 1], From(j + 1), Shown)
        /\ Whole(j + 2) => Lists(f[j + 2], From(j + 2), Shown)
    <3> HIDE DEF Whole, From
    <3> QED
      BY <2>0
  <2>2. /\ From(j) = From(j + 1) \cup (IF j \in N THEN {j} ELSE {})
        /\ From(j + 1) = From(j + 2) \cup (IF j + 1 \in N THEN {j + 1} ELSE {})
    <3>1. \A p \in N : p >= j <=> p = j \/ p >= j + 1
      BY <1>4, <2>0
    <3>2. \A p \in N : p >= j + 1 <=> p = j + 1 \/ p >= j + 2
      BY <1>4, <2>0
    <3> QED
      BY <3>1, <3>2
  <2>3. (\A p \in From(j + 1) : j < p) /\ (\A p \in From(j + 2) : j < p /\ j + 1 < p)
    BY <1>4, <2>0
  <2> HIDE DEF From
  <2>10. ~(j >= End)
    BY <1>0, <2>0
  <2>4. CASE j \notin Quoted(T)
    <3>1. f[j] = f[j + 1] /\ Whole(j + 1)
      BY <1>0, <2>0, <2>4 DEF Speak
    <3>2. j \notin N
      BY <1>4, <2>4
    <3> QED
      BY <2>1, <2>2, <3>1, <3>2
  <2>5. CASE j \in Quoted(T) /\ content[j] = "bs"
    <3>1. /\ j + 1 \in Quoted(T) /\ content[j + 1] # "bs" /\ Whole(j + 2)
          /\ content[j - 1] # "bs"
      BY <1>5, <2>0, <2>5
    <3>2. Lists(f[j + 2], From(j + 2), Shown)
      BY <2>1, <3>1
    <3>3. /\ j \in N <=> content[j + 1] # "nl"
          /\ j + 1 \in N <=> content[j + 1] # "nl" /\ content[j + 1] # "n"
          /\ Shown[j] = IF content[j + 1] = "n" THEN "nl" ELSE "bs"
          /\ Shown[j + 1] = content[j + 1] /\ content[j + 1] \in Classes
          /\ At(j, <<"bs", "n">>) <=> content[j + 1] = "n"
          /\ At(j, <<"bs", "nl">>) <=> content[j + 1] = "nl"
      BY SMTT(30), <1>5, <2>0, <2>5, <3>1
    <3>4. CASE content[j + 1] = "nl"
      <4>1. f[j] = f[j + 2]
        BY <1>0, <2>0, <2>5, <3>3, <3>4 DEF Speak
      <4> QED
        BY <2>2, <3>2, <3>3, <3>4, <4>1
    <3>5. CASE content[j + 1] = "n"
      <4>0. ~At(j, <<"bs", "nl">>) /\ At(j, <<"bs", "n">>)
        BY <3>3, <3>5
      <4>9. f[j] = <<"nl">> \o f[j + 2]
        BY <2>0, <2>5, <2>10, <4>0 DEF Speak
      <4>1. f[j] = <<"nl">> \o f[j + 2] /\ Shown[j] = "nl" /\ Shown[j] \in Classes
        BY <3>3, <3>5, <4>9 DEF Classes
      <4>2. From(j) = From(j + 2) \cup {j}
        BY <2>2, <3>3, <3>5
      <4>3. Lists(<<Shown[j]>> \o f[j + 2], From(j + 2) \cup {j}, Shown)
        BY <2>0, <2>3, <3>2, <4>1, ListedPrepend
      <4> QED
        BY <4>1, <4>2, <4>3
    <3>6. CASE content[j + 1] \notin {"n", "nl"}
      <4> DEFINE a == content[j + 1]
      <4>0. ~At(j, <<"bs", "nl">>) /\ ~At(j, <<"bs", "n">>)
        BY <3>3, <3>6
      <4>9. f[j] = <<"bs", a>> \o f[j + 2]
        BY <2>0, <2>5, <2>10, <4>0 DEF Speak
      <4>1. f[j] = <<"bs", a>> \o f[j + 2] /\ Shown[j] = "bs" /\ Shown[j] \in Classes
        BY <3>3, <3>6, <4>9 DEF Classes
      <4>2. From(j) = From(j + 1) \cup {j} /\ From(j + 1) = From(j + 2) \cup {j + 1}
        BY <2>2, <3>3, <3>6
      <4>3. Shown[j + 1] = a /\ a \in Classes
        BY <3>3
      <4> HIDE DEF a
      <4>4. Lists(<<Shown[j + 1]>> \o f[j + 2], From(j + 2) \cup {j + 1}, Shown)
        BY <2>0, <2>3, <3>2, <4>3, ListedPrepend
      <4>5. Lists(<<a>> \o f[j + 2], From(j + 1), Shown)
        BY <4>2, <4>3, <4>4
      <4>6. Lists(<<Shown[j]>> \o (<<a>> \o f[j + 2]), From(j + 1) \cup {j}, Shown)
        BY <2>0, <2>3, <4>1, <4>5, ListedPrepend
      <4>7. <<"bs", a>> \o f[j + 2] = <<"bs">> \o (<<a>> \o f[j + 2])
        <5>1. f[j + 2] \in Seq(Classes)
          BY <3>2 DEF Lists, Listed
        <5>2. <<"bs">> \in Seq(Classes) /\ <<a>> \in Seq(Classes)
          BY <4>3 DEF Classes
        <5>3. (<<"bs">> \o <<a>>) \o f[j + 2] = <<"bs">> \o (<<a>> \o f[j + 2])
          BY SMTT(30), <5>1, <5>2, ConcatAssociative
        <5>4. <<"bs">> \o <<a>> = <<"bs", a>>
          <6>1. Len(<<"bs">>) = 1 /\ Len(<<a>>) = 1 /\ Len(<<"bs", a>>) = 2
            OBVIOUS
          <6>2. /\ Len(<<"bs">> \o <<a>>) = 2
                /\ \A i \in 1 .. 2 : (<<"bs">> \o <<a>>)[i] =
                     IF i <= 1 THEN <<"bs">>[i] ELSE <<a>>[i - 1]
            BY <5>2, <6>1, ConcatProperties
          <6>3. /\ (<<"bs">> \o <<a>>)[1] = "bs" /\ (<<"bs">> \o <<a>>)[2] = a
            BY <6>2
          <6>4. <<"bs">> \o <<a>> \in Seq(Classes) /\ <<"bs", a>> \in Seq(Classes)
            BY <5>2, <4>3, ConcatProperties DEF Classes
          <6>5. \A i \in 1 .. 2 : (<<"bs">> \o <<a>>)[i] = <<"bs", a>>[i]
            <7>1. \A i \in 1 .. 2 : i = 1 \/ i = 2
              OBVIOUS
            <7> QED
              BY <6>3, <7>1
          <6> QED
            BY <6>1, <6>2, <6>4, <6>5, SeqEqual
        <5> QED
          BY <5>3, <5>4
      <4> QED
        BY <4>1, <4>2, <4>6, <4>7
    <3> QED
      BY <3>4, <3>5, <3>6
  <2>6. CASE j \in Quoted(T) /\ content[j] # "bs"
    <3>1. /\ Whole(j + 1) /\ content[j - 1] # "bs"
          /\ ~At(j, <<"bs", "nl">>) /\ ~At(j, <<"bs", "n">>)
      BY <1>5, <2>0, <2>6
    <3>2. j \in N /\ Shown[j] = content[j] /\ content[j] \in Classes
      BY <1>5, <2>6, <3>1
    <3>3. f[j] = <<content[j]>> \o f[j + 1]
      BY <2>0, <2>6, <2>10, <3>1 DEF Speak
    <3>4. Lists(<<Shown[j]>> \o f[j + 1], From(j + 1) \cup {j}, Shown)
      BY <2>0, <2>1, <2>3, <3>1, <3>2, ListedPrepend
    <3> QED
      BY <2>2, <3>2, <3>3, <3>4
  <2> QED
    BY <2>4, <2>5, <2>6
<1>9. S = Nat
  <2>1. S \in SUBSET Nat
    OBVIOUS
  <2> HIDE DEF S
  <2> QED
    BY <1>7, <1>8, <2>1, Induction
<1>10. Lists(f[1], From(1), Shown)
  <2>1. Whole(1)
    <3>0. \A p \in Quoted(T) : p \in Nat \ {0}
      BY <1>5
    <3>1. 1 - 1 \notin Quoted(T)
      BY <3>0
    <3> QED
      BY <3>1
  <2>2. End \in S /\ 1 \in 1 .. End + 1 /\ End + 1 - 1 <= End
    <3> HIDE DEF S
    <3> QED
      BY <1>0, <1>9
  <2> QED
    BY <2>1, <2>2
<1>11. From(1) = N
  BY <1>4
<1> QED
  BY <1>1, <1>10, <1>11 DEF N, T

-----------------------------------------------------------------------------
(* Every call that the pattern matches in a range is found.                *)

(* The text that is made of the match at k.                                *)
TextOf(k, stop) ==
  LET o == Opening(k, stop)
  IN  Simplified(SubSeq(content, o, ClosingQuote(stop)[o + 1]))

Noted(k, stop) ==
  \E n \in 1 .. Len(found) : found[n].tag = k /\ found[n].text = TextOf(k, stop)

(* The search has passed a place: in an earlier part, or in this one.      *)
Past(p, k) == p < part \/ (p = part /\ k < from)

ShownInv ==
  done /\ Plain /\ PlainStrings =>
    \A p \in 1 .. Len(result) : \A k \in Inside(result[p]) :
      IsCall(k) /\ Matches(k, result[p][2]) /\ Past(p, k) => Noted(k, result[p][2])

LEMMA SameCalls ==
  ASSUME content' = content, NEW k, NEW stop
  PROVE  IsCall(k)' = IsCall(k) /\ TextOf(k, stop)' = TextOf(k, stop)
<1>1. ClosingQuote(stop)' = ClosingQuote(stop) /\ Opening(k, stop)' = Opening(k, stop)
  BY DEF ClosingQuote, Opening, Behind, LastBreak, Blanks
<1>2. TextOf(k, stop)' = TextOf(k, stop)
  BY <1>1 DEF TextOf
<1>3. Skipped' = Skipped
  BY DEF Skipped, At, End, Blanks
<1>4. Strings' = Strings
  BY <1>3, SamePlaces, SameText DEF Strings, At, End, Over, LineOpens, BlockOpens, FirstOf, Escaped
<1>5. \A t : Closed(t)' = Closed(t)
  BY DEF Closed, Inside, Escaped
<1>6. Tokens' = Tokens /\ \A j : At(j, <<"e">>)' = At(j, <<"e">>)
  BY SameText DEF At, End
<1>7. IsCall(k)' = IsCall(k)
  BY <1>3, <1>4, <1>5, <1>6 DEF IsCall, Inside
<1> QED
  BY <1>2, <1>7

LEMMA SamePlainStrings ==
  ASSUME content' = content
  PROVE  PlainStrings' = PlainStrings
<1>1. \A t : Closed(t)' = Closed(t)
  BY DEF Closed, Inside, Escaped
<1> QED
  BY <1>1, SameText DEF PlainStrings, Inside, At, End

(* A match that is not in a comment has a text, and nothing else up to the *)
(* end of it is a tag.                                                     *)
LEMMA MatchedText ==
  ASSUME content \in Seq(Classes), PlainStrings, NEW stop \in 1 .. End,
         NEW k \in 1 .. stop - 1, Matches(k, stop), \A c \in Comments : k \notin Inside(c)
  PROVE  LET close == ClosingQuote(stop)[Opening(k, stop) + 1]
             last  == Behind(close + 1, Blanks, stop)
         IN  /\ TextOf(k, stop) # Undefined
             /\ last \in k + 1 .. stop - 1 /\ \A j \in k + 1 .. last : content[j] # "L"
<1> DEFINE o == Opening(k, stop)
           c == ClosingQuote(stop)[o + 1]
           last == Behind(c + 1, Blanks, stop)
           text == SubSeq(content, o, c)
<1>0. End \in Nat \ {0} /\ stop \in Nat /\ k \in Nat
  BY Places
<1>1. /\ o \in k + 1 .. stop - 1 /\ content[o] = "q" /\ c # 0 /\ Scanned(o)
      /\ \A j \in k + 1 .. o - 1 : content[j] \in Blanks \cup {"bs"}
  BY MatchScanned
<1> HIDE DEF o
<1>2. Skipped[o] = o
  <2>1. o \in 1 .. End /\ o \in o .. End - 1 /\ content[o] \notin Blanks \cup {"bs"}
    BY <1>0, <1>1 DEF Blanks
  <2>2. \A j \in o .. o - 1 : FALSE
    BY <1>0, <1>1
  <2> QED
    BY <2>1, <2>2, SkippedIs
<1>3. Region(o, c, Strings[o]) /\ Ends(c, stop)
  <2>1. o \in 1 .. End /\ o \in 1 .. stop - 1
    BY <1>0, <1>1
  <2> QED
    BY <1>1, <1>2, <2>1, RegionIs
<1>4. c \in o + 1 .. stop - 1
  <2>1. o + 1 \in 1 .. stop + 1
    BY <1>0, <1>1
  <2> QED
    BY <1>1, <2>1, ClosingTo
<1> HIDE DEF c
<1>5. /\ c + 1 \in 1 .. stop /\ o \in 1 .. End - 1 /\ c \in o .. End - 1
      /\ o \in Nat /\ c \in Nat
  BY <1>0, <1>1, <1>4
<1>6. last \in c + 1 .. stop - 1 /\ content[last] = "e"
  BY <1>3 DEF Ends
<1>7. \A j \in c + 1 .. last - 1 : content[j] \in Blanks
  BY <1>5, BehindIs
<1> HIDE DEF last
<1>8. ASSUME NEW j \in o .. c PROVE content[j] # "L"
  <2>1. CASE content[j] \in Blanks
    BY <2>1 DEF Blanks
  <2>2. ASSUME NEW t \in Strings[o], j \in Inside(t) PROVE content[j] # "L"
    BY <1>3, <2>2, LiteralPlain DEF Region, Inside
  <2> QED
    BY <1>3, <2>1, <2>2 DEF Region
<1>9. ASSUME NEW j \in k + 1 .. last PROVE content[j] # "L"
  <2>1. j \in k + 1 .. o - 1 \/ j \in o .. c \/ j \in c + 1 .. last - 1 \/ j = last
    BY <1>0, <1>1, <1>4, <1>6
  <2> QED
    BY <1>1, <1>6, <1>7, <1>8, <2>1 DEF Blanks
<1>10. Simplified(text) # Undefined
  <2>1. Lists(Simplified(text), Kept(o, c) \cap Quoted(Strings[o]), content)
    BY <1>3, <1>5, SimplifiedLists
  <2>2. Simplified(text) \in Seq(Classes)
    BY <2>1 DEF Lists, Listed
  <2>3. Undefined \notin Seq(Classes)
    <3>1. Len(Undefined) = 1 /\ Undefined[1] = "?"
      BY DEF Undefined
    <3>2. ASSUME Undefined \in Seq(Classes) PROVE Undefined[1] \in Classes
      <4>1. 1 \in 1 .. Len(Undefined)
        BY <3>1
      <4> QED
        BY <3>2, <4>1, ElementOfSeq
    <3> QED
      BY <3>1, <3>2 DEF Classes
  <2> QED
    BY <2>2, <2>3
<1>11. TextOf(k, stop) = Simplified(text)
  BY DEF TextOf, o, c
<1> QED
  BY <1>0, <1>1, <1>4, <1>6, <1>9, <1>10, <1>11 DEF o, c, last

(* The steps of the search.                                                *)
LEMMA ShownFirst ==
  ASSUME RangeInv, FoundInv, RangeInv', FirstPart
  PROVE  ShownInv'
<1>1. part' = 1 /\ result' \in Seq(Nat \X Nat)
      /\ (result' # <<>> => from' = result'[1][1])
  BY DEF FirstPart, Finish, FoundInv, RangeInv
<1>2. ASSUME NEW p \in 1 .. Len(result'), NEW k \in Inside(result'[p]) PROVE ~Past(p, k)'
  <2>1. result' # <<>> /\ p \in Nat \ {0} /\ p \in DOMAIN result'
    BY <1>1, <1>2, LenProperties
  <2>2. result'[p][1] \in Nat /\ result'[p][2] \in Nat
    BY <1>1, <2>1
  <2>3. p = 1 => ~(k < from')
    BY <1>1, <1>2, <2>1, <2>2 DEF Inside
  <2> QED
    BY <1>1, <2>1, <2>3 DEF Past
<1> QED
  BY <1>2 DEF ShownInv, Inside

LEMMA ShownNextPart ==
  ASSUME RangeInv, FoundInv, ShownInv, NextPart
  PROVE  ShownInv'
<1>1. /\ content' = content /\ result' = result /\ done' = done /\ found' = found /\ done
      /\ part' = part + 1 /\ Calls = {} /\ part \in Nat \ {0}
      /\ from' = IF part < Len(result) THEN result[part + 1][1] ELSE from
      /\ result \in Seq(Nat \X Nat)
  BY DEF NextPart, vars, FoundInv, RangeInv
<1>2. SUFFICES ASSUME Plain, PlainStrings, NEW p \in 1 .. Len(result),
                      NEW k \in Inside(result[p]), IsCall(k), Matches(k, result[p][2]),
                      Past(p, k)'
               PROVE  Noted(k, result[p][2])
  <2>1. \A k, stop : Noted(k, stop)' = Noted(k, stop)
    BY <1>1, SameCalls DEF Noted
  <2> QED
    BY <1>1, <2>1, SameCalls, SameMatches, SamePlain, SamePlainStrings DEF ShownInv, Inside
<1>3. /\ result[p][1] \in Nat /\ result[p][2] \in Nat /\ p \in Nat /\ Len(result) \in Nat
      /\ k \in result[p][1] .. result[p][2] - 1
  BY SMTT(30), <1>1, LenProperties DEF Inside
<1>4. p # part + 1 \/ ~(k < result[part + 1][1])
  BY <1>3
<1>5. p <= part
  BY <1>1, <1>2, <1>3, <1>4 DEF Past
<1>6. CASE p < part
  BY <1>1, <1>2, <1>6 DEF ShownInv, Past
<1>7. CASE p = part
  <2>1. k < from
    <3>1. k \notin from .. result[part][2] - 1
      BY <1>1, <1>2, <1>7 DEF Calls
    <3>2. from \in Nat
      BY <1>1, <1>3, <1>7 DEF FoundInv
    <3> QED
      BY <1>3, <1>7, <3>1, <3>2
  <2> QED
    BY <1>1, <1>2, <1>7, <2>1 DEF ShownInv, Past
<1> QED
  BY <1>1, <1>3, <1>5, <1>6, <1>7

(* The next call found: if it is in a comment the file ends in that one.   *)
LEMMA ShownFindNext ==
  ASSUME RangeInv, FoundInv, FoundInv', ShownInv, NothingCommented, FindNext
  PROVE  ShownInv'
<1> DEFINE k     == FirstOf(Calls)
           stop  == result[part][2]
           close == ClosingQuote(stop)[Opening(k, stop) + 1]
           last  == Behind(close + 1, Blanks, stop)
           call  == [tag |-> k, text |-> TextOf(k, stop)]
<1>0. /\ done /\ part \in 1 .. Len(result) /\ Calls # {} /\ content' = content
      /\ result' = result /\ done' = done /\ found' = Append(found, call)
      /\ from' = last + 1
      /\ part' = part \/ (part' = Len(result) + 1 /\ TextOf(k, stop) = Undefined)
  <2>1. part \in Nat \ {0} /\ Len(result) \in Nat
    BY LenProperties DEF FoundInv, RangeInv
  <2> QED
    BY <2>1 DEF FindNext, vars, TextOf
<1>1. /\ content \in Seq(Classes) /\ result \in Seq(Nat \X Nat) /\ Len(result) \in Nat
      /\ RangesDisjoint /\ End \in Nat \ {0}
  BY LenProperties, Places DEF RangeInv
<1>2. /\ result[part] \in Ranges /\ result[part] \in Nat \X Nat /\ stop \in 1 .. End
      /\ result[part][1] >= 1 /\ result[part][1] <= from /\ from \in Nat
  <2>1. part \in DOMAIN result
    BY <1>0, <1>1
  <2>2. result[part] \in Nat \X Nat
    BY <1>0, <1>1
  <2>3. 1 <= result[part][1] /\ result[part][1] <= stop /\ stop <= End
    BY <1>1, <2>1 DEF RangesDisjoint
  <2>4. from \in Nat /\ result[part][1] <= from
    BY <1>0 DEF FoundInv
  <2> QED
    BY <1>1, <2>1, <2>2, <2>3, <2>4 DEF Ranges
<1>3. /\ k \in from .. stop - 1 /\ Matches(k, stop)
      /\ \A j \in from .. stop - 1 : Matches(j, stop) => k <= j
  <2>1. /\ Calls \in SUBSET (1 .. End)
        /\ \A j : j \in Calls <=> j \in from .. stop - 1 /\ Matches(j, stop)
    BY <1>1, <1>2 DEF Calls
  <2>2. k \in Calls /\ \A j \in Calls : k <= j
    BY <1>0, <1>1, <2>1, FirstIs
  <2> HIDE DEF k
  <2> QED
    BY <2>1, <2>2
<1> HIDE DEF k
<1>4. /\ Len(found') = Len(found) + 1 /\ Len(found) \in Nat /\ found'[Len(found) + 1] = call
      /\ \A n \in 1 .. Len(found) : found'[n] = found[n]
  <2>1. PICK S : found \in Seq(S)
    BY DEF FoundInv
  <2>2. PICK U : U = S \cup {call}
    OBVIOUS
  <2>3. found \in Seq(U) /\ call \in U
    BY <2>1, <2>2
  <2> HIDE DEF call
  <2> QED
    BY <1>0, <2>3, AppendProperties
<1>5. \A j, r : Noted(j, r) => Noted(j, r)'
  <2> SUFFICES ASSUME NEW j, NEW r, Noted(j, r) PROVE Noted(j, r)'
    OBVIOUS
  <2>1. PICK n \in 1 .. Len(found) : found[n].tag = j /\ found[n].text = TextOf(j, r)
    BY DEF Noted
  <2>2. n \in 1 .. Len(found') /\ found'[n] = found[n]
    BY <1>4, <2>1
  <2> QED
    BY <1>0, <2>1, <2>2, SameCalls DEF Noted
<1>6. \A i, r : i = k /\ r = stop => Noted(i, r)'
  <2> SUFFICES ASSUME NEW i, NEW r, i = k, r = stop PROVE Noted(i, r)'
    OBVIOUS
  <2>1. Len(found) + 1 \in 1 .. Len(found')
    BY <1>4
  <2>2. TextOf(i, r)' = TextOf(i, r)
    BY <1>0, SameCalls
  <2>3. call.tag = i /\ call.text = TextOf(i, r)
    OBVIOUS
  <2> HIDE DEF call, stop
  <2> QED
    BY <1>4, <2>1, <2>2, <2>3 DEF Noted
<1>7. SUFFICES ASSUME Plain, PlainStrings, NEW p \in 1 .. Len(result),
                      NEW j \in Inside(result[p]), IsCall(j), Matches(j, result[p][2]),
                      Past(p, j)'
               PROVE  Noted(j, result[p][2])'
  BY <1>0, SameCalls, SameMatches, SamePlain, SamePlainStrings DEF ShownInv, Inside
<1>8. j \in result[p][1] .. result[p][2] - 1 /\ p \in Nat /\ j \in Nat
  <2>1. result[p][1] \in Nat /\ result[p][2] \in Nat
    BY <1>1
  <2> QED
    BY <1>1, <2>1 DEF Inside
<1>9. CASE Past(p, j)
  BY <1>0, <1>5, <1>7, <1>9 DEF ShownInv
<1>10. ASSUME ~Past(p, j), p = part PROVE Noted(j, result[p][2])'
  <2>1. j \in from .. stop - 1 /\ k <= j
    <3>1. ~(j < from)
      BY <1>10 DEF Past
    <3>2. j \in from .. stop - 1
      BY <1>2, <1>8, <1>10, <3>1
    <3> QED
      BY <1>3, <1>7, <1>10, <3>2
  <2>2. CASE j = k
    <3>1. \A r : r = stop => Noted(j, r)'
      BY <1>6, <2>2
    <3> QED
      BY <1>0, <1>10, <3>1
  <2>3. ASSUME NEW c \in Comments, k \in Inside(c), j # k PROVE FALSE
    <3>1. c[2] = End
      <4>1. k \in Inside(result[part])
        BY <1>2, <1>3 DEF Inside
      <4>2. k # c[1]
        BY <1>3 DEF Comments, Matches
      <4> QED
        BY <1>0, <1>2, <1>7, <2>3, <4>1, <4>2 DEF NothingCommented
    <3>2. j \in Inside(c) /\ c \in Tokens
      <4>1. c[1] \in Nat
        BY <1>1, TokenTypes DEF Comments
      <4>2. j < End /\ c[1] <= k
        BY SMTT(30), <1>1, <1>2, <2>1, <2>3, <4>1 DEF Inside
      <4> QED
        BY <1>1, <1>8, <1>2, <1>3, <2>1, <3>1, <4>1, <4>2 DEF Inside, Comments
    <3> QED
      BY <1>7, <3>2 DEF IsCall
  <2>4. CASE \A c \in Comments : k \notin Inside(c)
    <3>1. k \in 1 .. stop - 1
      BY <1>2, <1>3
    <3>2. /\ TextOf(k, stop) # Undefined /\ last \in k + 1 .. stop - 1
          /\ \A i \in k + 1 .. last : content[i] # "L"
      BY <1>1, <1>2, <1>3, <1>7, <2>4, <3>1, MatchedText
    <3>3. part' = part /\ from' = last + 1
      BY <1>0, <3>2
    <3>4. content[j] = "L"
      BY <1>7 DEF Matches
    <3> HIDE DEF last, stop
    <3>5. part' = part /\ j < last + 1
      <4>1. Past(p, j)' => part' # part \/ j < from'
        BY <1>0, <1>8, <1>10 DEF Past
      <4> QED
        BY <1>7, <3>3, <4>1
    <3>6. k # j => j \in k + 1 .. last
      BY <1>2, <1>3, <1>8, <2>1, <3>1, <3>2, <3>5
    <3> QED
      BY <2>2, <3>2, <3>4, <3>6
  <2> QED
    BY <2>2, <2>3, <2>4
<1>11. p = part \/ Past(p, j)
  <2>1. CASE part' = part
    BY <1>0, <1>1, <1>7, <1>8, <2>1 DEF Past
  <2>2. CASE TextOf(k, stop) = Undefined
    <3>1. k \in 1 .. stop - 1
      BY <1>2, <1>3
    <3>2. PICK c \in Comments : k \in Inside(c)
      BY <1>1, <1>2, <1>3, <1>7, <2>2, <3>1, MatchedText
    <3>3. k \in Inside(result[part])
      BY <1>2, <1>3 DEF Inside
    <3>4. k # c[1]
      BY <1>3 DEF Comments, Matches
    <3>5. Len(result) = 1
      BY <1>0, <1>2, <1>7, <3>2, <3>3, <3>4 DEF NothingCommented
    <3> QED
      BY <1>0, <1>8, <3>5
  <2> QED
    BY <1>0, <2>1, <2>2
<1> QED
  BY <1>9, <1>10, <1>11

LEMMA ShownNext ==
  ASSUME RangeInv, FoundInv, ShownInv, NothingCommented, [SearchNext]_allVars,
         RangeInv', FoundInv'
  PROVE  ShownInv'
<1>1. CASE (TooShort \/ EndBlock \/ InBlock \/ InLine \/ AfterSlash \/ InCode) /\ UNCHANGED search
  <2>1. done' => result' = <<>>
    <3>1. ~done
      BY <1>1 DEF TooShort, EndBlock, InBlock, InLine, AfterSlash, InCode, Step
    <3>2. done' => Len(content) < Width /\ result' = result
      BY <1>1, <3>1 DEF TooShort, EndBlock, InBlock, InLine, AfterSlash, InCode, Step
    <3> QED
      BY <3>2 DEF FoundInv
  <2>2. Len(<<>>) = 0 /\ 1 .. 0 = {}
    OBVIOUS
  <2> QED
    BY <2>1, <2>2 DEF ShownInv
<1>2. CASE FirstPart
  BY <1>2, ShownFirst
<1>3. CASE FindNext
  BY <1>3, ShownFindNext
<1>4. CASE NextPart
  BY <1>4, ShownNextPart
<1>5. CASE UNCHANGED allVars
  <2>1. UNCHANGED <<content, done, result, part, from, found>>
    BY <1>5 DEF allVars, vars, search
  <2>2. \A k, stop : Noted(k, stop)' = Noted(k, stop)
    BY <2>1, SameCalls DEF Noted
  <2> QED
    BY <2>1, <2>2, SameCalls, SameMatches, SamePlain, SamePlainStrings
       DEF ShownInv, Inside, Past
<1> QED
  BY <1>1, <1>2, <1>3, <1>4, <1>5 DEF SearchNext

(* A stretch of code without a slash, which a comment does not begin right *)
(* behind, is searched as a whole.                                         *)
LEMMA StretchSearched ==
  ASSUME content \in Seq(Classes), done, Plain, CodeSearched, Width \in Nat,
         NEW k \in 1 .. End - 1, NEW last \in k .. End - 1, last + 1 - k >= Width,
         \A j \in k .. last : content[j] # "/", ~LineOpens(last + 1),
         \A t \in Tokens : k \notin Inside(t)
  PROVE  \E r \in Ranges : k .. last \subseteq Inside(r)
<1> DEFINE B == {b \in AllBegins : b \in 1 .. k}
           b == CHOOSE x \in B : \A y \in B : y <= x
           ends == {c[1] : c \in Comments} \cup {End}
           E == {d \in ends : d >= b}
           e == FirstOf(E)
<1>0. End \in Nat \ {0} /\ k \in Nat \ {0} /\ last \in Nat \ {0} /\ k <= last /\ last < End
  BY Places
<1>1. b \in B /\ \A y \in B : y <= b
  <2>1. B \in SUBSET (1 .. k) /\ 1 \in B
    <3>1. 1 \in AllBegins /\ 1 \in 1 .. k
      BY <1>0 DEF AllBegins
    <3> QED
      BY <3>1
  <2>2. B # {} /\ k \in Nat
    BY <1>0, <2>1
  <2> HIDE DEF B
  <2> QED
    BY <2>1, <2>2, Greatest
<1> HIDE DEF b
<1>2. b \in AllBegins /\ b \in Nat \ {0} /\ b <= k
  BY <1>0, <1>1
<1>3. <<b, e>> \in Gaps
  BY <1>2, Zenon DEF Gaps, AllBegins
<1>4. e \in E
  <2>1. \A d \in ends : d \in 1 .. End
    BY <1>0, TokenTypes DEF Comments
  <2>2. E \in SUBSET (1 .. End) /\ End \in E
    BY <1>0, <1>2, <2>1
  <2>3. E # {}
    BY <2>2
  <2> HIDE DEF E
  <2> QED
    BY <2>2, <2>3, FirstIs
<1> HIDE DEF e
<1>5. e \in ends /\ b <= e
  BY <1>4
<1>6. e \in Nat /\ last < e
  <2>1. CASE e = End
    BY <1>0, <2>1
  <2>2. ASSUME NEW c \in Comments, e = c[1] PROVE e \in Nat /\ last < e
    <3>1. /\ c \in Tokens /\ c[1] \in 1 .. End - 1 /\ c[2] \in c[1] + 1 .. End
          /\ content[c[1]] = "/"
      BY TokenTypes DEF Comments
    <3>2. e \in Nat /\ c[2] \in Nat /\ e < c[2] /\ e = c[1] /\ e \notin k .. last
      BY <1>0, <2>2, <3>1
    <3>3. ~(e < k)
      <4>1. SUFFICES ASSUME e < k PROVE FALSE
        OBVIOUS
      <4>2. c[2] <= k
        <5>1. k \notin c[1] .. c[2] - 1
          BY <3>1 DEF Inside
        <5> QED
          BY <1>0, <3>2, <4>1, <5>1
      <4>3. c[2] \in B
        BY <1>0, <3>1, <3>2, <4>2 DEF AllBegins
      <4>4. c[2] <= b
        BY <1>1, <4>3
      <4> QED
        BY <1>2, <1>5, <3>2, <4>4
    <3> QED
      BY <1>0, <3>2, <3>3
  <2> QED
    BY <1>5, <2>1, <2>2
<1>7. CodeEnd(e) \in Nat /\ last < CodeEnd(e)
  <2>1. LineOpens(e) => e # last + 1
    OBVIOUS
  <2> QED
    BY <1>0, <1>6, <2>1 DEF CodeEnd
<1>8. PICK r \in Ranges : (b .. CodeEnd(e) - 1) \subseteq Inside(r)
  <2>1. Covered(<<b, e>>)
    BY <1>3 DEF CodeSearched, AllCodeSearched
  <2>2. CodeEnd(e) - b >= Width
    BY <1>0, <1>2, <1>7
  <2> QED
    BY <2>1, <2>2 DEF Covered
<1>9. k .. last \subseteq b .. CodeEnd(e) - 1
  BY <1>0, <1>2, <1>7
<1> QED
  BY <1>8, <1>9

(* What the decoder shows of a call is what it says.                       *)
LEMMA TextIsShown ==
  ASSUME content \in Seq(Classes), PlainStrings, NEW k \in 1 .. End - 1, NEW stop \in 1 .. End,
         NEW o \in 1 .. End - 1, NEW c \in o .. End - 1, Region(o, c, Strings[k + 1]),
         Opening(k, stop) = o, ClosingQuote(stop)[o + 1] = c
  PROVE  Cleaned(TextOf(k, stop)) = Spelled(k)
<1>1. TextOf(k, stop) = Simplified(SubSeq(content, o, c))
  BY DEF TextOf
<1>2. Lists(TextOf(k, stop), Kept(o, c) \cap Quoted(Strings[k + 1]), content)
  BY <1>1, SimplifiedLists
<1>3. Lists(Cleaned(TextOf(k, stop)), Spoken(o, c, Strings[k + 1]), Shown)
  BY <1>2, CleanedLists
<1>4. Lists(Spelled(k), Spoken(o, c, Strings[k + 1]), Shown)
  BY SpelledLists
<1> QED
  BY <1>3, <1>4, ListedOnce

LEMMA ShownAre ==
  ASSUME Width <= 4
  PROVE  RangeInv /\ FoundInv /\ ShownInv /\ CodeSearched => CallsShown
<1> SUFFICES ASSUME RangeInv, FoundInv, ShownInv, CodeSearched, Searched,
                    NEW k \in 1 .. End - 1, IsCall(k), Visible(k)
             PROVE  \E n \in DOMAIN found :
                      found[n].tag = k /\ Cleaned(found[n].text) = Spelled(k)
  BY DEF CallsShown
<1>0. /\ content \in Seq(Classes) /\ End \in Nat \ {0} /\ Width \in Nat /\ RangesDisjoint
      /\ result \in Seq(Nat \X Nat) /\ Len(result) \in Nat /\ part \in Nat /\ Len(result) < part
      /\ done /\ Plain /\ PlainStrings
  BY Places, LenProperties, FilterAssumption DEF RangeInv, FoundInv, Searched
<1>1. PICK c \in k + 2 .. End - 1, last \in k + 3 .. End - 1 :
        /\ Region(Skipped[k + 1], c, Strings[k + 1])
        /\ Skipped[k + 1] \in k + 1 .. c - 1
        /\ \A j \in k + 1 .. Skipped[k + 1] - 1 : content[j] \in Blanks \cup {"bs"}
        /\ c < last /\ \A j \in c + 1 .. last - 1 : content[j] \in Blanks
        /\ content[last] = "e" /\ ~LineOpens(last + 1)
        /\ \A stop \in last + 1 .. End :
             /\ Opening(k, stop) = Skipped[k + 1] /\ Matches(k, stop)
             /\ Region(Skipped[k + 1], ClosingQuote(stop)[Skipped[k + 1] + 1],
                       Strings[k + 1])
  BY <1>0, CallStands
<1>2. PICK o : o = Skipped[k + 1]
  OBVIOUS
<1>3. /\ o \in Nat /\ k < o /\ o < c /\ c < last /\ k \in Nat /\ c \in Nat /\ last \in Nat
      /\ last < End /\ k + 3 <= last /\ o \in 1 .. End - 1
  BY <1>0, <1>1, <1>2
<1>4. ASSUME NEW j \in k .. last PROVE content[j] # "/"
  <2>1. j = k \/ j \in k + 1 .. o - 1 \/ j \in o .. c \/ j \in c + 1 .. last - 1 \/ j = last
    BY <1>3
  <2>2. CASE j = k
    BY <2>2 DEF IsCall
  <2>3. CASE j \in k + 1 .. o - 1 \/ j \in c + 1 .. last - 1 \/ j = last
    BY <1>1, <1>2, <2>3 DEF Blanks
  <2>4. CASE j \in o .. c
    <3>1. content[j] \in Blanks \/ \E t \in Strings[k + 1] : t \in Literals /\ j \in Inside(t)
      BY <1>1, <1>2, <2>4 DEF Region
    <3> QED
      BY <1>0, <3>1 DEF Plain, Blanks
  <2> QED
    BY <2>1, <2>2, <2>3, <2>4
<1>5. PICK r \in Ranges : k .. last \subseteq Inside(r)
  <2>1. k \in 1 .. End - 1 /\ last \in k .. End - 1 /\ last + 1 - k >= Width
    BY <1>0, <1>3
  <2>2. \A t \in Tokens : k \notin Inside(t)
    BY DEF IsCall
  <2> QED
    BY <1>0, <1>1, <1>4, <2>1, <2>2, StretchSearched
<1>6. PICK p \in 1 .. Len(result) : r = result[p]
  BY <1>0 DEF Ranges
<1>7. /\ k \in Inside(result[p]) /\ result[p][2] \in last + 1 .. End /\ p \in Nat /\ p < part
  <2>1. k \in Inside(r) /\ last \in Inside(r)
    BY <1>3, <1>5
  <2>2. r[1] \in Nat /\ r[2] \in Nat /\ r[2] <= End
    BY <1>0, <1>6 DEF RangesDisjoint
  <2>3. last + 1 <= r[2] /\ last + 1 \in Nat
    BY <1>3, <2>1, <2>2 DEF Inside
  <2>4. r[2] \in last + 1 .. End
    BY <1>0, <2>2, <2>3
  <2>5. p \in Nat /\ p < part
    BY <1>0
  <2> QED
    BY <1>6, <2>1, <2>4, <2>5
<1>8. PICK stop : stop = result[p][2]
  OBVIOUS
<1>9. /\ Opening(k, stop) = o /\ Matches(k, stop) /\ stop \in 1 .. End /\ stop \in last + 1 .. End
      /\ Region(o, ClosingQuote(stop)[o + 1], Strings[k + 1])
  BY SMTT(30), <1>1, <1>2, <1>3, <1>7, <1>8
<1>10. Noted(k, stop)
  BY <1>0, <1>7, <1>8, <1>9 DEF ShownInv, Past
<1>11. PICK n \in 1 .. Len(found) : found[n].tag = k /\ found[n].text = TextOf(k, stop)
  BY <1>10 DEF Noted
<1>12. Cleaned(TextOf(k, stop)) = Spelled(k)
  <2>1. ClosingQuote(stop)[o + 1] \in o .. End - 1
    <3>1. o + 1 \in 1 .. stop + 1
      BY <1>3, <1>9
    <3>2. ClosingQuote(stop)[o + 1] \in o + 1 .. stop - 1
      BY <1>0, <1>9, <3>1, ClosingTo DEF Matches
    <3>3. PICK d : d = ClosingQuote(stop)[o + 1]
      OBVIOUS
    <3>4. stop \in Nat /\ stop <= End /\ d \in o + 1 .. stop - 1
      BY <1>0, <1>9, <3>2, <3>3
    <3>5. d \in o .. End - 1
      BY <1>0, <1>3, <3>4
    <3> QED
      BY <3>3, <3>5
  <2> QED
    BY <1>0, <1>3, <1>9, <2>1, TextIsShown
<1>13. n \in DOMAIN found
  BY <1>11 DEF FoundInv
<1> QED
  BY <1>11, <1>12, <1>13

(* In a text that is Plain and has PlainStrings every call of the code     *)
(* that is Visible is found, and shown as it was written: the escapes,     *)
(* continued lines and literals side by side that FilterUncommentedParts,  *)
(* logPattern, SimplifyMultilineString and DescriptorCleaner each handle   *)
(* add up to what they are in C.  A call has four characters or more, so   *)
(* that Width must not ask for more of a part.                             *)
THEOREM CallsAreShown ==
  ASSUME Width <= 4
  PROVE  SearchSpec => []CallsShown
<1>1. SearchInit => RangeInv /\ FoundInv /\ ShownInv
  BY RangeInit, FoundInit DEF SearchInit, Init, ShownInv
<1>2. [SearchNext]_allVars => [Next]_vars
  BY DEF SearchNext, FirstPart, FindNext, NextPart, allVars, Next
<1>3. RangeInv /\ FoundInv /\ ShownInv /\ NothingCommented /\ [SearchNext]_allVars
        => RangeInv' /\ FoundInv' /\ ShownInv'
  BY <1>2, RangeNext, FoundNext, ShownNext
<1>4. RangeInv /\ FoundInv /\ ShownInv /\ CodeSearched => CallsShown
  BY ShownAre
<1>5. SearchSpec => []NothingCommented /\ []CodeSearched
  BY SearchFilters, PTL
<1> QED
  BY <1>1, <1>3, <1>4, <1>5, PTL DEF SearchSpec

=============================================================================
