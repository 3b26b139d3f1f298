--------------------------- MODULE CommentFilter ----------------------------
(***************************************************************************)
(* ProjectProcessor::FilterUncommentedParts: the parts of a file in which  *)
(* LOG calls are looked for, found by one pass over its characters, and    *)
(* compared with what a comment is in C.                                   *)
(*                                                                         *)
(* Characters are known by their class: "/", "*", "nl" (newline), "q"      *)
(* (double quote), "bs" (backslash), "sp" (blank), "n" (the letter), "e"   *)
(* (comma or parenthesis), "c" (any other); "L" stands for the seventeen   *)
(* characters LOG(SLOG_xxxxxxx, of a call.  Positions count from 1; a      *)
(* range <<b, e>> is what lies in b .. e - 1.                              *)
(***************************************************************************)
EXTENDS Integers, Sequences

CONSTANTS Width,     \* minimumRangeWidth
          Texts      \* the contents of a file

Classes == {"/", "*", "nl", "q", "bs", "sp", "n", "e", "c", "L"}

ASSUME FilterAssumption ==
  /\ Width \in Nat \ {0}
  /\ \A t \in Texts : t \in Seq(Classes)

VARIABLES
  content,             \* fileContent
  it,                  \* the position looked at
  firstSlashDetected,
  inComment,
  blockComment,
  endStarDetected,
  partBegin,           \* where the current part starts
  result,              \* the ranges found
  done                 \* the function has returned

flags == <<firstSlashDetected, inComment, blockComment, endStarDetected>>
vars  == <<content, it, flags, partBegin, result, done>>

Init ==
  /\ content \in Texts
  /\ it = 1 /\ partBegin = 1
  /\ firstSlashDetected = FALSE /\ inComment = FALSE
  /\ blockComment = FALSE /\ endStarDetected = FALSE
  /\ result = <<>>
  /\ done = FALSE

-----------------------------------------------------------------------------
(* Mutation: a part reaches back to the start of the file.                 *)
WithRange_FromStart(end) ==
  IF end - partBegin >= Width THEN Append(result, <<1, end>>) ELSE result

(* SetRangeIfValid.  The distance may be negative.                         *)
WithRange(end) ==
  IF end - partBegin >= Width THEN Append(result, <<partBegin, end>>) ELSE result

Here == content[it]

Step(level) ==
  /\ ~done /\ Len(content) >= Width /\ it <= Len(content)
  /\ level
  /\ it' = it + 1
  /\ UNCHANGED <<content, done>>

TooShort ==
  /\ ~done /\ Len(content) < Width
  /\ done' = TRUE
  /\ UNCHANGED <<content, it, flags, partBegin, result>>

(* Level 3.  A second star in a row is not taken for the first of an end.  *)
EndBlock ==
  /\ Step(endStarDetected)
  /\ endStarDetected' = FALSE
  /\ IF Here = "/"
     THEN /\ firstSlashDetected' = FALSE /\ inComment' = FALSE /\ blockComment' = FALSE
          /\ partBegin' = it + 1
     ELSE UNCHANGED <<firstSlashDetected, inComment, blockComment, partBegin>>
  /\ UNCHANGED result

(* Level 2.                                                                *)
InBlock ==
  /\ Step(~endStarDetected /\ inComment /\ blockComment)
  /\ endStarDetected' = (Here = "*")
  /\ UNCHANGED <<firstSlashDetected, inComment, blockComment, partBegin, result>>

(* Mutation: the part after a line comment starts where the last one did.  *)
InLine_SameBegin ==
  /\ Step(~endStarDetected /\ inComment /\ ~blockComment)
  /\ IF Here = "nl" THEN firstSlashDetected' = FALSE /\ inComment' = FALSE
     ELSE UNCHANGED <<firstSlashDetected, inComment>>
  /\ UNCHANGED <<blockComment, endStarDetected, partBegin, result>>

InLine ==
  /\ Step(~endStarDetected /\ inComment /\ ~blockComment)
  /\ IF Here = "nl"
     THEN firstSlashDetected' = FALSE /\ inComment' = FALSE /\ partBegin' = it + 1
     ELSE UNCHANGED <<firstSlashDetected, inComment, partBegin>>
  /\ UNCHANGED <<blockComment, endStarDetected, result>>

(* Level 1.  The part ends behind the slash of a block comment, and one    *)
(* character before that of a line comment.                                *)
AfterSlash ==
  /\ Step(~endStarDetected /\ ~inComment /\ firstSlashDetected)
  /\ inComment' = (Here \in {"*", "/"})
  /\ blockComment' = (Here = "*")
  /\ firstSlashDetected' = (Here \in {"*", "/"})
  /\ result' = CASE Here = "*" -> WithRange(it)
                 [] Here = "/" -> WithRange(it - 2)
                 [] OTHER      -> result
  /\ UNCHANGED <<endStarDetected, partBegin>>

(* Level 0.                                                                *)
InCode ==
  /\ Step(~endStarDetected /\ ~inComment /\ ~firstSlashDetected)
  /\ firstSlashDetected' = (Here = "/")
  /\ UNCHANGED <<inComment, blockComment, endStarDetected, partBegin, result>>

(* Mutation: the code behind the last comment is forgotten.                *)
Finish_NoTail ==
  /\ ~done /\ Len(content) >= Width /\ it > Len(content)
  /\ result' = IF result = <<>> THEN WithRange(it) ELSE result
  /\ done' = TRUE
  /\ UNCHANGED <<content, it, flags, partBegin>>

(* The last part, which no comment ends.  It is also added when the file   *)
(* ends in a comment and has no part yet.                                  *)
Finish ==
  /\ ~done /\ Len(content) >= Width /\ it > Len(content)
  /\ result' = IF ~inComment \/ result = <<>> THEN WithRange(it) ELSE result
  /\ done' = TRUE
  /\ UNCHANGED <<content, it, flags, partBegin>>

Next == TooShort \/ EndBlock \/ InBlock \/ InLine \/ AfterSlash \/ InCode \/ Finish

Spec == Init /\ [][Next]_vars

-----------------------------------------------------------------------------
(* The reference: comments and string literals of C, left to right.        *)

End == Len(content) + 1

FirstOf(S) == IF S = {} THEN End ELSE CHOOSE k \in S : \A j \in S : k <= j

At(k, text) == \A j \in DOMAIN text : k + j - 1 < End /\ content[k + j - 1] = text[j]

LineOpens(k)  == At(k, <<"/", "/">>)
BlockOpens(k) == At(k, <<"/", "*">>)

(* An odd number of backslashes stands in front of k.                      *)
Escaped(k) ==
  \E n \in 1 .. k - 1 :
    /\ n % 2 = 1
    /\ \A i \in k - n .. k - 1 : content[i] = "bs"
    /\ k - n = 1 \/ content[k - n - 1] # "bs"

(* Where the comment or literal that opens at k is over.                   *)
Over(k) ==
  CASE LineOpens(k)  -> FirstOf({j + 1 : j \in {i \in k + 2 .. End - 1 : content[i] = "nl"}})
    [] BlockOpens(k) -> FirstOf({j + 2 : j \in {i \in k + 2 .. End - 2 : At(i, <<"*", "/">>)}})
    [] At(k, <<"q">>) -> FirstOf({j + 1 : j \in {i \in k + 1 .. End - 1 :
                                                   content[i] = "q" /\ ~Escaped(i)}})

(* Comments and literals from position k on.                               *)
TokensFrom[k \in 1 .. End] ==
  IF k = End THEN {}
  ELSE IF LineOpens(k) \/ BlockOpens(k) \/ At(k, <<"q">>)
       THEN {<<k, Over(k)>>} \cup TokensFrom[Over(k)]
       ELSE TokensFrom[k + 1]

Tokens == TokensFrom[1]

Comments == {t \in Tokens : content[t[1]] = "/"}
Literals == Tokens \ Comments

Inside(r) == r[1] .. r[2] - 1

(* The code between comments: from the end of one to the start of the next.*)
Gaps ==
  LET begins == {1} \cup {c[2] : c \in Comments}
      ends   == {c[1] : c \in Comments} \cup {End}
  IN  {<<b, FirstOf({e \in ends : e >= b})>> : b \in begins}

Ranges == {result[n] : n \in DOMAIN result}

(* Block comments without two stars in a row, line comments without a      *)
(* continuation, literals without slashes: the text FilterUncommentedParts *)
(* was written for.                                                        *)
Plain ==
  /\ \A c \in Comments : BlockOpens(c[1]) =>
       ~\E k \in c[1] + 2 .. c[2] - 2 : content[k] = "*" /\ content[k + 1] = "*"
  /\ \A c \in Comments : LineOpens(c[1]) => ~\E k \in Inside(c) : content[k] = "bs"
  /\ \A t \in Literals : ~\E k \in Inside(t) : content[k] = "/"

-----------------------------------------------------------------------------
(* The ranges are parts of the file, apart from each other, in order:      *)
(* FindPrints would otherwise find a call twice, and a view of a tag would *)
(* be written through another.                                             *)
RangesDisjoint ==
  \A n \in DOMAIN result :
    /\ 1 <= result[n][1] /\ result[n][1] <= result[n][2] /\ result[n][2] <= End
    /\ \A m \in DOMAIN result : m < n => result[m][2] <= result[n][1]

(* Of a comment no more than its opening slash is searched, or else the    *)
(* file ends inside it and has no other range.                             *)
NothingCommented ==
  done /\ Plain =>
    \A r \in Ranges, c \in Comments :
      \/ Inside(r) \cap Inside(c) \subseteq {c[1]}
      \/ c[2] = End /\ inComment /\ Len(result) = 1

(* The code in front of a comment or of the end of the file: a line        *)
(* comment costs the last character of it.                                 *)
CodeEnd(e) == IF LineOpens(e) THEN e - 1 ELSE e

(* The code between two comments is searched when it is wide enough to     *)
(* hold a call.                                                            *)
Covered(gap) ==
  CodeEnd(gap[2]) - gap[1] >= Width =>
    \E r \in Ranges : (gap[1] .. CodeEnd(gap[2]) - 1) \subseteq Inside(r)

(* ProjectProcessor.cpp:199, "Uncommented file ranges are recognized as    *)
(* the text between comments": in any file.                                *)
AllCodeSearched == done => \A gap \in Gaps : Covered(gap)

(* That is so in a text where no block comment has two stars in a row      *)
(* before those that end it, no line comment a backslash and no literal a  *)
(* slash.                                                                  *)
CodeSearched == Plain => AllCodeSearched

=============================================================================
