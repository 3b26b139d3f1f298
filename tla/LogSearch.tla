----------------------------- MODULE LogSearch ------------------------------
(***************************************************************************)
(* ProjectProcessor::FindPrints: the parts found by FilterUncommentedParts *)
(* are searched for LOG calls (logPattern), whose string literals become   *)
(* one text (SimplifyMultilineString), which the decoder shows when        *)
(* DescriptorCleaner has replaced its escapes.  Compared with what a call, *)
(* its string and the characters of that string are in C.                  *)
(***************************************************************************)
EXTENDS CommentFilter, FiniteSets

VARIABLES
  part,    \* the range that is searched
  from,    \* bufferShift: where in the file the search goes on
  found    \* printArguments: position of the tag, text of the message

search  == <<part, from, found>>
allVars == <<vars, search>>

SearchInit == Init /\ part = 1 /\ from = 1 /\ found = <<>>

-----------------------------------------------------------------------------
(* Sequences of characters.                                                *)

Blanks == {"sp", "nl"}

(* The first position from k on, before stop, that holds none of these.    *)
Behind(k, chars, stop) ==
  LET rest == {j \in k .. stop - 1 : content[j] \notin chars}
  IN  IF rest = {} THEN stop ELSE CHOOSE j \in rest : \A i \in rest : j <= i

Without(text, places) ==
  LET kept[k \in 0 .. Len(text)] ==
        IF k = 0 THEN <<>>
        ELSE IF k \in places THEN kept[k - 1] ELSE Append(kept[k - 1], text[k])
  IN  kept[Len(text)]

(* The last newline among the blanks that follow position k, or k.         *)
LastBreak(text, k) ==
  LET breaks == {j \in k + 1 .. Len(text) :
                   text[j] = "nl" /\ \A i \in k + 1 .. j : text[i] \in Blanks}
  IN  IF breaks = {} THEN k ELSE CHOOSE j \in breaks : \A i \in breaks : i <= j

-----------------------------------------------------------------------------
(* logPattern: the tag, blanks and backslashes around the comma, a string  *)
(* of one or more literals with blanks between them, blanks, a comma or    *)
(* parenthesis.                                                            *)

(* The closing quote of the string some character of which is at k, or 0.  *)
ClosingQuote(stop) ==
  LET close[k \in 1 .. stop + 1] ==
        IF k >= stop \/ content[k] = "nl" THEN 0
        ELSE IF content[k] = "q"
             THEN LET next == Behind(k + 1, Blanks, stop)
                  IN  IF next = stop THEN 0
                      ELSE IF content[next] = "e" THEN k
                      ELSE IF content[next] = "q" THEN close[next + 1] ELSE 0
        ELSE IF content[k] = "bs"
             THEN LET break == LastBreak(SubSeq(content, 1, stop - 1), k)
                  IN  IF break > k THEN close[break + 1] ELSE close[k + 2]
        ELSE close[k + 1]
  IN  close

Opening(k, stop) == Behind(k + 1, Blanks \cup {"bs"}, stop)

Matches(k, stop) ==
  /\ content[k] = "L" /\ Opening(k, stop) < stop
  /\ content[Opening(k, stop)] = "q"
  /\ ClosingQuote(stop)[Opening(k, stop) + 1] # 0

-----------------------------------------------------------------------------
(* SimplifyMultilineString.                                                *)

Undefined == <<"?">>

Continuations(text) ==
  UNION {k .. LastBreak(text, k) : k \in {j \in DOMAIN text :
                                            text[j] = "bs" /\ LastBreak(text, j) > j}}

(* Mutation: a quote behind a backslash counts.                            *)
Quotes_All(text) == {k \in DOMAIN text : text[k] = "q"}

(* A quote behind a backslash does not count, whatever the backslash is.   *)
Quotes(text) == {k \in DOMAIN text : text[k] = "q" /\ (k = 1 \/ text[k - 1] # "bs")}

(* With an odd number the last iterator is read behind the vector.         *)
Simplified(string) ==
  LET text    == Without(string, Continuations(string))
      open(k) == Cardinality({q \in Quotes(text) : q < k}) % 2 = 1
  IN  IF Cardinality(Quotes(text)) % 2 = 1 THEN Undefined
      ELSE Without(text, Quotes(text) \cup {k \in DOMAIN text : ~open(k)})

(* DescriptorCleaner: every backslash with an "n" is a newline.            *)
Cleaned(text) ==
  LET newlines == {k \in 1 .. Len(text) - 1 : text[k] = "bs" /\ text[k + 1] = "n"}
  IN  Without([k \in DOMAIN text |-> IF k \in newlines THEN "nl" ELSE text[k]],
              {k + 1 : k \in newlines})

-----------------------------------------------------------------------------
(* FindPrints.                                                             *)

Calls == {k \in from .. result[part][2] - 1 : Matches(k, result[part][2])}

(* A message whose text is undefined may end the program.                  *)
FindNext ==
  /\ done /\ part <= Len(result)
  /\ Calls # {}
  /\ LET k     == FirstOf(Calls)
         stop  == result[part][2]
         open  == Opening(k, stop)
         close == ClosingQuote(stop)[open + 1]
         text  == Simplified(SubSeq(content, open, close))
     IN  /\ found' = Append(found, [tag |-> k, text |-> text])
         /\ from' = Behind(close + 1, Blanks, stop) + 1
         /\ part' \in {part} \cup {n \in {Len(result) + 1} : text = Undefined}
  /\ UNCHANGED vars

NextPart ==
  /\ done /\ part <= Len(result)
  /\ Calls = {}
  /\ part' = part + 1
  /\ from' = IF part < Len(result) THEN result[part + 1][1] ELSE from
  /\ UNCHANGED <<vars, found>>

FirstPart ==
  /\ Finish
  /\ from' = IF result' = <<>> THEN from ELSE result'[1][1]
  /\ UNCHANGED <<part, found>>

SearchNext ==
  \/ (TooShort \/ EndBlock \/ InBlock \/ InLine \/ AfterSlash \/ InCode) /\ UNCHANGED search
  \/ FirstPart \/ FindNext \/ NextPart

SearchSpec == SearchInit /\ [][SearchNext]_allVars

-----------------------------------------------------------------------------
(* The reference: a call in C, in the code, without comments inside.       *)

(* Behind the blanks and the continued lines at k.                         *)
Skipped ==
  LET skip[k \in 1 .. End + 1] ==
        IF k >= End THEN End
        ELSE IF content[k] \in Blanks THEN skip[k + 1]
        ELSE IF At(k, <<"bs", "nl">>) THEN skip[k + 2] ELSE k
  IN  skip

(* The literals that follow each other from k on, the first blanks passed. *)
Strings ==
  LET after[k \in 1 .. End] ==
        LET open == Skipped[k]
        IN  IF At(open, <<"q">>) THEN {<<open, Over(open)>>} \cup after[Over(open)] ELSE {}
  IN  after

Closed(t) ==
  /\ t[2] - 1 > t[1] /\ content[t[2] - 1] = "q" /\ ~Escaped(t[2] - 1)
  /\ \A k \in Inside(t) : content[k] = "nl" => content[k - 1] = "bs"

IsCall(k) ==
  /\ content[k] = "L" /\ \A t \in Tokens : k \notin Inside(t)
  /\ Strings[k + 1] # {} /\ \A t \in Strings[k + 1] : Closed(t)
  /\ \E t \in Strings[k + 1] : At(Skipped[t[2]], <<"e">>)

(* The characters of its string: \n is a newline, a continued line is      *)
(* joined, any other escape is left as it is written.                      *)
Spelled(k) ==
  LET inside == UNION {t[1] + 1 .. t[2] - 2 : t \in Strings[k + 1]}
      spelled[j \in 1 .. End + 1] ==
        IF j >= End THEN <<>>
        ELSE IF j \notin inside THEN spelled[j + 1]
        ELSE IF At(j, <<"bs", "nl">>) THEN spelled[j + 2]
        ELSE IF At(j, <<"bs", "n">>) THEN <<"nl">> \o spelled[j + 2]
        ELSE IF content[j] = "bs" THEN <<"bs", content[j + 1]>> \o spelled[j + 2]
        ELSE <<content[j]>> \o spelled[j + 1]
  IN  spelled[1]

(* No call is quoted in a literal, and none writes a backslash as \\.      *)
PlainStrings ==
  /\ \A t \in Literals : \A k \in Inside(t) : content[k] # "L" /\ ~At(k, <<"bs", "bs">>)
  /\ \A t \in Literals : Closed(t)

(* Between a tag and its string a backslash continues the line, as in any  *)
(* program that compiles.                                                  *)
PlainTags ==
  \A k \in 1 .. End - 1 : content[k] = "L" =>
    \A j \in k + 1 .. Opening(k, End) - 1 : content[j] = "bs" => At(j + 1, <<"nl">>)

(* Of a call the search can see: no line is continued behind its string or *)
(* between two literals, and no line comment starts right behind it.       *)
Visible(k) ==
  \A t \in Strings[k + 1] :
    LET next == Skipped[t[2]]
    IN  /\ \A j \in t[2] .. next - 1 : content[j] # "bs"
        /\ At(next, <<"e">>) => ~LineOpens(next + 1)

Searched == done /\ part > Len(result) /\ Plain /\ PlainStrings

(* The comment a file ends in, when no part was found before it: the last  *)
(* part is then added all the same and runs through it.                    *)
TrailingComments ==
  {c \in Comments : c[2] = End /\ inComment /\ Len(result) = 1}

(* A tag is written over what the search took for one: every place it      *)
(* found is a call of the code and none lies in a comment, but for the     *)
(* trailing comment of a file without another part.                        *)
FoundAreCalls ==
  Searched /\ PlainTags =>
    \A n \in DOMAIN found :
      \/ IsCall(found[n].tag)
      \/ \E c \in TrailingComments : found[n].tag \in Inside(c)

(* Every call of the code is found, and what the decoder will show of its  *)
(* string, through concatenation, continued lines and escapes, is what the *)
(* programmer wrote.                                                       *)
CallsShown ==
  Searched => \A k \in 1 .. End - 1 : IsCall(k) /\ Visible(k) =>
                \E n \in DOMAIN found :
                  found[n].tag = k /\ Cleaned(found[n].text) = Spelled(k)

=============================================================================
