------------------------------- MODULE MCWire -------------------------------
(* Finite instances of Wire: type configurations and sets of messages.     *)
EXTENDS Wire

(* TargetLib/TypeConfigs/default/TypeConfig.yaml.                          *)
DefaultSizes ==
  [t \in TypeNames |->
     CASE t \in {"short", "wchar_t"} -> 2
       [] t = "int" -> 4
       [] t = "long double" -> 16
       [] OTHER -> 8]

(* A 16-bit target: no type has sixteen bytes, a double has four.          *)
SmallSizes ==
  [t \in TypeNames |->
     CASE t \in {"long", "double", "long double"} -> 4
       [] t \in {"long long", "intmax_t"} -> 8
       [] OTHER -> 2]

P(ext, base) == [ext |-> ext, base |-> base]

Working == {p \in Placeholders : Encodable(p) /\ Supported(p)}
Typical == {P("", "d"), P("hh", "u"), P("z", "u"), P("", "f"), P("L", "f"),
            P("", "c"), P("", "s"), P("", "p")}

Pairs(S, T) == {<<p, q>> : p \in S, q \in T}
Singles(S)  == {<<p>> : p \in S}

(* No argument, every working placeholder, every pair of typical ones.     *)
WorkingMessages == {<<>>} \cup Singles(Working) \cup Pairs(Typical, Typical)

(* Also those that are encoded and do not work, each for another reason:   *)
(* no branch in LOG, not found by the chunker, no row in the decoder, wide *)
(* characters, an argument that is not passed.                             *)
MixedMessages ==
  {<<>>, <<P("", "d")>>, <<P("", "s")>>, <<P("", "f")>>, <<P("l", "f"), P("", "s")>>,
   <<P("l", "s"), P("", "d")>>, <<P("l", "c"), P("", "d")>>, <<PercentSign, P("", "d")>>}

OneNumber == {<<P("", "d")>>}
LongDoubleThenDouble == {<<P("L", "f"), P("l", "f")>>}

PlainStrings == {<<>>, <<"chr", "chr">>}
LineStrings  == {<<>>, <<"chr", "eol", "chr">>}

=============================================================================
