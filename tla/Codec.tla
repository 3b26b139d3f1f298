------------------------------- MODULE Codec --------------------------------
(***************************************************************************)
(* How a printf placeholder travels: Common/ArgEncoder, the regular        *)
(* expressions of ProjectProcessor and DescriptorChunker, the lines of     *)
(* Tags.h and map.slog made from them.  Pure operators, used by Wire.      *)
(*                                                                         *)
(* A placeholder is its length modifier and its conversion.  Flags, width  *)
(* and precision match the same way in the three expressions and are left  *)
(* out.  A conversion stands for its class, whose letters are treated      *)
(* alike everywhere: "d" for d i, "u" for o x X u, "f" for f F e E a A g G.*)
(***************************************************************************)
EXTENDS Naturals, Sequences, FiniteSets

CONSTANT SizeOf  \* TypeConfig.yaml: name of a C type -> bytes

Modifiers   == {"", "hh", "h", "l", "ll", "j", "z", "t", "L"}
Conversions == {"c", "s", "d", "u", "f", "p", "n"}

(* "%%" before a blank and a letter, as in "50%% done", is a percent sign  *)
(* to printf; all patterns take "% d" in it for a placeholder.             *)
PercentSign == [ext |-> "%", base |-> "d"]

(* Everything argPattern matches, and so everything ExtractArguments looks *)
(* up in the tables of ArgEncoder.                                         *)
Placeholders == [ext : Modifiers, base : Conversions] \cup {PercentSign}

TypeNames == {"short", "int", "long", "long long", "double", "long double",
              "wchar_t", "intmax_t", "size_t", "ptrdiff_t", "void*"}

(* The sizes the constructor of ArgEncoder accepts.                        *)
AllowedSizes == {1, 2, 4, 8, 16}

ASSUME SizeAssumption == SizeOf \in [TypeNames -> AllowedSizes]

-----------------------------------------------------------------------------
(* ArgEncoder.                                                             *)

StringCode     == 127
WideStringCode == 126

Arg(size, type) == [bytes |-> size, type |-> type]

(* argToByteMapBasic and argToByteMapExtended: which C type gives the size *)
(* of an integer, by modifier.                                             *)
IntegerSize(ext) ==
  CASE ext = "hh" -> 1
    [] ext = "h"  -> SizeOf["short"]
    [] ext \in {"", "%"} -> SizeOf["int"]
    [] ext = "l"  -> SizeOf["long"]
    [] ext = "ll" -> SizeOf["long long"]
    [] ext = "j"  -> SizeOf["intmax_t"]
    [] ext = "z"  -> SizeOf["size_t"]
    [] ext = "t"  -> SizeOf["ptrdiff_t"]

Encodable(p) ==
  \/ p.base \in {"d", "u"} /\ p.ext # "L"
  \/ p.base \in {"c", "s"} /\ p.ext \in {"", "l"}
  \/ p.base = "f" /\ p.ext \in {"", "l", "L"}
  \/ p.base = "p" /\ p.ext = ""

GetByteSize(p) ==
  CASE p.base = "d" -> Arg(IntegerSize(p.ext), "i")
    [] p.base = "u" -> Arg(IntegerSize(p.ext), "u")
    [] p.base = "c" -> Arg(IF p.ext = "l" THEN SizeOf["wchar_t"] ELSE 1, "u")
    [] p.base = "s" -> IF p.ext = "l" THEN Arg(WideStringCode, "u") ELSE Arg(StringCode, "s")
    [] p.base = "f" -> Arg(SizeOf[IF p.ext = "L" THEN "long double" ELSE "double"], "d")
    [] p.base = "p" -> Arg(SizeOf["void*"], "u")

(* DecodeArg with its default maxArgSize of 16: what it accepts.           *)
Decodable(arg) == arg.bytes <= 16 \/ arg.bytes = StringCode

-----------------------------------------------------------------------------
(* ProjectProcessor: one byte per argument in Tags.h, and the placeholder  *)
(* as it appears in map.slog.                                              *)

ArgCode(p) ==
  LET arg == GetByteSize(p) IN arg.bytes + IF arg.type = "d" THEN 16 ELSE 0

(* "L" is inserted before the letter of a float, behind what stands there; *)
(* of the modifiers it can have that is nothing or "l".                    *)
WithL(ext) == IF ext = "" THEN "L" ELSE "lL"

(* Mutation: size_t and the like keep their modifier.                      *)
Unify_KeepOthers(p) ==
  IF p.base \in {"d", "u"} /\ p.ext \in {"", "hh", "h", "l"} THEN [p EXCEPT !.ext = "ll"]
  ELSE IF p.base = "f" /\ p.ext # "L" THEN [p EXCEPT !.ext = WithL(p.ext)]
  ELSE p

(* UnifyArgumentTags: "%d" becomes "%lld", and "%lf" becomes "%lLf".        *)
Unify(p) ==
  IF p.base \in {"d", "u"} /\ p.ext # "L" THEN [p EXCEPT !.ext = "ll"]
  ELSE IF p.base = "f" /\ p.ext # "L" THEN [p EXCEPT !.ext = WithL(p.ext)]
  ELSE p

-----------------------------------------------------------------------------
(* LogDecoder: DescriptorChunker::DivideToChunks on a row of the map.      *)

(* What substringArgPattern finds in a unified message.                    *)
Chunked(p) == p.ext \in {"", "ll", "L"} /\ p.base # "n"

(* A message is a sequence of placeholders.  The k-th one that is found    *)
(* takes the k-th argument of the row; text that follows the last one, and *)
(* placeholders that were not found, are printed without an argument.      *)
Chunks(message) ==
  LET found == {k \in DOMAIN message : Chunked(Unify(message[k]))}
  IN  [k \in 1 .. Cardinality(found) |-> GetByteSize(message[k])]

(* A row with an argument DecodeArg rejects is ignored by LoadMapLine.     *)
RowLoads(message) == \A k \in DOMAIN Chunks(message) : Decodable(Chunks(message)[k])

Descriptor(message) == IF RowLoads(message) THEN Chunks(message) ELSE <<>>

=============================================================================
