----------------------------- MODULE TypeConfig ------------------------------
(***************************************************************************)
(* slog/TypeConfig.yaml: printed by the target (TypeSizeDiscovery.h), read *)
(* by TypeConfigLoader, accepted by the constructor of ArgEncoder, checked *)
(* once more by the preprocessor in ShrinkLog.h.  A file is a function     *)
(* from keys to values; a value that is no number is NotANumber.           *)
(***************************************************************************)
EXTENDS Integers

(* obligatoryFields and allowedValues.                                     *)
ObligatoryFields == {"short", "int", "long", "long long", "double", "long double",
                     "wchar_t", "intmax_t", "size_t", "ptrdiff_t", "void*"}
AllowedValues == {1, 2, 4, 8, 16}

NotANumber == -1

(* Mutation: one digit for every size.                                     *)
SlogPutSize_Digit(size) == size % 10

(* Sizes that are not printed come out as "err".                           *)
SlogPutSize(size) == IF size <= 8 \/ size = 16 THEN size ELSE NotANumber

(* SlogDiscover: a line for the endianness, a word, and one for each type. *)
SlogDiscover(sizes) ==
  [key \in ObligatoryFields \cup {"endianness"} |->
     IF key = "endianness" THEN NotANumber ELSE SlogPutSize(sizes[key])]

Typed(file) == [key \in DOMAIN file \ {"endianness"} |-> file[key]]

(* Every value of the file, whatever its key, is converted to unsigned.    *)
LoadTypesSize(file) == \A key \in DOMAIN file : file[key] >= 0

Accepted(file) ==
  /\ LoadTypesSize(file)
  /\ \A key \in ObligatoryFields : key \in DOMAIN file /\ file[key] \in AllowedValues

(* SLOG_INT_PLAIN_B_SIZE and SLOG_INT_MAX_B_SIZE, from the file.           *)
IntSizesCompile(file) ==
  /\ {file["int"], file["long long"]} \subseteq {1, 2, 4, 8}
  /\ file["int"] <= file["long long"]

DefaultFile ==
  [key \in ObligatoryFields |->
     CASE key \in {"short", "wchar_t"} -> 2
       [] key = "int" -> 4
       [] key = "long double" -> 16
       [] OTHER -> 8]

=============================================================================
