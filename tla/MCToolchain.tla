---------------------------- MODULE MCToolchain -----------------------------
(* One file with two calls, two messages, three targets.                   *)
EXTENDS Toolchain, TLC

TagOfMessage == [m \in Messages |-> [of |-> m]]
AllTags      == {[of |-> m] : m \in Messages} \cup {[of |-> "typed"], [of |-> "torn"]}
TypedTag     == [of |-> "typed"]
TornTag      == [of |-> "torn"]

(* That of the default file, a small one, and one of 32 bits.              *)
Desktop == DefaultFile
Small   == [Desktop EXCEPT !["int"] = 2, !["long"] = 4, !["double"] = 4,
                           !["long double"] = 4, !["size_t"] = 2, !["void*"] = 2]
X86     == [Desktop EXCEPT !["long"] = 4, !["long double"] = 12, !["wchar_t"] = 4]

Symmetry == Permutations(Messages)

SomeTargets == {Desktop, Small, X86}

=============================================================================
