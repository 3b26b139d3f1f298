------------------------- MODULE MCProjectProcessor -------------------------
(* Finite instances of ProjectProcessor: the tag of a message is a record  *)
(* built from it, which makes TagOf injective.                             *)
EXTENDS ProjectProcessor, TLC

CONSTANTS p1, p2, f1, f2

TwoFiles   == (p1 :> f1) @@ (p2 :> f2)
LinkedFile == (p1 :> f1) @@ (p2 :> f1)

TagOfMessage == [m \in Messages |-> [of |-> m]]
AllTags      == {[of |-> m] : m \in Messages} \cup {[of |-> "typed"], [of |-> "torn"]}
TypedTag     == [of |-> "typed"]
TornTag      == [of |-> "torn"]

=============================================================================
