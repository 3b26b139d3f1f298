----------------------------- MODULE LogChannel -----------------------------
(***************************************************************************)
(* What LOG and the decoder promise together: the decoder shows the logs   *)
(* that were made, each with its own arguments, in the order they were     *)
(* made, and leaves none out before one it shows.                          *)
(***************************************************************************)
EXTENDS Naturals, Sequences

VARIABLES sent,      \* the logs made
          decoded    \* the logs shown

vars == <<sent, decoded>>

Init == sent = <<>> /\ decoded = <<>>

(* A log is whatever it is to its reader: a message with its values.       *)
Log ==
  /\ sent' # <<>> /\ sent' = Append(sent, sent'[Len(sent')])
  /\ UNCHANGED decoded

Decode ==
  /\ Len(decoded) < Len(sent)
  /\ decoded' = Append(decoded, sent[Len(decoded) + 1])
  /\ UNCHANGED sent

Spec == Init /\ [][Log \/ Decode]_vars

=============================================================================
