------------------------------ MODULE Project -------------------------------
(***************************************************************************)
(* What a run of the ProjectProcessor promises about the disk, threads and *)
(* failures left out: in the sources it changes nothing but tags, and the  *)
(* map and the header it leaves are beginnings of one numbering of         *)
(* messages that are in the sources.  ProjectProcessor.tla implements it.  *)
(***************************************************************************)
EXTENDS Naturals, Sequences, FiniteSets

CONSTANTS Files, Messages, Tags,
          TagOf,        \* message -> tag
          Placeholder,  \* the tag a developer types
          Torn,         \* what a tag is when its writing was cut off
          MaxCalls,     \* bound: LOG calls in a file
          None

VARIABLES src,     \* file -> LOG calls
          map,     \* id -> message
          header,  \* tag -> id
          ids      \* message -> id: the numbering of the run, or None

project == <<src, map, header, ids>>

ProjectInit ==
  /\ src = [f \in Files |-> <<>>]
  /\ map = <<>> /\ header = <<>> /\ ids = None

MessagesOf(calls) == {calls[k].msg : k \in DOMAIN calls}

AddLog(f, m) ==
  /\ ids = None
  /\ Len(src[f]) < MaxCalls
  /\ src' = [src EXCEPT ![f] = Append(@, [msg |-> m, tag |-> Placeholder])]
  /\ UNCHANGED <<map, header, ids>>

ChangeMessage(f, k, m) ==
  /\ ids = None
  /\ src' = [src EXCEPT ![f][k].msg = m]
  /\ UNCHANGED <<map, header, ids>>

Places == UNION {{<<f, k>> : k \in DOMAIN src[f]} : f \in Files}

(* Any part of the calls get their tags, or half of them.                  *)
Retag(right, torn) ==
  /\ ids = None
  /\ src' = [f \in Files |-> [k \in DOMAIN src[f] |->
               IF <<f, k>> \in torn THEN [src[f][k] EXCEPT !.tag = Torn]
               ELSE IF <<f, k>> \in right THEN [src[f][k] EXCEPT !.tag = TagOf[src[f][k].msg]]
               ELSE src[f][k]]]
  /\ UNCHANGED <<map, header, ids>>

(* Files that could not be opened are missing.                             *)
Number(S) ==
  /\ ids = None
  /\ S \subseteq UNION {MessagesOf(src[f]) : f \in Files}
  /\ ids' \in {f \in [S -> 1 .. Cardinality(S)] : \A m, n \in S : f[m] = f[n] => m = n}
  /\ UNCHANGED <<src, map, header>>

Sizes == 0 .. Cardinality(Messages)

Rows(n)  == [i \in {ids[m] : m \in DOMAIN ids} \cap 1 .. n |->
               CHOOSE m \in DOMAIN ids : ids[m] = i]
Lines(n) == [t \in {TagOf[m] : m \in {l \in DOMAIN ids : ids[l] <= n}} |->
               ids[CHOOSE m \in DOMAIN ids : TagOf[m] = t]]

WriteMap(n) ==
  /\ ids # None
  /\ map' = Rows(n)
  /\ ids' \in {ids} \cup {None}
  /\ UNCHANGED <<src, header>>

WriteHeader(n) ==
  /\ ids # None
  /\ header' = Lines(n)
  /\ ids' \in {ids} \cup {None}
  /\ UNCHANGED <<src, map>>

End == ids # None /\ ids' = None /\ UNCHANGED <<src, map, header>>

Edit ==
  \/ \E f \in Files, m \in Messages : AddLog(f, m)
  \/ \E f \in Files, m \in Messages : \E k \in DOMAIN src[f] : ChangeMessage(f, k, m)

ProjectNext ==
  \/ Edit
  \/ \E right, torn \in SUBSET Places : Retag(right, torn)
  \/ \E S \in SUBSET Messages : Number(S)
  \/ \E n \in Sizes : WriteMap(n) \/ WriteHeader(n)
  \/ End

ProjectSpec == ProjectInit /\ [][ProjectNext]_project

=============================================================================
