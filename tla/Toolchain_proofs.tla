-------------------------- MODULE Toolchain_proofs ---------------------------
(***************************************************************************)
(* Proofs about Toolchain for any project, any set of targets and any      *)
(* number of messages, and about the width of an id, on which what the     *)
(* decoder hears depends when there are many of them.                      *)
(***************************************************************************)
EXTENDS Toolchain, FiniteSetTheorems, TLAPS

-----------------------------------------------------------------------------
(* The width and the bytes of an id.                                       *)

(* The firmware and the decoder use the same number of bytes for an id,    *)
(* except when the map has exactly 254 or 65534 rows.                      *)
THEOREM WidthsAgree ==
  ASSUME NEW rows \in Nat
  PROVE  HeaderIdBytes(rows) = DecoderIdBytes(rows) <=> rows \notin {254, 65534}
  BY SMT DEF HeaderIdBytes, DecoderIdBytes, MaxMessageIndex

(* Every id the decoder can accept fits in the bytes of its tag, and is    *)
(* what these bytes stand for.                                             *)
THEOREM IdSurvives ==
  ASSUME NEW maxId \in Nat, NEW id \in 1 .. maxId, DecoderAccepts(maxId)
  PROVE  LET n == HeaderIdBytes(maxId)
         IN  id = IdFromBytes(IdByte(id, 1),
                              IF n >= 2 THEN IdByte(id, 2) ELSE 0,
                              IF n >= 3 THEN IdByte(id, 3) ELSE 0)
<1>1. id \in Nat /\ id < 16777216
  BY DEF DecoderAccepts, MaxMessageIndex
<1>2. id = (id % 256) + 256 * ((id \div 256) % 256) + 65536 * ((id \div 65536) % 256)
  BY <1>1, Z3
<1>3. CASE maxId < 255
  <2>1. id % 256 = id
    BY <1>1, <1>3, Z3
  <2> QED
    BY <1>1, <1>3, <2>1 DEF HeaderIdBytes, IdFromBytes, IdByte
<1>4. CASE maxId >= 255 /\ maxId < 65535
  <2>1. id = (id % 256) + 256 * ((id \div 256) % 256)
    BY <1>1, <1>4, Z3
  <2> QED
    BY <1>4, <2>1 DEF HeaderIdBytes, IdFromBytes, IdByte
<1>5. CASE maxId >= 65535
  BY <1>2, <1>5 DEF HeaderIdBytes, IdFromBytes, IdByte
<1> QED
  BY <1>3, <1>4, <1>5

-----------------------------------------------------------------------------
(* The numbering of a run, and what its map and its header say.            *)

(* A numbering: AssignIDs gives every message a number of its own.         *)
IsNumbering(f) ==
  /\ DOMAIN f \subseteq Messages
  /\ f \in [DOMAIN f -> 1 .. Cardinality(DOMAIN f)]
  /\ \A m, n \in DOMAIN f : f[m] = f[n] => m = n

(* Row id of the map is a message with this tag, and no id is beyond the   *)
(* rows.                                                                   *)
Shows(id, t) ==
  /\ MapRows \in Nat /\ id \in 1 .. MapRows
  /\ id \in DOMAIN map
  /\ map[id] \in Messages
  /\ TagOf[map[id]] = t

(* A complete map has as many rows as there are messages.                  *)
LEMMA FullMap ==
  ASSUME ids # None, IsNumbering(ids)
  PROVE  LET n == Cardinality(DOMAIN ids)
         IN  /\ n \in Nat
             /\ DOMAIN Rows(n) = {ids[m] : m \in DOMAIN ids}
             /\ Cardinality(DOMAIN Rows(n)) = n
<1> DEFINE n == Cardinality(DOMAIN ids)
           R == {ids[m] : m \in DOMAIN ids}
<1>1. IsFiniteSet(DOMAIN ids) /\ n \in Nat
  BY FS_Subset, FS_CardinalityType, ToolchainAssumption DEF IsNumbering
<1>2. R \subseteq 1 .. n
  BY DEF IsNumbering
<1>3. DOMAIN Rows(n) = R
  BY <1>2 DEF Rows
<1>4. [m \in DOMAIN ids |-> ids[m]] \in Bijection(DOMAIN ids, R)
  BY DEF IsNumbering, Bijection, Injection, Surjection, IsInjective
<1>5. Cardinality(R) = n
  BY <1>1, <1>4, FS_Bijection DEF ExistsBijection
<1> QED
  BY <1>1, <1>3, <1>5

(* A line of the header leads to a row of the same tag in a complete map.  *)
LEMMA LinesShow ==
  ASSUME ids # None, IsNumbering(ids),
         map = Rows(Cardinality(DOMAIN ids)),
         NEW n \in Nat, NEW t \in DOMAIN Lines(n)
  PROVE  Shows(Lines(n)[t], t)
<1> DEFINE N == Cardinality(DOMAIN ids)
           m == CHOOSE k \in DOMAIN ids : TagOf[k] = t
           id == ids[m]
<1>1. m \in DOMAIN ids /\ TagOf[m] = t
  BY DEF Lines
<1>2. Lines(n)[t] = id
  BY DEF Lines
<1>3. /\ N \in Nat
      /\ DOMAIN map = {ids[k] : k \in DOMAIN ids}
      /\ Cardinality(DOMAIN map) = N
  BY FullMap
<1> HIDE DEF m
<1>4. id \in 1 .. N /\ id \in DOMAIN map
  BY <1>1, <1>3 DEF IsNumbering
<1>5. map[id] = CHOOSE k \in DOMAIN ids : ids[k] = id
  BY <1>4 DEF Rows
<1>6. map[id] = m
  BY <1>1, <1>5 DEF IsNumbering
<1>7. MapRows \in Nat /\ id \in 1 .. MapRows
  BY <1>3, <1>4 DEF MapRows
<1> QED
  BY <1>1, <1>2, <1>4, <1>6, <1>7 DEF Shows, IsNumbering

-----------------------------------------------------------------------------
(* CurrentLogsDecode.                                                      *)

(* What ties the files together while paired and current say they are.     *)
MapInv ==
  paired = "map" => /\ ids # None
                    /\ map = Rows(Cardinality(DOMAIN ids))
                    /\ mapFile = runFile

HeaderInv ==
  paired = "yes" => /\ headerFile = mapFile
                    /\ headerIdBytes = HeaderIdBytes(MapRows)
                    /\ \A t \in DOMAIN header : Shows(header[t], t)

ImageInv ==
  current => /\ mapFile = imageFile
             /\ imageIdBytes = HeaderIdBytes(MapRows)
             /\ \A t \in DOMAIN image : Shows(image[t], t)

PairInv ==
  /\ ids # None => IsNumbering(ids) /\ runFile # None
  /\ paired \in {"map", "yes"} \/ current => "map" \in exists
  /\ MapInv
  /\ HeaderInv
  /\ ImageInv

LEMMA PairInit == Init => PairInv
  BY DEF Init, ProjectInit, PairInv, MapInv, HeaderInv, ImageInv

(* Nothing that PairInv speaks of changes.                                 *)
LEMMA PairSame ==
  ASSUME PairInv, UNCHANGED <<ids, map, header, runFile>>,
         UNCHANGED <<mapFile, headerFile, headerIdBytes, exists, paired>>, UNCHANGED firmware
  PROVE  PairInv'
  BY DEF PairInv, MapInv, HeaderInv, ImageInv, IsNumbering, Shows, MapRows, Rows, firmware

(* Between runs and while tags are replaced there is no numbering.         *)
LEMMA PairNoIds ==
  ASSUME PairInv, ids = None, ids' = None, UNCHANGED <<map, header>>,
         UNCHANGED <<mapFile, headerFile, headerIdBytes, exists, paired>>, UNCHANGED firmware
  PROVE  PairInv'
  BY DEF PairInv, MapInv, HeaderInv, ImageInv, Shows, MapRows, firmware

LEMMA PairAssignIDs ==
  ASSUME PairInv, AssignIDs
  PROVE  PairInv'
<1>1. PICK S \in SUBSET Messages : Number(S)
  BY DEF AssignIDs
<1>2. /\ ids' \in [S -> 1 .. Cardinality(S)]
      /\ \A m, n \in S : ids'[m] = ids'[n] => m = n
  BY <1>1 DEF Number
<1>3. IsNumbering(ids)'
  BY <1>2 DEF IsNumbering
<1>4. /\ ids = None /\ runFile # None
      /\ UNCHANGED <<map, header, artifacts, firmware>>
  BY <1>1 DEF AssignIDs, Number
<1>5. paired # "map"
  BY <1>4 DEF PairInv, MapInv
<1> QED
  BY <1>3, <1>4, <1>5 DEF PairInv, MapInv, HeaderInv, ImageInv, Shows, MapRows, artifacts, firmware

LEMMA PairMap ==
  ASSUME PairInv, NEW n \in Sizes, GenerateMapFile(n)
  PROVE  PairInv'
<1> USE DEF GenerateMapFile, WriteMap, PairInv
<1>1. (ids # None => IsNumbering(ids) /\ runFile # None)'
  BY DEF RunFile, IsNumbering
<1>2. (paired \in {"map", "yes"} \/ current => "map" \in exists)'
  OBVIOUS
<1>3. MapInv'
  <2>1. SUFFICES ASSUME paired' = "map" PROVE MapInv'
    BY DEF MapInv
  <2>2. ids' # None /\ n = Cardinality(DOMAIN ids)
    BY <2>1
  <2>3. ids' = ids /\ runFile' = runFile /\ map' = Rows(n) /\ mapFile' = runFile
    BY <2>2 DEF RunFile
  <2>4. Rows(Cardinality(DOMAIN ids))' = Rows(n)
    BY <2>2, <2>3 DEF Rows
  <2> QED
    BY <2>2, <2>3, <2>4 DEF MapInv
<1>4. HeaderInv' /\ ImageInv'
  BY DEF HeaderInv, ImageInv
<1> QED
  BY <1>1, <1>2, <1>3, <1>4

LEMMA PairHeader ==
  ASSUME PairInv, NEW n \in Sizes, GenerateHeaderFile(n)
  PROVE  PairInv'
<1> USE DEF GenerateHeaderFile, WriteHeader
<1>1. (ids # None => IsNumbering(ids) /\ runFile # None)'
  BY DEF PairInv, RunFile, IsNumbering
<1>2. (paired \in {"map", "yes"} \/ current => "map" \in exists)'
  BY DEF PairInv, firmware
<1>3. MapInv'
  BY DEF MapInv
<1>4. HeaderInv'
  <2>1. SUFFICES ASSUME paired = "map" PROVE HeaderInv'
    BY DEF HeaderInv
  <2>2. headerFile' = mapFile' /\ UNCHANGED map
    BY <2>1 DEF PairInv, MapInv
  <2>3. /\ ids # None /\ IsNumbering(ids)
        /\ map = Rows(Cardinality(DOMAIN ids))
    BY <2>1 DEF PairInv, MapInv
  <2>4. n \in Nat
    BY FS_CardinalityType, ToolchainAssumption DEF Sizes
  <2>5. \A t \in DOMAIN Lines(n) : Shows(Lines(n)[t], t)
    BY <2>3, <2>4, LinesShow
  <2>6. headerIdBytes' = HeaderIdBytes(MapRows)
    BY <2>3, FullMap DEF MapRows
  <2> QED
    BY <2>2, <2>5, <2>6 DEF HeaderInv, Shows, MapRows
<1>5. ImageInv'
  BY DEF PairInv, ImageInv, Shows, MapRows, firmware
<1> QED
  BY <1>1, <1>2, <1>3, <1>4, <1>5 DEF PairInv

LEMMA PairBuild ==
  ASSUME PairInv, Build
  PROVE  PairInv'
<1>1. /\ UNCHANGED <<ids, map, header, artifacts>>
      /\ current' = (paired = "yes")
      /\ imageFile' = headerFile /\ imageIdBytes' = headerIdBytes
      /\ TagsUsed \subseteq DOMAIN header
      /\ image' = [t \in TagsUsed |-> header[t]]
  BY DEF Build, project
<1>2. ImageInv'
  BY <1>1 DEF PairInv, HeaderInv, ImageInv, Shows, MapRows, artifacts
<1>3. MapInv' /\ HeaderInv'
  BY <1>1 DEF PairInv, MapInv, HeaderInv, Rows, Shows, MapRows, artifacts
<1>4. (paired \in {"map", "yes"} \/ current => "map" \in exists)'
  BY <1>1 DEF PairInv, artifacts
<1> QED
  BY <1>1, <1>2, <1>3, <1>4 DEF PairInv, IsNumbering, artifacts

LEMMA PairNext ==
  ASSUME PairInv, [Next]_vars
  PROVE  PairInv'
<1>1. CASE InstallDiscovered \/ InstallTyped
  BY <1>1, PairSame DEF InstallDiscovered, InstallTyped, project, artifacts
<1>2. CASE EditSources
  BY <1>2, PairSame DEF EditSources, Edit, AddLog, ChangeMessage, artifacts
<1>3. CASE \E cores \in CoreCounts : StartRun(cores)
  BY <1>3, PairNoIds DEF StartRun, PairInv, project
<1>4. CASE ReplaceTags
  BY <1>4, PairNoIds DEF ReplaceTags, Retag
<1>5. CASE AssignIDs
  BY <1>5, PairAssignIDs
<1>6. CASE EndRun
  <2>1. /\ ids' = None /\ paired' # "map" /\ (paired' = "yes" => paired = "yes")
        /\ UNCHANGED <<map, header, mapFile, headerFile, headerIdBytes, exists, firmware>>
    BY <1>6 DEF EndRun, End, PairInv
  <2> QED
    BY <2>1 DEF PairInv, MapInv, HeaderInv, ImageInv, Shows, MapRows, firmware
<1>7. CASE \E n \in Sizes : GenerateMapFile(n) \/ GenerateHeaderFile(n)
  BY <1>7, PairMap, PairHeader
<1>8. CASE Build
  BY <1>8, PairBuild
<1>9. CASE UNCHANGED vars
  BY <1>9, PairSame DEF vars, project, artifacts
<1> QED
  BY <1>1, <1>2, <1>3, <1>4, <1>5, <1>6, <1>7, <1>8, <1>9 DEF Next

(* A map and a firmware of one complete run go together, whatever happens  *)
(* to the sources and the configuration afterwards, for any number of rows *)
(* the decoder accepts but the two at which the widths differ: each log    *)
(* shows the row of a message of its tag.                                  *)
THEOREM LogsOfARunDecode == Spec => []CurrentLogsDecode
<1>1. PairInv => CurrentLogsDecode
  <2>1. SUFFICES ASSUME PairInv, current, IdsAgree, NEW t \in DOMAIN image
                 PROVE  Decoded(image[t]) \in {m \in Messages : TagOf[m] = t}
    BY DEF CurrentLogsDecode, PairInv, ImageInv
  <2> DEFINE id == image[t]
  <2>2. Shows(id, t) /\ "map" \in exists /\ imageIdBytes = HeaderIdBytes(MapRows)
    BY <2>1 DEF PairInv, ImageInv
  <2>3. MapRows \in Nat /\ id \in 1 .. MapRows /\ DecoderAccepts(MapRows)
    BY <2>1, <2>2 DEF Shows, IdsAgree
  <2>4. imageIdBytes = DecoderIdBytes(MapRows)
    BY <2>1, <2>2, <2>3, WidthsAgree DEF IdsAgree
  <2> HIDE DEF id
  <2>5. Heard(id) = id
    BY <2>2, <2>3, IdSurvives DEF Heard
  <2>6. ~(id > MaxMessageIndex(MapRows)) /\ id # MaxMessageIndex(MapRows)
    BY <2>3 DEF MaxMessageIndex
  <2>7. Decoded(id) = map[id]
    BY <2>2, <2>3, <2>4, <2>5, <2>6 DEF Decoded, Shows
  <2> QED
    BY <2>2, <2>7 DEF Shows, id
<1> QED
  BY <1>1, PairInit, PairNext, PTL DEF Spec

-----------------------------------------------------------------------------
(* TypeOK.                                                                 *)

LEMMA TypeMap ==
  ASSUME PairInv, TypeOK, NEW n \in Sizes, GenerateMapFile(n)
  PROVE  TypeOK'
<1>1. IsNumbering(ids) /\ map' = Rows(n)
  BY DEF PairInv, GenerateMapFile, WriteMap
<1>2. DOMAIN Rows(n) \subseteq Nat /\ \A i \in DOMAIN Rows(n) : Rows(n)[i] \in Messages
  BY <1>1 DEF Rows, IsNumbering
<1>3. runFile' = None \/ (runFile' = runFile /\ runFile # None)
  BY DEF GenerateMapFile, RunFile, PairInv, WriteMap
<1>4. ids' # None => runFile' # None
  BY DEF GenerateMapFile, RunFile, PairInv, WriteMap
<1> QED
  BY <1>1, <1>2, <1>3, <1>4 DEF TypeOK, GenerateMapFile, WriteMap

LEMMA TypeHeader ==
  ASSUME PairInv, TypeOK, NEW n \in Sizes, GenerateHeaderFile(n)
  PROVE  TypeOK'
<1>1. IsNumbering(ids) /\ header' = Lines(n)
  BY DEF PairInv, GenerateHeaderFile, WriteHeader
<1>2. DOMAIN Lines(n) \subseteq Tags
  BY <1>1, ToolchainAssumption DEF Lines, IsNumbering
<1>3. ASSUME NEW t \in DOMAIN Lines(n) PROVE Lines(n)[t] \in Nat
  <2> DEFINE m == CHOOSE k \in DOMAIN ids : TagOf[k] = t
  <2>1. m \in DOMAIN ids /\ Lines(n)[t] = ids[m]
    BY <1>3 DEF Lines
  <2> HIDE DEF m
  <2> QED
    BY <1>1, <2>1 DEF IsNumbering
<1>4. runFile' = None \/ (runFile' = runFile /\ runFile # None)
  BY DEF GenerateHeaderFile, RunFile, PairInv, WriteHeader
<1>5. ids' # None => runFile' # None
  BY DEF GenerateHeaderFile, RunFile, PairInv, WriteHeader
<1>6. headerIdBytes' \in 1 .. 3
  BY DEF GenerateHeaderFile, HeaderIdBytes
<1> QED
  BY <1>1, <1>2, <1>3, <1>4, <1>5, <1>6 DEF TypeOK, GenerateHeaderFile, WriteHeader, firmware

LEMMA TypeNext ==
  ASSUME PairInv, TypeOK, [Next]_vars
  PROVE  TypeOK'
<1>1. CASE InstallDiscovered \/ InstallTyped
  BY <1>1 DEF InstallDiscovered, InstallTyped, TypeOK, project, artifacts, firmware
<1>2. CASE EditSources
  BY <1>2 DEF EditSources, Edit, AddLog, ChangeMessage, TypeOK, artifacts, firmware
<1>3. CASE \E cores \in CoreCounts : StartRun(cores)
  BY <1>3 DEF StartRun, TypeOK, project, firmware
<1>4. CASE ReplaceTags
  BY <1>4 DEF ReplaceTags, Retag, TypeOK, firmware
<1>5. CASE AssignIDs
  BY <1>5 DEF AssignIDs, Number, TypeOK, artifacts, firmware
<1>6. CASE EndRun
  BY <1>6 DEF EndRun, End, TypeOK, firmware
<1>7. CASE \E n \in Sizes : GenerateMapFile(n) \/ GenerateHeaderFile(n)
  BY <1>7, TypeMap, TypeHeader
<1>8. CASE Build
  BY <1>8 DEF Build, TypeOK, project, artifacts
<1>9. CASE UNCHANGED vars
  BY <1>9 DEF vars, TypeOK, project, artifacts, firmware
<1> QED
  BY <1>1, <1>2, <1>3, <1>4, <1>5, <1>6, <1>7, <1>8, <1>9 DEF Next

(* A run goes on only with a configuration that was accepted, and every    *)
(* file has values of its kind.                                            *)
THEOREM TypeCorrect == Spec => []TypeOK
<1>1. Init => TypeOK
  <2>1. DOMAIN <<>> = {}
    OBVIOUS
  <2>2. 1 \in 1 .. 3
    OBVIOUS
  <2> QED
    BY <2>1, <2>2 DEF Init, ProjectInit, TypeOK
<1> QED
  BY <1>1, PairInit, PairNext, TypeNext, PTL DEF Spec

-----------------------------------------------------------------------------
(* SizesFit.                                                               *)

FromTarget(f) ==
  f \in {None, DefaultFile} \/ \A key \in ObligatoryFields : f[key] = target[key]

SizeInv ==
  /\ target \in Targets
  /\ file \in {None, DefaultFile, SlogDiscover(target), Typed(SlogDiscover(target))}
  /\ FromTarget(runFile) /\ FromTarget(mapFile)
  /\ FromTarget(headerFile) /\ FromTarget(imageFile)

(* A size the target cannot print would be a negative number.              *)
LEMMA AcceptedIsFromTarget ==
  ASSUME SizeInv, file # None, Accepted(file)
  PROVE  FromTarget(file)
<1>1. SUFFICES ASSUME file \in {SlogDiscover(target), Typed(SlogDiscover(target))},
                      NEW key \in ObligatoryFields
               PROVE  file[key] = target[key]
  BY DEF SizeInv, FromTarget
<1>2. key # "endianness"
  BY DEF ObligatoryFields
<1>3. file[key] = SlogPutSize(target[key])
  BY <1>1, <1>2 DEF SlogDiscover, Typed
<1>4. file[key] >= 0
  BY DEF Accepted, LoadTypesSize
<1> QED
  BY <1>3, <1>4 DEF SlogPutSize, NotANumber

LEMMA SizeNext ==
  ASSUME SizeInv, [Next]_vars
  PROVE  SizeInv'
<1>1. CASE InstallDiscovered \/ InstallTyped
  BY <1>1 DEF InstallDiscovered, InstallTyped, SizeInv, FromTarget, artifacts, firmware
<1>2. CASE EditSources
  BY <1>2 DEF EditSources, SizeInv, FromTarget, artifacts, firmware
<1>3. CASE \E cores \in CoreCounts : StartRun(cores)
  BY <1>3, AcceptedIsFromTarget DEF StartRun, SizeInv, FromTarget, firmware
<1>4. CASE ReplaceTags
  BY <1>4 DEF ReplaceTags, SizeInv, FromTarget, firmware
<1>5. CASE AssignIDs
  BY <1>5 DEF AssignIDs, SizeInv, FromTarget, artifacts, firmware
<1>6. CASE EndRun
  BY <1>6 DEF EndRun, SizeInv, FromTarget, firmware
<1>7. CASE \E n \in Sizes : GenerateMapFile(n)
  BY <1>7 DEF GenerateMapFile, RunFile, SizeInv, FromTarget
<1>8. CASE \E n \in Sizes : GenerateHeaderFile(n)
  BY <1>8 DEF GenerateHeaderFile, RunFile, SizeInv, FromTarget, firmware
<1>9. CASE Build
  BY <1>9 DEF Build, SizeInv, FromTarget, artifacts
<1>10. CASE UNCHANGED vars
  BY <1>10 DEF vars, SizeInv, FromTarget, artifacts, firmware
<1> QED
  BY <1>1, <1>2, <1>3, <1>4, <1>5, <1>6, <1>7, <1>8, <1>9, <1>10 DEF Next

(* Every configuration that took part in a run, a map, a header or a       *)
(* firmware is the default or has the sizes of the target.                 *)
THEOREM SizesAreTheTargets == Spec => []SizesFit
<1>1. Init => SizeInv
  BY DEF Init, SizeInv, FromTarget
<1>2. SizeInv => SizesFit
  BY DEF SizeInv, FromTarget, SizesFit
<1> QED
  BY <1>1, <1>2, SizeNext, PTL DEF Spec

-----------------------------------------------------------------------------
(* Whatever the tools around it do, to the files of the project it is a    *)
(* run of the ProjectProcessor or an edit.                                 *)
THEOREM RunsAreProjectRuns == Spec => ProjectSpec
<1>1. Init => ProjectInit
  BY DEF Init
<1>2. [Next]_vars => [ProjectNext]_project
  <2>1. SUFFICES ASSUME [Next]_vars PROVE ProjectNext \/ UNCHANGED project
    OBVIOUS
  <2>2. CASE InstallDiscovered \/ InstallTyped \/ Build
    BY <2>2 DEF InstallDiscovered, InstallTyped, Build
  <2>3. CASE EditSources
    BY <2>3 DEF EditSources, ProjectNext
  <2>4. CASE \E cores \in CoreCounts : StartRun(cores)
    BY <2>4 DEF StartRun
  <2>5. CASE ReplaceTags
    BY <2>5 DEF ReplaceTags, ProjectNext
  <2>6. CASE AssignIDs
    BY <2>6 DEF AssignIDs, ProjectNext
  <2>7. CASE EndRun
    BY <2>7 DEF EndRun, ProjectNext
  <2>8. CASE \E n \in Sizes : GenerateMapFile(n) \/ GenerateHeaderFile(n)
    BY <2>8 DEF GenerateMapFile, GenerateHeaderFile, ProjectNext
  <2>9. CASE UNCHANGED vars
    BY <2>9 DEF vars
  <2> QED
    BY <2>1, <2>2, <2>3, <2>4, <2>5, <2>6, <2>7, <2>8, <2>9 DEF Next
<1> QED
  BY <1>1, <1>2, PTL DEF Spec, ProjectSpec

=============================================================================
