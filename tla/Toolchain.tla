----------------------------- MODULE Toolchain ------------------------------
(***************************************************************************)
(* The tools around one firmware: the target prints its type sizes, the    *)
(* developer installs a TypeConfig.yaml, edits and runs ProjectProcessor   *)
(* (Project), builds and flashes the firmware, and gives the map that is   *)
(* on disk and what the device sends to LogDecoder/main.cpp.  Nothing ties *)
(* these artifacts to each other: they are files that may be of any age.   *)
(***************************************************************************)
EXTENDS Project, TypeConfig, IdWidth

CONSTANTS Targets,   \* the sizes of types of a target, see TypeConfig
          CoreCounts  \* what may be given as -j

ASSUME ToolchainAssumption ==
  /\ IsFiniteSet(Messages) /\ TagOf \in [Messages -> Tags]
  /\ \A sizes \in Targets : sizes \in [ObligatoryFields -> 1 .. 255]

VARIABLES
  target,                        \* the sizes of this target
  file,                          \* TypeConfig.yaml, or None
  runFile, mapFile, headerFile,  \* the configuration a run loaded, those that map
                                 \* and header were made with
  headerIdBytes,                 \* SLOG_ID_BYTE_CNT of the header
  exists,                        \* which of "map" and "header" were ever written
  paired,                        \* history: "no", "map", or "yes": one run wrote all
                                 \* of its map and then its header
  image,                         \* the firmware: tag -> id, or None
  imageFile, imageIdBytes,       \* the configuration and id width of its header
  current                        \* history: map and image are of one run

artifacts == <<runFile, mapFile, headerFile, headerIdBytes, exists, paired>>
firmware  == <<image, imageFile, imageIdBytes, current>>
vars      == <<project, target, file, artifacts, firmware>>

Init ==
  /\ ProjectInit
  /\ target \in Targets /\ file = None
  /\ runFile = None /\ mapFile = None /\ headerFile = None
  /\ headerIdBytes = 1 /\ exists = {} /\ paired = "no"
  /\ image = None /\ imageFile = None /\ imageIdBytes = 1 /\ current = FALSE

-----------------------------------------------------------------------------
(* The developer, between runs: a run reads the file when it starts.       *)

(* The file is what the target printed.                                    *)
InstallDiscovered ==
  /\ runFile = None
  /\ file' = SlogDiscover(target)
  /\ UNCHANGED <<project, target, artifacts, firmware>>

(* It is that without its first line, or the default.                      *)
InstallTyped ==
  /\ runFile = None
  /\ file' \in {Typed(SlogDiscover(target)), DefaultFile}
  /\ UNCHANGED <<project, target, artifacts, firmware>>

EditSources ==
  /\ runFile = None
  /\ Edit
  /\ UNCHANGED <<target, file, artifacts, firmware>>

-----------------------------------------------------------------------------
(* ProjectProcessor/main.cpp.                                              *)

ValidCores(cores) == cores >= 1 /\ cores <= 255

(* A refused run leaves everything as it is.                               *)
StartRun(cores) ==
  /\ runFile = None /\ ValidCores(cores)
  /\ file # None /\ Accepted(file)
  /\ runFile' = file
  /\ UNCHANGED <<project, target, file, mapFile, headerFile, headerIdBytes, exists, paired, firmware>>

(* Mutation: the map is all a run writes.                                  *)
RunFile_Ends == None

(* The run is over as soon as its numbering is dropped.                    *)
RunFile == IF ids' = None THEN None ELSE runFile

ReplaceTags ==
  /\ runFile # None
  /\ \E right, torn \in SUBSET Places : Retag(right, torn)
  /\ runFile' \in {runFile, None}
  /\ UNCHANGED <<target, file, mapFile, headerFile, headerIdBytes, exists, paired, firmware>>

AssignIDs ==
  /\ runFile # None
  /\ \E S \in SUBSET Messages : Number(S)
  /\ UNCHANGED <<target, file, artifacts, firmware>>

GenerateMapFile(n) ==
  /\ WriteMap(n)
  /\ runFile' = RunFile /\ mapFile' = runFile
  /\ exists' = exists \cup {"map"}
  /\ paired' = IF ids' # None /\ n = Cardinality(DOMAIN ids) THEN "map" ELSE "no"
  /\ current' = FALSE
  /\ UNCHANGED <<target, file, headerFile, headerIdBytes, image, imageFile, imageIdBytes>>

(* ProjectProcessor drops what GenerateMapFile returns: the header may     *)
(* come from a run that could not write its map.  Its ids are as wide as   *)
(* maxId, the number of messages, asks for.                                *)
GenerateHeaderFile(n) ==
  /\ WriteHeader(n)
  /\ runFile' = RunFile /\ headerFile' = runFile
  /\ headerIdBytes' = HeaderIdBytes(Cardinality(DOMAIN ids))
  /\ exists' = exists \cup {"header"}
  /\ paired' = IF paired = "map" THEN "yes" ELSE "no"
  /\ UNCHANGED <<target, file, mapFile, firmware>>

EndRun ==
  /\ End
  /\ runFile' = None
  /\ paired' = IF paired = "map" THEN "no" ELSE paired
  /\ UNCHANGED <<target, file, mapFile, headerFile, headerIdBytes, exists, firmware>>

-----------------------------------------------------------------------------
(* The build, with the header on disk: every tag of the sources has to be  *)
(* in it, and ShrinkLog.h checks the sizes of the integers.                *)

TagsUsed == UNION {{src[f][k].tag : k \in DOMAIN src[f]} : f \in Files}

(* Mutation: a tag without a line in the header keeps its old encoding.    *)
Build_OldTags ==
  /\ runFile = None /\ "header" \in exists
  /\ IntSizesCompile(headerFile)
  /\ image' = [t \in TagsUsed \cap (DOMAIN header \cup (IF image = None THEN {} ELSE DOMAIN image)) |->
                 IF t \in DOMAIN header THEN header[t] ELSE image[t]]
  /\ imageFile' = headerFile /\ imageIdBytes' = headerIdBytes
  /\ current' = (paired = "yes")
  /\ UNCHANGED <<project, target, file, artifacts>>

Build ==
  /\ runFile = None /\ "header" \in exists
  /\ IntSizesCompile(headerFile)
  /\ TagsUsed \subseteq DOMAIN header
  /\ image' = [t \in TagsUsed |-> header[t]]
  /\ imageFile' = headerFile /\ imageIdBytes' = headerIdBytes
  /\ current' = (paired = "yes")
  /\ UNCHANGED <<project, target, file, artifacts>>

-----------------------------------------------------------------------------
(* LogDecoder/main.cpp: the row a log of the firmware is shown with, with  *)
(* the map on disk.  The firmware sends as many bytes of the id as its     *)
(* header says and the decoder reads as many as the map says: if they      *)
(* differ it reads characters that are no id, or leaves some.  The check   *)
(* of the id lets one through that lies behind the end of _cache.  Where   *)
(* the arguments are looked for, behind an id of one byte, is in Wire.     *)
MapRows == Cardinality(DOMAIN map)

Heard(id) == IdFromBytes(IdByte(id, 1),
                         IF imageIdBytes >= 2 THEN IdByte(id, 2) ELSE 0,
                         IF imageIdBytes >= 3 THEN IdByte(id, 3) ELSE 0)

Decoded(id) ==
  LET last  == MaxMessageIndex(MapRows)
      index == Heard(id)
  IN  IF "map" \notin exists \/ ~DecoderAccepts(MapRows) THEN "terminated"
      ELSE IF imageIdBytes # DecoderIdBytes(MapRows) \/ index = last THEN "anything"
      ELSE IF index > last THEN "terminated"
      ELSE IF index \in DOMAIN map THEN map[index]
      ELSE "nothing"

Next ==
  \/ InstallDiscovered \/ InstallTyped \/ EditSources
  \/ \E cores \in CoreCounts : StartRun(cores)
  \/ ReplaceTags \/ AssignIDs \/ EndRun
  \/ \E n \in Sizes : GenerateMapFile(n) \/ GenerateHeaderFile(n)
  \/ Build

Spec == Init /\ [][Next]_vars

-----------------------------------------------------------------------------
TypeOK ==
  /\ runFile = None \/ Accepted(runFile)
  /\ ids # None => runFile # None
  /\ headerIdBytes \in 1 .. 3 /\ imageIdBytes \in 1 .. 3
  /\ exists \subseteq {"map", "header"} /\ paired \in {"no", "map", "yes"}
  /\ DOMAIN map \subseteq Nat /\ \A i \in DOMAIN map : map[i] \in Messages
  /\ DOMAIN header \subseteq Tags /\ \A t \in DOMAIN header : header[t] \in Nat
  /\ image # None => DOMAIN image \subseteq Tags /\ \A t \in DOMAIN image : image[t] \in Nat
  /\ current \in BOOLEAN

(* The decoder accepts a map of this many rows and reads its ids with the  *)
(* width the firmware gives them.                                          *)
IdsAgree == DecoderAccepts(MapRows) /\ MapRows \notin {254, 65534}

(* As long as the map is of the run whose header the firmware was built    *)
(* with, and their ids agree, every log the device can send is shown with  *)
(* the row of the message its tag stands for, and read with the sizes it   *)
(* was encoded with: through later edits, refused runs and runs that died  *)
(* among the sources, and when half the tags of the sources were new at    *)
(* the time of the build.                                                  *)
CurrentLogsDecode ==
  current => /\ mapFile = imageFile
             /\ IdsAgree => \A t \in DOMAIN image :
                              Decoded(image[t]) \in {m \in Messages : TagOf[m] = t}

(* Sizes that came from the target are its sizes, wherever they got to: a  *)
(* size the target cannot print makes the file unusable, never wrong.      *)
SizesFit ==
  \A f \in {runFile, mapFile, headerFile, imageFile} \ {None, DefaultFile} :
    \A key \in ObligatoryFields : f[key] = target[key]

-----------------------------------------------------------------------------
(* What README.md says and the code does not do.                           *)

(* README.md:138-139, "It should send the TypeConfig.yaml file content     *)
(* through the interface. Put the TypeConfig.yaml file in the slog         *)
(* directory": what a target with supported sizes prints can be used.      *)
DiscoveredIsAccepted ==
  file # None /\ file = SlogDiscover(target) /\ (\A key \in ObligatoryFields :
                                                 target[key] \in AllowedValues)
    => Accepted(file)

=============================================================================
