------------------------------ MODULE IdWidth -------------------------------
(***************************************************************************)
(* The bytes of a message id.  ProjectProcessor::GenerateHeaderFile writes *)
(* them into the tag and sets SLOG_ID_BYTE_CNT; the constructor of Decoder *)
(* works out their number for itself, from the rows of the map.            *)
(***************************************************************************)
EXTENDS Naturals

(* byteCnt, for the highest id.                                            *)
HeaderIdBytes(maxId) ==
  IF maxId < 255 THEN 1 ELSE IF maxId < 65535 THEN 2 ELSE 3

(* Byte k of an id, least significant first, as the \x escapes of a tag.   *)
IdByte(id, k) ==
  CASE k = 1 -> id % 256
    [] k = 2 -> (id \div 256) % 256
    [] k = 3 -> (id \div 65536) % 256

(* _linesNumber: one more than the rows because ids start at 1, and one    *)
(* more in case the last row has no newline.                               *)
MaxMessageIndex(rows) == rows + 2

(* The decoder refuses a map whose index does not fit in three bytes.      *)
DecoderAccepts(rows) == MaxMessageIndex(rows) <= 16777215

(* messageIndexBytes.                                                      *)
DecoderIdBytes(rows) ==
  IF MaxMessageIndex(rows) <= 255 THEN 1
  ELSE IF MaxMessageIndex(rows) <= 65535 THEN 2 ELSE 3

(* hexStringToType<uint32_t>: the bytes it is given, placed little-endian. *)
IdFromBytes(b1, b2, b3) == b1 + 256 * b2 + 65536 * b3

=============================================================================
