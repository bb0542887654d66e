------------------------------ MODULE Netascii ------------------------------
(***************************************************************************)
(* The netascii conversion of core/session/mod.rs.  A download encodes the *)
(* whole file before it is cut into blocks, an upload decodes the whole    *)
(* file once its blocks have been put together.  Both loops take one or    *)
(* two bytes at a time: the second of two adds nothing.                    *)
(***************************************************************************)
EXTENDS Integers, Sequences, Lists

CR  == "CR"
LF  == "LF"
NUL == "NUL"

Bytes == {CR, LF, NUL, "other"}

\* Whether byte i of data is followed by b, and whether it follows a CR
Followed(data, i, b) == i < Len(data) /\ data[i + 1] = b
AfterCR(data, i) == i > 1 /\ data[i - 1] = CR

-----------------------------------------------------------------------------
\* encode_netascii: LF and CR LF become CR LF, a bare CR becomes CR NUL
Encoded(data, i) ==
  CASE data[i] = LF -> IF AfterCR(data, i) THEN <<>> ELSE <<CR, LF>>
    [] data[i] = CR -> IF Followed(data, i, LF) THEN <<CR, LF>> ELSE <<CR, NUL>>
    [] OTHER        -> <<data[i]>>

Encode(data) == Flatten([i \in DOMAIN data |-> Encoded(data, i)])

\* decode_netascii: CR LF becomes LF, CR NUL becomes CR, the rest is kept
Decoded(data, i) ==
  CASE data[i] = CR -> IF Followed(data, i, LF) THEN <<LF>> ELSE <<CR>>
    [] data[i] \in {LF, NUL} /\ AfterCR(data, i) -> <<>>
    [] OTHER -> <<data[i]>>

Decode(data) == Flatten([i \in DOMAIN data |-> Decoded(data, i)])

\* What an upload in netascii mode leaves in the file
Stored(blocks) == Decode(Flatten(blocks))

-----------------------------------------------------------------------------
\* data cut into blocks of size bytes, the last one short or empty
Blocks(data, size) ==
  [b \in 1 .. (Len(data) \div size) + 1 |->
     SubSeq(data, (b - 1) * size + 1, IF b * size < Len(data) THEN b * size ELSE Len(data))]

\* The same text with every line end written LF: no CR before a LF
UnixText(data) ==
  Flatten([i \in DOMAIN data |->
             IF data[i] = CR /\ Followed(data, i, LF) THEN <<>> ELSE <<data[i]>>])

\* A file that was downloaded and is uploaded again, cut wherever the block
\* size cuts it, is the same text.
TextSurvives(data, size) == Stored(Blocks(Encode(data), size)) = UnixText(data)

\* On the wire a CR is always the first half of CR LF or CR NUL, and a LF
\* the second half of CR LF, as a netascii receiver expects.
WellFormed(data) ==
  LET wire == Encode(data)
  IN  \A i \in DOMAIN wire :
        /\ wire[i] = CR => Followed(wire, i, LF) \/ Followed(wire, i, NUL)
        /\ wire[i] = LF => i > 1 /\ wire[i - 1] = CR
=============================================================================
