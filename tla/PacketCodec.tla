----------------------------- MODULE PacketCodec -----------------------------
(***************************************************************************)
(* The wire format of core/protocol/packet.rs.  A datagram is a sequence   *)
(* of units: the opcode, for DATA, ACK and ERROR a second 16-bit number,   *)
(* then words (strings) and NUL bytes.  A text is the sequence of the      *)
(* words before a NUL.  A cut inside a word leaves an unterminated text,   *)
(* as a cut after the word does.                                           *)
(***************************************************************************)
EXTENDS Integers, Sequences, SequencesExt, Lists

NUL == "NUL"

\* What some words of the instances stand for
NotUtf8   == {"notUtf8"}
Forbidden == {"..", "~", "control"}     \* in a file name
Lower(w)  == CASE w = "OCTET" -> "octet" [] w = "BLKSIZE" -> "blksize" [] OTHER -> w

Opcodes    == 1 .. 6        \* RRQ, WRQ, DATA, ACK, ERROR, OACK
ErrorCodes == 0 .. 8
Modes      == {<<"octet">>, <<"netascii">>}

Rejected == [op |-> 0]      \* any ParseError

LowerText(text) == [i \in DOMAIN text |-> Lower(text[i])]
IsUtf8(text)    == ToSet(text) \cap NotUtf8 = {}

-----------------------------------------------------------------------------
\* Where the NUL bytes are, and what stands before each of these ends
Nuls(units) ==
  Select([i \in DOMAIN units |-> i], {i \in DOMAIN units : units[i] = NUL})

Between(units, ends) ==
  [k \in DOMAIN ends |-> SubSeq(units, IF k = 1 THEN 1 ELSE ends[k - 1] + 1, ends[k] - 1)]

\* A slip: what follows the last NUL is a text as well
MutTexts(units) == Between(units, Append(Nuls(units), Len(units) + 1))

\* parse_null_terminated_strings
Texts(units) == Between(units, Nuls(units))

\* The pairs of texts from position first on; a last one without a value is
\* not looked at
Options(texts, first) ==
  [k \in 1 .. ((Len(texts) - first + 1) \div 2) |->
     [name |-> LowerText(texts[first + 2 * k - 2]), value |-> texts[first + 2 * k - 1]]]

OptionsAreUtf8(texts, first) ==
  \A k \in DOMAIN Options(texts, first) :
    IsUtf8(texts[first + 2 * k - 2]) /\ IsUtf8(texts[first + 2 * k - 1])

ValidFilename(text) == text # <<>> /\ IsUtf8(text) /\ ToSet(text) \cap Forbidden = {}

ParseRequest(op, units) ==
  LET texts == Texts(units)
  IN  IF /\ Len(texts) >= 2
         /\ ValidFilename(texts[1])
         /\ LowerText(texts[2]) \in Modes
         /\ OptionsAreUtf8(texts, 3)
      THEN [op |-> op, filename |-> texts[1], mode |-> LowerText(texts[2]),
            options |-> Options(texts, 3)]
      ELSE Rejected

ParseOack(units) ==
  LET texts == Texts(units)
  IN  IF OptionsAreUtf8(texts, 1) THEN [op |-> 6, options |-> Options(texts, 1)]
                                  ELSE Rejected

\* An unknown code counts as 0; the message may lack its NUL
ParseErrorPacket(code, units) ==
  LET nuls    == {i \in DOMAIN units : units[i] = NUL}
      message == SubSeq(units, 1, IF nuls = {} THEN Len(units) ELSE Min(nuls) - 1)
  IN  [op |-> 5, code |-> IF code \in ErrorCodes THEN code ELSE 0,
       message |-> IF IsUtf8(message) THEN message ELSE <<"invalid error message">>]

\* parse_packet
Parse(raw) ==
  IF raw = <<>> \/ raw[1] \notin Opcodes \/ (raw[1] \in 3 .. 5 /\ Len(raw) = 1) THEN Rejected
  ELSE CASE raw[1] \in {1, 2} -> ParseRequest(raw[1], Tail(raw))
         [] raw[1] = 6        -> ParseOack(Tail(raw))
         [] raw[1] = 3        -> [op |-> 3, block |-> raw[2], data |-> SubSeq(raw, 3, Len(raw))]
         [] raw[1] = 4        -> [op |-> 4, block |-> raw[2]]
         [] raw[1] = 5        -> ParseErrorPacket(raw[2], SubSeq(raw, 3, Len(raw)))

-----------------------------------------------------------------------------
\* The names and values of the options one after the other
Listed(options) ==
  [i \in 1 .. 2 * Len(options) |->
     IF i % 2 = 1 THEN options[(i + 1) \div 2].name ELSE options[i \div 2].value]

\* Every text with its NUL
Terminated(texts) == Flatten([i \in DOMAIN texts |-> Append(texts[i], NUL)])

\* serialize_packet
Serialize(p) ==
  CASE p.op \in {1, 2} -> <<p.op>> \o Terminated(<<p.filename, p.mode>> \o Listed(p.options))
    [] p.op = 3        -> <<3, p.block>> \o p.data
    [] p.op = 4        -> <<4, p.block>>
    [] p.op = 5        -> <<5, p.code>> \o p.message \o <<NUL>>
    [] p.op = 6        -> <<6>> \o Terminated(Listed(p.options))

-----------------------------------------------------------------------------
\* A packet that was accepted is written so that it is read again as itself.
Reread(raw) == Parse(raw) # Rejected => Parse(Serialize(Parse(raw))) = Parse(raw)

\* The main loop's buffer and a lossy path may cut a request short: what is
\* left of it is refused or names the same file, in the same mode, with the
\* first of the options.
CutShort(raw) ==
  LET whole == Parse(raw)
  IN  \A n \in 0 .. Len(raw) :
        LET part == Parse(SubSeq(raw, 1, n))
        IN  part # Rejected /\ whole # Rejected =>
              /\ part.filename = whole.filename /\ part.mode = whole.mode
              /\ IsPrefix(part.options, whole.options)
=============================================================================
