----------------------------- MODULE FaceAtoms -----------------------------
(***************************************************************************)
(* The atoms faces are stored in, in memory: each is eight bytes of size   *)
(* and type and its payload.  A number stands in the first of the bytes it *)
(* takes, and the others are rests.  A float is counted in millionths,     *)
(* which is what "%f" leaves of it, and may be a double that is less than  *)
(* the decimal it was read from.                                           *)
(***************************************************************************)
EXTENDS Integers, SequencesExt, FiniteSetsExt

\* The decimals above ten whose product with a power of ten, as doubles, is less than
\* the whole number it stands for.
CONSTANT Below

ASSUME FaceAtomsAssumption == Below \subseteq Nat

Million == 1000000
LeastInt == -2147483647 - 1

Rest == <<"rest", 0>>
Number(n, width) == <<<<"number", n>>>> \o [i \in 1 .. width - 1 |-> Rest]

Points == {"leye", "reye", "LOEC", "LIEC", "ROEC", "RIEC", "LMCP", "RMCP"}
Angles == {"FPPA", "FPYA", "FPRA"}
Confirmations == <<"Unknown", "Implicit", "Explicit">>

-----------------------------------------------------------------------------
\* Floats

\* The divisions by ten after which a float is no longer above one.
Tens(v) == Min({k \in 0 .. 9 : (v - 1) \div 10 ^ k < Million})

\* static_cast of a float to an int: the outcome of the processor where it does not fit.
Scaled(v, denominator) ==
  LET factor == denominator \div Million
      parts == Million \div denominator
  IN  IF denominator <= Million /\ v \in Below /\ v % parts = 0 THEN v \div parts - 1
      ELSE IF denominator < Million THEN v \div parts
      ELSE IF (IF v < 0 THEN -v ELSE v) > 2147483647 \div factor THEN LeastInt
      ELSE v * factor

\* Mutant of WriteFloat: the denominator is divided once more.
WriteFloatShort(v) ==
  LET denominator == 10 ^ (8 - Tens(v)) \div 10
  IN  Number(Scaled(v, denominator), 4) \o Number(denominator, 4)

\* PmtFaceFloat::write of a double as a rational: of what is above ten, as many
\* decimals are kept as there are fewer than eight digits before the point.
WriteFloat(v) ==
  LET denominator == 10 ^ (8 - Tens(v))
  IN  Number(Scaled(v, denominator), 4) \o Number(denominator, 4)

Quotient(n, denominator) ==
  LET parts == denominator \div Million
  IN  CASE denominator = 0 -> 0
        [] denominator \in 1 .. Million - 1 -> n * (Million \div denominator)
        [] denominator >= Million ->
             n \div parts + IF 2 * (n % parts) >= parts THEN 1 ELSE 0

\* PmtFaceReadFloat: representation 1 is rational, any other a double.
ReadFloat(bytes, at, representation) ==
  IF representation = 1 THEN Quotient(bytes[at + 1][2], bytes[at + 5][2]) ELSE bytes[at + 1][2]

-----------------------------------------------------------------------------
\* Atoms from texts, and writing them.  A text is the floats of a Data or the word of
\* a Value; points are given two floats each.

ToInt(v) == IF v < 0 THEN -((-v) \div Million) ELSE v \div Million

Floats(text) == text[2]

PointPayload(text) == WriteFloat(Floats(text)[1]) \o WriteFloat(Floats(text)[2])

OutlinePayload(text) == FlattenSeq([i \in DOMAIN Floats(text) |-> WriteFloat(Floats(text)[i])])

\* What >> reads into an unsigned short: what is too large becomes the largest, and a
\* sign is taken for one of two's complement.
UnsignedShort(n) == IF n \in -65535 .. 65535 THEN n % 65536 ELSE 65535

\* An angle is an int.
WholePayload(text, width) ==
  LET n == ToInt(Floats(text)[1]) IN Number(IF width = 4 THEN n ELSE UnsignedShort(n), width)

\* A word that is not known is the first.
ConfirmationPayload(text) ==
  Number(IF text[1] = "word" /\ text[2] \in Range(Confirmations)
         THEN (CHOOSE i \in DOMAIN Confirmations : Confirmations[i] = text[2]) - 1 ELSE 0, 1)

BinaryPayload(text) == [i \in DOMAIN Floats(text) |-> <<"number", ToInt(Floats(text)[i]) % 256>>]

\* setFromString and the payload writeAtom writes after the header
FacePayload(type, text) ==
  CASE type \in Points -> PointPayload(text)
    [] type = "fout" -> OutlinePayload(text)
    [] type \in Angles -> WholePayload(text, 4)
    [] type = "FPCL" -> WholePayload(text, 2)
    [] type = "uCON" -> ConfirmationPayload(text)
    [] type = "FEAD" -> BinaryPayload(text)

FaceAtom(type, payload) ==
  Number(Len(payload) + 8, 4) \o <<<<"type", type>>>> \o <<Rest, Rest, Rest>> \o payload

\* PmtAsciiStringAtom
AsciiPayload(id) == [i \in DOMAIN id |-> <<"letter", id[i]>>]

Even(name) == SubSeq(name, 1, 2 * (Len(name) \div 2))

\* The bytes of each pair in the other order
Swapped(name) == [i \in DOMAIN name |-> name[IF i % 2 = 1 THEN i + 1 ELSE i - 1]]

\* Mutant of UnicodePayload: the pairs are written as they are.
UnicodePayloadUnswapped(name) ==
  Number(Len(name) \div 2, 2) \o Number(0, 2)
  \o [i \in DOMAIN Even(name) |-> <<"number", Even(name)[i]>>]

\* PmtUnicodeAtom: the number of characters, a language, and the pairs; a single byte
\* at the end is dropped.
UnicodePayload(name) ==
  Number(Len(name) \div 2, 2) \o Number(0, 2)
  \o [i \in DOMAIN Even(name) |-> <<"number", Swapped(Even(name))[i]>>]

\* PmtFaceFpdtAtom
Representation(n) == <<<<"number", 0>>, <<"number", n>>>>

-----------------------------------------------------------------------------
\* Reading atoms

NoAtom == [type |-> "none", size |-> 0, at |-> 0]

\* GetNextAtom, of memory: the size is that of the payload.  Where it finds none, a
\* loop over faces never ends; no value here is like that.
NextFaceAtom(bytes, at, unread) ==
  IF unread <= 8 \/ bytes[at + 1][2] = 1 THEN NoAtom
  ELSE [type |-> bytes[at + 5][2], size |-> bytes[at + 1][2] - 8, at |-> at]

\* PmtContainerAtom::readAtom: the atoms, from the byte count of the payload on, as far
\* as the buffer goes; every atom reads as many bytes as it has.
RECURSIVE AtomsFrom(_, _, _)
AtomsFrom(bytes, container, count) ==
  LET start == container.at + 8 + count
      atom == NextFaceAtom(bytes, start, Len(bytes) - start)
  IN  IF count >= container.size \/ atom = NoAtom THEN <<>>
      ELSE <<atom>> \o AtomsFrom(bytes, container, count + 8 + atom.size)

ReadContainer(bytes, container) ==
  IF container.size > 8 THEN AtomsFrom(bytes, container, 0) ELSE <<>>

\* getAtoms, the first one
PositionOf(atoms, type) == Min({i \in DOMAIN atoms : atoms[i].type = type})
HasAtom(atoms, type) == \E i \in DOMAIN atoms : atoms[i].type = type
FirstAtom(atoms, type) == atoms[PositionOf(atoms, type)]

\* What fpdt says, to an atom that is read after it
RepresentationFor(bytes, atoms, type) ==
  IF HasAtom(atoms, "fpdt") /\ PositionOf(atoms, "fpdt") < PositionOf(atoms, type)
  THEN bytes[FirstAtom(atoms, "fpdt").at + 10][2] ELSE 1

Cell(bytes, atom, i) == bytes[atom.at + 8 + i][2]
FloatAt(bytes, atom, i, representation) == ReadFloat(bytes, atom.at + 8 * i, representation)

PointText(bytes, atom, representation) ==
  <<"floats", [i \in 1 .. 2 |-> FloatAt(bytes, atom, i, representation)]>>

\* As many points as there are sixteen bytes
OutlineText(bytes, atom, representation) ==
  <<"floats", [i \in 1 .. 2 * (atom.size \div 16) |-> FloatAt(bytes, atom, i, representation)]>>

WholeText(bytes, atom) == <<"floats", <<Cell(bytes, atom, 1) * Million>>>>

ConfirmationText(bytes, atom) ==
  LET n == Cell(bytes, atom, 1) + 1
  IN  <<"word", IF n \in DOMAIN Confirmations THEN Confirmations[n] ELSE "">>

BinaryText(bytes, atom) == <<"floats", [i \in 1 .. atom.size |-> Cell(bytes, atom, i) * Million]>>

\* readAtom and getMetadata
TextOfAtom(bytes, atom, representation) ==
  CASE atom.type \in Points -> PointText(bytes, atom, representation)
    [] atom.type = "fout" -> OutlineText(bytes, atom, representation)
    [] atom.type \in Angles \cup {"FPCL"} -> WholeText(bytes, atom)
    [] atom.type = "uCON" -> ConfirmationText(bytes, atom)
    [] atom.type = "FEAD" -> BinaryText(bytes, atom)

ReadAscii(bytes, atom) == [i \in 1 .. atom.size |-> bytes[atom.at + 8 + i][2]]

ReadUnicode(bytes, atom) == Swapped([i \in 1 .. atom.size - 4 |-> bytes[atom.at + 12 + i][2]])
=============================================================================
