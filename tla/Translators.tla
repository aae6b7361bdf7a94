----------------------------- MODULE Translators -----------------------------
(***************************************************************************)
(* The translators (PmtTranslator): each moves values between one C type   *)
(* of the files and the C types metadata can have, clamping where the      *)
(* other side is narrower and casting where it is not.                     *)
(*                                                                         *)
(* A number is counted in halves: an even number is an integer, an odd one *)
(* stands for the fractions between, and 1 for FLT_MIN, the smallest float *)
(* above zero.  A float holds all of them up to a limit, and from there on *)
(* the even integers only, so that the largest integers round up.          *)
(***************************************************************************)
EXTENDS Integers

CONSTANTS Max8, Max16, Max32, MaxLong,   \* the largest signed integers
          FloatMax, DoubleMax,
          FloatExact, DoubleExact,       \* up to where floats hold every integer
          Strings

ASSUME WidthsAssumption ==
  /\ {Max8, Max16, Max32, MaxLong, FloatMax, DoubleMax} \subseteq Nat
  /\ 0 < Max8
  /\ 2 * Max8 + 1 < Max16 /\ 2 * Max16 + 1 < Max32
  /\ Max32 <= MaxLong /\ 2 * MaxLong + 2 <= FloatMax /\ FloatMax < DoubleMax

\* The largest signed integers are odd, as those of two's complement are; a float holds every
\* short, but not every int.
ASSUME RoundingAssumption ==
  /\ FloatExact \in Nat /\ DoubleExact \in Nat
  /\ \A n \in {Max8, Max16, Max32, MaxLong} : n % 2 = 1
  /\ \A n \in {FloatMax, DoubleMax, FloatExact, DoubleExact} : n % 2 = 0
  /\ 2 * Max16 + 1 < FloatExact /\ FloatExact < Max32 /\ 2 * Max32 + 1 < DoubleExact

-----------------------------------------------------------------------------
\* C types

SignedMax(ctype) ==
  CASE ctype \in {"char", "uchar"} -> Max8
    [] ctype \in {"short", "ushort"} -> Max16
    [] ctype \in {"int", "uint"} -> Max32
    [] ctype \in {"long", "ulong"} -> MaxLong

Signed == {"char", "short", "int", "long"}
Unsigned == {"uchar", "ushort", "uint", "ulong"}
Floating == {"float", "double"}
Numeric == Signed \cup Unsigned \cup Floating

Hi(ctype) ==
  CASE ctype \in Signed -> 2 * SignedMax(ctype)
    [] ctype \in Unsigned -> 2 * (2 * SignedMax(ctype) + 1)
    [] ctype = "float" -> 2 * FloatMax
    [] ctype = "double" -> 2 * DoubleMax

Lo(ctype) ==
  CASE ctype \in Signed -> - 2 * SignedMax(ctype) - 2
    [] ctype \in Unsigned -> 0
    [] ctype \in Floating -> - Hi(ctype)

\* FLT_MIN where the limits of floats are asked for, as SCHAR_MIN is for char.
Least(ctype) == IF ctype \in Floating THEN 1 ELSE Lo(ctype)

Exact(ctype) == IF ctype = "float" THEN 2 * FloatExact ELSE 2 * DoubleExact

Holds(ctype, x) ==
  CASE ctype \in Floating ->
         /\ x \in Lo(ctype) .. Hi(ctype)
         /\ x \in - Exact(ctype) .. Exact(ctype) \/ x % 4 = 0
    [] ctype \in Signed \cup Unsigned -> x \in Lo(ctype) .. Hi(ctype) /\ x % 2 = 0
    [] ctype = "bool" -> x \in {0, 2}
    [] OTHER -> x \in Strings

Truncated(x) == IF x >= 0 THEN x - (x % 2) ELSE x + (x % 2)

\* static_cast: a float rounds to the next even integer, an integer type drops fractions, and
\* what it does not hold wraps around.  (Of a float above the limit this is undefined; the
\* lowest value is what x86 makes of it.)
Cast(ctype, x) ==
  CASE Holds(ctype, x) -> x
    [] ~Holds(ctype, x) /\ ctype \in Floating -> ((x + 2) \div 4) * 4
    [] OTHER -> Lo(ctype) + ((Truncated(x) - Lo(ctype)) % (Hi(ctype) - Lo(ctype) + 2))

\* A value of one type is compared with the limit of another in the former, if it is a float.
Limit(ctype, from) == IF from \in Floating THEN Cast(from, Hi(ctype)) ELSE Hi(ctype)

\* Mutant of Clamp: what is above the limits wraps.
ClampBelow(ctype, from, x) == IF x < Least(ctype) THEN Least(ctype) ELSE Cast(ctype, x)

\* downAssignToVal, downAssignToMd: the limits, or static_cast between them.
Clamp(ctype, from, x) ==
  CASE x < Least(ctype) -> Least(ctype)
    [] x > Limit(ctype, from) -> Hi(ctype)
    [] OTHER -> Cast(ctype, x)

Rank(ctype) ==
  CASE ctype \in {"char", "uchar"} -> 1
    [] ctype \in {"short", "ushort"} -> 2
    [] ctype \in {"int", "uint", "long", "ulong"} -> 3
    [] ctype = "float" -> 4
    [] ctype = "double" -> 5

-----------------------------------------------------------------------------
\* Types of metadata

\* The type PmtMetadataT is instantiated with.
CTypeOf(mdType) ==
  CASE mdType = "BOOL" -> "bool"
    [] mdType = "INT8" -> "char"
    [] mdType = "UINT8" -> "uchar"
    [] mdType = "INT16" -> "short"
    [] mdType = "UINT16" -> "ushort"
    [] mdType = "INT32" -> "long"
    [] mdType = "UINT32" -> "ulong"
    [] mdType = "FLOAT" -> "float"
    [] mdType = "DOUBLE" -> "double"
    [] OTHER -> "string"

Floats == {"FLOAT", "DOUBLE"}
Whole == {"INT8", "UINT8", "INT16", "UINT16", "INT32", "UINT32"}

-----------------------------------------------------------------------------
\* Translators: the C type of the values a translator takes from a file and gives it, and
\* the metadata it does not throw for.  Of ascii, which goes through the text of any
\* value, only the strings.

Builtin == {"bool", "char", "uchar", "short", "ushort", "long", "ulong", "float", "double",
            "string", "ascii", "undefined"}

\* A name that is not known makes the translator of undefined.
create(name) == IF name \in Builtin THEN name ELSE "undefined"

\* What builtin2long is, and builtin2ulong.
FileType(translator) ==
  CASE translator = "long" -> "int"
    [] translator = "ulong" -> "uint"
    [] translator = "ascii" -> "chars"
    [] translator = "undefined" -> "bytes"
    [] OTHER -> translator

Accepts(translator) ==
  CASE translator = "bool" -> {"BOOL"}
    [] translator = "char" -> {"INT8", "UINT8", "INT16", "UINT16", "INT32"} \cup Floats
    [] translator \in {"uchar", "ushort", "ulong"} -> {"UINT8", "UINT16", "UINT32"} \cup Floats
    [] translator \in {"short", "long"} -> {"INT8", "INT16", "INT32"} \cup Floats
    [] translator \in Floating -> Whole \cup Floats
    [] translator = "undefined" -> {"UINT8", "STRING"}
    [] OTHER -> {"STRING"}

\* What is moved as it is.
Moved(translator) == translator \in {"bool", "string", "ascii", "undefined"}

\* Mutant of Viewed: the branch for both types of two bytes is in every translator.
ViewedSigned(translator, mdType) == IF mdType = "UINT16" THEN "short" ELSE CTypeOf(mdType)

\* The C type a translator takes the metadatum for: char has one branch for both types of
\* two bytes.
Viewed(translator, mdType) ==
  IF translator = "char" /\ mdType = "UINT16" THEN "short" ELSE CTypeOf(mdType)

\* assign from the metadatum to the file.
ToVal(translator, mdType, x) ==
  LET file == FileType(translator)
      md == Viewed(translator, mdType)
      seen == Cast(md, x)
  IN  IF Moved(translator) THEN x
      ELSE IF Rank(file) < Rank(md) THEN Clamp(file, md, seen)
      ELSE Cast(file, seen)

\* assign from the file to the metadatum.
ToMd(translator, mdType, x) ==
  LET file == FileType(translator)
      md == Viewed(translator, mdType)
  IN  IF Moved(translator) THEN x
      ELSE Cast(CTypeOf(mdType), IF Rank(md) < Rank(file) THEN Clamp(md, file, x) ELSE Cast(md, x))
=============================================================================
