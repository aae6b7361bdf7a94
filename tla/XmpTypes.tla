------------------------------ MODULE XmpTypes ------------------------------
(***************************************************************************)
(* The conversions between the values of metadata and the texts of a       *)
(* packet.  A text is a tuple of what the conversions tell apart in it:    *)
(*   <<"int", n>>                      a decimal number                    *)
(*   <<"rational", n, d>>              n/d                                 *)
(*   <<"bool", b>>                     True or False                       *)
(*   <<"string", letters>>             anything else                       *)
(*   <<"date", parts, zone>>           year to second, as many as it has   *)
(*   <<"gps", deg, min, sep, n, digits, k>>  deg,min,nk or deg,min.nk      *)
(* A value is a tuple of its type and its content; a float is a fraction   *)
(* in lowest terms, never negative here.                                   *)
(***************************************************************************)
EXTENDS Integers, Sequences, FiniteSetsExt

Unset == <<"unset">>      \* the value of a metadatum that was created and not set
Throws == <<"throws">>    \* a conversion that throws
NoText == <<"">>          \* the empty text

-----------------------------------------------------------------------------
\* Numbers

Lowest(n, d) ==
  LET common == Max({k \in 1 .. d : n % k = 0 /\ d % k = 0})
  IN  <<n \div common, d \div common>>

Truncated(f) == f[1] \div f[2]

Apart(f, g) == LET x == f[1] * g[2] - g[1] * f[2] IN IF x < 0 THEN 0 - x ELSE x

\* f and g are less than 1/10000 apart.
Near(f, g) == Apart(f, g) * 10000 < f[2] * g[2]

\* XMPTypeRational(fValue): the least denominator that comes near, with the
\* numerator rounded.
XMPTypeRational(f) ==
  LET Numerator(d) == (f[1] * d) \div f[2]
                      + IF 2 * ((f[1] * d) % f[2]) > f[2] THEN 1 ELSE 0
      d == Min({k \in 1 .. f[2] : Near(<<Numerator(k), k>>, f)})
  IN  IF Near(<<Truncated(f), 1>>, f) THEN <<Truncated(f), 1>> ELSE <<Numerator(d), d>>

ToXMPTypeRational(r) == <<"rational", r[1], r[2]>>
FromXMPTypeRational(text) == <<text[2], text[3]>>

\* ToFloat, of XMPTypeRational
ToFloat(r) == IF r[2] = 0 THEN Throws ELSE <<"float", Lowest(r[1], r[2])>>

ToXMPTypeInt(n) == <<"int", n>>

\* The number a text begins with; 0 where it does not begin with one.
FromXMPTypeInt(text) == IF text[1] \in {"int", "rational"} THEN text[2] ELSE 0

ToXMPTypeBool(b) == <<"bool", b>>

\* Anything but "True" and "False" throws.
AcceptsBool(text) == text[1] = "bool"
FromXMPTypeBool(text) == text[2]

ToXMPTypeSeqInt(ints) == [i \in DOMAIN ints |-> ToXMPTypeInt(ints[i])]
FromXMPTypeSeqInt(texts) == [i \in DOMAIN texts |-> FromXMPTypeInt(texts[i])]

ToXMPTypeSeqRational(floats) ==
  [i \in DOMAIN floats |-> ToXMPTypeRational(XMPTypeRational(floats[i]))]
FromXMPTypeSeqRational(texts) == [i \in DOMAIN texts |-> FromXMPTypeRational(texts[i])]

-----------------------------------------------------------------------------
\* Strings in bytes.  The last letter may be the terminator.

Terminator == "0"

\* VUint8ToString: up to the first terminator.
VUint8ToString(bytes) ==
  LET ends == {i \in DOMAIN bytes : bytes[i] = Terminator}
  IN  <<"string", IF ends = {} THEN bytes ELSE SubSeq(bytes, 1, Min(ends) - 1)>>

\* VUint8WToString: all but the last letter, whatever it is.
VUint8WToString(bytes) ==
  <<"string", IF bytes = <<>> THEN <<>> ELSE SubSeq(bytes, 1, Len(bytes) - 1)>>

\* StringToVUint8
StringToVUint8(text) == Append(text[2], Terminator)

\* StringToVUint8W
StringToVUint8W(text) == Append(text[2], Terminator)

-----------------------------------------------------------------------------
\* Dates: year, month, day, hour, minute, second

\* ParseTZD: a time zone is Z, or a sign and hh:mm.
ParseTZD(zone) == zone \in {"Z", "+hh:mm", "-hh:mm"}

\* FromXMPString: what is missing is 0, and the time zone is dropped.  A year of
\* less than four digits alone is too short for a date.
AcceptsDate(text) ==
  /\ text[1] = "date"
  /\ text[2][1] >= 1000
  /\ text[3] = "" \/ ParseTZD(text[3])

FromXMPString(text) ==
  [i \in 1 .. 6 |-> IF i <= Len(text[2]) THEN text[2][i] ELSE 0]

\* Mutant of ToXMPTypeString: a month of 12 is no month.
ToXMPTypeStringShort(date) ==
  CASE date[2] \notin 1 .. 11 -> <<"date", SubSeq(date, 1, 1), "">>
    [] date[2] \in 1 .. 11 /\ date[3] \notin 1 .. 31 -> <<"date", SubSeq(date, 1, 2), "">>
    [] OTHER -> <<"date", date, "Z">>

\* ToXMPTypeString: as far as the month and the day are in range, always in UTC.
ToXMPTypeString(date) ==
  CASE date[2] \notin 1 .. 12 -> <<"date", SubSeq(date, 1, 1), "">>
    [] date[2] \in 1 .. 12 /\ date[3] \notin 1 .. 31 -> <<"date", SubSeq(date, 1, 2), "">>
    [] OTHER -> <<"date", date, "Z">>

\* FromPMTString and ToPMTTypeString: YYYY:MM:DD HH:MM:SS
FromPMTString(value) == value[2]
ToPMTTypeString(date) == <<"datetime", date>>

-----------------------------------------------------------------------------
\* Coordinates: degrees, minutes, seconds

\* FromFloatVector and ToString: whole degrees, minutes and seconds, always north.
GPSToString(floats) ==
  <<"gps", Truncated(floats[1]), Truncated(floats[2]), ",", Truncated(floats[3]), 2, "N">>

\* FromString and ToFloatVector: the direction is dropped.
AcceptsGPS(text) == text[1] = "gps" /\ text[7] \in {"N", "S", "E", "W"}

GPSFromString(text) ==
  <<<<text[2], 1>>, <<text[3], 1>>,
    IF text[4] = "," THEN <<text[5], 1>> ELSE Lowest(text[5] * 60, 10 ^ text[6])>>

-----------------------------------------------------------------------------
\* Flash: the fields of the structure, and the byte

Bit(byte, i) == (byte \div 2 ^ i) % 2

\* FromByte masks bit 4 for the function, bit 5 for red eye, and bits 2 and 4 for
\* the mode.
FlashFromByte(byte) ==
  [Fired |-> Bit(byte, 0) = 1, Function |-> Bit(byte, 4) = 1,
   Mode |-> 2 * Bit(byte, 4), RedEyeMode |-> Bit(byte, 5) = 1,
   Return |-> Bit(byte, 1) + 2 * Bit(byte, 2)]

FlashToByte(flash) ==
  LET Place(b, i) == IF b THEN 2 ^ i ELSE 0
  IN  (Place(flash.Fired, 0) + flash.Return * 2 + flash.Mode * 8
       + Place(flash.Function, 5) + Place(flash.RedEyeMode, 6)) % 256

-----------------------------------------------------------------------------
\* Tables: columns, rows, names of the columns, cells

Grid(columns, rows, names, cells) == <<"grid", columns, rows, names, cells>>

Word(n) == n % 65536

\* XMPTypeOECF::FromVUint8: the high byte of a size counts 2 << 8.
OECFWord(n) == (n % 256) + (n \div 256) * 512

AcceptsOECF(grid) ==
  /\ Len(grid[4]) >= OECFWord(grid[2])
  /\ Len(grid[5]) >= OECFWord(grid[2]) * OECFWord(grid[3])

OECFFromVUint8(grid) ==
  LET columns == OECFWord(grid[2])
      rows == OECFWord(grid[3])
  IN  Grid(columns, rows, SubSeq(grid[4], 1, columns), SubSeq(grid[5], 1, columns * rows))

\* XMPTypeOECF::ToVUint8
OECFToVUint8(grid) == Grid(Word(grid[2]), Word(grid[3]), grid[4], grid[5])

\* XMPTypeCFAPattern::FromVUint8 and ToVUint8
AcceptsCFA(grid) == Len(grid[5]) = grid[2] * grid[3]
CFAToVUint8(columns, rows, cells) == Grid(Word(columns), Word(rows), <<>>, cells)

\* XMPTypeDeviceSetting::FromVUint8 and ToVUint8
AcceptsDeviceSetting(grid) == Len(grid[5]) = grid[2] * grid[3]
DeviceSettingToVUint8(columns, rows, cells) == Grid(Word(columns), Word(rows), <<>>, cells)
=============================================================================
