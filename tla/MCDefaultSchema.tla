--------------------------- MODULE MCDefaultSchema ---------------------------
(* Widths, values and rows for TLC: three bits are enough for a char. *)
EXTENDS DefaultSchema

MCUserKeys ==
  {{RootKey, "MyComposite", "MyComposite.Leaf"},
   {RootKey, "XMP"},
   {RootKey, "CaptureConditions", "CaptureConditions.Aperture"}}

Limits(ctype) == {Lo(ctype), 0, Hi(ctype)}
Numbers(ctype) ==
  Limits(ctype) \cup 
  {x \in {Lo(ctype) + 2, -9, -4, 1, 2, 5, 8, Hi("int") + 2, Hi("long") + 2} : Holds(ctype, x)}

Values(ctype) ==
  CASE ctype \in Numeric -> Numbers(ctype)
    [] ctype = "bool" -> {0, 2}
    [] OTHER -> Strings

MCLists ==
  [ctype \in Numeric \cup {"bool", "string"} |->
     {<<x>> : x \in Values(ctype)} \cup
     (IF ctype \in Numeric THEN {<<Lo(ctype), Hi(ctype)>>, <<Hi(ctype), 0>>} ELSE {})]
MCMemory ==
  [ctype \in Numeric \cup {"bool", "string"} |->
     IF ctype \in Numeric THEN Limits(ctype) ELSE Values(ctype)]

TypeFor(translator) ==
  CASE translator = "char" -> "byte"
    [] translator = "uchar" -> "ubyte"
    [] OTHER -> translator

UserRow(type, translator, mdType) ==
  [accessor |-> "TIFF", type |-> type, translator |-> translator, mdType |-> mdType, vector |-> FALSE]

DefaultRows ==
  {UserRow("ulong", "ulong", "UINT32"), UserRow("ushort", "ushort", "UINT8"),
   UserRow("ushort", "ushort", "UINT16"), UserRow("ubyte", "uchar", "UINT8")}

Mistakes ==
  {UserRow("short", "short", "UINT8"), UserRow("vuchar", "uchar", "UINT8"),
   UserRow("short", "float", "FLOAT"), UserRow("ubyte", "bool", "BOOL"),
   UserRow("ascii", "ascii", "STRING")}

\* Every translator of numbers with every type it accepts, but for the rows the default
\* table has; and rows with a mistake.
MCRows ==
  (UNION {{UserRow(TypeFor(t), t, mdType) : mdType \in Accepts(t)} :
            t \in {"char", "uchar", "short", "ushort", "long", "ulong", "float", "double"}}
     \ DefaultRows) \cup Mistakes
=============================================================================
