----------------------------- MODULE Translations -----------------------------
(***************************************************************************)
(* A metadatum and the entry of a TIFF or Exif file that a row of the      *)
(* translation table puts it into: the accessor saves the one into the     *)
(* other and loads it back through the row's translator, as often as the   *)
(* application asks it to.                                                 *)
(*                                                                         *)
(* Each side keeps, next to its values, what they were before the first    *)
(* translation: what the application assigned, or another program wrote.   *)
(* It is lost when a value is read with a type it does not have.           *)
(***************************************************************************)
EXTENDS Translators, Sequences

CONSTANTS Rows,        \* rows of a table of the user: [accessor, type, translator, mdType, vector]
          Lists,       \* C type -> the lists of its values that are tried, none of them empty
          Memory       \* C type -> the values that memory may hold

ASSUME ListsAssumption ==
  \A ctype \in Numeric \cup {"bool", "string"} : \A list \in Lists[ctype] :
    1 \in DOMAIN list /\ \A i \in DOMAIN list : Holds(ctype, list[i])

VARIABLES
  row,        \* of the metadatum
  md,         \* [values, origin]
  entry,      \* [type, values, origin]
  success     \* what the last call answered, or "thrown"

translationVars == <<row, md, entry, success>>

NoRow == [accessor |-> "none"]
Nothing == <<>>   \* no values, and an origin that is lost
NoMd == [values |-> Nothing, origin |-> Nothing]
NoEntry == [type |-> "none", values |-> Nothing, origin |-> Nothing]

-----------------------------------------------------------------------------
\* Types of entries

\* getType: the types that have a number.
EntryTypes == {"ascii", "byte", "ubyte", "short", "ushort", "long", "ulong", "rational",
               "urational", "float", "double", "undefined"}

\* The C type of the buffer the values of an entry are copied through.
Buffer(type) ==
  CASE type = "ascii" -> "string"
    [] type = "byte" -> "char"
    [] type = "ubyte" -> "uchar"
    [] type = "long" -> "int"
    [] type = "ulong" -> "uint"
    [] type \in {"rational", "urational", "float"} -> "float"
    [] type = "undefined" -> "bytes"
    [] OTHER -> type

\* The Exif accessor reads text as strings, whatever the table says.
TranslatorOf(r) ==
  create(IF r.accessor = "EXIF" /\ r.translator = "ascii" THEN "string" ELSE r.translator)

Translates(r) == r.mdType \in Accepts(TranslatorOf(r))

-----------------------------------------------------------------------------
\* The calls

MdLists(r) == {l \in Lists[CTypeOf(r.mdType)] : r.vector \/ Len(l) = 1}

\* What the bytes of an undefined entry are is up to the metadatum.
Content(r, type) == IF Buffer(type) = "bytes" THEN CTypeOf(r.mdType) ELSE Buffer(type)

\* A metadatum of the row, without a value, and a file without the entry.
Start(r) ==
  /\ row = NoRow
  /\ row' = r
  /\ UNCHANGED <<md, entry, success>>

\* The application assigns a value.
Assign ==
  /\ row # NoRow /\ md = NoMd
  /\ \E values \in MdLists(row) : md' = [values |-> values, origin |-> values]
  /\ UNCHANGED <<row, entry, success>>

\* The file is another program's: the entry has the type of the row, or is a short where
\* the row says long.
OtherFile ==
  /\ row # NoRow /\ entry = NoEntry
  /\ \E type \in {row.type} \cup (IF row.type = "ulong" THEN {"ushort"} ELSE {}) :
       /\ type \in EntryTypes
       /\ \E values \in Lists[Content(row, type)] :
            entry' = [type |-> type, values |-> values, origin |-> values]
  /\ UNCHANGED <<row, md, success>>

\* The values of the entry: a buffer that is not of its type is copied all the same.
Saved(r, values) ==
  IF Buffer(r.type) = FileType(TranslatorOf(r))
  THEN {[i \in DOMAIN values |-> ToVal(TranslatorOf(r), r.mdType, values[i])]}
  ELSE [DOMAIN values -> Memory[Content(r, r.type)]]

setMdValue ==
  /\ md # NoMd
  /\ \/ /\ ~Translates(row)
        /\ success' = "thrown" /\ UNCHANGED entry
     \/ /\ Translates(row) /\ row.type \notin EntryTypes
        /\ success' = "false" /\ UNCHANGED entry
     \/ /\ Translates(row) /\ row.type \in EntryTypes
        /\ success' = "true"
        /\ \E values \in Saved(row, md.values) :
             entry' = [type |-> row.type, values |-> values,
                       origin |-> IF Buffer(row.type) = FileType(TranslatorOf(row))
                                  THEN md.origin ELSE Nothing]
  /\ UNCHANGED <<row, md>>

\* The values the metadatum takes: the first, or all of them.
Taken(r, values) == IF r.vector \/ values = Nothing THEN values ELSE <<values[1]>>

\* Mutant of Found: the shorts are looked for where the longs are.
FoundSameType(r, type, i) == Buffer(type) = FileType(TranslatorOf(r))

\* Whether the translator finds the i-th value where it looks for it.  The Exif accessor
\* puts the first of the shorts under a row of longs into a buffer of its own.
Found(r, type, i) ==
  \/ Buffer(type) = FileType(TranslatorOf(r))
  \/ /\ r.accessor = "EXIF" /\ type = "ushort" /\ r.type = "ulong"
     /\ FileType(TranslatorOf(r)) = "uint" /\ i = 1

\* The values of the metadatum: of what is not found, whatever is in memory.
Loaded(r, type, values) ==
  LET lost == {i \in DOMAIN values : ~Found(r, type, i)}
  IN  {[i \in DOMAIN values |->
          IF i \in lost THEN garbage[i] ELSE ToMd(TranslatorOf(r), r.mdType, values[i])] :
       garbage \in [lost -> Memory[CTypeOf(r.mdType)]]}

getMdValue ==
  /\ entry # NoEntry
  /\ \/ /\ ~Translates(row)
        /\ success' = "thrown" /\ UNCHANGED md
     \/ /\ Translates(row)
        /\ success' = "true"
        /\ LET taken == Taken(row, entry.values)
           IN  \E values \in Loaded(row, entry.type, taken) :
                 md' = [values |-> values,
                        origin |-> IF \A i \in DOMAIN taken : Found(row, entry.type, i)
                                   THEN Taken(row, entry.origin) ELSE Nothing]
  /\ UNCHANGED <<row, entry>>

\* The metadatum and the file are done with.
Forget ==
  /\ row # NoRow
  /\ row' = NoRow /\ md' = NoMd /\ entry' = NoEntry /\ success' = "none"

TranslationInit == row = NoRow /\ md = NoMd /\ entry = NoEntry /\ success = "none"
TranslationNext == Assign \/ OtherFile \/ setMdValue \/ getMdValue \/ Forget

Spec ==
  TranslationInit /\ [][(\E r \in Rows : Start(r)) \/ TranslationNext]_translationVars

-----------------------------------------------------------------------------
\* Properties

\* Floats and doubles are clamped between each other to the limits of float, of which the
\* lower one is above zero.
MixesFloats(r) == {TranslatorOf(r), CTypeOf(r.mdType)} = Floating

\* What both sides of a row can hold.
Fits(r, x) ==
  /\ Holds(CTypeOf(r.mdType), x)
  /\ Moved(TranslatorOf(r)) \/ Holds(FileType(TranslatorOf(r)), x)
  /\ MixesFloats(r) => x >= 1

Kept(side) ==
  side.origin # Nothing =>
    /\ DOMAIN side.values = DOMAIN side.origin
    /\ \A i \in DOMAIN side.origin :
         Fits(row, side.origin[i]) => side.values[i] = side.origin[i]

\* A value that both the file and the metadatum can hold is what it was, however often it is
\* saved and loaded; among floats and doubles, one above zero.  (PmtTranslatorT::assign,
\* getMdValue, setMdValue.)
Survives == row # NoRow => Kept(md) /\ Kept(entry)

\* Rows whose values the translator takes for others: chars for unsigned metadata, and, where
\* long is longer than int, int for long.
Reinterprets(r) ==
  \/ MixesFloats(r)
  \/ TranslatorOf(r) = "char" /\ r.mdType \in {"UINT8", "UINT16"}
  \/ Max32 < MaxLong /\ <<TranslatorOf(r), r.mdType>> \in {<<"long", "INT32">>, <<"ulong", "UINT32">>}

\* y is a value that both sides can hold, with none between it and x; a fraction is dropped.
IsNearest(r, x, y) ==
  /\ Fits(r, y)
  /\ \A z \in y + 1 .. x - 1 : ~Fits(r, z)
  /\ \A z \in x + 1 .. y - 1 : ~Fits(r, z)
  /\ x % 2 = 1 => IF x >= 0 THEN y <= x ELSE x <= y

Clipped(r, x, y) == y = x \/ IsNearest(r, x, y)

\* From the largest integer of one side on, when the other side, a float, rounds it: the limit
\* that a float is compared with is the rounded one, which is not above itself.
PastRoundedLimit(r, x) ==
  LET types == {FileType(TranslatorOf(r)), CTypeOf(r.mdType)}
  IN  \E float \in types \cap Floating, whole \in types \ Floating :
        Cast(float, Hi(whole)) # Hi(whole) /\ Hi(whole) <= x

Converting == row # NoRow /\ ~Moved(TranslatorOf(row)) /\ ~Reinterprets(row)
Sides == {md, [values |-> entry.values, origin |-> entry.origin]}

\* A number one side cannot hold becomes one next to it that both can: the end of the range,
\* the integer below a fraction, a float next to an integer; it does not wrap around.  All but
\* those past a limit that a float rounds.  (upAssignToMd, downAssignToMd, upAssignToVal,
\* downAssignToVal.)
Saturates ==
  Converting =>
    \A side \in Sides : \A i \in DOMAIN side.origin :
      PastRoundedLimit(row, side.origin[i]) \/ Clipped(row, side.origin[i], side.values[i])

\* Of the rows of the default table, each entry is read and saved with the type it has, and
\* by a translator that takes its metadatum; all but shorts under a row of longs, of which
\* the Exif accessor finds the first and the TIFF accessor none.  (getType, create,
\* PmtExifAccessor.cpp:1435-1446.)
OnlyShortsMisread ==
  row \notin Rows \cup {NoRow} =>
    /\ success \in {"none", "true"}
    /\ \A side \in Sides :
         (side.values # Nothing /\ side.origin = Nothing) =>
           row.type = "ulong" /\ (row.accessor = "TIFF" \/ row.vector)
=============================================================================
