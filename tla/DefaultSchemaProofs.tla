------------------------- MODULE DefaultSchemaProofs -------------------------
(***************************************************************************)
(* What a metadatum and its entry can both hold survives every translation, *)
(* and what they cannot becomes the nearest they can, whatever the widths  *)
(* of the types and the row; and a prototype of the default schema has the *)
(* URI of its key.                                                         *)
(***************************************************************************)
EXTENDS DefaultSchema, Induction, TLAPS

-----------------------------------------------------------------------------
\* The conversions

\* The limits of the C types, in order.
LEMMA Limits ==
  /\ \A ctype \in Numeric : Lo(ctype) \in Int /\ Hi(ctype) \in Int
  /\ Lo("ushort") = 0
  /\ Hi("char") <= Hi("short") /\ Lo("short") <= 0
  BY WidthsAssumption DEF Numeric, Signed, Unsigned, Floating, Lo, Hi, SignedMax

\* What a type holds is an integer between its limits, and an even one but for floats.
LEMMA HeldIsBetween ==
  ASSUME NEW ctype \in Numeric, NEW x, Holds(ctype, x)
  PROVE  /\ x \in Int /\ Lo(ctype) <= x /\ x <= Hi(ctype)
         /\ ctype \notin Floating => x % 2 = 0
  <1>0. Lo(ctype) \in Int /\ Hi(ctype) \in Int
    BY Limits
  <1>1. CASE ctype \in Floating
    <2>1. x \in Lo(ctype) .. Hi(ctype)
      BY <1>1 DEF Holds, Floating
    <2> QED BY <1>0, <1>1, <2>1
  <1>2. CASE ctype \notin Floating
    <2>1. ctype \in Signed \cup Unsigned
      BY <1>2 DEF Numeric
    <2>2. x \in Lo(ctype) .. Hi(ctype) /\ x % 2 = 0
      BY <1>2, <2>1 DEF Holds, Floating, Signed, Unsigned
    <2> QED BY <1>0, <1>2, <2>2
  <1> QED BY <1>1, <1>2

\* A cast leaves a value the type holds as it is.
LEMMA CastKeeps ==
  ASSUME NEW ctype, NEW x, Holds(ctype, x)
  PROVE  Cast(ctype, x) = x
  BY DEF Cast

\* A limit is compared with as it is, or as the even integer above it.
LEMMA LimitIsNear ==
  ASSUME NEW ctype \in Numeric, NEW from \in Numeric
  PROVE  LET limit == Limit(ctype, from)
         IN  /\ limit \in Int /\ Hi(ctype) \in Int /\ Hi(ctype) % 2 = 0
             /\ Hi(ctype) <= limit /\ limit <= Hi(ctype) + 2
             /\ limit = Hi(ctype) \/ limit % 4 = 0
  <1>1. Hi(ctype) \in Int /\ Hi(ctype) % 2 = 0
    BY WidthsAssumption DEF Numeric, Signed, Unsigned, Floating, Hi, SignedMax
  <1>2. CASE from \notin Floating
    BY <1>1, <1>2 DEF Limit
  <1>3. CASE from \in Floating
    <2>1. Limit(ctype, from) \in {Hi(ctype), ((Hi(ctype) + 2) \div 4) * 4}
      BY <1>3 DEF Limit, Cast
    <2> QED BY <1>1, <2>1
  <1> QED BY <1>2, <1>3

\* So do the limits, but for floats up to zero.
LEMMA ClampKeeps ==
  ASSUME NEW ctype \in Numeric, NEW from \in Numeric, NEW x, Holds(ctype, x),
         ctype \in Floating => x >= 1
  PROVE  Clamp(ctype, from, x) = x
  <1>1. x \in Int /\ Lo(ctype) <= x /\ x <= Hi(ctype) /\ Lo(ctype) \in Int /\ Hi(ctype) \in Int
    BY HeldIsBetween, Limits
  <1>2. ~(x < Least(ctype)) /\ ~(x > Limit(ctype, from))
    BY <1>1, LimitIsNear DEF Least
  <1>3. Cast(ctype, x) = x
    BY CastKeeps
  <1> QED BY <1>2, <1>3 DEF Clamp

\* A translator leaves what its file and its metadatum can hold as it is, in both
\* directions.
LEMMA AssignKeeps ==
  ASSUME NEW t \in Builtin, ~Moved(t), NEW mdType \in Accepts(t), NEW x,
         Holds(CTypeOf(mdType), x), Holds(FileType(t), x),
         {t, CTypeOf(mdType)} = Floating => x >= 1
  PROVE  ToVal(t, mdType, x) = x /\ ToMd(t, mdType, x) = x
  <1> DEFINE file == FileType(t)
             seen == Viewed(t, mdType)
  <1>1. /\ t \in {"char", "uchar", "short", "ushort", "long", "ulong", "float", "double"}
        /\ mdType \in Whole \cup Floats
    BY DEF Builtin, Moved, Accepts, Whole, Floats, Floating
  <1>2. file \in Numeric /\ CTypeOf(mdType) \in Numeric /\ seen \in Numeric
    BY <1>1 DEF FileType, CTypeOf, Viewed, Numeric, Signed, Unsigned, Floating, Whole, Floats
  <1>3. Holds(seen, x)
    <2>1. CASE t = "char" /\ mdType = "UINT16"
      <3>1. seen = "short" /\ file = "char" /\ CTypeOf(mdType) = "ushort"
        BY <2>1 DEF Viewed, FileType, CTypeOf
      <3>2. "char" \in Numeric \ Floating /\ "ushort" \in Numeric \ Floating /\ "short" \in Numeric
        BY DEF Numeric, Signed, Unsigned, Floating
      <3>3. Holds("char", x) /\ Holds("ushort", x)
        BY <3>1
      <3>4. x \in Int /\ x % 2 = 0 /\ Lo("ushort") <= x /\ x <= Hi("char")
        BY <3>2, <3>3, HeldIsBetween
      <3>5. x \in Lo("short") .. Hi("short")
        BY <3>2, <3>4, Limits
      <3> QED BY <3>1, <3>4, <3>5 DEF Holds, Signed, Floating
    <2>2. CASE ~(t = "char" /\ mdType = "UINT16")
      BY <2>2 DEF Viewed
    <2> QED BY <2>1, <2>2
  <1>4. Cast(file, x) = x /\ Cast(seen, x) = x /\ Cast(CTypeOf(mdType), x) = x
    BY <1>3, CastKeeps
  <1>5. ASSUME Rank(file) < Rank(seen)
        PROVE  Clamp(file, seen, x) = x
    <2>1. ASSUME file \in Floating
          PROVE  {t, CTypeOf(mdType)} = Floating
      <3>1. t = file /\ seen = CTypeOf(mdType)
        BY <1>1, <2>1 DEF FileType, Viewed, Floating
      <3>2. t = "float" /\ CTypeOf(mdType) = "double"
        <4>1. CTypeOf(mdType) \in {"char", "uchar", "short", "ushort", "long", "ulong", "float", "double"}
          BY <1>1 DEF CTypeOf, Whole, Floats
        <4> QED BY <1>5, <2>1, <3>1, <4>1 DEF Rank, Floating
      <3> QED BY <3>2 DEF Floating
    <2> QED BY <2>1, <1>2, ClampKeeps
  <1>6. ASSUME Rank(seen) < Rank(file)
        PROVE  Clamp(seen, file, x) = x
    <2>1. ASSUME seen \in Floating
          PROVE  {t, CTypeOf(mdType)} = Floating
      <3>1. seen = CTypeOf(mdType)
        BY <2>1 DEF Viewed, Floating
      <3>2. CTypeOf(mdType) = "float" /\ file = "double"
        <4>1. file \in {"char", "uchar", "short", "ushort", "int", "uint", "float", "double"}
          BY <1>1 DEF FileType
        <4> QED BY <1>6, <2>1, <3>1, <4>1 DEF Rank, Floating
      <3>3. t = "double"
        BY <1>1, <3>2 DEF FileType
      <3> QED BY <3>2, <3>3 DEF Floating
    <2> QED BY <2>1, <1>2, <1>3, ClampKeeps
  <1> QED BY <1>4, <1>5, <1>6 DEF ToVal, ToMd

\* For the rows of a table: what fits is translated to itself.
LEMMA FittingKeeps ==
  ASSUME NEW r, Translates(r), NEW x, Fits(r, x)
  PROVE  /\ ToVal(TranslatorOf(r), r.mdType, x) = x
         /\ ToMd(TranslatorOf(r), r.mdType, x) = x
  <1>1. TranslatorOf(r) \in Builtin
    BY DEF TranslatorOf, create, Builtin
  <1>2. CASE Moved(TranslatorOf(r))
    BY <1>2 DEF ToVal, ToMd
  <1>3. CASE ~Moved(TranslatorOf(r))
    BY <1>1, <1>3, AssignKeeps DEF Fits, Translates, MixesFloats
  <1> QED BY <1>2, <1>3

-----------------------------------------------------------------------------
\* The calls

\* What is lost has no values, so that what is not lost has a first one.
HasFirst(side) == side.origin # Nothing => 1 \in DOMAIN side.origin

\* Survives, with what Start and the singular metadata need: a side without a row has no
\* values, and an origin has a first one.
KeptInv ==
  /\ row = NoRow => md = NoMd /\ entry = NoEntry
  /\ Survives
  /\ HasFirst(md) /\ HasFirst(entry)

\* The values that are tried have a first one.
LEMMA ListsHaveFirst ==
  ASSUME NEW r, NEW type \in EntryTypes
  PROVE  /\ \A list \in Lists[CTypeOf(r.mdType)] : 1 \in DOMAIN list
         /\ \A list \in Lists[Content(r, type)] : 1 \in DOMAIN list
  <1>1. CTypeOf(r.mdType) \in Numeric \cup {"bool", "string"}
    BY DEF CTypeOf, Numeric, Signed, Unsigned, Floating
  <1>2. Buffer(type) \in Numeric \cup {"string", "bytes"}
    BY DEF Buffer, EntryTypes, Numeric, Signed, Unsigned, Floating
  <1>3. Content(r, type) \in Numeric \cup {"bool", "string"}
    BY <1>1, <1>2 DEF Content
  <1> QED BY <1>1, <1>3, ListsAssumption

\* No side has values before the first call.
LEMMA KeptInit == TranslationInit => KeptInv
  BY DEF TranslationInit, KeptInv, Survives, HasFirst, NoMd, NoEntry, Nothing

\* No call changes a value both sides can hold.
LEMMA KeptStep ==
  ASSUME KeptInv, [(\E r : Start(r)) \/ TranslationNext]_translationVars
  PROVE  KeptInv'
  <1> USE DEF KeptInv
  <1>1. ASSUME NEW r, Start(r)
        PROVE  KeptInv'
    BY <1>1 DEF Start, Survives, Kept, HasFirst, NoMd, NoEntry, Nothing
  <1>2. CASE Assign
    <2>1. PICK values \in MdLists(row) : md' = [values |-> values, origin |-> values]
      BY <1>2 DEF Assign
    <2>2. 1 \in DOMAIN values
      BY ListsHaveFirst DEF MdLists, EntryTypes
    <2>3. HasFirst(md)' /\ Kept(md)'
      BY <2>1, <2>2 DEF HasFirst, Kept
    <2> QED BY <1>2, <2>3 DEF Assign, Survives, Kept, HasFirst
  <1>3. CASE OtherFile
    <2>1. PICK type \in EntryTypes : \E values \in Lists[Content(row, type)] :
            entry' = [type |-> type, values |-> values, origin |-> values]
      BY <1>3 DEF OtherFile
    <2>2. PICK values \in Lists[Content(row, type)] :
            entry' = [type |-> type, values |-> values, origin |-> values]
      BY <2>1
    <2>3. 1 \in DOMAIN values
      BY ListsHaveFirst
    <2>4. HasFirst(entry)' /\ Kept(entry)'
      BY <2>2, <2>3 DEF HasFirst, Kept
    <2> QED BY <1>3, <2>4 DEF OtherFile, Survives, Kept, HasFirst
  <1>4. CASE setMdValue
    <2>1. row # NoRow /\ row' = row /\ md' = md
      BY <1>4 DEF setMdValue
    <2>2. CASE UNCHANGED entry
      BY <2>1, <2>2 DEF Survives, Kept, HasFirst
    <2>3. CASE ~UNCHANGED entry
      <3>1. Translates(row)
        BY <1>4, <2>3 DEF setMdValue
      <3>2. CASE Buffer(row.type) = FileType(TranslatorOf(row))
        <4> DEFINE saved == [i \in DOMAIN md.values |->
                               ToVal(TranslatorOf(row), row.mdType, md.values[i])]
        <4>1. entry' = [type |-> row.type, values |-> saved, origin |-> md.origin]
          BY <1>4, <2>3, <3>2 DEF setMdValue, Saved
        <4>2. HasFirst(entry)'
          BY <4>1 DEF HasFirst
        <4>3. ASSUME md.origin # Nothing, NEW i \in DOMAIN md.origin, Fits(row, md.origin[i])
              PROVE  saved[i] = md.origin[i]
          <5>1. i \in DOMAIN md.values /\ md.values[i] = md.origin[i]
            BY <2>1, <4>3 DEF Survives, Kept
          <5>2. ToVal(TranslatorOf(row), row.mdType, md.origin[i]) = md.origin[i]
            BY <3>1, <4>3, FittingKeeps
          <5> QED BY <5>1, <5>2
        <4>4. md.origin # Nothing => DOMAIN saved = DOMAIN md.origin
          BY <2>1 DEF Survives, Kept
        <4>5. Kept(entry)'
          BY <2>1, <4>1, <4>3, <4>4 DEF Kept
        <4> QED BY <2>1, <4>2, <4>5 DEF Survives, Kept, HasFirst
      <3>3. CASE Buffer(row.type) # FileType(TranslatorOf(row))
        <4>1. entry'.origin = Nothing
          BY <1>4, <2>3, <3>3 DEF setMdValue
        <4> QED BY <2>1, <4>1 DEF Survives, Kept, HasFirst
      <3> QED BY <3>2, <3>3
    <2> QED BY <2>2, <2>3
  <1>5. CASE getMdValue
    <2>1. row # NoRow /\ row' = row /\ entry' = entry
      BY <1>5 DEF getMdValue
    <2>2. CASE UNCHANGED md
      BY <2>1, <2>2 DEF Survives, Kept, HasFirst
    <2>3. CASE ~UNCHANGED md
      <3> DEFINE taken == Taken(row, entry.values)
      <3>1. Translates(row)
        BY <1>5, <2>3 DEF getMdValue
      <3>2. PICK values \in Loaded(row, entry.type, taken) :
              md' = [values |-> values,
                     origin |-> IF \A i \in DOMAIN taken : Found(row, entry.type, i)
                                THEN Taken(row, entry.origin) ELSE Nothing]
        BY <1>5, <2>3 DEF getMdValue
      <3>3. CASE (\A i \in DOMAIN taken : Found(row, entry.type, i)) /\ entry.origin # Nothing
        <4> DEFINE origin == Taken(row, entry.origin)
        <4>1. values = [i \in DOMAIN taken |-> ToMd(TranslatorOf(row), row.mdType, taken[i])]
          BY <3>3 DEF Loaded
        <4>2. /\ DOMAIN entry.values = DOMAIN entry.origin /\ 1 \in DOMAIN entry.origin
              /\ \A i \in DOMAIN entry.origin :
                   Fits(row, entry.origin[i]) => entry.values[i] = entry.origin[i]
          BY <2>1, <3>3 DEF Survives, Kept, HasFirst
        <4>3. entry.values # Nothing
          BY <4>2 DEF Nothing
        <4>4. /\ DOMAIN taken = DOMAIN origin /\ 1 \in DOMAIN origin
              /\ \A i \in DOMAIN origin : Fits(row, origin[i]) => taken[i] = origin[i]
          BY <3>3, <4>2, <4>3 DEF Taken
        <4>5. md' = [values |-> values, origin |-> origin]
          BY <3>2, <3>3
        <4>6. ASSUME NEW i \in DOMAIN origin, Fits(row, origin[i])
              PROVE  values[i] = origin[i]
          <5>1. ToMd(TranslatorOf(row), row.mdType, origin[i]) = origin[i]
            BY <3>1, <4>6, FittingKeeps
          <5> QED BY <4>1, <4>4, <4>6, <5>1
        <4>7. DOMAIN values = DOMAIN origin
          BY <4>1, <4>4
        <4>8. Kept(md)' /\ HasFirst(md)'
          <5> HIDE DEF origin, taken
          <5> QED BY <2>1, <4>4, <4>5, <4>6, <4>7 DEF Kept, HasFirst
        <4> QED BY <2>1, <4>8 DEF Survives, Kept, HasFirst
      <3>4. CASE ~((\A i \in DOMAIN taken : Found(row, entry.type, i)) /\ entry.origin # Nothing)
        <4>1. md'.origin = Nothing
          BY <3>2, <3>4 DEF Taken
        <4> QED BY <2>1, <4>1 DEF Survives, Kept, HasFirst
      <3> QED BY <3>3, <3>4
    <2> QED BY <2>2, <2>3
  <1>6. CASE Forget
    BY <1>6 DEF Forget, Survives, HasFirst, NoMd, NoEntry, Nothing
  <1>7. CASE UNCHANGED translationVars
    BY <1>7 DEF translationVars, Survives, Kept, HasFirst
  <1> QED BY <1>1, <1>2, <1>3, <1>4, <1>5, <1>6, <1>7 DEF TranslationNext

-----------------------------------------------------------------------------
\* Saturation

\* What the first type can hold lies between the limits of the second.
Within(a, b) == Lo(b) <= Lo(a) /\ Hi(a) <= Hi(b)

\* The rows Saturates is about: those whose translator converts, between types of which it
\* takes none for another.
Converts(r) == Translates(r) /\ ~Moved(TranslatorOf(r)) /\ ~Reinterprets(r)

\* Of two types of which none is taken for the other, the one with the lower rank lies within
\* the other and is of integers; those of one rank have the same limits.
LEMMA NarrowerIsWithin ==
  ASSUME NEW f \in {"char", "uchar", "short", "ushort", "int", "uint", "float", "double"},
         NEW c \in {"char", "uchar", "short", "ushort", "long", "ulong", "float", "double"},
         f \in Signed => c \notin Unsigned,
         f \in Unsigned => c \notin Signed,
         f \in Floating /\ c \in Floating => f = c,
         f \in {"int", "uint"} /\ c \in {"long", "ulong"} => Max32 = MaxLong
  PROVE  /\ Rank(f) \in Nat /\ Rank(c) \in Nat
         /\ Rank(f) < Rank(c) => f \notin Floating /\ Within(f, c)
         /\ Rank(c) < Rank(f) => c \notin Floating /\ Within(c, f)
         /\ Rank(f) = Rank(c) => /\ Within(f, c) /\ Within(c, f)
                                 /\ f \in Floating <=> c \in Floating
  <1>1. /\ Lo("char") = - 2 * Max8 - 2 /\ Hi("char") = 2 * Max8
        /\ Lo("uchar") = 0 /\ Hi("uchar") = 2 * (2 * Max8 + 1)
        /\ Lo("short") = - 2 * Max16 - 2 /\ Hi("short") = 2 * Max16
        /\ Lo("ushort") = 0 /\ Hi("ushort") = 2 * (2 * Max16 + 1)
        /\ Lo("int") = - 2 * Max32 - 2 /\ Hi("int") = 2 * Max32
        /\ Lo("uint") = 0 /\ Hi("uint") = 2 * (2 * Max32 + 1)
        /\ Lo("long") = - 2 * MaxLong - 2 /\ Hi("long") = 2 * MaxLong
        /\ Lo("ulong") = 0 /\ Hi("ulong") = 2 * (2 * MaxLong + 1)
        /\ Lo("float") = - (2 * FloatMax) /\ Hi("float") = 2 * FloatMax
        /\ Lo("double") = - (2 * DoubleMax) /\ Hi("double") = 2 * DoubleMax
    BY DEF Lo, Hi, SignedMax, Signed, Unsigned, Floating
  <1>2. /\ Rank("char") = 1 /\ Rank("uchar") = 1 /\ Rank("short") = 2 /\ Rank("ushort") = 2
        /\ Rank("int") = 3 /\ Rank("uint") = 3 /\ Rank("long") = 3 /\ Rank("ulong") = 3
        /\ Rank("float") = 4 /\ Rank("double") = 5
    BY DEF Rank
  <1>3. /\ Max8 \in Nat /\ Max16 \in Nat /\ Max32 \in Nat /\ MaxLong \in Nat
        /\ FloatMax \in Nat /\ DoubleMax \in Nat
        /\ 2 * Max8 + 1 < Max16 /\ 2 * Max16 + 1 < Max32
        /\ Max32 <= MaxLong /\ 2 * MaxLong + 1 <= FloatMax /\ FloatMax < DoubleMax
    BY WidthsAssumption
  <1> USE <1>1, <1>2, <1>3 DEF Within, Floating, Signed, Unsigned
  <1>4. CASE f = "char"
    BY <1>4
  <1>5. CASE f = "uchar"
    BY <1>5
  <1>6. CASE f = "short"
    BY <1>6
  <1>7. CASE f = "ushort"
    BY <1>7
  <1>8. CASE f = "int"
    BY <1>8
  <1>9. CASE f = "uint"
    BY <1>9
  <1>10. CASE f = "float"
    BY <1>10
  <1>11. CASE f = "double"
    BY <1>11
  <1> QED BY <1>4, <1>5, <1>6, <1>7, <1>8, <1>9, <1>10, <1>11

\* So are the types of a translator and of its metadatum in a row that converts.
LEMMA RowIsWithin ==
  ASSUME NEW r, Converts(r)
  PROVE  LET t == TranslatorOf(r)
             f == FileType(t)
             c == CTypeOf(r.mdType)
         IN  /\ {t, c} # Floating /\ Viewed(t, r.mdType) = c
             /\ f \in Numeric /\ c \in Numeric
             /\ Rank(f) \in Nat /\ Rank(c) \in Nat
             /\ Rank(f) < Rank(c) => f \notin Floating /\ Within(f, c)
             /\ Rank(c) < Rank(f) => c \notin Floating /\ Within(c, f)
             /\ Rank(f) = Rank(c) => /\ Within(f, c) /\ Within(c, f)
                                     /\ f \in Floating <=> c \in Floating
             /\ f \in Floating /\ c \in Floating => f = c
  <1> DEFINE t == TranslatorOf(r)
             f == FileType(t)
             c == CTypeOf(r.mdType)
  <1>1. t \in Builtin
    BY DEF TranslatorOf, create, Builtin
  <1>2. /\ ~Moved(t) /\ r.mdType \in Accepts(t) /\ {t, c} # Floating
        /\ ~(t = "char" /\ r.mdType \in {"UINT8", "UINT16"})
        /\ Max32 < MaxLong => <<t, r.mdType>> \notin {<<"long", "INT32">>, <<"ulong", "UINT32">>}
    BY DEF Converts, Translates, Reinterprets, MixesFloats
  <1> HIDE DEF t
  <1>3. t \in {"char", "uchar", "short", "ushort", "long", "ulong", "float", "double"}
    BY <1>1, <1>2 DEF Builtin, Moved
  <1>4. f = IF t = "long" THEN "int" ELSE IF t = "ulong" THEN "uint" ELSE t
    BY <1>3 DEF FileType
  <1>5. /\ r.mdType \in Whole \cup Floats
        /\ t = "char" => r.mdType \in {"INT8", "INT16", "INT32"} \cup Floats
        /\ t \in {"uchar", "ushort", "ulong"} => r.mdType \in {"UINT8", "UINT16", "UINT32"} \cup Floats
        /\ t \in {"short", "long"} => r.mdType \in {"INT8", "INT16", "INT32"} \cup Floats
    BY <1>2, <1>3 DEF Accepts, Whole, Floats, Floating
  <1>6. /\ r.mdType = "INT8" => c = "char"
        /\ r.mdType = "UINT8" => c = "uchar"
        /\ r.mdType = "INT16" => c = "short"
        /\ r.mdType = "UINT16" => c = "ushort"
        /\ r.mdType = "INT32" => c = "long"
        /\ r.mdType = "UINT32" => c = "ulong"
        /\ r.mdType = "FLOAT" => c = "float"
        /\ r.mdType = "DOUBLE" => c = "double"
    BY DEF CTypeOf
  <1>7. f \in {"char", "uchar", "short", "ushort", "int", "uint", "float", "double"}
    BY <1>3, <1>4
  <1>8. c \in {"char", "uchar", "short", "ushort", "long", "ulong", "float", "double"}
    BY <1>5, <1>6 DEF Whole, Floats
  <1>9. Viewed(t, r.mdType) = c
    BY <1>2 DEF Viewed
  <1>10. f \in Numeric /\ c \in Numeric
    BY <1>7, <1>8 DEF Numeric, Signed, Unsigned, Floating
  <1> HIDE DEF f, c
  <1>11. /\ f \in Signed => c \notin Unsigned
         /\ f \in Unsigned => c \notin Signed
    BY <1>3, <1>4, <1>5, <1>6 DEF Signed, Unsigned, Floats
  <1>12. f \in Floating /\ c \in Floating => f = c
    BY <1>2, <1>3, <1>4 DEF Floating
  <1>13. f \in {"int", "uint"} /\ c \in {"long", "ulong"} => Max32 = MaxLong
    <2>1. ~(Max32 < MaxLong) => Max32 = MaxLong
      BY WidthsAssumption
    <2> QED BY <1>2, <1>3, <1>4, <1>5, <1>6, <2>1 DEF Floats
  <1>14. /\ Rank(f) \in Nat /\ Rank(c) \in Nat
         /\ Rank(f) < Rank(c) => f \notin Floating /\ Within(f, c)
         /\ Rank(c) < Rank(f) => c \notin Floating /\ Within(c, f)
         /\ Rank(f) = Rank(c) => /\ Within(f, c) /\ Within(c, f)
                                 /\ f \in Floating <=> c \in Floating
    BY <1>7, <1>8, <1>11, <1>12, <1>13, NarrowerIsWithin
  <1> QED BY <1>2, <1>9, <1>10, <1>12, <1>14 DEF f, c, t

\* The type is a float that rounds the limit of the other, and the value is not below it.
Past(float, whole, x) ==
  /\ float \in Floating /\ whole \notin Floating
  /\ Cast(float, Hi(whole)) # Hi(whole)
  /\ Hi(whole) <= x

\* An integer type holds the even numbers between its limits.
LEMMA WholeHolds ==
  ASSUME NEW ctype \in Numeric \ Floating, NEW x
  PROVE  Holds(ctype, x) <=> x \in Lo(ctype) .. Hi(ctype) /\ x % 2 = 0
  BY DEF Holds, Numeric, Signed, Unsigned, Floating

\* A float holds what is near zero, and every fourth number.
LEMMA FloatHolds ==
  ASSUME NEW ctype \in Floating, NEW x
  PROVE  /\ Exact(ctype) \in Nat /\ Exact(ctype) % 4 = 0
         /\ Holds(ctype, x) <=> /\ x \in Lo(ctype) .. Hi(ctype)
                                /\ x \in - Exact(ctype) .. Exact(ctype) \/ x % 4 = 0
  <1>1. Exact(ctype) \in Nat /\ Exact(ctype) % 4 = 0
    BY RoundingAssumption DEF Exact
  <1> QED BY <1>1 DEF Holds, Floating, Signed, Unsigned

\* The limits of an integer type are even, and the lower one every float holds that goes down
\* to it.
LEMMA WholeLimits ==
  ASSUME NEW ctype \in Numeric \ Floating
  PROVE  /\ Lo(ctype) \in Int /\ Hi(ctype) \in Int
         /\ Lo(ctype) <= 0 /\ 0 <= Hi(ctype) /\ Lo(ctype) % 4 = 0 /\ Hi(ctype) % 4 = 2
  BY WidthsAssumption, RoundingAssumption
     DEF Numeric, Signed, Unsigned, Floating, Lo, Hi, SignedMax

\* A cast to an integer type drops the fraction of what is between its limits.
LEMMA CastTruncates ==
  ASSUME NEW ctype \in Numeric \ Floating, NEW x \in Lo(ctype) .. Hi(ctype)
  PROVE  Cast(ctype, x) = Truncated(x)
  <1>1. /\ Lo(ctype) \in Int /\ Hi(ctype) \in Int /\ Lo(ctype) <= 0 /\ 0 <= Hi(ctype)
        /\ Lo(ctype) % 4 = 0 /\ Hi(ctype) % 4 = 2
    BY WholeLimits
  <1>2. Truncated(x) = IF x >= 0 THEN x - (x % 2) ELSE x + (x % 2)
    BY DEF Truncated
  <1>3. CASE Holds(ctype, x)
    <2>1. x % 2 = 0
      BY <1>3, WholeHolds
    <2> QED BY <1>1, <1>2, <1>3, <2>1, CastKeeps
  <1>4. CASE ~Holds(ctype, x)
    <2> DEFINE m == Truncated(x) - Lo(ctype)
               n == Hi(ctype) - Lo(ctype) + 2
    <2>1. m \in Nat /\ n \in Nat /\ m < n
      BY <1>1, <1>2
    <2>2. \A k, l \in Nat : k < l => k % l = k
      OBVIOUS
    <2>3. m % n = m
      <3> HIDE DEF m, n
      <3> QED BY <2>1, <2>2
    <2>4. Cast(ctype, x) = Lo(ctype) + (m % n)
      BY <1>4 DEF Cast
    <2> QED BY <1>1, <1>2, <2>3, <2>4
  <1> QED BY <1>3, <1>4

\* Between types of which the first lies within the second, the limits leave the nearest
\* value both can hold, unless the second rounds them.
LEMMA ClampIsNearest ==
  ASSUME NEW a \in Numeric \ Floating, NEW b \in Numeric, Within(a, b),
         NEW x, Holds(b, x), ~Past(b, a, x)
  PROVE  LET y == Clamp(a, b, x)
         IN  /\ y \in Int /\ x \in Int /\ Holds(a, y) /\ Holds(b, y)
             /\ x >= 0 => y <= x /\ \A z \in y + 1 .. x : ~Holds(a, z)
             /\ x < 0 => x <= y /\ \A z \in x .. y - 1 : ~Holds(a, z)
  <1> DEFINE y == Clamp(a, b, x)
  <1>1. /\ Lo(a) \in Int /\ Hi(a) \in Int /\ Lo(b) \in Int /\ Hi(b) \in Int
        /\ Lo(a) <= 0 /\ 0 <= Hi(a) /\ Lo(a) % 4 = 0 /\ Hi(a) % 4 = 2
        /\ Lo(b) <= Lo(a) /\ Hi(a) <= Hi(b)
    BY Limits, WholeLimits DEF Within
  <1>2. x \in Int /\ Lo(b) <= x /\ x <= Hi(b) /\ (b \notin Floating => x % 2 = 0)
    BY HeldIsBetween
  <1>3. Least(a) = Lo(a)
    BY DEF Least
  <1>4. Truncated(x) = IF x >= 0 THEN x - (x % 2) ELSE x + (x % 2)
    BY DEF Truncated
  <1>5. \A z : Holds(a, z) <=> z \in Lo(a) .. Hi(a) /\ z % 2 = 0
    BY WholeHolds
  <1>6. x > Hi(a) <=> x > Limit(a, b)
    <2>1. CASE b \notin Floating
      BY <2>1 DEF Limit
    <2>2. CASE b \in Floating
      <3>1. x < Hi(a) \/ Limit(a, b) = Hi(a)
        BY <1>1, <1>2, <2>2 DEF Past, Limit
      <3>2. Limit(a, b) \in Int /\ Hi(a) <= Limit(a, b)
        BY LimitIsNear
      <3> QED BY <1>1, <1>2, <3>1, <3>2
    <2> QED BY <2>1, <2>2
  <1>7. y = IF x < Lo(a) THEN Lo(a) ELSE IF x > Hi(a) THEN Hi(a) ELSE Truncated(x)
    <2>1. CASE x < Lo(a)
      <3>1. ~(x > Hi(a))
        BY <1>1, <1>2, <2>1
      <3> QED BY <1>3, <1>6, <2>1, <3>1 DEF Clamp
    <2>2. CASE x > Hi(a)
      BY <1>1, <1>2, <1>3, <1>6, <2>2 DEF Clamp
    <2>3. CASE Lo(a) <= x /\ x <= Hi(a)
      <3>1. Cast(a, x) = Truncated(x)
        BY <1>1, <1>2, <2>3, CastTruncates
      <3>2. ~(x < Lo(a)) /\ ~(x > Hi(a))
        BY <1>1, <1>2, <2>3
      <3> QED BY <1>3, <1>6, <3>1, <3>2 DEF Clamp
    <2> QED BY <1>1, <1>2, <2>1, <2>2, <2>3
  <1> HIDE DEF y
  <1>8. y \in Int /\ Lo(a) <= y /\ y <= Hi(a) /\ y % 2 = 0
    BY <1>1, <1>2, <1>4, <1>7
  <1>9. Holds(a, y)
    BY <1>1, <1>5, <1>8
  <1>10. Holds(b, y)
    <2>1. CASE b \notin Floating
      BY <1>1, <1>8, <2>1, WholeHolds
    <2>2. CASE b \in Floating
      <3>1. y \in Lo(b) .. Hi(b)
        BY <1>1, <1>8
      <3>2. CASE x < Lo(a)
        BY <1>1, <1>7, <2>2, <3>1, <3>2, FloatHolds
      <3>3. CASE x > Hi(a)
        <4>1. y = Hi(a) /\ Cast(b, y) = y
          BY <1>1, <1>2, <1>7, <2>2, <3>3 DEF Past
        <4>2. CASE ~Holds(b, y)
          <5>1. y = ((y + 2) \div 4) * 4
            BY <2>2, <4>1, <4>2 DEF Cast
          <5> QED BY <1>1, <4>1, <5>1
        <4> QED BY <4>2
      <3>4. CASE Lo(a) <= x /\ x <= Hi(a)
        <4>1. y = Truncated(x)
          BY <1>1, <1>2, <1>7, <3>4
        <4>2. x \in - Exact(b) .. Exact(b) \/ x % 4 = 0
          BY <2>2, FloatHolds
        <4>3. Exact(b) \in Nat /\ Exact(b) % 4 = 0
          BY <2>2, FloatHolds
        <4>4. y \in - Exact(b) .. Exact(b) \/ y % 4 = 0
          BY <1>2, <1>4, <4>1, <4>2, <4>3
        <4> QED BY <2>2, <3>1, <4>4, FloatHolds
      <3> QED BY <1>1, <1>2, <3>2, <3>3, <3>4
    <2> QED BY <2>1, <2>2
  <1>11. ASSUME x >= 0
         PROVE  y <= x /\ \A z \in y + 1 .. x : ~Holds(a, z)
    BY <1>1, <1>2, <1>4, <1>5, <1>7, <1>11
  <1>12. ASSUME x < 0
         PROVE  x <= y /\ \A z \in x .. y - 1 : ~Holds(a, z)
    BY <1>1, <1>2, <1>4, <1>5, <1>7, <1>12
  <1> QED BY <1>2, <1>8, <1>9, <1>10, <1>11, <1>12 DEF y

\* A value of the first of two such types is cast to itself, or to the float next to it.
LEMMA CastIsNearest ==
  ASSUME NEW a \in Numeric, NEW b \in Numeric, Within(a, b), a \in Floating => a = b,
         NEW x, Holds(a, x), ~Past(b, a, x)
  PROVE  LET y == Cast(b, x)
         IN  /\ Holds(a, y) /\ Holds(b, y)
             /\ y = x \/ /\ y \in Int /\ x \in Int /\ x % 2 = 0 /\ x <= y
                         /\ \A z \in x + 1 .. y - 1 : ~Holds(a, z)
  <1>1. CASE Holds(b, x)
    BY <1>1, CastKeeps
  <1>2. CASE ~Holds(b, x)
    <2>1. a \notin Floating
      BY <1>2
    <2>2. x \in Lo(a) .. Hi(a) /\ x % 2 = 0
      BY <2>1, WholeHolds
    <2>3. /\ Lo(a) \in Int /\ Hi(a) \in Int /\ Lo(b) \in Int /\ Hi(b) \in Int
          /\ Lo(b) <= Lo(a) /\ Hi(a) <= Hi(b) /\ Hi(a) % 4 = 2
      BY <2>1, Limits, WholeLimits DEF Within
    <2>4. x \in Lo(b) .. Hi(b)
      BY <2>2, <2>3
    <2>5. b \in Floating
      BY <1>2, <2>2, <2>4, WholeHolds
    <2>6. x % 4 = 2
      <3>1. ~(x % 4 = 0)
        BY <1>2, <2>4, <2>5, FloatHolds
      <3> QED BY <2>2, <2>3, <3>1
    <2>7. Cast(b, x) = x + 2
      <3>1. Cast(b, x) = ((x + 2) \div 4) * 4
        BY <1>2, <2>5 DEF Cast
      <3> QED BY <2>2, <2>3, <2>6, <3>1
    <2>8. x # Hi(a)
      <3>1. ASSUME x = Hi(a)
            PROVE  FALSE
        BY <2>1, <2>3, <2>5, <2>7, <3>1 DEF Past
      <3> QED BY <3>1
    <2>9. x \in Int /\ x + 2 \in Lo(a) .. Hi(a) /\ (x + 2) % 4 = 0 /\ (x + 2) % 2 = 0
      BY <2>2, <2>3, <2>6, <2>8
    <2>10. Holds(a, x + 2)
      BY <2>1, <2>9, WholeHolds
    <2>11. Holds(b, x + 2)
      <3>1. x + 2 \in Lo(b) .. Hi(b)
        BY <2>3, <2>9
      <3> QED BY <2>5, <2>9, <3>1, FloatHolds
    <2>12. \A z \in x + 1 .. x + 1 : ~Holds(a, z)
      <3> SUFFICES ~Holds(a, x + 1)
        BY <2>9
      <3>1. ~((x + 1) % 2 = 0)
        BY <2>2, <2>9
      <3> QED BY <2>1, <3>1, WholeHolds
    <2> QED BY <2>2, <2>7, <2>9, <2>10, <2>11, <2>12
  <1> QED BY <1>1, <1>2

\* What a converting row makes of a value of one side that is not past a rounded limit: a
\* value of the other, the same or the nearest.
LEMMA ConvertsToNearest ==
  ASSUME NEW r, Converts(r), NEW x, ~PastRoundedLimit(r, x)
  PROVE  LET t == TranslatorOf(r)
             f == FileType(t)
             c == CTypeOf(r.mdType)
         IN  /\ Holds(c, x) =>
                  LET y == ToVal(t, r.mdType, x) IN Holds(f, y) /\ Clipped(r, x, y)
             /\ Holds(f, x) =>
                  LET y == ToMd(t, r.mdType, x) IN Holds(c, y) /\ Clipped(r, x, y)
  <1> DEFINE t == TranslatorOf(r)
             f == FileType(t)
             c == CTypeOf(r.mdType)
  <1>1. /\ {t, c} # Floating /\ Viewed(t, r.mdType) = c
        /\ f \in Numeric /\ c \in Numeric
        /\ Rank(f) \in Nat /\ Rank(c) \in Nat
        /\ Rank(f) < Rank(c) => f \notin Floating /\ Within(f, c)
        /\ Rank(c) < Rank(f) => c \notin Floating /\ Within(c, f)
        /\ Rank(f) = Rank(c) => /\ Within(f, c) /\ Within(c, f)
                                /\ f \in Floating <=> c \in Floating
        /\ f \in Floating /\ c \in Floating => f = c
    BY RowIsWithin
  <1>2. ~Moved(t)
    BY DEF Converts
  <1>3. ~Past(f, c, x) /\ ~Past(c, f, x)
    BY DEF PastRoundedLimit, Past
  <1>4. \A z, ctype : Holds(ctype, z) => Cast(ctype, z) = z
    BY CastKeeps
  <1>5. \A y : Fits(r, y) <=> Holds(c, y) /\ Holds(f, y)
    BY <1>1, <1>2 DEF Fits, MixesFloats
  <1> HIDE DEF f, c, t
  <1>6. ASSUME NEW a \in Numeric \ Floating, NEW b \in Numeric, {a, b} = {f, c}, Within(a, b),
               Holds(b, x), ~Past(b, a, x)
        PROVE  LET y == Clamp(a, b, x) IN Holds(a, y) /\ Clipped(r, x, y)
    <2> DEFINE y == Clamp(a, b, x)
    <2>1. /\ y \in Int /\ x \in Int /\ Holds(a, y) /\ Holds(b, y)
          /\ x >= 0 => y <= x /\ \A z \in y + 1 .. x : ~Holds(a, z)
          /\ x < 0 => x <= y /\ \A z \in x .. y - 1 : ~Holds(a, z)
      BY <1>6, ClampIsNearest
    <2> HIDE DEF y
    <2>2. \A z : Fits(r, z) <=> Holds(a, z) /\ Holds(b, z)
      BY <1>5, <1>6
    <2>3. IsNearest(r, x, y)
      BY <2>1, <2>2 DEF IsNearest
    <2> QED BY <2>1, <2>3 DEF y, Clipped
  <1>7. ASSUME NEW a \in Numeric, NEW b \in Numeric, {a, b} = {f, c}, Within(a, b),
               a \in Floating => a = b, Holds(a, x), ~Past(b, a, x)
        PROVE  LET y == Cast(b, x) IN Holds(b, y) /\ Holds(a, y) /\ Clipped(r, x, y)
    <2> DEFINE y == Cast(b, x)
    <2>1. /\ Holds(a, y) /\ Holds(b, y)
          /\ y = x \/ /\ y \in Int /\ x \in Int /\ x % 2 = 0 /\ x <= y
                      /\ \A z \in x + 1 .. y - 1 : ~Holds(a, z)
      BY <1>7, CastIsNearest
    <2> HIDE DEF y
    <2>2. \A z : Fits(r, z) <=> Holds(a, z) /\ Holds(b, z)
      BY <1>5, <1>7
    <2>3. y = x \/ IsNearest(r, x, y)
      BY <2>1, <2>2 DEF IsNearest
    <2> QED BY <2>1, <2>3 DEF y, Clipped
  <1>8. ASSUME Holds(c, x)
        PROVE  LET y == ToVal(t, r.mdType, x) IN Holds(f, y) /\ Clipped(r, x, y)
    <2>1. Cast(c, x) = x
      BY <1>4, <1>8
    <2>2. CASE Rank(f) < Rank(c)
      <3>1. ToVal(t, r.mdType, x) = Clamp(f, c, x)
        BY <1>1, <1>2, <2>1, <2>2 DEF ToVal, f
      <3> QED BY <1>1, <1>3, <1>6, <1>8, <2>2, <3>1
    <2>3. CASE ~(Rank(f) < Rank(c))
      <3>1. Within(c, f) /\ (c \in Floating => c = f)
        BY <1>1, <2>3
      <3>2. ToVal(t, r.mdType, x) = Cast(f, x)
        BY <1>1, <1>2, <2>1, <2>3 DEF ToVal, f
      <3> QED BY <1>1, <1>3, <1>7, <1>8, <3>1, <3>2
    <2> QED BY <2>2, <2>3
  <1>9. ASSUME Holds(f, x)
        PROVE  LET y == ToMd(t, r.mdType, x) IN Holds(c, y) /\ Clipped(r, x, y)
    <2>1. CASE Rank(c) < Rank(f)
      <3> DEFINE y == Clamp(c, f, x)
      <3>1. Holds(c, y) /\ Clipped(r, x, y)
        BY <1>1, <1>3, <1>6, <1>9, <2>1
      <3>2. ToMd(t, r.mdType, x) = y
        BY <1>1, <1>2, <1>4, <2>1, <3>1 DEF ToMd, f, c
      <3> QED BY <3>1, <3>2
    <2>2. CASE ~(Rank(c) < Rank(f))
      <3> DEFINE y == Cast(c, x)
      <3>1. Within(f, c) /\ (f \in Floating => f = c)
        BY <1>1, <2>2
      <3>2. Holds(c, y) /\ Clipped(r, x, y)
        BY <1>1, <1>3, <1>7, <1>9, <3>1
      <3>3. ToMd(t, r.mdType, x) = y
        BY <1>1, <1>2, <1>4, <2>2, <3>2 DEF ToMd, f, c
      <3> QED BY <3>2, <3>3
    <2> QED BY <2>1, <2>2
  <1> QED BY <1>8, <1>9 DEF f, c, t

\* Saturates, with what the next translation needs: the metadatum's values are of its type,
\* those the translator will find in the entry of the type of the file, and a row whose
\* translator does not take the metadatum leaves everything as it is.
SaturatesInv ==
  row # NoRow =>
    /\ Converts(row) =>
         /\ \A i \in DOMAIN md.origin :
              \/ PastRoundedLimit(row, md.origin[i])
              \/ /\ Holds(CTypeOf(row.mdType), md.values[i])
                 /\ Clipped(row, md.origin[i], md.values[i])
         /\ \A i \in DOMAIN entry.origin :
              \/ PastRoundedLimit(row, entry.origin[i])
              \/ /\ Found(row, entry.type, i) => Holds(FileType(TranslatorOf(row)), entry.values[i])
                 /\ Clipped(row, entry.origin[i], entry.values[i])
    /\ ~Translates(row) =>
         /\ \A i \in DOMAIN md.origin : md.values[i] = md.origin[i]
         /\ \A i \in DOMAIN entry.origin : entry.values[i] = entry.origin[i]

\* The values that are tried are of their type.
LEMMA ListsHold ==
  ASSUME NEW r, NEW type \in EntryTypes
  PROVE  /\ \A list \in Lists[CTypeOf(r.mdType)] : \A i \in DOMAIN list :
              Holds(CTypeOf(r.mdType), list[i])
         /\ \A list \in Lists[Content(r, type)] : \A i \in DOMAIN list :
              Holds(Content(r, type), list[i])
  <1>1. CTypeOf(r.mdType) \in Numeric \cup {"bool", "string"}
    BY DEF CTypeOf, Numeric, Signed, Unsigned, Floating
  <1>2. Buffer(type) \in Numeric \cup {"string", "bytes"}
    BY DEF Buffer, EntryTypes, Numeric, Signed, Unsigned, Floating
  <1>3. Content(r, type) \in Numeric \cup {"bool", "string"}
    BY <1>1, <1>2 DEF Content
  <1> QED BY <1>1, <1>3, ListsAssumption

\* What a translator finds in another program's entry is of its type.
LEMMA FoundHolds ==
  ASSUME NEW r, Converts(r), NEW type \in EntryTypes, NEW list \in Lists[Content(r, type)],
         NEW i \in DOMAIN list, Found(r, type, i)
  PROVE  Holds(FileType(TranslatorOf(r)), list[i])
  <1> DEFINE f == FileType(TranslatorOf(r))
  <1>1. f \in Numeric
    BY RowIsWithin
  <1>2. Holds(Content(r, type), list[i])
    BY ListsHold
  <1>3. CASE Buffer(type) = f
    <2>1. Buffer(type) # "bytes"
      BY <1>1, <1>3 DEF Numeric, Signed, Unsigned, Floating
    <2> QED BY <1>2, <1>3, <2>1 DEF Content
  <1>4. CASE Buffer(type) # f
    <2>1. type = "ushort" /\ f = "uint"
      BY <1>4 DEF Found
    <2>2. Content(r, type) = "ushort"
      BY <2>1 DEF Content, Buffer
    <2>3. Within("ushort", "uint") /\ {"ushort", "uint"} \subseteq Numeric \ Floating
      BY WidthsAssumption
         DEF Within, Lo, Hi, SignedMax, Numeric, Signed, Unsigned, Floating
    <2>4. list[i] \in Lo("ushort") .. Hi("ushort") /\ list[i] % 2 = 0
      BY <1>2, <2>1, <2>2, <2>3, WholeHolds
    <2>5. list[i] \in Lo("uint") .. Hi("uint")
      BY <2>3, <2>4, WholeLimits DEF Within
    <2> QED BY <2>1, <2>3, <2>4, <2>5, WholeHolds
  <1> QED BY <1>3, <1>4

\* No call leaves a value that is not the nearest.
LEMMA SaturatesStep ==
  ASSUME KeptInv, SaturatesInv, [(\E r : Start(r)) \/ TranslationNext]_translationVars
  PROVE  SaturatesInv'
  <1> DEFINE t == TranslatorOf(row)
             f == FileType(t)
             c == CTypeOf(row.mdType)
  <1>1. ASSUME NEW r, Start(r)
        PROVE  SaturatesInv'
    <2>1. DOMAIN md'.origin = {} /\ DOMAIN entry'.origin = {}
      BY <1>1 DEF Start, KeptInv, NoMd, NoEntry, Nothing
    <2> QED BY <2>1 DEF SaturatesInv
  <1>2. CASE Assign
    <2>1. PICK values \in MdLists(row) : md' = [values |-> values, origin |-> values]
      BY <1>2 DEF Assign
    <2>2. \A i \in DOMAIN values : Holds(c, values[i])
      BY ListsHold DEF MdLists, EntryTypes
    <2> QED BY <1>2, <2>1, <2>2 DEF Assign, SaturatesInv, Clipped
  <1>3. CASE OtherFile
    <2>1. PICK type \in EntryTypes : \E values \in Lists[Content(row, type)] :
            entry' = [type |-> type, values |-> values, origin |-> values]
      BY <1>3 DEF OtherFile
    <2>2. PICK values \in Lists[Content(row, type)] :
            entry' = [type |-> type, values |-> values, origin |-> values]
      BY <2>1
    <2>3. Converts(row) => \A i \in DOMAIN values : Found(row, type, i) => Holds(f, values[i])
      BY FoundHolds
    <2> QED BY <1>3, <2>2, <2>3 DEF OtherFile, SaturatesInv, Clipped
  <1>4. CASE setMdValue
    <2>1. row # NoRow /\ row' = row /\ md' = md
      BY <1>4 DEF setMdValue, KeptInv
    <2>2. CASE UNCHANGED entry
      BY <2>1, <2>2 DEF SaturatesInv
    <2>3. CASE ~UNCHANGED entry
      <3>1. Translates(row)
        BY <1>4, <2>3 DEF setMdValue
      <3>2. CASE Buffer(row.type) = f /\ md.origin # Nothing
        <4> DEFINE saved == [i \in DOMAIN md.values |-> ToVal(t, row.mdType, md.values[i])]
        <4>1. entry' = [type |-> row.type, values |-> saved, origin |-> md.origin]
          BY <1>4, <2>3, <3>2 DEF setMdValue, Saved
        <4>2. DOMAIN md.values = DOMAIN md.origin
          BY <2>1, <3>2 DEF KeptInv, Survives, Kept
        <4>3. ASSUME Converts(row), NEW i \in DOMAIN md.origin, ~PastRoundedLimit(row, md.origin[i])
              PROVE  Holds(f, saved[i]) /\ Clipped(row, md.origin[i], saved[i])
          <5>1. saved[i] = ToVal(t, row.mdType, md.values[i])
            BY <4>2
          <5>2. Holds(c, md.values[i]) /\ Clipped(row, md.origin[i], md.values[i])
            BY <2>1, <4>3 DEF SaturatesInv
          <5>3. CASE md.values[i] = md.origin[i]
            <6> HIDE DEF saved
            <6> QED BY <4>3, <5>1, <5>2, <5>3, ConvertsToNearest
          <5>4. CASE IsNearest(row, md.origin[i], md.values[i])
            <6>1. Fits(row, md.values[i])
              BY <5>4 DEF IsNearest
            <6>2. Holds(f, md.values[i])
              BY <4>3, <6>1 DEF Fits, Converts
            <6>3. saved[i] = md.values[i]
              BY <3>1, <5>1, <6>1, FittingKeeps
            <6> QED BY <5>2, <6>2, <6>3
          <5> QED BY <5>2, <5>3, <5>4 DEF Clipped
        <4> HIDE DEF saved
        <4> QED BY <2>1, <3>1, <4>1, <4>3 DEF SaturatesInv
      <3>3. CASE ~(Buffer(row.type) = f /\ md.origin # Nothing)
        <4>1. DOMAIN entry'.origin = {}
          BY <1>4, <2>3, <3>3 DEF setMdValue, Nothing
        <4> QED BY <2>1, <3>1, <4>1 DEF SaturatesInv
      <3> QED BY <3>2, <3>3
    <2> QED BY <2>2, <2>3
  <1>5. CASE getMdValue
    <2>1. row # NoRow /\ row' = row /\ entry' = entry
      BY <1>5 DEF getMdValue, KeptInv
    <2>2. CASE UNCHANGED md
      BY <2>1, <2>2 DEF SaturatesInv
    <2>3. CASE ~UNCHANGED md
      <3> DEFINE taken == Taken(row, entry.values)
                 origin == Taken(row, entry.origin)
                 all == \A i \in DOMAIN taken : Found(row, entry.type, i)
      <3>1. Translates(row)
        BY <1>5, <2>3 DEF getMdValue
      <3>2. PICK values \in Loaded(row, entry.type, taken) :
              md' = [values |-> values, origin |-> IF all THEN origin ELSE Nothing]
        BY <1>5, <2>3 DEF getMdValue
      <3>3. CASE all /\ entry.origin # Nothing
        <4>1. values = [i \in DOMAIN taken |-> ToMd(t, row.mdType, taken[i])]
          BY <3>3 DEF Loaded
        <4>2. DOMAIN entry.values = DOMAIN entry.origin /\ 1 \in DOMAIN entry.origin
          BY <2>1, <3>3 DEF KeptInv, Survives, Kept, HasFirst
        <4>3. entry.values # Nothing
          BY <4>2 DEF Nothing
        <4>4. /\ DOMAIN taken = DOMAIN origin
              /\ \A i \in DOMAIN origin : /\ i \in DOMAIN entry.origin
                                          /\ taken[i] = entry.values[i] /\ origin[i] = entry.origin[i]
          BY <3>3, <4>2, <4>3 DEF Taken
        <4>5. md' = [values |-> values, origin |-> origin]
          BY <3>2, <3>3
        <4>6. ASSUME Converts(row), NEW i \in DOMAIN origin, ~PastRoundedLimit(row, origin[i])
              PROVE  Holds(c, values[i]) /\ Clipped(row, origin[i], values[i])
          <5>1. values[i] = ToMd(t, row.mdType, entry.values[i]) /\ origin[i] = entry.origin[i]
            BY <4>1, <4>4
          <5>2. i \in DOMAIN entry.origin /\ Found(row, entry.type, i)
            BY <3>3, <4>4
          <5>3. Holds(f, entry.values[i]) /\ Clipped(row, entry.origin[i], entry.values[i])
            BY <2>1, <4>6, <5>1, <5>2 DEF SaturatesInv
          <5>4. CASE entry.values[i] = entry.origin[i]
            <6> HIDE DEF origin, taken
            <6> QED BY <4>6, <5>1, <5>3, <5>4, ConvertsToNearest
          <5>5. CASE IsNearest(row, entry.origin[i], entry.values[i])
            <6>1. Fits(row, entry.values[i])
              BY <5>5 DEF IsNearest
            <6>2. Holds(c, entry.values[i])
              BY <6>1 DEF Fits
            <6>3. values[i] = entry.values[i]
              BY <3>1, <5>1, <6>1, FittingKeeps
            <6> QED BY <5>1, <5>3, <6>2, <6>3
          <5> QED BY <5>3, <5>4, <5>5 DEF Clipped
        <4> HIDE DEF origin, taken
        <4> QED BY <2>1, <3>1, <4>5, <4>6 DEF SaturatesInv
      <3>4. CASE ~(all /\ entry.origin # Nothing)
        <4>1. DOMAIN md'.origin = {}
          BY <3>2, <3>4 DEF Taken, Nothing
        <4> QED BY <2>1, <3>1, <4>1 DEF SaturatesInv
      <3> QED BY <3>3, <3>4
    <2> QED BY <2>2, <2>3
  <1>6. CASE Forget
    BY <1>6 DEF Forget, SaturatesInv
  <1>7. CASE UNCHANGED translationVars
    BY <1>7 DEF translationVars, SaturatesInv
  <1> QED BY <1>1, <1>2, <1>3, <1>4, <1>5, <1>6, <1>7 DEF TranslationNext

LEMMA SaturatesFromInv == SaturatesInv => Saturates
  <1> SUFFICES ASSUME SaturatesInv, Converting
               PROVE  /\ \A i \in DOMAIN md.origin :
                           PastRoundedLimit(row, md.origin[i]) \/ Clipped(row, md.origin[i], md.values[i])
                      /\ \A i \in DOMAIN entry.origin :
                           \/ PastRoundedLimit(row, entry.origin[i])
                           \/ Clipped(row, entry.origin[i], entry.values[i])
    BY DEF Saturates, Sides
  <1> QED BY DEF SaturatesInv, Converts, Converting, Clipped

-----------------------------------------------------------------------------
\* A value that both the file and the metadatum can hold is what it was, however often it is
\* saved and loaded, and whatever else the file holds.  (PmtTranslatorT::assign, getMdValue,
\* setMdValue.)
THEOREM RoundTrips == Spec => []Survives
  <1>1. KeptInv /\ [(\E r \in Rows : Start(r)) \/ TranslationNext]_translationVars => KeptInv'
    BY KeptStep
  <1>2. KeptInv => Survives
    BY DEF KeptInv
  <1> QED BY KeptInit, <1>1, <1>2, PTL DEF Spec

-----------------------------------------------------------------------------
\* At work: with the rows of the default table

\* A step of the whole starts a metadatum for some row, or translates.
LEMMA StartsOrTranslates ==
  ASSUME [Next]_vars
  PROVE  [(\E r : Start(r)) \/ TranslationNext]_translationVars
  <1>1. CASE Define
    BY <1>1 DEF Define
  <1>2. CASE Create
    BY <1>2 DEF Create
  <1>3. CASE Translate
    BY <1>3 DEF Translate
  <1>4. CASE UNCHANGED vars
    BY <1>4 DEF vars, translationVars
  <1> QED BY <1>1, <1>2, <1>3, <1>4 DEF Next

\* What both sides can hold survives in the rows of the default table, too.
THEOREM DefaultRoundTrips == DefaultSpec => []Survives
  <1>1. Init => KeptInv
    BY KeptInit DEF Init
  <1>2. KeptInv /\ [Next]_vars => KeptInv'
    BY StartsOrTranslates, KeptStep
  <1>3. KeptInv => Survives
    BY DEF KeptInv
  <1> QED BY <1>1, <1>2, <1>3, PTL DEF DefaultSpec

\* A number one side cannot hold becomes one next to it that both can, in one translation or in
\* several, for every row of the default table and of the user's; below the limits that a
\* float rounds, it does not wrap around.
\* (upAssignToMd, downAssignToMd, upAssignToVal, downAssignToVal.)
THEOREM Saturation == DefaultSpec => []Saturates
  <1>1. Init => KeptInv /\ SaturatesInv
    BY KeptInit DEF Init, TranslationInit, SaturatesInv
  <1>2. KeptInv /\ SaturatesInv /\ [Next]_vars => (KeptInv /\ SaturatesInv)'
    BY StartsOrTranslates, KeptStep, SaturatesStep
  <1> QED BY <1>1, <1>2, SaturatesFromInv, PTL DEF DefaultSpec

-----------------------------------------------------------------------------
\* The URIs of the prototypes

\* A set of naturals that is not empty has a least member.
LEMMA MinIsLeast ==
  ASSUME NEW S \in SUBSET Nat, S # {}
  PROVE  Min(S) \in S /\ \A n \in S : Min(S) <= n
  BY LeastMember DEF Min

\* The table is numbered from one, and has a first row.
LEMMA TableRows == DOMAIN Table = 1 .. Len(Table) /\ Len(Table) \in Nat /\ 1 \in DOMAIN Table
  <1> DEFINE Listed(s) == Len(s) \in Nat \ {0} /\ DOMAIN s = 1 .. Len(s)
  <1>1. \A s, t : Listed(s) /\ Listed(t) => Listed(s \o t)
    OBVIOUS
  <1>2. /\ Listed(Rows1) /\ Listed(Rows2) /\ Listed(Rows3) /\ Listed(Rows4) /\ Listed(Rows5)
        /\ Listed(Rows6) /\ Listed(Rows7) /\ Listed(Rows8) /\ Listed(Rows9) /\ Listed(Rows10)
        /\ Listed(Rows11) /\ Listed(Rows12) /\ Listed(Rows13) /\ Listed(Rows14) /\ Listed(Rows15)
        /\ Listed(Rows16) /\ Listed(Rows17) /\ Listed(Rows18) /\ Listed(Rows19) /\ Listed(Rows20)
        /\ Listed(Rows21) /\ Listed(Rows22)
    BY DEF Rows1, Rows2, Rows3, Rows4, Rows5, Rows6, Rows7, Rows8, Rows9, Rows10, Rows11,
           Rows12, Rows13, Rows14, Rows15, Rows16, Rows17, Rows18, Rows19, Rows20, Rows21, Rows22
  <1> HIDE DEF Listed
  <1>3. Listed(Table)
    BY <1>1, <1>2 DEF Table, defaultTranslationTableArray
  <1> QED BY <1>3 DEF Listed

\* The search comes to a row with the key, wherever it begins, if there is one.
LEMMA FindRowFinds ==
  ASSUME NEW from \in DOMAIN Table, NEW key
  PROVE  LET j == FindRow(from, key)
         IN  \/ j = 0 /\ RowsWith(key, DOMAIN Table) = {}
             \/ j \in DOMAIN Table /\ Table[j].key = key
  <1> DEFINE after == RowsWith(key, from + 1 .. Len(Table))
             before == RowsWith(key, 1 .. from)
  <1>1. /\ from + 1 .. Len(Table) \subseteq DOMAIN Table /\ 1 .. from \subseteq DOMAIN Table
        /\ DOMAIN Table \subseteq (from + 1 .. Len(Table)) \cup (1 .. from)
        /\ DOMAIN Table \in SUBSET Nat /\ 0 \notin DOMAIN Table
    BY TableRows
  <1>2. FindRow(from, key) = IF after # {} THEN Min(after)
                             ELSE IF before # {} THEN Min(before) ELSE 0
    BY DEF FindRow
  <1>3. /\ after \subseteq RowsWith(key, DOMAIN Table) /\ before \subseteq RowsWith(key, DOMAIN Table)
        /\ RowsWith(key, DOMAIN Table) \subseteq after \cup before
        /\ RowsWith(key, DOMAIN Table) \subseteq DOMAIN Table
    BY <1>1 DEF RowsWith
  <1> HIDE DEF after, before
  <1>4. after # {} => Min(after) \in after
    BY <1>1, <1>3, MinIsLeast
  <1>5. before # {} => Min(before) \in before
    BY <1>1, <1>3, MinIsLeast
  <1>6. \A j \in RowsWith(key, DOMAIN Table) : j \in DOMAIN Table /\ Table[j].key = key
    BY DEF RowsWith
  <1> QED BY <1>2, <1>3, <1>4, <1>5, <1>6

\* UriOfKey, of every state, with where the search goes on: at a row of the table.
UriInv ==
  /\ transTable \in DOMAIN Table
  /\ \A key \in DOMAIN factory :
       (factory[key].row > 1 /\ Schema[factory[key].row].code # "composite") =>
         LET j == factory[key].uriOf
         IN  IF j = 0 THEN RowsWith(key, DOMAIN Table) = {} ELSE Table[j].key = key

\* Each row that is read adds its own key, with the row that was found.
LEMMA UriStep ==
  ASSUME UriInv, [Next]_vars
  PROVE  UriInv'
  <1>1. CASE load
    BY <1>1, TableRows DEF load, UriInv, With, NoFactory
  <1>2. CASE BeginGroup \/ EndGroup \/ EndComposite
    BY <1>2 DEF BeginGroup, EndGroup, EndComposite, UriInv
  <1>3. CASE BeginComposite
    <2> DEFINE key == CompositeKey(Item.name)
    <2>1. CASE UNCHANGED factory
      BY <1>3, <2>1 DEF BeginComposite, UriInv
    <2>2. CASE ~UNCHANGED factory
      <3>1. /\ factory' = With(factory, key, [row |-> index, uriOf |-> 0, group |-> Group])
            /\ Schema[index].code = "composite" /\ transTable' = transTable
        BY <1>3, <2>2 DEF BeginComposite, Item
      <3> HIDE DEF key
      <3> QED BY <3>1 DEF UriInv, With
    <2> QED BY <2>1, <2>2
  <1>4. CASE Leaf
    <2> DEFINE key == FullKey \o "." \o Item.name
               found == FindRow(transTable, key)
    <2>1. \/ found = 0 /\ RowsWith(key, DOMAIN Table) = {}
          \/ found \in DOMAIN Table /\ Table[found].key = key
      BY FindRowFinds DEF UriInv
    <2>2. transTable' \in DOMAIN Table
      BY <1>4, <2>1 DEF Leaf, UriInv
    <2>3. CASE UNCHANGED factory
      BY <2>2, <2>3 DEF UriInv
    <2>4. CASE ~UNCHANGED factory
      <3>1. factory' = With(factory, key, [row |-> index, uriOf |-> found, group |-> Group])
        BY <1>4, <2>4 DEF Leaf
      <3>2. 0 \notin DOMAIN Table
        BY TableRows
      <3> HIDE DEF key, found
      <3> QED BY <2>1, <2>2, <3>1, <3>2 DEF UriInv, With
    <2> QED BY <2>3, <2>4
  <1>5. CASE EndParse
    BY <1>5, TableRows DEF EndParse, UriInv
  <1>6. CASE erase
    BY <1>6 DEF erase, UriInv, NoFactory, parserVars
  <1>7. CASE loadSchema
    BY <1>7 DEF loadSchema, UriInv, Foreign, parserVars
  <1>8. CASE UNCHANGED schemaVars
    BY <1>8 DEF schemaVars, parserVars, UriInv
  <1> QED BY <1>1, <1>2, <1>3, <1>4, <1>5, <1>6, <1>7, <1>8
          DEF Next, Define, Create, Translate, SchemaNext, ReadRow, vars

\* A prototype has the URI of a row with its key, and none only if no row has it: where the
\* last search ended does not matter.  (PmtSchemaSAXParser.cpp:1372-1382.)
THEOREM UrisOfTheirKeys == DefaultSpec => []UriOfKey
  <1>1. Init => UriInv
    BY TableRows DEF Init, SchemaInit, UriInv, NoFactory
  <1>2. UriInv /\ [Next]_vars => UriInv'
    BY UriStep
  <1>3. UriInv => UriOfKey
    BY DEF UriInv, UriOfKey
  <1> QED BY <1>1, <1>2, <1>3, PTL DEF DefaultSpec
=============================================================================
