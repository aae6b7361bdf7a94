---------------------------- MODULE XmpMetadata ----------------------------
(***************************************************************************)
(* What the XMP accessor makes of a packet, value by value: the metadata   *)
(* it reads from the nodes, the nodes it writes for a metadatum, and the   *)
(* packet the nodes are saved as and read from again.  XmpAccessor models  *)
(* the same accessor around one opaque text; here the text is the tree.    *)
(*                                                                         *)
(* Each behaviour is about a few keys that have to do with each other: a   *)
(* theme, with the rows of the translation table for its keys, the values  *)
(* they may be set to and the packets that are opened and appended.        *)
(***************************************************************************)
EXTENDS XmpNodes

CONSTANTS
  Theme,     \* records [rows, values, packets]; rows in the order of the table
  MaxIndex   \* items of a list are set and removed at 0 .. MaxIndex

\* A row: the metadatum's key, its node's key, the type of its value in the packet
\* and as metadata, whether it occurs many times, and whether it is part of
\* SceneContent.UserComment.MS.
RowType == [md : STRING, tag : Key, type : STRING, value : STRING,
            many : BOOLEAN, inMS : BOOLEAN]

ASSUME XmpMetadataAssumption ==
  /\ \A t \in Theme : \A i \in DOMAIN t.rows : t.rows[i] \in RowType
  /\ MaxIndex \in Nat

Absent == <<"absent">>
Closed == Leaf("none", NoText)

VARIABLES
  theme,
  tree,      \* mpXMPNode below xmpmeta: the rdf:RDF node; Closed when there is none
  root,      \* mRootMetadata: the value of each key, and whether the composite MS
             \* was created
  outcome,   \* what the last call answered
  wrote,     \* for a key, the value WriteMdValue last answered true for, until the
             \* key is removed or what it shares a node with is changed
  torn,      \* lists whose items in the tree and in the metadata went apart
  touched,   \* whether anything was changed since the packet was opened
  again,     \* what another accessor would read of the packet, were it saved now
  spoilt     \* whether a text with markup, a key without prefix or a packet that
             \* could not be read was taken in

vars == <<theme, tree, root, outcome, wrote, torn, touched, again, spoilt>>

Rows == {theme.rows[i] : i \in DOMAIN theme.rows}
Keys == {r.md : r \in Rows}
RowOf(k) == CHOOSE r \in Rows : r.md = k
TagOf(k) == RowOf(k).tag

\* FindXMPKeysInTranslationTable
RowsOfTag(tag) == SelectSeq(theme.rows, LAMBDA r : r.tag = tag)

\* GetXMPTypeMode
GetXMPTypeMode(type) ==
  CASE type \in {"Integer", "Rational", "String", "ascii", "GPSCoordinate", "Boolean", "Date"} -> "simple"
    [] type \in {"SeqInteger", "SeqRational", "SeqString"} -> "rdf:Seq"
    [] type = "BagString" -> "rdf:Bag"
    [] type \in {"LangAlt", "OECF", "CFAPattern", "Time", "DeviceSetting"} -> "composited"
    [] type = "Flash" -> "complex"

\* PmtMetadata::create(): nothing has a value.
FreshRoot ==
  [inMS |-> FALSE, values |-> [k \in Keys |-> IF RowOf(k).many THEN <<>> ELSE Absent]]

\* getMetadatum that creates
Touched(r, row) ==
  [r EXCEPT !.inMS = @ \/ row.inMS,
            !.values[row.md] = IF @ = Absent THEN Unset ELSE @]

-----------------------------------------------------------------------------
\* Reading: a state is the metadata so far, and whether an exception was thrown

\* AssignXMPValueToPMTValue of a text: the value, which stays where the text is not
\* of the type.
AssignXMPValueToPMTValue(row, text, before) ==
  CASE row.type = "Integer" -> text
    [] row.type = "Rational" /\ row.value = "float" -> ToFloat(FromXMPTypeRational(text))
    [] row.type = "String" /\ row.value = "string" -> text
    [] row.type = "String" /\ row.value = "bytes" -> <<"bytes", StringToVUint8(text)>>
    [] row.type = "String" /\ row.value = "float" ->
         CASE text = <<"string", <<"24">>>> -> <<"float", <<24, 1>>>>
           [] text = <<"string", <<"NTSC">>>> -> <<"float", <<30, 1>>>>
           [] text = <<"string", <<"PAL">>>> -> <<"float", <<25, 1>>>>
           [] OTHER -> before
    [] row.type = "Date" /\ AcceptsDate(text) /\ row.value = "string" ->
         ToPMTTypeString(FromXMPString(text))
    [] row.type = "Date" /\ AcceptsDate(text) /\ row.value = "floats" ->
         LET date == FromXMPString(text)
             held == IF before = Unset THEN <<>> ELSE before[2]
         IN  <<"floats", held \o <<<<date[4], 1>>, <<date[5], 1>>, <<date[6], 1>>>>>>
    [] row.type = "GPSCoordinate" /\ AcceptsGPS(text) -> <<"floats", GPSFromString(text)>>
    [] row.type = "Boolean" ->
         IF AcceptsBool(text) THEN <<"bool", FromXMPTypeBool(text)>> ELSE Throws
    [] OTHER -> before

Assigned(st, row, value) ==
  IF value = Throws THEN [st EXCEPT !.thrown = TRUE]
  ELSE [st EXCEPT !.root = [Touched(@, row) EXCEPT !.values[row.md] = value]]

Held(st, row) == Touched(st.root, row).values[row.md]

AssignSimple(st, row, text) ==
  Assigned(st, row, AssignXMPValueToPMTValue(row, text, Held(st, row)))

\* AssignXMPValueToPMTValue of a list
AssignVector(st, row, texts) ==
  CASE row.type = "SeqInteger" /\ row.value = "ints" ->
         Assigned(st, row, <<"ints", FromXMPTypeSeqInt(texts)>>)
    [] row.type = "SeqInteger" /\ row.value = "int" /\ texts # <<>> ->
         Assigned(st, row, <<"int", FromXMPTypeSeqInt(texts)[1]>>)
    [] row.type = "SeqRational" ->
         LET rationals == FromXMPTypeSeqRational(texts)
         IN  IF \E i \in DOMAIN rationals : rationals[i][2] = 0 THEN [st EXCEPT !.thrown = TRUE]
             ELSE Assigned(st, row, <<"floats", [i \in DOMAIN rationals |->
                                                   Lowest(rationals[i][1], rationals[i][2])]>>)
    [] OTHER -> Assigned(st, row, Held(st, row))

\* AssignMutiXMPValueToPMTValue: only where the composite MS is there already, and
\* without removing items that are there.
AssignMutiXMPValueToPMTValue(st, row, texts) ==
  LET held == st.root.values[row.md]
      new == [i \in DOMAIN texts |-> <<"wide", StringToVUint8W(texts[i])>>]
  IN  IF ~st.root.inMS THEN st
      ELSE [st EXCEPT !.root.values[row.md] = new \o SubSeq(held, Len(new) + 1, Len(held))]

\* AssignLangAltToPMTValue
AssignLangAlt(st, row, node) ==
  LET text == GetKeyValueLanguage(node, node.key)
  IN  CASE text = NoText -> Assigned(st, row, Held(st, row))
        [] text # NoText /\ row.value = "string" -> Assigned(st, row, text)
        [] text # NoText /\ row.value = "wide" -> Assigned(st, row, <<"wide", StringToVUint8W(text)>>)

\* AssignOECFToPMTValue: as many names as columns, as many values as cells.
AssignOECF(st, row, node) ==
  LET columns == FromXMPTypeInt(GetKeyValue(node, "exif:Columns"))
      rows == FromXMPTypeInt(GetKeyValue(node, "exif:Rows"))
      names == GetKeyValueVector(node, "exif:Names", "rdf:Seq")
      cells == GetKeyValueVector(node, "exif:Values", "rdf:Seq")
      whole == /\ GetKeyValue(node, "exif:Columns") # NoText
               /\ GetKeyValue(node, "exif:Rows") # NoText
               /\ Len(names) = columns /\ Len(cells) = columns * rows
  IN  Assigned(st, row,
        IF whole THEN OECFToVUint8(Grid(columns, rows, names, FromXMPTypeSeqRational(cells)))
        ELSE Held(st, row))

\* AssignCFAPatternToPMTValue
AssignCFAPattern(st, row, node) ==
  LET columns == FromXMPTypeInt(GetKeyValue(node, "exif:Columns"))
      rows == FromXMPTypeInt(GetKeyValue(node, "exif:Rows"))
      cells == GetKeyValueVector(node, "exif:Values", "rdf:Seq")
      whole == /\ GetKeyValue(node, "exif:Columns") # NoText
               /\ GetKeyValue(node, "exif:Rows") # NoText
               /\ Len(cells) = columns * rows
  IN  Assigned(st, row, IF whole THEN CFAToVUint8(columns, rows, FromXMPTypeSeqInt(cells))
                        ELSE Held(st, row))

\* AssignDeviceSettingToPMTValue
AssignDeviceSetting(st, row, node) ==
  LET columns == FromXMPTypeInt(GetKeyValue(node, "exif:Columns"))
      rows == FromXMPTypeInt(GetKeyValue(node, "exif:Rows"))
      cells == GetKeyValueVector(node, "exif:Values", "rdf:Seq")
      whole == /\ GetKeyValue(node, "exif:Columns") # NoText
               /\ GetKeyValue(node, "exif:Rows") # NoText
               /\ Len(cells) = columns * rows
  IN  Assigned(st, row, IF whole THEN DeviceSettingToVUint8(columns, rows, cells)
                        ELSE Held(st, row))

\* AssignFlashToPMTValue.  A field the structure lacks is read uninitialised: the
\* byte may then be anything.
AssignFlash(st, row, node) ==
  LET Field(name) == GetKeyValue(node, name)
      whole == \A name \in {"exif:Fired", "exif:Function", "exif:Mode", "exif:RedEyeMode", "exif:Return"} :
                 Field(name) # NoText
      misread == \E name \in {"exif:Fired", "exif:Function", "exif:RedEyeMode"} :
                   Field(name) # NoText /\ ~AcceptsBool(Field(name))
  IN  IF misread THEN [st EXCEPT !.thrown = TRUE]
      ELSE IF ~whole THEN Assigned(st, row, <<"any byte">>)
      ELSE Assigned(st, row, <<"int", FlashToByte(
             [Fired |-> FromXMPTypeBool(Field("exif:Fired")),
              Function |-> FromXMPTypeBool(Field("exif:Function")),
              Mode |-> FromXMPTypeInt(Field("exif:Mode")),
              RedEyeMode |-> FromXMPTypeBool(Field("exif:RedEyeMode")),
              Return |-> FromXMPTypeInt(Field("exif:Return"))])>>)

\* AssignTimeToPMTValue looks for the fields in the name space xmp/1.0/mm/.
AssignTime(st, row, node) ==
  LET scale == GetKeyValue(node, "mm:scale")
      value == GetKeyValue(node, "mm:value")
      rational == FromXMPTypeRational(scale)
  IN  IF scale = NoText \/ value = NoText THEN Assigned(st, row, Held(st, row))
      ELSE IF rational[2] = 0 THEN [st EXCEPT !.thrown = TRUE]
      ELSE Assigned(st, row, <<"float", Lowest(FromXMPTypeInt(value) * rational[1], rational[2])>>)

\* AssignCompositedValuetoPMTValue
AssignComposited(st, row, node) ==
  CASE row.type = "LangAlt" -> AssignLangAlt(st, row, node)
    [] row.type = "OECF" -> AssignOECF(st, row, node)
    [] row.type = "CFAPattern" -> AssignCFAPattern(st, row, node)
    [] row.type = "Time" -> AssignTime(st, row, node)
    [] row.type = "Flash" -> AssignFlash(st, row, node)
    [] row.type = "DeviceSetting" -> AssignDeviceSetting(st, row, node)

\* A metadatum that was found by the key of a node
AssignNode(st, row, node) ==
  LET mode == GetXMPTypeMode(row.type)
      texts == GetKeyValueVector(node, node.key, mode)
  IN  CASE st.thrown -> st
        [] ~st.thrown /\ mode = "simple" -> AssignSimple(st, row, node.content)
        [] ~st.thrown /\ mode \in {"rdf:Seq", "rdf:Bag"} ->
             IF row.many THEN AssignMutiXMPValueToPMTValue(st, row, texts)
             ELSE AssignVector(st, row, texts)
        [] ~st.thrown /\ mode \in {"composited", "complex"} -> AssignComposited(st, row, node)

\* A metadatum that was found by the key of an attribute: any but a simple one throws.
AssignAttribute(st, row, text) ==
  IF st.thrown \/ GetXMPTypeMode(row.type) # "simple" THEN [st EXCEPT !.thrown = TRUE]
  ELSE AssignSimple(st, row, text)

\* ReadMetaData: the attributes, the node, and the sub nodes if the key of the node
\* is not in the table or is that of a structure of metadata.
RECURSIVE ReadMetaData(_, _)
ReadMetaData(st, node) ==
  LET attributed ==
        FoldLeft(LAMBDA s, a : FoldLeft(LAMBDA x, row : AssignAttribute(x, row, a.value),
                                        s, RowsOfTag(a.key)),
                 st, node.attributes)
      rows == RowsOfTag(node.key)
      assigned == FoldLeft(LAMBDA s, row : AssignNode(s, row, node), attributed, rows)
      descends == rows = <<>> \/ \E i \in DOMAIN rows : GetXMPTypeMode(rows[i].type) = "complex"
  IN  IF st.thrown THEN st
      ELSE FoldLeft(ReadMetaData, assigned, IF descends THEN node.subs ELSE <<>>)

ReadInto(r, node) == ReadMetaData([root |-> r, thrown |-> FALSE], node)

\* What another accessor reads of the packet this tree is saved as; nothing if there
\* is none or it does not parse.
Reading(node) ==
  IF node # Closed /\ WellFormed(node, {})
  THEN ReadInto(FreshRoot, AppendNode(Leaf("rdf:RDF", NoText), Parsed(node)))
  ELSE [root |-> FreshRoot, thrown |-> TRUE]

-----------------------------------------------------------------------------
\* Writing

Description(node) == GetXMPNode(node, "rdf:Description")

\* SetMdValue: the text of a value of a simple type.
SimpleText(row, v) ==
  CASE row.type = "Integer" -> v
    [] row.type = "Rational" /\ row.value = "float" -> ToXMPTypeRational(XMPTypeRational(v[2]))
    [] row.type = "String" /\ row.value = "string" -> v
    [] row.type = "String" /\ row.value = "bytes" -> VUint8ToString(v[2])
    [] row.type = "String" /\ row.value = "float" ->
         CASE v[2] = <<24, 1>> -> <<"string", <<"24">>>>
           [] v[2] = <<25, 1>> -> <<"string", <<"PAL">>>>
           [] v[2] = <<30, 1>> -> <<"string", <<"NTSC">>>>
           [] OTHER -> NoText
    [] row.type = "Date" /\ row.value = "string" -> ToXMPTypeString(FromPMTString(v))
    [] row.type = "Date" /\ row.value = "floats" ->
         ToXMPTypeString(<<0, 0, 0>> \o [i \in 1 .. 3 |-> Truncated(v[2][i])])
    [] row.type = "GPSCoordinate" -> GPSToString(v[2])
    [] row.type = "Boolean" -> ToXMPTypeBool(v[2])
    [] OTHER -> NoText

\* XMPSpecialMetadataManager: the node the members of Flash are written in.
SpecialTag(tag) == IF tag \in {"exif:Fired", "exif:Return"} THEN "exif:Flash" ELSE "none"

Wrote(done, node) == [done |-> done, node |-> node]

\* SetMdValue
WriteSimple(node, row, v) ==
  LET special == SpecialTag(row.tag)
      held == IF special = "none" THEN node ELSE Created(node, special)
      place == IF special = "none" THEN Description(node) ELSE GetXMPNode(held, special)
      text == SimpleText(row, v)
  IN  IF text = NoText THEN Wrote(FALSE, held)
      ELSE Wrote(TRUE, With(held, place, UpdateKeyValue(At(held, place), row.tag, text)))

\* SetMdValueVector
WriteVector(node, row, v) ==
  LET place == Description(node)
      texts == CASE row.type = "SeqInteger" /\ row.value = "ints" -> ToXMPTypeSeqInt(v[2])
                 [] row.type = "SeqInteger" /\ row.value = "int" -> ToXMPTypeSeqInt(<<v[2]>>)
                 [] row.type = "SeqRational" -> ToXMPTypeSeqRational(v[2])
  IN  Wrote(TRUE, With(node, place, UpdateKeyValueVector(At(node, place), row.tag, texts, "rdf:Seq")))

\* SetMdValueVectorIndex and SetMdValueBagIndex
WriteItem(node, row, v, index) ==
  LET place == Description(node)
  IN  Wrote(TRUE, With(node, place,
        UpdateKeyValueVectorIndex(At(node, place), row.tag, VUint8WToString(v[2]), index,
                                  GetXMPTypeMode(row.type))))

\* SetMdValueLangAlt
WriteLangAlt(node, row, v) ==
  LET place == Description(node)
      text == IF row.value = "string" THEN v ELSE VUint8WToString(v[2])
  IN  IF text[2] = <<>> THEN Wrote(FALSE, node)
      ELSE Wrote(TRUE, With(node, place, UpdateKeyValueLanguage(At(node, place), row.tag, text)))

\* Mutant of WithFields: the fields are looked for in the description.
WithFieldsOutside(node, tag, fields) ==
  LET place == Description(node)
      held == Created(At(node, place), tag)
      Update(n, field) == UpdateSubKeyValue(n, field[1], field[2])
  IN  With(node, place, FoldLeft(Update, held, fields))

\* Fields of a structure, each a sub node
WithFields(node, tag, fields) ==
  LET place == Description(node)
      held == Created(At(node, place), tag)
      inner == GetXMPNode(held, tag)
      Update(n, field) == UpdateSubKeyValue(n, field[1], field[2])
  IN  With(node, place, With(held, inner, FoldLeft(Update, At(held, inner), fields)))

\* A list in a structure
WithList(node, tag, key, texts) ==
  LET place == Description(node) \o GetXMPNode(At(node, Description(node)), tag)
  IN  With(node, place, UpdateKeyValueVector(At(node, place), key, texts, "rdf:Seq"))

\* SetMdValueOECF creates the node before it looks at the value.
WriteOECF(node, row, v) ==
  LET oecf == OECFFromVUint8(v)
      sized == WithFields(node, row.tag, <<<<"exif:Columns", ToXMPTypeInt(oecf[2])>>,
                                          <<"exif:Rows", ToXMPTypeInt(oecf[3])>>>>)
      named == WithList(sized, row.tag, "exif:Names", oecf[4])
      cells == [i \in DOMAIN oecf[5] |-> ToXMPTypeRational(oecf[5][i])]
  IN  IF ~AcceptsOECF(v) THEN Wrote(FALSE, WithFields(node, row.tag, <<>>))
      ELSE Wrote(TRUE, WithList(named, row.tag, "exif:Values", cells))

\* SetMdValueCFAPattern: the sizes are written as booleans.
WriteCFAPattern(node, row, v) ==
  LET sized == WithFields(node, row.tag, <<<<"exif:Columns", ToXMPTypeBool(v[2] # 0)>>,
                                          <<"exif:Rows", ToXMPTypeBool(v[3] # 0)>>>>)
  IN  IF ~AcceptsCFA(v) THEN Wrote(FALSE, node)
      ELSE Wrote(TRUE, WithList(sized, row.tag, "exif:Values", ToXMPTypeSeqInt(v[5])))

\* SetMdValueDeviceSetting
WriteDeviceSetting(node, row, v) ==
  LET sized == WithFields(node, row.tag, <<<<"exif:Columns", ToXMPTypeInt(v[2])>>,
                                          <<"exif:Rows", ToXMPTypeInt(v[3])>>>>)
  IN  IF ~AcceptsDeviceSetting(v) THEN Wrote(FALSE, node)
      ELSE Wrote(TRUE, WithList(sized, row.tag, "exif:Values", v[5]))

\* Mutant of WriteFlash: Fired is written as a number.
WriteFlashFiredAsInt(node, row, v) ==
  LET flash == FlashFromByte(v[2])
  IN  Wrote(TRUE, WithFields(node, row.tag,
        <<<<"exif:Fired", ToXMPTypeInt(v[2] % 2)>>,
          <<"exif:Function", ToXMPTypeBool(flash.Function)>>,
          <<"exif:Mode", ToXMPTypeInt(flash.Mode)>>,
          <<"exif:RedEyeMode", ToXMPTypeBool(flash.RedEyeMode)>>,
          <<"exif:Return", ToXMPTypeInt(flash.Return)>>>>))

\* SetMdValueFlash
WriteFlash(node, row, v) ==
  LET flash == FlashFromByte(v[2])
  IN  Wrote(TRUE, WithFields(node, row.tag,
        <<<<"exif:Fired", ToXMPTypeBool(flash.Fired)>>,
          <<"exif:Function", ToXMPTypeBool(flash.Function)>>,
          <<"exif:Mode", ToXMPTypeInt(flash.Mode)>>,
          <<"exif:RedEyeMode", ToXMPTypeBool(flash.RedEyeMode)>>,
          <<"exif:Return", ToXMPTypeInt(flash.Return)>>>>))

\* WriteMdValue.  (A duration is not written: SetTime.)
WriteMdValue(node, row, v) ==
  CASE GetXMPTypeMode(row.type) = "simple" -> WriteSimple(node, row, v)
    [] GetXMPTypeMode(row.type) = "rdf:Seq" -> WriteVector(node, row, v)
    [] row.type = "LangAlt" -> WriteLangAlt(node, row, v)
    [] row.type = "OECF" -> WriteOECF(node, row, v)
    [] row.type = "CFAPattern" -> WriteCFAPattern(node, row, v)
    [] row.type = "DeviceSetting" -> WriteDeviceSetting(node, row, v)
    [] row.type = "Flash" -> WriteFlash(node, row, v)

-----------------------------------------------------------------------------
\* What has to do with what

\* Keys that are read from the same nodes
Kin(k) == {j \in Keys : \/ TagOf(j) = TagOf(k)
                        \/ {TagOf(j), TagOf(k)} \subseteq {"exif:Flash", "exif:Fired", "exif:Return"}}

Lists == {k \in Keys : RowOf(k).many}

\* The reading order of places: a node before what is below it.
Before(p, q) ==
  \/ IsStrictPrefix(p, q)
  \/ \E i \in DOMAIN p \cap DOMAIN q : SubSeq(p, 1, i - 1) = SubSeq(q, 1, i - 1) /\ p[i] < q[i]

\* Something before the list makes the composite MS, which the items of the list
\* are only read into when it is there.
Preceded(node, k) ==
  \E j \in Keys \ Lists :
    LET p == PlaceOf(node, TagOf(j), {"node", "attribute"})
    IN  RowOf(j).inMS /\ p # Unfound /\ Before(p, GetXMPNode(node, TagOf(k)))

Holds(node, k) == PlaceOf(node, TagOf(k), {"node", "attribute"}) # Unfound

Nothing == [k \in Keys |-> Absent]

-----------------------------------------------------------------------------
\* Calls

OpenedAs(merged, read) ==
  /\ tree' = IF read.thrown THEN Closed ELSE merged
  /\ root' = read.root
  /\ outcome' = IF read.thrown THEN "thrown" ELSE "true"
  /\ spoilt' = (read.thrown \/ ~WellFormed(merged, {}))
  /\ wrote' = Nothing
  /\ touched' = FALSE
  /\ UNCHANGED theme
  /\ again' = Reading(tree')

\* open of a file whose packet is parsed as node: the nodes are merged into the
\* accessor's, and the metadata are read from the packet.
Opened(node) ==
  /\ OpenedAs(AppendNode(Leaf("rdf:RDF", NoText), node), ReadInto(FreshRoot, node))
  /\ torn' = {k \in Lists : Holds(node, k) /\ ~Preceded(node, k)}

Open == \E packet \in theme.packets : tree = Closed /\ Opened(packet)

\* open of a file that is created: CreateEmptyBlock
EmptyBlock == Branch("rdf:RDF", <<Branch("rdf:Description", <<>>)>>)

Create ==
  /\ tree = Closed
  /\ tree' = EmptyBlock /\ root' = FreshRoot /\ outcome' = "false"
  /\ wrote' = Nothing /\ torn' = {} /\ touched' = FALSE /\ spoilt' = FALSE
  /\ UNCHANGED theme
  /\ again' = Reading(tree')

\* close, which saves, and open of the same file: a packet that is not well formed
\* is not parsed.
Reopen ==
  /\ tree # Closed
  /\ IF WellFormed(tree, {}) THEN Opened(Parsed(tree))
     ELSE /\ tree' = Closed /\ outcome' = "false"
          /\ UNCHANGED <<theme, root, wrote, torn, touched, spoilt>> /\ again' = Reading(tree')

Appended(merged, read) ==
  /\ tree' = merged
  /\ root' = read.root
  /\ outcome' = IF read.thrown THEN "thrown" ELSE "true"
  /\ spoilt' = (spoilt \/ read.thrown \/ ~WellFormed(merged, {}))
  /\ wrote' = Nothing
  /\ touched' = TRUE
  /\ UNCHANGED theme
  /\ again' = Reading(merged)

\* append: nodes are merged before the metadata are read, which may throw.
AppendPacket(packet) ==
  LET Shorter(k) == Len(GetKeyValueVector(packet, TagOf(k), GetXMPTypeMode(RowOf(k).type)))
                    < Len(root.values[k])
  IN  /\ tree # Closed
      /\ Appended(AppendNode(tree, packet), ReadInto(root, packet))
      /\ torn' = torn \cup {k \in Lists : /\ Holds(packet, k)
                                          /\ Shorter(k) \/ ~(root.inMS \/ Preceded(packet, k))}

Appending == \E packet \in theme.packets : AppendPacket(packet)

Letters(v) == IF v[1] \in {"string", "bytes", "wide"} THEN Range(v[2]) ELSE {}

Remember(k, v, done) ==
  /\ wrote' = [j \in Keys |-> IF j = k THEN IF done THEN v ELSE Absent
                              ELSE IF j \in Kin(k) THEN Absent ELSE wrote[j]]
  /\ spoilt' = (spoilt \/ Letters(v) \cap Markup # {} \/ Space(TagOf(k)) \notin Managed)
  /\ touched' = TRUE

Written(k, v, w) ==
  /\ tree' = w.node
  /\ outcome' = IF w.done THEN "true" ELSE "false"
  /\ Remember(k, v, w.done)

\* setMdValue: a value that is there is not written, and the metadata have a value
\* before it is written, even one that cannot be.
Set(k, v) ==
  /\ tree # Closed /\ RowOf(k).type # "Time"
  /\ root' = [Touched(root, RowOf(k)) EXCEPT !.values[k] = v]
  /\ IF root.values[k] = v
     THEN outcome' = "true" /\ UNCHANGED <<tree, wrote, spoilt, touched>>
     ELSE Written(k, v, WriteMdValue(tree, RowOf(k), v))
  /\ UNCHANGED <<theme, torn>>
  /\ again' = Reading(tree')

\* setMdValue of a duration: SetMdValueTime takes the value from a structure it has
\* not initialised, which may throw, and writes only to fields that are there.
SetTime(k, v) ==
  LET row == RowOf(k)
      place == Description(tree)
      made == Created(At(tree, place), row.tag)
  IN  /\ tree # Closed /\ row.type = "Time" /\ root.values[k] # v
      /\ root' = [Touched(root, row) EXCEPT !.values[k] = v]
      /\ tree' = With(tree, place, made)
      /\ outcome' \in {"thrown", "false"}
      /\ Remember(k, v, FALSE)
      /\ UNCHANGED <<theme, torn>>
      /\ again' = Reading(tree')

\* setMdValue of an item: those before it that are not there are created without a
\* value.  Only one digit is taken for an index.
SetItem(k, index, v) ==
  LET held == root.values[k]
      grown == held \o [i \in 1 .. index + 1 - Len(held) |-> Unset]
      same == index < Len(held) /\ held[index + 1] = v
      written == ~same /\ index <= 9
  IN  /\ tree # Closed
      /\ root' = [Touched(root, RowOf(k)) EXCEPT !.values[k] = [grown EXCEPT ![index + 1] = v]]
      /\ tree' = IF written THEN WriteItem(tree, RowOf(k), v, index).node ELSE tree
      /\ outcome' = IF same \/ written THEN "true" ELSE "false"
      /\ torn' = IF index > Len(held) THEN torn \cup {k} ELSE torn
      /\ IF same THEN UNCHANGED <<wrote, spoilt, touched>> ELSE Remember(k, v, FALSE)
      /\ UNCHANGED theme
      /\ again' = Reading(tree')

SetMdValue ==
  \E k \in Keys : \E v \in theme.values[k] :
    IF RowOf(k).many THEN \E index \in 0 .. MaxIndex : SetItem(k, index, v)
    ELSE Set(k, v) \/ SetTime(k, v)

\* removeMdValue, with the node of a member of Flash searched in Flash
RemoveValue(k) ==
  LET special == SpecialTag(TagOf(k))
      place == IF special = "none" THEN <<>> ELSE GetXMPNode(tree, special)
  IN  /\ tree # Closed /\ root.values[k] # Absent
      /\ root' = [root EXCEPT !.values[k] = Absent]
      /\ tree' = IF place = Unfound THEN tree
                 ELSE With(tree, place, RemoveKey(At(tree, place), TagOf(k)))
      /\ wrote' = [j \in Keys |-> IF j \in Kin(k) THEN Absent ELSE wrote[j]]
      /\ touched' = TRUE
      /\ outcome' = "true"
      /\ UNCHANGED <<theme, torn, spoilt>>
      /\ again' = Reading(tree')

\* removeMdValue of an item: the items behind it move up.
RemoveItem(k, index) ==
  /\ tree # Closed /\ index < Len(root.values[k])
  /\ root' = [root EXCEPT !.values[k] = RemoveAt(@, index + 1)]
  /\ tree' = RemoveKeyVectorIndex(tree, TagOf(k), index)
  /\ torn' = IF index > 0 THEN torn \cup {k} ELSE torn
  /\ touched' = TRUE
  /\ outcome' = "true"
  /\ UNCHANGED <<theme, wrote, spoilt>>
  /\ again' = Reading(tree')

RemoveMdValue ==
  \E k \in Keys : IF RowOf(k).many THEN \E index \in 0 .. MaxIndex : RemoveItem(k, index)
                  ELSE RemoveValue(k)

Init ==
  /\ theme \in Theme
  /\ tree = Closed /\ root = FreshRoot /\ outcome = "none"
  /\ wrote = Nothing /\ torn = {} /\ touched = FALSE /\ spoilt = FALSE /\ again = Reading(tree)

Next == Open \/ Create \/ Reopen \/ Appending \/ SetMdValue \/ RemoveMdValue

Spec == Init /\ [][Next]_vars

-----------------------------------------------------------------------------
\* Properties

\* The key of k is in the tree, and neither it nor what is read with it is there twice:
\* the same key as a node and as an attribute.
Once(k) ==
  /\ Occurrences(tree, TagOf(k)) = 1
  /\ \A j \in Kin(k) : Occurrences(tree, TagOf(j)) <= 1

\* What a value may come back as, for each pair of types: nothing here looks at how
\* the conversions work.
NearFloats(f, g) == Len(f) = Len(g) /\ \A i \in DOMAIN f : Near(f[i], g[i])

Calendar(date) == date[2] \in 1 .. 12 /\ date[3] \in 1 .. 31

Keeps(row, v, read) ==
  CASE row.type \in {"Rational", "SeqRational"} ->
         read[1] = v[1] /\ IF v[1] = "float" THEN Near(v[2], read[2]) ELSE NearFloats(v[2], read[2])
    [] row.type = "Date" /\ row.value = "string" ->
         read[2][1] = v[2][1] /\ (Calendar(v[2]) => read = v)
    [] row.type = "GPSCoordinate" -> \A i \in 1 .. 3 : Truncated(read[2][i]) = Truncated(v[2][i])
    [] row.type = "Flash" -> read[1] = "int" /\ \A i \in 0 .. 2 : Bit(read[2], i) = Bit(v[2], i)
    [] row.value \in {"bytes", "wide"} /\ row.type \in {"String", "LangAlt"} ->
         \A i \in 1 .. Len(v[2]) - 1 : v[2][i] # Terminator => read[2][i] = v[2][i]
    [] row.type = "CFAPattern" \/ (row.type = "Date" /\ row.value = "floats") -> TRUE
    [] OTHER -> read = v

\* What the accessor writes it reads.  However what it was given is merged, the packet
\* has a prefix for every key, parses, and none of its texts makes the reader throw;
\* and a value setMdValue has answered true for is in it: who opens the file next reads
\* it back, as exactly as its type in the packet allows, through whatever was set,
\* removed and appended in between, and wherever in the tree its key was found
\* (WriteMdValue and ReadMetaData; a key that is in the packet twice is read twice).
\* A CFA pattern and a time stamp are the exceptions: they do not come back.
WritesReadBack ==
  tree # Closed /\ ~spoilt =>
    /\ ~again.thrown
    /\ \A k \in Keys :
         wrote[k] # Absent /\ Once(k) => Keeps(RowOf(k), wrote[k], again.root.values[k])

\* The items of a list are the same, one by one, in the accessor's metadata and in
\* its tree, through setting and removing them, opening and appending: as long as
\* items are set no further than one behind the end, only the first one is removed,
\* and appended lists are read and not shorter.
ListsAgree ==
  tree # Closed /\ ~spoilt =>
    \A k \in Lists \ torn :
      LET texts == GetKeyValueVector(tree, TagOf(k), GetXMPTypeMode(RowOf(k).type))
      IN  root.values[k] = [i \in DOMAIN texts |-> <<"wide", StringToVUint8W(texts[i])>>]

\* A packet that was opened and saved without a change gives the same metadata the
\* next time, although merging its nodes has changed their places: all but keys that
\* occur both as a node and as an attribute, the last of which is not the same then.
UntouchedReadsSame ==
  ~touched /\ ~spoilt /\ ~again.thrown =>
    \A k \in Keys \ torn : Once(k) => again.root.values[k] = root.values[k]

Changes(k) ==
  IF RowOf(k).many
  THEN \E index \in 0 .. MaxIndex :
         RemoveItem(k, index) \/ \E v \in theme.values[k] : SetItem(k, index, v)
  ELSE RemoveValue(k) \/ \E v \in theme.values[k] : Set(k, v) \/ SetTime(k, v)

\* Setting or removing one metadatum leaves what is read of all others from the saved
\* packet: of all that are not read from the same nodes.
OthersUntouched ==
  [][~again.thrown /\ ~again'.thrown =>
       \A k \in Keys : Changes(k) =>
         \A j \in Keys \ (Kin(k) \cup Lists) : again'.root.values[j] = again.root.values[j]]_vars
=============================================================================
