---------------------------- MODULE ExifAccessor ----------------------------
(***************************************************************************)
(* The accessor of Exif files (the OpenExif build, with XMP): tags in the  *)
(* directories of a JPEG file, its quantisation tables, and the XMP packet *)
(* in one of its segments, for which it has an XMP accessor of its own.    *)
(*                                                                         *)
(* A file is a record of its tags, its quantisation tables and the packets *)
(* of its XMP segments.                                                    *)
(***************************************************************************)
EXTENDS XmpAccessor

CONSTANTS
  ExifTag,     \* what identifies an entry: its number and its location
  ExifTags,    \* all of them as a sequence, in the order of the entries of a file
  ExifTable,   \* the rows of the translation table, [tag, leaf] each; the leaf
               \* is Absent in a row whose key is not in the tree
  QRow         \* QRow[l]: the quantisation table leaf l is for, "none" for none

QName == {"Lumin", "Chroma1", "Chroma2", "Alpha"}

ASSUME ExifAssumption ==
  /\ ExifTags \in Seq(ExifTag) /\ ToSet(ExifTags) = ExifTag
  /\ ExifTable \in Seq([tag : ExifTag, leaf : Leaf \cup {Absent}])
  /\ QRow \in [Leaf -> QName \cup {"none"}]
  /\ \A l \in Leaf : QRow[l] # "none" =>
       \A i \in DOMAIN ExifTable : ExifTable[i].leaf # l
  \* As in the built-in table, where only ImageContainer.Width and Height, which
  \* are not modelled, have two rows: a leaf has one, those of a tag are together.
  /\ \A i, j \in DOMAIN ExifTable :
       i < j => /\ ExifTable[i].leaf = ExifTable[j].leaf => ExifTable[i].leaf = Absent
                /\ ExifTable[i].tag = ExifTable[j].tag =>
                     \A k \in i .. j : ExifTable[k].tag = ExifTable[i].tag
  \* readMetadata would not come to the end of a table all of one tag.
  /\ \A t \in ExifTag : \E i \in DOMAIN ExifTable : ExifTable[i].tag # t

ExifFile(tags, q, segs) == [tags |-> tags, q |-> q, segs |-> segs]
ExifFiles ==
  [tags : [ExifTag -> Value \cup {Unset, Absent}], q : [0 .. 3 -> Value \cup {Unset, Absent}],
   segs : Seq(Packets)]

EmptyExif ==
  ExifFile([t \in ExifTag |-> Absent], [i \in 0 .. 3 |-> Absent], <<>>)

VARIABLE
  exif   \* mImageHandle (name, Absent for null, and content), openMode,
         \* mTtPosition, and of mnXMPOffset and mnXMPLastBytes whether they are
         \* set and to what length

ClosedExif == [name |-> Absent, openMode |-> "readonly", content |-> EmptyExif,
               mTtPosition |-> 1, mnXMPLength |-> 0]

-----------------------------------------------------------------------------
\* open and close

\* Mutant of SaveXMPValues: only the segments without a packet are removed.
SaveXMPValuesAll(content) ==
  IF ~Flush(xmp).done \/ content.segs = <<>> \/ exif.mnXMPLength = 0 THEN content
  ELSE LET b == Flush(xmp).block
       IN  [content EXCEPT !.segs[1] =
              [charset |-> b.charset, bReadOnly |-> b.bReadOnly, cells |-> b.cells,
               text |-> b.text, size |-> Bytes(b.charset, TextSize(b.text))]]

\* SaveXMPValues: the packet takes the place of the first XMP segment, the other
\* ones are removed, and so is the first if no packet was found in it.  They all
\* have the same marker and name, by which removeAppSeg finds them: it is taken to
\* remove the first of them, and insertAppSeg to put the new one behind the others,
\* so that the removals behind it do not reach it.
SaveXMPValues(content) ==
  IF ~Flush(xmp).done \/ content.segs = <<>> THEN content
  ELSE [content EXCEPT !.segs =
          IF exif.mnXMPLength = 0 THEN <<>>
          ELSE LET b == Flush(xmp).block
               IN  <<[charset |-> b.charset, bReadOnly |-> b.bReadOnly, cells |-> b.cells,
                      text |-> b.text, size |-> Bytes(b.charset, TextSize(b.text))]>>]

\* The offsets are those of the packet that was found first, whatever file it
\* was in; a shorter segment would be copied with a negative length.
XmpFits ==
  exif.name # Absent /\ exif.openMode # "readonly" /\ exif.content.segs # <<>>
    => exif.mnXMPLength <= Len(exif.content.segs[1].cells)

ExifSaves == exif.name # Absent /\ exif.openMode # "readonly"

ExifDisk ==
  IF ExifSaves THEN [disk EXCEPT ![exif.name] = SaveXMPValues(exif.content)] ELSE disk

XmpFlushed == IF ExifSaves THEN [xmp EXCEPT !.block = Flush(xmp).block] ELSE xmp

\* close(): the XMP accessor and the offsets stay as they are.
ExifClose ==
  /\ XmpFits
  /\ disk' = ExifDisk
  /\ xmp' = XmpFlushed
  /\ exif' = [exif EXCEPT !.name = Absent, !.content = EmptyExif]
  /\ outcome' = "true"
  /\ UNCHANGED <<format, treeVars>>

ExifOpen ==
  /\ XmpFits
  /\ xmp' = XmpFlushed
  /\ \E f \in File : \E mode \in Asked(f) :
       LET d == IF mode = "create" THEN [ExifDisk EXCEPT ![f] = EmptyExif] ELSE ExifDisk
       IN  /\ disk' = d
           /\ exif' = [exif EXCEPT !.openMode = mode,
                         !.name = IF d[f] = Absent THEN Absent ELSE f,
                         !.content = IF d[f] = Absent THEN EmptyExif ELSE d[f]]
           /\ outcome' = Answer(d[f] # Absent)
  /\ UNCHANGED <<format, treeVars>>

-----------------------------------------------------------------------------
\* Reading everything

\* Mutant of processEntry: only the first row of the entry's tag is read.
processEntryFirst(start, tag) ==
  LET n == Len(ExifTable)
      At(k) == ((start + k - 1) % n) + 1
      hits == {k \in 0 .. n - 1 : ExifTable[At(k)].tag = tag}
      first == CHOOSE k \in hits : \A j \in hits : k <= j
  IN  IF hits = {} THEN [rows |-> {}, at |-> start]
      ELSE [rows |-> {At(first)}, at |-> At(first + 1)]

\* One entry in processEntries: from where the last search ended, once round the
\* table for a row of its tag, then as many rows of that tag as follow.
processEntry(start, tag) ==
  LET n == Len(ExifTable)
      At(k) == ((start + k - 1) % n) + 1
      hits == {k \in 0 .. n - 1 : ExifTable[At(k)].tag = tag}
      first == CHOOSE k \in hits : \A j \in hits : k <= j
      end == CHOOSE k \in first + 1 .. first + n :
               /\ ExifTable[At(k)].tag # tag
               /\ \A j \in first .. k - 1 : ExifTable[At(j)].tag = tag
  IN  IF hits = {} THEN [rows |-> {}, at |-> start]
      ELSE [rows |-> {At(j) : j \in first .. end - 1}, at |-> At(end)]

\* The entries of the file in order.
processEntries(start, tags) ==
  LET P[i \in 0 .. Len(ExifTags)] ==
        IF i = 0 THEN [rows |-> {}, at |-> start]
        ELSE IF tags[ExifTags[i]] = Absent THEN P[i - 1]
        ELSE LET e == processEntry(P[i - 1].at, ExifTags[i])
             IN  [rows |-> P[i - 1].rows \cup e.rows, at |-> e.at]
  IN  P[Len(ExifTags)]

\* getQTables
QOfRoot == [Lumin |-> 0, Chroma1 |-> 1, Chroma2 |-> 2, Alpha |-> 3]

\* What readMetadata(nsURI) takes from tags and quantisation tables.
ExifRootReads ==
  ({ExifTable[i].leaf : i \in processEntries(exif.mTtPosition, exif.content.tags).rows}
   \ {Absent})
  \cup {l \in Leaf : QRow[l] # "none" /\ exif.content.q[QOfRoot[QRow[l]]] # Absent}

\* The number and the location of the row, which getTag and getLocation convert.
TagOf(l) == ExifTable[CHOOSE i \in DOMAIN ExifTable : ExifTable[i].leaf = l].tag

Tagged(l) == \E i \in DOMAIN ExifTable : ExifTable[i].leaf = l

ExifRootValue(l) ==
  IF Tagged(l) THEN exif.content.tags[TagOf(l)] ELSE exif.content.q[QOfRoot[QRow[l]]]

\* getXMPDocs: the first packet that is found opens the XMP accessor, the ones
\* after it are appended, those of the next call and of the next file too.
getXMPDocs ==
  LET segs == exif.content.segs
      G[i \in 0 .. Len(segs)] ==
        IF i = 0 THEN [x |-> xmp, length |-> exif.mnXMPLength]
        ELSE LET g == G[i - 1]
                 opened == Taken(Initialized(g.x, exif.openMode), segs[i], 0)
                 known == Found(segs[i]) /\ segs[i].text # Malformed
             IN  IF g.length = 0
                 THEN [x |-> opened,
                       length |-> IF opened.built THEN Len(opened.block.cells) ELSE 0]
                 ELSE IF known /\ g.x.node # Absent
                 THEN [g EXCEPT !.x = ParseXMPBlock(g.x, segs[i].text)]
                 ELSE g
  IN  G[Len(segs)]

\* readMetadata(nsURI): what the XMP packets say is taken for the leaves nothing
\* else was found for.
ExifReadRoot ==
  /\ exif.name # Absent
  /\ LET g == getXMPDocs
     IN  /\ xmp' = g.x
         /\ exif' = [exif EXCEPT !.mnXMPLength = g.length,
              !.mTtPosition = processEntries(exif.mTtPosition, exif.content.tags).at]
         /\ readMetadataRoot(ExifRootReads \cup XmpReads(g.x),
              [l \in ExifRootReads \cup XmpReads(g.x) |->
                 IF l \in ExifRootReads THEN ExifRootValue(l) ELSE g.x.root[l]])
  /\ UNCHANGED disk

-----------------------------------------------------------------------------
\* One leaf

\* getQTableEntry and setMdValue: not the numbers of getQTables.
QOfLeaf == [Alpha |-> 0, Chroma1 |-> 1, Chroma2 |-> 2, Lumin |-> 3]

ExifEntry(l) ==
  IF QRow[l] # "none" THEN exif.content.q[QOfLeaf[QRow[l]]]
  ELSE IF Tagged(l) THEN exif.content.tags[TagOf(l)] ELSE Absent

Mapped(l) == Tagged(l) \/ QRow[l] # "none"

\* getMdValue: the tag, or what the XMP accessor has for a leaf of the table.
ExifReads == {l \in Leaf : Mapped(l) /\ (ExifEntry(l) # Absent \/ l \in XmpReads(xmp))}

ExifValue ==
  [l \in ExifReads |-> IF ExifEntry(l) # Absent THEN ExifEntry(l) ELSE xmp.root[l]]

\* setMdValue: the XMP accessor first, whatever it answers, then the file; a
\* quantisation table without its 64 numbers is not set.
ExifSet(state, l) ==
  [x |-> XmpSet(state.x, l),
   content |-> IF QRow[l] # "none" /\ md[l] = Unset THEN state.content
               ELSE IF QRow[l] # "none"
               THEN [state.content EXCEPT !.q[QOfLeaf[QRow[l]]] = md[l]]
               ELSE [state.content EXCEPT !.tags[TagOf(l)] = md[l]]]

ExifNoThrow(state, l) == FALSE

\* removeMdValue: from XMP, then from the directory; a quantisation table is in
\* no directory, and that throws.
ExifErase(state, l) ==
  IF ~Mapped(l) THEN state
  ELSE [x |-> XmpErase(state.x, l),
        content |-> IF QRow[l] # "none" THEN state.content
                    ELSE [state.content EXCEPT !.tags[TagOf(l)] = Absent]]

ExifEraseThrows(state, l) == QRow[l] # "none"

ExifRead ==
  /\ exif.name # Absent
  /\ \E s \in Scope : readMetadata(s, ExifReads, ExifValue)
  /\ UNCHANGED <<disk, xmp, exif>>

\* A leaf without a row is written through a null pointer.
ExifWrite ==
  /\ exif.name # Absent /\ XmpWritable(xmp)
  /\ \E s \in Scope, valid \in BOOLEAN :
       LET w == Written(s, valid, [x |-> xmp, content |-> exif.content], ExifSet, ExifNoThrow)
       IN  /\ \A i \in DOMAIN s : Mapped(s[i])
           /\ valid => \A l \in Leaf : md[l] # Absent => Mapped(l)
           /\ xmp' = w.state.x
           /\ exif' = [exif EXCEPT !.content = w.state.content]
           /\ WriteOutcome(w)
  /\ UNCHANGED disk

\* removeMdValue goes through the XMP accessor's metadata.
ExifRemove ==
  /\ exif.name # Absent /\ xmp.built
  /\ \E s \in Scope :
       LET r == Removed(s, [x |-> xmp, content |-> exif.content], ExifErase, ExifEraseThrows)
       IN  /\ xmp' = r.state.x
           /\ exif' = [exif EXCEPT !.content = r.state.content]
           /\ RemoveOutcome(r)
  /\ UNCHANGED disk

ExifInit == exif = ClosedExif

ExifNext == ExifOpen \/ ExifClose \/ ExifRead \/ ExifReadRoot \/ ExifWrite \/ ExifRemove
=============================================================================
