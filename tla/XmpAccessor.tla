---------------------------- MODULE XmpAccessor ----------------------------
(***************************************************************************)
(* The accessor of XMP packets, and the block manager that finds a packet  *)
(* in a file and keeps its bytes.  What a packet says is kept three times: *)
(* as the bytes of the block, as the tree of RDF nodes and as metadata of  *)
(* the accessor's own.                                                     *)
(*                                                                         *)
(* The text of a packet is the values of its leaves; it takes TextSize     *)
(* characters, and the room it is written in is a sequence of cells, each  *)
(* with text or blank.  A file has bytes before and behind its packet.     *)
(***************************************************************************)
EXTENDS Accessor

CONSTANTS
  XmpTable(_), \* for a format, what is particular about each leaf's row of the
               \* translation table
  Malformed,   \* a text the parser refuses
  ExtendUnit   \* a packet grows by multiples of this (1024 bytes in the code)

ASSUME XmpAssumption ==
  /\ \A f \in Format : XmpTable(f) \in [Leaf -> {"simple", "odd", "none"}]
  /\ ExtendUnit \in Nat \ {0}

\* The text of a packet, and the packets: the room behind the text is blank in UTF-8, as
\* other programs leave it.
Texts == [Leaf -> Value \cup {Unset, Absent}]

Padded(cells, charset, size) ==
  /\ size <= Len(cells)
  /\ charset = "utf8" => \A i \in DOMAIN cells : i > size => cells[i] = "blank"

Packets ==
  {p \in [charset : {"none", "utf8", "utf16l", "utf16b"}, bReadOnly : BOOLEAN,
          cells : Seq({"text", "blank"}), text : Texts \cup {Malformed}, size : Nat] :
     Padded(p.cells, p.charset, p.size)}

\* A file: the bytes before the packet, the packet or Absent, the bytes behind it.
XmpFile(lead, packet, tail) == [lead |-> lead, packet |-> packet, tail |-> tail]
XmpFiles == [lead : Nat, packet : Packets \cup {Absent}, tail : Nat]

Blank(n) == [i \in 1 .. n |-> "blank"]
Filled(n) == [i \in 1 .. n |-> "text"]

Nothing == [l \in Leaf |-> Absent]

\* The characters of the text: the frame, and one for each leaf.
TextSize(text) == 1 + Cardinality({l \in Leaf : text[l] # Absent})

\* The bytes n characters take.
Bytes(charset, n) == IF charset = "utf16l" THEN 2 * n ELSE n

\* The block manager as constructed: mBlockSize is 0.
NoBlock == [known |-> FALSE, charset |-> "none", bReadOnly |-> TRUE,
            cells |-> <<>>, mMetadataSize |-> 0, text |-> Nothing]

NewXmp == [mOpenMode |-> "readonly", file |-> Absent, mStartPosition |-> 0,
           node |-> Absent, built |-> FALSE, root |-> Absent, block |-> NoBlock]

VARIABLE
  xmp   \* mOpenMode, mFileHandle, mStartPosition, mpXMPNode (Absent for null),
        \* whether mpRDFNode and mpRDFDescNode are in it, mRootMetadata (Absent
        \* for null), mBlockManager

\* FindPMTKeyInTranslationTable and GetXMPTypeMode: a row of a type whose value is
\* not converted is odd.
XmpRow == XmpTable(format)

-----------------------------------------------------------------------------
\* The block manager

\* FindXMPBlock.  A beginning without a mark of its encoding is not accepted,
\* after the encoding was forgotten.
FindXMPBlock(block, packet) ==
  IF packet = Absent THEN block
  ELSE IF packet.charset = "none" THEN [block EXCEPT !.charset = "none"]
  ELSE [known |-> TRUE, charset |-> packet.charset, bReadOnly |-> packet.bReadOnly,
        cells |-> packet.cells, text |-> packet.text,
        mMetadataSize |-> packet.size]

Found(packet) == packet # Absent /\ packet.charset # "none"

InitializeEmptyBlock(block) ==
  IF block.known THEN block
  ELSE [NoBlock EXCEPT !.known = TRUE, !.charset = "utf8", !.bReadOnly = FALSE]

\* ExtendBlockSize: blanks are put in behind the metadata.
ExtendBlockSize(block, n) ==
  LET more == ((n + ExtendUnit - 1) \div ExtendUnit) * ExtendUnit
      at == block.mMetadataSize
  IN  [block EXCEPT !.cells = SubSeq(@, 1, at) \o Blank(more) \o SubSeq(@, at + 1, Len(@))]

Extends(block) == ~block.bReadOnly /\ block.charset # "none"

\* PaddingSpace: the rest of the metadata before, if the encoding is known.
PaddingSpace(cells, charset, from, to) ==
  [i \in DOMAIN cells |->
     IF charset # "none" /\ from < i /\ i <= to THEN "blank" ELSE cells[i]]

\* Mutant of UpdataMetaData: what is behind the new text is not blanked.
UpdataMetaDataUnpadded(block, text) ==
  LET start == InitializeEmptyBlock(block)
      n == TextSize(text)
      size == Bytes(start.charset, n)
      room == Len(start.cells)
      fits == size <= room \/ Extends(start)
      grown == IF size <= room THEN start ELSE ExtendBlockSize(start, size - room)
      written == [i \in DOMAIN grown.cells |-> IF i <= size THEN "text" ELSE grown.cells[i]]
  IN  IF start.charset = "utf16b" \/ ~fits THEN [done |-> FALSE, block |-> start]
      ELSE [done |-> TRUE,
            block |-> [grown EXCEPT !.text = text, !.mMetadataSize = n, !.cells = written]]

\* UpdataMetaData: the text goes to its place in the block, which is extended if
\* it may be, and what it leaves of the text before is blanked.  In UTF-16 the
\* size that is remembered is that of the characters, not of the bytes.
UpdataMetaData(block, text) ==
  LET start == InitializeEmptyBlock(block)
      n == TextSize(text)
      size == Bytes(start.charset, n)
      room == Len(start.cells)
      fits == size <= room \/ Extends(start)
      grown == IF size <= room THEN start ELSE ExtendBlockSize(start, size - room)
      written == [i \in DOMAIN grown.cells |-> IF i <= size THEN "text" ELSE grown.cells[i]]
  IN  IF start.charset = "utf16b" \/ ~fits THEN [done |-> FALSE, block |-> start]
      ELSE [done |-> TRUE,
            block |-> [grown EXCEPT !.text = text, !.mMetadataSize = n,
              !.cells = PaddingSpace(written, start.charset, size, start.mMetadataSize)]]

-----------------------------------------------------------------------------
\* open, close, append

\* Flush: the tree of nodes goes to the block.
Flush(x) ==
  IF x.node = Absent THEN [done |-> FALSE, block |-> x.block]
  ELSE UpdataMetaData(x.block, x.node)

\* Save writes the block at its place in the file, over what is behind the
\* packet if the block has grown.
SaveTo(file, x, block) ==
  LET before == IF file.packet = Absent THEN 0 ELSE Len(file.packet.cells)
      over == Len(block.cells) - before
  IN  XmpFile(x.mStartPosition,
              [charset |-> block.charset, bReadOnly |-> block.bReadOnly,
               cells |-> block.cells, text |-> block.text,
               size |-> Bytes(block.charset, TextSize(block.text))],
              IF over >= file.tail THEN 0 ELSE file.tail - (IF over > 0 THEN over ELSE 0))

Saves(x) == x.mOpenMode # "readonly" /\ Flush(x).done /\ x.file # Absent /\ x.mStartPosition >= 0

\* Mutant of XmpDisk: only a file opened before the packet was changed is saved.
XmpDiskUnchanged(d, x) ==
  IF Saves(x) /\ x.block.text = x.node THEN [d EXCEPT ![x.file] = SaveTo(@, x, x.block)] ELSE d

XmpDisk(d, x) ==
  IF Saves(x) THEN [d EXCEPT ![x.file] = SaveTo(@, x, Flush(x).block)] ELSE d

\* close(): what the block manager holds, mOpenMode and mRootMetadata stay.
XmpClosed(x) ==
  [x EXCEPT !.block = IF x.mOpenMode = "readonly" THEN @ ELSE Flush(x).block,
            !.file = Absent, !.node = Absent, !.built = FALSE]

AssignXMPValueToPMTValue(l, v) == IF XmpRow[l] = "odd" THEN Unset ELSE v

\* ReadMetaData: what a text says of the leaves that have a row.
ReadMetaData(text) ==
  [l \in Leaf |-> IF XmpRow[l] = "none" \/ text[l] = Absent THEN Absent
                  ELSE AssignXMPValueToPMTValue(l, text[l])]

\* What is said anew replaces what was there; the rest stays.
AppendNode(before, new) == [l \in Leaf |-> IF new[l] # Absent THEN new[l] ELSE before[l]]

\* ParseXMPBlock: the text is merged into the nodes, and the metadata it has a
\* row for are read from it.
ParseXMPBlock(x, text) ==
  [x EXCEPT !.node = AppendNode(@, text), !.root = AppendNode(@, ReadMetaData(text))]

\* Initialize
Initialized(x, mode) ==
  [XmpClosed(x) EXCEPT !.mOpenMode = mode, !.node = Nothing, !.root = Nothing]

\* What open makes of a packet.
Taken(x, packet, lead) ==
  LET block == FindXMPBlock(x.block, packet)
      found == [x EXCEPT !.block = block, !.mStartPosition = IF Found(packet) THEN lead ELSE 0 - 1]
  IN  IF ~Found(packet) \/ packet.text = Malformed THEN found
      ELSE [ParseXMPBlock(found, packet.text) EXCEPT !.built = TRUE]

XmpCloses == disk' = XmpDisk(disk, xmp)

\* open(file, mode).  A file that is created answers false, and gets its packet
\* where the one before had it.
XmpOpen ==
  \E f \in File : \E mode \in Asked(f) :
    LET d == XmpDisk(disk, xmp)
        start == Initialized(xmp, mode)
    IN  /\ IF mode = "create"
           THEN /\ disk' = [d EXCEPT ![f] = XmpFile(0, Absent, 0)]
                /\ xmp' = [start EXCEPT !.built = TRUE, !.file = f]
           ELSE /\ disk' = d
                /\ xmp' = IF d[f] = Absent THEN start
                          ELSE Taken([start EXCEPT !.file = f], d[f].packet, d[f].lead)
        /\ outcome' = Answer(mode # "create" /\ xmp'.built)
        /\ UNCHANGED <<format, treeVars>>

\* open(buf, mode)
XmpOpenMemory ==
  /\ XmpCloses
  /\ \E f \in Input, mode \in {"readonly", "readwrite"} :
       /\ disk[f] # Absent
       /\ xmp' = Taken(Initialized(xmp, mode), disk[f].packet, disk[f].lead)
  /\ outcome' = Answer(xmp'.built)
  /\ UNCHANGED <<format, treeVars>>

XmpClose ==
  /\ XmpCloses
  /\ xmp' = XmpClosed(xmp)
  /\ outcome' = "true"
  /\ UNCHANGED <<format, treeVars>>

\* close(buf): copied out, and closed without saving, if the buffer is large
\* enough.
XmpCloseToMemory ==
  LET flushed == [xmp EXCEPT !.block = Flush(xmp).block]
  IN  /\ \/ xmp' = flushed /\ outcome' = "false"
         \/ /\ Flush(xmp).done
            /\ xmp' = [flushed EXCEPT !.file = Absent, !.node = Absent, !.built = FALSE]
            /\ outcome' = "true"
      /\ UNCHANGED <<format, disk, treeVars>>

\* append(file) and append(buf), whatever the mode.
XmpAppend ==
  \E f \in Input :
    LET accepted == /\ disk[f] # Absent /\ Found(disk[f].packet)
                    /\ disk[f].packet.text # Malformed /\ xmp.node # Absent
    IN  /\ xmp' = IF accepted THEN ParseXMPBlock(xmp, disk[f].packet.text) ELSE xmp
        /\ outcome' = Answer(accepted)
        /\ UNCHANGED <<format, disk, treeVars>>

-----------------------------------------------------------------------------
\* One leaf

XmpReads(x) == IF x.root = Absent THEN {} ELSE {l \in Leaf : x.root[l] # Absent}

XmpValue(x) == [l \in XmpReads(x) |-> x.root[l]]

\* Mutant of XmpSet: only the accessor's metadata get the value.
XmpSetInMemory(x, l) ==
  IF x.root = Absent \/ x.mOpenMode = "readonly" THEN x ELSE [x EXCEPT !.root[l] = md[l]]

\* An empty text, which Unset is, does not get to the nodes.
SetMdValue(node, l) == IF md[l] = Unset THEN node ELSE [node EXCEPT ![l] = md[l]]

\* WriteMdValue knows what has a row of a type it can write.
WriteMdValue(node, l) == IF XmpRow[l] = "simple" THEN SetMdValue(node, l) ELSE node

\* setMdValue: the metadata have the value before the nodes, and keep it when
\* they cannot have it.
XmpSet(x, l) ==
  IF x.root = Absent \/ x.mOpenMode = "readonly" THEN x
  ELSE [x EXCEPT !.root[l] = md[l],
                 !.node = IF x.root[l] = md[l] THEN @ ELSE WriteMdValue(@, l)]

\* removeMdValue: what the accessor's metadata do not have, the nodes keep.
XmpErase(x, l) ==
  IF x.root[l] = Absent THEN x
  ELSE [x EXCEPT !.root[l] = Absent,
                 !.node[l] = IF XmpRow[l] = "none" THEN @ ELSE Absent]

XmpNoThrow(x, l) == FALSE

\* Writing goes through pointers into the tree of nodes, which only a successful
\* open sets and which a close leaves dangling.
XmpWritable(x) == x.root = Absent \/ x.mOpenMode = "readonly" \/ x.built

XmpRead ==
  /\ \E s \in Scope : readMetadata(s, XmpReads(xmp), XmpValue(xmp))
  /\ UNCHANGED <<disk, xmp>>

XmpReadRoot ==
  /\ readMetadataRoot(XmpReads(xmp), XmpValue(xmp))
  /\ UNCHANGED <<disk, xmp>>

XmpWrite ==
  /\ XmpWritable(xmp)
  /\ \E s \in Scope, valid \in BOOLEAN :
       LET w == Written(s, valid, xmp, XmpSet, XmpNoThrow)
       IN  xmp' = w.state /\ WriteOutcome(w)
  /\ UNCHANGED disk

XmpRemove ==
  /\ xmp.built
  /\ \E s \in Scope :
       LET r == Removed(s, xmp, XmpErase, XmpNoThrow)
       IN  xmp' = r.state /\ RemoveOutcome(r)
  /\ UNCHANGED disk

XmpInit == xmp = NewXmp

XmpNext ==
  \/ XmpOpen \/ XmpOpenMemory \/ XmpClose \/ XmpCloseToMemory \/ XmpAppend
  \/ XmpRead \/ XmpReadRoot \/ XmpWrite \/ XmpRemove
=============================================================================
