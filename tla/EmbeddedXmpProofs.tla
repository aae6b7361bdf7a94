-------------------------- MODULE EmbeddedXmpProofs --------------------------
(***************************************************************************)
(* The copies of a packet agree, no old text stays behind a new one, what  *)
(* is saved is what was said, and the position in the translation table    *)
(* that is kept between reads does not matter: for any leaves, values,     *)
(* files, packets and tables.                                              *)
(***************************************************************************)
EXTENDS EmbeddedXmp, FiniteSetTheorems, Induction

-----------------------------------------------------------------------------
\* The states

Values == Value \cup {Unset, Absent}

Blocks ==
  {b \in [known : BOOLEAN, charset : {"none", "utf8", "utf16l", "utf16b"}, bReadOnly : BOOLEAN,
          cells : Seq({"text", "blank"}), mMetadataSize : Nat, text : Texts \cup {Malformed}] :
     Padded(b.cells, b.charset, b.mMetadataSize)}

States ==
  [mOpenMode : Mode, file : File \cup {Absent}, mStartPosition : Int,
   node : Texts \cup {Absent}, built : BOOLEAN, root : Texts \cup {Absent}, block : Blocks]

\* The nodes and the metadata are there together, and agree on what the table converts; once
\* the accessor is closed the metadata may stay.
Agrees(x) ==
  x.built \/ x.node # Absent =>
    /\ x.node \in Texts /\ x.root \in Texts
    /\ \A l \in Leaf : XmpRow[l] = "simple" /\ x.root[l] # Unset => x.node[l] = x.root[l]

AgreeingStates == {x \in States : Agrees(x)}

\* A row of the table before which the tag changes, or the first.
AtEdge(i) ==
  /\ i \in DOMAIN ExifTable
  /\ i = 1 \/ ExifTable[i - 1].tag # ExifTable[i].tag

Positions == {i \in Nat : ExifTag # {} => AtEdge(i)}

ExifStates ==
  [name : File \cup {Absent}, openMode : Mode, content : ExifFiles,
   mTtPosition : Positions, mnXMPLength : Nat]

Contents == IF format = "xmp" THEN XmpFiles ELSE ExifFiles

\* The inductive invariant.
IInv ==
  /\ format \in Format
  /\ md \in [Leaf -> Values]
  /\ disk \in [File -> Contents \cup {Absent}]
  /\ xmp \in AgreeingStates
  /\ exif \in ExifStates
  /\ format = "xmp" /\ xmp.file # Absent => disk[xmp.file] # Absent

-----------------------------------------------------------------------------
\* The block manager

LEMMA LeafFinite == IsFiniteSet(Leaf)
  <1>1. Leaves \in Surjection(1 .. Len(Leaves), Leaf)
    BY AccessorAssumption DEF ToSet, Surjection
  <1>2. IsFiniteSet(1 .. Len(Leaves))
    <2>1. Len(Leaves) \in Int
      BY AccessorAssumption
    <2> QED BY <2>1, FS_Interval
  <1> QED BY <1>1, <1>2, FS_Surjection

\* A text takes some characters, and some bytes in each encoding.
LEMMA SizeType ==
  ASSUME NEW text, NEW charset
  PROVE  /\ TextSize(text) \in Nat
         /\ Bytes(charset, TextSize(text)) \in Nat
         /\ TextSize(text) <= Bytes(charset, TextSize(text))
         /\ charset = "utf8" => Bytes(charset, TextSize(text)) = TextSize(text)
  <1>1. Cardinality({l \in Leaf : text[l] # Absent}) \in Nat
    <2>1. {l \in Leaf : text[l] # Absent} \in SUBSET Leaf
      OBVIOUS
    <2> QED BY <2>1, LeafFinite, FS_Subset, FS_CardinalityType
  <1> QED BY <1>1 DEF TextSize, Bytes

\* A packet that grows has room for what it lacked, in blanks behind its metadata.
LEMMA ExtendsEnough ==
  ASSUME NEW block \in Blocks, NEW lack \in Nat
  PROVE  \E cells \in Seq({"text", "blank"}) :
           /\ ExtendBlockSize(block, lack) = [block EXCEPT !.cells = cells]
           /\ Len(cells) >= Len(block.cells) + lack
           /\ block.charset = "utf8" =>
                \A i \in DOMAIN cells : i > block.mMetadataSize => cells[i] = "blank"
  <1> DEFINE at == block.mMetadataSize
             more == ((lack + ExtendUnit - 1) \div ExtendUnit) * ExtendUnit
             cells == SubSeq(block.cells, 1, at) \o Blank(more)
                        \o SubSeq(block.cells, at + 1, Len(block.cells))
  <1>1. /\ at \in Nat /\ block.cells \in Seq({"text", "blank"}) /\ at <= Len(block.cells)
        /\ block.charset = "utf8" =>
             \A i \in DOMAIN block.cells : i > at => block.cells[i] = "blank"
    BY DEF Blocks, Padded
  <1>2. more \in Nat /\ more >= lack
    <2> DEFINE u == lack + ExtendUnit - 1
               q == u \div ExtendUnit
    <2>1. ExtendUnit \in Nat \ {0} /\ u \in Nat
      BY XmpAssumption
    <2>2. q \in Nat /\ u = ExtendUnit * q + (u % ExtendUnit) /\ u % ExtendUnit < ExtendUnit
      <3> HIDE DEF u
      <3> QED BY <2>1
    <2>3. q * ExtendUnit \in Nat /\ q * ExtendUnit = ExtendUnit * q
      <3> HIDE DEF q
      <3> QED BY <2>1, <2>2
    <2>4. q * ExtendUnit > u - ExtendUnit
      <3> HIDE DEF q, u
      <3> QED BY <2>1, <2>2, <2>3
    <2> QED BY <2>1, <2>3, <2>4
  <1> HIDE DEF more
  <1>3. /\ Blank(more) \in Seq({"text", "blank"}) /\ Len(Blank(more)) = more
        /\ \A i \in 1 .. more : Blank(more)[i] = "blank"
    BY <1>2 DEF Blank
  <1>4. /\ cells \in Seq({"text", "blank"}) /\ Len(cells) = Len(block.cells) + more
        /\ \A i \in DOMAIN cells : i > at =>
             cells[i] = IF i <= at + more THEN Blank(more)[i - at] ELSE block.cells[i - more]
    <2> DEFINE mid == Blank(more)
               Cells == {"text", "blank"}
               s == block.cells
    <2>1. mid \in Seq(Cells) /\ Len(mid) = more
      BY <1>3
    <2>2. s \in Seq(Cells) /\ at \in Nat /\ at <= Len(s)
      BY <1>1
    <2>3. cells = Splice(s, at, mid)
      BY DEF Splice
    <2> HIDE DEF mid, at, s, cells, Cells
    <2>4. cells \in Seq(Cells) /\ Len(cells) = Len(s) + Len(mid)
      <3>1. mid \in Seq(Cells)
        BY <2>1
      <3> QED BY <2>2, <2>3, <3>1, Spliced
    <2>7. ASSUME NEW i \in 1 .. Len(s) + Len(mid)
          PROVE  cells[i] = IF i <= at THEN s[i]
                            ELSE IF i <= at + Len(mid) THEN mid[i - at] ELSE s[i - Len(mid)]
      <3>1. mid \in Seq(Cells)
        BY <2>1
      <3>2. /\ Splice(s, at, mid) \in Seq(Cells) /\ Len(Splice(s, at, mid)) = Len(s) + Len(mid)
            /\ \A j \in 1 .. Len(s) + Len(mid) :
                 Splice(s, at, mid)[j] = IF j <= at THEN s[j]
                                         ELSE IF j <= at + Len(mid) THEN mid[j - at] ELSE s[j - Len(mid)]
        BY <2>2, <3>1, Spliced, SMTT(60)
      <3> QED BY <2>3, <3>2, Zenon
    <2>5. Len(s) \in Nat /\ DOMAIN cells = 1 .. Len(s) + more
      BY <1>2, <2>1, <2>2, <2>4
    <2>6. ASSUME NEW i \in DOMAIN cells, i > at
          PROVE  cells[i] = IF i <= at + more THEN mid[i - at] ELSE s[i - more]
      <3>1. i \in 1 .. Len(s) + Len(mid) /\ i \in Nat
        BY <1>2, <2>1, <2>5
      <3>2. cells[i] = IF i <= at THEN s[i]
                       ELSE IF i <= at + Len(mid) THEN mid[i - at] ELSE s[i - Len(mid)]
        BY <2>7, <3>1
      <3> QED BY <2>1, <2>2, <2>6, <3>1, <3>2
    <2> QED BY <2>1, <2>4, <2>6 DEF Cells, mid, s
  <1>5. ExtendBlockSize(block, lack) = [block EXCEPT !.cells = cells]
    BY DEF ExtendBlockSize, more
  <1> HIDE DEF cells, at
  <1>6. ASSUME block.charset = "utf8", NEW i \in DOMAIN cells, i > at
        PROVE  cells[i] = "blank"
    <2>1. i \in 1 .. Len(block.cells) + more
      BY <1>4
    <2>2. CASE i <= at + more
      <3>1. i - at \in 1 .. more
        BY <1>1, <1>2, <1>6, <2>1, <2>2
      <3> QED BY <1>3, <1>4, <1>6, <2>2, <3>1
    <2>3. CASE ~(i <= at + more)
      <3>1. i - more \in 1 .. Len(block.cells) /\ i - more > at
        BY <1>1, <1>2, <1>6, <2>1, <2>3
      <3> QED BY <1>1, <1>4, <1>6, <2>3, <3>1
    <2> QED BY <2>2, <2>3
  <1>7. Len(cells) >= Len(block.cells) + lack
    BY <1>1, <1>2, <1>4
  <1> QED BY <1>4, <1>5, <1>6, <1>7 DEF at

\* What Flush leaves in the block: a block, and, if it is done, the text of the nodes in as
\* many bytes as it takes, with blanks behind it.
LEMMA Updated ==
  ASSUME NEW block \in Blocks, NEW text \in Texts
  PROVE  LET r == UpdataMetaData(block, text)
         IN  /\ r.done \in BOOLEAN /\ r.block \in Blocks
             /\ r.done =>
                  /\ r.block.text = text
                  /\ Padded(r.block.cells, r.block.charset, Bytes(r.block.charset, TextSize(text)))
  <1> DEFINE start == InitializeEmptyBlock(block)
             n == TextSize(text)
             size == Bytes(start.charset, n)
             room == Len(start.cells)
             fits == size <= room \/ Extends(start)
             grown == IF size <= room THEN start ELSE ExtendBlockSize(start, size - room)
             written == [i \in DOMAIN grown.cells |-> IF i <= size THEN "text" ELSE grown.cells[i]]
             cells == PaddingSpace(written, start.charset, size, start.mMetadataSize)
             result == [grown EXCEPT !.text = text, !.mMetadataSize = n, !.cells = cells]
  <1>1. start \in Blocks
    <2> DEFINE empty == [NoBlock EXCEPT !.known = TRUE, !.charset = "utf8", !.bReadOnly = FALSE]
    <2>0. Nothing \in Texts /\ <<>> \in Seq({"text", "blank"})
      BY DEF Nothing, Texts
    <2>1. empty \in [known : BOOLEAN, charset : {"none", "utf8", "utf16l", "utf16b"},
                     bReadOnly : BOOLEAN, cells : Seq({"text", "blank"}),
                     mMetadataSize : Nat, text : Texts \cup {Malformed}]
      BY <2>0 DEF NoBlock
    <2>2. empty.cells = <<>> /\ empty.mMetadataSize = 0
      BY DEF NoBlock
    <2>3. Padded(<<>>, empty.charset, 0)
      BY DEF Padded
    <2>4. empty \in Blocks
      <3> HIDE DEF empty
      <3> QED BY <2>1, <2>2, <2>3 DEF Blocks
    <2> QED BY <2>4 DEF InitializeEmptyBlock
  <1>2. /\ n \in Nat /\ size \in Nat /\ n <= size
        /\ start.charset = "utf8" => size = n
    BY SizeType
  <1>3. UpdataMetaData(block, text) =
          IF start.charset = "utf16b" \/ ~fits THEN [done |-> FALSE, block |-> start]
          ELSE [done |-> TRUE, block |-> result]
    BY DEF UpdataMetaData
  <1> HIDE DEF start, n, size
  <1>4. /\ start.cells \in Seq({"text", "blank"}) /\ room \in Nat
        /\ start.mMetadataSize \in Nat /\ start.mMetadataSize <= room
        /\ start.charset = "utf8" =>
             \A i \in DOMAIN start.cells : i > start.mMetadataSize => start.cells[i] = "blank"
    BY <1>1 DEF Blocks, Padded
  <1>5. ASSUME fits
        PROVE  \E c \in Seq({"text", "blank"}) :
                 /\ grown = [start EXCEPT !.cells = c]
                 /\ Len(c) >= size /\ Len(c) >= room
                 /\ start.charset = "utf8" =>
                      \A i \in DOMAIN c : i > start.mMetadataSize => c[i] = "blank"
    <2>1. CASE size <= room
      <3>1. grown = [start EXCEPT !.cells = start.cells]
        BY <1>1, <2>1 DEF Blocks
      <3> QED BY <1>4, <2>1, <3>1
    <2>2. CASE ~(size <= room)
      <3>1. size - room \in Nat
        BY <1>2, <1>4, <2>2
      <3>2. \E c \in Seq({"text", "blank"}) :
              /\ ExtendBlockSize(start, size - room) = [start EXCEPT !.cells = c]
              /\ Len(c) >= room + (size - room)
              /\ start.charset = "utf8" =>
                   \A i \in DOMAIN c : i > start.mMetadataSize => c[i] = "blank"
        BY <1>1, <3>1, ExtendsEnough
      <3>3. \A c \in Seq({"text", "blank"}) :
              Len(c) >= room + (size - room) => Len(c) >= size /\ Len(c) >= room
        BY <1>2, <1>4, <2>2
      <3> QED BY <2>2, <3>2, <3>3
    <2> QED BY <2>1, <2>2
  <1>6. ASSUME fits
        PROVE  /\ result \in Blocks
               /\ result.text = text /\ result.charset = start.charset
               /\ Padded(result.cells, start.charset, size)
    <2>1. PICK c \in Seq({"text", "blank"}) :
                 /\ grown = [start EXCEPT !.cells = c]
                 /\ Len(c) >= size /\ Len(c) >= room
                 /\ start.charset = "utf8" =>
                      \A i \in DOMAIN c : i > start.mMetadataSize => c[i] = "blank"
      BY <1>5, <1>6
    <2>2. grown.cells = c
      BY <1>1, <2>1 DEF Blocks
    <2>3. /\ cells = [i \in DOMAIN c |->
                        IF start.charset # "none" /\ size < i /\ i <= start.mMetadataSize THEN "blank"
                        ELSE IF i <= size THEN "text" ELSE c[i]]
      BY <2>2 DEF PaddingSpace
    <2>4. DOMAIN c = 1 .. Len(c) /\ Len(c) \in Nat /\ \A i \in DOMAIN c : c[i] \in {"text", "blank"}
      OBVIOUS
    <2> HIDE DEF cells, grown
    <2>5. cells \in Seq({"text", "blank"}) /\ Len(cells) = Len(c)
      BY <2>3, <2>4
    <2>6. result = [start EXCEPT !.text = text, !.mMetadataSize = n, !.cells = cells]
      BY <1>1, <2>1 DEF Blocks
    <2>7. ASSUME start.charset = "utf8", NEW i \in DOMAIN cells, i > size
          PROVE  cells[i] = "blank"
      BY <1>2, <1>4, <2>1, <2>3, <2>4, <2>7
    <2>8. Padded(cells, start.charset, size) /\ Padded(cells, start.charset, n)
      BY <1>2, <2>1, <2>4, <2>5, <2>7 DEF Padded
    <2>9. result.cells = cells /\ result.charset = start.charset /\ result.text = text
          /\ result.mMetadataSize = n
      BY <1>1, <2>6 DEF Blocks
    <2>10. result \in Blocks
      BY <1>1, <1>2, <2>5, <2>6, <2>8, <2>9 DEF Blocks
    <2> QED BY <2>8, <2>9, <2>10
  <1> HIDE DEF fits, result
  <1> QED BY <1>1, <1>3, <1>6 DEF size, n

-----------------------------------------------------------------------------
\* Opening and closing

LEMMA BlockOfPacket ==
  ASSUME NEW block \in Blocks, NEW packet \in Packets \cup {Absent}
  PROVE  FindXMPBlock(block, packet) \in Blocks
  <1>1. CASE packet = Absent
    BY <1>1 DEF FindXMPBlock
  <1>2. CASE packet # Absent /\ packet.charset = "none"
    <2>1. [block EXCEPT !.charset = "none"] \in Blocks
      BY DEF Blocks, Padded
    <2> QED BY <1>2, <2>1 DEF FindXMPBlock
  <1>3. CASE packet # Absent /\ packet.charset # "none"
    BY <1>3 DEF FindXMPBlock, Packets, Blocks
  <1> QED BY <1>1, <1>2, <1>3

LEMMA Flushed ==
  ASSUME NEW x \in AgreeingStates
  PROVE  /\ Flush(x).done \in BOOLEAN /\ Flush(x).block \in Blocks
         /\ Flush(x).done =>
              LET b == Flush(x).block
              IN  /\ x.node \in Texts /\ b.text = x.node
                  /\ Padded(b.cells, b.charset, Bytes(b.charset, TextSize(b.text)))
  <1>1. x.block \in Blocks /\ (x.node # Absent => x.node \in Texts)
    BY DEF AgreeingStates, States
  <1>2. CASE x.node = Absent
    BY <1>1, <1>2 DEF Flush
  <1>3. CASE x.node # Absent
    <2>1. Flush(x) = UpdataMetaData(x.block, x.node)
      BY <1>3 DEF Flush
    <2> QED BY <1>1, <1>3, <2>1, Updated
  <1> QED BY <1>2, <1>3

LEMMA WithBlock ==
  ASSUME NEW x \in AgreeingStates, NEW b \in Blocks
  PROVE  [x EXCEPT !.block = b] \in AgreeingStates
  BY DEF AgreeingStates, States, Agrees

LEMMA Closed ==
  ASSUME NEW x \in AgreeingStates
  PROVE  XmpClosed(x) \in AgreeingStates
  <1> DEFINE b == IF x.mOpenMode = "readonly" THEN x.block ELSE Flush(x).block
  <1>1. b \in Blocks
    BY Flushed DEF AgreeingStates, States
  <1>2. XmpClosed(x) = [x EXCEPT !.block = b, !.file = Absent, !.node = Absent, !.built = FALSE]
    BY DEF XmpClosed
  <1> HIDE DEF b
  <1> QED BY <1>1, <1>2 DEF AgreeingStates, States, Agrees

LEMMA Begun ==
  ASSUME NEW x \in AgreeingStates, NEW mode \in Mode
  PROVE  /\ Initialized(x, mode) \in AgreeingStates
         /\ Initialized(x, mode).node = Nothing /\ Initialized(x, mode).root = Nothing
         /\ Initialized(x, mode).node \in Texts /\ Initialized(x, mode).root \in Texts
  <1>1. Nothing \in Texts
    BY DEF Nothing, Texts
  <1>2. XmpClosed(x) \in AgreeingStates
    BY Closed
  <1> DEFINE c == XmpClosed(x)
  <1>3. Initialized(x, mode) = [c EXCEPT !.mOpenMode = mode, !.node = Nothing, !.root = Nothing]
    BY DEF Initialized
  <1> HIDE DEF c
  <1>4. c \in AgreeingStates
    BY <1>2 DEF c
  <1> QED BY <1>1, <1>3, <1>4 DEF AgreeingStates, States, Agrees

\* What a packet says is merged into both copies alike.
LEMMA Parsed ==
  ASSUME NEW x \in AgreeingStates, x.node \in Texts, x.root \in Texts,
         \A l \in Leaf : XmpRow[l] = "simple" /\ x.root[l] # Unset => x.node[l] = x.root[l],
         NEW text \in Texts
  PROVE  /\ ParseXMPBlock(x, text) \in AgreeingStates
         /\ [ParseXMPBlock(x, text) EXCEPT !.built = TRUE] \in AgreeingStates
  <1> DEFINE node == AppendNode(x.node, text)
             root == AppendNode(x.root, ReadMetaData(text))
             y == ParseXMPBlock(x, text)
  <1>1. \A l \in Leaf : text[l] \in Value \cup {Unset, Absent}
    BY DEF Texts
  <1>2. \A l \in Leaf :
          ReadMetaData(text)[l] = IF XmpRow[l] = "none" \/ text[l] = Absent THEN Absent
                                  ELSE IF XmpRow[l] = "odd" THEN Unset ELSE text[l]
    BY DEF ReadMetaData, AssignXMPValueToPMTValue
  <1>3. \A l \in Leaf : /\ node[l] = IF text[l] # Absent THEN text[l] ELSE x.node[l]
                        /\ root[l] = IF ReadMetaData(text)[l] # Absent THEN ReadMetaData(text)[l]
                                     ELSE x.root[l]
    BY DEF AppendNode
  <1>4. node \in Texts /\ root \in Texts
    <2>1. \A l \in Leaf : x.node[l] \in Value \cup {Unset, Absent} /\ x.root[l] \in Value \cup {Unset, Absent}
      BY DEF Texts
    <2>2. \A l \in Leaf : node[l] \in Value \cup {Unset, Absent} /\ root[l] \in Value \cup {Unset, Absent}
      BY <1>1, <1>2, <1>3, <2>1
    <2>3. node = [l \in Leaf |-> node[l]] /\ root = [l \in Leaf |-> root[l]]
      BY DEF AppendNode
    <2> HIDE DEF node, root
    <2> QED BY <2>2, <2>3 DEF Texts
  <1>5. \A l \in Leaf : XmpRow[l] = "simple" /\ root[l] # Unset => node[l] = root[l]
    BY <1>2, <1>3
  <1>6. y = [x EXCEPT !.node = node, !.root = root]
    BY DEF ParseXMPBlock
  <1> HIDE DEF node, root, y
  <1>7. /\ y \in States /\ [y EXCEPT !.built = TRUE] \in States
        /\ y.node = node /\ y.root = root
        /\ [y EXCEPT !.built = TRUE].node = node /\ [y EXCEPT !.built = TRUE].root = root
    BY <1>4, <1>6 DEF AgreeingStates, States
  <1>8. y \in AgreeingStates /\ [y EXCEPT !.built = TRUE] \in AgreeingStates
    BY <1>4, <1>5, <1>7 DEF AgreeingStates, Agrees
  <1> QED BY <1>8 DEF y

LEMMA TakenAgrees ==
  ASSUME NEW x \in AgreeingStates, x.node \in Texts, x.root = x.node,
         NEW packet \in Packets \cup {Absent}, NEW lead \in Nat
  PROVE  Taken(x, packet, lead) \in AgreeingStates
  <1> DEFINE block == FindXMPBlock(x.block, packet)
             at == IF Found(packet) THEN lead ELSE 0 - 1
             found == [x EXCEPT !.block = block, !.mStartPosition = at]
  <1>1. block \in Blocks /\ at \in Int
    BY BlockOfPacket DEF AgreeingStates, States
  <1> HIDE DEF block, at
  <1>2. found \in AgreeingStates /\ found.node = x.node /\ found.root = x.root
    BY <1>1 DEF AgreeingStates, States, Agrees
  <1>3. Taken(x, packet, lead) =
          IF ~Found(packet) \/ packet.text = Malformed THEN found
          ELSE [ParseXMPBlock(found, packet.text) EXCEPT !.built = TRUE]
    BY DEF Taken, block, at
  <1> HIDE DEF found
  <1>4. CASE ~Found(packet) \/ packet.text = Malformed
    BY <1>2, <1>3, <1>4
  <1>5. CASE ~(~Found(packet) \/ packet.text = Malformed)
    <2>1. packet.text \in Texts
      BY <1>5 DEF Found, Packets
    <2>2. \A l \in Leaf : XmpRow[l] = "simple" /\ found.root[l] # Unset => found.node[l] = found.root[l]
      BY <1>2
    <2>3. [ParseXMPBlock(found, packet.text) EXCEPT !.built = TRUE] \in AgreeingStates
      BY <1>2, <2>1, <2>2, Parsed
    <2> QED BY <1>3, <1>5, <2>3
  <1> QED BY <1>4, <1>5

-----------------------------------------------------------------------------
\* One leaf, and the leaves of a call

WritableStates(file) == {x \in AgreeingStates : XmpWritable(x) /\ x.file = file}
BuiltStates(file) == {x \in AgreeingStates : x.built /\ x.file = file}

LEMMA SetAgrees ==
  ASSUME md \in [Leaf -> Values], NEW file, NEW x \in WritableStates(file), NEW l \in Leaf
  PROVE  XmpSet(x, l) \in WritableStates(file)
  <1>1. CASE x.root = Absent \/ x.mOpenMode = "readonly"
    BY <1>1 DEF XmpSet
  <1>2. CASE ~(x.root = Absent \/ x.mOpenMode = "readonly")
    <2> DEFINE node == IF x.root[l] = md[l] THEN x.node ELSE WriteMdValue(x.node, l)
               root == [x.root EXCEPT ![l] = md[l]]
    <2>1. x.built
      BY <1>2 DEF WritableStates, XmpWritable
    <2>2. /\ x \in States /\ x.node \in Texts /\ x.root \in Texts
          /\ \A k \in Leaf : XmpRow[k] = "simple" /\ x.root[k] # Unset => x.node[k] = x.root[k]
      BY <2>1 DEF WritableStates, AgreeingStates, Agrees
    <2>3. XmpSet(x, l) = [x EXCEPT !.root = root, !.node = node]
      BY <1>2 DEF XmpSet
    <2>4. root \in Texts /\ node \in Texts
      BY <2>2 DEF Texts, Values, WriteMdValue, SetMdValue
    <2>5. \A k \in Leaf : XmpRow[k] = "simple" /\ root[k] # Unset => node[k] = root[k]
      BY <2>2 DEF Texts, WriteMdValue, SetMdValue
    <2> HIDE DEF node, root
    <2> DEFINE y == [x EXCEPT !.root = root, !.node = node]
    <2>6. y \in States
      BY <2>2, <2>4 DEF States
    <2>7. y.root = root /\ y.node = node /\ y.built = x.built /\ y.file = file
      BY <2>2 DEF States, WritableStates
    <2> HIDE DEF y
    <2>8. y \in WritableStates(file)
      BY <2>1, <2>4, <2>5, <2>6, <2>7 DEF WritableStates, AgreeingStates, Agrees, XmpWritable
    <2> QED BY <2>3, <2>8 DEF y
  <1> QED BY <1>1, <1>2

LEMMA EraseAgrees ==
  ASSUME NEW file, NEW x \in BuiltStates(file), NEW l \in Leaf
  PROVE  XmpErase(x, l) \in BuiltStates(file)
  <1>1. CASE x.root[l] = Absent
    BY <1>1 DEF XmpErase
  <1>2. CASE x.root[l] # Absent
    <2> DEFINE node == [x.node EXCEPT ![l] = IF XmpRow[l] = "none" THEN @ ELSE Absent]
               root == [x.root EXCEPT ![l] = Absent]
    <2>1. /\ x \in States /\ x.built /\ x.node \in Texts /\ x.root \in Texts
          /\ \A k \in Leaf : XmpRow[k] = "simple" /\ x.root[k] # Unset => x.node[k] = x.root[k]
      BY DEF BuiltStates, AgreeingStates, Agrees
    <2>2. XmpErase(x, l) = [x EXCEPT !.root = root, !.node = node]
      BY <1>2 DEF XmpErase
    <2>3. root \in Texts /\ node \in Texts
      BY <2>1 DEF Texts
    <2>4. \A k \in Leaf : XmpRow[k] = "simple" /\ root[k] # Unset => node[k] = root[k]
      BY <2>1 DEF Texts
    <2> HIDE DEF node, root
    <2> DEFINE y == [x EXCEPT !.root = root, !.node = node]
    <2>5. y \in States
      BY <2>1, <2>3 DEF States
    <2>6. y.root = root /\ y.node = node /\ y.built = x.built /\ y.file = file
      BY <2>1 DEF States, BuiltStates
    <2> HIDE DEF y
    <2>7. y \in BuiltStates(file)
      BY <2>1, <2>3, <2>4, <2>5, <2>6 DEF BuiltStates, AgreeingStates, Agrees
    <2> QED BY <2>2, <2>7 DEF y
  <1> QED BY <1>1, <1>2

LEMMA ScopeOfLeaves ==
  ASSUME NEW s \in Scope, NEW valid \in BOOLEAN
  PROVE  s \in Seq(Leaf) /\ (IF valid THEN Leaves ELSE s) \in Seq(Leaf)
  BY AccessorAssumption

\* Writing a subtree leaf by leaf.
LEMMA WrittenAgrees ==
  ASSUME md \in [Leaf -> Values], xmp \in WritableStates(xmp.file), NEW s \in Scope, NEW valid \in BOOLEAN
  PROVE  Written(s, valid, xmp, XmpSet, XmpNoThrow).state \in WritableStates(xmp.file)
  <1> DEFINE g == IF valid THEN Leaves ELSE s
             c == [state |-> xmp, thrown |-> 0]
             Turn(w, i) == IF md[g[i]] = Absent \/ (throwErrors /\ w.thrown > 0) THEN w
                           ELSE [w EXCEPT !.state = XmpSet(w.state, g[i])]
             S == [state : WritableStates(xmp.file), thrown : Nat]
             turn == [i \in 1 .. Len(g) |-> [w \in S |-> Turn(w, i)]]
             W == CHOOSE W : W = [i \in 0 .. Len(g) |-> IF i = 0 THEN c ELSE Turn(W[i - 1], i)]
  <1>1. g \in Seq(Leaf) /\ Len(g) \in Nat
    BY ScopeOfLeaves
  <1>2. Written(s, valid, xmp, XmpSet, XmpNoThrow) = W[Len(g)]
    BY DEF Written, XmpNoThrow
  <1> HIDE DEF g
  <1>3. ASSUME NEW i \in 1 .. Len(g), NEW w \in S
        PROVE  Turn(w, i) \in S
    <2>1. g[i] \in Leaf
      BY <1>1
    <2>2. XmpSet(w.state, g[i]) \in WritableStates(xmp.file)
      BY <2>1, SetAgrees
    <2> QED BY <2>2
  <1>4. c \in S
    OBVIOUS
  <1> HIDE DEF S, c, Turn
  <1>5. turn \in [1 .. Len(g) -> [S -> S]]
    BY <1>3
  <1>6. \E f : IsRun(f, S, Len(g), c, turn)
    <2> HIDE DEF turn
    <2> QED BY <1>1, <1>4, <1>5, RunExists, Zenon
  <1>7. PICK f : f \in [0 .. Len(g) -> S] /\ f[0] = c /\ \A i \in 1 .. Len(g) : f[i] = turn[i][f[i - 1]]
    BY <1>6 DEF IsRun
  <1>8. ASSUME NEW i \in 1 .. Len(g)
        PROVE  f[i] = Turn(f[i - 1], i)
    <2>1. f[i - 1] \in S
      BY <1>1, <1>7
    <2> QED BY <1>7, <2>1
  <1>9. f = [i \in 0 .. Len(g) |-> IF i = 0 THEN c ELSE Turn(f[i - 1], i)]
    <2> HIDE DEF turn
    <2> QED BY <1>1, <1>7, <1>8
  <1>10. W = [i \in 0 .. Len(g) |-> IF i = 0 THEN c ELSE Turn(W[i - 1], i)]
    BY <1>9
  <1> HIDE DEF W
  <1>11. W[0] \in S
    BY <1>1, <1>4, <1>10
  <1>12. \A i \in 1 .. Len(g) : W[i - 1] \in S => W[i] = turn[i][W[i - 1]]
    BY <1>1, <1>10, SMTT(30)
  <1>13. W[Len(g)] \in S
    <2> DEFINE n == Len(g)
    <2>1. \A i \in 0 .. n : W[i] \in S
      <3> HIDE DEF turn
      <3> QED BY <1>1, <1>5, <1>11, <1>12, RunStays, Zenon
    <2> QED BY <1>1, <2>1
  <1> QED BY <1>2, <1>13 DEF S

\* Removing a subtree leaf by leaf.
LEMMA RemovedAgrees ==
  ASSUME xmp \in BuiltStates(xmp.file), NEW s \in Scope
  PROVE  Removed(s, xmp, XmpErase, XmpNoThrow).state \in BuiltStates(xmp.file)
  <1> DEFINE c == [state |-> xmp, thrown |-> FALSE]
             Turn(w, i) == IF md[s[i]] = Absent \/ w.thrown THEN w
                           ELSE [state |-> XmpErase(w.state, s[i]), thrown |-> FALSE]
             S == [state : BuiltStates(xmp.file), thrown : BOOLEAN]
             turn == [i \in 1 .. Len(s) |-> [w \in S |-> Turn(w, i)]]
             W == CHOOSE W : W = [i \in 0 .. Len(s) |-> IF i = 0 THEN c ELSE Turn(W[i - 1], i)]
  <1>1. s \in Seq(Leaf) /\ Len(s) \in Nat
    BY AccessorAssumption
  <1>2. Removed(s, xmp, XmpErase, XmpNoThrow) = W[Len(s)]
    BY DEF Removed, XmpNoThrow
  <1>3. ASSUME NEW i \in 1 .. Len(s), NEW w \in S
        PROVE  Turn(w, i) \in S
    <2>1. XmpErase(w.state, s[i]) \in BuiltStates(xmp.file)
      BY <1>1, EraseAgrees
    <2> QED BY <2>1
  <1>4. c \in S
    OBVIOUS
  <1> HIDE DEF S, c, Turn
  <1>5. turn \in [1 .. Len(s) -> [S -> S]]
    BY <1>3
  <1>6. \E f : IsRun(f, S, Len(s), c, turn)
    <2> HIDE DEF turn
    <2> QED BY <1>1, <1>4, <1>5, RunExists, Zenon
  <1>7. PICK f : f \in [0 .. Len(s) -> S] /\ f[0] = c /\ \A i \in 1 .. Len(s) : f[i] = turn[i][f[i - 1]]
    BY <1>6 DEF IsRun
  <1>8. ASSUME NEW i \in 1 .. Len(s)
        PROVE  f[i] = Turn(f[i - 1], i)
    <2>1. f[i - 1] \in S
      BY <1>1, <1>7
    <2> QED BY <1>7, <2>1
  <1>9. f = [i \in 0 .. Len(s) |-> IF i = 0 THEN c ELSE Turn(f[i - 1], i)]
    <2> HIDE DEF turn
    <2> QED BY <1>1, <1>7, <1>8
  <1>10. W = [i \in 0 .. Len(s) |-> IF i = 0 THEN c ELSE Turn(W[i - 1], i)]
    BY <1>9
  <1> HIDE DEF W
  <1>11. W[0] \in S
    BY <1>1, <1>4, <1>10
  <1>12. \A i \in 1 .. Len(s) : W[i - 1] \in S => W[i] = turn[i][W[i - 1]]
    BY <1>1, <1>10
  <1>13. \A i \in 0 .. Len(s) : W[i] \in S
    <2> HIDE DEF turn
    <2> QED BY <1>1, <1>5, <1>11, <1>12, RunStays, Zenon
  <1>14. W[Len(s)] \in S
    BY <1>1, <1>13
  <1> QED BY <1>2, <1>14 DEF S

-----------------------------------------------------------------------------
\* The steps of the XMP accessor

\* What a tree has after a read: what it had, or values of the accessor.
LEMMA ReadTypes ==
  ASSUME md \in [Leaf -> Values], NEW good \in SUBSET Leaf, NEW val,
         \A l \in good : val[l] \in Values,
         \/ \E s \in Scope : readMetadata(s, good, val)
         \/ readMetadataRoot(good, val)
  PROVE  md' \in [Leaf -> Values] /\ format' = format
  BY ZenonT(30) DEF readMetadata, readMetadataRoot, Values

LEMMA XmpValues ==
  ASSUME NEW x \in States
  PROVE  /\ XmpReads(x) \in SUBSET Leaf
         /\ \A l \in XmpReads(x) : XmpValue(x)[l] \in Values
         /\ \A l \in XmpReads(x) : x.root[l] \in Values
  <1>1. x.root # Absent => x.root \in Texts
    BY DEF States
  <1>2. XmpReads(x) # {} => x.root \in Texts
    BY <1>1 DEF XmpReads
  <1> QED BY <1>2 DEF XmpReads, XmpValue, Texts, Values

\* What is saved is a file, and only that file changes.
LEMMA SavedTypes ==
  ASSUME disk \in [File -> XmpFiles \cup {Absent}], NEW x \in AgreeingStates,
         x.file # Absent => disk[x.file] # Absent
  PROVE  /\ XmpDisk(disk, x) \in [File -> XmpFiles \cup {Absent}]
         /\ \A f \in File : disk[f] # Absent => XmpDisk(disk, x)[f] # Absent
         /\ Saves(x) => /\ XmpDisk(disk, x)[x.file].packet \in Packets
                        /\ XmpDisk(disk, x)[x.file].packet.text = x.node
  <1>1. CASE ~Saves(x)
    BY <1>1 DEF XmpDisk
  <1>2. CASE Saves(x)
    <2> DEFINE b == Flush(x).block
               file == disk[x.file]
               before == IF file.packet = Absent THEN 0 ELSE Len(file.packet.cells)
               over == Len(b.cells) - before
               packet == [charset |-> b.charset, bReadOnly |-> b.bReadOnly, cells |-> b.cells,
                          text |-> b.text, size |-> Bytes(b.charset, TextSize(b.text))]
               tail == IF over >= file.tail THEN 0 ELSE file.tail - (IF over > 0 THEN over ELSE 0)
               saved == [lead |-> x.mStartPosition, packet |-> packet, tail |-> tail]
    <2>1. XmpDisk(disk, x) = [disk EXCEPT ![x.file] = saved]
      BY <1>2 DEF XmpDisk, SaveTo, XmpFile
    <2>2. x.file \in File /\ file \in XmpFiles /\ x.mStartPosition \in Nat
      BY <1>2 DEF Saves, AgreeingStates, States
    <2>3. b \in Blocks /\ b.text = x.node /\ x.node \in Texts
          /\ Padded(b.cells, b.charset, Bytes(b.charset, TextSize(b.text)))
      BY <1>2, Flushed DEF Saves
    <2>4. packet \in Packets /\ packet.text = x.node
      <3>1. Bytes(b.charset, TextSize(b.text)) \in Nat
        BY SizeType
      <3> QED BY <2>3, <3>1 DEF Packets, Blocks
    <2>5. tail \in Nat
      <3>1. file.tail \in Nat /\ Len(b.cells) \in Nat
        BY <2>2, <2>3 DEF XmpFiles, Blocks
      <3>2. before \in Nat
        BY <2>2 DEF XmpFiles, Packets
      <3> HIDE DEF b, file, before
      <3> QED BY <3>1, <3>2
    <2> HIDE DEF packet, tail
    <2>6. saved \in XmpFiles /\ saved # Absent
      BY <2>2, <2>4, <2>5, EmbeddedXmpAssumption DEF XmpFiles
    <2>7. saved.packet = packet
      OBVIOUS
    <2> HIDE DEF saved
    <2> QED BY <2>1, <2>2, <2>4, <2>6, <2>7
  <1> QED BY <1>1, <1>2

\* The step keeps the invariant when it keeps each of the parts, in the format it is in.
LEMMA Framed ==
  ASSUME IInv, format' = format, md' \in [Leaf -> Values],
         disk' \in [File -> Contents \cup {Absent}], xmp' \in AgreeingStates,
         exif' \in ExifStates,
         format = "xmp" /\ xmp'.file # Absent => disk'[xmp'.file] # Absent
  PROVE  IInv'
  <1>1. AgreeingStates' = AgreeingStates /\ Contents' = Contents
    BY DEF AgreeingStates, Agrees, XmpRow, Contents
  <1> QED BY <1>1 DEF IInv

LEMMA StaysInFile ==
  ASSUME NEW x \in AgreeingStates, NEW packet, NEW lead
  PROVE  Taken(x, packet, lead).file = x.file
  BY DEF Taken, ParseXMPBlock, AgreeingStates, States

\* What was begun, in a file.
LEMMA BegunIn ==
  ASSUME NEW x \in AgreeingStates, NEW mode \in Mode, NEW f \in File, NEW built \in BOOLEAN
  PROVE  LET y == [Initialized(x, mode) EXCEPT !.built = built, !.file = f]
         IN  y \in AgreeingStates /\ y.file = f /\ y.node \in Texts /\ y.root = y.node
  <1> DEFINE s == Initialized(x, mode)
  <1>1. s \in AgreeingStates /\ s.node = Nothing /\ s.root = Nothing /\ s.node \in Texts
    BY Begun
  <1> HIDE DEF s
  <1> DEFINE y == [s EXCEPT !.built = built, !.file = f]
  <1>2. y.file = f /\ y.node = Nothing /\ y.root = Nothing /\ y \in States
    BY <1>1 DEF AgreeingStates, States
  <1> HIDE DEF y
  <1>3. y \in AgreeingStates
    BY <1>1, <1>2 DEF AgreeingStates, Agrees
  <1>4. y \in AgreeingStates /\ y.file = f /\ y.node \in Texts /\ y.root = y.node
    BY <1>1, <1>2, <1>3
  <1> QED BY <1>4 DEF y, s

LEMMA XmpOpenKeeps ==
  ASSUME IInv, format = "xmp", XmpOpen, UNCHANGED exif
  PROVE  IInv'
  <1>1. PICK f \in File : \E mode \in Asked(f) :
          /\ IF mode = "create"
             THEN /\ disk' = [XmpDisk(disk, xmp) EXCEPT ![f] = XmpFile(0, Absent, 0)]
                  /\ xmp' = [Initialized(xmp, mode) EXCEPT !.built = TRUE, !.file = f]
             ELSE /\ disk' = XmpDisk(disk, xmp)
                  /\ xmp' = IF XmpDisk(disk, xmp)[f] = Absent THEN Initialized(xmp, mode)
                            ELSE Taken([Initialized(xmp, mode) EXCEPT !.file = f],
                                       XmpDisk(disk, xmp)[f].packet, XmpDisk(disk, xmp)[f].lead)
          /\ UNCHANGED <<format, treeVars>>
    BY DEF XmpOpen
  <1>2. PICK mode \in Asked(f) :
          /\ IF mode = "create"
             THEN /\ disk' = [XmpDisk(disk, xmp) EXCEPT ![f] = XmpFile(0, Absent, 0)]
                  /\ xmp' = [Initialized(xmp, mode) EXCEPT !.built = TRUE, !.file = f]
             ELSE /\ disk' = XmpDisk(disk, xmp)
                  /\ xmp' = IF XmpDisk(disk, xmp)[f] = Absent THEN Initialized(xmp, mode)
                            ELSE Taken([Initialized(xmp, mode) EXCEPT !.file = f],
                                       XmpDisk(disk, xmp)[f].packet, XmpDisk(disk, xmp)[f].lead)
          /\ UNCHANGED <<format, treeVars>>
    BY <1>1
  <1> DEFINE d == XmpDisk(disk, xmp)
             start == Initialized(xmp, mode)
  <1>3. xmp \in AgreeingStates
    BY DEF IInv
  <1>4. mode \in Mode
    BY DEF Asked, Mode
  <1>5. d \in [File -> XmpFiles \cup {Absent}]
    BY SavedTypes DEF IInv, Contents
  <1>6. /\ start \in AgreeingStates /\ start.file = Absent /\ start.built = FALSE
        /\ start \in [mOpenMode : Mode, file : File \cup {Absent}, mStartPosition : Int,
                      node : Texts \cup {Absent}, built : BOOLEAN, root : Texts \cup {Absent},
                      block : Blocks]
    <2>1. start \in AgreeingStates
      BY <1>4, Begun DEF IInv
    <2>2. xmp \in States
      BY DEF IInv, AgreeingStates
    <2>3. start.file = Absent /\ start.built = FALSE
      BY <2>2 DEF Initialized, XmpClosed, States
    <2> QED BY <2>1, <2>3 DEF AgreeingStates, States
  <1>7. xmp' \in AgreeingStates /\ disk' \in [File -> XmpFiles \cup {Absent}]
        /\ (xmp'.file # Absent => disk'[xmp'.file] # Absent)
    <2>1. CASE mode = "create"
      <3>1. xmp' \in AgreeingStates /\ xmp'.file = f
        <4>1. [Initialized(xmp, mode) EXCEPT !.built = TRUE, !.file = f] \in AgreeingStates
              /\ [Initialized(xmp, mode) EXCEPT !.built = TRUE, !.file = f].file = f
          BY <1>3, <1>4, BegunIn, ZenonT(30)
        <4> QED BY <1>2, <2>1, <4>1
      <3>2. XmpFile(0, Absent, 0) \in XmpFiles /\ XmpFile(0, Absent, 0) # Absent
        BY EmbeddedXmpAssumption DEF XmpFile, XmpFiles
      <3> HIDE DEF d
      <3>3. disk' = [d EXCEPT ![f] = XmpFile(0, Absent, 0)]
        BY <1>2, <2>1 DEF d
      <3> QED BY <1>5, <3>1, <3>2, <3>3
    <2>2. CASE mode # "create" /\ d[f] = Absent
      BY <1>2, <1>5, <1>6, <2>2
    <2>3. CASE mode # "create" /\ d[f] # Absent
      <3> DEFINE opened == [start EXCEPT !.file = f]
      <3>1. /\ opened \in AgreeingStates /\ opened.file = f
            /\ opened.node \in Texts /\ opened.root = opened.node
        <4> DEFINE y == [Initialized(xmp, mode) EXCEPT !.built = FALSE, !.file = f]
        <4>1. opened = y
          BY <1>6
        <4>2. y \in AgreeingStates /\ y.file = f /\ y.node \in Texts /\ y.root = y.node
          BY <1>3, <1>4, BegunIn, ZenonT(30)
        <4> QED BY <4>1, <4>2
      <3>2. d[f].packet \in Packets \cup {Absent} /\ d[f].lead \in Nat
        BY <1>5, <2>3 DEF XmpFiles
      <3>3. xmp' = Taken(opened, d[f].packet, d[f].lead) /\ disk' = d
        BY <1>2, <2>3
      <3> HIDE DEF opened, d
      <3>4. xmp' \in AgreeingStates /\ xmp'.file = f
        BY <3>1, <3>2, <3>3, TakenAgrees, StaysInFile
      <3> QED BY <1>5, <2>3, <3>3, <3>4
    <2> QED BY <2>1, <2>2, <2>3
  <1>8. md' = md /\ format' = format
    BY <1>2 DEF treeVars
  <1> QED BY <1>7, <1>8, Framed DEF IInv, Contents

LEMMA XmpOpenMemoryKeeps ==
  ASSUME IInv, format = "xmp", XmpOpenMemory, UNCHANGED exif
  PROVE  IInv'
  <1>1. PICK f \in Input, mode \in {"readonly", "readwrite"} :
          /\ disk[f] # Absent
          /\ xmp' = Taken(Initialized(xmp, mode), disk[f].packet, disk[f].lead)
    BY DEF XmpOpenMemory
  <1>2. /\ disk' = XmpDisk(disk, xmp) /\ md' = md /\ format' = format
    BY DEF XmpOpenMemory, XmpCloses, treeVars
  <1> DEFINE start == Initialized(xmp, mode)
  <1>3. start \in AgreeingStates /\ start.node \in Texts /\ start.root = start.node
    BY Begun DEF IInv, Mode
  <1>4. start.file = Absent
    BY DEF Initialized, XmpClosed, IInv, AgreeingStates, States
  <1>5. disk[f].packet \in Packets \cup {Absent} /\ disk[f].lead \in Nat
    BY <1>1, AccessorAssumption DEF IInv, Contents, XmpFiles
  <1> HIDE DEF start
  <1>6. xmp' \in AgreeingStates /\ xmp'.file = Absent
    <2>1. xmp' = Taken(start, disk[f].packet, disk[f].lead)
      BY <1>1 DEF start
    <2> QED BY <1>3, <1>4, <1>5, <2>1, TakenAgrees, StaysInFile
  <1>7. disk' \in [File -> XmpFiles \cup {Absent}]
    BY <1>2, SavedTypes DEF IInv, Contents
  <1> QED BY <1>2, <1>6, <1>7, Framed DEF IInv, Contents

LEMMA XmpCloseKeeps ==
  ASSUME IInv, format = "xmp", XmpClose, UNCHANGED exif
  PROVE  IInv'
  <1>1. /\ disk' = XmpDisk(disk, xmp) /\ xmp' = XmpClosed(xmp) /\ md' = md /\ format' = format
    BY DEF XmpClose, XmpCloses, treeVars
  <1>2. xmp' \in AgreeingStates
    BY <1>1, Closed DEF IInv
  <1>3. xmp'.file = Absent
    BY <1>1 DEF XmpClosed, IInv, AgreeingStates, States
  <1>4. disk' \in [File -> XmpFiles \cup {Absent}]
    BY <1>1, SavedTypes DEF IInv, Contents
  <1> QED BY <1>1, <1>2, <1>3, <1>4, Framed DEF IInv, Contents

LEMMA XmpCloseToMemoryKeeps ==
  ASSUME IInv, format = "xmp", XmpCloseToMemory, UNCHANGED exif
  PROVE  IInv'
  <1> DEFINE b == Flush(xmp).block
             flushed == [xmp EXCEPT !.block = b]
  <1>1. /\ \/ xmp' = flushed
           \/ xmp' = [flushed EXCEPT !.file = Absent, !.node = Absent, !.built = FALSE]
        /\ disk' = disk /\ md' = md /\ format' = format
    BY DEF XmpCloseToMemory, treeVars
  <1>2. b \in Blocks
    BY Flushed DEF IInv
  <1> HIDE DEF b
  <1>3. flushed \in AgreeingStates /\ flushed.file = xmp.file
    BY <1>2, WithBlock DEF IInv, AgreeingStates, States
  <1> HIDE DEF flushed
  <1>4. xmp' \in AgreeingStates /\ (xmp'.file # Absent => xmp'.file = xmp.file)
    BY <1>1, <1>3 DEF AgreeingStates, States, Agrees
  <1> QED BY <1>1, <1>4, Framed DEF IInv

LEMMA XmpAppendKeeps ==
  ASSUME IInv, format = "xmp", XmpAppend, UNCHANGED exif
  PROVE  IInv'
  <1>1. PICK f \in Input :
          xmp' = IF /\ disk[f] # Absent /\ Found(disk[f].packet)
                    /\ disk[f].packet.text # Malformed /\ xmp.node # Absent
                 THEN ParseXMPBlock(xmp, disk[f].packet.text) ELSE xmp
    BY DEF XmpAppend
  <1>2. disk' = disk /\ md' = md /\ format' = format
    BY DEF XmpAppend, treeVars
  <1>3. CASE xmp' = xmp
    BY <1>2, <1>3, Framed DEF IInv
  <1>4. CASE xmp' # xmp
    <2>1. /\ xmp.node # Absent /\ disk[f] # Absent /\ Found(disk[f].packet)
          /\ disk[f].packet.text # Malformed
          /\ xmp' = ParseXMPBlock(xmp, disk[f].packet.text)
      BY <1>1, <1>4
    <2>2. disk[f].packet.text \in Texts
      BY <2>1, AccessorAssumption DEF IInv, Contents, XmpFiles, Packets, Found
    <2>3. /\ xmp.node \in Texts /\ xmp.root \in Texts
          /\ \A l \in Leaf : XmpRow[l] = "simple" /\ xmp.root[l] # Unset => xmp.node[l] = xmp.root[l]
      BY <2>1 DEF IInv, AgreeingStates, Agrees
    <2>4. xmp' \in AgreeingStates
      BY <2>1, <2>2, <2>3, Parsed DEF IInv
    <2>5. xmp'.file = xmp.file
      BY <2>1 DEF ParseXMPBlock, IInv, AgreeingStates, States
    <2> QED BY <1>2, <2>4, <2>5, Framed DEF IInv
  <1> QED BY <1>3, <1>4

LEMMA XmpReadKeeps ==
  ASSUME IInv, XmpRead \/ XmpReadRoot, UNCHANGED exif
  PROVE  IInv'
  <1>1. xmp \in States
    BY DEF IInv, AgreeingStates
  <1>2. disk' = disk /\ xmp' = xmp
    BY DEF XmpRead, XmpReadRoot
  <1>3. /\ XmpReads(xmp) \in SUBSET Leaf
        /\ \A l \in XmpReads(xmp) : XmpValue(xmp)[l] \in Values
    BY <1>1, XmpValues
  <1>4. \/ \E s \in Scope : readMetadata(s, XmpReads(xmp), XmpValue(xmp))
        \/ readMetadataRoot(XmpReads(xmp), XmpValue(xmp))
    BY DEF XmpRead, XmpReadRoot
  <1>5. md' \in [Leaf -> Values] /\ format' = format
    BY <1>3, <1>4, ReadTypes DEF IInv
  <1> QED BY <1>2, <1>5, Framed DEF IInv

LEMMA XmpWriteKeeps ==
  ASSUME IInv, XmpWrite, UNCHANGED exif
  PROVE  IInv'
  <1>1. PICK s \in Scope, valid \in BOOLEAN :
          /\ xmp' = Written(s, valid, xmp, XmpSet, XmpNoThrow).state
          /\ WriteOutcome(Written(s, valid, xmp, XmpSet, XmpNoThrow))
    BY DEF XmpWrite
  <1>2. md' = md /\ format' = format /\ disk' = disk
    BY <1>1 DEF XmpWrite, WriteOutcome
  <1>3. xmp \in WritableStates(xmp.file)
    BY DEF XmpWrite, WritableStates, IInv
  <1>4. xmp' \in WritableStates(xmp.file)
    BY <1>1, <1>3, WrittenAgrees DEF IInv
  <1> QED BY <1>2, <1>4, Framed DEF IInv, WritableStates

LEMMA XmpRemoveKeeps ==
  ASSUME IInv, XmpRemove, UNCHANGED exif
  PROVE  IInv'
  <1>1. PICK s \in Scope :
          /\ xmp' = Removed(s, xmp, XmpErase, XmpNoThrow).state
          /\ RemoveOutcome(Removed(s, xmp, XmpErase, XmpNoThrow))
    BY DEF XmpRemove
  <1>2. md' = md /\ format' = format /\ disk' = disk
    BY <1>1 DEF XmpRemove, RemoveOutcome
  <1>3. xmp \in BuiltStates(xmp.file)
    BY DEF XmpRemove, BuiltStates, IInv
  <1>4. xmp' \in BuiltStates(xmp.file)
    BY <1>1, <1>3, RemovedAgrees
  <1> QED BY <1>2, <1>4, Framed DEF IInv, BuiltStates

LEMMA XmpStepKeeps ==
  ASSUME IInv, format = "xmp", XmpNext, UNCHANGED exif
  PROVE  IInv'
  BY XmpOpenKeeps, XmpOpenMemoryKeeps, XmpCloseKeeps, XmpCloseToMemoryKeeps, XmpAppendKeeps,
     XmpReadKeeps, XmpWriteKeeps, XmpRemoveKeeps DEF XmpNext

LEMMA ApplicationKeeps ==
  ASSUME IInv, SetValue \/ NewTree, UNCHANGED <<xmp, exif>>
  PROVE  IInv'
  <1>1. md' \in [Leaf -> Values] /\ disk' = disk /\ format' = format
    BY DEF SetValue, NewTree, IInv, Values
  <1> QED BY <1>1, Framed DEF IInv

-----------------------------------------------------------------------------
\* The search in the translation table

\* The rest of a number below three times the divisor.
LEMMA Rest ==
  ASSUME NEW n \in Nat \ {0}, NEW x \in Nat, x < 3 * n
  PROVE  x % n = IF x < n THEN x ELSE IF x < 2 * n THEN x - n ELSE x - 2 * n
  <1> DEFINE q == x \div n
             r == x % n
  <1>1. q \in Nat /\ r \in Nat /\ r < n /\ x = n * q + r
    OBVIOUS
  <1> HIDE DEF q, r
  <1>2. CASE q = 0
    BY <1>1, <1>2 DEF r
  <1>3. CASE q = 1
    BY <1>1, <1>3 DEF r
  <1>4. CASE q = 2
    BY <1>1, <1>4 DEF r
  <1>5. CASE q > 2
    <2>1. n * q = 3 * n + n * (q - 3) /\ q - 3 \in Nat
      BY <1>1, <1>5
    <2>2. n * (q - 3) \in Nat
      BY <2>1
    <2> QED BY <1>1, <2>1, <2>2
  <1> QED BY <1>1, <1>2, <1>3, <1>4, <1>5

\* The place k behind a start, round the table, and the way to each row.
LEMMA Round ==
  ASSUME NEW n \in Nat \ {0}, NEW start \in 1 .. n, NEW k \in 0 .. 2 * n
  PROVE  LET at == ((start + k - 1) % n) + 1
         IN  at = IF start + k <= n THEN start + k
                  ELSE IF start + k <= 2 * n THEN start + k - n ELSE start + k - 2 * n
  <1>1. start + k - 1 \in Nat /\ start + k - 1 < 3 * n
    OBVIOUS
  <1> DEFINE x == start + k - 1
  <1>2. x % n = IF x < n THEN x ELSE IF x < 2 * n THEN x - n ELSE x - 2 * n
    <2> HIDE DEF x
    <2> QED BY <1>1, Rest DEF x
  <1> QED BY <1>2

LEMMA RowTypes ==
  ASSUME NEW i \in DOMAIN ExifTable
  PROVE  ExifTable[i].tag \in ExifTag /\ ExifTable[i].leaf \in Leaf \cup {Absent}
  <1> DEFINE Row == [tag : ExifTag, leaf : Leaf \cup {Absent}]
  <1>1. ExifTable \in Seq(Row)
    BY ExifAssumption
  <1> HIDE DEF Row
  <1>2. ExifTable[i] \in Row
    BY <1>1
  <1> QED BY <1>2 DEF Row

RowsOf(tag) == {i \in DOMAIN ExifTable : ExifTable[i].tag = tag}

\* From the first row of a tag an entry is searched the whole table for, and all the rows of
\* its tag are found together; the search ends at the first row of another tag.
LEMMA EntryRows ==
  ASSUME NEW tag \in ExifTag, NEW start, AtEdge(start)
  PROVE  /\ processEntry(start, tag).rows = RowsOf(tag)
         /\ AtEdge(processEntry(start, tag).at)
  <1> DEFINE n == Len(ExifTable)
             T(i) == ExifTable[i].tag
             At(k) == ((start + k - 1) % n) + 1
             hits == {k \in 0 .. n - 1 : T(At(k)) = tag}
             first == CHOOSE k \in hits : \A j \in hits : k <= j
             IsEnd(k) == T(At(k)) # tag /\ \A j \in first .. k - 1 : T(At(j)) = tag
             end == CHOOSE k \in first + 1 .. first + n : IsEnd(k)
  <1>1. n \in Nat \ {0} /\ start \in 1 .. n /\ DOMAIN ExifTable = 1 .. n
    BY ExifAssumption DEF AtEdge
  <1>2. ASSUME NEW k \in 0 .. 2 * n
        PROVE  At(k) = IF start + k <= n THEN start + k
                       ELSE IF start + k <= 2 * n THEN start + k - n ELSE start + k - 2 * n
    <2> HIDE DEF n
    <2> QED BY <1>1, Round
  <1>3. processEntry(start, tag) =
          IF hits = {} THEN [rows |-> {}, at |-> start]
          ELSE [rows |-> {At(j) : j \in first .. end - 1}, at |-> At(end)]
    BY DEF processEntry
  <1>4. /\ \A i, j, k \in 1 .. n : i <= k /\ k <= j /\ T(i) = tag /\ T(j) = tag => T(k) = tag
        /\ \E i \in 1 .. n : T(i) # tag
    <2>1. ASSUME NEW i \in 1 .. n, NEW j \in 1 .. n, NEW k \in i .. j, i < j, T(i) = tag, T(j) = tag
          PROVE  T(k) = tag
      <3>1. ExifTable[i].tag = ExifTable[j].tag => \A m \in i .. j : ExifTable[m].tag = ExifTable[i].tag
        BY <1>1, <2>1, ExifAssumption
      <3> QED BY <2>1, <3>1
    <2>2. \A i, j, k \in 1 .. n : i <= k /\ k <= j /\ ~ (i < j) => k = i
      BY <1>1
    <2>3. \E i \in 1 .. n : T(i) # tag
      BY <1>1, ExifAssumption
    <2> QED BY <2>1, <2>2, <2>3
  <1>5. start = 1 \/ T(start - 1) # T(start)
    BY DEF AtEdge
  <1> HIDE DEF n, T, At
  <1>6. CASE hits = {}
    <2>1. ASSUME NEW i \in 1 .. n, T(i) = tag
          PROVE  FALSE
      <3> DEFINE k == IF i >= start THEN i - start ELSE i - start + n
      <3>1. k \in 0 .. n - 1 /\ At(k) = i
        BY <1>1, <1>2
      <3>2. k \in hits
        BY <2>1, <3>1
      <3> QED BY <1>6, <3>2
    <2>2. RowsOf(tag) = {}
      BY <1>1, <2>1 DEF RowsOf, T
    <2> QED BY <1>3, <1>6, <2>2
  <1>7. CASE hits # {}
    <2>1. /\ first \in 0 .. n - 1 /\ T(At(first)) = tag
          /\ \A k \in 0 .. n - 1 : T(At(k)) = tag => first <= k
      <3>1. hits \in SUBSET Nat
        BY <1>1
      <3>2. \E k \in hits : \A j \in hits : k <= j
        <4> HIDE DEF hits
        <4> QED BY <1>7, <3>1, LeastMember
      <3>3. first \in hits /\ \A j \in hits : first <= j
        BY <3>2
      <3> HIDE DEF first
      <3> QED BY <1>1, <3>3
    <2> HIDE DEF first, hits
    <2> DEFINE r == At(first)
    <2>2. r \in 1 .. n /\ r = IF start + first <= n THEN start + first ELSE start + first - n
      BY <1>1, <1>2, <2>1
    <2>3. r = 1 \/ T(r - 1) # tag
      <3>1. CASE first = 0
        BY <1>1, <1>5, <2>1, <2>2, <3>1
      <3>2. CASE first # 0 /\ r # 1
        <4>1. first - 1 \in 0 .. n - 1 /\ first - 1 \in 0 .. 2 * n /\ ~ (first <= first - 1)
          BY <1>1, <2>1, <3>2
        <4>2. At(first - 1) = r - 1
          BY <1>1, <1>2, <2>1, <2>2, <3>2, <4>1
        <4> QED BY <2>1, <4>1, <4>2
      <3> QED BY <3>1, <3>2
    <2>4. ASSUME NEW i \in 1 .. n, T(i) = tag
          PROVE  r <= i
      <3> SUFFICES ASSUME i < r PROVE FALSE
        BY <1>1, <2>2
      <3>1. r - 1 \in 1 .. n /\ i <= r - 1 /\ r - 1 <= r /\ r # 1
        BY <1>1, <2>2
      <3>2. T(r - 1) = tag
        BY <1>4, <2>1, <2>2, <2>4, <3>1
      <3> QED BY <2>3, <3>1, <3>2
    <2>5. end \in first + 1 .. first + n /\ IsEnd(end)
      <3> DEFINE other == {k \in first + 1 .. first + n : T(At(k)) # tag}
      <3>1. PICK i \in 1 .. n : T(i) # tag
        BY <1>4
      <3>2. other # {}
        <4> DEFINE k == IF i > r THEN first + i - r ELSE first + i - r + n
        <4>1. i # r
          BY <2>1, <3>1
        <4>2. k \in first + 1 .. first + n /\ k \in 0 .. 2 * n
          BY <1>1, <2>1, <2>2, <4>1
        <4>3. At(k) = i
          <5>1. At(k) = IF start + k <= n THEN start + k
                       ELSE IF start + k <= 2 * n THEN start + k - n ELSE start + k - 2 * n
            <6> HIDE DEF k
            <6> QED BY <1>2, <4>2
          <5> HIDE DEF r
          <5> QED BY <1>1, <2>1, <2>2, <4>1, <4>2, <5>1
        <4> QED BY <3>1, <4>2, <4>3
      <3>3. other \in SUBSET Nat
        BY <1>1, <2>1
      <3>4. PICK k \in other : \A j \in other : k <= j
        <4> HIDE DEF other
        <4> QED BY <3>2, <3>3, LeastMember
      <3>5. k \in first + 1 .. first + n /\ T(At(k)) # tag
        BY <3>4
      <3>6. ASSUME NEW j \in first .. k - 1
            PROVE  T(At(j)) = tag
        <4>1. CASE j = first
          BY <2>1, <4>1
        <4>2. CASE j # first
          <5>1. j \in first + 1 .. first + n /\ ~ (k <= j)
            BY <1>1, <2>1, <3>5, <3>6, <4>2
          <5> QED BY <3>4, <5>1
        <4> QED BY <4>1, <4>2
      <3>7. IsEnd(k)
        BY <3>5, <3>6
      <3> HIDE DEF IsEnd
      <3> QED BY <3>5, <3>7
    <2> HIDE DEF end
    <2>6. end \in 0 .. 2 * n
      BY <1>1, <2>1, <2>5
    <2>7. {At(j) : j \in first .. end - 1} = RowsOf(tag)
      <3>1. ASSUME NEW j \in first .. end - 1
            PROVE  At(j) \in RowsOf(tag)
        <4>1. j \in 0 .. 2 * n
          BY <1>1, <2>1, <2>5
        <4>2. At(j) \in 1 .. n
          BY <1>1, <1>2, <4>1
        <4> QED BY <1>1, <2>5, <3>1, <4>2 DEF RowsOf, T
      <3>2. ASSUME NEW i \in RowsOf(tag)
            PROVE  \E j \in first .. end - 1 : i = At(j)
        <4> DEFINE j == first + (i - r)
        <4>1. i \in 1 .. n /\ T(i) = tag
          BY <1>1 DEF RowsOf, T
        <4>2. r <= i
          BY <2>4, <4>1
        <4>3. j \in 0 .. 2 * n /\ j >= first /\ j \in Nat
          BY <1>1, <2>1, <2>2, <4>1, <4>2
        <4>4. At(j) = i
          <5>1. At(j) = IF start + j <= n THEN start + j
                        ELSE IF start + j <= 2 * n THEN start + j - n ELSE start + j - 2 * n
            <6> HIDE DEF j
            <6> QED BY <1>2, <4>3
          <5> HIDE DEF r
          <5> QED BY <1>1, <2>1, <2>2, <4>1, <4>2, <5>1
        <4>5. j < end
          <5> SUFFICES ASSUME end <= j PROVE FALSE
            BY <2>6, <4>3
          <5> DEFINE e == r + (end - first)
          <5>1. e \in 1 .. n /\ r <= e /\ e <= i
            BY <1>1, <2>1, <2>2, <2>5, <4>1, <4>2
          <5>2. T(e) = tag
            <6> HIDE DEF e
            <6> QED BY <1>4, <2>1, <2>2, <4>1, <5>1
          <5>3. At(end) = e
            <6>1. At(end) = IF start + end <= n THEN start + end
                            ELSE IF start + end <= 2 * n THEN start + end - n ELSE start + end - 2 * n
              BY <1>2, <2>6
            <6> HIDE DEF r
            <6> QED BY <1>1, <2>1, <2>2, <2>6, <5>1, <6>1
          <5> QED BY <2>5, <5>2, <5>3
        <4>6. j \in first .. end - 1
          BY <2>1, <2>6, <4>3, <4>5
        <4> QED BY <4>4, <4>6
      <3> QED BY <3>1, <3>2
    <2>8. AtEdge(At(end))
      <3> DEFINE e == At(end)
      <3>1. e \in 1 .. n /\ e = IF start + end <= n THEN start + end
                       ELSE IF start + end <= 2 * n THEN start + end - n ELSE start + end - 2 * n
        BY <1>1, <1>2, <2>6
      <3>2. T(e) # tag
        BY <2>5
      <3>3. CASE e # 1
        <4>1. end - 1 \in first .. end - 1 /\ end - 1 \in 0 .. 2 * n
          BY <1>1, <2>1, <2>5
        <4>2. At(end - 1) = e - 1
          <5>1. At(end - 1) = IF start + (end - 1) <= n THEN start + (end - 1)
                  ELSE IF start + (end - 1) <= 2 * n THEN start + (end - 1) - n
                  ELSE start + (end - 1) - 2 * n
            BY <1>2, <4>1
          <5> HIDE DEF e
          <5> QED BY <1>1, <2>6, <3>1, <3>3, <4>1, <5>1
        <4>3. T(e - 1) = tag
          BY <2>5, <4>1, <4>2
        <4> QED BY <1>1, <3>1, <3>2, <4>3 DEF AtEdge, T
      <3>4. CASE e = 1
        BY <1>1, <3>1, <3>4 DEF AtEdge
      <3> QED BY <3>3, <3>4
    <2> HIDE DEF r
    <2> QED BY <1>3, <1>7, <2>7, <2>8
  <1> QED BY <1>6, <1>7

\* The rows found for the entries of a file are those of their tags, wherever the search begins.
LEMMA EntriesRows ==
  ASSUME NEW start \in Positions, NEW tags \in [ExifTag -> Values]
  PROVE  LET p == processEntries(start, tags)
         IN  /\ p.rows = {r \in DOMAIN ExifTable : tags[ExifTable[r].tag] # Absent}
             /\ p.at \in Positions
  <1> DEFINE c == [rows |-> {}, at |-> start]
             Turn(w, i) == IF tags[ExifTags[i]] = Absent THEN w
                           ELSE [rows |-> w.rows \cup processEntry(w.at, ExifTags[i]).rows,
                                 at |-> processEntry(w.at, ExifTags[i]).at]
             S == [rows : SUBSET DOMAIN ExifTable, at : Positions]
             turn == [i \in 1 .. Len(ExifTags) |-> [w \in S |-> Turn(w, i)]]
             W == CHOOSE W : W = [i \in 0 .. Len(ExifTags) |-> IF i = 0 THEN c ELSE Turn(W[i - 1], i)]
  <1>1. ExifTags \in Seq(ExifTag) /\ Len(ExifTags) \in Nat
    BY ExifAssumption
  <1>2. processEntries(start, tags) = W[Len(ExifTags)]
    BY DEF processEntries
  <1>3. ASSUME NEW i \in 1 .. Len(ExifTags), NEW w \in S
        PROVE  /\ Turn(w, i).rows = IF tags[ExifTags[i]] = Absent THEN w.rows
                                     ELSE w.rows \cup RowsOf(ExifTags[i])
               /\ Turn(w, i) \in S
    <2>1. /\ Turn(w, i).rows = IF tags[ExifTags[i]] = Absent THEN w.rows
                                ELSE w.rows \cup RowsOf(ExifTags[i])
          /\ Turn(w, i).at \in Positions
          /\ Turn(w, i) \in S
      <3>1. ExifTags[i] \in ExifTag /\ w.at \in Nat /\ AtEdge(w.at)
        BY <1>1 DEF Positions
      <3>2. /\ processEntry(w.at, ExifTags[i]).rows = RowsOf(ExifTags[i])
            /\ AtEdge(processEntry(w.at, ExifTags[i]).at)
        BY <3>1, EntryRows
      <3>3. processEntry(w.at, ExifTags[i]).at \in Positions
        <4>1. DOMAIN ExifTable \subseteq Nat
          BY ExifAssumption
        <4> QED BY <3>2, <4>1 DEF Positions, AtEdge
      <3> QED BY <3>2, <3>3 DEF RowsOf
    <2> QED BY <2>1
  <1>4. c \in S
    OBVIOUS
  <1> HIDE DEF S, c, Turn
  <1>5. turn \in [1 .. Len(ExifTags) -> [S -> S]]
    BY <1>3
  <1>6. \E f : IsRun(f, S, Len(ExifTags), c, turn)
    <2> HIDE DEF turn
    <2> QED BY <1>1, <1>4, <1>5, RunExists, Zenon
  <1>7. PICK f : f \in [0 .. Len(ExifTags) -> S] /\ f[0] = c /\ \A i \in 1 .. Len(ExifTags) : f[i] = turn[i][f[i - 1]]
    BY <1>6 DEF IsRun
  <1>8. ASSUME NEW i \in 1 .. Len(ExifTags)
        PROVE  f[i] = Turn(f[i - 1], i)
    <2>1. f[i - 1] \in S
      BY <1>1, <1>7
    <2> QED BY <1>7, <2>1
  <1>9. f = [i \in 0 .. Len(ExifTags) |-> IF i = 0 THEN c ELSE Turn(f[i - 1], i)]
    <2> HIDE DEF turn
    <2> QED BY <1>1, <1>7, <1>8
  <1>10. W = [i \in 0 .. Len(ExifTags) |-> IF i = 0 THEN c ELSE Turn(W[i - 1], i)]
    BY <1>9
  <1> HIDE DEF W
  <1>11. W[0] \in S
    BY <1>1, <1>4, <1>10
  <1>12. \A i \in 1 .. Len(ExifTags) : W[i - 1] \in S => W[i] = turn[i][W[i - 1]]
    BY <1>1, <1>10
  <1>13. \A i \in 0 .. Len(ExifTags) : W[i] \in S
    <2> HIDE DEF turn
    <2> QED BY <1>1, <1>5, <1>11, <1>12, RunStays, Zenon
  <1> DEFINE Some(i) == {r \in DOMAIN ExifTable :
                           \E j \in 1 .. i : ExifTags[j] = ExifTable[r].tag /\ tags[ExifTags[j]] # Absent}
             P == {i \in Nat : i <= Len(ExifTags) => W[i].rows = Some(i)}
  <1>14. 0 \in P
    <2>1. W[0].rows = {}
      BY <1>1, <1>10 DEF c
    <2> QED BY <2>1
  <1>15. ASSUME NEW i \in Nat, i \in P
         PROVE  i + 1 \in P
    <2> SUFFICES ASSUME i + 1 <= Len(ExifTags) PROVE W[i + 1].rows = Some(i + 1)
      OBVIOUS
    <2>1. i + 1 \in 1 .. Len(ExifTags) /\ (i + 1) - 1 = i /\ W[i].rows = Some(i) /\ W[i] \in S
      BY <1>1, <1>13, <1>15
    <2>2. W[i + 1] = Turn(W[i], i + 1)
      BY <1>10, <2>1
    <2>3. Turn(W[i], i + 1).rows = IF tags[ExifTags[i + 1]] = Absent THEN W[i].rows
                                   ELSE W[i].rows \cup RowsOf(ExifTags[i + 1])
      BY <1>3, <2>1
    <2>4. \A j \in 1 .. i + 1 : j \in 1 .. i \/ j = i + 1
      OBVIOUS
    <2> QED BY <2>1, <2>2, <2>3, <2>4 DEF RowsOf
  <1>16. Len(ExifTags) \in P
    <2> HIDE DEF P
    <2> QED BY <1>1, <1>14, <1>15, SetInduction
  <1>17. W[Len(ExifTags)].rows = {r \in DOMAIN ExifTable : tags[ExifTable[r].tag] # Absent}
    <2>1. \A r \in DOMAIN ExifTable : ExifTable[r].tag \in ExifTag
      BY RowTypes
    <2>2. \A t \in ExifTag : \E j \in 1 .. Len(ExifTags) : ExifTags[j] = t
      BY ExifAssumption DEF ToSet
    <2>3. W[Len(ExifTags)].rows = Some(Len(ExifTags))
      BY <1>1, <1>16
    <2> QED BY <2>1, <2>2, <2>3
  <1>18. W[Len(ExifTags)].at \in Positions
    BY <1>1, <1>13 DEF S
  <1> QED BY <1>2, <1>17, <1>18

-----------------------------------------------------------------------------
\* The steps of the Exif accessor

\* Reading the XMP segments of a file one after the other.
LEMMA DocsAgree ==
  ASSUME IInv, format = "exif"
  PROVE  getXMPDocs.x \in AgreeingStates /\ getXMPDocs.length \in Nat
  <1> DEFINE segs == exif.content.segs
             c == [x |-> xmp, length |-> exif.mnXMPLength]
             Opened(g, i) == Taken(Initialized(g.x, exif.openMode), segs[i], 0)
             Turn(w, i) == IF w.length = 0
                           THEN [x |-> Opened(w, i),
                                 length |-> IF Opened(w, i).built THEN Len(Opened(w, i).block.cells) ELSE 0]
                           ELSE IF (Found(segs[i]) /\ segs[i].text # Malformed) /\ w.x.node # Absent
                           THEN [w EXCEPT !.x = ParseXMPBlock(w.x, segs[i].text)]
                           ELSE w
             S == [x : AgreeingStates, length : Nat]
             turn == [i \in 1 .. Len(segs) |-> [w \in S |-> Turn(w, i)]]
             W == CHOOSE W : W = [i \in 0 .. Len(segs) |-> IF i = 0 THEN c ELSE Turn(W[i - 1], i)]
  <1>1. segs \in Seq(Packets) /\ Len(segs) \in Nat /\ exif.openMode \in Mode
    BY DEF IInv, ExifStates, ExifFiles
  <1>2. getXMPDocs = W[Len(segs)]
    BY DEF getXMPDocs
  <1> HIDE DEF segs
  <1>3. ASSUME NEW i \in 1 .. Len(segs), NEW w \in S
        PROVE  Turn(w, i) \in S
    <2>1. segs[i] \in Packets
      BY <1>1
    <2>2. CASE w.length = 0
      <3>1. /\ Initialized(w.x, exif.openMode) \in AgreeingStates
            /\ Initialized(w.x, exif.openMode).node \in Texts
            /\ Initialized(w.x, exif.openMode).root = Initialized(w.x, exif.openMode).node
        BY <1>1, Begun
      <3>2. Opened(w, i) \in AgreeingStates
        BY <2>1, <3>1, TakenAgrees
      <3> HIDE DEF Opened
      <3>3. Len(Opened(w, i).block.cells) \in Nat
        BY <3>2 DEF AgreeingStates, States, Blocks
      <3> QED BY <2>2, <3>2, <3>3
    <2>3. CASE w.length # 0 /\ Found(segs[i]) /\ segs[i].text # Malformed /\ w.x.node # Absent
      <3>1. segs[i].text \in Texts
        BY <2>1, <2>3 DEF Packets
      <3>2. /\ w.x.node \in Texts /\ w.x.root \in Texts
            /\ \A l \in Leaf : XmpRow[l] = "simple" /\ w.x.root[l] # Unset => w.x.node[l] = w.x.root[l]
        BY <2>3 DEF AgreeingStates, Agrees
      <3>3. ParseXMPBlock(w.x, segs[i].text) \in AgreeingStates
        BY <3>1, <3>2, Parsed
      <3> QED BY <2>3, <3>3
    <2>4. CASE w.length # 0 /\ ~(Found(segs[i]) /\ segs[i].text # Malformed /\ w.x.node # Absent)
      BY <2>4
    <2> QED BY <2>2, <2>3, <2>4
  <1>4. c \in S
    BY DEF IInv, ExifStates
  <1> HIDE DEF S, c, Turn
  <1>5. turn \in [1 .. Len(segs) -> [S -> S]]
    BY <1>3
  <1>6. \E f : IsRun(f, S, Len(segs), c, turn)
    <2> HIDE DEF turn
    <2> QED BY <1>1, <1>4, <1>5, RunExists, Zenon
  <1>7. PICK f : f \in [0 .. Len(segs) -> S] /\ f[0] = c /\ \A i \in 1 .. Len(segs) : f[i] = turn[i][f[i - 1]]
    BY <1>6 DEF IsRun
  <1>8. ASSUME NEW i \in 1 .. Len(segs)
        PROVE  f[i] = Turn(f[i - 1], i)
    <2>1. f[i - 1] \in S
      BY <1>1, <1>7
    <2> QED BY <1>7, <2>1
  <1>9. f = [i \in 0 .. Len(segs) |-> IF i = 0 THEN c ELSE Turn(f[i - 1], i)]
    <2> HIDE DEF turn
    <2> QED BY <1>1, <1>7, <1>8
  <1>10. W = [i \in 0 .. Len(segs) |-> IF i = 0 THEN c ELSE Turn(W[i - 1], i)]
    BY <1>9
  <1> HIDE DEF W
  <1>11. W[0] \in S
    BY <1>1, <1>4, <1>10
  <1>12. \A i \in 1 .. Len(segs) : W[i - 1] \in S => W[i] = turn[i][W[i - 1]]
    BY <1>1, <1>10
  <1>13. \A i \in 0 .. Len(segs) : W[i] \in S
    <2> HIDE DEF turn
    <2> QED BY <1>1, <1>5, <1>11, <1>12, RunStays, Zenon
  <1>14. W[Len(segs)] \in S
    BY <1>1, <1>13
  <1> QED BY <1>2, <1>14 DEF S

LEMMA ExifSetAgrees ==
  ASSUME md \in [Leaf -> Values], NEW file,
         NEW state \in [x : WritableStates(file), content : ExifFiles], NEW l \in Leaf
  PROVE  ExifSet(state, l) \in [x : WritableStates(file), content : ExifFiles]
  <1>1. XmpSet(state.x, l) \in WritableStates(file)
    BY SetAgrees
  <1>2. md[l] \in Value \cup {Unset, Absent}
    BY DEF Values
  <1>3. /\ [state.content EXCEPT !.q[QOfLeaf[QRow[l]]] = md[l]] \in ExifFiles
        /\ [state.content EXCEPT !.tags[TagOf(l)] = md[l]] \in ExifFiles
    BY <1>2 DEF ExifFiles
  <1> QED BY <1>1, <1>3 DEF ExifSet

LEMMA ExifEraseAgrees ==
  ASSUME NEW file, NEW state \in [x : BuiltStates(file), content : ExifFiles], NEW l \in Leaf
  PROVE  ExifErase(state, l) \in [x : BuiltStates(file), content : ExifFiles]
  <1>1. XmpErase(state.x, l) \in BuiltStates(file)
    BY EraseAgrees
  <1>2. [state.content EXCEPT !.tags[TagOf(l)] = Absent] \in ExifFiles
    BY DEF ExifFiles
  <1> QED BY <1>1, <1>2 DEF ExifErase

\* Writing a subtree to both, leaf by leaf.
LEMMA ExifWrittenAgrees ==
  ASSUME md \in [Leaf -> Values], xmp \in WritableStates(xmp.file), exif.content \in ExifFiles,
         NEW s \in Scope, NEW valid \in BOOLEAN
  PROVE  Written(s, valid, [x |-> xmp, content |-> exif.content], ExifSet, ExifNoThrow).state
           \in [x : WritableStates(xmp.file), content : ExifFiles]
  <1> DEFINE g == IF valid THEN Leaves ELSE s
             Both == [x : WritableStates(xmp.file), content : ExifFiles]
             c == [state |-> [x |-> xmp, content |-> exif.content], thrown |-> 0]
             Turn(w, i) == IF md[g[i]] = Absent \/ (throwErrors /\ w.thrown > 0) THEN w
                           ELSE [w EXCEPT !.state = ExifSet(w.state, g[i])]
             S == [state : Both, thrown : Nat]
             turn == [i \in 1 .. Len(g) |-> [w \in S |-> Turn(w, i)]]
             W == CHOOSE W : W = [i \in 0 .. Len(g) |-> IF i = 0 THEN c ELSE Turn(W[i - 1], i)]
  <1>1. g \in Seq(Leaf) /\ Len(g) \in Nat
    BY ScopeOfLeaves
  <1>2. Written(s, valid, [x |-> xmp, content |-> exif.content], ExifSet, ExifNoThrow) = W[Len(g)]
    BY DEF Written, ExifNoThrow
  <1> HIDE DEF g
  <1>3. ASSUME NEW i \in 1 .. Len(g), NEW w \in S
        PROVE  Turn(w, i) \in S
    <2>1. g[i] \in Leaf
      BY <1>1
    <2>2. ExifSet(w.state, g[i]) \in Both
      BY <2>1, ExifSetAgrees
    <2> HIDE DEF Both
    <2> QED BY <2>2
  <1>4. c \in S
    OBVIOUS
  <1> HIDE DEF S, c, Turn
  <1>5. turn \in [1 .. Len(g) -> [S -> S]]
    BY <1>3
  <1>6. \E f : IsRun(f, S, Len(g), c, turn)
    <2> HIDE DEF turn
    <2> QED BY <1>1, <1>4, <1>5, RunExists, Zenon
  <1>7. PICK f : f \in [0 .. Len(g) -> S] /\ f[0] = c /\ \A i \in 1 .. Len(g) : f[i] = turn[i][f[i - 1]]
    BY <1>6 DEF IsRun
  <1>8. ASSUME NEW i \in 1 .. Len(g)
        PROVE  f[i] = Turn(f[i - 1], i)
    <2>1. f[i - 1] \in S
      BY <1>1, <1>7
    <2> QED BY <1>7, <2>1
  <1>9. f = [i \in 0 .. Len(g) |-> IF i = 0 THEN c ELSE Turn(f[i - 1], i)]
    <2> HIDE DEF turn
    <2> QED BY <1>1, <1>7, <1>8
  <1>10. W = [i \in 0 .. Len(g) |-> IF i = 0 THEN c ELSE Turn(W[i - 1], i)]
    BY <1>9
  <1> HIDE DEF W
  <1>11. W[0] \in S
    BY <1>1, <1>4, <1>10
  <1>12. \A i \in 1 .. Len(g) : W[i - 1] \in S => W[i] = turn[i][W[i - 1]]
    BY <1>1, <1>10, SMTT(30)
  <1>13. \A i \in 0 .. Len(g) : W[i] \in S
    <2> HIDE DEF turn
    <2> QED BY <1>1, <1>5, <1>11, <1>12, RunStays, Zenon
  <1>14. W[Len(g)] \in S
    BY <1>1, <1>13
  <1> QED BY <1>2, <1>14 DEF S

\* Removing a subtree from both, leaf by leaf.
LEMMA ExifRemovedAgrees ==
  ASSUME xmp \in BuiltStates(xmp.file), exif.content \in ExifFiles, NEW s \in Scope
  PROVE  Removed(s, [x |-> xmp, content |-> exif.content], ExifErase, ExifEraseThrows).state
           \in [x : BuiltStates(xmp.file), content : ExifFiles]
  <1> DEFINE Both == [x : BuiltStates(xmp.file), content : ExifFiles]
             c == [state |-> [x |-> xmp, content |-> exif.content], thrown |-> FALSE]
             Turn(w, i) == IF md[s[i]] = Absent \/ w.thrown THEN w
                           ELSE [state |-> ExifErase(w.state, s[i]), thrown |-> ExifEraseThrows(w.state, s[i])]
             S == [state : Both, thrown : BOOLEAN]
             turn == [i \in 1 .. Len(s) |-> [w \in S |-> Turn(w, i)]]
             W == CHOOSE W : W = [i \in 0 .. Len(s) |-> IF i = 0 THEN c ELSE Turn(W[i - 1], i)]
  <1>1. s \in Seq(Leaf) /\ Len(s) \in Nat
    BY AccessorAssumption
  <1>2. Removed(s, [x |-> xmp, content |-> exif.content], ExifErase, ExifEraseThrows) = W[Len(s)]
    BY DEF Removed
  <1>3. ASSUME NEW i \in 1 .. Len(s), NEW w \in S
        PROVE  Turn(w, i) \in S
    <2>1. s[i] \in Leaf
      BY <1>1
    <2>2. ExifErase(w.state, s[i]) \in Both
      BY <2>1, ExifEraseAgrees
    <2>3. ExifEraseThrows(w.state, s[i]) \in BOOLEAN
      BY DEF ExifEraseThrows
    <2> HIDE DEF Both
    <2> QED BY <2>2, <2>3
  <1>4. c \in S
    OBVIOUS
  <1> HIDE DEF S, c, Turn
  <1>5. turn \in [1 .. Len(s) -> [S -> S]]
    BY <1>3
  <1>6. \E f : IsRun(f, S, Len(s), c, turn)
    <2> HIDE DEF turn
    <2> QED BY <1>1, <1>4, <1>5, RunExists, Zenon
  <1>7. PICK f : f \in [0 .. Len(s) -> S] /\ f[0] = c /\ \A i \in 1 .. Len(s) : f[i] = turn[i][f[i - 1]]
    BY <1>6 DEF IsRun
  <1>8. ASSUME NEW i \in 1 .. Len(s)
        PROVE  f[i] = Turn(f[i - 1], i)
    <2>1. f[i - 1] \in S
      BY <1>1, <1>7
    <2> QED BY <1>7, <2>1
  <1>9. f = [i \in 0 .. Len(s) |-> IF i = 0 THEN c ELSE Turn(f[i - 1], i)]
    <2> HIDE DEF turn
    <2> QED BY <1>1, <1>7, <1>8
  <1>10. W = [i \in 0 .. Len(s) |-> IF i = 0 THEN c ELSE Turn(W[i - 1], i)]
    BY <1>9
  <1> HIDE DEF W
  <1>11. W[0] \in S
    BY <1>1, <1>4, <1>10
  <1>12. \A i \in 1 .. Len(s) : W[i - 1] \in S => W[i] = turn[i][W[i - 1]]
    BY <1>1, <1>10
  <1>13. \A i \in 0 .. Len(s) : W[i] \in S
    <2> HIDE DEF turn
    <2> QED BY <1>1, <1>5, <1>11, <1>12, RunStays, Zenon
  <1>14. W[Len(s)] \in S
    BY <1>1, <1>13
  <1> QED BY <1>2, <1>14 DEF S

\* What is saved of a content is a file; with a packet, in one segment.
LEMMA SegmentSaved ==
  ASSUME IInv, NEW content \in ExifFiles
  PROVE  /\ SaveXMPValues(content) \in ExifFiles
         /\ Flush(xmp).done /\ content.segs # <<>> /\ exif.mnXMPLength # 0 =>
              /\ Len(SaveXMPValues(content).segs) = 1
              /\ SaveXMPValues(content).segs[1].text = xmp.node
  <1> DEFINE b == Flush(xmp).block
             packet == [charset |-> b.charset, bReadOnly |-> b.bReadOnly, cells |-> b.cells,
                        text |-> b.text, size |-> Bytes(b.charset, TextSize(b.text))]
             segs == IF exif.mnXMPLength = 0 THEN <<>> ELSE <<packet>>
  <1>1. SaveXMPValues(content) = IF ~Flush(xmp).done \/ content.segs = <<>> THEN content
                                 ELSE [content EXCEPT !.segs = segs]
    BY DEF SaveXMPValues
  <1>2. CASE ~Flush(xmp).done \/ content.segs = <<>>
    BY <1>1, <1>2
  <1>3. CASE ~(~Flush(xmp).done \/ content.segs = <<>>)
    <2>1. /\ b \in Blocks /\ b.text = xmp.node /\ xmp.node \in Texts
          /\ Padded(b.cells, b.charset, Bytes(b.charset, TextSize(b.text)))
      BY <1>3, Flushed DEF IInv
    <2>2. packet \in Packets /\ packet.text = xmp.node
      <3>1. Bytes(b.charset, TextSize(b.text)) \in Nat
        BY SizeType
      <3> QED BY <2>1, <3>1 DEF Packets, Blocks
    <2> HIDE DEF packet
    <2>3. segs \in Seq(Packets) /\ (exif.mnXMPLength # 0 => Len(segs) = 1 /\ segs[1].text = xmp.node)
      BY <2>2
    <2> HIDE DEF segs
    <2>4. [content EXCEPT !.segs = segs] \in ExifFiles /\ [content EXCEPT !.segs = segs].segs = segs
      BY <2>3 DEF ExifFiles
    <2> QED BY <1>1, <1>3, <2>3, <2>4
  <1> QED BY <1>2, <1>3

LEMMA ExifDiskTypes ==
  ASSUME IInv, format = "exif"
  PROVE  /\ ExifDisk \in [File -> ExifFiles \cup {Absent}]
         /\ XmpFlushed \in AgreeingStates
         /\ EmptyExif \in ExifFiles
  <1>1. exif.content \in ExifFiles /\ disk \in [File -> ExifFiles \cup {Absent}]
    BY DEF IInv, ExifStates, Contents
  <1>2. SaveXMPValues(exif.content) \in ExifFiles
    BY <1>1, SegmentSaved
  <1>3. XmpFlushed \in AgreeingStates
    BY Flushed, WithBlock DEF XmpFlushed, IInv
  <1>4. EmptyExif \in ExifFiles
    BY DEF EmptyExif, ExifFile, ExifFiles
  <1> QED BY <1>1, <1>2, <1>3, <1>4 DEF ExifDisk

LEMMA ExifOpenKeeps ==
  ASSUME IInv, format = "exif", ExifOpen
  PROVE  IInv'
  <1>1. PICK f \in File : \E mode \in Asked(f) :
          LET d == IF mode = "create" THEN [ExifDisk EXCEPT ![f] = EmptyExif] ELSE ExifDisk
          IN  /\ disk' = d
              /\ exif' = [exif EXCEPT !.openMode = mode,
                            !.name = IF d[f] = Absent THEN Absent ELSE f,
                            !.content = IF d[f] = Absent THEN EmptyExif ELSE d[f]]
    BY DEF ExifOpen
  <1>2. PICK mode \in Asked(f) :
          LET d == IF mode = "create" THEN [ExifDisk EXCEPT ![f] = EmptyExif] ELSE ExifDisk
          IN  /\ disk' = d
              /\ exif' = [exif EXCEPT !.openMode = mode,
                            !.name = IF d[f] = Absent THEN Absent ELSE f,
                            !.content = IF d[f] = Absent THEN EmptyExif ELSE d[f]]
    BY <1>1
  <1>3. mode \in Mode
    BY DEF Asked, Mode
  <1>4. disk' \in [File -> ExifFiles \cup {Absent}]
    BY <1>2, ExifDiskTypes
  <1>5. exif' = [exif EXCEPT !.openMode = mode,
                   !.name = IF disk'[f] = Absent THEN Absent ELSE f,
                   !.content = IF disk'[f] = Absent THEN EmptyExif ELSE disk'[f]]
    BY <1>2
  <1>6. exif' \in ExifStates
    BY <1>3, <1>4, <1>5, ExifDiskTypes DEF IInv, ExifStates
  <1>7. md' = md /\ format' = format /\ xmp' = XmpFlushed
    BY DEF ExifOpen, treeVars
  <1> QED BY <1>4, <1>6, <1>7, ExifDiskTypes, Framed DEF IInv, Contents

LEMMA ExifCloseKeeps ==
  ASSUME IInv, format = "exif", ExifClose
  PROVE  IInv'
  <1>1. /\ disk' = ExifDisk /\ xmp' = XmpFlushed /\ md' = md /\ format' = format
        /\ exif' = [exif EXCEPT !.name = Absent, !.content = EmptyExif]
    BY DEF ExifClose, treeVars
  <1>2. exif' \in ExifStates
    BY <1>1, ExifDiskTypes DEF IInv, ExifStates
  <1> QED BY <1>1, <1>2, ExifDiskTypes, Framed DEF IInv, Contents

\* What a read takes from a file, its quantisation tables and its packets are values.
LEMMA ExifValues ==
  ASSUME IInv
  PROVE  /\ ExifReads \in SUBSET Leaf
         /\ \A l \in ExifReads : ExifValue[l] \in Values
         /\ ExifRootReads \in SUBSET Leaf
         /\ \A l \in ExifRootReads : ExifRootValue(l) \in Values
  <1>1. exif.content \in ExifFiles /\ xmp \in States
    BY DEF IInv, ExifStates, AgreeingStates
  <1>2. /\ \A l \in Leaf : Tagged(l) => TagOf(l) \in ExifTag
        /\ \A i \in DOMAIN ExifTable : ExifTable[i].leaf \in Leaf \cup {Absent}
    <2>1. ASSUME NEW l \in Leaf, Tagged(l)
          PROVE  TagOf(l) \in ExifTag
      <3> DEFINE i == CHOOSE i \in DOMAIN ExifTable : ExifTable[i].leaf = l
      <3>1. i \in DOMAIN ExifTable
        BY <2>1 DEF Tagged
      <3> HIDE DEF i
      <3> QED BY <3>1, RowTypes DEF TagOf, i
    <2> QED BY <2>1, RowTypes
  <1>3. \A l \in Leaf : QRow[l] # "none" =>
          /\ ~Tagged(l)
          /\ QOfRoot[QRow[l]] \in 0 .. 3 /\ QOfLeaf[QRow[l]] \in 0 .. 3
    <2>1. \A l \in Leaf : QRow[l] \in QName \cup {"none"}
      BY ExifAssumption
    <2>2. \A l \in Leaf : QRow[l] # "none" => ~Tagged(l)
      BY ExifAssumption DEF Tagged
    <2> QED BY <2>1, <2>2 DEF QName, QOfRoot, QOfLeaf
  <1>4. /\ \A t \in ExifTag : exif.content.tags[t] \in Values
        /\ \A k \in 0 .. 3 : exif.content.q[k] \in Values
    BY <1>1 DEF ExifFiles, Values
  <1>5. ASSUME NEW l \in ExifReads
        PROVE  ExifValue[l] \in Values
    <2>1. l \in Leaf /\ Mapped(l) /\ (ExifEntry(l) # Absent \/ l \in XmpReads(xmp))
      BY DEF ExifReads
    <2>2. ExifEntry(l) \in Values
      BY <1>2, <1>3, <1>4, <2>1 DEF ExifEntry, Mapped
    <2>3. l \in XmpReads(xmp) => xmp.root[l] \in Values
      BY <1>1, XmpValues
    <2> QED BY <2>1, <2>2, <2>3 DEF ExifValue
  <1>6. /\ ExifRootReads \in SUBSET Leaf
        /\ \A l \in ExifRootReads : Tagged(l) \/ QRow[l] # "none"
    <2>1. /\ exif.mTtPosition \in Positions
          /\ exif.content.tags \in [ExifTag -> Values]
      BY <1>1 DEF IInv, ExifStates, ExifFiles, Values
    <2>2. processEntries(exif.mTtPosition, exif.content.tags).rows \subseteq DOMAIN ExifTable
      BY <2>1, EntriesRows
    <2>3. ASSUME NEW l \in ExifRootReads
          PROVE  l \in Leaf /\ (Tagged(l) \/ QRow[l] # "none")
      <3>1. CASE l \in Leaf /\ QRow[l] # "none"
        BY <3>1
      <3>2. CASE ~ (l \in Leaf /\ QRow[l] # "none")
        <4>1. PICK i \in DOMAIN ExifTable : l = ExifTable[i].leaf /\ l # Absent
          BY <2>2, <2>3, <3>2 DEF ExifRootReads
        <4> QED BY <1>2, <4>1 DEF Tagged
      <3> QED BY <3>1, <3>2
    <2> QED BY <2>3
  <1>7. ASSUME NEW l \in ExifRootReads
        PROVE  ExifRootValue(l) \in Values
    <2>1. l \in Leaf /\ (Tagged(l) \/ QRow[l] # "none")
      BY <1>6
    <2> QED BY <1>2, <1>3, <1>4, <2>1 DEF ExifRootValue
  <1> QED BY <1>5, <1>6, <1>7 DEF ExifReads

LEMMA ExifReadKeeps ==
  ASSUME IInv, format = "exif", ExifRead
  PROVE  IInv'
  <1>1. disk' = disk /\ xmp' = xmp /\ exif' = exif
    BY DEF ExifRead
  <1>2. \E s \in Scope : readMetadata(s, ExifReads, ExifValue)
    BY DEF ExifRead
  <1>3. md' \in [Leaf -> Values] /\ format' = format
    BY <1>2, ExifValues, ReadTypes DEF IInv
  <1> QED BY <1>1, <1>3, Framed DEF IInv

LEMMA ExifReadRootKeeps ==
  ASSUME IInv, format = "exif", ExifReadRoot
  PROVE  IInv'
  <1> DEFINE x == getXMPDocs.x
             length == getXMPDocs.length
             at == processEntries(exif.mTtPosition, exif.content.tags).at
             good == ExifRootReads \cup XmpReads(x)
             val == [l \in good |-> IF l \in ExifRootReads THEN ExifRootValue(l) ELSE x.root[l]]
  <1>1. /\ xmp' = x /\ exif' = [exif EXCEPT !.mnXMPLength = length, !.mTtPosition = at]
        /\ readMetadataRoot(good, val) /\ disk' = disk
    BY DEF ExifReadRoot
  <1>2. x \in AgreeingStates /\ length \in Nat
    BY DocsAgree
  <1>3. at \in Positions
    <2>1. exif.mTtPosition \in Positions /\ exif.content.tags \in [ExifTag -> Values]
      BY DEF IInv, ExifStates, ExifFiles, Values
    <2> QED BY <2>1, EntriesRows
  <1> HIDE DEF x, length, at
  <1>4. good \in SUBSET Leaf /\ \A l \in good : val[l] \in Values
    <2>1. x \in States
      BY <1>2 DEF AgreeingStates
    <2>2. XmpReads(x) \in SUBSET Leaf /\ \A l \in XmpReads(x) : x.root[l] \in Values
      BY <2>1, XmpValues
    <2> QED BY <2>2, ExifValues
  <1> HIDE DEF good, val
  <1>5. md' \in [Leaf -> Values] /\ format' = format
    BY <1>1, <1>4, ReadTypes DEF IInv
  <1>6. exif' \in ExifStates
    BY <1>1, <1>2, <1>3 DEF IInv, ExifStates
  <1> QED BY <1>1, <1>2, <1>5, <1>6, Framed DEF IInv

LEMMA ExifWriteKeeps ==
  ASSUME IInv, format = "exif", ExifWrite
  PROVE  IInv'
  <1> DEFINE W(s, valid) ==
        Written(s, valid, [x |-> xmp, content |-> exif.content], ExifSet, ExifNoThrow)
  <1>1. PICK s \in Scope, valid \in BOOLEAN :
          /\ xmp' = W(s, valid).state.x
          /\ exif' = [exif EXCEPT !.content = W(s, valid).state.content]
          /\ WriteOutcome(W(s, valid))
    BY DEF ExifWrite
  <1>2. md' = md /\ format' = format /\ disk' = disk
    BY <1>1 DEF ExifWrite, WriteOutcome
  <1>3. xmp \in WritableStates(xmp.file) /\ exif.content \in ExifFiles
    BY DEF ExifWrite, WritableStates, IInv, ExifStates
  <1>4. W(s, valid).state \in [x : WritableStates(xmp.file), content : ExifFiles]
    BY <1>3, ExifWrittenAgrees DEF IInv
  <1> HIDE DEF W
  <1>5. xmp' \in AgreeingStates /\ exif' \in ExifStates
    BY <1>1, <1>4 DEF WritableStates, IInv, ExifStates
  <1> QED BY <1>2, <1>5, Framed DEF IInv

LEMMA ExifRemoveKeeps ==
  ASSUME IInv, format = "exif", ExifRemove
  PROVE  IInv'
  <1> DEFINE R(s) ==
        Removed(s, [x |-> xmp, content |-> exif.content], ExifErase, ExifEraseThrows)
  <1>1. PICK s \in Scope :
          /\ xmp' = R(s).state.x
          /\ exif' = [exif EXCEPT !.content = R(s).state.content]
          /\ RemoveOutcome(R(s))
    BY DEF ExifRemove
  <1>2. md' = md /\ format' = format /\ disk' = disk
    BY <1>1 DEF ExifRemove, RemoveOutcome
  <1>3. xmp \in BuiltStates(xmp.file) /\ exif.content \in ExifFiles
    BY DEF ExifRemove, BuiltStates, IInv, ExifStates
  <1>4. R(s).state \in [x : BuiltStates(xmp.file), content : ExifFiles]
    BY <1>3, ExifRemovedAgrees
  <1> HIDE DEF R
  <1>5. xmp' \in AgreeingStates /\ exif' \in ExifStates
    BY <1>1, <1>4 DEF BuiltStates, IInv, ExifStates
  <1> QED BY <1>2, <1>5, Framed DEF IInv

-----------------------------------------------------------------------------
\* The invariant

LEMMA Started == Init => IInv
  <1> SUFFICES ASSUME Init PROVE IInv
    OBVIOUS
  <1>1. /\ format \in Format /\ md = [l \in Leaf |-> Unset] /\ disk \in Disks(format)
        /\ xmp = NewXmp /\ exif = ClosedExif
    BY DEF Init, AccessorInit, XmpInit, ExifInit
  <1>2. disk \in [File -> Contents \cup {Absent}]
    BY <1>1, EmbeddedXmpAssumption DEF Contents
  <1>3. NewXmp \in AgreeingStates
    <2>1. Nothing \in Texts /\ <<>> \in Seq({"text", "blank"})
      BY DEF Nothing, Texts
    <2>2. NoBlock \in Blocks
      BY <2>1 DEF NoBlock, Blocks, Padded
    <2> HIDE DEF NoBlock
    <2>3. NewXmp \in States
      BY <2>2 DEF NewXmp, States, Mode
    <2> QED BY <2>3 DEF NewXmp, AgreeingStates, Agrees
  <1>4. ClosedExif \in ExifStates
    <2>1. EmptyExif \in ExifFiles
      BY DEF EmptyExif, ExifFile, ExifFiles
    <2>2. 1 \in Positions
      <3>1. ASSUME NEW t \in ExifTag
            PROVE  1 \in DOMAIN ExifTable
        BY ExifAssumption
      <3> QED BY <3>1 DEF Positions, AtEdge
    <2> HIDE DEF EmptyExif
    <2> QED BY <2>1, <2>2 DEF ClosedExif, ExifStates, Mode
  <1>5. md \in [Leaf -> Values] /\ xmp.file = Absent
    BY <1>1 DEF Values, NewXmp
  <1> QED BY <1>1, <1>2, <1>3, <1>4, <1>5 DEF IInv

LEMMA StepKeeps == IInv /\ [Next]_vars => IInv'
  <1> SUFFICES ASSUME IInv, [Next]_vars PROVE IInv'
    OBVIOUS
  <1>1. CASE UNCHANGED vars
    <2>1. /\ format' = format /\ md' = md /\ disk' = disk /\ xmp' = xmp /\ exif' = exif
      BY <1>1 DEF vars, baseVars
    <2> QED BY <2>1, Framed DEF IInv
  <1>2. CASE (SetValue \/ NewTree) /\ UNCHANGED <<xmp, exif>>
    BY <1>2, ApplicationKeeps
  <1>3. CASE format = "xmp" /\ XmpNext /\ UNCHANGED exif
    BY <1>3, XmpStepKeeps
  <1>4. CASE format = "exif" /\ ExifNext
    BY <1>4, ExifOpenKeeps, ExifCloseKeeps, ExifReadKeeps, ExifReadRootKeeps, ExifWriteKeeps,
       ExifRemoveKeeps DEF ExifNext
  <1> QED BY <1>1, <1>2, <1>3, <1>4 DEF Next

\* The copies a packet is kept in, and the files, have their types, the copies agree, and the
\* Exif accessor's position in its table is the edge of a tag's rows: in every reachable state.
THEOREM Invariance == Spec => []IInv
  BY Started, StepKeeps, PTL DEF Spec

-----------------------------------------------------------------------------
\* What follows

\* What the accessor's metadata say, its tree of nodes says, but for empty texts: for any
\* leaves, values, table, files and packets.
THEOREM CopiesAgree == Spec => []XmpCopiesAgree
  <1>1. IInv => XmpCopiesAgree
    BY DEF IInv, AgreeingStates, Agrees, XmpCopiesAgree
  <1> QED BY <1>1, Invariance, PTL

\* Behind the text of a packet that is in a file there is nothing of an earlier one.
THEOREM TextIsClean == Spec => []NoStaleText
  <1>1. IInv => NoStaleText
    <2> SUFFICES ASSUME IInv, format = "xmp", NEW f \in File, disk[f] # Absent,
                        disk[f].packet # Absent
                 PROVE  LET p == disk[f].packet
                        IN  p.charset = "utf8" => \A i \in DOMAIN p.cells : i > p.size => p.cells[i] = "blank"
      BY DEF NoStaleText
    <2>1. disk[f].packet \in Packets
      BY DEF IInv, Contents, XmpFiles
    <2> QED BY <2>1 DEF Packets, Padded
  <1> QED BY <1>1, Invariance, PTL

\* Wherever the last search in the table ended, all the tags of a file that have a row are
\* found, and no other.
THEOREM ReadsAgree == Spec => []ExifReadsAgree
  <1>1. ASSUME IInv
        PROVE  ExifReadsAgree
    <2> SUFFICES ASSUME NEW l \in Leaf, Tagged(l)
                 PROVE  l \in ExifRootReads <=> exif.content.tags[TagOf(l)] # Absent
      BY DEF ExifReadsAgree
    <2>1. /\ exif.mTtPosition \in Positions
          /\ exif.content.tags \in [ExifTag -> Values]
      BY <1>1 DEF IInv, ExifStates, ExifFiles, Values
    <2> DEFINE rows == processEntries(exif.mTtPosition, exif.content.tags).rows
    <2>2. rows = {r \in DOMAIN ExifTable : exif.content.tags[ExifTable[r].tag] # Absent}
      BY <2>1, EntriesRows
    <2> HIDE DEF rows
    <2>3. PICK i \in DOMAIN ExifTable : ExifTable[i].leaf = l /\ TagOf(l) = ExifTable[i].tag
      BY DEF Tagged, TagOf
    <2>4. l # Absent /\ QRow[l] = "none"
      BY AccessorAssumption, ExifAssumption DEF Tagged
    <2>5. ASSUME NEW j \in DOMAIN ExifTable, ExifTable[j].leaf = l
          PROVE  j = i
      <3>1. \A a, b \in DOMAIN ExifTable :
              a < b => (ExifTable[a].leaf = ExifTable[b].leaf => ExifTable[a].leaf = Absent)
        BY ExifAssumption
      <3>2. DOMAIN ExifTable \subseteq Nat
        BY ExifAssumption
      <3> QED BY <2>3, <2>4, <2>5, <3>1, <3>2
    <2>6. l \in ExifRootReads <=> \E r \in rows : ExifTable[r].leaf = l
      BY <2>4 DEF ExifRootReads, rows
    <2> QED BY <2>2, <2>3, <2>5, <2>6
  <1> QED BY <1>1, Invariance, PTL

LEMMA SavesAllStep ==
  IInv /\ [Next]_vars =>
    [/\ format = "xmp" /\ xmp.built /\ xmp.file # Absent /\ xmp.mOpenMode # "readonly"
     /\ xmp.mStartPosition >= 0
     /\ XmpClose \/ XmpOpenMemory \/ (XmpOpen /\ xmp'.file # xmp.file)
     =>
     \/ ~Flush(xmp).done
     \/ /\ disk'[xmp.file].packet # Absent
        /\ \A l \in Leaf : XmpRow[l] = "simple" /\ xmp.root[l] # Unset =>
             disk'[xmp.file].packet.text[l] = xmp.root[l]]_vars
  <1> SUFFICES ASSUME IInv, format = "xmp", xmp.built, xmp.file # Absent,
                      xmp.mOpenMode # "readonly", xmp.mStartPosition >= 0,
                      XmpClose \/ XmpOpenMemory \/ (XmpOpen /\ xmp'.file # xmp.file),
                      Flush(xmp).done
               PROVE  /\ disk'[xmp.file].packet # Absent
                      /\ \A l \in Leaf : XmpRow[l] = "simple" /\ xmp.root[l] # Unset =>
                           disk'[xmp.file].packet.text[l] = xmp.root[l]
    OBVIOUS
  <1> DEFINE d == XmpDisk(disk, xmp)
  <1>1. Saves(xmp)
    BY DEF Saves
  <1>2. d[xmp.file].packet \in Packets /\ d[xmp.file].packet.text = xmp.node
    BY <1>1, SavedTypes DEF IInv, Contents
  <1>3. disk'[xmp.file] = d[xmp.file]
    <2>1. CASE XmpClose \/ XmpOpenMemory
      BY <2>1 DEF XmpClose, XmpOpenMemory, XmpCloses
    <2>2. CASE XmpOpen /\ xmp'.file # xmp.file
      <3>1. PICK f \in File : \E mode \in Asked(f) :
              IF mode = "create"
              THEN /\ disk' = [XmpDisk(disk, xmp) EXCEPT ![f] = XmpFile(0, Absent, 0)]
                   /\ xmp' = [Initialized(xmp, mode) EXCEPT !.built = TRUE, !.file = f]
              ELSE disk' = XmpDisk(disk, xmp)
        BY <2>2 DEF XmpOpen
      <3>2. PICK mode \in Asked(f) :
              IF mode = "create"
              THEN /\ disk' = [XmpDisk(disk, xmp) EXCEPT ![f] = XmpFile(0, Absent, 0)]
                   /\ xmp' = [Initialized(xmp, mode) EXCEPT !.built = TRUE, !.file = f]
              ELSE disk' = XmpDisk(disk, xmp)
        BY <3>1
      <3>3. CASE mode # "create"
        BY <3>2, <3>3
      <3>4. CASE mode = "create"
        <4>1. xmp \in AgreeingStates /\ mode \in Mode
          BY DEF IInv, Asked, Mode
        <4>2. [Initialized(xmp, mode) EXCEPT !.built = TRUE, !.file = f].file = f
          BY <4>1, BegunIn
        <4>3. f # xmp.file
          BY <2>2, <3>2, <3>4, <4>2
        <4>4. d \in [File -> XmpFiles \cup {Absent}]
          BY SavedTypes DEF IInv, Contents
        <4> HIDE DEF d
        <4>5. disk' = [d EXCEPT ![f] = XmpFile(0, Absent, 0)]
          BY <3>2, <3>4 DEF d
        <4>6. xmp.file \in File
          BY <4>1 DEF AgreeingStates, States
        <4> QED BY <4>3, <4>4, <4>5, <4>6
      <3> QED BY <3>3, <3>4
    <2> QED BY <2>1, <2>2
  <1>4. \A l \in Leaf : XmpRow[l] = "simple" /\ xmp.root[l] # Unset => xmp.node[l] = xmp.root[l]
    BY DEF IInv, AgreeingStates, Agrees
  <1> HIDE DEF d
  <1> QED BY <1>2, <1>3, <1>4, EmbeddedXmpAssumption

\* What could be read from the accessor, but for empty texts, is in the file when it is closed,
\* or the packet had no room for it and may not grow.
THEOREM ClosingSaves == Spec => XmpSavesAll
  BY Invariance, SavesAllStep, PTL DEF Spec, XmpSavesAll

LEMMA SavesPacketStep ==
  IInv /\ [Next]_vars =>
    [LET name == exif.name
     IN  /\ format = "exif" /\ ExifSaves /\ (ExifClose \/ ExifOpen) /\ exif'.name # name
         /\ exif.mnXMPLength # 0 /\ xmp.built /\ exif.content.segs # <<>> /\ Flush(xmp).done
         => /\ Len(disk'[name].segs) = 1
            /\ \A l \in Leaf : XmpRow[l] = "simple" /\ xmp.root[l] # Unset =>
                 disk'[name].segs[1].text[l] = xmp.root[l]]_vars
  <1> SUFFICES ASSUME IInv, format = "exif", ExifSaves, ExifClose \/ ExifOpen,
                      exif'.name # exif.name, exif.mnXMPLength # 0, xmp.built,
                      exif.content.segs # <<>>, Flush(xmp).done
               PROVE  /\ Len(disk'[exif.name].segs) = 1
                      /\ \A l \in Leaf : XmpRow[l] = "simple" /\ xmp.root[l] # Unset =>
                           disk'[exif.name].segs[1].text[l] = xmp.root[l]
    OBVIOUS
  <1> DEFINE saved == SaveXMPValues(exif.content)
  <1>1. exif.content \in ExifFiles /\ exif.name \in File /\ disk \in [File -> ExifFiles \cup {Absent}]
    BY DEF IInv, ExifStates, ExifSaves, Contents
  <1>2. Len(saved.segs) = 1 /\ saved.segs[1].text = xmp.node /\ saved \in ExifFiles
    BY <1>1, SegmentSaved
  <1> HIDE DEF saved
  <1>3. ExifDisk = [disk EXCEPT ![exif.name] = saved]
    BY DEF ExifDisk, saved
  <1>4. disk'[exif.name] = saved
    <2>1. CASE ExifClose
      BY <1>1, <1>3, <2>1 DEF ExifClose
    <2>2. CASE ExifOpen
      <3>1. PICK f \in File : \E mode \in Asked(f) :
              LET d == IF mode = "create" THEN [ExifDisk EXCEPT ![f] = EmptyExif] ELSE ExifDisk
              IN  disk' = d /\ exif'.name = IF d[f] = Absent THEN Absent ELSE f
        <4>1. exif \in ExifStates
          BY DEF IInv
        <4> QED BY <2>2, <4>1 DEF ExifOpen, ExifStates
      <3>2. CASE disk' = ExifDisk
        BY <1>1, <1>3, <3>2
      <3>3. CASE disk' # ExifDisk
        <4>1. disk' = [ExifDisk EXCEPT ![f] = EmptyExif]
              /\ exif'.name = IF disk'[f] = Absent THEN Absent ELSE f
          BY <3>1, <3>3
        <4>2. EmptyExif # Absent
          BY ExifDiskTypes, EmbeddedXmpAssumption
        <4>3. disk'[f] = EmptyExif
          BY <1>1, <1>3, <4>1
        <4>4. f # exif.name
          BY <4>1, <4>2, <4>3
        <4> QED BY <1>1, <1>3, <4>1, <4>4
      <3> QED BY <3>2, <3>3
    <2> QED BY <2>1, <2>2
  <1>5. \A l \in Leaf : XmpRow[l] = "simple" /\ xmp.root[l] # Unset => xmp.node[l] = xmp.root[l]
    BY DEF IInv, AgreeingStates, Agrees
  <1> QED BY <1>2, <1>4, <1>5

\* The packet of an Exif file that is closed is the one segment that stays, and says what the
\* XMP accessor said, but for empty texts.
THEOREM ClosingSavesPacket == Spec => ExifSavesPacket
  BY Invariance, SavesPacketStep, PTL DEF Spec, ExifSavesPacket
=============================================================================
