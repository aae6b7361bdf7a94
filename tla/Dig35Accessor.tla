--------------------------- MODULE Dig35Accessor ---------------------------
(***************************************************************************)
(* The accessor of DIG35 documents (the Xerces build): an XML document in  *)
(* memory, where a leaf is found by the names of the elements on the way   *)
(* to it, and a file that is written when the accessor is closed.          *)
(*                                                                         *)
(* A document is the sequence of its nodes, elements and texts, in         *)
(* document order, each with its depth: the children of a node follow it.  *)
(***************************************************************************)
EXTENDS Accessor

CONSTANTS
  Tag,          \* the names of elements
  Root,         \* DIG35_ROOT_ELEMENT
  BlockKeys,    \* what isMetadataBlockKey accepts
  Dig35Tag,     \* Dig35Tag[l]: the tag of l in the translation table, as a
                \* sequence of names; <<>> if the table has no row for l
  Garbage,      \* a file no parser accepts
  NoDocument,   \* the null document
  OneText(_, _), \* two texts side by side, as a parser reads them: as one
  MaxElements   \* bound on the elements of a document

TextTag == "#text"

ASSUME Dig35Assumption ==
  /\ TextTag \notin Tag
  /\ Root \in Tag /\ BlockKeys \subseteq Tag \ {Root}
  /\ Dig35Tag \in [Leaf -> Seq(Tag)]
  /\ MaxElements \in Nat

NoText == "no text"

VARIABLES
  mDoc,         \* the document, NoDocument when there is none
  mFileName,    \* the file it is from, Absent for none
  mMode

dig35Vars == <<mDoc, mFileName, mMode>>

Node(tag, depth, text) == [tag |-> tag, depth |-> depth, text |-> text]

\* A document with nothing but the root.
NewDocument == <<Node(Root, 0, NoText)>>

Bounded(doc) ==
  doc # NoDocument => Cardinality({i \in DOMAIN doc : doc[i].tag # TextTag}) <= MaxElements

-----------------------------------------------------------------------------
\* getDOMNode

\* getElementsByTagName(tag)->item(0): the first in document order, 0 for none.
FirstNamed(doc, tag) ==
  LET at == {i \in DOMAIN doc : doc[i].tag = tag}
  IN  IF at = {} THEN 0 ELSE CHOOSE i \in at : \A j \in at : i <= j

\* The last node of the subtree of node i.
LastUnder(doc, i) ==
  LET after == {j \in DOMAIN doc : j > i /\ doc[j].depth <= doc[i].depth}
  IN  IF after = {} THEN Len(doc)
      ELSE (CHOOSE j \in after : \A k \in after : j <= k) - 1

HasChild(doc, i) == i < Len(doc) /\ doc[i + 1].depth > doc[i].depth

appendChild(doc, i, tag, text) ==
  InsertAt(doc, LastUnder(doc, i) + 1, Node(tag, doc[i].depth + 1, text))

\* Mutant of getDOMNode: a missing element is put under the root, not its parent.
getDOMNodeUnderRoot(doc, path, create) ==
  LET G[k \in 0 .. Len(path)] ==
        IF k = 0 THEN [doc |-> doc, at |-> FirstNamed(doc, Root)]
        ELSE LET before == G[k - 1]
                 found == FirstNamed(before.doc, path[k])
             IN  IF found # 0 THEN [before EXCEPT !.at = found]
                 ELSE IF ~create \/ before.at = 0 THEN [before EXCEPT !.at = 0]
                 ELSE [doc |-> appendChild(before.doc, 1, path[k], NoText),
                       at |-> 1]
  IN  IF path = <<>> THEN [doc |-> doc, at |-> 0] ELSE G[Len(path)]

\* The next element on the way to a tag, and the document after it was created if
\* it was missing.  Its name is looked for in the whole document, not under the
\* element before, which only a new element is put under.
nextNode(before, name, first, create) ==
  LET found == FirstNamed(before.doc, name)
  IN  IF ~first /\ before.at = 0 THEN before
      ELSE IF found # 0 THEN [before EXCEPT !.at = found]
      ELSE IF ~create \/ before.at = 0 THEN [before EXCEPT !.at = 0]
      ELSE LET new == appendChild(before.doc, before.at, name, NoText)
           IN  [doc |-> new, at |-> FirstNamed(new, name)]

\* The element of a tag; an empty tag has none.
getDOMNode(doc, path, create) ==
  LET G[k \in 0 .. Len(path)] ==
        IF k = 0 THEN [doc |-> doc, at |-> FirstNamed(doc, Root)]
        ELSE nextNode(G[k - 1], path[k], k = 1, create)
  IN  IF path = <<>> THEN [doc |-> doc, at |-> 0] ELSE G[Len(path)]

isMetadataBlockKey(tag) == tag \in BlockKeys

-----------------------------------------------------------------------------
\* One leaf

NodeOf(doc, l) == getDOMNode(doc, Dig35Tag[l], FALSE).at

\* The value of the first child of node i; an element has none, which becomes the
\* empty string.
FirstContent(doc, i) ==
  IF ~HasChild(doc, i) THEN NoText
  ELSE IF doc[i + 1].tag = TextTag THEN doc[i + 1].text ELSE Unset

\* getMdValue answers true for a leaf that has a row and an element.
Dig35Reads(doc) == {l \in Leaf : NodeOf(doc, l) # 0}
Dig35Value(doc) == [l \in Dig35Reads(doc) |-> FirstContent(doc, NodeOf(doc, l))]

\* It goes through the element's first child, which an element without content
\* has not got: the leaves it can be asked for.
Dig35Readable(doc, s) ==
  \A i \in DOMAIN s : s[i] \in Dig35Reads(doc) => Dig35Value(doc)[s[i]] # NoText

\* The first text among the children of node i (and not under any of them), 0 for
\* none.
FirstText(doc, i) ==
  LET at == {j \in i + 1 .. LastUnder(doc, i) :
               doc[j].tag = TextTag /\ \A k \in i + 1 .. j - 1 : LastUnder(doc, k) < j}
  IN  IF at = {} THEN 0 ELSE CHOOSE j \in at : \A k \in at : j <= k

\* The first text of node i is set, or a text put behind all that is in it.
SetText(doc, i, text) ==
  LET first == FirstText(doc, i)
  IN  IF first # 0 THEN [doc EXCEPT ![first].text = text] ELSE appendChild(doc, i, TextTag, text)

\* setMdValue: the elements that are missing are created, and the text set.
Dig35Set(doc, l) ==
  LET node == getDOMNode(doc, Dig35Tag[l], TRUE)
  IN  IF node.at = 0 THEN node.doc ELSE SetText(node.doc, node.at, md[l])

\* removeMdValue: the element and everything under it.
Dig35RemoveValue(doc, l) ==
  LET at == NodeOf(doc, l)
  IN  IF at = 0 THEN doc
      ELSE SubSeq(doc, 1, at - 1) \o SubSeq(doc, LastUnder(doc, at) + 1, Len(doc))

Dig35NoThrow(doc, l) == FALSE

-----------------------------------------------------------------------------
\* open, close, append

\* What the parser makes of a file's bytes.
Parsed(bytes) == IF bytes = Garbage THEN NoDocument ELSE bytes

\* A node more is written: an empty text is none, and a text right behind another
\* is more of it.
Put(out, node) ==
  IF node.tag # TextTag THEN Append(out, node)
  ELSE IF node.text = Unset THEN out
  ELSE IF out # <<>> /\ out[Len(out)].tag = TextTag /\ out[Len(out)].depth = node.depth
  THEN [out EXCEPT ![Len(out)].text = OneText(@, node.text)]
  ELSE Append(out, node)

\* What is written to a file; a document whose root was removed is no XML.
Serialized(doc) ==
  LET S[i \in 0 .. Len(doc)] == IF i = 0 THEN <<>> ELSE Put(S[i - 1], doc[i])
  IN  IF S[Len(doc)] = <<>> THEN Garbage ELSE S[Len(doc)]

\* close(): the document goes to its file.
Dig35Saves == mFileName # Absent /\ mMode # "readonly" /\ mDoc # NoDocument

SavedDisk == IF Dig35Saves THEN [disk EXCEPT ![mFileName] = Serialized(mDoc)] ELSE disk

Dig35Close ==
  /\ disk' = SavedDisk
  /\ errors' = 0
  /\ mDoc' = NoDocument /\ mFileName' = Absent
  /\ outcome' = "true"
  /\ UNCHANGED <<format, md, throwErrors, mMode>>

\* close(buf): the document is copied out if it fits; nothing is closed.
Dig35CloseToMemory ==
  /\ outcome' \in IF mDoc = NoDocument THEN {"false"} ELSE {"true", "false"}
  /\ UNCHANGED <<format, disk, md, throwErrors, errors, dig35Vars>>

\* Mutant of openMemory: the mode is taken over before the open document is closed.
openMemoryModeFirst(name, bytes, mode) ==
  LET doc == IF mode = "create" THEN NewDocument ELSE Parsed(bytes)
  IN  /\ disk' = IF mFileName # Absent /\ mode # "readonly" /\ mDoc # NoDocument
                 THEN [disk EXCEPT ![mFileName] = Serialized(mDoc)] ELSE disk
      /\ errors' = 0
      /\ mMode' = mode
      /\ mDoc' = doc
      /\ mFileName' = IF doc # NoDocument THEN name ELSE Absent
      /\ outcome' = Answer(doc # NoDocument)
      /\ UNCHANGED <<format, md, throwErrors>>

\* open(buf, mode): close(), which saves by the mode before, then the bytes are
\* parsed, or a document made of the root alone.
openMemory(name, bytes, mode) ==
  LET doc == IF mode = "create" THEN NewDocument ELSE Parsed(bytes)
  IN  /\ disk' = SavedDisk
      /\ errors' = 0
      /\ mMode' = mode
      /\ mDoc' = doc
      /\ mFileName' = IF doc # NoDocument THEN name ELSE Absent
      /\ outcome' = Answer(doc # NoDocument)
      /\ UNCHANGED <<format, md, throwErrors>>

\* open(file, mode).  A file that cannot be read leaves what is open open.
Dig35Open ==
  \E f \in File : \E mode \in Asked(f) :
    IF Opens(mode) /\ disk[f] = Absent
    THEN outcome' = "false" /\ UNCHANGED <<format, disk, md, throwErrors, errors, dig35Vars>>
    ELSE openMemory(f, disk[f], mode)

\* open(), and open(buf) of the bytes of some file: there is no file to save to.
Dig35OpenMemory ==
  \/ openMemory(Absent, Garbage, "create")
  \/ \E f \in Input, mode \in {"readonly", "readwrite"} :
       disk[f] # Absent /\ openMemory(Absent, disk[f], mode)

\* What is under the first node, but for the texts right under it.
Inside(doc) ==
  LET direct(i) == doc[i].tag = TextTag /\ doc[i].depth = doc[1].depth + 1
      K[i \in 0 .. Len(doc)] ==
        IF i = 0 THEN <<>> ELSE IF i = 1 \/ direct(i) THEN K[i - 1] ELSE Append(K[i - 1], doc[i])
  IN  K[Len(doc)]

Raised(nodes, d) == [i \in DOMAIN nodes |-> [nodes[i] EXCEPT !.depth = @ + d]]

\* append: the elements under the root of a DIG35 document, or a block with the
\* elements under it, go under the root; texts between them stay behind.
Appended(doc, other) ==
  LET root == FirstNamed(doc, Root)
      piece == IF other[1].tag = Root THEN Raised(Inside(other), doc[root].depth)
               ELSE Raised(<<other[1]>> \o Inside(other), doc[1].depth + 1)
      at == LastUnder(doc, IF other[1].tag = Root THEN root ELSE 1)
  IN  SubSeq(doc, 1, at) \o piece \o SubSeq(doc, at + 1, Len(doc))

\* A malformed document is thrown: append catches DOMException only.
Dig35Append ==
  \E f \in Input :
    LET other == IF disk[f] = Absent THEN NoDocument ELSE Parsed(disk[f])
        accepted == /\ mDoc # NoDocument /\ other # NoDocument
                    /\ FirstNamed(mDoc, Root) # 0
                    /\ other[1].tag = Root \/ isMetadataBlockKey(other[1].tag)
    IN  /\ mDoc' = IF accepted THEN Appended(mDoc, other) ELSE mDoc
        /\ Bounded(mDoc')
        /\ outcome' = IF mDoc # NoDocument /\ disk[f] = Garbage THEN "threw" ELSE Answer(accepted)
        /\ UNCHANGED <<format, disk, md, throwErrors, errors, mFileName, mMode>>

-----------------------------------------------------------------------------
\* The calls of PmtAccessor; without a document they would go through a null
\* pointer.

Dig35Read ==
  /\ mDoc # NoDocument
  /\ \E s \in Scope :
       /\ Dig35Readable(mDoc, s)
       /\ readMetadata(s, Dig35Reads(mDoc), Dig35Value(mDoc))
  /\ UNCHANGED <<disk, dig35Vars>>

Dig35ReadRoot ==
  /\ mDoc # NoDocument
  /\ Dig35Readable(mDoc, Leaves)
  /\ readMetadataRoot(Dig35Reads(mDoc), Dig35Value(mDoc))
  /\ UNCHANGED <<disk, dig35Vars>>

Dig35Write ==
  /\ mDoc # NoDocument
  /\ \E s \in Scope, valid \in BOOLEAN :
       LET w == Written(s, valid, mDoc, Dig35Set, Dig35NoThrow)
       IN  mDoc' = w.state /\ Bounded(mDoc') /\ WriteOutcome(w)
  /\ UNCHANGED <<disk, mFileName, mMode>>

Dig35Remove ==
  /\ mDoc # NoDocument
  /\ \E s \in Scope :
       LET r == Removed(s, mDoc, Dig35RemoveValue, Dig35NoThrow)
       IN  mDoc' = r.state /\ RemoveOutcome(r)
  /\ UNCHANGED <<disk, mFileName, mMode>>

Dig35Init == mDoc = NoDocument /\ mFileName = Absent /\ mMode = "readonly"

Dig35Next ==
  \/ Dig35Open \/ Dig35OpenMemory \/ Dig35Append \/ Dig35Close \/ Dig35CloseToMemory
  \/ Dig35Read \/ Dig35ReadRoot \/ Dig35Write \/ Dig35Remove
=============================================================================
