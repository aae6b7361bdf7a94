---------------------------- MODULE XmlAccessor ----------------------------
(***************************************************************************)
(* The accessor of XML files and the instance interpreter it leaves        *)
(* everything to (the Xerces build): a tree of metadata of its own, parsed *)
(* from the file when it is opened, and printed into it when it is closed. *)
(*                                                                         *)
(* The leaves are strings at the top or in a block, a composite; attributes *)
(* are left out, and the text has no markup in it.  The application passes *)
(* leaves and whole trees.                                                 *)
(***************************************************************************)
EXTENDS Accessor

CONSTANTS
  XmlSchemas,   \* the schemas an application may have loaded, see XmlAssumption
  NoBlock,      \* where a leaf at the top is
  Malformed     \* what is in a file that the parser does not accept

\* Where each leaf is, whether its key may occur more than once, and which
\* occurrence it is; and whether the schema has a name space.  Two leaves of one
\* key are different occurrences of it, and then the key may occur more than once.
ASSUME XmlAssumption ==
  \A schema \in XmlSchemas :
    /\ schema.nameSpace \in BOOLEAN
    /\ \A l \in Leaf :
         /\ DOMAIN schema.place[l] = {"block", "name", "occurrence", "multiple"}
         /\ schema.place[l].occurrence \in Nat
         /\ schema.place[l].multiple \in BOOLEAN
         /\ ~schema.place[l].multiple => schema.place[l].occurrence = 0
    /\ \A k, l \in Leaf :
         /\ schema.place[k].block = schema.place[l].block
         /\ schema.place[k].name = schema.place[l].name
         => /\ schema.place[k].multiple = schema.place[l].multiple
            /\ schema.place[k].occurrence = schema.place[l].occurrence => k = l

VARIABLES
  xmlSchema,
  mRootMd,      \* the tree: its leaves, and the blocks there are
  mFstream,     \* whether the stream is open
  xmlFile,      \* mFileName
  mOpenMode,
  mInSync,
  mURIMap,      \* whether it has an entry, which is the empty name space
  mMdFactory,   \* whether it is not null
  shared        \* the application's tree is mRootMd, not one of its own

xmlVars == <<xmlSchema, mRootMd, mFstream, xmlFile, mOpenMode, mInSync, mURIMap,
             mMdFactory, shared>>

Blocks == {xmlSchema.place[l].block : l \in Leaf} \ {NoBlock}

EmptyTree == [leaves |-> [l \in Leaf |-> Absent], blocks |-> {}]

-----------------------------------------------------------------------------
\* The tree: getMetadatum and deleteMetadata of one leaf's full key

Place(l) == xmlSchema.place[l]
Key(l) == <<Place(l).block, Place(l).name>>
Siblings(l) == {k \in Leaf : Key(k) = Key(l)}

\* The leaf with the i-th occurrence of a key, if the tree can have one.
Occurrence(key, i) == {l \in Leaf : Key(l) = key /\ Place(l).occurrence = i}

\* The occurrences before one that is created are created too.
CreatedLeaves(leaves, l) ==
  [k \in Leaf |-> IF /\ k \in Siblings(l) /\ Place(k).occurrence <= Place(l).occurrence
                     /\ leaves[k] = Absent
                  THEN Unset ELSE leaves[k]]

WithLeaf(tree, l, value) ==
  [leaves |-> [CreatedLeaves(tree.leaves, l) EXCEPT ![l] = value],
   blocks |-> tree.blocks \cup ({Place(l).block} \ {NoBlock})]

\* The occurrences behind one that is deleted move up; its block stays.
WithoutLeaf(tree, l) ==
  IF tree.leaves[l] = Absent THEN tree
  ELSE [tree EXCEPT !.leaves =
          [k \in Leaf |->
             IF k \in Siblings(l) /\ Place(k).occurrence >= Place(l).occurrence
             THEN LET next == Occurrence(Key(k), Place(k).occurrence + 1)
                  IN  IF next = {} THEN Absent ELSE tree.leaves[CHOOSE n \in next : TRUE]
             ELSE tree.leaves[k]]]

Emptied(tree) == tree.blocks = {} /\ \A l \in Leaf : tree.leaves[l] = Absent

-----------------------------------------------------------------------------
\* writeXML and the parser
\*
\* A document is the sequence of its leaves, each with its key and its text.

\* The document of the leaves of a tree that have a value outside Skipped.  A root
\* without elements is not printed.  The tag of a leaf whose key may occur more
\* than once has its occurrence in brackets: that is not XML.
PrintedBut(tree, Skipped) ==
  LET D[i \in 0 .. Len(Leaves)] ==
        IF i = 0 THEN <<>>
        ELSE LET l == Leaves[i]
             IN  IF tree.leaves[l] \in Skipped THEN D[i - 1]
                 ELSE Append(D[i - 1], [key |-> Key(l), text |-> tree.leaves[l]])
  IN  IF \/ Emptied(tree)
         \/ \E l \in Leaf : tree.leaves[l] \notin Skipped /\ Place(l).multiple
      THEN Malformed
      ELSE D[Len(Leaves)]

\* Mutant of Printed: a leaf without a value is not printed.
PrintedValues(tree) == PrintedBut(tree, {Absent, Unset})

Printed(tree) == PrintedBut(tree, {Absent})

\* The handler makes every element the occurrence 0 of its key; an element
\* without text leaves the value as it is.  After an element that the schema has
\* not got there is no current metadatum, and the rest is dropped.
ParsedElement(before, element) ==
  LET found == Occurrence(element.key, 0)
      l == CHOOSE k \in found : TRUE
      tree == before.tree
      text == IF element.text # Unset THEN element.text ELSE CreatedLeaves(tree.leaves, l)[l]
  IN  IF before.dropped THEN before
      ELSE IF found = {}
      THEN [tree |-> [tree EXCEPT !.blocks = @ \cup (Blocks \cap {element.key[1]})],
            dropped |-> TRUE]
      ELSE [tree |-> WithLeaf(tree, l, text), dropped |-> FALSE]

XmlParsed(doc) ==
  LET P[i \in 0 .. Len(doc)] ==
        IF i = 0 THEN [tree |-> EmptyTree, dropped |-> FALSE]
        ELSE ParsedElement(P[i - 1], doc[i])
  IN  P[Len(doc)].tree

-----------------------------------------------------------------------------
\* checkNamespace: once a file was parsed, the name space of every tree has to
\* be the empty one, unless a tree was accepted since the last close.
checkNamespace == mMdFactory \/ ~mURIMap \/ ~xmlSchema.nameSpace

\* What flush() makes of the files: the tree, or nothing.
XmlSaved ==
  IF mOpenMode # "readonly" /\ mFstream /\ ~mInSync
  THEN [disk EXCEPT ![xmlFile] = IF checkNamespace THEN Printed(mRootMd) ELSE Malformed]
  ELSE disk

XmlClose ==
  /\ disk' = XmlSaved
  /\ mFstream' = FALSE
  /\ xmlFile' = IF mFstream THEN Absent ELSE xmlFile
  /\ mInSync' = (mInSync \/ mFstream)
  /\ mMdFactory' = FALSE
  /\ outcome' = "true"
  /\ UNCHANGED <<format, treeVars, xmlSchema, mRootMd, mOpenMode, mURIMap, shared>>

\* open() does not close the file that is open: its stream stays, and opening it
\* again fails, but the name, the mode and the tree are the new file's.  A file to
\* be created is emptied, and keeps the tree there was.
XmlOpen ==
  \E f \in File : \E mode \in Asked(f) :
    LET parsed == mode # "create"
    IN  /\ parsed => disk[f] \notin {Absent, Malformed}
        /\ disk' = IF parsed \/ mFstream THEN disk ELSE [disk EXCEPT ![f] = Malformed]
        /\ mRootMd' = IF parsed THEN XmlParsed(disk[f]) ELSE mRootMd
        /\ shared' = (shared /\ ~parsed)
        /\ mURIMap' = (mURIMap \/ parsed)
        /\ mFstream' = TRUE
        /\ xmlFile' = f /\ mOpenMode' = mode /\ mInSync' = TRUE
        /\ outcome' = Answer(~mFstream)
        /\ UNCHANGED <<format, treeVars, xmlSchema, mMdFactory>>

\* What the parser throws at a file that is not there, or not XML, leaves
\* everything as it was.
XmlOpenThrows ==
  /\ \E f \in File : \E mode \in Asked(f) : mode # "create" /\ disk[f] \in {Absent, Malformed}
  /\ outcome' = "threw"
  /\ UNCHANGED <<format, disk, treeVars, xmlVars>>

-----------------------------------------------------------------------------
\* The calls of PmtAccessor, which go to the interpreter whole

\* The tree, or a leaf that the application has.
Passed(s) == s = Leaves \/ (Len(s) = 1 /\ InTree(s) # {})

Checked(answer) ==
  /\ mMdFactory' = (mMdFactory \/ checkNamespace)
  /\ outcome' = Answer(answer)
  /\ UNCHANGED <<format, disk, throwErrors, errors, xmlSchema, mFstream, xmlFile, mOpenMode, mURIMap>>

\* readMetadata(md): of a root the application gets the interpreter's own tree; a
\* leaf gets the value of the occurrence 0 of its key.
XmlRead ==
  \E s \in Scope :
    /\ Passed(s)
    /\ LET l == s[1]
           found == {k \in Occurrence(Key(l), 0) : mRootMd.leaves[k] # Absent}
       IN  md' = IF ~checkNamespace THEN md
                 ELSE IF s = Leaves THEN mRootMd.leaves
                 ELSE [md EXCEPT ![l] = IF found = {} THEN @
                                        ELSE mRootMd.leaves[CHOOSE k \in found : TRUE]]
    /\ shared' = (shared \/ (checkNamespace /\ s = Leaves))
    /\ mRootMd' = IF shared THEN [mRootMd EXCEPT !.leaves = md'] ELSE mRootMd
    /\ Checked(TRUE) /\ UNCHANGED mInSync

\* readMetadata(nsURI): the tree itself for the name space of a parsed file,
\* which is the empty one, and null for any other.
XmlReadRoot ==
  \E empty \in BOOLEAN :
    /\ shared' = (shared \/ (empty /\ mURIMap))
    /\ md' = IF empty /\ mURIMap THEN mRootMd.leaves ELSE md
    /\ outcome' = Answer(empty /\ mURIMap)
    /\ UNCHANGED <<format, disk, throwErrors, errors, xmlSchema, mRootMd, mFstream, xmlFile,
                   mOpenMode, mInSync, mURIMap, mMdFactory>>

\* The tree with what the application has of the leaves of s, created where missing.
Copied(s) ==
  LET W[i \in 0 .. Len(s)] ==
        IF i = 0 THEN mRootMd
        ELSE IF md[s[i]] = Absent THEN W[i - 1]
        ELSE WithLeaf(W[i - 1], s[i], md[s[i]])
  IN  W[Len(s)]

\* writeMetadata: the leaves are copied into the tree.
XmlWrite ==
  \E s \in Scope, valid \in BOOLEAN :
    /\ Passed(s) /\ mOpenMode # "readonly"
    /\ mRootMd' = IF checkNamespace THEN Copied(IF valid THEN Leaves ELSE s) ELSE mRootMd
    /\ mInSync' = (mInSync /\ ~checkNamespace)
    /\ Checked(TRUE) /\ UNCHANGED <<md, shared>>

\* removeMetadata: a leaf is deleted from the tree; the root has no key that
\* deleteMetadata finds.
XmlRemove ==
  \E s \in Scope :
    /\ Passed(s) /\ mOpenMode # "readonly"
    /\ mRootMd' = IF s = Leaves THEN mRootMd ELSE WithoutLeaf(mRootMd, s[1])
    /\ md' = IF shared THEN mRootMd'.leaves ELSE md
    /\ mInSync' = FALSE
    /\ outcome' = "true"
    /\ UNCHANGED <<format, disk, throwErrors, errors, xmlSchema, mFstream, xmlFile,
                   mOpenMode, mURIMap, mMdFactory, shared>>

\* In a file that is open for reading only nothing is written or removed.
XmlRefuses ==
  /\ mOpenMode = "readonly"
  /\ outcome' = "true"
  /\ UNCHANGED <<format, disk, treeVars, xmlVars>>

\* The application gives a leaf a value, of its own tree or of the tree it shares
\* with the interpreter, which does not notice.
XmlSetValue ==
  \E l \in Given(format), v \in Value :
    /\ md[l] # v /\ md' = [CreatedLeaves(md, l) EXCEPT ![l] = v]
    /\ mRootMd' = IF shared THEN WithLeaf(mRootMd, l, v) ELSE mRootMd
    /\ outcome' = "true"
    /\ UNCHANGED <<format, disk, throwErrors, errors, xmlSchema, mFstream, xmlFile,
                   mOpenMode, mInSync, mURIMap, mMdFactory, shared>>

\* Nothing here throws a PmtError: throwErrors() is left alone.
XmlNewTree ==
  /\ NewTree /\ UNCHANGED throwErrors
  /\ shared' = FALSE
  /\ UNCHANGED <<xmlSchema, mRootMd, mFstream, xmlFile, mOpenMode, mInSync, mURIMap, mMdFactory>>

XmlInit ==
  /\ xmlSchema \in XmlSchemas
  /\ mRootMd = EmptyTree
  /\ mFstream = FALSE /\ xmlFile = Absent /\ mOpenMode = "readwrite" /\ mInSync = TRUE
  /\ mURIMap = FALSE /\ mMdFactory = FALSE /\ shared = FALSE

XmlNext ==
  \/ XmlOpen \/ XmlOpenThrows \/ XmlClose
  \/ XmlRead \/ XmlReadRoot \/ XmlWrite \/ XmlRemove \/ XmlRefuses
  \/ XmlSetValue \/ XmlNewTree

-----------------------------------------------------------------------------
\* A close that flushes what was written leaves a document that reads back as the
\* tree, unless nothing is in the tree or it has a key that may occur more than
\* once; one that has nothing to flush leaves the file alone.
XmlKept(f) ==
  IF mInSync THEN disk'[f] = disk[f]
  ELSE LET present == {l \in Leaf : mRootMd.leaves[l] # Absent}
       IN  checkNamespace /\ present # {} /\ (\A l \in present : ~Place(l).multiple) =>
             disk'[f] # Malformed /\ XmlParsed(disk'[f]).leaves = mRootMd.leaves
=============================================================================
