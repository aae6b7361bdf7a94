--------------------------- MODULE FileAccessors ---------------------------
(***************************************************************************)
(* The accessors of DIG35, JPEG 2000, TIFF and XML files side by side: one *)
(* program for each format, the files on the disk, and what the accessors  *)
(* promise of them.                                                        *)
(***************************************************************************)
EXTENDS J2kAccessor, TiffAccessor, XmlAccessor

\* The files at the start, for a format.
CONSTANT Disks(_)

fileVars == <<baseVars, dig35Vars, j2kVars, tiffVars, xmlVars>>

-----------------------------------------------------------------------------
\* What the files hold

Content == Value \cup {Unset, Absent, Odd}

Elements == [tag : Tag, depth : Nat, text : {NoText}] \cup [tag : {TextTag}, depth : Nat, text : Content]
Documents == Seq(Elements) \ {<<>>}

\* Leaves of an XML file, with a key that may not be in the schema.
IsXmlDocument(bytes) ==
  /\ Len(bytes) \in Nat /\ DOMAIN bytes = 1 .. Len(bytes)
  /\ \A i \in DOMAIN bytes : bytes[i].text \in Content \ {Absent}

\* What a file of a format may hold, beside what is not of the format at all.
Holds(fmt, bytes) ==
  CASE fmt = "dig35" -> bytes \in {Absent, Garbage} \cup Documents
    [] fmt = "j2k" -> bytes \in {Absent} \cup Seq({OtherBox, Garbage} \cup Documents)
    [] fmt = "tiff" -> bytes \in {Absent, NotTiff} \cup [Leaf -> Content]
    [] fmt = "xml" -> bytes \in {Absent, Malformed} \/ IsXmlDocument(bytes)
    [] OTHER -> TRUE

\* What is in a file tells it from what is not.
ASSUME FileAccessorsAssumption ==
  /\ NoDocument \notin Seq(Elements) \cup {Garbage}
  /\ {OtherBox, Garbage} \cap Documents = {}
  /\ \A a, b \in Content : OneText(a, b) \in Content
  /\ {Absent, NotTiff} \cap [Leaf -> Content] = {}
  /\ Malformed \notin Seq([key : {<<schema.place[l].block, schema.place[l].name>> :
                                    schema \in XmlSchemas, l \in Leaf},
                           text : Content])
  /\ \A fmt \in Format : \A d \in Disks(fmt) :
       DOMAIN d = File /\ \A f \in File : Holds(fmt, d[f])

FileInit ==
  /\ AccessorInit
  /\ disk \in Disks(format)
  /\ Dig35Init /\ J2kInit /\ TiffInit /\ XmlInit
  \* what a format has not got does not matter to it
  /\ format = "tiff" \/ tiffRow = CHOOSE t \in TiffTables : TRUE
  /\ format = "xml" \/ xmlSchema = CHOOSE schema \in XmlSchemas : TRUE

FileNext ==
  \/ format # "xml" /\ (SetValue \/ NewTree) /\ UNCHANGED <<dig35Vars, j2kVars, tiffVars, xmlVars>>
  \/ format = "dig35" /\ Dig35Next /\ UNCHANGED <<j2kVars, tiffVars, xmlVars>>
  \/ format = "j2k" /\ J2kNext /\ UNCHANGED <<tiffVars, xmlVars>>
  \/ format = "tiff" /\ TiffNext /\ UNCHANGED <<dig35Vars, j2kVars, xmlVars>>
  \/ format = "xml" /\ XmlNext /\ UNCHANGED <<dig35Vars, j2kVars, tiffVars>>

FileSpec == FileInit /\ [][FileNext]_fileVars

-----------------------------------------------------------------------------
\* The files that are open for writing.
OpenForWriting ==
  {f \in File :
     \/ f = mFileName /\ mMode # "readonly" /\ mDoc # NoDocument
     \/ f = mJP2Sink
     \/ f = mImgFile.name /\ mImgFile.state = "open" /\ mImgFile.mode # "readonly"
     \/ f = xmlFile /\ mFstream /\ mOpenMode # "readonly"}

\* A file that is no longer open for writing holds what it was to hold.  An XML
\* file holds what its accessor prints, when its stream is closed.
Kept(f) ==
  CASE format = "dig35" -> disk'[f] = Serialized(mDoc)
    [] format = "j2k" -> disk'[f] = Append(disk[f], Serialized(mDoc))
    [] format = "tiff" -> disk'[f] = mImgFile.entries
    [] format = "xml" -> mFstream' \/ XmlKept(f)

\* Nothing that is open for writing is lost: a step after which a file is no
\* longer open for writing leaves in it what it was to hold, whether the file is
\* closed, another one opened, or an open fails (the calls of close() in open()).
\* What an XML accessor has printed reads back as its tree; opening another file
\* without closing the first is left out there, where it loses the changes.
NoChangeLost ==
  [][\A f \in OpenForWriting \ OpenForWriting' : Kept(f)]_fileVars

\* A step changes no file but the one that was open for writing, or the one it
\* creates (the mode that decides whether close() saves is the one of the open
\* before).
OnlyOwnFileChanges ==
  [][\A f \in File : disk'[f] # disk[f] =>
       f \in OpenForWriting \cup OpenForWriting']_fileVars

\* A leaf that is set in a document with the DIG35 root reads back, unless an
\* element stands first in the leaf's element, in front of the text that is set:
\* getMdValue reads the first child.  Setting it disturbs no other leaf that can be
\* read, except one whose tag ends in the same name: getDOMNode looks names up in
\* the whole document.
SetReadsBack ==
  mDoc # NoDocument /\ FirstNamed(mDoc, Root) # 0 =>
    \A l \in {x \in Leaf : Dig35Tag[x] # <<>> /\ md[x] # Absent} :
      LET node == getDOMNode(mDoc, Dig35Tag[l], TRUE)
          after == Dig35Set(mDoc, l)
      IN  /\ l \in Dig35Reads(after)
          /\ ~(HasChild(node.doc, node.at) /\ node.doc[node.at + 1].tag # TextTag) =>
               Dig35Value(after)[l] = md[l]
          /\ \A k \in Dig35Reads(mDoc) :
               Dig35Value(mDoc)[k] # NoText /\ Last(Dig35Tag[k]) # Last(Dig35Tag[l]) =>
                 k \in Dig35Reads(after) /\ Dig35Value(after)[k] = Dig35Value(mDoc)[k]

\* append takes the box.
Taken(box) == box \notin {OtherBox, Garbage} /\ (box[1].tag = Root \/ isMetadataBlockKey(box[1].tag))

\* A JPEG 2000 file that is opened for reading.
Extracts == j2kFile = Absent /\ j2kFile' # Absent /\ disk[j2kFile'] # Absent

\* The XML boxes of a file are read as one document: a leaf can be read whose names
\* are in some boxes, and of several that have its last name the first wins; of
\* those in front of the first malformed box, which makes the open throw.
FirstBoxWins ==
  [][Extracts =>
       LET boxes == disk[j2kFile']
           torn == {i \in DOMAIN boxes : boxes[i] = Garbage}
           front == {i \in DOMAIN boxes : Taken(boxes[i]) /\ \A j \in torn : i < j}
           With(name) == {i \in front : FirstNamed(boxes[i], name) # 0}
       IN  /\ outcome' = "threw" <=> torn # {}
           /\ \A l \in {x \in Leaf : Dig35Tag[x] # <<>>} :
                LET last == Last(Dig35Tag[l])
                IN  IF \E name \in ToSet(Dig35Tag[l]) : With(name) = {} THEN l \notin Dig35Reads(mDoc')
                    ELSE \A i \in With(last) : (\A j \in With(last) : i <= j) =>
                           /\ l \in Dig35Reads(mDoc')
                           /\ Dig35Value(mDoc')[l] = FirstContent(boxes[i], FirstNamed(boxes[i], last))]_fileVars

-----------------------------------------------------------------------------
\* What holds of the state behind these properties

Trees == [leaves : [Leaf -> Content], blocks : SUBSET Blocks]

\* Everything is of its type.
FileTypeOK ==
  /\ format \in Format
  /\ DOMAIN disk = File /\ \A f \in File : Holds(format, disk[f])
  /\ md \in [Leaf -> Content]
  /\ mDoc \in Seq(Elements) \cup {NoDocument}
  /\ mFileName \in File \cup {Absent}
  /\ hasDig35 \in BOOLEAN /\ mJP2Sink \in File \cup {Absent}
  /\ mImgFile \in [state : {"none", "made", "open"}, name : File \cup {Absent}, mode : Mode,
                   entries : [Leaf -> Content]]
  /\ mOwnImgFile \in BOOLEAN
  /\ xmlSchema \in XmlSchemas /\ mRootMd \in Trees
  /\ xmlFile \in File \cup {Absent} /\ mFstream \in BOOLEAN /\ shared \in BOOLEAN

\* An accessor has to do with the files of its format only, a target is a file of
\* boxes, and the TIFF accessor owns the image file exactly when it is open.
OwnFormat ==
  /\ format # "dig35" => mFileName = Absent
  /\ hasDig35 => format = "j2k" /\ mDoc # NoDocument
  /\ mJP2Sink # Absent => format = "j2k" /\ disk[mJP2Sink] \in Seq({OtherBox, Garbage} \cup Documents)
  /\ mImgFile.state # "none" => format = "tiff"
  /\ mOwnImgFile = (mImgFile.state = "open")
  /\ mImgFile.state = "open" => mImgFile.name \in File
  /\ mFstream => format = "xml" /\ xmlFile \in File

FileInv == FileTypeOK /\ OwnFormat
=============================================================================
