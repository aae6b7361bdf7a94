---------------------------- MODULE TiffAccessor ----------------------------
(***************************************************************************)
(* The accessor of TIFF files: an image file of the TIFF library, opened,  *)
(* replaced and closed with the accessor, and the entries of its           *)
(* directories, where the translation table says each leaf is.             *)
(*                                                                         *)
(* What a file holds is a function from leaves to the entry the leaf's row *)
(* of the table points at.                                                 *)
(***************************************************************************)
EXTENDS Accessor

CONSTANTS
  TiffTables, \* translation tables: what is particular about each leaf's row
  Odd,        \* an entry of a type that is not handled
  NotTiff     \* a file the TIFF library does not open

Row == {"entry", "audio", "badLocation", "badType", "noTranslator", "none"}

ASSUME TiffAssumption ==
  /\ TiffTables \subseteq [Leaf -> Row]
  /\ Odd \notin Value \cup {Unset, Absent}
  /\ NotTiff \notin [Leaf -> Value \cup {Unset, Absent, Odd}]
  /\ Absent \notin [Leaf -> Value \cup {Unset, Absent, Odd}]

NoEntries == [l \in Leaf |-> Absent]

\* The image file: there is none, it was made and could not be opened, or it is open.
Closed == [state |-> "none", name |-> Absent, mode |-> "readonly", entries |-> NoEntries]

VARIABLES
  tiffRow,       \* the table the accessor was made with
  mImgFile,
  mOwnImgFile,
  mImgAccessor   \* "none", or "current": it is on mImgFile

tiffVars == <<tiffRow, mImgFile, mOwnImgFile, mImgAccessor>>

-----------------------------------------------------------------------------
\* One leaf

Entry(l) == mImgFile.entries[l]
Known(l) == tiffRow[l] \in {"entry", "badType"}

\* What getFormatInfo leaves in loc is what getDirPath has to understand; an
\* unknown leaf leaves it empty.
getDirPathThrows(l) == tiffRow[l] \in {"badLocation", "none"}

\* getMdValue
TiffReads ==
  {l \in Leaf :
     \/ Known(l) /\ Entry(l) \in Value \cup {Unset}
     \/ tiffRow[l] = "audio" /\ Entry(l) # Absent}
TiffValue == [l \in TiffReads |-> Entry(l)]

\* setMdValue: without a translator or a type that getType knows it answers false.
TiffSet(entries, l) ==
  IF tiffRow[l] \in {"entry", "audio"} THEN [entries EXCEPT ![l] = md[l]] ELSE entries

\* A location that is no directory throws in setTagValue; a leaf without a row
\* never gets there.
TiffSetThrows(entries, l) == tiffRow[l] = "badLocation"

\* removeMdValue asks for the directory of loc before loc is known, and throws
\* before it removes anything.
TiffRemoveValue(entries, l) == entries
TiffRemoveThrows(entries, l) == TRUE

-----------------------------------------------------------------------------
\* open and close

\* The library writes a file that is open for writing when it is closed.
TiffSaved ==
  IF mOwnImgFile /\ mImgFile.state # "none" /\ mImgFile.mode # "readonly"
  THEN [disk EXCEPT ![mImgFile.name] = mImgFile.entries] ELSE disk

\* close(): an image file the accessor does not own is left alone.
AfterClose == IF mOwnImgFile THEN Closed ELSE mImgFile

TiffClose ==
  /\ disk' = TiffSaved
  /\ mImgFile' = AfterClose
  /\ mOwnImgFile' = FALSE
  /\ mImgAccessor' = "none"
  /\ outcome' = "true"
  /\ UNCHANGED <<format, md, throwErrors, errors, tiffRow>>

\* Mutant of TiffOpen: the accessor does not own the file it has opened.
TiffOpenNotOwned ==
  \E f \in File : \E mode \in Asked(f) :
    LET found == IF mode = "create" THEN NoEntries ELSE TiffSaved[f]
        opened == found \notin {Absent, NotTiff}
    IN  /\ disk' = IF mode = "create" THEN [TiffSaved EXCEPT ![f] = NoEntries] ELSE TiffSaved
        /\ mImgFile' = IF opened
                       THEN [state |-> "open", name |-> f, mode |-> mode, entries |-> found]
                       ELSE [Closed EXCEPT !.state = "made"]
        /\ mOwnImgFile' = FALSE
        /\ mImgAccessor' = "none"
        /\ outcome' = Answer(opened)
        /\ UNCHANGED <<format, md, throwErrors, errors, tiffRow>>

\* open(): close(), then a new image file.  One that cannot be opened stays, not
\* owned, so that nothing closes or deletes it.
TiffOpen ==
  \E f \in File : \E mode \in Asked(f) :
    LET found == IF mode = "create" THEN NoEntries ELSE TiffSaved[f]
        opened == found \notin {Absent, NotTiff}
    IN  /\ disk' = IF mode = "create" THEN [TiffSaved EXCEPT ![f] = NoEntries] ELSE TiffSaved
        /\ mImgFile' = IF opened
                       THEN [state |-> "open", name |-> f, mode |-> mode, entries |-> found]
                       ELSE [Closed EXCEPT !.state = "made"]
        /\ mOwnImgFile' = opened
        /\ mImgAccessor' = "none"
        /\ outcome' = Answer(opened)
        /\ UNCHANGED <<format, md, throwErrors, errors, tiffRow>>

getImageAccessor ==
  /\ mImgAccessor' = IF mImgFile.state = "none" THEN mImgAccessor ELSE "current"
  /\ outcome' = Answer(mImgAccessor' # "none")
  /\ UNCHANGED <<format, disk, md, throwErrors, errors, tiffRow, mImgFile, mOwnImgFile>>

-----------------------------------------------------------------------------
\* The calls of PmtAccessor; before the first open they would go through a null
\* pointer.

TiffRead ==
  /\ mImgFile.state # "none"
  /\ \E s \in Scope : readMetadata(s, TiffReads, TiffValue)
  /\ UNCHANGED <<disk, tiffVars>>

\* What readMetadata(nsURI) reads: it goes through the rows of the table, not
\* through the tree.
TiffRootReads ==
  {l \in Leaf :
     \/ Known(l) /\ Entry(l) \notin {Absent, Odd}
     \/ tiffRow[l] = "audio" /\ Entry(l) # Absent}

\* readMetadata(nsURI).  A location that is no directory, and with throwErrors a missing translator,
\* end it with a throw; an entry of an odd type is an error that is never thrown.
TiffReadRoot ==
  /\ mImgFile.state # "none"
  /\ LET noTranslator == {l \in Leaf : tiffRow[l] = "noTranslator" /\ Entry(l) # Absent}
         odd == {l \in Leaf : Known(l) /\ Entry(l) = Odd}
         thrower == {l \in Leaf : tiffRow[l] = "badLocation"}
                    \cup IF throwErrors THEN noTranslator ELSE {}
         reached == {Leaves[i] : i \in Reached(Leaves, thrower)}
     IN  /\ errors' = Counted(errors
              + Cardinality((odd \cup (noTranslator \ thrower)) \cap reached))
         /\ IF thrower = {}
            THEN /\ md' = [l \in Leaf |-> IF l \in TiffRootReads THEN Entry(l) ELSE Absent]
                 /\ outcome' = "true"
            ELSE outcome' = "threw" /\ UNCHANGED md
  /\ UNCHANGED <<format, disk, throwErrors, tiffVars>>

TiffWrite ==
  /\ mImgFile.state # "none"
  /\ \E s \in Scope, valid \in BOOLEAN :
       LET w == Written(s, valid, mImgFile.entries, TiffSet, TiffSetThrows)
       IN  mImgFile' = [mImgFile EXCEPT !.entries = w.state] /\ WriteOutcome(w)
  /\ UNCHANGED <<disk, tiffRow, mOwnImgFile, mImgAccessor>>

TiffRemove ==
  /\ \E s \in Scope :
       LET r == Removed(s, mImgFile.entries, TiffRemoveValue, TiffRemoveThrows)
       IN  mImgFile' = [mImgFile EXCEPT !.entries = r.state] /\ RemoveOutcome(r)
  /\ UNCHANGED <<disk, tiffRow, mOwnImgFile, mImgAccessor>>

TiffInit ==
  tiffRow \in TiffTables /\ mImgFile = Closed /\ mOwnImgFile = FALSE /\ mImgAccessor = "none"

TiffNext ==
  \/ TiffOpen \/ TiffClose \/ getImageAccessor
  \/ TiffRead \/ TiffReadRoot \/ TiffWrite \/ TiffRemove
=============================================================================
