---------------------------- MODULE J2kAccessor ----------------------------
(***************************************************************************)
(* The accessor of JPEG 2000 files (the Kakadu 4 build): it gathers the    *)
(* XML boxes of a file in a DIG35 accessor of its own, to which it leaves  *)
(* every metadatum, and writes that accessor's document as one box of the  *)
(* target it was made with.                                                *)
(*                                                                         *)
(* A file is its sequence of boxes; a box that is not XML is OtherBox, and *)
(* so is one with boxes inside, which are not looked at.                   *)
(***************************************************************************)
EXTENDS Dig35Accessor

CONSTANT OtherBox

VARIABLES
  hasDig35,   \* mDIG35Accessor is not null; its document is mDoc
  mJP2Sink,   \* the name of the target, Absent for none
  j2kFile     \* the file that was opened last, Absent for none

j2kVars == <<hasDig35, mJP2Sink, j2kFile>>

\* Mutant of Extracted: the last box is appended first.
ExtractedBackwards(boxes) ==
  LET Accepts(box) == box # OtherBox /\ Parsed(box) # NoDocument
                      /\ (box[1].tag = Root \/ isMetadataBlockKey(box[1].tag))
      E[i \in 1 .. Len(boxes) + 1] ==
        IF i > Len(boxes) THEN NewDocument
        ELSE IF Accepts(boxes[i]) THEN Appended(E[i + 1], boxes[i]) ELSE E[i + 1]
  IN  E[1]

\* The boxes that extractAllXML goes through: a malformed one ends it, by what
\* append throws.
Reaches(boxes, i) == \A j \in 1 .. i : boxes[j] # Garbage

\* extractAllXML: every XML box is appended; what append refuses is left out.
Extracted(boxes) ==
  LET Accepts(box) == box # OtherBox /\ Parsed(box) # NoDocument
                      /\ (box[1].tag = Root \/ isMetadataBlockKey(box[1].tag))
      E[i \in 0 .. Len(boxes)] ==
        IF i = 0 THEN NewDocument
        ELSE IF Reaches(boxes, i) /\ Accepts(boxes[i]) THEN Appended(E[i - 1], boxes[i]) ELSE E[i - 1]
  IN  E[Len(boxes)]

\* close(): the document is the target's new box.  The DIG35 accessor was opened
\* in memory, so deleting it saves nothing.
J2kSaved ==
  IF mJP2Sink # Absent /\ hasDig35
  THEN [disk EXCEPT ![mJP2Sink] = Append(@, Serialized(mDoc))] ELSE disk

J2kClose ==
  /\ disk' = J2kSaved
  /\ mJP2Sink' = IF hasDig35 THEN Absent ELSE mJP2Sink
  /\ hasDig35' = FALSE /\ j2kFile' = Absent
  /\ mDoc' = NoDocument
  /\ outcome' = "true"
  /\ UNCHANGED <<format, md, throwErrors, errors, mFileName, mMode>>

\* open(file, mode) opens for reading only.  A file without boxes leaves an
\* empty DIG35 accessor behind and is answered with false; a malformed XML box
\* leaves one with the boxes before it behind, and is thrown.
J2kOpen ==
  \E f \in File : \E mode \in Asked(f) :
    LET boxes == IF disk[f] = Absent THEN <<>> ELSE disk[f]
    IN  /\ disk' = J2kSaved
        /\ mJP2Sink' = IF hasDig35 THEN Absent ELSE mJP2Sink
        /\ hasDig35' = (mode = "readonly")
        /\ j2kFile' = IF mode = "readonly" THEN f ELSE Absent
        /\ mDoc' = IF mode = "readonly" THEN Extracted(boxes) ELSE NoDocument
        /\ mMode' = IF mode = "readonly" THEN "create" ELSE mMode
        /\ outcome' = IF mode = "readonly" /\ ~Reaches(boxes, Len(boxes)) THEN "threw"
                      ELSE Answer(mode = "readonly" /\ boxes # <<>>)
        /\ UNCHANGED <<format, md, throwErrors, errors, mFileName>>

\* A new accessor on a target, whose boxes before are the image's.
J2kNewOnTarget ==
  /\ ~hasDig35 /\ mJP2Sink = Absent
  /\ \E f \in File : disk[f] = Absent /\ disk' = [disk EXCEPT ![f] = <<OtherBox>>]
                     /\ mJP2Sink' = f
  /\ hasDig35' = TRUE /\ j2kFile' = Absent
  /\ mDoc' = NewDocument /\ mMode' = "create"
  /\ throwErrors' = FALSE /\ errors' = 0
  /\ outcome' = "true"
  /\ UNCHANGED <<format, md, mFileName>>

\* getMdValue, setMdValue and removeMdValue ask the DIG35 accessor, if there is one.
J2kReads == IF hasDig35 THEN Dig35Reads(mDoc) ELSE {}
J2kValue == IF hasDig35 THEN Dig35Value(mDoc) ELSE <<>>

J2kRead ==
  /\ \E s \in Scope :
       /\ hasDig35 => Dig35Readable(mDoc, s)
       /\ readMetadata(s, J2kReads, J2kValue)
  /\ UNCHANGED <<disk, dig35Vars, j2kVars>>

J2kReadRoot ==
  /\ hasDig35 => Dig35Readable(mDoc, Leaves)
  /\ readMetadataRoot(J2kReads, J2kValue)
  /\ UNCHANGED <<disk, dig35Vars, j2kVars>>

J2kWrite ==
  /\ \E s \in Scope, valid \in BOOLEAN :
       LET w == IF hasDig35 THEN Written(s, valid, mDoc, Dig35Set, Dig35NoThrow)
                ELSE [state |-> mDoc, thrown |-> 0]
       IN  mDoc' = w.state /\ Bounded(mDoc') /\ WriteOutcome(w)
  /\ UNCHANGED <<disk, mFileName, mMode, j2kVars>>

J2kRemove ==
  /\ \E s \in Scope :
       LET r == IF hasDig35 THEN Removed(s, mDoc, Dig35RemoveValue, Dig35NoThrow)
                ELSE [state |-> mDoc, thrown |-> FALSE]
       IN  mDoc' = r.state /\ RemoveOutcome(r)
  /\ UNCHANGED <<disk, mFileName, mMode, j2kVars>>

J2kInit == hasDig35 = FALSE /\ mJP2Sink = Absent /\ j2kFile = Absent

J2kNext ==
  \/ J2kOpen \/ J2kClose \/ J2kNewOnTarget
  \/ J2kRead \/ J2kReadRoot \/ J2kWrite \/ J2kRemove
=============================================================================
