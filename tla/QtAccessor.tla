----------------------------- MODULE QtAccessor -----------------------------
(***************************************************************************)
(* The QuickTime accessor (PmtQTAccessor): it reads a file into a tree of  *)
(* atoms (PmtAtom, PmtQtAtoms) and looks the metadata up in the trees.     *)
(*                                                                         *)
(* A file is a sequence of words of four bytes; an atom is a word with its *)
(* size in words, one with its type, and its payload.  The payload of an   *)
(* atom that is no container is one word, which stands for what the kind   *)
(* of atom takes out of it.  The XMP packet of a file and the sound        *)
(* accessor are left out.                                                  *)
(***************************************************************************)
EXTENDS Accessor

CONSTANTS
  QtPlace,    \* the table: the location and the tag of each leaf
  MaxAtoms    \* how many atoms reading is repeated for (a bound)

VARIABLES
  qtFile,     \* mQTFile: the file that is open, or Absent
  mAtoms      \* the atoms read, never cleared

qtVars == <<qtFile, mAtoms>>

-----------------------------------------------------------------------------
\* What loadAtomFactory puts into the factory; other types make a PmtNullAtom.
QtContainer == {"moov", "udta", "trak", "mdia", "stbl", "DcMD", "GPSi", "DcME", "DcEM", "DcEK"}
QtFields == {"mvhd", "tkhd", "stts", "hdlr", "stsd"}
QtText == {"Titl", "Comm", "Keyw", "Rate"}
QtData == QtFields \cup QtText

QtAtom(type, data, kids) == [type |-> type, data |-> data, kids |-> kids]

\* An atom as it is read: without the payload that nobody keeps.
QtKept(type, data) == QtAtom(type, IF type \in QtData THEN data ELSE Unset, <<>>)

\* GetNextAtom: the header at pos, in what is left of the parent.  A size that is
\* not that of an atom, and one of 64 bits, which is read with its bytes in the
\* wrong order, are none.
GetNextAtom(s, pos, readsize) ==
  LET read == readsize >= 2 /\ pos + 2 <= Len(s)
      wide == read /\ s[pos + 1] = <<"size", 1>>
      found == /\ read /\ s[pos + 1][1] = "size"
               /\ s[pos + 1][2] \in 2 .. readsize + 2
  IN  [found |-> found,
       type |-> IF found /\ s[pos + 2][1] = "type" THEN s[pos + 2][2] ELSE "none",
       size |-> IF found THEN s[pos + 1][2] - 2 ELSE 0,
       eof |-> readsize >= 2 /\ ~read,
       pos |-> IF readsize < 2 THEN pos
               ELSE IF ~read THEN Len(s)
               ELSE IF wide THEN pos + 4 ELSE pos + 2]

\* The payload of an atom: all of it, or what there is up to the end of the file.
Whole(s, size, pos) == pos + size <= Len(s)
Numread(s, size, pos) == IF Whole(s, size, pos) THEN size ELSE IF pos < Len(s) THEN Len(s) - pos ELSE 0
FieldsOf(s, size, pos) == IF Whole(s, size, pos) /\ size > 0 THEN s[pos + 1][2] ELSE Unset

\* The header atoms and the sample tables answer how much they have read.
readFields(s, type, size, pos) ==
  [atom |-> QtKept(type, FieldsOf(s, size, pos)), count |-> Numread(s, size, pos),
   pos |-> pos + Numread(s, size, pos)]

\* A text answers its size.
readText(s, type, size, pos) == [readFields(s, type, size, pos) EXCEPT !.count = size]

\* An atom of no use is skipped.
skipAtom(type, size, pos) == [atom |-> QtKept(type, Unset), count |-> size, pos |-> pos + size]

RECURSIVE readAtom(_, _, _, _), readAtoms(_, _, _, _, _)

\* The atoms of a container, with the words counted: two for a header whether
\* there was one or not.
readAtoms(s, size, pos, count, kids) ==
  LET n == GetNextAtom(s, pos, size - count)
      r == readAtom(s, n.type, n.size, n.pos)
  IN  IF count >= size THEN [kids |-> kids, count |-> count, pos |-> pos]
      ELSE IF ~n.found THEN [kids |-> kids, count |-> count + 2, pos |-> n.pos]
      ELSE readAtoms(s, size, r.pos, count + 2 + r.count, Append(kids, r.atom))

\* Media information has no skipping.
readMedia(s, size, pos) ==
  LET all == readAtoms(s, size, pos, 0, <<>>)
  IN  [atom |-> QtAtom("minf", Unset, all.kids), count |-> all.count, pos |-> all.pos]

\* Mutant of readContainer: it answers its full size, with its header.
readContainerFullSize(s, type, size, pos) ==
  LET all == IF size > 2 THEN readAtoms(s, size, pos, 0, <<>>)
             ELSE [kids |-> <<>>, count |-> 0, pos |-> pos]
  IN  [atom |-> QtAtom(type, Unset, all.kids), count |-> size + 2, pos |-> pos + size]

\* A container of one header or less is not read at all.  What it has left unread it
\* skips, but for the last two words; of a payload shorter than two words the rest
\* is taken modulo 2^64, and the skip goes back.
readContainer(s, type, size, pos) ==
  LET all == IF size > 2 THEN readAtoms(s, size, pos, 0, <<>>)
             ELSE [kids |-> <<>>, count |-> 0, pos |-> pos]
      skips == size < 2 \/ all.count < size - 2
  IN  [atom |-> QtAtom(type, Unset, all.kids),
       count |-> IF skips THEN size ELSE all.count,
       pos |-> IF skips THEN all.pos + size - all.count - 2 ELSE all.pos]

\* readAtom of the kinds the factory makes
readAtom(s, type, size, pos) ==
  CASE type \in QtContainer -> readContainer(s, type, size, pos)
    [] type = "minf" -> readMedia(s, size, pos)
    [] type \in QtFields -> readFields(s, type, size, pos)
    [] type \in QtText -> readText(s, type, size, pos)
    [] OTHER -> skipAtom(type, size, pos)

RECURSIVE parseAtoms(_, _, _, _)

\* The loop of parseQuickTimeFile.  It never ends when less than a header is left
\* by its count, which lacks the headers and may have an empty container's twice;
\* no file here is like that.
parseAtoms(s, pos, currPos, atoms) ==
  LET n == GetNextAtom(s, pos, Len(s) - currPos)
      r == readAtom(s, n.type, n.size, n.pos)
  IN  IF n.eof \/ currPos >= Len(s) THEN atoms
      ELSE IF ~n.found THEN parseAtoms(s, n.pos, currPos, atoms)
      ELSE parseAtoms(s, r.pos, currPos + r.count, Append(atoms, r.atom))

-----------------------------------------------------------------------------
\* The metadata

\* The first value that is not empty.
FirstSet(values) ==
  LET set == {i \in DOMAIN values : values[i] # Unset}
  IN  IF set = {} THEN Unset ELSE values[CHOOSE i \in set : \A j \in set : i <= j]

RECURSIVE getMetadata(_, _, _)

\* A container asks its atoms in turn.
containerMetadata(a, key, tag) ==
  IF Len(key) = 1 \/ a.type # Head(key) THEN Unset
  ELSE FirstSet([i \in DOMAIN a.kids |-> getMetadata(a.kids[i], Tail(key), tag)])

\* getStblAtom
SampleTable(a) ==
  LET stbl == {i \in DOMAIN a.kids : a.kids[i].type = "stbl"}
  IN  IF stbl = {} THEN {} ELSE {a.kids[CHOOSE i \in stbl : \A j \in stbl : i <= j]}

\* The media information looks into its first sample table, for what its medium has.
mediaMetadata(a, key, tag) ==
  LET audio == \E i \in DOMAIN a.kids : a.kids[i].type = "smhd"
      entry == CASE tag = "FrameCount" /\ ~audio -> "stts"
                 [] tag = "SoundSampleRate" /\ audio -> "stsd"
                 [] OTHER -> "none"
  IN  IF key # <<"minf">> \/ SampleTable(a) = {} \/ entry = "none" THEN Unset
      ELSE getMetadata(CHOOSE table \in SampleTable(a) : TRUE, <<"stbl", entry>>, tag)

\* Fields and texts, under the type of their atom; a handler answers under "tkhd", to
\* tags no table has.
fieldMetadata(a, key) == IF a.type # "hdlr" /\ key = <<a.type>> THEN a.data ELSE Unset

getMetadata(a, key, tag) ==
  CASE a.type \in QtContainer -> containerMetadata(a, key, tag)
    [] a.type = "minf" -> mediaMetadata(a, key, tag)
    [] OTHER -> fieldMetadata(a, key)

\* For each row of the table, the first atom that has a value.
QtValue(atoms) ==
  [l \in Leaf |-> FirstSet([i \in DOMAIN atoms |->
                              getMetadata(atoms[i], QtPlace[l][1], QtPlace[l][2])])]

-----------------------------------------------------------------------------
\* open() closes the file that is open before it looks at the mode.
QtOpen ==
  \E f \in File : \E mode \in Asked(f) :
    LET opened == mode = "readonly" /\ disk[f] # Absent
    IN  /\ qtFile' = IF opened THEN f ELSE Absent
        /\ outcome' = IF mode # "readonly" THEN "threw" ELSE Answer(opened)
        /\ UNCHANGED <<format, disk, treeVars, mAtoms>>

QtClose ==
  /\ qtFile' = Absent
  /\ outcome' = "true"
  /\ UNCHANGED <<format, disk, treeVars, mAtoms>>

\* readMetadata(nsURI).  The atoms of the file come behind those of what has been
\* read before.
QtReadRoot ==
  /\ Len(mAtoms) < MaxAtoms
  /\ mAtoms' = IF qtFile = Absent THEN mAtoms
               ELSE mAtoms \o parseAtoms(disk[qtFile], 0, 0, <<>>)
  /\ LET value == QtValue(mAtoms')
     IN  readMetadataRoot(IF qtFile = Absent THEN {} ELSE {l \in Leaf : value[l] # Unset}, value)
  /\ UNCHANGED <<disk, qtFile>>

\* readMetadata(md): getMdValue answers false.
QtRead ==
  /\ \E s \in Scope : readMetadata(s, {}, md)
  /\ UNCHANGED <<disk, qtVars>>

\* setMdValue and removeMdValue do nothing.
QtWrite ==
  /\ outcome' = "true"
  /\ UNCHANGED <<format, disk, treeVars, qtVars>>

QtInit == qtFile = Absent /\ mAtoms = <<>>

QtNext == QtOpen \/ QtClose \/ QtReadRoot \/ QtRead \/ QtWrite

-----------------------------------------------------------------------------
\* Files, as their writers make them: an atom of type "end" is the word 0 that
\* may end user data, one of type "wide" has a size of 64 bits.

RECURSIVE Words(_), Regular(_), KeptOf(_), At(_, _)

Words(atoms) ==
  LET word(a) ==
        LET payload == IF a.kids # <<>> \/ a.data = Unset THEN Words(a.kids)
                       ELSE <<<<"data", a.data>>>>
        IN  CASE a.type = "end" -> <<<<"size", 0>>>>
              [] a.type = "wide" -> <<<<"size", 1>>, <<"type", "wide">>, <<"size", 0>>, <<"size", 5>>,
                                      <<"data", a.data>>>>
              [] OTHER -> <<<<"size", Len(payload) + 2>>, <<"type", a.type>>>> \o payload
      upto[i \in 0 .. Len(atoms)] == IF i = 0 THEN <<>> ELSE upto[i - 1] \o word(atoms[i])
  IN  upto[Len(atoms)]

\* No container is empty, or holds one empty atom only, and nothing is odd.
Regular(atoms) ==
  \A i \in DOMAIN atoms :
    /\ atoms[i].type \notin {"end", "wide"}
    /\ atoms[i].type \in QtContainer => Len(Words(atoms[i].kids)) > 2
    /\ Regular(atoms[i].kids)

\* The atoms without the payloads nobody keeps.
KeptOf(atoms) ==
  [i \in DOMAIN atoms |-> QtAtom(atoms[i].type, QtKept(atoms[i].type, atoms[i].data).data,
                                 KeptOf(atoms[i].kids))]

\* The values found at a path, in the order of the file.
At(atoms, path) ==
  LET upto[i \in 0 .. Len(atoms)] ==
        IF i = 0 THEN <<>>
        ELSE IF atoms[i].type # Head(path) THEN upto[i - 1]
        ELSE upto[i - 1] \o IF Len(path) = 1 THEN <<atoms[i].data>>
                            ELSE At(atoms[i].kids, Tail(path))
  IN  upto[Len(atoms)]
=============================================================================
