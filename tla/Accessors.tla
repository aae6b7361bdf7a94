----------------------------- MODULE Accessors -----------------------------
(***************************************************************************)
(* All the accessors that are modelled: those of module FileAccessors, the *)
(* one of QuickTime files, which is for reading only, and the value the    *)
(* Exif accessor stores for the faces of an image, made of atoms too.      *)
(***************************************************************************)
EXTENDS FileAccessors, QtAccessor, Faces, TLC

\* The trees of atoms the QuickTime files are made from.
CONSTANT QtFile

ASSUME AccessorsAssumption == Format \subseteq {"dig35", "j2k", "tiff", "qt", "xml", "faces"}

vars == <<fileVars, qtVars, faceVars>>

Init == FileInit /\ QtInit /\ FacesInit

Next ==
  \/ format # "faces" /\ FileNext /\ UNCHANGED <<qtVars, faceVars>>
  \/ format = "qt" /\ QtNext /\ UNCHANGED <<dig35Vars, j2kVars, tiffVars, xmlVars, faceVars>>
  \/ format = "faces" /\ FacesNext /\ UNCHANGED <<fileVars, qtVars>>

Spec == Init /\ [][Next]_vars

-----------------------------------------------------------------------------
\* A QuickTime file without oddities is read as the tree of atoms it was made
\* from, whatever its containers leave to be skipped; and a leaf that is looked up
\* in the first file that is read gets the first value at its place.
QtReadsTree ==
  [][mAtoms = <<>> /\ mAtoms' # mAtoms =>
       \A atoms \in QtFile : disk[qtFile] = Words(atoms) /\ Regular(atoms) =>
         /\ mAtoms' = KeptOf(atoms)
         /\ \A l \in Leaf : Last(QtPlace[l][1]) # "minf" =>
              LET found == At(KeptOf(atoms), QtPlace[l][1])
                  value == FirstSet(found)
              IN  md'[l] = IF value = Unset THEN Absent ELSE value]_vars
=============================================================================
