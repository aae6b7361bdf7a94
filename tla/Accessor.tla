------------------------------ MODULE Accessor ------------------------------
(***************************************************************************)
(* The base of the accessors (PmtAccessor): reading, writing and removing  *)
(* a metadatum, a composite or a whole tree, leaf by leaf, with the errors *)
(* of the leaves thrown or collected.                                      *)
(*                                                                         *)
(* What reads, writes and removes one leaf is the format's, and a          *)
(* parameter of the operators here; the modules of the formats extend this *)
(* one with their own state.  An accessor has one user: every call is one  *)
(* step.  Which format is accessed is settled when it is created.          *)
(***************************************************************************)
EXTENDS Naturals, Sequences, FiniteSets, SequencesExt

CONSTANTS
  Format,     \* the formats an accessor is created for
  File,       \* names of files
  Input,      \* those it opens for reading only, and takes bytes from (a bound)
  Leaf,       \* the leaves of the metadata tree
  Leaves,     \* all of them as a sequence, in the order of the tree
  Scope,      \* the subtrees the application passes, as sequences of leaves
  Value,
  Unset,      \* the value of a leaf nobody has given one
  Absent,     \* a leaf that is not in the tree; a file that does not exist
  Given(_),   \* the leaves the application gives values, for a format (a bound)
  Throwing,   \* what the application sets throwErrors() to (a bound)
  MaxErrors   \* how far the collected errors are counted (a bound)

ASSUME AccessorAssumption ==
  /\ Leaves \in Seq(Leaf) /\ ToSet(Leaves) = Leaf /\ IsInjective(Leaves)
  /\ Input \subseteq File
  /\ Scope \subseteq Seq(Leaf)
  /\ Unset \notin Value /\ Absent \notin Value \cup {Unset} \cup Leaf \cup File
  /\ \A f \in Format : Given(f) \subseteq Leaf
  /\ Throwing \subseteq BOOLEAN
  /\ MaxErrors \in Nat

Mode == {"readonly", "readwrite", "create"}

VARIABLES
  format,       \* mFormatName
  disk,         \* the files
  md,           \* the application's tree: md[l] is the value of leaf l
  throwErrors,  \* mThrowErrors
  errors,       \* the number of mErrors, or MaxErrors if there are more
  outcome       \* how the last step ended: "true", "false" or "threw"

baseVars == <<format, disk, md, throwErrors, errors, outcome>>
treeVars == <<md, throwErrors, errors>>

AccessorInit ==
  /\ format \in Format
  /\ md = [l \in Leaf |-> Unset]
  /\ throwErrors = FALSE
  /\ errors = 0
  /\ outcome = "true"

Counted(n) == IF n > MaxErrors THEN MaxErrors ELSE n

Answer(b) == IF b THEN "true" ELSE "false"

Opens(mode) == mode \in {"readonly", "readwrite"}

\* The modes the application opens a file in.
Asked(f) == IF f \in Input THEN {"readonly"} ELSE Mode

-----------------------------------------------------------------------------
\* readMetadata, writeMetadata, removeMetadata over a subtree

\* The leaves of s a call comes to: all of them, or those up to the first one
\* that throws.
Reached(s, thrower) ==
  LET stop == {i \in DOMAIN s : s[i] \in thrower}
  IN  {i \in DOMAIN s : \A j \in stop : i <= j}

\* The places of the leaves of s that are in the tree.
InTree(s) == {i \in DOMAIN s : md[s[i]] # Absent}

\* readMetadata(md): the leaves in good get the value the format finds.  Any
\* failure, a getMdValue that answers false or one that throws, is thrown, or is
\* collected and the next leaf read.
readMetadata(given, good, val) ==
  LET failing == {i \in InTree(given) : given[i] \notin good}
      reached == InTree(given)
                 \cap Reached(given, IF throwErrors THEN {given[i] : i \in failing} ELSE {})
  IN  /\ md' = [l \in Leaf |-> IF l \in good /\ \E i \in reached : given[i] = l
                               THEN val[l] ELSE md[l]]
      /\ errors' = IF throwErrors THEN errors ELSE Counted(errors + Cardinality(failing))
      /\ outcome' = IF throwErrors /\ failing # {} THEN "threw" ELSE "true"
      /\ UNCHANGED <<format, throwErrors>>

\* readMetadata(nsURI): every leaf of a new tree is created and read, one at a
\* time; one that fails is deleted from the tree the iterator came from.  That
\* is decided by throwing, so no error is collected; throwErrors is put back.
readMetadataRoot(good, val) ==
  /\ md' = [l \in Leaf |-> IF l \in good THEN val[l] ELSE Absent]
  /\ outcome' = "true"
  /\ UNCHANGED <<format, throwErrors, errors>>

\* writeMetadata(md, bWriteValid): with bWriteValid the tree md is in.  Set is
\* what setMdValue makes of the accessor's state, Throws whether it throws; that
\* it answers false is not looked at.
Written(given, valid, state, Set(_, _), Throws(_, _)) ==
  LET s == IF valid THEN Leaves ELSE given
      W[i \in 0 .. Len(s)] ==
        IF i = 0 THEN [state |-> state, thrown |-> 0]
        ELSE IF md[s[i]] = Absent \/ (throwErrors /\ W[i - 1].thrown > 0) THEN W[i - 1]
        ELSE IF Throws(W[i - 1].state, s[i])
        THEN [W[i - 1] EXCEPT !.thrown = @ + 1]
        ELSE [W[i - 1] EXCEPT !.state = Set(W[i - 1].state, s[i])]
  IN  W[Len(s)]

\* The errors and the outcome of a writeMetadata with result w.
WriteOutcome(w) ==
  /\ errors' = IF throwErrors THEN errors ELSE Counted(errors + w.thrown)
  /\ outcome' = IF throwErrors /\ w.thrown > 0 THEN "threw" ELSE "true"
  /\ UNCHANGED <<format, md, throwErrors>>

\* removeMetadata(md) has no try: what removeMdValue throws, the caller gets.  Erase
\* is what removeMdValue makes of the accessor's state, up to where it throws.
Removed(given, state, Erase(_, _), Throws(_, _)) ==
  LET R[i \in 0 .. Len(given)] ==
        IF i = 0 THEN [state |-> state, thrown |-> FALSE]
        ELSE IF md[given[i]] = Absent \/ R[i - 1].thrown THEN R[i - 1]
        ELSE [state |-> Erase(R[i - 1].state, given[i]),
              thrown |-> Throws(R[i - 1].state, given[i])]
  IN  R[Len(given)]

RemoveOutcome(r) ==
  /\ outcome' = IF r.thrown THEN "threw" ELSE "true"
  /\ UNCHANGED <<format, md, throwErrors, errors>>

-----------------------------------------------------------------------------
\* What the application does beside calling the accessor

\* It gives a leaf a value, which puts it in the tree.
SetValue ==
  /\ \E l \in Given(format), v \in Value : md[l] # v /\ md' = [md EXCEPT ![l] = v]
  /\ outcome' = "true"
  /\ UNCHANGED <<format, disk, throwErrors, errors>>

\* It starts with a tree of no values, throwErrors() is set or not.
NewTree ==
  /\ md' = [l \in Leaf |-> Unset]
  /\ throwErrors' \in Throwing
  /\ outcome' = "true"
  /\ UNCHANGED <<format, disk, errors>>
=============================================================================
