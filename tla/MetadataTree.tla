---------------------------- MODULE MetadataTree ----------------------------
(***************************************************************************)
(* The metadata tree of PmtCore: composites (PmtCompositeMetadata), their  *)
(* model groups (PmtModelGroup) and the elements that hold the occurrences *)
(* of each key (PmtElement), with the calls a client makes on them:        *)
(* getMetadatum, getMetadata and deleteMetadata.                           *)
(*                                                                         *)
(* A client's call is a run of the loops and recursions of                 *)
(* PmtCompositeMetadata.cpp.  Each loop iteration is one step; `stack'     *)
(* holds the activation records and no other call starts while it is not   *)
(* empty (the library is single-threaded on one tree), so the states in    *)
(* which the stack is empty are the ones a client sees.                    *)
(*                                                                         *)
(* Metadata objects are numbered in the order of their creation, 0 is the  *)
(* root.  Numbers are not reused.  A client keeps the PmtMetadataPtr of     *)
(* every composite it asked for (`held') and may call it after it left the *)
(* tree; it then also holds the composites above it, which mParent names.  *)
(***************************************************************************)
EXTENDS Integers, Sequences

CONSTANTS
  Key,        \* the elements of the schema, one per full key path
  RootKey,    \* the root composite
  Elements,   \* Elements[c]: the keys of composite c in mMdIterList order, to which
              \* addMetadataKey appends each element once, when it makes it
  MinOccurs, MaxOccurs,
  Unbounded,  \* PMT_OCCURS_UNBOUNDED
  Group,      \* the model groups
  Choice,     \* the model groups that are PmtChoiceModelGroups
  Items,      \* Items[g]: the keys and the child groups of model group g
  KeysUnder,  \* KeysUnder[x]: the keys at any level of item x
  MaxNode,    \* bound: once MaxNode objects exist the factory answers NULL
  MdPaths,    \* bound: the keys passed to getMetadatum
  GetPaths,   \* bound: the keys passed to getMetadata
  DeletePaths \* bound: the keys passed to deleteMetadata

None == -1              \* a NULL PmtMetadataPtr
OCCURRENCE_END == -1

Node == 0 .. MaxNode
Item == Key \cup Group

(***************************************************************************)
(* One segment of a key.  `key' names an element; "multi" is a segment     *)
(* that ends in *, "single" one that ends in ?, and match is the set of    *)
(* keys that begin with what precedes the wildcard.  An occurrence is a    *)
(* "list" as soon as one number is parsed, and [*] excludes numbers.        *)
(***************************************************************************)
Occurrence ==
  {o \in [kind : {"unspecified", "wildcard", "list"}, list : Seq(Nat)] :
     (o.kind = "list") = (o.list # <<>>)}
Segment ==
  {s \in [kind : {"key", "multi", "single"}, key : Key \cup {RootKey},
          match : SUBSET Key, occ : Occurrence] : s.kind = "key" => s.key \in Key}
Path == Seq(Segment) \ {<<>>}

ASSUME SchemaAssumption ==
  /\ RootKey \notin Key
  /\ Elements \in [Key \cup {RootKey} -> Seq(Key)]
  /\ Elements[RootKey] # <<>>
  /\ \A c \in Key \cup {RootKey} : \A i, j \in DOMAIN Elements[c] :
       i # j => Elements[c][i] # Elements[c][j]
  /\ Unbounded \in Nat
  /\ MinOccurs \in [Key -> Nat]
  /\ MaxOccurs \in [Key -> 0 .. Unbounded]
  /\ \A k \in Key : MinOccurs[k] <= MaxOccurs[k]
  /\ Choice \subseteq Group
  /\ Items \in [Group -> SUBSET Item]
  /\ KeysUnder \in [Item -> SUBSET Key]

ASSUME BoundAssumption ==
  /\ MaxNode \in Nat
  /\ MdPaths \subseteq Path /\ GetPaths \subseteq Path /\ DeletePaths \subseteq Path

(***************************************************************************)
(* KeysUnder is what getItemIndex finds: a key is under itself and under   *)
(* every group that holds it.  Two items of a group never hold the same    *)
(* key: a schema in which they do is ambiguous and XML Schema forbids it.  *)
(***************************************************************************)
ASSUME KeysUnderAssumption ==
  /\ \A k \in Key : KeysUnder[k] = {k}
  /\ \A g \in Group : KeysUnder[g] = UNION {KeysUnder[x] : x \in Items[g]}
  /\ \A g \in Group : \A x, y \in Items[g] :
       x # y => KeysUnder[x] \cap KeysUnder[y] = {}

VARIABLES
  kids,    \* kids[n][k]: the objects of element k of composite n
  md,      \* md[n]: mMetadataKey, mParent and mOccurrence of object n
  next,    \* the next object to be created
  stack,   \* activation records of the running call, innermost first
  call,    \* the running (or last) call
  iter,    \* the PmtMetadataIterator that getMetadata fills
  ret,     \* the result of getMetadatum
  held     \* the composites the client holds

heap == <<kids, md, next>>
vars == <<kids, md, next, stack, call, iter, ret, held>>

Fn == {"getMetadatum", "getPath", "getUnder", "deletePath", "deleteWild"}
Frame == [fn : Fn, node : Node, seg : Segment, rest : Seq(Segment),
          pos : Nat \ {0}, occ : Nat \cup {OCCURRENCE_END}, cur : Nat]

-----------------------------------------------------------------------------
\* Elements and model groups

Max2(a, b) == IF a > b THEN a ELSE b
Min2(a, b) == IF a < b THEN a ELSE b

IsComposite(k) == Elements[k] # <<>>
ElementsOf(n) == Elements[md[n].key]
Has(n, k) == \E i \in DOMAIN ElementsOf(n) : ElementsOf(n)[i] = k

\* PmtElement::getMetadatum(occurNum, false): the object, if it exists.
findMetadata(n, k, o) == IF o < Len(kids[n][k]) THEN kids[n][k][o + 1] ELSE None

\* Mutant of anyCreated: the child groups of the item are not looked at.
anyCreatedDirectly(n, x) == x \in Key /\ kids[n][x] # <<>>

\* Some object exists at some level of item x of a model group of n.
anyCreated(n, x) == \E k \in KeysUnder[x] : kids[n][k] # <<>>

\* No choice group that holds k has another of its items instantiated.
okToCreate(n, k) ==
  /\ Has(n, k)
  /\ \A g \in Choice : \A x \in Items[g] :
       k \in KeysUnder[x] => \A y \in Items[g] \ {x} : ~anyCreated(n, y)

\* Mutant of getWildcardMax: an unbounded element counts as one occurrence.
getWildcardMaxOne(n, k) ==
  IF ~Has(n, k) THEN 0
  ELSE IF MaxOccurs[k] = Unbounded THEN 1
  ELSE MaxOccurs[k]

getWildcardMax(n, k) ==
  IF ~Has(n, k) THEN 0
  ELSE IF MaxOccurs[k] = Unbounded THEN Max2(1, Len(kids[n][k]))
  ELSE MaxOccurs[k]

\* Mutants of Missing: the occurrence may equal maxOccurs; minOccurs is ignored.
MissingOffByOne(n, k, o, create) ==
  IF /\ create /\ findMetadata(n, k, o) = None
     /\ okToCreate(n, k) /\ o <= MaxOccurs[k]
  THEN Max2(MinOccurs[k], o + 1) - Len(kids[n][k])
  ELSE 0
MissingWithoutMin(n, k, o, create) ==
  IF /\ create /\ findMetadata(n, k, o) = None
     /\ okToCreate(n, k) /\ o < MaxOccurs[k]
  THEN o + 1 - Len(kids[n][k])
  ELSE 0

\* How many objects getMetadatum(k[o]) has to create: none when the object is
\* there, may not be created or is beyond maxOccurs; else all up to o, and at
\* least as many as minOccurs requires.
Missing(n, k, o, create) ==
  IF /\ create /\ findMetadata(n, k, o) = None
     /\ okToCreate(n, k) /\ o < MaxOccurs[k]
  THEN Max2(MinOccurs[k], o + 1) - Len(kids[n][k])
  ELSE 0

Supply == MaxNode + 1 - next

\* getMetadatumOccurrence: the objects it creates ...
CreateMissing(n, k, o, create) ==
  LET d == Min2(Missing(n, k, o, create), Supply)
      len == Len(kids[n][k])
  IN  /\ kids' = [kids EXCEPT ![n][k] = @ \o [i \in 1 .. d |-> next + i - 1]]
      /\ md' = [m \in Node |->
                  IF m \in next .. next + d - 1
                  THEN [key |-> k, parent |-> n, occurrence |-> len + (m - next)]
                  ELSE md[m]]
      /\ next' = next + d

\* Mutant of Answer: the first object created is answered instead of occurrence o.
AnswerFirst(n, k, o, create) ==
  LET d == Missing(n, k, o, create)
  IN  IF d = 0 THEN findMetadata(n, k, o)
      ELSE IF d <= Supply THEN next
      ELSE None

\* ... and the object it answers; NULL when the factory gave out halfway.
Answer(n, k, o, create) ==
  LET d == Missing(n, k, o, create)
  IN  IF d = 0 THEN findMetadata(n, k, o)
      ELSE IF d <= Supply THEN next + (o - Len(kids[n][k]))
      ELSE None

\* The vector without one object: the one at o, or the last if o is not there.
\* The objects behind it move up.
RemoveAt(s, o) ==
  [i \in 1 .. Len(s) - 1 |-> IF i < o + 1 THEN s[i] ELSE s[i + 1]]

\* Mutant of deleteMetadatum: the objects that move up keep their old number.
deleteMetadatumStale(n, k, o) ==
  IF kids[n][k] = <<>> THEN UNCHANGED heap
  ELSE /\ kids' = [kids EXCEPT ![n][k] = RemoveAt(kids[n][k], o)]
       /\ UNCHANGED <<md, next>>

PositionOf(s, m) == CHOOSE i \in DOMAIN s : s[i] = m

\* PmtElement::deleteMetadatum: collapse the vector and renumber what moved.
deleteMetadatum(n, k, o) ==
  IF kids[n][k] = <<>> THEN UNCHANGED heap
  ELSE LET s == RemoveAt(kids[n][k], o)
       IN  /\ kids' = [kids EXCEPT ![n][k] = s]
           /\ md' = [m \in Node |->
                       IF \E i \in o + 1 .. Len(s) : s[i] = m
                       THEN [md[m] EXCEPT !.occurrence = PositionOf(s, m) - 1]
                       ELSE md[m]]
           /\ UNCHANGED next

deleteMetadataAll(n) ==
  /\ kids' = [kids EXCEPT ![n] = [k \in Key |-> <<>>]]
  /\ UNCHANGED <<md, next>>

-----------------------------------------------------------------------------
\* Occurrences of a segment: start() and next() of PmtOccurrence, on a cursor

Start(occ) ==
  IF occ.kind = "unspecified" THEN 0
  ELSE IF occ.list # <<>> THEN occ.list[1] ELSE OCCURRENCE_END

StartCursor(occ) == IF occ.list # <<>> THEN 1 ELSE 0

\* Mutant of NextOccurrence: the index into the list is not incremented.
NextOccurrenceStuck(f) ==
  IF f.seg.occ.kind = "wildcard" /\ f.fn \in {"getPath", "getUnder"}
  THEN [f EXCEPT !.occ = @ + 1]
  ELSE IF f.cur < Len(f.seg.occ.list)
  THEN [f EXCEPT !.occ = f.seg.occ.list[f.cur + 1]]
  ELSE [f EXCEPT !.occ = OCCURRENCE_END]

\* The frame after occurrence->next(), or after occurNum++ in the loops that
\* getMetadata runs for [*].
NextOccurrence(f) ==
  IF f.seg.occ.kind = "wildcard" /\ f.fn \in {"getPath", "getUnder"}
  THEN [f EXCEPT !.occ = @ + 1]
  ELSE IF f.cur < Len(f.seg.occ.list)
  THEN [f EXCEPT !.occ = f.seg.occ.list[f.cur + 1], !.cur = @ + 1]
  ELSE [f EXCEPT !.occ = OCCURRENCE_END]

NewFrame(fn, n, path) ==
  [fn |-> fn, node |-> n, seg |-> Head(path), rest |-> Tail(path), pos |-> 1,
   occ |-> IF Head(path).occ.kind = "wildcard" /\ fn \in {"getPath", "getUnder"}
           THEN 0 ELSE Start(Head(path).occ),
   cur |-> StartCursor(Head(path).occ)]

\* getMetadataPath and deleteMetadataPath look at the first segment first.
GetFrame(n, path) ==
  NewFrame(IF Head(path).kind = "multi" THEN "getUnder" ELSE "getPath", n, path)
DeleteFrame(n, path) ==
  NewFrame(IF Head(path).kind = "key" THEN "deletePath" ELSE "deleteWild", n, path)

\* getMetadataAllUnderForOccurrences of n, sharing the occurrence of frame f.
UnderFrame(n, f) ==
  [f EXCEPT !.node = n, !.seg.match = Key, !.pos = 1,
            !.occ = IF f.seg.occ.kind = "wildcard" THEN 0 ELSE Start(f.seg.occ),
            !.cur = StartCursor(f.seg.occ)]

\* The loop over mMdIterList goes to its next key, which restarts the occurrence.
NextKey(f) ==
  IF f.pos < Len(ElementsOf(f.node))
  THEN [f EXCEPT !.pos = @ + 1,
                 !.occ = IF f.seg.occ.kind = "wildcard" /\ f.fn = "getUnder"
                         THEN 0 ELSE Start(f.seg.occ),
                 !.cur = StartCursor(f.seg.occ)]
  ELSE [f EXCEPT !.pos = @ + 1]

\* The frame after the body of its innermost loop; for ? that loop runs over
\* the keys, else over the occurrences.
AfterBody(f) ==
  IF f.fn = "getPath" /\ f.seg.kind = "single"
  THEN IF f.pos < Len(ElementsOf(f.node))
       THEN [f EXCEPT !.pos = @ + 1]
       ELSE [NextOccurrence(f) EXCEPT !.pos = 1]
  ELSE NextOccurrence(f)

Top == Head(stack)
Replace(f) == <<f>> \o Tail(stack)
Push(f) == <<f>> \o stack

\* Return to the caller.  The frames of one getMetadataAllUnder recursion share
\* a PmtOccurrence: where the callee left its cursor, the caller resumes.
Pop ==
  IF Len(stack) = 1 THEN <<>>
  ELSE LET caller == stack[2]
       IN  <<AfterBody(IF caller.fn = "getUnder"
                       THEN [caller EXCEPT !.cur = Top.cur] ELSE caller)>>
           \o Tail(Tail(stack))

-----------------------------------------------------------------------------
\* What a path without wildcards names, and the objects that are in the tree.
\* The properties compare a call's effect with these.

SingleOccurrence(occ) == occ.kind = "unspecified" \/ Len(occ.list) = 1

Exact(path) ==
  \A i \in DOMAIN path : path[i].kind = "key" /\ SingleOccurrence(path[i].occ)

Find(n, path) ==
  LET F[i \in 0 .. Len(path)] ==
        IF i = 0 THEN n
        ELSE IF F[i - 1] = None THEN None
        ELSE findMetadata(F[i - 1], path[i].key, Start(path[i].occ))
  IN  F[Len(path)]

\* The objects that a path of keys and numbers names, where segments may list several.
Listed(occ) == {Start(occ)} \cup {occ.list[i] : i \in DOMAIN occ.list}

Named(n, path) ==
  LET F[i \in 0 .. Len(path)] ==
        IF i = 0 THEN {n}
        ELSE {findMetadata(m, path[i].key, o) :
                m \in F[i - 1], o \in Listed(path[i].occ)} \ {None}
  IN  F[Len(path)]

\* Keys whose last may have a list of numbers, in any order or from the last to the first.
EndsInList(path) ==
  /\ \A i \in 1 .. Len(path) - 1 : path[i].kind = "key" /\ SingleOccurrence(path[i].occ)
  /\ path[Len(path)].kind = "key" /\ path[Len(path)].occ.kind = "list"

Descends(list) == \A i, j \in DOMAIN list : i < j => list[i] > list[j]

InTree ==
  {m \in 1 .. next - 1 :
     findMetadata(md[m].parent, md[m].key, md[m].occurrence) = m}

-----------------------------------------------------------------------------
\* The calls of a client, on any composite it holds

Begin(op, n, path, create) ==
  /\ stack = <<>>
  /\ call' = [op |-> op, node |-> n, path |-> path, create |-> create,
              target |-> IF Exact(path) THEN Find(n, path) ELSE None,
              named |-> IF EndsInList(path) THEN Named(n, path) ELSE {},
              before |-> InTree]
  /\ iter' = <<>>
  /\ ret' = None
  /\ UNCHANGED held

getMetadatum(n, path, create) ==
  /\ Begin("getMetadatum", n, path, create)
  /\ stack' = <<NewFrame("getMetadatum", n, path)>>
  /\ UNCHANGED heap

getMetadata(n, path, create) ==
  /\ Begin("getMetadata", n, path, create)
  /\ stack' = <<GetFrame(n, path)>>
  /\ UNCHANGED heap

\* The empty key: everything that exists, nothing is created.
AllWildcard == [kind |-> "multi", key |-> RootKey, match |-> Key,
                occ |-> [kind |-> "wildcard", list |-> <<>>]]

getMetadataEmptyKey(n) == getMetadata(n, <<AllWildcard>>, FALSE)

deleteMetadata(n, path) ==
  /\ Begin("deleteMetadata", n, path, FALSE)
  /\ stack' = <<DeleteFrame(n, path)>>
  /\ UNCHANGED heap

\* The keys "" and "*[*]" delete everything at once.
deleteMetadataEverything(n) ==
  /\ Begin("deleteMetadata", n, <<AllWildcard>>, FALSE)
  /\ deleteMetadataAll(n)
  /\ UNCHANGED stack

Call ==
  \E n \in held :
    \/ \E create \in BOOLEAN :
         \/ \E path \in MdPaths : getMetadatum(n, path, create)
         \/ \E path \in GetPaths : getMetadata(n, path, create)
    \/ getMetadataEmptyKey(n)
    \/ \E path \in DeletePaths : deleteMetadata(n, path)
    \/ deleteMetadataEverything(n)

-----------------------------------------------------------------------------
\* The steps of the running call

FrameKey(f) == IF f.seg.kind = "key" THEN f.seg.key ELSE ElementsOf(f.node)[f.pos]

Exhausted(f, k) ==
  IF f.seg.occ.kind = "wildcard" /\ f.fn \in {"getPath", "getUnder"}
  THEN f.occ >= getWildcardMax(f.node, k)
  ELSE f.occ = OCCURRENCE_END

LoopsOverKeys(f) == f.fn \in {"getUnder", "deleteWild"}

FrameDone(f) ==
  \/ LoopsOverKeys(f) /\ f.pos > Len(ElementsOf(f.node))
  \/ f.fn \in {"getPath", "deletePath"} /\ Exhausted(f, f.seg.key)

\* Mutant of KeyDone: the prefix of the wildcard is not compared.
KeyDoneAnyPrefix(f) == LoopsOverKeys(f) /\ Exhausted(f, FrameKey(f))

\* The key the loop is at does not begin with the wildcard's prefix, or all its
\* occurrences are done.
KeyDone(f) ==
  \/ f.seg.kind # "key" /\ FrameKey(f) \notin f.seg.match
  \/ LoopsOverKeys(f) /\ Exhausted(f, FrameKey(f))

Running(fns) ==
  /\ stack # <<>>
  /\ Top.fn \in fns
  /\ UNCHANGED call

Return ==
  /\ Running(Fn)
  /\ FrameDone(Top)
  /\ stack' = Pop
  /\ UNCHANGED <<heap, iter, ret, held>>

SkipKey ==
  /\ Running(Fn \ {"getMetadatum"})
  /\ ~FrameDone(Top)
  /\ KeyDone(Top)
  /\ stack' = Replace(IF LoopsOverKeys(Top) THEN NextKey(Top) ELSE AfterBody(Top))
  /\ UNCHANGED <<heap, iter, ret, held>>

\* One level of getMetadatum: wildcards and several occurrences name nothing;
\* a leaf has no next level.
GetMetadatumLevel ==
  /\ Running({"getMetadatum"})
  /\ UNCHANGED iter
  /\ LET seg == Top.seg
         a == Answer(Top.node, seg.key, Top.occ, call.create)
     IN  IF ~Exact(<<seg>>)
         THEN stack' = Tail(stack) /\ ret' = None /\ UNCHANGED <<heap, held>>
         ELSE /\ CreateMissing(Top.node, seg.key, Top.occ, call.create)
              /\ IF Top.rest # <<>> /\ a # None /\ IsComposite(seg.key)
                 THEN /\ stack' = Replace(NewFrame("getMetadatum", a, Top.rest))
                      /\ UNCHANGED <<ret, held>>
                 ELSE /\ stack' = Tail(stack)
                      /\ ret' = IF Top.rest = <<>> THEN a ELSE None
                      /\ held' = IF ret' # None /\ IsComposite(seg.key)
                                 THEN held \cup {ret'} ELSE held

\* getMetadataPathOccurrenceAndRemainder and
\* getMetadataKeyAndAllUnderForOccurrencesRecursive: a leaf goes into the
\* iterator, a composite is entered.
GetOccurrence ==
  /\ Running({"getPath", "getUnder"})
  /\ ~FrameDone(Top) /\ ~KeyDone(Top)
  /\ LET k == FrameKey(Top)
         a == Answer(Top.node, k, Top.occ, call.create)
     IN  /\ CreateMissing(Top.node, k, Top.occ, call.create)
         /\ iter' = IF a # None /\ ~IsComposite(k) THEN Append(iter, a) ELSE iter
         /\ stack' = IF a # None /\ IsComposite(k) /\ Top.fn = "getUnder"
                     THEN Push(UnderFrame(a, Top))
                     ELSE IF a # None /\ IsComposite(k) /\ Top.rest # <<>>
                     THEN Push(GetFrame(a, Top.rest))
                     ELSE Replace(AfterBody(Top))
  /\ UNCHANGED <<ret, held>>

\* Mutant of DeleteNamed: the object is not looked up before it is deleted.
DeleteNamedUnchecked ==
  /\ Running({"deletePath"})
  /\ ~FrameDone(Top) /\ Top.rest = <<>>
  /\ deleteMetadatum(Top.node, Top.seg.key, Top.occ)
  /\ stack' = Replace(NextOccurrence(Top))
  /\ UNCHANGED <<iter, ret, held>>

\* deleteMetadataPath at the last segment deletes an object only if it exists.
DeleteNamed ==
  /\ Running({"deletePath"})
  /\ ~FrameDone(Top) /\ Top.rest = <<>>
  /\ IF findMetadata(Top.node, Top.seg.key, Top.occ) # None
     THEN deleteMetadatum(Top.node, Top.seg.key, Top.occ)
     ELSE UNCHANGED heap
  /\ stack' = Replace(NextOccurrence(Top))
  /\ UNCHANGED <<iter, ret, held>>

\* Above it, it descends, or gives up on the first object that is missing or is
\* not a composite.
DeleteDescend ==
  /\ Running({"deletePath"})
  /\ ~FrameDone(Top) /\ Top.rest # <<>>
  /\ LET crntMd == findMetadata(Top.node, Top.seg.key, Top.occ)
     IN  stack' = IF crntMd # None /\ IsComposite(Top.seg.key)
                  THEN Push(DeleteFrame(crntMd, Top.rest))
                  ELSE Pop
  /\ UNCHANGED <<heap, iter, ret, held>>

\* A wildcard deletes whatever is at the occurrence, without a look.
DeleteWildcard ==
  /\ Running({"deleteWild"})
  /\ ~FrameDone(Top) /\ ~KeyDone(Top)
  /\ deleteMetadatum(Top.node, FrameKey(Top), Top.occ)
  /\ stack' = Replace(NextOccurrence(Top))
  /\ UNCHANGED <<iter, ret, held>>

Step ==
  \/ Return \/ SkipKey
  \/ GetMetadatumLevel \/ GetOccurrence
  \/ DeleteNamed \/ DeleteDescend \/ DeleteWildcard

Init ==
  /\ kids = [n \in Node |-> [k \in Key |-> <<>>]]
  /\ md = [n \in Node |-> [key |-> RootKey, parent |-> None, occurrence |-> 1]]
  /\ next = 1
  /\ stack = <<>>
  /\ call = [op |-> "none", node |-> 0, path |-> <<>>, create |-> FALSE,
             target |-> None, named |-> {}, before |-> {}]
  /\ iter = <<>>
  /\ ret = None
  /\ held = {0}

Next == Call \/ Step

Spec == Init /\ [][Next]_vars

\* A call of the library runs to its end on its own.
FairSpec == Spec /\ WF_vars(Step)

-----------------------------------------------------------------------------
\* Properties

\* The kinds of value the state holds.
TypeOK ==
  /\ kids \in [Node -> [Key -> Seq(Node)]]
  /\ md \in [Node -> [key : Key \cup {RootKey}, parent : Node \cup {None},
                      occurrence : Nat]]
  /\ next \in 1 .. MaxNode + 1
  /\ stack \in Seq(Frame)
  /\ \A i \in DOMAIN stack : stack[i].node < next
  /\ iter \in Seq(Node)
  /\ ret \in Node \cup {None}
  /\ held \subseteq 0 .. next - 1

\* Whatever was created, deleted and created again: the object at position i of
\* an element knows that it is occurrence i of that element of that composite,
\* which is what key() and fullKey() print and getMetadatum() looks up.  It
\* follows that no object is in two places (collapsing the vector in
\* PmtVectorElement::deleteMetadatum, numbering in createFromFactory...).
OccurrencesNumbered ==
  \A n \in Node : \A k \in Key : \A i \in 1 .. Len(kids[n][k]) :
    LET m == kids[n][k][i]
    IN  m \in 1 .. next - 1 /\ md[m] = [key |-> k, parent |-> n, occurrence |-> i - 1]

\* Items of a choice exclude each other: no composite ever holds objects of two
\* of them, however deep the model groups nest (PmtChoiceModelGroup::okToCreate).
ChoiceExclusive ==
  \A n \in Node : \A g \in Choice : \A x, y \in Items[g] :
    x # y => \A k \in KeysUnder[x], l \in KeysUnder[y] :
               kids[n][k] = <<>> \/ kids[n][l] = <<>>

\* No element holds more objects than its maxOccurs, whether they were asked for
\* by number, by wildcard or filled in to reach minOccurs.
WithinMaxOccurs ==
  \A n \in Node : \A k \in Key : Len(kids[n][k]) <= MaxOccurs[k]

\* A step that adds occurrences leaves at least minOccurs of them, unless the
\* factory gave out (getMetadatumCheckingForMinOccurrences).
FilledToMinOccurs ==
  [][\A n \in Node : \A k \in Key :
       Len(kids'[n][k]) > Len(kids[n][k]) /\ next' <= MaxNode
         => Len(kids'[n][k]) >= MinOccurs[k]]_vars

Idle(op) == stack = <<>> /\ call.op = op

\* getMetadatum of a path without wildcards answers the object that a later
\* lookup of the path finds, and the one that was there before if there was one.
\* Only when the factory gives out may it answer NULL for one it created.
GetMetadatumFindsPath ==
  Idle("getMetadatum") /\ Exact(call.path) =>
    /\ \/ ret = Find(call.node, call.path)
       \/ ret = None /\ next > MaxNode
    /\ call.target # None => ret = call.target

\* The objects whose mParent chain reaches n.
Below(n) ==
  LET B[m \in 0 .. next - 1] == m # 0 /\ (md[m].parent = n \/ B[md[m].parent])
  IN  {m \in 1 .. next - 1 : B[m]}

\* The leaves below n that no deletion has cut off from n.
LeavesUnder(n) ==
  {m \in Below(n) \cap InTree :
     ~IsComposite(md[m].key) /\ \A c \in Below(n) : m \in Below(c) => c \in InTree}

\* getMetadata("") and getMetadata("*[*]") answer each existing leaf below the
\* composite, of every occurrence and at every level, once, and create nothing
\* when they may not.
EmptyKeyGetsEverything ==
  Idle("getMetadata") /\ call.path = <<AllWildcard>> /\ ~call.create =>
    /\ {iter[i] : i \in DOMAIN iter} =
         LeavesUnder(call.node)
    /\ \A i, j \in DOMAIN iter : i # j => iter[i] # iter[j]
    /\ InTree = call.before

\* deleteMetadata of a path without wildcards removes exactly the object the
\* path named when the call was made, or nothing if there was none.
DeleteRemovesNamed ==
  Idle("deleteMetadata") /\ Exact(call.path) => InTree = call.before \ {call.target}

\* Whatever a deletion with wildcards or several occurrences removes is below
\* the composite it was called on and has a key that its last segment, or its
\* first one with a wildcard, matches.  Which occurrences of the key go, it does
\* not say: a list of numbers may delete others than those it names.
DeleteStaysInPath ==
  Idle("deleteMetadata") =>
    \A m \in call.before \ InTree :
      /\ m \in Below(call.node)
      /\ \E i \in DOMAIN call.path :
           /\ \A j \in 1 .. i - 1 : call.path[j].kind = "key"
           /\ i = Len(call.path) \/ call.path[i].kind # "key"
           /\ md[m].key \in call.path[i].match \cup {call.path[i].key}

\* A deletion removes exactly the object its path names, where the path names one, and
\* in any case nothing of another key or another composite.
DeletesWhatIsNamed == DeleteRemovesNamed /\ DeleteStaysInPath

\* A list of numbers from the last to the first deletes exactly the objects that had
\* these numbers at the call, which none of its deletions changes (PmtVectorElement::
\* deleteMetadatum moves up only what is behind), and passes over numbers that are not
\* there.
DescendingListDeletesNamed ==
  Idle("deleteMetadata") /\ EndsInList(call.path)
    /\ Descends(call.path[Len(call.path)].occ.list)
    => InTree = call.before \ call.named

\* Every call returns: the loops over keys, occurrences and [*], whose bound is
\* read again while the loop creates, all end.
CallsReturn == (stack # <<>>) ~> (stack = <<>>)

=============================================================================
