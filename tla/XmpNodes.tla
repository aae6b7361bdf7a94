------------------------------ MODULE XmpNodes ------------------------------
(***************************************************************************)
(* The tree of RDF nodes an XMP accessor keeps of its packet, and the text *)
(* it is written as.  A node is a record of its key, its attributes in     *)
(* order, its sub nodes in order, its content and the name spaces it       *)
(* declares beside those the name space manager knows.                     *)
(*                                                                         *)
(* Searches go depth first: a node, then its attributes, then its sub      *)
(* nodes one after the other.  A place is the path of positions that leads *)
(* to a node.                                                              *)
(***************************************************************************)
EXTENDS XmpTypes, SequencesExt

CONSTANTS
  Key,         \* the keys of nodes and attributes, uri and local name
  Space(_),    \* the name space of a key
  Managed,     \* the name spaces XMPNameSpaceManager has a prefix for
  Markup       \* the letters CXMLEncoder has a mapping for

ASSUME XmpNodesAssumption ==
  {"rdf:RDF", "rdf:Description", "rdf:Seq", "rdf:Bag", "rdf:Alt", "rdf:li", "xml:lang"} \subseteq Key

Attribute(key, value) == [key |-> key, value |-> value]

Node(key, attributes, subs, content) ==
  [key |-> key, attributes |-> attributes, subs |-> subs, content |-> content,
   declares |-> {}]

Leaf(key, content) == Node(key, <<>>, <<>>, content)
Branch(key, subs) == Node(key, <<>>, subs, NoText)

HasAttribute(node, key) == \E i \in DOMAIN node.attributes : node.attributes[i].key = key

Unfound == <<0>>

\* The first place whose node has the key, or carries it as an attribute, as kinds
\* asks.
RECURSIVE PlaceOf(_, _, _), PlaceBelow(_, _, _, _)
PlaceOf(node, key, kinds) ==
  IF \/ "node" \in kinds /\ node.key = key
     \/ "attribute" \in kinds /\ HasAttribute(node, key)
  THEN <<>> ELSE PlaceBelow(node, 1, key, kinds)

\* The same, among the sub nodes from the i-th on.
PlaceBelow(node, i, key, kinds) ==
  IF i > Len(node.subs) THEN Unfound
  ELSE LET place == PlaceOf(node.subs[i], key, kinds)
       IN  IF place # Unfound THEN <<i>> \o place ELSE PlaceBelow(node, i + 1, key, kinds)

RECURSIVE At(_, _)
At(node, place) == IF place = <<>> THEN node ELSE At(node.subs[Head(place)], Tail(place))

RECURSIVE With(_, _, _)
With(node, place, new) ==
  IF place = <<>> THEN new
  ELSE [node EXCEPT !.subs[Head(place)] = With(@, Tail(place), new)]

\* GetXMPNode
GetXMPNode(node, key) == PlaceOf(node, key, {"node"})

\* AddSubNode
AddSubNode(node, sub) == [node EXCEPT !.subs = Append(@, sub)]

\* GetXMPNode that creates: the tree, in which the key now has a place.
Created(node, key) ==
  IF GetXMPNode(node, key) # Unfound THEN node ELSE AddSubNode(node, Leaf(key, NoText))

ValueOfAttribute(node, key) ==
  node.attributes[Min({i \in DOMAIN node.attributes : node.attributes[i].key = key})].value

ValueAt(node, key) == IF node.key = key THEN node.content ELSE ValueOfAttribute(node, key)

\* GetKeyValue: the content of a node or the value of an attribute; NoText stands
\* for null as well.
GetKeyValue(node, key) ==
  LET place == PlaceOf(node, key, {"node", "attribute"})
  IN  IF place = Unfound THEN NoText ELSE ValueAt(At(node, place), key)

UpdateAttribute(node, key, text) ==
  LET i == Min({j \in DOMAIN node.attributes : node.attributes[j].key = key})
  IN  [node EXCEPT !.attributes[i].value = text]

AddAttribute(node, key, text) == [node EXCEPT !.attributes = Append(@, Attribute(key, text))]

\* UpdateAttributeValue that creates
UpdateAttributeValue(node, key, text) ==
  LET place == PlaceOf(node, key, {"attribute"})
  IN  IF place = Unfound THEN AddAttribute(node, key, text)
      ELSE With(node, place, UpdateAttribute(At(node, place), key, text))

\* UpdateSubKeyValue that creates: only nodes are looked at, and a sub node is added.
UpdateSubKeyValue(node, key, text) ==
  LET place == GetXMPNode(node, key)
  IN  IF place = Unfound THEN AddSubNode(node, Leaf(key, text))
      ELSE With(node, place, [At(node, place) EXCEPT !.content = text])

\* UpdateKeyValue that creates: where the key is found as a node or an attribute,
\* or else as an attribute of the node asked.
UpdateKeyValue(node, key, text) ==
  LET place == PlaceOf(node, key, {"node", "attribute"})
      at == At(node, place)
  IN  IF place = Unfound THEN AddAttribute(node, key, text)
      ELSE With(node, place, IF at.key = key THEN [at EXCEPT !.content = text]
                             ELSE UpdateAttribute(at, key, text))

-----------------------------------------------------------------------------
\* Lists: a node with a rdf:Seq or a rdf:Bag of rdf:li

Items(texts) == [i \in DOMAIN texts |-> Leaf("rdf:li", texts[i])]

Joined(place, inside) == IF inside = Unfound THEN Unfound ELSE place \o inside

\* The place of a key below a place
PlaceUnder(node, place, key) ==
  IF place = Unfound THEN Unfound ELSE Joined(place, GetXMPNode(At(node, place), key))

Container(node, key, kind) == PlaceUnder(node, GetXMPNode(node, key), kind)

CreatedUnder(node, place, key) == With(node, place, Created(At(node, place), key))

\* The node, with the container for the key created if it is not there.
WithContainer(node, key, kind) ==
  LET held == Created(node, key) IN CreatedUnder(held, GetXMPNode(held, key), kind)

\* The contents of sub nodes, as far as they are of rdf:li.
ListTexts(subs) ==
  LET others == {i \in DOMAIN subs : subs[i].key # "rdf:li"}
      count == IF others = {} THEN Len(subs) ELSE Min(others) - 1
  IN  [i \in 1 .. count |-> subs[i].content]

\* GetKeyValueVector
GetKeyValueVector(node, key, kind) ==
  LET place == Container(node, key, kind)
  IN  IF place = Unfound THEN <<>> ELSE ListTexts(At(node, place).subs)

WithItems(node, place, texts) == With(node, place, [At(node, place) EXCEPT !.subs = Items(texts)])

\* UpdateKeyValueVector that creates
UpdateKeyValueVector(node, key, texts, kind) ==
  LET new == WithContainer(node, key, kind) IN WithItems(new, Container(new, key, kind), texts)

WithItem(node, place, index, text) ==
  LET list == At(node, place)
  IN  With(node, place,
           IF index + 1 \in DOMAIN list.subs THEN [list EXCEPT !.subs[index + 1].content = text]
           ELSE AddSubNode(list, Leaf("rdf:li", text)))

\* Mutant of UpdateKeyValueVectorIndex: the index counts from 1.
UpdateKeyValueVectorIndexOne(node, key, text, index, kind) ==
  LET new == WithContainer(node, key, kind)
  IN  WithItem(new, Container(new, key, kind), index - 1, text)

\* UpdateKeyValueVectorIndex that creates: an index behind the end appends.
UpdateKeyValueVectorIndex(node, key, text, index, kind) ==
  LET new == WithContainer(node, key, kind)
  IN  WithItem(new, Container(new, key, kind), index, text)

RemoveKeyAt(node, place, key) ==
  LET at == At(node, place)
      First(list) == Min({i \in DOMAIN list : list[i].key = key})
      above == SubSeq(place, 1, Len(place) - 1)
      parent == At(node, above)
  IN  IF place = Unfound THEN node
      ELSE IF place = <<>> \/ at.key # key
      THEN With(node, place, [at EXCEPT !.attributes = RemoveAt(@, First(@))])
      ELSE With(node, above, [parent EXCEPT !.subs = RemoveAt(@, place[Len(place)])])

\* RemoveKey: the first attribute or node below with the key goes.
RemoveKey(node, key) ==
  RemoveKeyAt(node, PlaceOf([node EXCEPT !.key = "none"], key, {"node", "attribute"}), key)

Without(list, index) ==
  IF index = 0 /\ list.subs # <<>> THEN [list EXCEPT !.subs = Tail(@)] ELSE list

\* RemoveKeyVectorIndex: the count is never advanced, so that only the item with
\* index 0 is ever found; a list left empty goes with its node.
RemoveKeyVectorIndex(node, key, index) ==
  LET kind == IF Container(node, key, "rdf:Seq") # Unfound THEN "rdf:Seq" ELSE "rdf:Bag"
      place == Container(node, key, kind)
      left == Without(At(node, place), index)
  IN  IF place = Unfound THEN node
      ELSE IF left.subs = <<>> THEN RemoveKey(node, key)
      ELSE With(node, place, left)

-----------------------------------------------------------------------------
\* Texts in languages: a node with a rdf:Alt of rdf:li with a xml:lang

WithDefault(node, place, text) ==
  LET item == Node("rdf:li", <<Attribute("xml:lang", <<"string", <<"x-default">>>>)>>, <<>>, text)
  IN  With(node, place,
           AddSubNode(RemoveKey(At(node, place), "rdf:Alt"), Branch("rdf:Alt", <<item>>)))

\* UpdateKeyValueLanguage, with the one language the accessor gives it: what was
\* there in other languages goes.
UpdateKeyValueLanguage(node, key, text) ==
  LET held == Created(node, key) IN WithDefault(held, GetXMPNode(held, key), text)

\* The text in the default language, or the first of the others; NoText for none,
\* and where a language occurs twice.
DefaultText(subs) ==
  LET Lang(i) == GetKeyValue(subs[i], "xml:lang")
      given == {i \in DOMAIN subs : subs[i].key = "rdf:li" /\ Lang(i) # NoText}
      default == {i \in given : Lang(i) = <<"string", <<"x-default">>>>}
  IN  IF given = {} \/ \E i, j \in given : i # j /\ Lang(i) = Lang(j) THEN NoText
      ELSE subs[IF default # {} THEN Min(default) ELSE Min(given)].content

\* GetKeyValueLanguage
GetKeyValueLanguage(node, key) ==
  LET place == Container(node, key, "rdf:Alt")
  IN  IF place = Unfound THEN NoText ELSE DefaultText(At(node, place).subs)

-----------------------------------------------------------------------------
\* Merging a packet

\* Mutant of IsStructureNode: only texts in languages are.
IsStructureNodeAlt(node) == node.key = "rdf:Alt"

\* IsStructureNode
IsStructureNode(node) == node.key \in {"rdf:Alt", "rdf:Bag", "rdf:Seq"}

\* AppendNode, of nodes with the same key: a structure is replaced as a whole;
\* otherwise the content is, attributes are updated or added, and sub nodes are
\* merged with the first of the same key, even one of the same packet.
RECURSIVE AppendNode(_, _)
AppendNode(node, new) ==
  LET attributed == FoldLeft(LAMBDA n, a : UpdateAttributeValue(n, a.key, a.value),
                             [node EXCEPT !.content = new.content,
                                          !.declares = @ \cup new.declares],
                             new.attributes)
      AddSub(n, sub) ==
        LET same == {i \in DOMAIN n.subs : n.subs[i].key = sub.key}
        IN  IF same = {} THEN AddSubNode(n, AppendNode(Leaf(sub.key, sub.content), sub))
            ELSE [n EXCEPT !.subs[Min(same)] = AppendNode(@, sub)]
  IN  IF IsStructureNode(node) THEN new ELSE FoldLeft(AddSub, attributed, new.subs)

-----------------------------------------------------------------------------
\* The text of a tree, and the tree of a text

\* A text CXMLEncoder::Encode has nothing to change in.
Plain(text) == text[1] # "string" \/ \A i \in DOMAIN text[2] : text[2][i] \notin Markup

\* GetPrefix, of a name space declared so far or one the manager knows from the start.
HasPrefix(key, declared) == Space(key) \in declared \cup Managed

\* ValidateNameSpace: the name spaces that the node or one above declares.
Declared(node, above) == above \cup node.declares

\* operator<<: a key is printed with the prefix of its name space, if one is declared
\* or the manager knows it; without one it is no name.  Contents are encoded, values
\* of attributes are not.
RECURSIVE WellFormed(_, _)
WellFormed(node, declared) ==
  LET known == Declared(node, declared)
  IN  /\ HasPrefix(node.key, known)
      /\ \A i \in DOMAIN node.attributes :
           HasPrefix(node.attributes[i].key, known) /\ Plain(node.attributes[i].value)
      /\ \A i \in DOMAIN node.subs : WellFormed(node.subs[i], known)

\* PmtXMPSAXParser, on a text operator<< has written: the content of a node with
\* sub nodes was not written.
RECURSIVE Parsed(_)
Parsed(node) ==
  FoldLeft(LAMBDA n, sub : AddSubNode(n, Parsed(sub)),
           [node EXCEPT !.content = IF node.subs # <<>> THEN NoText ELSE @, !.subs = <<>>],
           node.subs)

\* How often a key occurs in a tree.
RECURSIVE Occurrences(_, _)
Occurrences(node, key) ==
  (IF node.key = key THEN 1 ELSE 0)
  + Cardinality({i \in DOMAIN node.attributes : node.attributes[i].key = key})
  + FoldLeft(LAMBDA n, sub : n + Occurrences(sub, key), 0, node.subs)
=============================================================================
