---------------------------- MODULE SchemaHandler ----------------------------
(***************************************************************************)
(* How a schema is read (PmtSchemaSAX2Handler): the events of the SAX      *)
(* parser, one at a time, build the items of PmtOrder.h.  The handler      *)
(* keeps no stack of what is open; it finds its way with a few pointers to *)
(* the current items and with the parents of the complex types.            *)
(*                                                                         *)
(* Items are numbered in the order of their creation; 0 is the null        *)
(* pointer.  Name spaces, minOccurs, nillable, the defaults of attributes  *)
(* and the embedded documentation are left out.                            *)
(***************************************************************************)
EXTENDS Naturals, Sequences, SequencesExt, FiniteSetsExt

CONSTANT Root      \* ROOT_ELEMENT_NAME

Tag == {"schema", "element", "complexType", "sequence", "choice", "attribute",
        "simpleType", "restriction", "list", "minInclusive", "enumeration",
        "simpleContent", "complexContent", "extension", "include", "annotation",
        "documentation"}

Group == {"sequence", "choice"}

\* What a schema has within what: external, the parser and the documents see
\* to it.
Content ==
  [schema         |-> {"element", "complexType", "simpleType", "attribute", "include", "annotation"},
   element        |-> {"complexType", "simpleType", "annotation"},
   complexType    |-> Group \cup {"attribute", "simpleContent", "complexContent", "annotation"},
   sequence       |-> Group \cup {"element"},
   choice         |-> Group \cup {"element"},
   attribute      |-> {"annotation"},
   simpleType     |-> {"restriction", "list", "annotation"},
   restriction    |-> {"minInclusive", "enumeration"},
   list           |-> {},
   minInclusive   |-> {},
   enumeration    |-> {},
   simpleContent  |-> {"extension"},
   complexContent |-> {"extension", "restriction"},
   extension      |-> Group \cup {"attribute"},
   include        |-> {},
   annotation     |-> {"documentation"},
   documentation  |-> {}]

VARIABLES
  rest,   \* external: the events the SAX parser has yet to deliver
  open,   \* external: the elements of the document that are open, each with
          \* the item it made, if any, and whether it has simple content
  h       \* the handler: its pointers and the items

handlerVars == <<rest, open, h>>

-----------------------------------------------------------------------------
\* The items

NoNames == [x \in {} |-> 0]

\* A new item.  Only complex types have groups (mElements), the three maps of
\* names, and a parent; facets are sets of values by their names.
Item(kind, name, type, max) ==
  [kind |-> kind, name |-> name, type |-> type, max |-> max,
   base |-> "", vector |-> FALSE, facets |-> NoNames, attributes |-> <<>>,
   groups |-> <<>>, elements |-> NoNames, types |-> NoNames,
   attrs |-> NoNames, parent |-> 0]

\* map::insert: what is there stays.
Insert(map, key, value) ==
  IF key \in DOMAIN map THEN map
  ELSE [k \in DOMAIN map \cup {key} |-> IF k = key THEN value ELSE map[k]]

\* findElementInList, findTypeInList and findAttributeInList: the item's own
\* list, then those of its parents; parents are older than their children.
Find(items, map, at, name) ==
  LET find[i \in 0 .. Len(items)] ==
        IF i = 0 THEN 0
        ELSE IF name \in DOMAIN items[i][map] THEN items[i][map][name]
        ELSE IF items[i].parent < i THEN find[items[i].parent] ELSE 0
  IN  find[at]

\* addElement: to the last model group opened, or nowhere.
AddElement(item, n) ==
  IF item.groups = <<>> THEN item
  ELSE [item EXCEPT !.groups[Len(item.groups)].items = Append(@, n)]

AddFacet(facets, name, value) ==
  [f \in DOMAIN facets \cup {name} |->
     (IF f \in DOMAIN facets THEN facets[f] ELSE {})
       \cup (IF f = name THEN {value} ELSE {})]

-----------------------------------------------------------------------------
\* The handler

\* Its constructor.  mInRestriction is read within a restriction only.
NewHandler ==
  [noErrors |-> TRUE, annotation |-> FALSE, type |-> 0, name |-> "",
   parent |-> 0, element |-> 0, attribute |-> 0, schema |-> 0, facet |-> 0,
   max |-> 1, converted |-> FALSE, items |-> <<>>,
   includes |-> <<>>,    \* mIncludes, which its parser keeps
   strayed |-> FALSE,    \* history: a choice has ended a complex type
   lost |-> FALSE]       \* history: a reference has found no declaration yet,
                         \* or a base or an attribute went to a stale element

New(g, item) == [g EXCEPT !.items = Append(@, item)]

\* The innermost item that is current, from the innermost out.
Current(g) ==
  CASE g.type # 0 -> g.type
    [] g.type = 0 /\ g.attribute # 0 -> g.attribute
    [] g.type = 0 /\ g.attribute = 0 /\ g.element # 0 -> g.element
    [] OTHER -> g.parent

\* A complex type with item n in its model group, and known as an element and as a
\* type by the names given.
With(item, n, element, type) ==
  LET added == AddElement(item, n)
  IN  [added EXCEPT !.elements = IF element = "" THEN @ ELSE Insert(@, element, n),
                    !.types = IF type = "" THEN @ ELSE Insert(@, type, n)]

\* Item n in the current complex type.
InParent(g, n, element, type) ==
  IF g.parent = 0 THEN g
  ELSE [g EXCEPT !.items[g.parent] = With(@, n, element, type)]

Answers(g, noErrors) == [g EXCEPT !.noErrors = noErrors]

\* The current element is a type with simple content that has ended: only the
\* types made elements have a parent.
Stale(g) == g.element # 0 /\ ~g.converted /\ g.items[g.element].parent # 0

processSchema(g, e) ==
  IF g.parent # 0 THEN Answers(g, FALSE)
  ELSE LET n == Len(g.items) + 1
       IN  [New(g, Item("complex", "schema", "schema", 1)) EXCEPT
              !.schema = n, !.parent = n, !.noErrors = TRUE]

\* An element with a name and a type; one with a name only, whose type follows;
\* a reference, in whose place the declaration it names is added once more, if
\* that has been read.
processElement(g, e) ==
  LET n == Len(g.items) + 1
      named == [g EXCEPT !.name = e.name, !.max = e.max, !.noErrors = TRUE]
      found == Find(g.items, "elements", g.parent, e.ref)
  IN  CASE e.name # "" /\ e.type # "" ->
             IF g.parent = 0 THEN [named EXCEPT !.element = 0]
             ELSE [InParent(New(named, Item("element", e.name, e.type, e.max)), n, e.name, "")
                     EXCEPT !.element = n]
        [] e.name # "" /\ e.type = "" -> named
        [] e.name = "" /\ found # 0 -> Answers(InParent(g, found, "", ""), TRUE)
        [] OTHER -> [Answers(g, TRUE) EXCEPT !.lost = TRUE]

\* A complex type without a name has that of the last element, and at least its
\* maxOccurs.
processComplexType(g, e) ==
  LET n == Len(g.items) + 1
      name == IF e.name = "" THEN g.name ELSE e.name
      max == IF e.name = "" /\ g.max > e.max THEN g.max ELSE e.max
      item == [Item("complex", name, e.type, max) EXCEPT !.parent = g.parent]
  IN  [InParent(New(g, item), n, name, name) EXCEPT
         !.parent = n, !.max = max, !.noErrors = TRUE]

processGroup(g, order) ==
  IF g.parent = 0 THEN Answers(g, FALSE)
  ELSE [g EXCEPT !.items[g.parent].groups = Append(@, [order |-> order, items |-> <<>>]),
                 !.noErrors = TRUE]

\* An attribute of the current element, or else of the current complex type;
\* its name is known in the complex type either way.
processAttribute(g, e) ==
  LET n == Len(g.items) + 1
      found == Find(g.items, "attrs", g.parent, e.ref)
      made == [New(g, Item("attribute", e.name, e.type, 1)) EXCEPT
                 !.items[g.parent].attrs = Insert(@, e.name, n)]
      attribute == IF e.ref = "" THEN n ELSE found
      owner == IF g.element # 0 THEN g.element ELSE g.parent
  IN  IF g.parent = 0 \/ attribute = 0 THEN [Answers(g, FALSE) EXCEPT !.lost = TRUE]
      ELSE [(IF e.ref = "" THEN made ELSE g) EXCEPT
              !.items[owner].attributes = Append(@, attribute),
              !.attribute = attribute, !.noErrors = TRUE,
              !.lost = @ \/ Stale(g)]

Anonymous(name) == name \o ".SimpleType"

\* A simple type without a name makes the element it is the type of.  The type
\* itself is added to the model group too.
processSimpleType(g, e) ==
  LET n == Len(g.items) + 1
      max == IF e.name = "" /\ g.max > e.max THEN g.max ELSE e.max
      name == IF e.name = "" THEN Anonymous(g.name) ELSE e.name
      made == [InParent(New(g, Item("element", g.name, name, max)), n, g.name, "")
                 EXCEPT !.element = n]
      owned == IF e.name = "" THEN made ELSE g
      s == Len(owned.items) + 1
  IN  IF g.parent = 0 THEN [g EXCEPT !.max = e.max, !.noErrors = FALSE]
      ELSE [InParent(New(owned, Item("simple", name, "", 1)), s, "", name) EXCEPT
              !.type = s, !.max = max, !.noErrors = TRUE]

\* A restriction, or a list: what the current simple type is made from.
Derived(g, e, vector) ==
  IF g.type = 0 THEN Answers(g, FALSE)
  ELSE [g EXCEPT !.items[g.type].base = e.base, !.items[g.type].vector = vector,
                 !.noErrors = TRUE]

processRestriction(g, e) == Derived(g, e, FALSE)

processList(g, e) == Derived(g, e, TRUE)

\* The values of a restriction's enumeration come together in one facet.
processEnumeration(g, e) ==
  LET owner == IF g.facet # 0 THEN g.facet ELSE Current(g)
  IN  IF owner = 0 THEN Answers(g, TRUE)
      ELSE [g EXCEPT !.items[owner].facets = AddFacet(@, "enumeration", e.value),
                     !.facet = owner, !.noErrors = TRUE]

processMinMaxInclusive(g, e) ==
  IF Current(g) = 0 THEN Answers(g, FALSE)
  ELSE [g EXCEPT !.items[Current(g)].facets = AddFacet(@, "minInclusive", e.value),
                 !.noErrors = TRUE]

\* The complex type becomes the element that is current.
processSimpleContent(g, e) ==
  IF g.parent = 0 THEN Answers(g, FALSE)
  ELSE [g EXCEPT !.element = g.parent, !.items[g.parent].kind = "element",
                 !.parent = g.items[g.parent].parent, !.converted = TRUE,
                 !.noErrors = TRUE]

\* The base of the current element, and of the complex type around it.
processExtension(g, e) ==
  LET based == IF g.element = 0 THEN g
               ELSE [g EXCEPT !.items[g.element].base = e.base, !.lost = @ \/ Stale(g)]
  IN  IF g.parent = 0 THEN Answers(based, FALSE)
      ELSE [based EXCEPT !.items[g.parent].base = e.base, !.noErrors = TRUE]

processIncludes(g, e) ==
  [g EXCEPT !.includes = Append(@, e.value), !.noErrors = TRUE]

-----------------------------------------------------------------------------
\* The callbacks

\* startElement outside of an annotation, by the name of the element.
Started(g, e) ==
  CASE e.tag = "schema" -> processSchema(g, e)
    [] e.tag = "element" -> processElement(g, e)
    [] e.tag = "complexType" -> processComplexType(g, e)
    [] e.tag \in Group -> processGroup(g, e.tag)
    [] e.tag = "attribute" -> processAttribute(g, e)
    [] e.tag = "simpleType" -> processSimpleType(g, e)
    [] e.tag = "restriction" -> processRestriction(g, e)
    [] e.tag = "list" -> processList(g, e)
    [] e.tag = "enumeration" -> processEnumeration(g, e)
    [] e.tag = "minInclusive" -> processMinMaxInclusive(g, e)
    [] e.tag = "simpleContent" -> processSimpleContent(g, e)
    [] e.tag = "complexContent" -> Answers(g, TRUE)
    [] e.tag = "extension" -> processExtension(g, e)
    [] e.tag = "include" -> processIncludes(g, e)
    [] e.tag = "annotation" -> [g EXCEPT !.annotation = TRUE, !.noErrors = TRUE]

\* Mutant: what was made an element is ended as a complex type.
EndComplexTypeAlways(g) ==
  [g EXCEPT !.element = 0, !.parent = IF g.parent = 0 THEN 0 ELSE g.items[g.parent].parent]

\* The end of a complex type: what was made an element is left as it is, and
\* stays the current element.
EndComplexType(g) ==
  IF g.converted THEN [g EXCEPT !.converted = FALSE]
  ELSE [g EXCEPT !.element = 0,
                 !.parent = IF g.parent = 0 THEN 0 ELSE g.items[g.parent].parent]

\* What endElement may make of g outside of an annotation.  A name with a c is
\* that of a complex type when its eighth character is a T: the name choice has
\* six, and what lies behind it in memory decides.
Ended(g, tag) ==
  CASE tag = "attribute" -> {[g EXCEPT !.attribute = 0]}
    [] tag = "complexType" -> {EndComplexType(g)}
    [] tag = "choice" -> {g, [EndComplexType(g) EXCEPT !.strayed = TRUE]}
    [] tag = "element" -> {[g EXCEPT !.element = 0]}
    [] tag = "restriction" -> {[g EXCEPT !.facet = 0]}
    [] tag \in {"schema", "sequence", "simpleType", "simpleContent"} -> {[g EXCEPT !.type = 0]}
    [] OTHER -> {g}

\* What may come next: what has simple content has no model groups.
Allowed ==
  IF open = <<>> THEN {"schema"}
  ELSE Content[Last(open).tag] \
         IF \E i \in DOMAIN open : open[i].simple
         THEN Group \cup {"simpleContent", "complexContent"} ELSE {}

\* The parser delivers the start of an element that may be where it is.
startElement ==
  /\ rest # <<>> /\ Head(rest).start
  /\ LET e == Head(rest)
         outer == IF e.tag # "simpleContent" THEN open
                  ELSE [open EXCEPT ![Len(open)].simple = TRUE]
     IN  /\ e.tag \in Allowed
         /\ h' = IF h.annotation THEN h ELSE Started(h, e)
         /\ open' = Append(outer, [tag |-> e.tag, simple |-> FALSE,
                                   item |-> IF e.tag = "schema" THEN h'.schema
                                            ELSE Len(h'.items)])
  /\ rest' = Tail(rest)

\* It delivers the end of the element that was opened last.
endElement ==
  /\ rest # <<>> /\ ~Head(rest).start /\ open # <<>>
  /\ Head(rest).tag = Last(open).tag
  /\ h' \in IF ~h.annotation THEN Ended(h, Last(open).tag)
             ELSE {[h EXCEPT !.annotation = Last(open).tag # "annotation"]}
  /\ open' = Front(open)
  /\ rest' = Tail(rest)

HandlerInit == open = <<>> /\ h = NewHandler

HandlerNext == startElement \/ endElement

\* The next included file is to be read: the last one of mIncludes is taken out.
NextFile ==
  /\ open = <<>> /\ h.includes # <<>>
  /\ h' = [h EXCEPT !.includes = Front(@)]
  /\ UNCHANGED open

\* Another load begins, with a new handler.
Renew == open' = <<>> /\ h' = NewHandler

\* The handler by itself, whatever events it is given.
HandlerSpec == HandlerInit /\ [][HandlerNext \/ NextFile \/ Renew]_handlerVars

-----------------------------------------------------------------------------
\* Properties

Scope == {"schema", "complexType"}

\* The i-th open element is a scope, and k the innermost scope around it.
Encloses(k, i) ==
  /\ k < i /\ open[k].tag \in Scope
  /\ \A j \in k + 1 .. i - 1 : open[j].tag \notin Scope

\* The handler's pointers stand for the stack it does not keep: the current
\* complex type is the innermost one that is open, and while that is being made
\* an element, the one around it.  (processComplexType, processSimpleContent and
\* endElement.)
ParentIsInnermost ==
  \A i \in DOMAIN open :
    Encloses(i, Len(open) + 1) /\ ~h.strayed =>
      IF h.converted
      THEN h.element = open[i].item /\ \E k \in DOMAIN open : Encloses(k, i) /\ h.parent = open[k].item
      ELSE h.parent = open[i].item
=============================================================================
