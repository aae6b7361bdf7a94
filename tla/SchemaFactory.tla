---------------------------- MODULE SchemaFactory ----------------------------
(***************************************************************************)
(* How the items of a schema become prototypes (PmtBaseOrderToFactory):    *)
(* from the root element down, every element is resolved to a primitive    *)
(* type or to a complex type and added to the factory under its full key,  *)
(* its name to the model group of the composite it is in.                  *)
(*                                                                         *)
(* The recursions work on a record: the items, which some steps change,    *)
(* the factories, what the last function returned, and how it ends.        *)
(***************************************************************************)
EXTENDS SchemaHandler

CONSTANTS
  Primitive,   \* the types of XML Schema
  Supported    \* those that metadata can have

ASSUME SupportedAssumption == Supported \subseteq Primitive

VARIABLES
  factory,     \* the prototypes by their full keys, sequences of names
  attributes   \* the prototypes of attributes: pairs of a full key and a name

factoryVars == <<factory, attributes>>

NoFactory == [k \in {} |-> 0]

\* A prototype.  Only composites have model groups; the keys are all in the
\* first of them.
Prototype(type, vector, multiple, facets) ==
  [type |-> type, vector |-> vector, multiple |-> multiple, facets |-> facets,
   attributes |-> {}, groups |-> <<>>, keys |-> <<>>]

Composite(multiple) == Prototype("composite", FALSE, multiple, NoNames)

\* How a step ends: "goes on", or the program loops, dereferences a null
\* pointer, or takes a simple type for a complex one.
Working(items, fact, attr) ==
  [items |-> items, factory |-> fact, attributes |-> attr,
   answer |-> TRUE, ends |-> "goes on"]

Ends(s, how) == [s EXCEPT !.ends = how]

addEntry(s, key, md) ==
  IF key \in DOMAIN s.factory THEN [s EXCEPT !.answer = FALSE]
  ELSE [s EXCEPT !.factory = [k \in DOMAIN @ \cup {key} |-> IF k = key THEN md ELSE @[k]],
                 !.answer = TRUE]

\* addMetadataKey: to the first model group of the parent.
addMetadataKey(s, parent, name, max) ==
  [s EXCEPT !.factory[parent].keys = Append(@, [name |-> name, max |-> max])]

\* PmtOrderElement::addFacet for each of the facets: what is there stays.
Restricted(facets, more) ==
  [f \in DOMAIN facets \cup DOMAIN more |->
     IF f \in DOMAIN facets THEN facets[f] ELSE more[f]]

-----------------------------------------------------------------------------

\* createPrimitiveAttribute: whether the type of an attribute is a supported
\* one in the end.  Names that are not found end the search.
PrimitiveAttribute(items, scope, n) ==
  LET resolved[i \in 0 .. Len(items)] ==
        IF i = 0 \/ items[i].kind # "simple" THEN FALSE
        ELSE IF items[i].base \in Primitive THEN items[i].base \in Supported
        ELSE LET next == Find(items, "types", scope, items[i].base)
             IN  next # i /\ resolved[next]
  IN  IF items[n].type \in Primitive THEN items[n].type \in Supported
      ELSE resolved[Find(items, "types", scope, items[n].type)]

\* Mutant: a prototype is given the new attributes only.
addAttributesAnew(s, key, scope, list) ==
  LET names == {s.items[list[i]].name :
                  i \in {i \in DOMAIN list :
                           /\ PrimitiveAttribute(s.items, scope, list[i])
                           /\ <<key, s.items[list[i]].name>> \notin s.attributes}}
  IN  [s EXCEPT !.attributes = @ \cup {<<key, name>> : name \in names},
                !.factory[key].attributes = names]

\* An attribute that is in the factory already is not given to the prototype.
addAttributes(s, key, scope, list) ==
  LET new == {i \in DOMAIN list :
                /\ PrimitiveAttribute(s.items, scope, list[i])
                /\ <<key, s.items[list[i]].name>> \notin s.attributes}
      names == {s.items[list[i]].name : i \in new}
  IN  [s EXCEPT !.attributes = @ \cup {<<key, name>> : name \in names},
                !.factory[key].attributes = @ \cup names]

\* Mutant: only a type without groups of its own takes those of its base.
ExtendedIfEmpty(s, n, scope) ==
  LET it == s.items[n]
      c == Find(s.items, "types", scope, it.base)
  IN  IF it.base = "" \/ c = 0 \/ it.groups # <<>> THEN s
      ELSE [s EXCEPT !.items[n].groups = s.items[c].groups]

\* The complex type n with what it takes from its base: the attributes behind
\* its own, the model groups in front.  A base that has one itself is looked up
\* again, by the same name, for ever.
Extended(s, n, scope) ==
  LET it == s.items[n]
      c == Find(s.items, "types", scope, it.base)
  IN  IF it.base = "" \/ c = 0 THEN s
      ELSE IF s.items[c].kind = "simple" THEN Ends(s, "takes a simple type")
      ELSE IF s.items[c].base # "" THEN Ends(s, "loops")
      ELSE [s EXCEPT !.items[n].facets = Restricted(@, s.items[c].facets),
                     !.items[n].attributes = @ \o s.items[c].attributes,
                     !.items[n].groups = s.items[c].groups \o @]

RECURSIVE addTreeToFactory(_, _, _, _, _)

\* Each model group and each element of a composite, in their order; what the
\* last element answered is the answer.  An item that is neither a complex type
\* nor an element makes it false.
addItems(s, n, key, list) ==
  LET added[i \in 0 .. Len(list)] ==
        IF i = 0 THEN s
        ELSE IF added[i - 1].ends # "goes on" THEN added[i - 1]
        ELSE addTreeToFactory(added[i - 1], list[i], n, key, s.items[list[i]].name)
  IN  added[Len(list)]

processComplexElements(s, n, key) ==
  LET groups == s.items[n].groups
      done[i \in 0 .. Len(groups)] ==
        IF i = 0 THEN [s EXCEPT !.answer = TRUE]
        ELSE IF done[i - 1].ends # "goes on" THEN done[i - 1]
        ELSE addItems([done[i - 1] EXCEPT !.factory[key].groups = Append(@, groups[i].order)],
                      n, key, groups[i].items)
  IN  done[Len(groups)]

\* A complex type, as the element of that name.  How often it occurs is the
\* type's own maxOccurs, whether it is multiple that of the element.
addComplex(s, n, scope, parent, name) ==
  LET key == IF name = Root THEN <<>> ELSE Append(parent, name)
      declared == Find(s.items, "elements", scope, name)
      multiple == declared # 0 /\ s.items[declared].max > 1
      made == addEntry(s, key, Composite(name # Root /\ multiple))
      entered == IF key \in DOMAIN s.factory THEN s
                 ELSE IF name = Root THEN made
                 ELSE addMetadataKey(made, parent, name, s.items[n].max)
      extended == Extended(entered, n, scope)
  IN  IF extended.ends # "goes on" THEN extended
      ELSE processComplexElements(
             addAttributes(extended, key, n, extended.items[n].attributes), n, key)

\* createMetadata: the element n followed from type to type, taking their facets
\* and attributes, until a primitive type or a complex one.
Resolved(s, n, scope) ==
  LET it == s.items[n]
      from == [item |-> Find(s.items, "types", scope, IF it.base = "" THEN it.type ELSE it.base),
               type |-> it.type, vector |-> FALSE,
               facets |-> it.facets, attributes |-> it.attributes]
      step(r) ==
        LET t == s.items[r.item]
            next == IF t.kind = "simple" \/ t.base # "" THEN t.base ELSE t.type
        IN  [item |-> Find(s.items, "types", scope, next), type |-> next,
             vector |-> IF t.kind = "simple" THEN t.vector ELSE r.vector,
             facets |-> Restricted(r.facets, t.facets),
             attributes |-> IF t.kind = "element" THEN r.attributes \o t.attributes
                            ELSE r.attributes]
      ended(r) == r.type = "" \/ r.type \in Primitive
      walk[i \in 0 .. Len(s.items)] ==
        IF i = 0 THEN from
        ELSE LET r == walk[i - 1]
             IN  IF ended(r) THEN r
                 ELSE IF r.item = 0 THEN [r EXCEPT !.type = ""]
                 ELSE IF s.items[r.item].kind = "complex" THEN r
                 ELSE step(r)
  IN  walk[Len(s.items)]

\* An element: of a primitive type, or of a complex one, which is added in its
\* place.  A prototype that is there under the name of the type, or under the
\* key of the element, is taken instead; under the root the key that is looked up
\* begins with a dot, and no prototype has such a one.
addElementToFactory(s, n, scope, parent, name) ==
  LET key == Append(parent, name)
      r == Resolved(s, n, scope)
      t == [s EXCEPT !.items[n].facets = r.facets, !.items[n].attributes = r.attributes]
      complex == r.type # "" /\ r.type \notin Primitive
      asked == {<<s.items[n].type>>} \cup IF parent = <<>> THEN {} ELSE {key}
      there == asked \cap DOMAIN s.factory
      found == s.factory[IF <<s.items[n].type>> \in there THEN <<s.items[n].type>> ELSE key]
      tree == addTreeToFactory(t, r.item, scope, parent, name)
      leaf == Prototype(r.type, r.vector, s.items[n].max > 1, r.facets)
      enter(md) ==
        LET made == addEntry(t, key, md)
        IN  IF ~made.answer THEN made
            ELSE addMetadataKey(addAttributes(made, key, scope, r.attributes),
                                parent, name, s.items[n].max)
      nothing == IF s.items[n].max > 1 THEN Ends(t, "dereferences null")
                 ELSE [t EXCEPT !.answer = TRUE]
  IN  IF complex /\ there # {} THEN enter(found)
      ELSE IF complex
      THEN IF tree.ends # "goes on" \/ tree.answer THEN [tree EXCEPT !.answer = TRUE]
           ELSE IF s.items[n].max > 1 THEN Ends(tree, "dereferences null")
           ELSE [tree EXCEPT !.answer = TRUE]
      ELSE IF r.type \in Supported THEN enter(leaf)
      ELSE nothing

addTreeToFactory(s, n, scope, parent, name) ==
  CASE s.items[n].kind = "complex" -> addComplex(s, n, scope, parent, name)
    [] s.items[n].kind = "element" -> addElementToFactory(s, n, scope, parent, name)
    [] OTHER -> [s EXCEPT !.answer = FALSE]

\* addResultsToFactory: the type of the root's name, or else the type of the
\* element of that name, which is given the name.
addResultsToFactory(g, fact, attr) ==
  LET s == Working(g.items, fact, attr)
      type == Find(g.items, "types", g.schema, Root)
      element == Find(g.items, "elements", g.schema, Root)
      named == IF element = 0 THEN 0
               ELSE Find(g.items, "types", g.schema, g.items[element].type)
      rooted == [s EXCEPT !.items[named].name = Root,
                          !.items[named].type = g.items[element].type]
  IN  IF type # 0 THEN addTreeToFactory(s, type, g.schema, <<>>, Root)
      ELSE IF named # 0 THEN addTreeToFactory(rooted, named, g.schema, <<>>, Root)
      ELSE [s EXCEPT !.answer = FALSE]
=============================================================================
