------------------------ MODULE SchemaHandlerProofs ------------------------
(***************************************************************************)
(* Proofs about SchemaHandler, for any events of a SAX parser.             *)
(***************************************************************************)
EXTENDS SchemaHandler, SequenceTheorems, TLAPS

HandlerFields == {"noErrors", "annotation", "type", "name", "parent", "element",
                  "attribute", "schema", "facet", "max", "converted", "items",
                  "includes", "strayed", "lost"}

ItemFields == {"kind", "name", "type", "max", "base", "vector", "facets",
               "attributes", "groups", "elements", "types", "attrs", "parent"}

\* A sequence of items.
Items(s) ==
  /\ \E S : s \in Seq(S)
  /\ \A i \in DOMAIN s : DOMAIN s[i] = ItemFields

WellFormed(g) == DOMAIN g = HandlerFields /\ Items(g.items)

\* f has the items of g, with their parents, and perhaps more, and is a handler.
Keeps(g, f) ==
  /\ WellFormed(f)
  /\ DOMAIN g.items \subseteq DOMAIN f.items
  /\ \A i \in DOMAIN g.items : f.items[i].parent = g.items[i].parent
  /\ f.strayed = g.strayed

\* The pointers that move with the complex types are where they were.
Stays(g, f) ==
  /\ f.parent = g.parent /\ f.schema = g.schema
  /\ f.converted = g.converted /\ f.annotation = g.annotation

-----------------------------------------------------------------------------
\* Items

\* A new item comes behind the others.
LEMMA AppendItem ==
  ASSUME NEW s, Items(s), NEW x, DOMAIN x = ItemFields
  PROVE  /\ Items(Append(s, x))
         /\ DOMAIN s \subseteq DOMAIN Append(s, x)
         /\ Len(s) + 1 \in DOMAIN Append(s, x)
         /\ Append(s, x)[Len(s) + 1] = x
         /\ \A i \in DOMAIN s : Append(s, x)[i] = s[i]
<1>1. PICK S : s \in Seq(S)
  BY DEF Items
<1>2. s \in Seq(S \cup {x})
  BY <1>1
<1>3. Append(s, x) \in Seq(S \cup {x})
  BY <1>2
<1> QED
  BY <1>1, <1>2, <1>3 DEF Items

\* An item that is changed is an item.
LEMMA ChangeItem ==
  ASSUME NEW s, Items(s), NEW n, NEW x,
         n \in DOMAIN s => DOMAIN x = ItemFields
  PROVE  /\ Items([s EXCEPT ![n] = x])
         /\ DOMAIN [s EXCEPT ![n] = x] = DOMAIN s
<1>1. PICK S : s \in Seq(S)
  BY DEF Items
<1>2. [s EXCEPT ![n] = x] \in Seq(S \cup {x})
  <2>1. s \in [1 .. Len(s) -> S] /\ Len(s) \in Nat
    BY <1>1
  <2>2. [s EXCEPT ![n] = x] \in [1 .. Len(s) -> S \cup {x}]
    BY <2>1
  <2> QED
    BY <2>1, <2>2, SeqDef
<1> QED
  BY <1>1, <1>2 DEF Items

LEMMA NewKeeps ==
  ASSUME NEW g, WellFormed(g), NEW x, DOMAIN x = ItemFields
  PROVE  /\ Keeps(g, New(g, x)) /\ Stays(g, New(g, x))
         /\ New(g, x).element = g.element
         /\ New(g, x).items = Append(g.items, x)
<1>1. /\ Items(Append(g.items, x))
      /\ DOMAIN g.items \subseteq DOMAIN Append(g.items, x)
      /\ \A i \in DOMAIN g.items : Append(g.items, x)[i] = g.items[i]
  BY AppendItem DEF WellFormed
<1> QED
  BY <1>1 DEF New, WellFormed, Keeps, Stays, HandlerFields

\* An item is changed, but for its parent.
LEMMA ChangeKeeps ==
  ASSUME NEW g, WellFormed(g), NEW n, NEW x,
         n \in DOMAIN g.items => DOMAIN x = ItemFields /\ x.parent = g.items[n].parent
  PROVE  LET f == [g EXCEPT !.items[n] = x]
         IN  Keeps(g, f) /\ Stays(g, f) /\ f.element = g.element
<1> DEFINE s == [g.items EXCEPT ![n] = x]
<1>1. Items(s) /\ DOMAIN s = DOMAIN g.items
  BY ChangeItem DEF WellFormed
<1>2. \A i \in DOMAIN g.items : s[i].parent = g.items[i].parent
  BY DEF WellFormed, Items
<1> HIDE DEF s
<1>3. [g EXCEPT !.items = s].items = s
  BY DEF WellFormed, HandlerFields
<1> QED
  BY <1>1, <1>2, <1>3 DEF s, WellFormed, Keeps, Stays, HandlerFields

LEMMA WithKeeps ==
  ASSUME NEW x, DOMAIN x = ItemFields, NEW n, NEW element, NEW type
  PROVE  /\ DOMAIN With(x, n, element, type) = ItemFields
         /\ With(x, n, element, type).parent = x.parent
<1>1. DOMAIN AddElement(x, n) = ItemFields /\ AddElement(x, n).parent = x.parent
  BY DEF AddElement, ItemFields
<1> QED
  BY <1>1 DEF With, ItemFields

LEMMA InParentKeeps ==
  ASSUME NEW g, WellFormed(g), NEW n, NEW element, NEW type
  PROVE  LET f == InParent(g, n, element, type)
         IN  Keeps(g, f) /\ Stays(g, f) /\ f.element = g.element
<1> DEFINE x == With(g.items[g.parent], n, element, type)
<1>1. g.parent \in DOMAIN g.items => DOMAIN x = ItemFields /\ x.parent = g.items[g.parent].parent
  BY WithKeeps DEF WellFormed, Items
<1> HIDE DEF x
<1>2. LET f == [g EXCEPT !.items[g.parent] = x]
      IN  Keeps(g, f) /\ Stays(g, f) /\ f.element = g.element
  BY <1>1, ChangeKeeps
<1>3. Keeps(g, g) /\ Stays(g, g)
  BY DEF Keeps, Stays
<1> QED
  BY <1>2, <1>3 DEF InParent, x

\* A pointer or a flag that nothing here is about is set.
LEMMA AnswersKeeps ==
  ASSUME NEW g, WellFormed(g), NEW b
  PROVE  /\ Keeps(g, Answers(g, b)) /\ Stays(g, Answers(g, b))
         /\ Answers(g, b).element = g.element
BY DEF Answers, WellFormed, Keeps, Stays, HandlerFields

-----------------------------------------------------------------------------
\* The callbacks

LEMMA ItemFields_Item ==
  \A kind, name, type, max : /\ DOMAIN Item(kind, name, type, max) = ItemFields
                             /\ Item(kind, name, type, max).parent = 0
BY DEF Item, ItemFields

\* An item that is given a parent is an item with that parent.
LEMMA ParentOfItem ==
  ASSUME NEW kind, NEW name, NEW type, NEW max, NEW p
  PROVE  LET x == [Item(kind, name, type, max) EXCEPT !.parent = p]
         IN  DOMAIN x = ItemFields /\ x.parent = p
<1> DEFINE i == Item(kind, name, type, max)
<1>1. DOMAIN i = ItemFields /\ "parent" \in ItemFields
  BY ItemFields_Item DEF ItemFields
<1> HIDE DEF i
<1>2. DOMAIN [i EXCEPT !.parent = p] = ItemFields /\ [i EXCEPT !.parent = p].parent = p
  BY <1>1
<1> QED
  BY <1>2 DEF i

\* The first schema is the current complex type; another one changes nothing.
LEMMA schemaKeeps ==
  ASSUME NEW g, WellFormed(g), NEW e
  PROVE  LET f == processSchema(g, e)
         IN  /\ Keeps(g, f) /\ f.element = g.element
             /\ f.converted = g.converted /\ f.annotation = g.annotation
             /\ IF g.parent # 0 THEN Stays(g, f)
                ELSE f.schema = f.parent /\ f.parent \in DOMAIN f.items
<1>1. CASE g.parent # 0
  BY <1>1 DEF processSchema, Answers, WellFormed, Keeps, Stays, HandlerFields
<1>2. CASE g.parent = 0
  <2> DEFINE i == Item("complex", "schema", "schema", 1)
             m == New(g, i)
  <2>1. DOMAIN i = ItemFields
    BY ItemFields_Item
  <2> HIDE DEF i
  <2>2. Keeps(g, m) /\ Stays(g, m) /\ m.element = g.element /\ Len(g.items) + 1 \in DOMAIN m.items
    BY <2>1, NewKeeps, AppendItem DEF WellFormed
  <2> HIDE DEF m
  <2> QED
    BY <1>2, <2>2 DEF i, m, processSchema, WellFormed, Keeps, Stays, HandlerFields
<1> QED
  BY <1>1, <1>2

\* An element.
LEMMA elementKeeps ==
  ASSUME NEW g, WellFormed(g), NEW e
  PROVE  Keeps(g, processElement(g, e)) /\ Stays(g, processElement(g, e))
<1> DEFINE n == Len(g.items) + 1
           named == [g EXCEPT !.name = e.name, !.max = e.max, !.noErrors = TRUE]
           found == Find(g.items, "elements", g.parent, e.ref)
           i == Item("element", e.name, e.type, e.max)
           new == New(named, i)
           made == InParent(new, n, e.name, "")
           refers == InParent(g, found, "", "")
<1>1. Keeps(g, named) /\ Stays(g, named)
  BY DEF WellFormed, Keeps, Stays, HandlerFields
<1> HIDE DEF named
<1>2. Keeps(named, new) /\ Stays(named, new)
  BY <1>1, NewKeeps, ItemFields_Item DEF Keeps
<1> HIDE DEF new
<1>3. Keeps(new, made) /\ Stays(new, made)
  <2>1. WellFormed(new)
    BY <1>2 DEF Keeps
  <2> QED
    BY <2>1, InParentKeeps
<1> HIDE DEF made
<1>4. Keeps(g, made) /\ Stays(g, made)
  BY <1>1, <1>2, <1>3 DEF Keeps, Stays
<1>5. Keeps(g, refers) /\ Stays(g, refers)
  BY InParentKeeps
<1> HIDE DEF refers
<1>6. Keeps(g, [made EXCEPT !.element = n]) /\ Stays(g, [made EXCEPT !.element = n])
  BY <1>4 DEF WellFormed, Keeps, Stays, HandlerFields
<1>7. Keeps(g, [named EXCEPT !.element = 0]) /\ Stays(g, [named EXCEPT !.element = 0])
  BY <1>1 DEF WellFormed, Keeps, Stays, HandlerFields
<1>8. Keeps(g, Answers(refers, TRUE)) /\ Stays(g, Answers(refers, TRUE))
  BY <1>5 DEF Answers, WellFormed, Keeps, Stays, HandlerFields
<1>9. LET f == [Answers(g, TRUE) EXCEPT !.lost = TRUE]
      IN  Keeps(g, f) /\ Stays(g, f)
  BY DEF Answers, WellFormed, Keeps, Stays, HandlerFields
<1>10. processElement(g, e) \in
         {[made EXCEPT !.element = n], [named EXCEPT !.element = 0], named,
          Answers(refers, TRUE), [Answers(g, TRUE) EXCEPT !.lost = TRUE]}
  BY DEF processElement, made, refers, named, new
<1> QED
  BY <1>1, <1>6, <1>7, <1>8, <1>9, <1>10

\* A complex type is the current one, within the one that was.
LEMMA complexTypeKeeps ==
  ASSUME NEW g, WellFormed(g), NEW e
  PROVE  LET f == processComplexType(g, e)
         IN  /\ Keeps(g, f) /\ f.schema = g.schema
             /\ f.converted = g.converted /\ f.annotation = g.annotation
             /\ f.parent = Len(f.items) /\ f.parent \in DOMAIN f.items
             /\ f.items[f.parent].parent = g.parent
<1> DEFINE n == Len(g.items) + 1
           name == IF e.name = "" THEN g.name ELSE e.name
           max == IF e.name = "" /\ g.max > e.max THEN g.max ELSE e.max
           item == [Item("complex", name, e.type, max) EXCEPT !.parent = g.parent]
           new == New(g, item)
           known == InParent(new, n, name, name)
<1> HIDE DEF name, max
<1>1. DOMAIN item = ItemFields /\ item.parent = g.parent
  BY ParentOfItem
<1> HIDE DEF item
<1>2. /\ Keeps(g, new) /\ Stays(g, new)
      /\ new.items = Append(g.items, item)
  BY <1>1, NewKeeps
<1>3. n \in DOMAIN new.items /\ new.items[n] = item /\ Len(new.items) = n /\ n \in Nat
  <2>1. PICK S : g.items \in Seq(S)
    BY DEF WellFormed, Items
  <2> QED
    BY <1>1, <1>2, <2>1, AppendItem DEF WellFormed
<1> HIDE DEF new
<1>4. Keeps(new, known) /\ Stays(new, known)
  <2>1. WellFormed(new)
    BY <1>2 DEF Keeps
  <2> QED
    BY <2>1, InParentKeeps
<1>5. Len(known.items) = n
  <2>1. known.items = new.items \/ \E x : known.items = [new.items EXCEPT ![new.parent] = x]
    <3>1. DOMAIN new = HandlerFields
      BY <1>2 DEF Keeps, WellFormed
    <3> QED
      BY <3>1 DEF InParent, HandlerFields
  <2>2. DOMAIN known.items = 1 .. n
    <3>1. DOMAIN new.items = 1 .. n
      BY <1>2, <1>3 DEF Keeps, WellFormed, Items
    <3> QED
      BY <2>1, <3>1
  <2> HIDE DEF n, known
  <2>3. PICK S : known.items \in Seq(S)
    BY <1>4 DEF Keeps, WellFormed, Items
  <2>4. DOMAIN known.items = 1 .. Len(known.items) /\ Len(known.items) \in Nat
    BY <2>3
  <2>5. n \in 1 .. n
    <3>1. n # 0
      BY <1>2, <1>3 DEF Keeps, WellFormed, Items
    <3> QED
      BY <1>3, <3>1
  <2>6. n \in 1 .. Len(known.items)
    BY <2>2, <2>4, <2>5
  <2>7. Len(known.items) \in 1 .. n
    BY <2>2, <2>4, <2>6
  <2> QED
    BY <1>3, <2>4, <2>6, <2>7
<1> HIDE DEF known
<1>6. n \in DOMAIN known.items /\ known.items[n].parent = g.parent
  BY <1>1, <1>3, <1>4 DEF Keeps
<1>7. Keeps(g, known) /\ Stays(g, known)
  BY <1>2, <1>4 DEF Keeps, Stays
<1>8. processComplexType(g, e) = [known EXCEPT !.parent = n, !.max = max, !.noErrors = TRUE]
  BY DEF processComplexType, known, new, item, name, max
<1> HIDE DEF n
<1> QED
  BY <1>5, <1>6, <1>7, <1>8 DEF WellFormed, Keeps, Stays, HandlerFields

LEMMA groupKeeps ==
  ASSUME NEW g, WellFormed(g), NEW order
  PROVE  Keeps(g, processGroup(g, order)) /\ Stays(g, processGroup(g, order))
<1> DEFINE x == [g.items[g.parent] EXCEPT !.groups = Append(@, [order |-> order, items |-> <<>>])]
           f == [g EXCEPT !.items[g.parent] = x]
<1>1. g.parent \in DOMAIN g.items => DOMAIN x = ItemFields /\ x.parent = g.items[g.parent].parent
  BY DEF WellFormed, Items, ItemFields
<1>2. processGroup(g, order) \in {Answers(g, FALSE), Answers(f, TRUE)}
  BY DEF processGroup, Answers, WellFormed, HandlerFields
<1> HIDE DEF x
<1>3. Keeps(g, f) /\ Stays(g, f)
  BY <1>1, ChangeKeeps
<1> HIDE DEF f
<1>4. Keeps(f, Answers(f, TRUE)) /\ Stays(f, Answers(f, TRUE))
  <2>1. WellFormed(f)
    BY <1>3 DEF Keeps
  <2> QED
    BY <2>1, AnswersKeeps
<1>5. Keeps(g, Answers(f, TRUE)) /\ Stays(g, Answers(f, TRUE))
  BY <1>3, <1>4 DEF Keeps, Stays
<1> QED
  BY <1>2, <1>5, AnswersKeeps

LEMMA attributeKeeps ==
  ASSUME NEW g, WellFormed(g), NEW e
  PROVE  LET f == processAttribute(g, e)
         IN  Keeps(g, f) /\ Stays(g, f) /\ f.element = g.element
<1> DEFINE n == Len(g.items) + 1
           i == Item("attribute", e.name, e.type, 1)
           new == New(g, i)
           x == [new.items[g.parent] EXCEPT !.attrs = Insert(@, e.name, n)]
           made == [new EXCEPT !.items[g.parent] = x]
           base == IF e.ref = "" THEN made ELSE g
           found == Find(g.items, "attrs", g.parent, e.ref)
           attribute == IF e.ref = "" THEN n ELSE found
           owner == IF g.element # 0 THEN g.element ELSE g.parent
           y == [base.items[owner] EXCEPT !.attributes = Append(@, attribute)]
           given == [base EXCEPT !.items[owner] = y]
<1> HIDE DEF n, found
<1>1. Keeps(g, new) /\ Stays(g, new) /\ new.element = g.element
  BY NewKeeps, ItemFields_Item
<1> HIDE DEF new
<1>2. Keeps(new, made) /\ Stays(new, made) /\ made.element = new.element
  <2>1. WellFormed(new)
    BY <1>1 DEF Keeps
  <2>2. g.parent \in DOMAIN new.items =>
          DOMAIN x = ItemFields /\ x.parent = new.items[g.parent].parent
    BY <2>1 DEF WellFormed, Items, ItemFields
  <2> HIDE DEF x
  <2> QED
    BY <2>1, <2>2, ChangeKeeps
<1>3. Keeps(g, base) /\ Stays(g, base) /\ base.element = g.element
  <2>1. Keeps(g, g) /\ Stays(g, g)
    BY DEF Keeps, Stays
  <2> HIDE DEF made
  <2> QED
    BY <1>1, <1>2, <2>1 DEF Keeps, Stays
<1> HIDE DEF base
<1>4. Keeps(base, given) /\ Stays(base, given) /\ given.element = base.element
  <2>1. WellFormed(base)
    BY <1>3 DEF Keeps
  <2>2. owner \in DOMAIN base.items =>
          DOMAIN y = ItemFields /\ y.parent = base.items[owner].parent
    BY <2>1 DEF WellFormed, Items, ItemFields
  <2> HIDE DEF y, owner
  <2> QED
    BY <2>1, <2>2, ChangeKeeps, SMTT(30)
<1> DEFINE f == [given EXCEPT !.attribute = attribute, !.noErrors = TRUE,
                              !.lost = given.lost \/ Stale(g)]
           lost == [Answers(g, FALSE) EXCEPT !.lost = TRUE]
<1>5. processAttribute(g, e) = f \/ processAttribute(g, e) = lost
  BY <1>3 DEF processAttribute, given, y, base, made, x, new, found, n, Keeps, WellFormed, HandlerFields
<1> HIDE DEF given, attribute
<1>6. Keeps(g, given) /\ Stays(g, given) /\ given.element = g.element
  BY <1>3, <1>4 DEF Keeps, Stays
<1>7. Keeps(g, f) /\ Stays(g, f) /\ f.element = g.element
  BY <1>6 DEF WellFormed, Keeps, Stays, HandlerFields
<1>8. Keeps(g, lost) /\ Stays(g, lost) /\ lost.element = g.element
  BY DEF Answers, WellFormed, Keeps, Stays, HandlerFields
<1> QED
  BY <1>5, <1>7, <1>8

LEMMA simpleTypeKeeps ==
  ASSUME NEW g, WellFormed(g), NEW e
  PROVE  Keeps(g, processSimpleType(g, e)) /\ Stays(g, processSimpleType(g, e))
<1> DEFINE n == Len(g.items) + 1
           max == IF e.name = "" /\ g.max > e.max THEN g.max ELSE e.max
           name == IF e.name = "" THEN Anonymous(g.name) ELSE e.name
           i == Item("element", g.name, name, max)
           new == New(g, i)
           known == InParent(new, n, g.name, "")
           made == [known EXCEPT !.element = n]
           owned == IF e.name = "" THEN made ELSE g
           s == Len(owned.items) + 1
           type == New(owned, Item("simple", name, "", 1))
           both == InParent(type, s, "", name)
<1> HIDE DEF n, max, name
<1>1. Keeps(g, new) /\ Stays(g, new)
  BY NewKeeps, ItemFields_Item
<1> HIDE DEF new
<1>2. Keeps(new, known) /\ Stays(new, known)
  <2>1. WellFormed(new)
    BY <1>1 DEF Keeps
  <2> QED
    BY <2>1, InParentKeeps
<1> HIDE DEF known
<1>3. Keeps(g, made) /\ Stays(g, made)
  BY <1>1, <1>2 DEF WellFormed, Keeps, Stays, HandlerFields
<1> HIDE DEF made
<1>4. Keeps(g, owned) /\ Stays(g, owned)
  BY <1>3 DEF Keeps, Stays
<1> HIDE DEF owned
<1>5. Keeps(owned, type) /\ Stays(owned, type)
  <2>1. WellFormed(owned)
    BY <1>4 DEF Keeps
  <2> QED
    BY <2>1, NewKeeps, ItemFields_Item
<1> HIDE DEF type, s
<1>6. Keeps(type, both) /\ Stays(type, both)
  <2>1. WellFormed(type)
    BY <1>5 DEF Keeps
  <2> QED
    BY <2>1, InParentKeeps
<1> HIDE DEF both
<1>7. Keeps(g, both) /\ Stays(g, both)
  BY <1>4, <1>5, <1>6 DEF Keeps, Stays
<1> DEFINE f == [both EXCEPT !.type = s, !.max = max, !.noErrors = TRUE]
           not == [g EXCEPT !.max = e.max, !.noErrors = FALSE]
<1>8. processSimpleType(g, e) = f \/ processSimpleType(g, e) = not
  BY DEF processSimpleType, both, type, s, owned, made, known, new, n, max, name
<1>9. Keeps(g, f) /\ Stays(g, f)
  BY <1>7 DEF WellFormed, Keeps, Stays, HandlerFields
<1>10. Keeps(g, not) /\ Stays(g, not)
  BY DEF WellFormed, Keeps, Stays, HandlerFields
<1> HIDE DEF f, not
<1> QED
  BY <1>8, <1>9, <1>10

\* A restriction, a list.
LEMMA derivedKeeps ==
  ASSUME NEW g, WellFormed(g), NEW e, NEW vector
  PROVE  LET f == Derived(g, e, vector)
         IN  Keeps(g, f) /\ Stays(g, f) /\ f.element = g.element
<1> DEFINE x == [[g.items[g.type] EXCEPT !.base = e.base] EXCEPT !.vector = vector]
           f == [g EXCEPT !.items[g.type] = x]
<1>1. g.type \in DOMAIN g.items => DOMAIN x = ItemFields /\ x.parent = g.items[g.type].parent
  BY DEF WellFormed, Items, ItemFields
<1>2. Derived(g, e, vector) = Answers(g, FALSE) \/ Derived(g, e, vector) = Answers(f, TRUE)
  BY ZenonT(30) DEF Derived, Answers, x, f
<1> HIDE DEF x
<1>3. Keeps(g, f) /\ Stays(g, f) /\ f.element = g.element
  BY <1>1, ChangeKeeps
<1> HIDE DEF f
<1>4. Keeps(f, Answers(f, TRUE)) /\ Stays(f, Answers(f, TRUE)) /\ Answers(f, TRUE).element = f.element
  <2>1. WellFormed(f)
    BY <1>3 DEF Keeps
  <2> QED
    BY <2>1, AnswersKeeps
<1>5. Keeps(g, Answers(f, TRUE)) /\ Stays(g, Answers(f, TRUE))
  BY <1>3, <1>4 DEF Keeps, Stays
<1> QED
  BY <1>2, <1>3, <1>4, <1>5, AnswersKeeps

\* A facet of any item.
LEMMA facetKeeps ==
  ASSUME NEW g, WellFormed(g), NEW n, NEW facets
  PROVE  LET f == [g EXCEPT !.items[n].facets = facets]
         IN  Keeps(g, f) /\ Stays(g, f) /\ f.element = g.element
<1> DEFINE x == [g.items[n] EXCEPT !.facets = facets]
<1>1. n \in DOMAIN g.items => DOMAIN x = ItemFields /\ x.parent = g.items[n].parent
  BY DEF WellFormed, Items, ItemFields
<1> HIDE DEF x
<1>2. LET f == [g EXCEPT !.items[n] = x]
      IN  Keeps(g, f) /\ Stays(g, f) /\ f.element = g.element
  BY <1>1, ChangeKeeps
<1> QED
  BY <1>2 DEF x

LEMMA enumerationKeeps ==
  ASSUME NEW g, WellFormed(g), NEW e
  PROVE  LET f == processEnumeration(g, e)
         IN  Keeps(g, f) /\ Stays(g, f) /\ f.element = g.element
<1> DEFINE owner == IF g.facet # 0 THEN g.facet ELSE Current(g)
           facets == AddFacet(g.items[owner].facets, "enumeration", e.value)
           f == [g EXCEPT !.items[owner].facets = facets]
           h1 == [f EXCEPT !.facet = owner, !.noErrors = TRUE]
<1>1. processEnumeration(g, e) \in {Answers(g, TRUE), h1}
  BY DEF processEnumeration
<1> HIDE DEF owner, facets
<1>2. Keeps(g, f) /\ Stays(g, f) /\ f.element = g.element
  BY facetKeeps
<1> HIDE DEF f
<1>3. Keeps(g, h1) /\ Stays(g, h1) /\ h1.element = g.element
  BY <1>2 DEF WellFormed, Keeps, Stays, HandlerFields
<1> QED
  BY <1>1, <1>3, AnswersKeeps

LEMMA minMaxInclusiveKeeps ==
  ASSUME NEW g, WellFormed(g), NEW e
  PROVE  LET f == processMinMaxInclusive(g, e)
         IN  Keeps(g, f) /\ Stays(g, f) /\ f.element = g.element
<1> DEFINE owner == Current(g)
           facets == AddFacet(g.items[owner].facets, "minInclusive", e.value)
           f == [g EXCEPT !.items[owner].facets = facets]
           h1 == [f EXCEPT !.noErrors = TRUE]
<1>1. processMinMaxInclusive(g, e) \in {Answers(g, FALSE), h1}
  BY DEF processMinMaxInclusive
<1> HIDE DEF owner, facets
<1>2. Keeps(g, f) /\ Stays(g, f) /\ f.element = g.element
  BY facetKeeps
<1> HIDE DEF f
<1>3. Keeps(g, h1) /\ Stays(g, h1) /\ h1.element = g.element
  BY <1>2 DEF WellFormed, Keeps, Stays, HandlerFields
<1> QED
  BY <1>1, <1>3, AnswersKeeps

\* The current complex type becomes the current element.
LEMMA simpleContentKeeps ==
  ASSUME NEW g, WellFormed(g), NEW e
  PROVE  LET f == processSimpleContent(g, e)
         IN  /\ Keeps(g, f) /\ f.schema = g.schema /\ f.annotation = g.annotation
             /\ g.parent # 0 /\ g.parent \in DOMAIN g.items =>
                  /\ f.converted = TRUE /\ f.element = g.parent
                  /\ f.parent = f.items[g.parent].parent
<1> DEFINE x == [g.items[g.parent] EXCEPT !.kind = "element"]
           m == [g EXCEPT !.items[g.parent] = x]
           f == [m EXCEPT !.element = g.parent, !.parent = g.items[g.parent].parent,
                          !.converted = TRUE, !.noErrors = TRUE]
<1>1. g.parent \in DOMAIN g.items => DOMAIN x = ItemFields /\ x.parent = g.items[g.parent].parent
  BY DEF WellFormed, Items, ItemFields
<1>2. processSimpleContent(g, e) = IF g.parent = 0 THEN Answers(g, FALSE) ELSE f
  BY DEF processSimpleContent, WellFormed, HandlerFields
<1> HIDE DEF x
<1>3. Keeps(g, m) /\ Stays(g, m)
  BY <1>1, ChangeKeeps
<1> HIDE DEF m
<1>4. Keeps(g, f) /\ f.schema = g.schema /\ f.annotation = g.annotation
  BY <1>3 DEF WellFormed, Keeps, Stays, HandlerFields
<1>5. g.parent \in DOMAIN g.items =>
        f.converted = TRUE /\ f.element = g.parent /\ f.parent = f.items[g.parent].parent
  BY <1>3 DEF WellFormed, Keeps, Stays, HandlerFields
<1> HIDE DEF f
<1>6. CASE g.parent = 0
  <2>1. processSimpleContent(g, e) = Answers(g, FALSE)
    BY <1>2, <1>6
  <2>2. Keeps(g, Answers(g, FALSE)) /\ Stays(g, Answers(g, FALSE))
    BY AnswersKeeps
  <2> QED
    BY <1>6, <2>1, <2>2 DEF Stays
<1>7. CASE g.parent # 0
  BY <1>2, <1>4, <1>5, <1>7
<1> QED
  BY <1>6, <1>7

LEMMA extensionKeeps ==
  ASSUME NEW g, WellFormed(g), NEW e
  PROVE  LET f == processExtension(g, e)
         IN  Keeps(g, f) /\ Stays(g, f) /\ f.element = g.element
<1> DEFINE x == [g.items[g.element] EXCEPT !.base = e.base]
           m == [g EXCEPT !.items[g.element] = x]
           based == IF g.element = 0 THEN g ELSE [m EXCEPT !.lost = g.lost \/ Stale(g)]
           y == [based.items[g.parent] EXCEPT !.base = e.base]
           f == [based EXCEPT !.items[g.parent] = y]
<1>1. g.element \in DOMAIN g.items => DOMAIN x = ItemFields /\ x.parent = g.items[g.element].parent
  BY DEF WellFormed, Items, ItemFields
<1> HIDE DEF x
<1>2. Keeps(g, m) /\ Stays(g, m) /\ m.element = g.element
  BY <1>1, ChangeKeeps
<1> HIDE DEF m
<1>3. Keeps(g, based) /\ Stays(g, based) /\ based.element = g.element
  BY <1>2 DEF WellFormed, Keeps, Stays, HandlerFields
<1> HIDE DEF based
<1>4. WellFormed(based)
  BY <1>3 DEF Keeps
<1>5. g.parent \in DOMAIN based.items => DOMAIN y = ItemFields /\ y.parent = based.items[g.parent].parent
  BY <1>4 DEF WellFormed, Items, ItemFields
<1>6. processExtension(g, e) \in {Answers(based, FALSE), Answers(f, TRUE)}
  BY <1>3 DEF processExtension, Answers, based, m, x, y, WellFormed, Keeps, Stays, HandlerFields
<1> HIDE DEF y
<1>7. Keeps(based, f) /\ Stays(based, f) /\ f.element = based.element
  BY <1>4, <1>5, ChangeKeeps
<1> HIDE DEF f
<1>8. \A b \in BOOLEAN :
        /\ Keeps(based, Answers(based, b)) /\ Stays(based, Answers(based, b))
        /\ Answers(based, b).element = based.element
  BY <1>4, AnswersKeeps
<1>9. /\ Keeps(f, Answers(f, TRUE)) /\ Stays(f, Answers(f, TRUE))
      /\ Answers(f, TRUE).element = f.element
  <2>1. WellFormed(f)
    BY <1>7 DEF Keeps
  <2> QED
    BY <2>1, AnswersKeeps
<1>10. /\ Keeps(g, Answers(f, TRUE)) /\ Stays(g, Answers(f, TRUE))
       /\ Answers(f, TRUE).element = g.element
  BY <1>3, <1>7, <1>9 DEF Keeps, Stays
<1>11. /\ Keeps(g, Answers(based, FALSE)) /\ Stays(g, Answers(based, FALSE))
       /\ Answers(based, FALSE).element = g.element
  BY <1>3, <1>8 DEF Keeps, Stays
<1> QED
  BY <1>6, <1>10, <1>11

-----------------------------------------------------------------------------
\* The document

Opened == [tag : Tag, simple : BOOLEAN, item : Nat]

\* What may be open within a complex type with simple content.
WithinSimple == {"simpleContent", "extension", "attribute", "annotation", "documentation"}

InAnnotation == {"annotation", "documentation"}

\* Encloses, for any sequence of open elements.
Around(o, k, i) ==
  /\ k < i /\ o[k].tag \in Scope
  /\ \A j \in k + 1 .. i - 1 : o[j].tag \notin Scope

\* What the parser and the documents see to.
Nested(o) ==
  /\ o \in Seq(Opened)
  /\ o # <<>> => o[1].tag = "schema"
  /\ \A i \in 1 .. Len(o) - 1 : o[i + 1].tag \in Content[o[i].tag]
  /\ \A i \in DOMAIN o : o[i].simple =>
       o[i].tag = "complexType" /\ \A j \in i + 1 .. Len(o) : o[j].tag \in WithinSimple /\ ~o[j].simple
  /\ \A i \in 2 .. Len(o) + 1 : \E k \in DOMAIN o : Around(o, k, i)

\* What may come next, as Allowed.
AllowedIn(o) ==
  IF o = <<>> THEN {"schema"}
  ELSE Content[o[Len(o)].tag] \
         IF \E i \in DOMAIN o : o[i].simple
         THEN Group \cup {"simpleContent", "complexContent"} ELSE {}

LEMMA ContentFacts ==
  /\ \A t \in Tag : Content[t] \subseteq Tag \ {"schema"}
  /\ \A t \in Tag : "documentation" \in Content[t] <=> t = "annotation"
  /\ \A t \in Tag : "simpleContent" \in Content[t] <=> t = "complexType"
  /\ Content["annotation"] = {"documentation"} /\ Content["documentation"] = {}
  /\ \A t \in WithinSimple \cup {"complexType"} :
       Content[t] \ (Group \cup {"simpleContent", "complexContent"})
         \subseteq {"extension", "attribute", "annotation", "documentation"}
<1>1. Content["schema"] = {"element", "complexType", "simpleType", "attribute", "include", "annotation"}
  BY DEF Content
<1>2. Content["element"] = {"complexType", "simpleType", "annotation"}
  BY DEF Content
<1>3. Content["complexType"] = Group \cup {"attribute", "simpleContent", "complexContent", "annotation"}
  BY DEF Content
<1>4. Content["sequence"] = Group \cup {"element"} /\ Content["choice"] = Group \cup {"element"}
  BY DEF Content
<1>5. Content["attribute"] = {"annotation"} /\ Content["list"] = {}
  BY DEF Content
<1>6. Content["simpleType"] = {"restriction", "list", "annotation"}
  BY DEF Content
<1>7. Content["restriction"] = {"minInclusive", "enumeration"}
  BY DEF Content
<1>8. Content["minInclusive"] = {} /\ Content["enumeration"] = {} /\ Content["include"] = {}
  BY DEF Content
<1>9. Content["simpleContent"] = {"extension"} /\ Content["extension"] = Group \cup {"attribute"}
  BY DEF Content
<1>10. Content["complexContent"] = {"extension", "restriction"}
  BY DEF Content
<1>11. Content["annotation"] = {"documentation"} /\ Content["documentation"] = {}
  BY DEF Content
<1>12. \A t \in Tag : Content[t] \subseteq Tag \ {"schema"}
  BY <1>1, <1>2, <1>3, <1>4, <1>5, <1>6, <1>7, <1>8, <1>9, <1>10, <1>11 DEF Tag, Group
<1>13. \A t \in Tag : "documentation" \in Content[t] <=> t = "annotation"
  BY <1>1, <1>2, <1>3, <1>4, <1>5, <1>6, <1>7, <1>8, <1>9, <1>10, <1>11 DEF Tag, Group
<1>14. \A t \in Tag : "simpleContent" \in Content[t] <=> t = "complexType"
  BY <1>1, <1>2, <1>3, <1>4, <1>5, <1>6, <1>7, <1>8, <1>9, <1>10, <1>11 DEF Tag, Group
<1> QED
  BY <1>3, <1>5, <1>9, <1>11, <1>12, <1>13, <1>14 DEF WithinSimple, Group

\* An element is opened.
LEMMA Push ==
  ASSUME NEW o, Nested(o), NEW r \in Opened, r.tag \in AllowedIn(o), ~r.simple,
         r.tag # "simpleContent"
  PROVE  Nested(Append(o, r))
<1> DEFINE p == Append(o, r)
<1>1. /\ o \in Seq(Opened) /\ p \in Seq(Opened) /\ Len(p) = Len(o) + 1 /\ Len(o) \in Nat
      /\ p[Len(p)] = r /\ \A i \in 1 .. Len(o) : p[i] = o[i]
      /\ DOMAIN o = 1 .. Len(o) /\ DOMAIN p = 1 .. Len(p)
  BY DEF Nested
<1>2. o # <<>> => Len(o) # 0
  BY <1>1
<1> HIDE DEF p
<1>3. p # <<>> => p[1].tag = "schema"
  BY <1>1, <1>2 DEF Nested, AllowedIn
<1>4. \A i \in 1 .. Len(p) - 1 : p[i + 1].tag \in Content[p[i].tag]
  BY <1>1, <1>2, SMTT(30) DEF Nested, AllowedIn
<1>5. ASSUME NEW i \in DOMAIN p, p[i].simple
      PROVE  p[i].tag = "complexType" /\ \A j \in i + 1 .. Len(p) : p[j].tag \in WithinSimple /\ ~p[j].simple
  <2>1. i \in DOMAIN o /\ o[i].simple
    BY <1>1, <1>5
  <2>2. o[i].tag = "complexType" /\ \A j \in i + 1 .. Len(o) : o[j].tag \in WithinSimple /\ ~o[j].simple
    BY <2>1 DEF Nested
  <2>3. o[Len(o)].tag \in WithinSimple \cup {"complexType"}
    BY <1>1, <2>1, <2>2
  <2>4. r.tag \in Content[o[Len(o)].tag] \ (Group \cup {"simpleContent", "complexContent"})
    BY <1>1, <2>1 DEF AllowedIn
  <2>5. r.tag \in WithinSimple
    BY <2>3, <2>4, ContentFacts DEF WithinSimple
  <2> QED
    BY <1>1, <2>1, <2>2, <2>5
<1>6. ASSUME NEW i \in 2 .. Len(p) + 1
      PROVE  \E k \in DOMAIN p : Around(p, k, i)
  <2>1. CASE i <= Len(o) + 1
    <3>1. PICK k \in DOMAIN o : Around(o, k, i)
      BY <1>1, <2>1 DEF Nested
    <3> QED
      BY <1>1, <2>1, <3>1, SMTT(30) DEF Around
  <2>2. CASE i = Len(o) + 2 /\ r.tag \in Scope
    BY <1>1, <2>2 DEF Around
  <2>3. CASE i = Len(o) + 2 /\ r.tag \notin Scope
    <3>1. Len(o) # 0
      BY <1>1, <2>3 DEF AllowedIn, Scope
    <3>2. PICK k \in DOMAIN o : Around(o, k, Len(o) + 1)
      BY <1>1, <3>1 DEF Nested
    <3> QED
      BY <1>1, <2>3, <3>2, SMTT(30) DEF Around
  <2> QED
    BY <1>1, <2>1, <2>2, <2>3
<1>7. Nested(p)
  BY <1>1, <1>3, <1>4, <1>5, <1>6 DEF Nested
<1> QED
  BY <1>7 DEF p

\* Simple content is opened in the complex type that is open last.
LEMMA PushSimple ==
  ASSUME NEW o, Nested(o), NEW r \in Opened, r.tag \in AllowedIn(o), ~r.simple,
         r.tag = "simpleContent"
  PROVE  LET q == [o EXCEPT ![Len(o)].simple = TRUE]
         IN  /\ Nested(Append(q, r)) /\ o # <<>> /\ o[Len(o)].tag = "complexType"
             /\ q \in Seq(Opened) /\ Len(q) = Len(o) /\ q[Len(o)].simple
             /\ \A i \in DOMAIN o : q[i].tag = o[i].tag /\ q[i].item = o[i].item /\ ~o[i].simple
<1> DEFINE q == [o EXCEPT ![Len(o)].simple = TRUE]
           p == Append(q, r)
<1>1. o \in Seq(Opened) /\ Len(o) \in Nat /\ DOMAIN o = 1 .. Len(o)
  BY DEF Nested
<1>2. o # <<>> /\ Len(o) # 0
  BY <1>1 DEF AllowedIn
<1>3. o[Len(o)].tag = "complexType"
  <2>1. o[Len(o)] \in Opened /\ "simpleContent" \in Content[o[Len(o)].tag]
    BY <1>1, <1>2 DEF AllowedIn
  <2> QED
    BY <2>1, ContentFacts DEF Opened
<1>4. \A i \in DOMAIN o : ~o[i].simple
  BY <1>1, <1>2 DEF AllowedIn
<1>5. /\ q \in Seq(Opened) /\ Len(q) = Len(o) /\ q[Len(o)].simple
      /\ \A i \in DOMAIN o : q[i].tag = o[i].tag /\ q[i].item = o[i].item
      /\ \A i \in DOMAIN o : i # Len(o) => ~q[i].simple
  <2> DEFINE n == Len(o)
             x == [o[n] EXCEPT !.simple = TRUE]
  <2>1. n \in 1 .. Len(o) /\ o[n] \in Opened
    BY <1>1, <1>2
  <2>2. x \in Opened /\ x.simple /\ x.tag = o[n].tag /\ x.item = o[n].item
    BY <2>1 DEF Opened
  <2>3. q = [o EXCEPT ![n] = x]
    OBVIOUS
  <2> HIDE DEF x, n, q
  <2>4. q \in Seq(Opened) /\ Len(q) = Len(o)
    BY <1>1, <2>1, <2>2, <2>3
  <2>5. q[n] = x /\ \A i \in DOMAIN o : i # n => q[i] = o[i]
    BY <1>1, <2>1, <2>3
  <2> QED
    BY <1>4, <2>2, <2>4, <2>5 DEF n
<1> HIDE DEF q
<1>6. /\ p \in Seq(Opened) /\ Len(p) = Len(o) + 1 /\ p[Len(p)] = r
      /\ \A i \in 1 .. Len(o) : p[i] = q[i]
      /\ DOMAIN p = 1 .. Len(p)
  BY <1>1, <1>5
<1> HIDE DEF p
<1>12. \A i \in 1 .. Len(o) : p[i].tag = o[i].tag
  BY <1>1, <1>5, <1>6
<1>7. p[1].tag = "schema"
  BY <1>1, <1>2, <1>5, <1>6, SMTT(30) DEF Nested
<1>8. \A i \in 1 .. Len(p) - 1 : p[i + 1].tag \in Content[p[i].tag]
  <2>1. r.tag \in Content[o[Len(o)].tag]
    BY <1>2 DEF AllowedIn
  <2>2. \A i \in 1 .. Len(o) - 1 : o[i + 1].tag \in Content[o[i].tag]
    BY DEF Nested
  <2> QED
    BY <1>1, <1>2, <1>6, <1>12, <2>1, <2>2
<1>9. \A i \in DOMAIN p : p[i].simple =>
        p[i].tag = "complexType" /\ \A j \in i + 1 .. Len(p) : p[j].tag \in WithinSimple /\ ~p[j].simple
  BY <1>1, <1>2, <1>3, <1>5, <1>6 DEF WithinSimple
<1>10. ASSUME NEW i \in 2 .. Len(p) + 1
       PROVE  \E k \in DOMAIN p : Around(p, k, i)
  <2>1. CASE i <= Len(o) + 1
    <3>1. PICK k \in DOMAIN o : Around(o, k, i)
      BY <1>1, <2>1 DEF Nested
    <3>2. k \in 1 .. Len(o) /\ k \in DOMAIN p
      BY <1>1, <1>6
    <3>3. \A j \in k + 1 .. i - 1 : p[j].tag = o[j].tag
      BY <1>1, <1>6, <1>12, <2>1, <3>2
    <3> QED
      BY <1>12, <3>1, <3>2, <3>3 DEF Around
  <2>2. CASE i = Len(o) + 2
    <3>1. Around(p, Len(o), i)
      BY <1>1, <1>2, <1>3, <1>5, <1>6, <2>2 DEF Around, Scope
    <3> QED
      BY <1>1, <1>2, <1>6, <3>1
  <2> QED
    BY <1>1, <1>6, <2>1, <2>2
<1>11. Nested(p)
  BY <1>6, <1>7, <1>8, <1>9, <1>10 DEF Nested
<1> QED
  BY <1>2, <1>3, <1>4, <1>5, <1>11 DEF q, p

\* The last element is closed.
LEMMA Pop ==
  ASSUME NEW o, Nested(o), o # <<>>
  PROVE  /\ Nested(Front(o)) /\ Len(Front(o)) = Len(o) - 1
         /\ \A i \in 1 .. Len(o) - 1 : Front(o)[i] = o[i]
<1> DEFINE p == Front(o)
<1>1. o \in Seq(Opened) /\ Len(o) \in Nat /\ DOMAIN o = 1 .. Len(o) /\ Len(o) # 0
  BY DEF Nested
<1>2. /\ p \in Seq(Opened) /\ Len(p) = Len(o) - 1 /\ DOMAIN p = 1 .. Len(o) - 1
      /\ \A i \in 1 .. Len(o) - 1 : p[i] = o[i]
  BY <1>1 DEF Front
<1> HIDE DEF p
<1>3. p # <<>> => p[1].tag = "schema"
  BY <1>1, <1>2 DEF Nested
<1>4. \A i \in 1 .. Len(p) - 1 : p[i + 1].tag \in Content[p[i].tag]
  BY <1>1, <1>2 DEF Nested
<1>5. \A i \in DOMAIN p : p[i].simple =>
        p[i].tag = "complexType" /\ \A j \in i + 1 .. Len(p) : p[j].tag \in WithinSimple /\ ~p[j].simple
  BY <1>1, <1>2 DEF Nested
<1>6. ASSUME NEW i \in 2 .. Len(p) + 1
      PROVE  \E k \in DOMAIN p : Around(p, k, i)
  <2>1. PICK k \in DOMAIN o : Around(o, k, i)
    BY <1>1, <1>2 DEF Nested
  <2> QED
    BY <1>1, <1>2, <2>1 DEF Around
<1>7. Nested(p)
  BY <1>2, <1>3, <1>4, <1>5, <1>6 DEF Nested
<1> QED
  BY <1>2, <1>7 DEF p

-----------------------------------------------------------------------------
\* The handler and the document

\* Scopes within scopes are one to the other as their items are.
Chained(o, g) ==
  /\ \A i \in DOMAIN o : o[i].tag \in Scope => o[i].item \in DOMAIN g.items
  /\ \A i, k \in DOMAIN o : Around(o, k, i) /\ o[i].tag = "complexType" =>
       g.items[o[i].item].parent = o[k].item

\* ParentIsInnermost, where o is open.
Innermost(o, g) ==
  \A i \in DOMAIN o : Around(o, i, Len(o) + 1) =>
    IF g.converted
    THEN g.element = o[i].item /\ \E k \in DOMAIN o : Around(o, k, i) /\ g.parent = o[k].item
    ELSE g.parent = o[i].item

\* The schema is the outermost scope, and current outside of all documents.
AtTop(o, g) ==
  /\ o # <<>> => o[1].item = g.schema
  /\ o = <<>> => g.parent = g.schema /\ (g.schema = 0 \/ g.schema \in DOMAIN g.items)

\* The flag is set while something with simple content is open.
Flagged(o, g) == g.converted <=> \E i \in DOMAIN o : o[i].simple

Follows(o, g) ==
  ~g.strayed => Chained(o, g) /\ Innermost(o, g) /\ AtTop(o, g) /\ Flagged(o, g)

\* Only one scope is the innermost.
LEMMA OneInnermost ==
  ASSUME NEW o, NEW i \in Nat, NEW j \in Nat, NEW n \in Nat, Around(o, i, n), Around(o, j, n)
  PROVE  i = j
BY DEF Around

LEMMA PushAround ==
  ASSUME NEW o, NEW q, Len(o) \in Nat, NEW n \in 1 .. Len(o) + 1,
         \A i \in 1 .. Len(o) : q[i].tag = o[i].tag,
         NEW k \in Nat \ {0}
  PROVE  Around(q, k, n) <=> Around(o, k, n)
<1>1. k < n => k \in 1 .. Len(o)
  OBVIOUS
<1>2. k < n => \A j \in k + 1 .. n - 1 : q[j].tag = o[j].tag
  BY <1>1
<1> QED
  BY <1>1, <1>2 DEF Around

\* Anything that leaves the pointers is opened.
LEMMA StaysFollows ==
  ASSUME NEW o, Nested(o), NEW g, NEW f, Keeps(g, f), Follows(o, g),
         f.parent = g.parent, f.schema = g.schema, f.converted = g.converted,
         g.converted /\ ~g.strayed => f.element = g.element,
         NEW r \in Opened, r.tag \notin Scope, ~r.simple, o # <<>>
  PROVE  Follows(Append(o, r), f)
<1> SUFFICES ASSUME ~f.strayed PROVE Follows(Append(o, r), f)
  BY DEF Follows
<1> DEFINE p == Append(o, r)
<1>1. /\ o \in Seq(Opened) /\ p \in Seq(Opened) /\ Len(p) = Len(o) + 1 /\ Len(o) \in Nat
      /\ p[Len(p)] = r /\ \A i \in 1 .. Len(o) : p[i] = o[i]
      /\ DOMAIN o = 1 .. Len(o) /\ DOMAIN p = 1 .. Len(p) /\ Len(o) # 0
  BY DEF Nested
<1> HIDE DEF p
<1>2. Chained(o, g) /\ Innermost(o, g) /\ AtTop(o, g) /\ Flagged(o, g)
  BY DEF Follows, Keeps
<1>8. ~g.strayed
  BY DEF Keeps
<1>3. \A n \in 1 .. Len(o) + 1, k \in Nat \ {0} : Around(p, k, n) <=> Around(o, k, n)
  BY <1>1, PushAround
<1>4. Chained(p, f)
  <2>1. ASSUME NEW i \in DOMAIN p, p[i].tag \in Scope
        PROVE  i \in DOMAIN o /\ p[i] = o[i] /\ o[i].item \in DOMAIN g.items
    BY <1>1, <1>2, <2>1 DEF Chained
  <2>2. \A i \in DOMAIN p : p[i].tag \in Scope => p[i].item \in DOMAIN f.items
    BY <2>1 DEF Keeps
  <2>3. ASSUME NEW i \in DOMAIN p, NEW k \in DOMAIN p, Around(p, k, i), p[i].tag = "complexType"
        PROVE  f.items[p[i].item].parent = p[k].item
    <3>1. i \in DOMAIN o /\ p[i] = o[i] /\ o[i].item \in DOMAIN g.items
      BY <2>1, <2>3 DEF Scope
    <3>2. k \in DOMAIN o /\ p[k] = o[k] /\ Around(o, k, i)
      BY <1>1, <1>3, <2>3, <3>1 DEF Around
    <3>3. g.items[o[i].item].parent = o[k].item
      BY <1>2, <2>3, <3>1, <3>2 DEF Chained
    <3> QED
      BY <3>1, <3>2, <3>3 DEF Keeps
  <2> QED
    BY <2>2, <2>3 DEF Chained
<1>5. Innermost(p, f)
  <2>1. SUFFICES ASSUME NEW i \in DOMAIN p, Around(p, i, Len(p) + 1)
        PROVE  IF f.converted
               THEN f.element = p[i].item /\ \E k \in DOMAIN p : Around(p, k, i) /\ f.parent = p[k].item
               ELSE f.parent = p[i].item
    BY DEF Innermost
  <2>2. i # Len(p)
    BY <1>1, <2>1 DEF Around
  <2>3. i \in DOMAIN o /\ p[i] = o[i] /\ Around(p, i, Len(o) + 1)
    BY <1>1, <2>1, <2>2 DEF Around
  <2>4. Around(o, i, Len(o) + 1)
    BY <1>1, <1>3, <2>3
  <2>5. CASE ~g.converted
    BY <1>2, <2>3, <2>4, <2>5 DEF Innermost
  <2>6. CASE g.converted
    <3>1. PICK k \in DOMAIN o : Around(o, k, i) /\ g.parent = o[k].item
      BY <1>2, <2>3, <2>4, <2>6 DEF Innermost
    <3>2. k \in DOMAIN p /\ p[k] = o[k] /\ Around(p, k, i)
      BY <1>1, <1>3, <2>3, <3>1
    <3>3. g.element = o[i].item
      BY <1>2, <2>3, <2>4, <2>6 DEF Innermost
    <3> QED
      BY <1>8, <2>3, <2>6, <3>1, <3>2, <3>3
  <2> QED
    BY <2>5, <2>6
<1>6. AtTop(p, f)
  BY <1>1, <1>2 DEF AtTop
<1>7. Flagged(p, f)
  BY <1>1, <1>2 DEF Flagged
<1> QED
  BY <1>4, <1>5, <1>6, <1>7 DEF Follows, p

\* A new scope is current.
LEMMA ScopeFollows ==
  ASSUME NEW o, Nested(o), NEW g, NEW f, Keeps(g, f), Follows(o, g),
         f.schema = g.schema, f.converted = g.converted, ~(\E i \in DOMAIN o : o[i].simple),
         NEW r \in Opened, r.tag = "complexType", ~r.simple, o # <<>>,
         f.parent = r.item, r.item \in DOMAIN f.items, f.items[r.item].parent = g.parent
  PROVE  Follows(Append(o, r), f)
<1> SUFFICES ASSUME ~f.strayed PROVE Follows(Append(o, r), f)
  BY DEF Follows
<1> DEFINE p == Append(o, r)
<1>1. /\ o \in Seq(Opened) /\ p \in Seq(Opened) /\ Len(p) = Len(o) + 1 /\ Len(o) \in Nat
      /\ p[Len(p)] = r /\ \A i \in 1 .. Len(o) : p[i] = o[i]
      /\ DOMAIN o = 1 .. Len(o) /\ DOMAIN p = 1 .. Len(p) /\ Len(o) # 0
  BY DEF Nested
<1> HIDE DEF p
<1>2. Chained(o, g) /\ Innermost(o, g) /\ AtTop(o, g) /\ Flagged(o, g) /\ ~g.converted
  BY DEF Follows, Keeps, Flagged
<1>3. \A n \in 1 .. Len(o) + 1, k \in Nat \ {0} : Around(p, k, n) <=> Around(o, k, n)
  BY <1>1, PushAround
<1>4. Chained(p, f)
  <2>1. ASSUME NEW i \in DOMAIN o, o[i].tag \in Scope
        PROVE  o[i].item \in DOMAIN g.items /\ o[i].item \in DOMAIN f.items
    BY <1>2, <2>1 DEF Chained, Keeps
  <2>2. \A i \in DOMAIN p : p[i].tag \in Scope => p[i].item \in DOMAIN f.items
    BY <1>1, <2>1
  <2>3. ASSUME NEW i \in DOMAIN p, NEW k \in DOMAIN p, Around(p, k, i), p[i].tag = "complexType"
        PROVE  f.items[p[i].item].parent = p[k].item
    <3>1. k \in DOMAIN o /\ p[k] = o[k] /\ Around(o, k, i)
      <4>1. k < i
        BY <2>3 DEF Around
      <4> QED
        BY <1>1, <1>3, <2>3, <4>1
    <3>2. CASE i \in DOMAIN o
      <4>1. p[i] = o[i] /\ o[i].item \in DOMAIN g.items
        BY <1>1, <2>1, <2>3, <3>2 DEF Scope
      <4>2. g.items[o[i].item].parent = o[k].item
        BY <1>2, <2>3, <3>1, <3>2, <4>1 DEF Chained
      <4> QED
        BY <3>1, <4>1, <4>2 DEF Keeps
    <3>3. CASE i = Len(p)
      <4>1. g.parent = o[k].item
        BY <1>1, <1>2, <3>1, <3>3 DEF Innermost
      <4> QED
        BY <1>1, <3>1, <3>3, <4>1
    <3> QED
      BY <1>1, <3>2, <3>3
  <2> QED
    BY <2>2, <2>3 DEF Chained
<1>5. Innermost(p, f)
  <2>1. SUFFICES ASSUME NEW i \in DOMAIN p, Around(p, i, Len(p) + 1)
        PROVE  f.parent = p[i].item
    BY <1>2 DEF Innermost
  <2>2. i = Len(p)
    BY <1>1, <2>1 DEF Around, Scope
  <2> QED
    BY <1>1, <2>2
<1>6. AtTop(p, f)
  BY <1>1, <1>2 DEF AtTop
<1>7. Flagged(p, f)
  BY <1>1, <1>2 DEF Flagged
<1> QED
  BY <1>4, <1>5, <1>6, <1>7 DEF Follows, p

\* The innermost complex type has simple content: it is an element from now on.
LEMMA SimpleFollows ==
  ASSUME NEW o, Nested(o), NEW g, WellFormed(g), Follows(o, g), NEW e,
         NEW r \in Opened, r.tag \in AllowedIn(o), r.tag = "simpleContent", ~r.simple
  PROVE  LET f == processSimpleContent(g, e)
             q == [o EXCEPT ![Len(o)].simple = TRUE]
         IN  ~g.strayed => /\ Follows(Append(q, r), f) /\ Keeps(g, f)
                           /\ f.schema = g.schema /\ f.annotation = g.annotation
<1> SUFFICES ASSUME ~g.strayed
             PROVE  LET f == processSimpleContent(g, e)
                        q == [o EXCEPT ![Len(o)].simple = TRUE]
                    IN  /\ Follows(Append(q, r), f) /\ Keeps(g, f)
                        /\ f.schema = g.schema /\ f.annotation = g.annotation
  OBVIOUS
<1> DEFINE f == processSimpleContent(g, e)
           q == [o EXCEPT ![Len(o)].simple = TRUE]
           p == Append(q, r)
<1>1. /\ Nested(p) /\ o # <<>> /\ o[Len(o)].tag = "complexType"
      /\ q \in Seq(Opened) /\ Len(q) = Len(o) /\ q[Len(o)].simple
      /\ \A i \in DOMAIN o : q[i].tag = o[i].tag /\ q[i].item = o[i].item /\ ~o[i].simple
  BY PushSimple
<1> HIDE DEF q
<1>2. /\ Len(o) \in Nat /\ DOMAIN o = 1 .. Len(o) /\ Len(o) # 0
      /\ o[1].tag = "schema"
      /\ \A i \in 2 .. Len(o) + 1 : \E k \in DOMAIN o : Around(o, k, i)
  BY <1>1 DEF Nested
<1>3. /\ Len(p) = Len(o) + 1 /\ p[Len(p)] = r /\ DOMAIN p = 1 .. Len(o) + 1 /\ p # <<>>
      /\ \A i \in 1 .. Len(o) : p[i] = q[i]
  BY <1>1, <1>2
<1>4. \A i \in 1 .. Len(o) : p[i].tag = o[i].tag /\ p[i].item = o[i].item
  BY <1>1, <1>2, <1>3
<1> HIDE DEF p
<1>5. Chained(o, g) /\ Innermost(o, g) /\ AtTop(o, g) /\ Flagged(o, g) /\ ~g.converted
  BY <1>1 DEF Follows, Flagged
<1>6. Around(o, Len(o), Len(o) + 1) /\ g.parent = o[Len(o)].item /\ g.parent \in DOMAIN g.items
  <2>1. Around(o, Len(o), Len(o) + 1)
    BY <1>1, <1>2 DEF Around, Scope
  <2>2. g.parent = o[Len(o)].item
    BY <1>2, <1>5, <2>1 DEF Innermost
  <2> QED
    BY <1>1, <1>2, <1>5, <2>1, <2>2 DEF Chained, Scope
<1>7. g.parent # 0
  BY <1>6 DEF WellFormed, Items
<1>8. /\ Keeps(g, f) /\ f.schema = g.schema /\ f.annotation = g.annotation
      /\ f.converted = TRUE /\ f.element = g.parent
      /\ f.parent = f.items[g.parent].parent
  BY <1>6, <1>7, simpleContentKeeps
<1> HIDE DEF f
<1>9. \A n \in 1 .. Len(o) + 1, k \in Nat \ {0} : Around(p, k, n) <=> Around(o, k, n)
  BY <1>2, <1>4, PushAround
<1>10. Chained(p, f)
  <2>1. ASSUME NEW i \in DOMAIN p, p[i].tag \in Scope
        PROVE  /\ i \in DOMAIN o /\ p[i].item = o[i].item /\ o[i].tag = p[i].tag
               /\ o[i].item \in DOMAIN g.items
    <3>1. i # Len(p)
      BY <1>3, <2>1 DEF Scope
    <3> QED
      BY <1>2, <1>3, <1>4, <1>5, <2>1, <3>1 DEF Chained
  <2>2. \A i \in DOMAIN p : p[i].tag \in Scope => p[i].item \in DOMAIN f.items
    BY <1>8, <2>1 DEF Keeps
  <2>3. ASSUME NEW i \in DOMAIN p, NEW k \in DOMAIN p, Around(p, k, i), p[i].tag = "complexType"
        PROVE  f.items[p[i].item].parent = p[k].item
    <3>1. /\ i \in DOMAIN o /\ p[i].item = o[i].item /\ o[i].tag = "complexType"
          /\ o[i].item \in DOMAIN g.items
      BY <2>1, <2>3 DEF Scope
    <3>2. k < i
      BY <2>3 DEF Around
    <3>3. k \in DOMAIN o /\ p[k].item = o[k].item /\ Around(o, k, i)
      BY <1>2, <1>3, <1>4, <1>9, <2>3, <3>1, <3>2
    <3>4. g.items[o[i].item].parent = o[k].item
      BY <1>5, <3>1, <3>3 DEF Chained
    <3> QED
      BY <1>8, <3>1, <3>3, <3>4 DEF Keeps
  <2> QED
    BY <2>2, <2>3 DEF Chained
<1>11. Innermost(p, f)
  <2>1. SUFFICES ASSUME NEW i \in DOMAIN p, Around(p, i, Len(p) + 1)
        PROVE  f.element = p[i].item /\ \E k \in DOMAIN p : Around(p, k, i) /\ f.parent = p[k].item
    BY <1>8 DEF Innermost
  <2>2. i # Len(p)
    BY <1>3, <2>1 DEF Around, Scope
  <2>3. i \in 1 .. Len(o) /\ Around(p, i, Len(o) + 1)
    BY <1>2, <1>3, <2>1, <2>2 DEF Around
  <2>4. Around(o, i, Len(o) + 1)
    BY <1>2, <1>9, <2>3
  <2>5. i = Len(o)
    BY <1>2, <1>6, <2>3, <2>4, OneInnermost
  <2>6. f.element = p[i].item
    BY <1>4, <1>6, <1>8, <2>3, <2>5
  <2>7. Len(o) # 1
    BY <1>1, <1>2
  <2>8. PICK k \in DOMAIN o : Around(o, k, Len(o))
    BY <1>2, <2>7
  <2>9. g.items[o[Len(o)].item].parent = o[k].item
    BY <1>1, <1>2, <1>5, <2>8 DEF Chained
  <2>10. k \in DOMAIN p /\ Around(p, k, i) /\ p[k].item = o[k].item
    BY <1>2, <1>3, <1>4, <1>9, <2>5, <2>8
  <2>11. f.parent = o[k].item
    BY <1>6, <1>8, <2>9 DEF Keeps
  <2> QED
    BY <2>6, <2>10, <2>11
<1>12. AtTop(p, f)
  BY <1>2, <1>3, <1>4, <1>5, <1>8 DEF AtTop
<1>13. Flagged(p, f)
  BY <1>1, <1>2, <1>3, <1>8 DEF Flagged
<1> QED
  BY <1>8, <1>10, <1>11, <1>12, <1>13 DEF Follows, p, q, f

\* A document begins: its schema, or the one that was read first, is current.
LEMMA SchemaFollows ==
  ASSUME NEW g, WellFormed(g), Follows(<<>>, g), NEW e,
         NEW r \in Opened, r.tag = "schema", ~r.simple, r.item = processSchema(g, e).schema
  PROVE  Follows(<<r>>, processSchema(g, e))
<1> DEFINE f == processSchema(g, e)
           p == <<r>>
<1>1. /\ Keeps(g, f) /\ f.element = g.element
      /\ f.converted = g.converted
      /\ IF g.parent # 0 THEN Stays(g, f)
         ELSE f.schema = f.parent /\ f.parent \in DOMAIN f.items
  BY schemaKeeps
<1>2. r.item = f.schema
  OBVIOUS
<1> HIDE DEF f
<1> SUFFICES ASSUME ~f.strayed PROVE Follows(p, f)
  BY DEF Follows, f
<1>3. DOMAIN p = {1} /\ p[1] = r /\ Len(p) = 1 /\ p # <<>>
  OBVIOUS
<1> HIDE DEF p
<1>4. AtTop(<<>>, g) /\ Flagged(<<>>, g)
  BY <1>1 DEF Follows, Keeps
<1>5. ~f.converted /\ g.parent = g.schema /\ (g.schema = 0 \/ g.schema \in DOMAIN g.items)
  BY <1>1, <1>4 DEF AtTop, Flagged
<1>6. f.parent = f.schema /\ f.schema \in DOMAIN f.items
  BY <1>1, <1>5 DEF Stays, Keeps
<1>7. Chained(p, f)
  BY <1>2, <1>3, <1>6 DEF Chained, Around
<1>8. Innermost(p, f)
  BY <1>2, <1>3, <1>5, <1>6 DEF Innermost
<1>9. AtTop(p, f)
  BY <1>2, <1>3 DEF AtTop
<1>10. Flagged(p, f)
  BY <1>3, <1>5 DEF Flagged
<1> QED
  BY <1>7, <1>8, <1>9, <1>10 DEF Follows

\* An element that leaves the pointers is closed.
LEMMA PopFollows ==
  ASSUME NEW o, Nested(o), o # <<>>, NEW g, NEW f, Keeps(g, f), Follows(o, g),
         f.items = g.items, f.schema = g.schema, f.converted = g.converted,
         f.parent = g.parent, g.converted /\ ~g.strayed => f.element = g.element,
         o[Len(o)].tag # "complexType"
  PROVE  Follows(Front(o), f)
<1> SUFFICES ASSUME ~f.strayed PROVE Follows(Front(o), f)
  BY DEF Follows
<1> DEFINE p == Front(o)
<1>1. /\ Nested(p) /\ Len(p) = Len(o) - 1
      /\ \A i \in 1 .. Len(o) - 1 : p[i] = o[i]
  BY Pop
<1> HIDE DEF p
<1>2. /\ Len(o) \in Nat \ {0} /\ DOMAIN o = 1 .. Len(o) /\ o \in Seq(Opened) /\ o[1].tag = "schema"
      /\ \A i \in 1 .. Len(o) - 1 : o[i + 1].tag \in Content[o[i].tag]
      /\ DOMAIN p = 1 .. Len(o) - 1 /\ p \in Seq(Opened)
  BY <1>1 DEF Nested
<1>3. /\ Chained(o, g) /\ Innermost(o, g) /\ AtTop(o, g) /\ Flagged(o, g) /\ ~g.strayed
  BY DEF Follows, Keeps
<1>4. \A n \in 1 .. Len(o), k \in Nat \ {0} : Around(o, k, n) <=> Around(p, k, n)
  <2>1. Len(p) \in Nat /\ \A i \in 1 .. Len(p) : o[i].tag = p[i].tag
    BY <1>1, <1>2
  <2>2. \A n \in 1 .. Len(p) + 1, k \in Nat \ {0} : Around(o, k, n) <=> Around(p, k, n)
    BY <2>1, PushAround
  <2>3. Len(p) + 1 = Len(o)
    BY <1>1, <1>2
  <2> QED
    BY <2>2, <2>3
<1>5. Chained(p, f)
  <2>1. \A i \in DOMAIN p : p[i].tag \in Scope => p[i].item \in DOMAIN f.items
    BY <1>1, <1>2, <1>3 DEF Chained
  <2>2. ASSUME NEW i \in DOMAIN p, NEW k \in DOMAIN p, Around(p, k, i), p[i].tag = "complexType"
        PROVE  f.items[p[i].item].parent = p[k].item
    <3>1. i \in DOMAIN o /\ k \in DOMAIN o /\ p[i] = o[i] /\ p[k] = o[k] /\ Around(o, k, i)
      BY <1>1, <1>2, <1>4, <2>2
    <3> QED
      BY <1>3, <2>2, <3>1 DEF Chained
  <2> QED
    BY <2>1, <2>2 DEF Chained
<1>6. CASE Len(o) = 1
  <2>1. Around(o, 1, Len(o) + 1)
    BY <1>2, <1>6 DEF Around, Scope
  <2>2. ~g.converted
    BY <1>2, <1>3, <1>6 DEF Nested, Flagged
  <2>3. g.parent = o[1].item /\ o[1].item = g.schema /\ o[1].item \in DOMAIN g.items
    BY <1>2, <1>3, <1>6, <2>1, <2>2 DEF Innermost, AtTop, Chained, Scope
  <2>4. p = <<>>
    BY <1>1, <1>2, <1>6
  <2> QED
    BY <1>2, <1>5, <1>6, <2>2, <2>3, <2>4 DEF Follows, Innermost, AtTop, Flagged, p
<1>7. CASE Len(o) # 1
  <2>1. o[Len(o)].tag \notin Scope
    <3>1. o[(Len(o) - 1) + 1].tag \in Content[o[Len(o) - 1].tag]
      BY <1>2, <1>7
    <3>2. o[Len(o) - 1] \in Opened
      BY <1>2, <1>7
    <3>3. o[Len(o)].tag # "schema"
      BY <1>2, <3>1, <3>2, ContentFacts DEF Opened
    <3> QED
      BY <3>3 DEF Scope
  <2>2. Innermost(p, f)
    <3>1. SUFFICES ASSUME NEW i \in DOMAIN p, Around(p, i, Len(o))
          PROVE  IF f.converted
                 THEN f.element = p[i].item /\ \E k \in DOMAIN p : Around(p, k, i) /\ f.parent = p[k].item
                 ELSE f.parent = p[i].item
      BY <1>1, <1>2 DEF Innermost
    <3>2. i \in DOMAIN o /\ p[i] = o[i] /\ Around(o, i, Len(o))
      BY <1>1, <1>2, <1>4, <3>1
    <3>3. Around(o, i, Len(o) + 1)
      BY <1>2, <2>1, <3>2 DEF Around
    <3>4. CASE ~g.converted
      BY <1>3, <3>2, <3>3, <3>4 DEF Innermost
    <3>5. CASE g.converted
      <4>1. PICK k \in DOMAIN o : Around(o, k, i) /\ g.parent = o[k].item
        BY <1>3, <3>2, <3>3, <3>5 DEF Innermost
      <4>2. k < i
        BY <4>1 DEF Around
      <4>3. k \in DOMAIN p /\ p[k] = o[k] /\ Around(p, k, i)
        BY <1>1, <1>2, <1>4, <3>1, <4>1, <4>2
      <4>4. g.element = o[i].item
        BY <1>3, <3>2, <3>3, <3>5 DEF Innermost
      <4> QED
        BY <1>3, <3>2, <3>5, <4>1, <4>3, <4>4
    <3> QED
      BY <3>4, <3>5
  <2>3. AtTop(p, f)
    BY <1>1, <1>2, <1>3, <1>7 DEF AtTop
  <2>4. ~o[Len(o)].simple
    BY <1>2 DEF Nested
  <2>5. Flagged(p, f)
    BY <1>1, <1>2, <1>3, <2>4 DEF Flagged
  <2> QED
    BY <1>5, <2>2, <2>3, <2>5 DEF Follows, p
<1> QED
  BY <1>6, <1>7

\* A complex type is closed: the scope around it is current.
LEMMA EndComplexFollows ==
  ASSUME NEW o, Nested(o), o # <<>>, NEW g, WellFormed(g), Follows(o, g),
         o[Len(o)].tag = "complexType"
  PROVE  Follows(Front(o), EndComplexType(g))
<1> DEFINE f == EndComplexType(g)
           p == Front(o)
<1>1. /\ Nested(p) /\ Len(p) = Len(o) - 1
      /\ \A i \in 1 .. Len(o) - 1 : p[i] = o[i]
  BY Pop
<1> HIDE DEF p
<1>2. /\ Len(o) \in Nat \ {0} /\ DOMAIN o = 1 .. Len(o) /\ o \in Seq(Opened) /\ o[1].tag = "schema"
      /\ DOMAIN p = 1 .. Len(o) - 1 /\ p \in Seq(Opened) /\ Len(o) # 1
      /\ \A i \in DOMAIN o : o[i].simple =>
           \A j \in i + 1 .. Len(o) : o[j].tag \in WithinSimple
  BY <1>1 DEF Nested
<1>3. /\ f.items = g.items /\ f.schema = g.schema /\ f.strayed = g.strayed /\ ~f.converted
      /\ g.converted => f.parent = g.parent
      /\ ~g.converted => f.parent = IF g.parent = 0 THEN 0 ELSE g.items[g.parent].parent
  BY DEF EndComplexType, WellFormed, HandlerFields
<1> HIDE DEF f
<1> SUFFICES ASSUME ~f.strayed PROVE Follows(p, f)
  BY DEF Follows, f, p
<1>4. Chained(o, g) /\ Innermost(o, g) /\ AtTop(o, g) /\ Flagged(o, g)
  BY <1>3 DEF Follows
<1>5. \A n \in 1 .. Len(o), k \in Nat \ {0} : Around(o, k, n) <=> Around(p, k, n)
  <2>1. Len(p) \in Nat /\ \A i \in 1 .. Len(p) : o[i].tag = p[i].tag
    BY <1>1, <1>2
  <2>2. \A n \in 1 .. Len(p) + 1, k \in Nat \ {0} : Around(o, k, n) <=> Around(p, k, n)
    BY <2>1, PushAround
  <2>3. Len(p) + 1 = Len(o)
    BY <1>1, <1>2
  <2> QED
    BY <2>2, <2>3
<1>6. Around(o, Len(o), Len(o) + 1)
  BY <1>2 DEF Around, Scope
<1>7. Chained(p, f)
  <2>1. \A i \in DOMAIN p : p[i].tag \in Scope => p[i].item \in DOMAIN f.items
    BY <1>1, <1>2, <1>3, <1>4 DEF Chained
  <2>2. ASSUME NEW i \in DOMAIN p, NEW k \in DOMAIN p, Around(p, k, i), p[i].tag = "complexType"
        PROVE  f.items[p[i].item].parent = p[k].item
    <3>1. i \in DOMAIN o /\ k \in DOMAIN o /\ p[i] = o[i] /\ p[k] = o[k] /\ Around(o, k, i)
      BY <1>1, <1>2, <1>5, <2>2
    <3> QED
      BY <1>3, <1>4, <2>2, <3>1 DEF Chained
  <2> QED
    BY <2>1, <2>2 DEF Chained
<1>8. ASSUME NEW i \in DOMAIN p, Around(p, i, Len(p) + 1)
      PROVE  f.parent = p[i].item
  <2>1. i \in DOMAIN o /\ p[i] = o[i] /\ Around(o, i, Len(o))
    BY <1>1, <1>2, <1>5, <1>8
  <2>2. CASE g.converted
    <3>1. PICK k \in DOMAIN o : Around(o, k, Len(o)) /\ g.parent = o[k].item
      BY <1>2, <1>4, <1>6, <2>2 DEF Innermost
    <3>2. k = i
      BY <1>2, <2>1, <3>1, OneInnermost
    <3> QED
      BY <1>3, <2>1, <2>2, <3>1, <3>2
  <2>3. CASE ~g.converted
    <3>1. g.parent = o[Len(o)].item
      BY <1>2, <1>4, <1>6, <2>3 DEF Innermost
    <3>2. g.parent # 0
      <4>1. g.parent \in DOMAIN g.items
        BY <1>2, <1>4, <3>1 DEF Chained, Scope
      <4> QED
        BY <4>1 DEF WellFormed, Items
    <3>3. g.items[o[Len(o)].item].parent = o[i].item
      BY <1>2, <1>4, <2>1 DEF Chained
    <3> QED
      BY <1>3, <2>1, <2>3, <3>1, <3>2, <3>3
  <2> QED
    BY <2>2, <2>3
<1>9. Innermost(p, f)
  BY <1>3, <1>8 DEF Innermost
<1>10. AtTop(p, f)
  BY <1>1, <1>2, <1>3, <1>4 DEF AtTop
<1>11. Flagged(p, f)
  <2>1. \A i \in DOMAIN p : ~o[i].simple
    BY <1>2 DEF WithinSimple
  <2> QED
    BY <1>1, <1>2, <1>3, <2>1 DEF Flagged
<1> QED
  BY <1>7, <1>9, <1>10, <1>11 DEF Follows, p, f

-----------------------------------------------------------------------------
\* The steps

Reads(o, g) ==
  /\ WellFormed(g) /\ g.schema \in Nat
  /\ g.annotation <=> o # <<>> /\ o[Len(o)].tag \in InAnnotation

Good(o, g) == Nested(o) /\ Reads(o, g) /\ Follows(o, g)

\* The start of an element that moves no pointer to a complex type.
LEMMA StartedStays ==
  ASSUME NEW g, WellFormed(g), NEW e,
         e.tag \in Tag \ {"schema", "complexType", "simpleContent", "documentation"}
  PROVE  LET f == Started(g, e)
         IN  /\ Keeps(g, f)
             /\ f.parent = g.parent /\ f.schema = g.schema /\ f.converted = g.converted
             /\ e.tag \in {"extension", "attribute", "annotation"} => f.element = g.element
             /\ IF e.tag = "annotation" THEN f.annotation = TRUE
                ELSE f.annotation = g.annotation
<1> DEFINE f == Started(g, e)
<1>1. CASE e.tag = "element"
  <2>1. f = processElement(g, e)
    BY <1>1 DEF Started, Group
  <2> QED
    BY <1>1, <2>1, elementKeeps DEF Stays
<1>2. CASE e.tag \in Group
  <2>1. f = processGroup(g, e.tag)
    BY <1>2 DEF Started, Group
  <2> QED
    BY <1>2, <2>1, groupKeeps DEF Stays, Group
<1>3. CASE e.tag = "attribute"
  BY <1>3, attributeKeeps DEF Started, Stays, Group
<1>4. CASE e.tag = "simpleType"
  BY <1>4, simpleTypeKeeps DEF Started, Stays, Group
<1>5. CASE e.tag = "restriction"
  <2>1. f = Derived(g, e, FALSE)
    BY <1>5 DEF Started, Group, processRestriction
  <2>2. /\ Keeps(g, Derived(g, e, FALSE)) /\ Stays(g, Derived(g, e, FALSE))
        /\ Derived(g, e, FALSE).element = g.element
    BY derivedKeeps
  <2> HIDE DEF f
  <2>3. Keeps(g, f) /\ Stays(g, f) /\ f.element = g.element
    BY <2>1, <2>2
  <2> QED
    BY <1>5, <2>3 DEF Stays, f
<1>6. CASE e.tag = "list"
  <2>1. f = Derived(g, e, TRUE)
    BY <1>6 DEF Started, Group, processList
  <2>2. /\ Keeps(g, Derived(g, e, TRUE)) /\ Stays(g, Derived(g, e, TRUE))
        /\ Derived(g, e, TRUE).element = g.element
    BY derivedKeeps
  <2> HIDE DEF f
  <2>3. Keeps(g, f) /\ Stays(g, f) /\ f.element = g.element
    BY <2>1, <2>2
  <2> QED
    BY <1>6, <2>3 DEF Stays, f
<1>7. CASE e.tag = "enumeration"
  BY <1>7, enumerationKeeps DEF Started, Stays, Group
<1>8. CASE e.tag = "minInclusive"
  BY <1>8, minMaxInclusiveKeeps DEF Started, Stays, Group
<1>9. CASE e.tag = "complexContent"
  BY <1>9, AnswersKeeps DEF Started, Stays, Group
<1>10. CASE e.tag = "extension"
  BY <1>10, extensionKeeps DEF Started, Stays, Group
<1>11. CASE e.tag = "include"
  <2>1. f = [g EXCEPT !.includes = Append(@, e.value), !.noErrors = TRUE]
    BY <1>11 DEF Started, Group, processIncludes
  <2> QED
    BY <1>11, <2>1 DEF WellFormed, Keeps, HandlerFields
<1>12. CASE e.tag = "annotation"
  <2>1. f = [g EXCEPT !.annotation = TRUE, !.noErrors = TRUE]
    BY <1>12 DEF Started, Group
  <2> QED
    BY <1>12, <2>1 DEF WellFormed, Keeps, HandlerFields
<1> QED
  BY <1>1, <1>2, <1>3, <1>4, <1>5, <1>6, <1>7, <1>8, <1>9, <1>10, <1>11, <1>12 DEF Tag, Group

\* startElement, whatever the element.
LEMMA Start ==
  ASSUME NEW o, NEW g, Good(o, g), NEW e, e.tag \in AllowedIn(o),
         NEW f, f = IF g.annotation THEN g ELSE Started(g, e),
         NEW r, r = [tag |-> e.tag, simple |-> FALSE,
                     item |-> IF e.tag = "schema" THEN f.schema ELSE Len(f.items)],
         NEW p, p = Append(IF e.tag # "simpleContent" THEN o
                           ELSE [o EXCEPT ![Len(o)].simple = TRUE], r)
  PROVE  Good(p, f)
<1>1. /\ WellFormed(g) /\ g.schema \in Nat /\ Nested(o) /\ Follows(o, g)
      /\ g.annotation <=> o # <<>> /\ o[Len(o)].tag \in InAnnotation
  BY DEF Good, Reads
<1>2. o \in Seq(Opened) /\ Len(o) \in Nat /\ DOMAIN o = 1 .. Len(o)
  BY <1>1 DEF Nested
<1>3. o # <<>> => Len(o) \in 1 .. Len(o) /\ o[Len(o)] \in Opened /\ e.tag \in Content[o[Len(o)].tag]
  BY <1>2 DEF AllowedIn
<1>4. e.tag \in Tag /\ (e.tag = "schema" <=> o = <<>>)
  <2>1. CASE o = <<>>
    BY <2>1 DEF AllowedIn, Tag
  <2>2. CASE o # <<>>
    BY <1>3, <2>2, ContentFacts DEF Opened
  <2> QED
    BY <2>1, <2>2
<1>5. g.annotation => e.tag = "documentation"
  BY <1>1, <1>3, ContentFacts DEF InAnnotation
<1>6. e.tag = "documentation" => g.annotation
  BY <1>1, <1>3, <1>4, ContentFacts DEF InAnnotation, Opened
<1>7. WellFormed(f) => Len(f.items) \in Nat
  BY DEF WellFormed, Items
<1>8. WellFormed(f) /\ f.schema \in Nat => r \in Opened /\ r.tag = e.tag /\ ~r.simple
  BY <1>4, <1>7 DEF Opened
<1>9. o # <<>> /\ e.tag # "simpleContent" =>
        p = Append(o, r) /\ p # <<>> /\ p[Len(p)] = r
  BY <1>2
<1>10. CASE e.tag \notin {"schema", "complexType", "simpleContent"}
  <2>1. o # <<>>
    BY <1>4, <1>10
  <2>2. CASE g.annotation
    <3>1. Keeps(g, g)
      BY <1>1 DEF Keeps
    <3>2. r.tag \notin Scope /\ r \in Opened /\ ~r.simple
      BY <1>1, <1>8, <1>10, <2>2 DEF Scope
    <3>3. Follows(Append(o, r), g)
      BY <1>1, <2>1, <3>1, <3>2, StaysFollows
    <3>4. Nested(Append(o, r))
      BY <1>1, <1>8, <1>10, <2>2, Push
    <3>5. Reads(p, f)
      BY <1>1, <1>5, <1>8, <1>9, <1>10, <2>1, <2>2 DEF Reads, InAnnotation
    <3> QED
      BY <1>9, <1>10, <2>1, <2>2, <3>3, <3>4, <3>5 DEF Good
  <2>3. CASE ~g.annotation
    <3>1. f = Started(g, e) /\ e.tag # "documentation"
      BY <1>6, <2>3
    <3>2. /\ Keeps(g, f)
          /\ f.parent = g.parent /\ f.schema = g.schema /\ f.converted = g.converted
          /\ e.tag \in {"extension", "attribute", "annotation"} => f.element = g.element
          /\ IF e.tag = "annotation" THEN f.annotation = TRUE ELSE f.annotation = g.annotation
      <4>1. e.tag \in Tag \ {"schema", "complexType", "simpleContent", "documentation"}
        BY <1>4, <1>10, <3>1
      <4> DEFINE x == Started(g, e)
      <4>2. /\ Keeps(g, x)
            /\ x.parent = g.parent /\ x.schema = g.schema /\ x.converted = g.converted
            /\ e.tag \in {"extension", "attribute", "annotation"} => x.element = g.element
            /\ IF e.tag = "annotation" THEN x.annotation = TRUE ELSE x.annotation = g.annotation
        BY <1>1, <4>1, StartedStays
      <4>3. f = x
        BY <3>1
      <4> HIDE DEF x
      <4> QED
        BY <4>2, <4>3
    <3>3. r \in Opened /\ r.tag = e.tag /\ ~r.simple
      BY <1>1, <1>8, <3>2 DEF Keeps
    <3>4. g.converted /\ ~g.strayed => f.element = g.element
      <4>1. SUFFICES ASSUME g.converted, ~g.strayed
                     PROVE  e.tag \in {"extension", "attribute", "annotation"}
        BY <3>2
      <4>2. PICK i \in DOMAIN o : o[i].simple
        BY <1>1, <4>1 DEF Follows, Flagged
      <4>3. o[Len(o)].tag \in WithinSimple \cup {"complexType"}
        BY <1>1, <1>2, <1>3, <2>1, <4>2 DEF Nested
      <4>4. e.tag \in Content[o[Len(o)].tag] \ (Group \cup {"simpleContent", "complexContent"})
        BY <2>1, <4>2 DEF AllowedIn
      <4> QED
        BY <3>1, <4>3, <4>4, ContentFacts
    <3>5. Follows(Append(o, r), f)
      BY <1>1, <1>10, <2>1, <3>2, <3>3, <3>4, StaysFollows DEF Scope
    <3>6. Nested(Append(o, r))
      BY <1>1, <1>10, <3>3, Push
    <3>7. Reads(p, f)
      BY <1>1, <1>9, <1>10, <2>1, <2>3, <3>1, <3>2, <3>3 DEF Reads, Keeps, InAnnotation
    <3> QED
      BY <1>9, <1>10, <2>1, <3>5, <3>6, <3>7 DEF Good
  <2> QED
    BY <2>2, <2>3
<1>11. CASE e.tag = "schema"
  <2>1. o = <<>> /\ ~g.annotation
    BY <1>1, <1>4, <1>11
  <2>2. f = processSchema(g, e)
    BY <1>11, <2>1 DEF Started, Group
  <2>3. Keeps(g, f) /\ f.annotation = g.annotation /\ f.schema \in Nat
    <3>1. /\ Keeps(g, f) /\ f.annotation = g.annotation
          /\ IF g.parent # 0 THEN Stays(g, f) ELSE f.schema = f.parent /\ f.parent \in DOMAIN f.items
      BY <1>1, <2>2, schemaKeeps
    <3>2. DOMAIN f.items \subseteq Nat
      BY <3>1 DEF Keeps, WellFormed, Items
    <3> QED
      BY <1>1, <3>1, <3>2 DEF Stays
  <2>4. r \in Opened /\ r.tag = "schema" /\ ~r.simple /\ r.item = f.schema
    BY <1>8, <1>11, <2>3 DEF Keeps
  <2>5. p = <<r>> /\ p = Append(o, r) /\ p # <<>> /\ p[Len(p)] = r
    <3>1. p = Append(o, r)
      BY <1>11
    <3>2. Append(<<>>, r) = <<r>>
      OBVIOUS
    <3> QED
      BY <2>1, <3>1, <3>2
  <2>6. Follows(<<r>>, f)
    BY <1>1, <2>1, <2>2, <2>4, SchemaFollows
  <2>7. Nested(Append(o, r))
    BY <1>1, <1>11, <2>4, Push
  <2>8. Reads(p, f)
    BY <2>1, <2>3, <2>4, <2>5 DEF Reads, Keeps, InAnnotation
  <2> QED
    BY <2>5, <2>6, <2>7, <2>8 DEF Good
<1>12. CASE e.tag = "complexType"
  <2>1. o # <<>> /\ ~g.annotation
    BY <1>4, <1>5, <1>12
  <2>2. f = processComplexType(g, e)
    BY <1>12, <2>1 DEF Started, Group
  <2>3. /\ Keeps(g, f) /\ f.schema = g.schema
        /\ f.converted = g.converted /\ f.annotation = g.annotation
        /\ f.parent = Len(f.items) /\ f.parent \in DOMAIN f.items
        /\ f.items[f.parent].parent = g.parent
    BY <1>1, <2>2, complexTypeKeeps
  <2>4. r \in Opened /\ r.tag = e.tag /\ ~r.simple /\ r.item = f.parent
    BY <1>1, <1>8, <1>12, <2>3 DEF Keeps
  <2>5. ~\E i \in DOMAIN o : o[i].simple
    <3>1. SUFFICES ASSUME NEW i \in DOMAIN o, o[i].simple PROVE FALSE
      OBVIOUS
    <3>2. o[Len(o)].tag \in WithinSimple \cup {"complexType"}
      BY <1>1, <1>2, <1>3, <2>1, <3>1 DEF Nested
    <3>3. e.tag \in Content[o[Len(o)].tag] \ (Group \cup {"simpleContent", "complexContent"})
      BY <2>1, <3>1 DEF AllowedIn
    <3> QED
      BY <1>12, <3>2, <3>3, ContentFacts
  <2>6. Follows(Append(o, r), f)
    BY <1>1, <1>12, <2>1, <2>3, <2>4, <2>5, ScopeFollows
  <2>7. Nested(Append(o, r))
    BY <1>1, <1>12, <2>4, Push
  <2>8. Reads(p, f)
    BY <1>1, <1>9, <1>12, <2>1, <2>3, <2>4 DEF Reads, Keeps, InAnnotation
  <2> QED
    BY <1>9, <1>12, <2>1, <2>6, <2>7, <2>8 DEF Good
<1>13. CASE e.tag = "simpleContent"
  <2> DEFINE q == [o EXCEPT ![Len(o)].simple = TRUE]
  <2>1. o # <<>> /\ ~g.annotation
    BY <1>4, <1>5, <1>13
  <2>2. f = processSimpleContent(g, e)
    BY <1>13, <2>1 DEF Started, Group
  <2>3. Keeps(g, f) /\ f.schema = g.schema /\ f.annotation = g.annotation
    <3> DEFINE x == processSimpleContent(g, e)
    <3>1. Keeps(g, x) /\ x.schema = g.schema /\ x.annotation = g.annotation
      BY <1>1, simpleContentKeeps
    <3> HIDE DEF x
    <3> QED
      BY <2>2, <3>1 DEF x
  <2>4. r \in Opened /\ r.tag = e.tag /\ ~r.simple
    BY <1>1, <1>8, <2>3 DEF Keeps
  <2>5. Nested(Append(q, r)) /\ q \in Seq(Opened)
    BY <1>1, <1>13, <2>4, PushSimple
  <2>6. p = Append(q, r)
    BY <1>13
  <2>7. ~g.strayed => Follows(Append(q, r), f)
    <3>1. ~g.strayed => Follows(Append(q, r), processSimpleContent(g, e))
      BY <1>1, <1>13, <2>4, SimpleFollows
    <3> QED
      BY <2>2, <3>1
  <2> HIDE DEF q
  <2>8. p # <<>> /\ p[Len(p)] = r
    BY <2>5, <2>6
  <2>9. Reads(p, f)
    BY <1>1, <1>13, <2>1, <2>3, <2>4, <2>8 DEF Reads, Keeps, InAnnotation
  <2>10. Follows(p, f)
    BY <2>3, <2>6, <2>7 DEF Follows, Keeps
  <2> QED
    BY <2>5, <2>6, <2>9, <2>10 DEF Good
<1> QED
  BY <1>10, <1>11, <1>12, <1>13

\* endElement, whatever the element, and whatever lies behind the name choice.
LEMMA End ==
  ASSUME NEW o, NEW g, Good(o, g), o # <<>>, NEW f,
         f \in IF ~g.annotation THEN Ended(g, o[Len(o)].tag)
               ELSE {[g EXCEPT !.annotation = o[Len(o)].tag # "annotation"]}
  PROVE  Good(Front(o), f)
<1> DEFINE tag == o[Len(o)].tag
           p == Front(o)
<1>1. /\ WellFormed(g) /\ g.schema \in Nat /\ Nested(o) /\ Follows(o, g)
      /\ g.annotation <=> o # <<>> /\ tag \in InAnnotation
  BY DEF Good, Reads
<1>2. /\ o \in Seq(Opened) /\ Len(o) \in Nat \ {0} /\ DOMAIN o = 1 .. Len(o) /\ tag \in Tag
  <2>1. o \in Seq(Opened) /\ Len(o) \in Nat \ {0} /\ DOMAIN o = 1 .. Len(o)
    BY <1>1 DEF Nested
  <2>2. o[Len(o)] \in Opened
    BY <2>1
  <2> QED
    BY <2>1, <2>2 DEF Opened
<1>3. /\ Nested(p) /\ Len(p) = Len(o) - 1
      /\ \A i \in 1 .. Len(o) - 1 : p[i] = o[i]
  BY <1>1, Pop
<1> HIDE DEF p
<1>4. p # <<>> => /\ p[Len(p)].tag \in Tag /\ tag \in Content[p[Len(p)].tag]
  <2>1. SUFFICES ASSUME p # <<>>
                 PROVE  p[Len(p)].tag \in Tag /\ tag \in Content[p[Len(p)].tag]
    OBVIOUS
  <2>2. Len(p) \in 1 .. Len(o) - 1 /\ p[Len(p)] \in Opened /\ Len(p) + 1 = Len(o)
    BY <1>2, <1>3, <2>1 DEF Nested
  <2>3. p[Len(p)] = o[Len(p)] /\ o[Len(p) + 1].tag \in Content[o[Len(p)].tag]
    BY <1>1, <1>3, <2>2 DEF Nested
  <2> QED
    BY <2>2, <2>3 DEF Opened
<1>5. (p # <<>> /\ p[Len(p)].tag \in InAnnotation) <=> tag = "documentation"
  <2>1. tag = "documentation" => p # <<>>
    <3>1. SUFFICES ASSUME p = <<>>, tag = "documentation" PROVE FALSE
      OBVIOUS
    <3>2. Len(o) = 1
      <4>1. Len(p) = 0
        BY <3>1
      <4>2. Len(o) \in Nat /\ Len(p) = Len(o) - 1
        BY <1>2, <1>3
      <4> HIDE DEF tag
      <4> QED
        BY <4>1, <4>2
    <3> QED
      BY <1>1, <1>2, <3>1, <3>2 DEF Nested
  <2> QED
    BY <1>4, <2>1, ContentFacts DEF InAnnotation
<1>6. CASE g.annotation
  <2>1. f = [g EXCEPT !.annotation = tag # "annotation"]
    BY <1>6
  <2>2. tag \in InAnnotation
    BY <1>1, <1>6
  <2> HIDE DEF tag
  <2>3. /\ Keeps(g, f) /\ f.items = g.items /\ f.schema = g.schema /\ f.converted = g.converted
        /\ f.parent = g.parent /\ f.element = g.element
        /\ f.annotation = (tag # "annotation")
    BY <1>1, <2>1 DEF WellFormed, Keeps, HandlerFields
  <2>4. f.annotation <=> tag = "documentation"
    BY <2>2, <2>3 DEF InAnnotation
  <2>5. Follows(p, f)
    BY <1>1, <2>2, <2>3, PopFollows DEF InAnnotation, tag, p
  <2> QED
    BY <1>1, <1>3, <1>5, <2>3, <2>4, <2>5 DEF Good, Reads, Keeps, p
<1>7. CASE ~g.annotation
  <2>1. f \in Ended(g, tag) /\ tag \notin InAnnotation
    BY <1>1, <1>7
  <2>2. ~(p # <<>> /\ p[Len(p)].tag \in InAnnotation)
    BY <1>5, <2>1 DEF InAnnotation
  <2>3. CASE tag = "complexType"
    <3>1. f = EndComplexType(g)
      BY <2>1, <2>3 DEF Ended
    <3>2. WellFormed(f) /\ f.schema = g.schema /\ f.annotation = g.annotation
      BY <1>1, <3>1 DEF EndComplexType, WellFormed, HandlerFields
    <3>3. Follows(p, f)
      BY <1>1, <2>3, <3>1, EndComplexFollows DEF p
    <3>4. Reads(p, f)
      BY <1>1, <1>7, <2>2, <3>2 DEF Reads
    <3> QED
      BY <1>3, <3>3, <3>4 DEF Good, p
  <2>4. CASE tag = "choice" /\ f # g
    <3>1. f = [EndComplexType(g) EXCEPT !.strayed = TRUE]
      BY <2>1, <2>4 DEF Ended
    <3>2. WellFormed(f) /\ f.schema = g.schema /\ f.annotation = g.annotation /\ f.strayed
      BY <1>1, <3>1 DEF EndComplexType, WellFormed, HandlerFields
    <3>3. Follows(p, f)
      BY <3>2 DEF Follows
    <3>4. Reads(p, f)
      BY <1>1, <1>7, <2>2, <3>2 DEF Reads
    <3> QED
      BY <1>3, <3>3, <3>4 DEF Good, p
  <2>5. CASE tag # "complexType" /\ ~(tag = "choice" /\ f # g)
    <3>1. /\ Keeps(g, f) /\ f.items = g.items /\ f.schema = g.schema /\ f.converted = g.converted
          /\ f.parent = g.parent /\ f.annotation = g.annotation
          /\ tag # "element" => f.element = g.element
      <4>1. \/ f = g \/ f = [g EXCEPT !.attribute = 0] \/ f = [g EXCEPT !.facet = 0]
            \/ f = [g EXCEPT !.type = 0] \/ (tag = "element" /\ f = [g EXCEPT !.element = 0])
        <5> HIDE DEF tag
        <5>1. CASE tag = "choice"
          BY <2>5, <5>1
        <5>2. CASE tag \in {"attribute", "element", "restriction"}
          BY <2>1, <5>2 DEF Ended
        <5>3. CASE tag \in {"schema", "sequence", "simpleType", "simpleContent"}
          BY <2>1, <5>3 DEF Ended
        <5>4. CASE tag \notin {"choice", "attribute", "element", "restriction", "schema",
                              "sequence", "simpleType", "simpleContent"}
          BY <2>1, <2>5, <5>4 DEF Ended
        <5> QED
          BY <5>1, <5>2, <5>3, <5>4
      <4> HIDE DEF tag
      <4> QED
        BY <1>1, <4>1 DEF WellFormed, Keeps, HandlerFields
    <3>2. g.converted /\ ~g.strayed => f.element = g.element
      <4>1. SUFFICES ASSUME g.converted, ~g.strayed PROVE tag # "element"
        BY <3>1
      <4>2. PICK i \in DOMAIN o : o[i].simple
        BY <1>1, <4>1 DEF Follows, Flagged
      <4>3. tag \in WithinSimple \cup {"complexType"}
        BY <1>1, <1>2, <4>2 DEF Nested
      <4> QED
        BY <4>3 DEF WithinSimple
    <3>3. Follows(p, f)
      BY <1>1, <2>5, <3>1, <3>2, PopFollows DEF p
    <3>4. Reads(p, f)
      BY <1>1, <1>7, <2>2, <3>1 DEF Reads, Keeps
    <3> QED
      BY <1>3, <3>3, <3>4 DEF Good, p
  <2> QED
    BY <2>3, <2>4, <2>5
<1> QED
  BY <1>6, <1>7

\* The file is at its end: a new handler, or the same one for the next file.
LEMMA Anew ==
  /\ Good(<<>>, NewHandler)
  /\ \A g, includes : Good(<<>>, g) => Good(<<>>, [g EXCEPT !.includes = includes])
<1>1. Nested(<<>>)
  BY DEF Nested
<1>2. Items(<<>>)
  BY DEF Items
<1>3. Good(<<>>, NewHandler)
  <2>1. WellFormed(NewHandler) /\ ~NewHandler.annotation /\ NewHandler.schema = 0
    BY <1>2 DEF NewHandler, WellFormed, HandlerFields
  <2>2. NewHandler.parent = 0 /\ ~NewHandler.converted
    BY DEF NewHandler
  <2>3. Follows(<<>>, NewHandler)
    BY <2>1, <2>2 DEF Follows, Chained, Innermost, AtTop, Flagged
  <2> QED
    BY <1>1, <2>1, <2>3 DEF Good, Reads
<1>4. ASSUME NEW g, NEW includes, Good(<<>>, g)
      PROVE  Good(<<>>, [g EXCEPT !.includes = includes])
  <2> DEFINE f == [g EXCEPT !.includes = includes]
  <2>1. WellFormed(g) /\ g.schema \in Nat /\ ~g.annotation /\ Follows(<<>>, g)
    BY <1>4 DEF Good, Reads
  <2>2. /\ WellFormed(f) /\ f.items = g.items /\ f.schema = g.schema /\ f.converted = g.converted
        /\ f.parent = g.parent /\ f.annotation = g.annotation /\ f.strayed = g.strayed
    BY <2>1 DEF WellFormed, HandlerFields
  <2> HIDE DEF f
  <2>3. Follows(<<>>, f)
    BY <2>1, <2>2 DEF Follows, Chained, Innermost, AtTop, Flagged
  <2> QED
    BY <1>1, <2>1, <2>2, <2>3 DEF Good, Reads, f
<1> QED
  BY <1>3, <1>4

-----------------------------------------------------------------------------
\* The handler keeps up with the document: startElement, endElement, the next
\* included file and the next load preserve what its pointers stand for.
THEOREM HandlerFollows == HandlerSpec => []Good(open, h)
<1>1. HandlerInit => Good(open, h)
  BY Anew DEF HandlerInit
<1>2. Good(open, h) /\ [HandlerNext \/ NextFile \/ Renew]_handlerVars => Good(open, h)'
  <2> SUFFICES ASSUME Good(open, h), [HandlerNext \/ NextFile \/ Renew]_handlerVars
               PROVE  Good(open', h')
    OBVIOUS
  <2>1. CASE startElement
    <3> DEFINE e == Head(rest)
               r == [tag |-> e.tag, simple |-> FALSE,
                     item |-> IF e.tag = "schema" THEN h'.schema ELSE Len(h'.items)]
    <3>1. open \in Seq(Opened)
      BY DEF Good, Nested
    <3>2. Allowed = AllowedIn(open)
      BY <3>1 DEF Allowed, AllowedIn, Last
    <3>3. /\ e.tag \in AllowedIn(open)
          /\ h' = IF h.annotation THEN h ELSE Started(h, e)
          /\ open' = Append(IF e.tag # "simpleContent" THEN open
                            ELSE [open EXCEPT ![Len(open)].simple = TRUE], r)
      BY <2>1, <3>2 DEF startElement
    <3> HIDE DEF e
    <3> QED
      BY <3>3, Start
  <2>2. CASE endElement
    <3>1. /\ open # <<>> /\ open' = Front(open)
          /\ h' \in IF ~h.annotation THEN Ended(h, open[Len(open)].tag)
                    ELSE {[h EXCEPT !.annotation = open[Len(open)].tag # "annotation"]}
      BY <2>2 DEF endElement, Last
    <3> QED
      BY <3>1, End
  <2>3. CASE NextFile
    BY <2>3, Anew DEF NextFile
  <2>4. CASE Renew
    BY <2>4, Anew DEF Renew
  <2>5. CASE UNCHANGED handlerVars
    BY <2>5 DEF handlerVars
  <2> QED
    BY <2>1, <2>2, <2>3, <2>4, <2>5 DEF HandlerNext
<1> QED
  BY <1>1, <1>2, PTL DEF HandlerSpec

\* The pointers of the handler are the innermost complex type, whatever files a
\* parser delivers, however deep their types are and however often it loads.
THEOREM ParentCorrect == HandlerSpec => []ParentIsInnermost
<1>1. Good(open, h) => ParentIsInnermost
  BY DEF Good, Follows, Innermost, ParentIsInnermost, Encloses, Around
<1> QED
  BY <1>1, HandlerFollows, PTL
=============================================================================
