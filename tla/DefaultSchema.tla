---------------------------- MODULE DefaultSchema ----------------------------
(***************************************************************************)
(* The default definitions at work: the interpreter loads the default      *)
(* schema into the factory, and metadata created from the factory are      *)
(* saved and loaded through the rows the default translation table has for *)
(* their keys.                                                             *)
(***************************************************************************)
EXTENDS PreparsedSchema, Translations

vars == <<schemaVars, translationVars>>

\* A row of the table with the type of its metadatum.
RowOf(proto, e) ==
  [accessor |-> e.format, type |-> e.type, translator |-> e.translator,
   mdType |-> proto.code, vector |-> proto.vector]

\* Sound, faces and quantisation tables have code of their own in the accessors.
Special == {"audio", "face", "vuchar"}

\* A metadatum is made from its prototype, for a row of the default table or of the user's.
Create ==
  /\ msDefaultSchemaLoaded /\ ~parsing
  /\ \/ \E r \in Rows : Start(r)
     \/ \E key \in DOMAIN factory, j \in DOMAIN Table :
          /\ Table[j].key = key
          /\ \E e \in Table[j].entries :
               /\ e.type \notin Special
               /\ Start(RowOf(Schema[factory[key].row], e))
  /\ UNCHANGED schemaVars

Define == row = NoRow /\ SchemaNext /\ UNCHANGED translationVars
Translate == TranslationNext /\ UNCHANGED schemaVars

Init == SchemaInit /\ TranslationInit
Next == Define \/ Create \/ Translate

DefaultSpec == Init /\ [][Next]_vars

-----------------------------------------------------------------------------
\* Properties

IsTag(r) == r.name # "xsd:sequence"

Elements == {i \in DOMAIN Schema : IsTag(Schema[i]) /\ Schema[i].code # "end"}

\* An element, and the composite whose tags are the innermost around it.
Nesting ==
  LET opening == {i \in Elements : Schema[i].code = "composite"}
      closing == {i \in DOMAIN Schema : IsTag(Schema[i]) /\ Schema[i].code = "end"}
      depth(i) == Cardinality(opening \cap (1 .. i - 1)) - Cardinality(closing \cap (1 .. i - 1))
      around(i) == LET d == depth(i) IN Max({j \in opening : j < i /\ depth(j) < d})
  IN  {<<i, around(i)>> : i \in Elements \ {1}}

\* Every element is in the factory, under its name after the key of the composite around it.
Complete ==
  LET own == {key \in DOMAIN factory : factory[key].row # 0}
  IN  /\ {factory[key].row : key \in own} = Elements
      /\ \A key \in own \ {RootKey} :
           LET proto == factory[key]
               name == Schema[proto.row].name
           IN  /\ proto.group \in own
               /\ <<proto.row, factory[proto.group].row>> \in Nesting
               /\ key = IF proto.group = RootKey THEN name ELSE proto.group \o "." \o name

\* The default schema is taken for loaded exactly when every element of it is in the
\* factory, under the key of its place, and listed by the composite around it: not after a
\* load that failed at a key of the user, nor after an erase.  (parseDefault, load, erase.)
LoadedIsWhole == (~parsing /\ row = NoRow) => (msDefaultSchemaLoaded <=> Complete)

\* A prototype has the URI of a row with its key, and none only if no row has it: where the
\* last search ended does not matter.  (PmtSchemaSAXParser.cpp:1372-1382.)
UriOfKey ==
  row = NoRow => \A key \in DOMAIN factory :
    (factory[key].row > 1 /\ Schema[factory[key].row].code # "composite") =>
      LET j == factory[key].uriOf
      IN  IF j = 0 THEN RowsWith(key, DOMAIN Table) = {} ELSE Table[j].key = key
=============================================================================
