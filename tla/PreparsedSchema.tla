--------------------------- MODULE PreparsedSchema ---------------------------
(***************************************************************************)
(* The default definitions: the interpreter loads the default schema by    *)
(* going through the rows of a generated table, once, with a stack of      *)
(* composites, a stack of model groups and a pointer into the default      *)
(* translation table, and erases the definitions when it is asked to.      *)
(*                                                                         *)
(* The factory maps a key to the row it was made of, to the row of the     *)
(* translation table that gave its URI, and to the composite whose model   *)
(* group lists it.                                                         *)
(***************************************************************************)
EXTENDS DefaultTables, FiniteSetsExt, SequencesExt

CONSTANTS
  UserKeys,         \* sets of keys: what a schema of the user may define before it
  SizesAre64Bits    \* size_t is wider than unsigned int

ASSUME SizesAssumption == SizesAre64Bits \in BOOLEAN

VARIABLES
  factory,          \* key -> [row, uriOf, group]
  index,            \* the row that is next
  compositeStack,   \* the keys of the composites that are open
  fullKey,          \* the key that the next one goes on from, after its parts up to each dot
  modelGroupStack,  \* the keys of the composites that own the open groups
  transTable,       \* a row of the translation table
  parsing,          \* parseDefault is under way
  returnValue,      \* its answer so far: "true", "false", or "crashed"
  msDefaultSchemaLoaded

parserVars == <<index, compositeStack, fullKey, modelGroupStack, transTable>>
schemaVars == <<factory, parserVars, parsing, returnValue, msDefaultSchemaLoaded>>

Schema == PmtDefaultPreparsedSchema
Table == defaultTranslationTableArray

RootKey == ""
NoFactory == [k \in {} |-> 0]

\* addEntry
With(f, key, proto) == [k \in DOMAIN f \cup {key} |-> IF k = key THEN proto ELSE f[k]]
Foreign == [row |-> 0, uriOf |-> 0, group |-> RootKey]   \* of another schema

-----------------------------------------------------------------------------
\* Looking up a URI

RowsWith(key, among) == {j \in among : Table[j].key = key}

\* Mutant of FindRow: the search stops at the end of the table.
FindRowToTheEnd(from, key) ==
  LET after == RowsWith(key, from + 1 .. Len(Table))
  IN  IF after = {} THEN 0 ELSE Min(after)

\* The row of the key, looked for from the one after the last that was found, around the
\* table and back to that one.
FindRow(from, key) ==
  LET after == RowsWith(key, from + 1 .. Len(Table))
      before == RowsWith(key, 1 .. from)
  IN  CASE after # {} -> Min(after)
        [] after = {} /\ before # {} -> Min(before)
        [] OTHER -> 0

-----------------------------------------------------------------------------
\* parseDefault

Parent == Last(compositeStack)
Group == Last(modelGroupStack)

\* The row that is next, until it is the end tag of the root.
Item == Schema[index]
Reads ==
  /\ parsing
  /\ returnValue = "true"
  /\ Item.name # Schema[1].name

IsGroup == Item.name = "xsd:sequence"
Advance == index' = index + 1 /\ UNCHANGED <<parsing, msDefaultSchemaLoaded>>

FullKey == IF fullKey = <<>> THEN "" ELSE Last(fullKey)

\* The first level of composites has no prefix.
CompositeKey(name) == IF FullKey = "" THEN name ELSE FullKey \o "." \o name

\* The key without what follows its last dot.  The place of a dot that is not found, npos, is
\* a size_t: when an unsigned int is too narrow for it, the key stays as it is.
Shortened ==
  IF Len(fullKey) = 1 /\ SizesAre64Bits THEN fullKey ELSE Front(fullKey)

\* The name the end tag must have.
ClosingName(key) ==
  LET row == Schema[factory[key].row]
  IN  IF row.many THEN row.name \o "[1]" ELSE row.name

\* The root is made unless a schema is there already.
load ==
  /\ ~msDefaultSchemaLoaded /\ ~parsing
  /\ parsing' = TRUE
  /\ returnValue' = "true"
  /\ factory' = IF RootKey \in DOMAIN factory THEN factory
                ELSE With(NoFactory, RootKey, [row |-> 1, uriOf |-> 0, group |-> RootKey])
  /\ compositeStack' = <<RootKey>>
  /\ fullKey' = <<>>
  /\ modelGroupStack' = <<>>
  /\ index' = 2
  /\ transTable' = 1
  /\ UNCHANGED msDefaultSchemaLoaded

BeginGroup ==
  /\ Reads /\ Item.code = "composite" /\ IsGroup
  /\ modelGroupStack' = Append(modelGroupStack, Parent)
  /\ Advance
  /\ UNCHANGED <<factory, compositeStack, fullKey, transTable, returnValue>>

EndGroup ==
  /\ Reads /\ Item.code = "end" /\ IsGroup
  /\ modelGroupStack' = Front(modelGroupStack)
  /\ Advance
  /\ UNCHANGED <<factory, compositeStack, fullKey, transTable, returnValue>>

\* addEntry refuses a key that is there; then nothing is opened and parsing ends.
BeginComposite ==
  /\ Reads /\ Item.code = "composite" /\ ~IsGroup
  /\ LET key == CompositeKey(Item.name)
     IN  IF key \in DOMAIN factory
         THEN returnValue' = "false" /\ UNCHANGED <<factory, compositeStack, fullKey>>
         ELSE /\ factory' = With(factory, key, [row |-> index, uriOf |-> 0, group |-> Group])
              /\ compositeStack' = Append(compositeStack, key)
              /\ fullKey' = Append(fullKey, key)
              /\ UNCHANGED returnValue
  /\ Advance
  /\ UNCHANGED <<modelGroupStack, transTable>>

EndComposite ==
  /\ Reads /\ Item.code = "end" /\ ~IsGroup
  /\ IF ClosingName(Parent) = Item.name
     THEN /\ compositeStack' = Front(compositeStack)
          /\ fullKey' = Shortened
          /\ UNCHANGED returnValue
     ELSE returnValue' = "false" /\ UNCHANGED <<compositeStack, fullKey>>
  /\ Advance
  /\ UNCHANGED <<factory, modelGroupStack, transTable>>

\* The search goes on from where it ended; when it begins after the last row, it compares
\* the key with that of the row that ends the table, which is NULL.
Leaf ==
  /\ Reads /\ Item.code \notin {"composite", "end"}
  /\ LET key == FullKey \o "." \o Item.name
         found == FindRow(transTable, key)
     IN  IF transTable = Len(Table)
         THEN returnValue' = "crashed" /\ UNCHANGED <<factory, transTable>>
         ELSE /\ transTable' = IF found = 0 THEN transTable ELSE found
              /\ IF key \in DOMAIN factory
                 THEN returnValue' = "false" /\ UNCHANGED factory
                 ELSE /\ factory' = With(factory, key,
                                         [row |-> index, uriOf |-> found, group |-> Group])
                      /\ UNCHANGED returnValue
  /\ Advance
  /\ UNCHANGED <<compositeStack, fullKey, modelGroupStack>>

\* The end tag of the root, or a row that failed: load keeps the answer.
EndParse ==
  /\ parsing
  /\ returnValue # "crashed"
  /\ returnValue = "false" \/ Schema[index].name = Schema[1].name
  /\ parsing' = FALSE
  /\ msDefaultSchemaLoaded' = (returnValue = "true")
  /\ compositeStack' = <<>> /\ fullKey' = <<>> /\ modelGroupStack' = <<>>
  /\ index' = 1 /\ transTable' = 1
  /\ UNCHANGED <<factory, returnValue>>

\* Mutant of erase: the flag is left set.
eraseKeepsFlag ==
  /\ ~parsing
  /\ factory' = NoFactory
  /\ returnValue' = "true"
  /\ UNCHANGED <<parserVars, parsing, msDefaultSchemaLoaded>>

\* erase, and erase of the name space: the factory is emptied, the flag reset.
erase ==
  /\ ~parsing
  /\ factory' = NoFactory
  /\ msDefaultSchemaLoaded' = FALSE
  /\ returnValue' = "true"
  /\ UNCHANGED <<parserVars, parsing>>

\* load(uri) of a schema of the user, when there is no other (SchemaFactory has the rest).
loadSchema ==
  /\ ~parsing /\ factory = NoFactory
  /\ \E keys \in UserKeys :
       factory' = [k \in keys |-> IF k = RootKey THEN [Foreign EXCEPT !.row = 1] ELSE Foreign]
  /\ UNCHANGED <<parserVars, parsing, returnValue, msDefaultSchemaLoaded>>

SchemaInit ==
  /\ factory = NoFactory
  /\ index = 1 /\ transTable = 1
  /\ compositeStack = <<>> /\ fullKey = <<>> /\ modelGroupStack = <<>>
  /\ parsing = FALSE /\ returnValue = "true" /\ msDefaultSchemaLoaded = FALSE

ReadRow == BeginGroup \/ EndGroup \/ BeginComposite \/ EndComposite \/ Leaf
SchemaNext == load \/ ReadRow \/ EndParse \/ erase \/ loadSchema
=============================================================================
