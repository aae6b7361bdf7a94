------------------------------- MODULE Schemas -------------------------------
(***************************************************************************)
(* Loading a schema (PmtSchemaSAXParser): its file and the files it        *)
(* includes go through one handler, and what the handler made of them goes *)
(* into the factories, which another load finds as they are.               *)
(*                                                                         *)
(* A document gives each of its files, by its name, as a tree of elements.     *)
(***************************************************************************)
EXTENDS SchemaFactory, TLC

CONSTANTS
  Document,   \* the documents that may be loaded, a sequence
  Main,       \* the name of the file the load begins with
  MaxLoads    \* how often (a bound)

VARIABLES
  doc,      \* which document
  status,   \* "parsing" its file, "including", "done", or how it ended
  answer,   \* what the last load answered
  loads     \* the number of loads, up to MaxLoads

vars == <<handlerVars, factoryVars, doc, status, answer, loads>>
loadVars == <<doc, answer, loads>>

RECURSIVE Events(_)

\* The events a SAX parser makes of an element.
Events(t) ==
  LET inside[i \in 0 .. Len(t.kids)] ==
        IF i = 0 THEN <<>> ELSE inside[i - 1] \o Events(t.kids[i])
      event(start) == [start |-> start, tag |-> t.tag, name |-> t.name, type |-> t.type,
                       ref |-> t.ref, base |-> t.base, max |-> t.max, value |-> t.value]
  IN  <<event(TRUE)>> \o inside[Len(t.kids)] \o <<event(FALSE)>>

Init ==
  /\ doc \in DOMAIN Document
  /\ HandlerInit
  /\ rest = Events(Document[doc][Main])
  /\ factory = NoFactory /\ attributes = {}
  /\ status = "parsing" /\ answer = FALSE /\ loads = 1

Read ==
  /\ status \in {"parsing", "including"}
  /\ HandlerNext
  /\ UNCHANGED <<factoryVars, status, loadVars>>

FileEnds == rest = <<>> /\ open = <<>>

\* Whether its file had an error is asked before the files it includes.
EndFile ==
  /\ status = "parsing" /\ FileEnds
  /\ status' = IF h.noErrors THEN "including" ELSE "done"
  /\ answer' = FALSE
  /\ UNCHANGED <<handlerVars, factoryVars, doc, loads>>

\* The last of mIncludes is parsed, by the same handler.
Include ==
  /\ status = "including" /\ FileEnds
  /\ NextFile
  /\ rest' = Events(Document[doc][Last(h.includes)])
  /\ UNCHANGED <<factoryVars, status, loadVars>>

Build ==
  /\ status = "including" /\ FileEnds /\ h.includes = <<>>
  /\ LET s == addResultsToFactory(h, factory, attributes)
     IN  /\ factory' = s.factory /\ attributes' = s.attributes
         /\ status' = IF s.ends = "goes on" THEN "done" ELSE s.ends
         /\ answer' = s.answer
  /\ UNCHANGED <<handlerVars, doc, loads>>

\* The same document is loaded again: with a new handler, into the factories as
\* they are.
LoadAgain ==
  /\ status = "done" /\ loads < MaxLoads
  /\ loads' = loads + 1
  /\ status' = "parsing" /\ answer' = FALSE
  /\ rest' = Events(Document[doc][Main])
  /\ Renew
  /\ UNCHANGED <<factoryVars, doc>>

\* Nothing more is loaded.
Rest ==
  /\ status \notin {"parsing", "including"}
  /\ status = "done" => loads = MaxLoads
  /\ UNCHANGED vars

Next == Read \/ EndFile \/ Include \/ Build \/ LoadAgain \/ Rest

Spec == Init /\ [][Next]_vars

-----------------------------------------------------------------------------
\* What a document declares, read from its trees and not from its events

\* The declaration of a name at the top of a file.
Declaration(d, tags, name) ==
  LET kids == UNION {Range(d[f].kids) : f \in DOMAIN d}
  IN  CHOOSE t \in kids : t.tag \in tags /\ t.name = name

Kids(t, tags) == {k \in Range(t.kids) : k.tag \in tags}

\* The type of an element: within it, or declared by its name.
TypeOf(d, e) ==
  LET inside == Kids(e, {"complexType", "simpleType"})
  IN  IF inside # {} THEN CHOOSE t \in inside : TRUE
      ELSE Declaration(d, {"complexType", "simpleType"}, e.type)

RECURSIVE ElementsOf(_, _), LeafType(_, _), Declares(_, _, _, _)

\* The elements of a complex type, those of its base among them.
ElementsOf(d, t) ==
  UNION {IF k.tag = "element" THEN {k} ELSE ElementsOf(d, k) :
           k \in Kids(t, Group \cup {"element", "complexContent", "extension"})}
    \cup IF t.tag = "extension" THEN ElementsOf(d, Declaration(d, {"complexType"}, t.base)) ELSE {}

\* The primitive type a type with simple content is made from.
LeafType(d, name) ==
  IF name \in Primitive THEN name
  ELSE LET t == Declaration(d, {"complexType", "simpleType"}, name)
           made == CHOOSE k \in Kids(t, {"restriction", "list", "simpleContent"}) : TRUE
       IN  LeafType(d, IF made.tag # "simpleContent" THEN made.base
                       ELSE (CHOOSE x \in Kids(made, {"extension"}) : TRUE).base)

Leaf(d, e) ==
  IF e.type # "" THEN LeafType(d, e.type)
  ELSE LeafType(d, (CHOOSE k \in Kids(TypeOf(d, e), {"restriction", "list"}) : TRUE).base)

\* The keys an element declares, with what is found under them.
Declares(d, e, key, multiple) ==
  IF e.ref # "" THEN Declares(d, Declaration(d, {"element"}, e.ref), key, multiple)
  ELSE IF e.type \notin Primitive /\ Kids(TypeOf(d, e), {"simpleContent", "restriction", "list"}) = {}
  THEN {[key |-> key, type |-> "composite", multiple |-> multiple]} \cup
       UNION {Declares(d, k, Append(key, IF k.ref = "" THEN k.name ELSE k.ref), k.max > 1) :
                k \in ElementsOf(d, TypeOf(d, e))}
  ELSE IF Leaf(d, e) \in Supported
       THEN {[key |-> key, type |-> Leaf(d, e), multiple |-> multiple]}
       ELSE {}

Loaded == {[key |-> k, type |-> factory[k].type, multiple |-> factory[k].multiple] :
             k \in DOMAIN factory}

-----------------------------------------------------------------------------
\* Properties

\* Unless the handler has lost its way, a load that succeeds gives the factory
\* the keys the document declares, each with its type and with whether it occurs
\* more than once, and each composite the keys of its children, once each.  A
\* load of what is there already that succeeds adds nothing to them.
\* (addTreeToFactory, createMetadata, findTypeInList.)
DeclaredKeys ==
  (status = "done" /\ answer /\ ~h.strayed /\ ~h.lost) =>
    /\ Loaded = Declares(Document[doc], Declaration(Document[doc], {"element"}, Root), <<>>, FALSE)
    /\ \A k \in DOMAIN factory : factory[k].type = "composite" =>
         LET names == [i \in DOMAIN factory[k].keys |-> factory[k].keys[i].name]
         IN  /\ IsInjective(names)
             /\ \A n \in Range(names) : Append(k, n) \in DOMAIN factory
             /\ \A c \in DOMAIN factory \ {<<>>} : Front(c) = k => Last(c) \in Range(names)

\* What has been read stays what it was, whatever a later load of the same
\* document makes of it, and where it dereferences a null pointer: a prototype keeps
\* its type and its facets, and gets attributes, keys and model groups but loses none.
\* (addEntry, addMetadataKey, addAttributes, processComplexElements.)
ReloadKeeps ==
  [][\A k \in DOMAIN factory :
       /\ k \in DOMAIN factory'
       /\ \A f \in {"type", "vector", "multiple", "facets"} : factory'[k][f] = factory[k][f]
       /\ factory[k].attributes \subseteq factory'[k].attributes
       /\ IsPrefix(factory[k].keys, factory'[k].keys)
       /\ IsPrefix(factory[k].groups, factory'[k].groups)]_factory

\* A document that was loaded can be loaded again: createMetadata finds what is in
\* the factory already, or puts it there.
ReloadsEnd == loads > 1 => status # "dereferences null"
=============================================================================
