------------------------------ MODULE MCSchemas ------------------------------
(* Schemas for TLC: documents of a few declarations, in every order. *)
EXTENDS Schemas

E(tag, kids) == [tag |-> tag, name |-> "", type |-> "", ref |-> "", base |-> "",
                 max |-> 1, value |-> "", kids |-> kids]
Named(tag, name, kids) == [E(tag, kids) EXCEPT !.name = name]
El(name, type, max) == [Named("element", name, <<>>) EXCEPT !.type = type, !.max = max]
Ref(tag, name) == [E(tag, <<>>) EXCEPT !.ref = name]
Attr(name, type) == [Named("attribute", name, <<>>) EXCEPT !.type = type]
Base(tag, base, kids) == [E(tag, kids) EXCEPT !.base = base]
Val(tag, value) == [E(tag, <<>>) EXCEPT !.value = value]
Extends(name, base, kids) ==
  Named("complexType", name, <<E("complexContent", <<Base("extension", base, kids)>>)>>)
RootOf(kids) ==
  Named("element", "R", <<E("complexType", <<E("sequence", kids), Attr("r", "xsd:int")>>)>>)

Decl == [
  T  |-> Named("complexType", "T",
           <<E("sequence", <<El("a", "S", 1), El("b", "xsd:int", 2)>>), Attr("q", "S")>>),
  S  |-> Named("simpleType", "S",
           <<Base("restriction", "xsd:int", <<Val("enumeration", "1"), Val("enumeration", "2")>>)>>),
  V  |-> Named("simpleType", "V",
           <<E("annotation", <<E("documentation", <<>>)>>), Base("list", "S", <<>>)>>),
  B  |-> Extends("B", "T", <<E("choice", <<El("c", "xsd:string", 1), El("d", "xsd:date", 1)>>)>>),
  P  |-> Named("complexType", "P",
           <<E("simpleContent", <<Base("extension", "S", <<Attr("u", "xsd:string")>>)>>)>>),
  G  |-> Named("element", "g",
           <<E("complexType", <<E("sequence", <<El("v", "V", 2)>>), Ref("attribute", "w")>>)>>),
  W  |-> Attr("w", "xsd:string"),
  C  |-> Named("complexType", "C", <<E("complexContent", <<Base("restriction", "T", <<>>)>>)>>),
  D  |-> Extends("D", "B", <<>>),
  U  |-> Named("complexType", "U", <<E("sequence", <<El("k", "T", 2), El("m", "K", 1)>>)>>),
  K  |-> Named("complexType", "K",
           <<E("choice", <<E("sequence", <<El("c", "V", 3), El("a", "S", 1)>>)>>), Attr("w", "V")>>),
  R  |-> RootOf(<<El("x", "T", 2), El("y", "P", 1), El("z", "B", 1)>>),
  \* a reference, and an element with a simple type of its own
  R2 |-> RootOf(<<Ref("element", "g"), El("z", "B", 1),
                  Named("element", "n", <<E("simpleType",
                     <<Base("restriction", "xsd:int", <<Val("minInclusive", "0")>>)>>)>>),
                  El("t", "xsd:string", 1)>>),
  R3 |-> RootOf(<<El("y", "B", 1), El("z", "B", 1)>>),  \* a derived type twice
  R4 |-> RootOf(<<El("u", "xsd:date", 2)>>),            \* an unsupported type
  R5 |-> RootOf(<<El("z", "D", 1)>>),                   \* a type derived twice
  R6 |-> [Named("element", "R", <<>>) EXCEPT !.type = "U"]]

Orders(X) == {p \in [1 .. Cardinality(X) -> X] : \A i, j \in DOMAIN p : i # j => p[i] # p[j]}
Ordered(p) == E("schema", [i \in DOMAIN p |-> Decl[p[i]]])

\* The documents, by the order of the declarations.
MCDocument ==
  [p \in Orders({"T", "S", "B", "P", "R"}) \cup
        {<<"T", "S", "R", "P", "B", "C">>, <<"S", "T", "B", "R3">>, <<"R4">>,
         <<"S", "T", "B", "D", "R5">>, <<"S", "V", "T", "K", "U", "R6">>} |->
     [main |-> Ordered(p)]]
  @@
  [p \in Orders({"T", "S", "B", "V"}) |->
     [main |-> E("schema", <<Val("include", "types"), Decl.W, Decl.G, Decl.R2>>),
      types |-> Ordered(p)]]
=============================================================================
