--------------------------- MODULE MCMetadataTree ---------------------------
(***************************************************************************)
(* A small schema: the root holds a choice of composite a (up to 2) or the *)
(* sequence of leaves b and d, and beside it the unbounded leaf v; a holds *)
(* the leaf x (2 to 3 occurrences) and the leaf y.  In mMdIterList order.  *)
(***************************************************************************)
EXTENDS MetadataTree

MCElements == [k \in Key \cup {RootKey} |->
  IF k = RootKey THEN <<"v", "a", "b", "d">>
  ELSE IF k = "a" THEN <<"x", "y">> ELSE <<>>]
MCMinOccurs == [k \in Key |-> IF k = "x" THEN 2 ELSE 0]
MCMaxOccurs == [k \in Key |->
  CASE k = "v" -> Unbounded [] k = "a" -> 2 [] k = "x" -> 3 [] OTHER -> 1]
MCItems == [g \in Group |->
  CASE g = "root" -> {"v", "choice"} [] g = "choice" -> {"a", "seq"}
    [] g = "seq" -> {"b", "d"} [] g = "inA" -> {"x", "y"}]
MCKeysUnder == [i \in Item |->
  CASE i \in Key -> {i} [] i = "root" -> {"v", "a", "b", "d"}
    [] i = "choice" -> {"a", "b", "d"} [] i = "seq" -> {"b", "d"}
    [] i = "inA" -> {"x", "y"}]

Unspecified == [kind |-> "unspecified", list |-> <<>>]
List(l) == [kind |-> "list", list |-> l]
Wild == [kind |-> "wildcard", list |-> <<>>]
K(k, occ) == [kind |-> "key", key |-> k, match |-> {}, occ |-> occ]
Star(occ) == [kind |-> "multi", key |-> RootKey, match |-> Key, occ |-> occ]
Question(occ) == [kind |-> "single", key |-> RootKey, match |-> Key, occ |-> occ]
Prefix(match, occ) == [kind |-> "multi", key |-> RootKey, match |-> match, occ |-> occ]

MCMdPaths == {<<K("a", Unspecified)>>, <<K("v", List(<<2>>))>>, <<K("b", Unspecified)>>,
  <<K("a", List(<<1>>)), K("x", Unspecified)>>}
MCGetPaths == {<<Star(List(<<0, 1>>))>>, <<Prefix({"v", "d"}, Wild)>>,
  <<K("a", List(<<0, 1>>)), Question(Unspecified)>>}
MCDeletePaths == {<<K("v", List(<<0, 1>>))>>, <<K("v", List(<<3, 2, 0>>))>>, <<K("a", Unspecified)>>,
  <<K("a", List(<<1>>)), K("x", List(<<1>>))>>, <<Star(Unspecified)>>,
  <<K("a", List(<<0, 1>>)), Prefix({"x"}, Unspecified)>>}
=============================================================================
