------------------------- MODULE MetadataTreeProofs -------------------------
(***************************************************************************)
(* Proofs about MetadataTree, for every schema and every set of paths.     *)
(*                                                                         *)
(* The three invariants of the objects (OccurrencesNumbered,               *)
(* ChoiceExclusive, WithinMaxOccurs) are inductive together with the types *)
(* of the objects (HeapType).  The activation records need three more      *)
(* facts: each works on a composite that exists (Located), the record of a *)
(* loop stands at one of its keys (Loops), and a stack holds either one    *)
(* walk of getMetadatum or only loops (StackInv).                          *)
(*                                                                         *)
(* What the calls answer rests on where the objects hang: below composites *)
(* that are older and whose schema has their element (Rooted).  Then each  *)
(* call has an invariant of its own, over the records it has stacked: the  *)
(* walk to the object of a path (GetInv), what a deletion has removed and  *)
(* still may (DelInv), what a traversal has passed (AllInv).               *)
(***************************************************************************)
EXTENDS MetadataTree, Induction, SequenceTheorems

HeapType ==
  /\ kids \in [Node -> [Key -> Seq(Node)]]
  /\ md \in [Node -> [key : Key \cup {RootKey}, parent : Node \cup {None},
                      occurrence : Nat]]
  /\ next \in 1 .. MaxNode + 1

HeapInv == HeapType /\ OccurrencesNumbered /\ ChoiceExclusive /\ WithinMaxOccurs

-----------------------------------------------------------------------------
\* Sequences

\* A function on 1 .. n is a sequence of length n.
LEMMA FunctionIsSeq ==
  ASSUME NEW S, NEW n \in Nat, NEW f \in [1 .. n -> S]
  PROVE  f \in Seq(S) /\ Len(f) = n
<1>1. f \in Seq(S)
  BY SeqDef
<1>2. DOMAIN f = 1 .. n /\ DOMAIN f = 1 .. Len(f) /\ Len(f) \in Nat
  BY <1>1, LenProperties
<1> QED
  BY <1>2

\* RemoveAt drops one element and keeps the order of the others.
LEMMA RemoveAtSeq ==
  ASSUME NEW S, NEW s \in Seq(S), s # <<>>, NEW o \in Nat
  PROVE  /\ RemoveAt(s, o) \in Seq(S)
         /\ Len(RemoveAt(s, o)) = Len(s) - 1
         /\ \A i \in 1 .. Len(s) - 1 :
              RemoveAt(s, o)[i] = IF i < o + 1 THEN s[i] ELSE s[i + 1]
<1>1. Len(s) \in Nat \ {0} /\ \A i \in 1 .. Len(s) : s[i] \in S
  BY EmptySeq, ElementOfSeq
<1>2. RemoveAt(s, o) \in [1 .. Len(s) - 1 -> S]
  BY <1>1 DEF RemoveAt
<1> QED
  BY <1>1, <1>2, FunctionIsSeq DEF RemoveAt

-----------------------------------------------------------------------------
\* What the operations on elements do to the objects

\* What OccurrencesNumbered says of one object, field by field.
LEMMA Numbered ==
  ASSUME OccurrencesNumbered, NEW n \in Node, NEW k \in Key,
         NEW i \in 1 .. Len(kids[n][k])
  PROVE  /\ kids[n][k][i] \in 1 .. next - 1
         /\ md[kids[n][k][i]] = [key |-> k, parent |-> n, occurrence |-> i - 1]
         /\ md[kids[n][k][i]].key = k
         /\ md[kids[n][k][i]].parent = n
         /\ md[kids[n][k][i]].occurrence = i - 1
<1>1. /\ kids[n][k][i] \in 1 .. next - 1
      /\ md[kids[n][k][i]] = [key |-> k, parent |-> n, occurrence |-> i - 1]
  BY DEF OccurrencesNumbered
<1> QED
  BY <1>1

\* An object that exists has a number below next.
LEMMA ExistsBelow ==
  ASSUME HeapInv, NEW n \in Node, n < next
  PROVE  n \in 0 .. next - 1
<1>1. next \in Nat /\ n \in Nat
  BY BoundAssumption DEF HeapInv, HeapType, BoundAssumption, Node
<1> QED BY <1>1

\* findMetadata finds an object of the element asked for, or the list is too short.
LEMMA FindMetadataKind ==
  ASSUME HeapInv, NEW n \in Node, NEW k \in Key, NEW o \in Nat
  PROVE  /\ findMetadata(n, k, o) = None => o >= Len(kids[n][k])
         /\ findMetadata(n, k, o) # None =>
              /\ o < Len(kids[n][k])
              /\ findMetadata(n, k, o) \in 1 .. next - 1
              /\ md[findMetadata(n, k, o)].key = k
<1>1. kids[n][k] \in Seq(Node) /\ Len(kids[n][k]) \in Nat
  BY LenProperties DEF HeapInv, HeapType
<1>2. CASE o < Len(kids[n][k])
  <2>1. o + 1 \in 1 .. Len(kids[n][k])
    BY <1>1, <1>2
  <2>2. kids[n][k][o + 1] \in 1 .. next - 1 /\ md[kids[n][k][o + 1]].key = k
    BY <2>1, Numbered DEF HeapInv
  <2> QED
    BY <1>2, <2>2 DEF findMetadata, None, HeapInv, HeapType
<1>3. CASE ~ o < Len(kids[n][k])
  BY <1>1, <1>3 DEF findMetadata
<1> QED
  BY <1>2, <1>3

\* How many objects a call creates, and which places they fill.
LEMMA MissingRange ==
  ASSUME HeapInv, NEW n \in Node, NEW k \in Key, NEW o \in Nat,
         NEW create \in BOOLEAN
  PROVE  /\ Missing(n, k, o, create) \in Nat
         /\ Missing(n, k, o, create) > 0 =>
              /\ okToCreate(n, k)
              /\ o >= Len(kids[n][k])
              /\ Len(kids[n][k]) + Missing(n, k, o, create) >= o + 1
              /\ Len(kids[n][k]) + Missing(n, k, o, create) <= MaxOccurs[k]
<1> USE SchemaAssumption
<1> DEFINE len == Len(kids[n][k])
<1>1. len \in Nat
  BY LenProperties DEF HeapInv, HeapType
<1>2. MinOccurs[k] \in Nat /\ MaxOccurs[k] \in Nat /\ MinOccurs[k] <= MaxOccurs[k]
  BY DEF SchemaAssumption
<1>3. CASE /\ create /\ findMetadata(n, k, o) = None
           /\ okToCreate(n, k) /\ o < MaxOccurs[k]
  <2>1. o >= len
    BY <1>3, FindMetadataKind
  <2>2. Missing(n, k, o, create) = Max2(MinOccurs[k], o + 1) - len
    BY <1>3 DEF Missing
  <2>3. /\ Max2(MinOccurs[k], o + 1) \in Nat
        /\ Max2(MinOccurs[k], o + 1) >= o + 1
        /\ Max2(MinOccurs[k], o + 1) <= MaxOccurs[k]
    BY <1>2, <1>3 DEF Max2
  <2> HIDE DEF len
  <2>4. /\ Missing(n, k, o, create) \in Nat
        /\ len + Missing(n, k, o, create) = Max2(MinOccurs[k], o + 1)
    BY <1>1, <2>1, <2>2, <2>3, SMTT(40) DEF len
  <2> QED
    BY <1>3, <2>1, <2>3, <2>4 DEF len
<1>4. CASE ~ (/\ create /\ findMetadata(n, k, o) = None
              /\ okToCreate(n, k) /\ o < MaxOccurs[k])
  <2>1. Missing(n, k, o, create) = 0
    BY <1>4 DEF Missing
  <2> QED
    BY <2>1
<1> QED
  BY <1>3, <1>4

\* What CreateMissing does, for d new objects in an element that holds len.
Extended(n, k, len, d) ==
  /\ next' = next + d
  /\ d > 0 => okToCreate(n, k) /\ len + d <= MaxOccurs[k]
  /\ \A a \in Node, b \in Key : a # n \/ b # k => kids'[a][b] = kids[a][b]
  /\ Len(kids'[n][k]) = len + d
  /\ \A i \in 1 .. len + d :
       kids'[n][k][i] = IF i <= len THEN kids[n][k][i] ELSE next + (i - len) - 1
  /\ \A m \in Node : md'[m] = IF m \in next .. next + d - 1
                              THEN [key |-> k, parent |-> n, occurrence |-> len + (m - next)]
                              ELSE md[m]

\* The objects that exist stay as they are; the new ones are numbered on.
LEMMA CreateShape ==
  ASSUME HeapInv,
         NEW n \in 0 .. next - 1, NEW k \in Key, NEW o \in Nat, NEW create \in BOOLEAN,
         CreateMissing(n, k, o, create),
         NEW len \in Nat, len = Len(kids[n][k]),
         NEW d \in Nat, d = Min2(Missing(n, k, o, create), Supply)
  PROVE  HeapType' /\ Extended(n, k, len, d)
<1> USE SchemaAssumption, BoundAssumption
<1> DEFINE new == [i \in 1 .. d |-> next + i - 1]
<1>1. next \in Nat /\ MaxNode \in Nat /\ next <= MaxNode + 1 /\ next >= 1
  BY DEF HeapInv, HeapType, BoundAssumption
<1>2. n \in Node
  BY <1>1 DEF Node
<1>3. kids[n][k] \in Seq(Node) /\ len \in Nat
  BY <1>2, LenProperties DEF HeapInv, HeapType
<1>4. Supply \in Nat /\ Supply = MaxNode + 1 - next
  BY <1>1 DEF Supply
<1>5. /\ Missing(n, k, o, create) \in Nat
      /\ Missing(n, k, o, create) > 0 =>
           okToCreate(n, k) /\ len + Missing(n, k, o, create) <= MaxOccurs[k]
  BY <1>2, MissingRange
<1>6. d <= Missing(n, k, o, create) /\ d <= Supply
  BY <1>4, <1>5, SMTT(40) DEF Min2
<1>7. /\ kids' = [kids EXCEPT ![n][k] = kids[n][k] \o new]
      /\ md' = [m \in Node |->
                  IF m \in next .. next + d - 1
                  THEN [key |-> k, parent |-> n, occurrence |-> len + (m - next)]
                  ELSE md[m]]
      /\ next' = next + d
  BY DEF CreateMissing, HeapInv, HeapType
<1>8. d > 0 => okToCreate(n, k) /\ len + d <= MaxOccurs[k]
  <2>1. MaxOccurs[k] \in Nat
    BY DEF SchemaAssumption
  <2> QED
    BY ONLY len \in Nat, d \in Nat, <1>5, <1>6, <2>1
<1>9. new \in Seq(Node) /\ Len(new) = d /\ \A i \in 1 .. d : new[i] = next + i - 1
  <2>1. new \in [1 .. d -> Node]
    BY ONLY d \in Nat, <1>1, <1>4, <1>6 DEF Node
  <2> QED
    BY ONLY d \in Nat, <2>1, FunctionIsSeq
<1> HIDE DEF new
<1>10. /\ kids[n][k] \o new \in Seq(Node)
       /\ Len(kids[n][k] \o new) = len + d
       /\ \A i \in 1 .. len + d : (kids[n][k] \o new)[i] =
            IF i <= len THEN kids[n][k][i] ELSE new[i - len]
  <2>1. \A s, t \in Seq(Node) :
          /\ s \o t \in Seq(Node)
          /\ Len(s \o t) = Len(s) + Len(t)
          /\ \A i \in 1 .. Len(s) + Len(t) :
               (s \o t)[i] = IF i <= Len(s) THEN s[i] ELSE t[i - Len(s)]
    BY ConcatProperties, Zenon
  <2>2. /\ kids[n][k] \o new \in Seq(Node)
        /\ Len(kids[n][k] \o new) = Len(kids[n][k]) + Len(new)
        /\ \A i \in 1 .. Len(kids[n][k]) + Len(new) : (kids[n][k] \o new)[i] =
             IF i <= Len(kids[n][k]) THEN kids[n][k][i] ELSE new[i - Len(kids[n][k])]
    BY <1>3, <1>9, <2>1, Zenon
  <2>3. Len(kids[n][k]) = len /\ Len(new) = d
    BY <1>9
  <2> QED
    BY ONLY <2>2, <2>3, Zenon
<1>11. /\ kids'[n][k] = kids[n][k] \o new
       /\ \A a \in Node, b \in Key : a # n \/ b # k => kids'[a][b] = kids[a][b]
       /\ kids' \in [Node -> [Key -> Seq(Node)]]
  BY <1>2, <1>7, <1>10 DEF HeapInv, HeapType
<1>12. \A i \in 1 .. len + d :
         kids'[n][k][i] = IF i <= len THEN kids[n][k][i] ELSE next + (i - len) - 1
  <2> SUFFICES ASSUME NEW i \in 1 .. len + d
               PROVE  kids'[n][k][i] =
                        IF i <= len THEN kids[n][k][i] ELSE next + (i - len) - 1
    OBVIOUS
  <2>1. kids'[n][k][i] = IF i <= len THEN kids[n][k][i] ELSE new[i - len]
    BY <1>10, <1>11
  <2>2. ~ i <= len => i - len \in 1 .. d
    BY ONLY len \in Nat, d \in Nat, i \in 1 .. len + d
  <2> QED
    BY <1>9, <2>1, <2>2
<1>13. md' \in [Node -> [key : Key \cup {RootKey}, parent : Node \cup {None},
                         occurrence : Nat]]
  <2> SUFFICES ASSUME NEW m \in Node
               PROVE  md'[m] \in [key : Key \cup {RootKey}, parent : Node \cup {None},
                                  occurrence : Nat]
    BY <1>7
  <2>1. CASE m \in next .. next + d - 1
    <3>1. len + (m - next) \in Nat
      BY ONLY len \in Nat, d \in Nat, <1>1, <2>1
    <3> QED
      BY <1>2, <1>7, <2>1, <3>1
  <2>2. CASE m \notin next .. next + d - 1
    BY <1>7, <2>2 DEF HeapInv, HeapType
  <2> QED
    BY <2>1, <2>2
<1>14. next' \in 1 .. MaxNode + 1
  <2>1. next' = next + d
    BY <1>7
  <2> QED
    BY ONLY d \in Nat, <1>1, <1>4, <1>6, <2>1
<1>15. HeapType'
  BY <1>11, <1>13, <1>14 DEF HeapType
<1>16. Len(kids'[n][k]) = len + d
  BY <1>10, <1>11
<1>17. \A m \in Node : md'[m] =
         IF m \in next .. next + d - 1
         THEN [key |-> k, parent |-> n, occurrence |-> len + (m - next)]
         ELSE md[m]
  BY <1>7
<1>18. Extended(n, k, len, d)
  BY <1>7, <1>8, <1>11, <1>12, <1>16, <1>17 DEF Extended
<1> QED
  BY <1>6, <1>15, <1>18

\* Creating the missing occurrences keeps the invariants of the objects, and
\* leaves the objects that exist as they are.
LEMMA CreateKeepsHeap ==
  ASSUME HeapInv,
         NEW n \in 0 .. next - 1, NEW k \in Key, NEW o \in Nat, NEW create \in BOOLEAN,
         CreateMissing(n, k, o, create)
  PROVE  HeapInv' /\ next <= next' /\ \A m \in 0 .. next - 1 : md'[m] = md[m]
<1> USE SchemaAssumption, BoundAssumption, KeysUnderAssumption
<1>1. next \in Nat /\ MaxNode \in Nat /\ next <= MaxNode + 1 /\ next >= 1
  BY DEF HeapInv, HeapType, BoundAssumption
<1>2. n \in Node
  BY <1>1 DEF Node
<1>3. PICK len \in Nat : len = Len(kids[n][k])
  <2>1. Len(kids[n][k]) \in Nat
    BY <1>2, LenProperties DEF HeapInv, HeapType
  <2> QED
    BY <2>1, Zenon
<1>4. PICK d \in Nat : d = Min2(Missing(n, k, o, create), Supply)
  <2>1. Missing(n, k, o, create) \in Nat
    BY <1>2, MissingRange
  <2>2. Supply \in Nat
    BY <1>1, SMTT(40) DEF Supply
  <2>3. Min2(Missing(n, k, o, create), Supply) \in Nat
    BY <2>1, <2>2 DEF Min2
  <2> QED
    BY <2>3, Zenon
<1>5. HeapType' /\ Extended(n, k, len, d)
  BY <1>3, <1>4, CreateShape, ZenonT(40)
<1>6. /\ next' = next + d
      /\ d > 0 => okToCreate(n, k) /\ len + d <= MaxOccurs[k]
      /\ \A a \in Node, b \in Key : a # n \/ b # k => kids'[a][b] = kids[a][b]
      /\ Len(kids'[n][k]) = len + d
  BY <1>5 DEF Extended
<1>7. \A m \in 0 .. next - 1 : md'[m] = md[m]
  <2> SUFFICES ASSUME NEW m \in 0 .. next - 1 PROVE md'[m] = md[m]
    OBVIOUS
  <2>1. m \in Node /\ m \notin next .. next + d - 1
    BY <1>1, SMTT(40) DEF Node
  <2> QED
    BY <1>5, <2>1 DEF Extended
<1>8. OccurrencesNumbered'
  <2> SUFFICES ASSUME NEW a \in Node, NEW b \in Key, NEW i \in 1 .. Len(kids'[a][b])
               PROVE  /\ kids'[a][b][i] \in 1 .. next' - 1
                      /\ md'[kids'[a][b][i]] =
                           [key |-> b, parent |-> a, occurrence |-> i - 1]
    BY DEF OccurrencesNumbered, Node
  <2>1. ASSUME i \in 1 .. Len(kids[a][b]), kids'[a][b][i] = kids[a][b][i]
        PROVE  /\ kids'[a][b][i] \in 1 .. next' - 1
               /\ md'[kids'[a][b][i]] = [key |-> b, parent |-> a, occurrence |-> i - 1]
    <3>1. /\ kids[a][b][i] \in 1 .. next - 1
          /\ md[kids[a][b][i]] = [key |-> b, parent |-> a, occurrence |-> i - 1]
      <4>1. OccurrencesNumbered
        BY DEF HeapInv
      <4> QED
        BY ONLY <2>1, <4>1, a \in Node, b \in Key DEF OccurrencesNumbered
    <3>2. kids[a][b][i] \in 0 .. next - 1 /\ kids[a][b][i] \in 1 .. next' - 1
      <4>1. next' = next + d
        BY <1>6
      <4>2. \A m \in 1 .. next - 1 : m \in 0 .. next - 1 /\ m \in 1 .. next' - 1
        BY ONLY <1>1, <4>1, d \in Nat
      <4> QED
        BY <3>1, <4>2, Zenon
    <3> QED
      BY <1>7, <2>1, <3>1, <3>2
  <2>2. CASE a # n \/ b # k
    BY <1>6, <2>1, <2>2
  <2>3. CASE a = n /\ b = k
    <3>1. i \in 1 .. len + d
      BY <1>6, <2>3
    <3>2. kids'[n][k][i] = IF i <= len THEN kids[n][k][i] ELSE next + (i - len) - 1
      BY <1>5, <3>1 DEF Extended
    <3>3. CASE i <= len
      <4>1. i \in 1 .. Len(kids[a][b])
        BY <1>3, <2>3, <3>1, <3>3
      <4> QED
        BY <2>1, <2>3, <3>2, <3>3, <4>1
    <3>4. CASE ~ i <= len
      <4> DEFINE m == next + (i - len) - 1
      <4>1. /\ m \in next .. next + d - 1 /\ m \in 1 .. next' - 1 /\ m \in Node
            /\ len + (m - next) = i - 1
        <5>1. next' \in 1 .. MaxNode + 1
          BY <1>5 DEF HeapType
        <5>2. next' = next + d
          BY <1>6
        <5>3. i \in Nat /\ len < i /\ i <= len + d
          BY ONLY <3>1, <3>4, len \in Nat, d \in Nat
        <5>4. /\ m \in Nat /\ next <= m /\ m < next + d
              /\ len + (m - next) = i - 1
          BY ONLY <1>1, <5>3, len \in Nat, d \in Nat
        <5> HIDE DEF m
        <5> QED
          BY ONLY <1>1, <5>1, <5>2, <5>4, d \in Nat DEF Node
      <4> HIDE DEF m
      <4>2. md'[m] = [key |-> k, parent |-> n, occurrence |-> len + (m - next)]
        BY <1>5, <4>1 DEF Extended
      <4>3. kids'[a][b][i] = m
        BY <2>3, <3>2, <3>4 DEF m
      <4> QED
        BY <2>3, <4>1, <4>2, <4>3
    <3> QED
      BY <3>3, <3>4
  <2> QED
    BY <2>2, <2>3
<1>9. ChoiceExclusive'
  <2> SUFFICES ASSUME NEW a \in Node, NEW g \in Choice, NEW x \in Items[g],
                      NEW y \in Items[g], x # y,
                      NEW p \in KeysUnder[x], NEW q \in KeysUnder[y]
               PROVE  kids'[a][p] = <<>> \/ kids'[a][q] = <<>>
    BY DEF ChoiceExclusive
  <2> SUFFICES ASSUME kids'[a][p] # <<>>, kids'[a][q] # <<>>
               PROVE  FALSE
    OBVIOUS
  <2>1. /\ g \in Group /\ x \in Item /\ y \in Item /\ p \in Key /\ q \in Key
        /\ p \notin KeysUnder[y] /\ q \notin KeysUnder[x]
    BY DEF SchemaAssumption, KeysUnderAssumption
  <2>2. kids[a][p] = <<>> \/ kids[a][q] = <<>>
    BY DEF HeapInv, ChoiceExclusive
  <2>3. \A b \in Key : kids[a][b] = <<>> /\ kids'[a][b] # <<>> => a = n /\ b = k /\ d > 0
    <3> SUFFICES ASSUME kids[n][k] = <<>>, kids'[n][k] # <<>>, d = 0
                 PROVE  FALSE
      <4>1. \A a1 \in Node, b \in Key : a1 # n \/ b # k => kids'[a1][b] = kids[a1][b]
        BY <1>6
      <4>2. d # 0 => d > 0
        OBVIOUS
      <4> QED
        BY <4>1, <4>2
    <3>1. len = 0 /\ Len(kids'[n][k]) = 0
      BY <1>3, <1>6, EmptySeq
    <3>2. kids'[n][k] \in Seq(Node)
      BY <1>2, <1>5 DEF HeapType
    <3> QED
      BY <3>1, <3>2, EmptySeq
  <2>4. CASE a = n /\ p = k /\ d > 0
    <3>1. okToCreate(n, k)
      BY <1>6, <2>4
    <3>2. ~ anyCreated(n, y)
      BY <2>1, <2>4, <3>1 DEF okToCreate
    <3>3. \A b \in KeysUnder[y] : kids[n][b] = <<>>
      BY <3>2 DEF anyCreated
    <3>4. q # k
      BY <2>1, <2>4
    <3> QED
      BY <1>6, <2>4, <3>3, <3>4, ZenonT(40)
  <2>5. CASE a = n /\ q = k /\ d > 0
    <3>1. okToCreate(n, k)
      BY <1>6, <2>5
    <3>2. ~ anyCreated(n, x)
      BY <2>1, <2>5, <3>1 DEF okToCreate
    <3>3. \A b \in KeysUnder[x] : kids[n][b] = <<>>
      BY <3>2 DEF anyCreated
    <3>4. p # k
      BY <2>1, <2>5
    <3> QED
      BY <1>6, <2>5, <3>3, <3>4, ZenonT(40)
  <2> QED
    BY <2>1, <2>2, <2>3, <2>4, <2>5
<1>10. WithinMaxOccurs'
  <2> SUFFICES ASSUME NEW a \in Node, NEW b \in Key
               PROVE  Len(kids'[a][b]) <= MaxOccurs[b]
    BY DEF WithinMaxOccurs, Node
  <2>1. Len(kids[a][b]) <= MaxOccurs[b]
    BY DEF HeapInv, WithinMaxOccurs
  <2>2. CASE a = n /\ b = k
    <3>1. Len(kids'[n][k]) = len + d /\ (d > 0 => len + d <= MaxOccurs[k])
      BY <1>6
    <3>2. d = 0 => len + d = len
      OBVIOUS
    <3>3. d # 0 => d > 0
      OBVIOUS
    <3> QED
      BY <1>3, <2>1, <2>2, <3>1, <3>2, <3>3
  <2>3. CASE a # n \/ b # k
    BY <1>6, <2>1, <2>3
  <2> QED
    BY <2>2, <2>3
<1> QED
  BY <1>1, <1>5, <1>6, <1>7, <1>8, <1>9, <1>10 DEF HeapInv

\* An index below a bound is below a larger one.
LEMMA IntervalGrows ==
  ASSUME NEW a \in Nat, NEW b \in Nat, a <= b, NEW m \in 1 .. a - 1
  PROVE  m \in 1 .. b - 1 /\ m \in 0 .. a - 1
OBVIOUS

\* The object a call answers exists, and is of the element that was asked for.
LEMMA AnswerLocated ==
  ASSUME HeapInv,
         NEW n \in 0 .. next - 1, NEW k \in Key, NEW o \in Nat, NEW create \in BOOLEAN,
         CreateMissing(n, k, o, create),
         Answer(n, k, o, create) # None
  PROVE  /\ Answer(n, k, o, create) \in 1 .. next' - 1
         /\ md'[Answer(n, k, o, create)].key = k
<1> USE SchemaAssumption, BoundAssumption, KeysUnderAssumption
<1>1. next \in Nat /\ MaxNode \in Nat /\ next <= MaxNode + 1 /\ next >= 1
  BY DEF HeapInv, HeapType, BoundAssumption
<1>2. n \in Node
  BY <1>1 DEF Node
<1>3. PICK len \in Nat : len = Len(kids[n][k])
  <2>1. Len(kids[n][k]) \in Nat
    BY <1>2, LenProperties DEF HeapInv, HeapType
  <2> QED
    BY <2>1, Zenon
<1>4. /\ HeapInv' /\ next <= next' /\ \A m \in 0 .. next - 1 : md'[m] = md[m]
      /\ next' \in Nat
  <2>1. HeapInv' /\ next <= next' /\ \A m \in 0 .. next - 1 : md'[m] = md[m]
    BY CreateKeepsHeap
  <2>2. next' \in 1 .. MaxNode + 1
    BY <2>1 DEF HeapInv, HeapType
  <2> QED
    BY <1>1, <2>1, <2>2
<1>5. PICK d \in Nat : d = Missing(n, k, o, create)
  BY <1>2, MissingRange, Zenon
<1>6. d > 0 => o >= len /\ len + d >= o + 1
  BY <1>2, <1>3, <1>5, MissingRange
<1>7. CASE d = 0
  <2>1. Answer(n, k, o, create) = findMetadata(n, k, o)
    BY <1>5, <1>7 DEF Answer
  <2>2. findMetadata(n, k, o) \in 1 .. next - 1 /\ md[findMetadata(n, k, o)].key = k
    BY <1>2, <2>1, FindMetadataKind
  <2>3. ASSUME NEW m \in 1 .. next - 1
        PROVE  m \in 1 .. next' - 1 /\ m \in 0 .. next - 1
    <3>1. next \in Nat /\ next' \in Nat /\ next <= next'
      BY <1>1, <1>4
    <3> QED
      BY <3>1, IntervalGrows, Zenon
  <2> QED
    BY <1>4, <2>1, <2>2, <2>3
<1>8. CASE d # 0
  <2>1. d <= Supply /\ Answer(n, k, o, create) = next + (o - len)
    BY <1>3, <1>5, <1>8 DEF Answer
  <2>2. Supply \in Nat
    BY <1>1, SMTT(40) DEF Supply
  <2>3. d = Min2(Missing(n, k, o, create), Supply)
    BY <1>5, <2>1, <2>2 DEF Min2
  <2>4. Extended(n, k, len, d)
    BY <1>3, <2>3, CreateShape, ZenonT(40)
  <2>5. /\ next' = next + d
        /\ \A m \in Node : m \in next .. next + d - 1 =>
             md'[m] = [key |-> k, parent |-> n, occurrence |-> len + (m - next)]
    BY <2>4 DEF Extended
  <2>6. next' <= MaxNode + 1
    BY <1>4 DEF HeapInv, HeapType
  <2>7. o >= len /\ len + d >= o + 1
    BY ONLY <1>6, <1>8, d \in Nat
  <2>8. PICK m \in Nat : m = next + (o - len)
    BY ONLY <1>1, <2>7, o \in Nat, len \in Nat
  <2>9. m \in next .. next + d - 1 /\ m \in 1 .. next' - 1 /\ m \in Node
    BY ONLY <1>1, <2>5, <2>6, <2>7, <2>8, o \in Nat, len \in Nat, d \in Nat, m \in Nat DEF Node
  <2>10. md'[m] = [key |-> k, parent |-> n, occurrence |-> len + (m - next)]
    BY <2>5, <2>9
  <2>11. Answer(n, k, o, create) = m
    BY <2>1, <2>8
  <2> QED
    BY ONLY <2>9, <2>10, <2>11
<1> QED
  BY <1>7, <1>8

\* Deleting objects cannot break a choice or exceed maxOccurs.
LEMMA ShrinkKeepsBounds ==
  ASSUME HeapInv, HeapType',
         \A a \in Node, b \in Key :
           /\ kids[a][b] = <<>> => kids'[a][b] = <<>>
           /\ Len(kids'[a][b]) <= Len(kids[a][b])
  PROVE  ChoiceExclusive' /\ WithinMaxOccurs'
<1> USE SchemaAssumption
<1>1. ChoiceExclusive'
  <2> SUFFICES ASSUME NEW a \in Node, NEW g \in Choice, NEW x \in Items[g],
                      NEW y \in Items[g], x # y,
                      NEW p \in KeysUnder[x], NEW q \in KeysUnder[y]
               PROVE  kids'[a][p] = <<>> \/ kids'[a][q] = <<>>
    BY DEF ChoiceExclusive
  <2>1. p \in Key /\ q \in Key
    BY DEF SchemaAssumption
  <2>2. kids[a][p] = <<>> \/ kids[a][q] = <<>>
    BY DEF HeapInv, ChoiceExclusive
  <2> QED
    BY <2>1, <2>2
<1>2. WithinMaxOccurs'
  <2> SUFFICES ASSUME NEW a \in Node, NEW b \in Key
               PROVE  Len(kids'[a][b]) <= MaxOccurs[b]
    BY DEF WithinMaxOccurs
  <2>1. Len(kids[a][b]) <= MaxOccurs[b]
    BY DEF HeapInv, WithinMaxOccurs
  <2>2. Len(kids[a][b]) \in Nat /\ Len(kids'[a][b]) \in Nat /\ MaxOccurs[b] \in Nat
    BY LenProperties DEF HeapInv, HeapType, SchemaAssumption
  <2>3. Len(kids'[a][b]) <= Len(kids[a][b])
    OBVIOUS
  <2> QED
    BY ONLY <2>1, <2>2, <2>3
<1> QED
  BY <1>1, <1>2

\* Collapsing the vector and renumbering what moved.
LEMMA DeleteKeepsHeap ==
  ASSUME HeapInv,
         NEW n \in Node, NEW k \in Key, NEW o \in Nat,
         deleteMetadatum(n, k, o)
  PROVE  /\ HeapInv' /\ next' = next
         /\ \A m \in Node : md'[m].key = md[m].key
         /\ \A a \in Node, b \in Key : Len(kids'[a][b]) <= Len(kids[a][b])
<1> USE SchemaAssumption, BoundAssumption
<1>1. CASE kids[n][k] = <<>>
  <2>1. kids' = kids /\ md' = md /\ next' = next
    BY <1>1 DEF deleteMetadatum, heap
  <2> QED
    <3>1. HeapType' /\ WithinMaxOccurs'
      BY <2>1 DEF HeapInv, HeapType, WithinMaxOccurs
    <3>2. OccurrencesNumbered /\ ChoiceExclusive
      BY DEF HeapInv
    <3>3. OccurrencesNumbered'
      BY ONLY <2>1, <3>2 DEF OccurrencesNumbered
    <3>4. ChoiceExclusive'
      BY ONLY <2>1, <3>2 DEF ChoiceExclusive
    <3>5. \A a \in Node, b \in Key : Len(kids[a][b]) \in Nat
      BY LenProperties DEF HeapInv, HeapType
    <3> QED
      BY <2>1, <3>1, <3>3, <3>4, <3>5 DEF HeapInv
<1>2. CASE kids[n][k] # <<>>
  <2> DEFINE old == kids[n][k]
             s == RemoveAt(old, o)
  <2>1. /\ kids' = [kids EXCEPT ![n][k] = s]
        /\ md' = [m \in Node |->
                    IF \E i \in o + 1 .. Len(s) : s[i] = m
                    THEN [md[m] EXCEPT !.occurrence = PositionOf(s, m) - 1]
                    ELSE md[m]]
        /\ next' = next
    BY <1>2 DEF deleteMetadatum
  <2>2. old \in Seq(Node) /\ old # <<>>
    BY <1>2 DEF HeapInv, HeapType
  <2>3. PICK l \in Nat : l = Len(old) - 1
    <3>1. Len(old) \in Nat \ {0}
      BY <2>2, EmptySeq, LenProperties
    <3>2. Len(old) - 1 \in Nat
      BY <3>1, SMTT(40)
    <3> QED
      BY <3>2, Zenon
  <2>4. /\ s \in Seq(Node)
        /\ Len(s) = l
        /\ \A i \in 1 .. l : s[i] = IF i < o + 1 THEN old[i] ELSE old[i + 1]
    BY <2>2, <2>3, RemoveAtSeq, ZenonT(40)
  <2>5. Len(old) = l + 1
    <3>1. Len(old) \in Nat
      BY <2>2, LenProperties
    <3> QED
      BY <2>3, <3>1
  <2>6. \A i \in 1 .. l + 1 :
          old[i] \in 1 .. next - 1
          /\ md[old[i]] = [key |-> k, parent |-> n, occurrence |-> i - 1]
    <3>1. OccurrencesNumbered
      BY DEF HeapInv
    <3> QED
      BY ONLY <2>5, <3>1, n \in Node, k \in Key DEF OccurrencesNumbered
  <2> HIDE DEF s, old
  <2>7. \A i \in 1 .. l :
          /\ s[i] \in 1 .. next - 1
          /\ md[s[i]].key = k /\ md[s[i]].parent = n
          /\ md[s[i]].occurrence = IF i < o + 1 THEN i - 1 ELSE i
    <3> SUFFICES ASSUME NEW i \in 1 .. l
                 PROVE  /\ s[i] \in 1 .. next - 1
                        /\ md[s[i]].key = k /\ md[s[i]].parent = n
                        /\ md[s[i]].occurrence = IF i < o + 1 THEN i - 1 ELSE i
      OBVIOUS
    <3>1. i \in 1 .. l + 1 /\ i + 1 \in 1 .. l + 1 /\ (i + 1) - 1 = i
      OBVIOUS
    <3>2. s[i] = IF i < o + 1 THEN old[i] ELSE old[i + 1]
      BY <2>4
    <3>3. /\ old[i] \in 1 .. next - 1
          /\ md[old[i]] = [key |-> k, parent |-> n, occurrence |-> i - 1]
          /\ old[i + 1] \in 1 .. next - 1
          /\ md[old[i + 1]] = [key |-> k, parent |-> n, occurrence |-> i]
      BY <2>6, <3>1
    <3> QED
      BY ONLY <3>2, <3>3
  <2>8. \A i, j \in 1 .. l : s[i] = s[j] => i = j
    <3> SUFFICES ASSUME NEW i \in 1 .. l, NEW j \in 1 .. l, s[i] = s[j]
                 PROVE  i = j
      OBVIOUS
    <3>1. /\ md[s[i]].occurrence = IF i < o + 1 THEN i - 1 ELSE i
          /\ md[s[j]].occurrence = IF j < o + 1 THEN j - 1 ELSE j
      BY <2>7
    <3>2. (IF i < o + 1 THEN i - 1 ELSE i) = (IF j < o + 1 THEN j - 1 ELSE j)
      BY <3>1
    <3> QED
      BY ONLY <3>2, i \in 1 .. l, j \in 1 .. l, l \in Nat, o \in Nat
  <2>9. \A i \in 1 .. l : PositionOf(s, s[i]) = i
    <3> SUFFICES ASSUME NEW i \in 1 .. l PROVE PositionOf(s, s[i]) = i
      OBVIOUS
    <3>1. DOMAIN s = 1 .. l
      BY <2>4, LenProperties
    <3> QED
      BY <2>8, <3>1 DEF PositionOf
  <2>10. next \in Nat /\ \A m \in 1 .. next - 1 : m \in Node
    BY DEF BoundAssumption, HeapInv, HeapType, Node
  <2>11. \A i \in 1 .. l :
           md'[s[i]] = [key |-> k, parent |-> n, occurrence |-> i - 1]
    <3> SUFFICES ASSUME NEW i \in 1 .. l
                 PROVE  md'[s[i]] = [key |-> k, parent |-> n, occurrence |-> i - 1]
      OBVIOUS
    <3>1. s[i] \in Node
      BY <2>7, <2>10
    <3>2. md[s[i]] \in [key : Key \cup {RootKey}, parent : Node \cup {None},
                        occurrence : Nat]
      BY <3>1 DEF HeapInv, HeapType
    <3>3. CASE i < o + 1
      <4>1. ~ \E j \in o + 1 .. Len(s) : s[j] = s[i]
        BY <2>4, <2>8, <3>3
      <4>2. md'[s[i]] = md[s[i]]
        BY <2>1, <3>1, <4>1
      <4> QED
        BY <2>7, <3>2, <3>3, <4>2
    <3>4. CASE ~ i < o + 1
      <4>1. i \in o + 1 .. Len(s)
        BY <2>4, <3>4
      <4>2. md'[s[i]] = [md[s[i]] EXCEPT !.occurrence = PositionOf(s, s[i]) - 1]
        BY <2>1, <3>1, <4>1
      <4> QED
        BY <2>7, <2>9, <3>2, <4>2
    <3> QED
      BY <3>3, <3>4
  <2>12. \A m \in Node : (\A i \in 1 .. l : s[i] # m) => md'[m] = md[m]
    <3> SUFFICES ASSUME NEW m \in Node, \A i \in 1 .. l : s[i] # m
                 PROVE  md'[m] = md[m]
      OBVIOUS
    <3>1. ~ \E i \in o + 1 .. Len(s) : s[i] = m
      <4>1. \A i \in o + 1 .. l : i \in 1 .. l
        OBVIOUS
      <4> QED
        BY <2>4, <4>1
    <3> QED
      BY <2>1, <3>1
  <2>13. \A m \in Node :
           /\ md'[m] \in [key : Key \cup {RootKey}, parent : Node \cup {None},
                          occurrence : Nat]
           /\ md'[m].key = md[m].key
    <3> SUFFICES ASSUME NEW m \in Node
                 PROVE  /\ md'[m] \in [key : Key \cup {RootKey},
                                       parent : Node \cup {None}, occurrence : Nat]
                        /\ md'[m].key = md[m].key
      OBVIOUS
    <3>1. CASE \A i \in 1 .. l : s[i] # m
      BY <2>12, <3>1 DEF HeapInv, HeapType
    <3>2. ASSUME NEW i \in 1 .. l, s[i] = m
          PROVE  /\ md'[m] \in [key : Key \cup {RootKey},
                                parent : Node \cup {None}, occurrence : Nat]
                 /\ md'[m].key = md[m].key
      <4>1. md'[m] = [key |-> k, parent |-> n, occurrence |-> i - 1] /\ md[m].key = k
        BY <2>7, <2>11, <3>2
      <4>2. i - 1 \in Nat
        OBVIOUS
      <4> QED
        BY <4>1, <4>2
    <3> QED
      BY <3>1, <3>2
  <2>14. /\ kids'[n][k] = s
         /\ \A a \in Node, b \in Key : a # n \/ b # k => kids'[a][b] = kids[a][b]
         /\ kids' \in [Node -> [Key -> Seq(Node)]]
    BY <2>1, <2>4 DEF HeapInv, HeapType
  <2>15. HeapType'
    <3>1. md' = [m \in Node |-> md'[m]]
      BY <2>1
    <3> QED
      BY <2>1, <2>13, <2>14, <3>1 DEF HeapInv, HeapType
  <2>16. OccurrencesNumbered'
    <3> SUFFICES ASSUME NEW a \in Node, NEW b \in Key, NEW i \in 1 .. Len(kids'[a][b])
                 PROVE  /\ kids'[a][b][i] \in 1 .. next' - 1
                        /\ md'[kids'[a][b][i]] =
                             [key |-> b, parent |-> a, occurrence |-> i - 1]
      BY DEF OccurrencesNumbered, Node
    <3>1. CASE a = n /\ b = k
      BY <2>1, <2>4, <2>7, <2>11, <2>14, <3>1
    <3>2. CASE a # n \/ b # k
      <4>1. i \in 1 .. Len(kids[a][b]) /\ kids'[a][b][i] = kids[a][b][i]
        BY <2>14, <3>2
      <4>2. OccurrencesNumbered
        BY DEF HeapInv
      <4>3. /\ kids[a][b][i] \in 1 .. next - 1
            /\ md[kids[a][b][i]] = [key |-> b, parent |-> a, occurrence |-> i - 1]
        BY ONLY <4>1, <4>2, a \in Node, b \in Key DEF OccurrencesNumbered
      <4>4. \A j \in 1 .. l : s[j] # kids[a][b][i]
        <5> SUFFICES ASSUME NEW j \in 1 .. l, s[j] = kids[a][b][i]
                     PROVE  FALSE
          OBVIOUS
        <5>1. md[s[j]].key = k /\ md[s[j]].parent = n
          BY <2>7
        <5>2. md[s[j]].key = b /\ md[s[j]].parent = a
          BY <4>3
        <5> QED
          BY <3>2, <5>1, <5>2
      <4>5. md'[kids[a][b][i]] = md[kids[a][b][i]]
        BY <2>10, <2>12, <4>3, <4>4
      <4> QED
        BY <2>1, <4>1, <4>3, <4>5
    <3> QED
      BY <3>1, <3>2
  <2>17. \A a \in Node, b \in Key :
           /\ kids[a][b] = <<>> => kids'[a][b] = <<>>
           /\ Len(kids'[a][b]) <= Len(kids[a][b])
    <3> SUFFICES ASSUME NEW a \in Node, NEW b \in Key
                 PROVE  /\ kids[a][b] = <<>> => kids'[a][b] = <<>>
                        /\ Len(kids'[a][b]) <= Len(kids[a][b])
      OBVIOUS
    <3>1. CASE a = n /\ b = k
      <4>1. Len(kids'[a][b]) = l /\ Len(kids[a][b]) = l + 1
        BY <2>4, <2>5, <2>14, <3>1 DEF old
      <4> QED
        BY <1>2, <3>1, <4>1
    <3>2. CASE a # n \/ b # k
      <4>1. Len(kids[a][b]) \in Nat
        BY LenProperties DEF HeapInv, HeapType
      <4> QED
        <5>1. kids'[a][b] = kids[a][b]
          BY <2>14, <3>2
        <5> QED
          BY ONLY <4>1, <5>1
    <3> QED
      BY <3>1, <3>2
  <2>18. ChoiceExclusive' /\ WithinMaxOccurs'
    BY <2>15, <2>17, ShrinkKeepsBounds
  <2> QED
    BY <2>1, <2>13, <2>15, <2>16, <2>17, <2>18 DEF HeapInv
<1> QED
  BY <1>1, <1>2

\* deleteMetadataAll empties every element of one composite.
LEMMA DeleteAllKeepsHeap ==
  ASSUME HeapInv, NEW n \in Node, deleteMetadataAll(n)
  PROVE  /\ HeapInv' /\ md' = md /\ next' = next
         /\ \A a \in Node, b \in Key : Len(kids'[a][b]) <= Len(kids[a][b])
<1> USE SchemaAssumption
<1>1. /\ kids' = [kids EXCEPT ![n] = [k \in Key |-> <<>>]]
      /\ md' = md /\ next' = next
  BY DEF deleteMetadataAll
<1>2. <<>> \in Seq(Node) /\ Len(<<>>) = 0
  BY EmptySeq
<1>3. \A a \in Node, b \in Key :
        kids'[a][b] = IF a = n THEN <<>> ELSE kids[a][b]
  BY <1>1 DEF HeapInv, HeapType
<1>4. HeapType'
  BY <1>1, <1>2 DEF HeapInv, HeapType
<1>5. OccurrencesNumbered'
  <2> SUFFICES ASSUME NEW a \in Node, NEW b \in Key, NEW i \in 1 .. Len(kids'[a][b])
               PROVE  /\ kids'[a][b][i] \in 1 .. next' - 1
                      /\ md'[kids'[a][b][i]] =
                           [key |-> b, parent |-> a, occurrence |-> i - 1]
    BY DEF OccurrencesNumbered, Node
  <2>1. a # n /\ i \in 1 .. Len(kids[a][b]) /\ kids'[a][b] = kids[a][b]
    BY <1>2, <1>3, SMTT(40)
  <2>2. OccurrencesNumbered
    BY DEF HeapInv
  <2> QED
    BY ONLY <1>1, <2>1, <2>2, a \in Node, b \in Key DEF OccurrencesNumbered
<1>6. \A a \in Node, b \in Key :
        /\ kids[a][b] = <<>> => kids'[a][b] = <<>>
        /\ Len(kids'[a][b]) <= Len(kids[a][b])
  <2> SUFFICES ASSUME NEW a \in Node, NEW b \in Key
               PROVE  /\ kids[a][b] = <<>> => kids'[a][b] = <<>>
                      /\ Len(kids'[a][b]) <= Len(kids[a][b])
    OBVIOUS
  <2>1. Len(kids[a][b]) \in Nat
    BY LenProperties DEF HeapInv, HeapType
  <2> QED
    BY <1>2, <1>3, <2>1, SMTT(40)
<1> QED
  BY <1>1, <1>4, <1>5, <1>6, ShrinkKeepsBounds DEF HeapInv

-----------------------------------------------------------------------------
\* The activation records

\* The records that work on a composite of heap (M, nx) and are at one of its
\* keys and at a real occurrence wherever the steps rely on it.
Located(M, nx) ==
  {f \in Frame :
     /\ f.node < nx
     /\ IsComposite(M[f.node].key)
     /\ f.fn = "getMetadatum" => f.occ = Start(f.seg.occ)
     /\ f.fn = "getPath" => f.seg.kind # "multi"
     /\ f.fn = "getPath" /\ f.seg.kind = "single" => f.pos <= Len(Elements[M[f.node].key])
     /\ f.fn = "deletePath" => f.seg.kind = "key"
     /\ f.fn \in {"getPath", "getUnder"} /\ f.seg.occ.kind = "wildcard" => f.occ \in Nat}

Composites(M, nx) == {n \in Node : n < nx /\ IsComposite(M[n].key)}

\* Seq is monotone in the set of elements.
LEMMA SeqMonotone ==
  ASSUME NEW S, NEW T, S \subseteq T
  PROVE  Seq(S) \subseteq Seq(T)
<1> SUFFICES ASSUME NEW s \in Seq(S) PROVE s \in Seq(T)
  OBVIOUS
<1>1. PICK l \in Nat : l = Len(s)
  BY LenProperties
<1>2. s \in [1 .. l -> S]
  BY <1>1, LenProperties
<1>3. s \in [1 .. l -> T]
  BY <1>2
<1> QED
  BY <1>3, FunctionIsSeq

\* Nothing a step does to the objects takes a record its composite.
LEMMA LocatedGrows ==
  ASSUME NEW M, NEW nx \in Nat, NEW M1, NEW nx1 \in Nat, nx <= nx1,
         \A m \in 0 .. nx - 1 : M1[m].key = M[m].key
  PROVE  /\ Located(M, nx) \subseteq Located(M1, nx1)
         /\ Composites(M, nx) \subseteq Composites(M1, nx1)
<1>1. \A n \in Node : n < nx => n < nx1 /\ M1[n].key = M[n].key
  <2> SUFFICES ASSUME NEW n \in Node, n < nx PROVE n < nx1 /\ M1[n].key = M[n].key
    OBVIOUS
  <2>1. n \in 0 .. nx - 1 /\ n < nx1
    BY DEF Node
  <2> QED
    BY <2>1
<1>2. ASSUME NEW f \in Located(M, nx) PROVE f \in Located(M1, nx1)
  <2>1. f.node \in Node /\ f.node < nx
    BY DEF Located, Frame
  <2>2. f.node < nx1 /\ M1[f.node].key = M[f.node].key
    BY <1>1, <2>1
  <2> QED
    BY <2>2 DEF Located
<1> QED
  BY <1>1, <1>2 DEF Composites

\* start() and next() of an occurrence.
LEMMA OccurrenceValues ==
  ASSUME NEW occ \in Occurrence
  PROVE  /\ Start(occ) \in Nat \cup {OCCURRENCE_END}
         /\ StartCursor(occ) \in Nat
         /\ SingleOccurrence(occ) => Start(occ) \in Nat
         /\ \A c \in Nat : c < Len(occ.list) => occ.list[c + 1] \in Nat
<1>1. occ.list \in Seq(Nat) /\ Len(occ.list) \in Nat
  BY LenProperties DEF Occurrence
<1>2. occ.list # <<>> => Len(occ.list) > 0
  BY <1>1, EmptySeq
<1>3. \A c \in Nat : c < Len(occ.list) => occ.list[c + 1] \in Nat
  <2> SUFFICES ASSUME NEW c \in Nat, c < Len(occ.list) PROVE occ.list[c + 1] \in Nat
    OBVIOUS
  <2>1. c + 1 \in 1 .. Len(occ.list)
    BY <1>1
  <2> QED
    BY <1>1, <2>1, ElementOfSeq
<1>4. occ.list # <<>> => occ.list[1] \in Nat
  BY <1>1, <1>2, ElementOfSeq
<1>5. Len(occ.list) = 1 => occ.list # <<>>
  BY EmptySeq
<1> QED
  BY <1>3, <1>4, <1>5 DEF Start, StartCursor, SingleOccurrence

\* A path is a nonempty sequence of segments, and so is its nonempty tail.
LEMMA PathParts ==
  ASSUME NEW path \in Path
  PROVE  Head(path) \in Segment /\ Tail(path) \in Seq(Segment)
BY HeadTailProperties DEF Path

\* The fields of a segment.
LEMMA SegmentParts ==
  ASSUME NEW seg \in Segment
  PROVE  /\ seg.kind \in {"key", "multi", "single"}
         /\ seg.kind = "key" => seg.key \in Key
         /\ seg.occ \in Occurrence
BY DEF Segment

\* A new activation record is a Frame.
LEMMA NewFrameType ==
  ASSUME NEW fn \in Fn, NEW n \in Node, NEW path \in Path
  PROVE  /\ NewFrame(fn, n, path) \in Frame
         /\ NewFrame(fn, n, path).fn = fn
         /\ NewFrame(fn, n, path).node = n
         /\ NewFrame(fn, n, path).seg = Head(path)
         /\ NewFrame(fn, n, path).pos = 1
         /\ NewFrame(fn, n, path).occ =
              IF Head(path).occ.kind = "wildcard" /\ fn \in {"getPath", "getUnder"}
              THEN 0 ELSE Start(Head(path).occ)
<1>1. Head(path) \in Segment /\ Tail(path) \in Seq(Segment)
  BY PathParts
<1>2. Head(path).occ \in Occurrence
  BY <1>1, SegmentParts
<1>3. /\ Start(Head(path).occ) \in Nat \cup {OCCURRENCE_END}
      /\ StartCursor(Head(path).occ) \in Nat
  BY <1>2, OccurrenceValues
<1> QED
  BY <1>1, <1>3 DEF NewFrame, Frame

\* Every call, and every descent into a composite, starts on a located record.
LEMMA NewFramesLocated ==
  ASSUME NEW M, NEW nx \in Nat, NEW n \in Composites(M, nx), NEW path \in Path,
         M[n].key \in Key \cup {RootKey}
  PROVE  /\ NewFrame("getMetadatum", n, path) \in Located(M, nx)
         /\ GetFrame(n, path) \in Located(M, nx)
         /\ DeleteFrame(n, path) \in Located(M, nx)
<1> USE SchemaAssumption
<1>1. n \in Node /\ n < nx /\ IsComposite(M[n].key)
  BY DEF Composites
<1>2. 1 <= Len(Elements[M[n].key])
  <2>1. Elements[M[n].key] \in Seq(Key) /\ Elements[M[n].key] # <<>>
    BY <1>1 DEF SchemaAssumption, IsComposite
  <2> QED
    BY <2>1, EmptySeq, LenProperties, SMTT(40)
<1>3. Head(path).kind \in {"key", "multi", "single"}
  BY PathParts, SegmentParts
<1>4. ASSUME NEW fn \in {"getMetadatum", "getPath", "getUnder", "deletePath", "deleteWild"},
             fn = "getPath" => Head(path).kind # "multi",
             fn = "deletePath" => Head(path).kind = "key"
      PROVE  NewFrame(fn, n, path) \in Located(M, nx)
  <2> DEFINE f == NewFrame(fn, n, path)
  <2>1. fn \in Fn
    BY DEF Fn
  <2>2. /\ f \in Frame /\ f.fn = fn /\ f.node = n /\ f.seg = Head(path) /\ f.pos = 1
        /\ f.occ = IF Head(path).occ.kind = "wildcard" /\ fn \in {"getPath", "getUnder"}
                   THEN 0 ELSE Start(Head(path).occ)
    BY <1>1, <2>1, NewFrameType
  <2> HIDE DEF f
  <2>3. f \in Located(M, nx)
    <3>1. f.node < nx /\ IsComposite(M[f.node].key)
      BY <1>1, <2>2
    <3>2. f.fn = "getMetadatum" => f.occ = Start(f.seg.occ)
      BY <2>2
    <3>3. f.fn = "getPath" => f.seg.kind # "multi"
      BY <1>4, <2>2
    <3>4. f.pos <= Len(Elements[M[f.node].key])
      BY <1>2, <2>2
    <3>5. f.fn = "deletePath" => f.seg.kind = "key"
      BY <1>4, <2>2
    <3>6. f.fn \in {"getPath", "getUnder"} /\ f.seg.occ.kind = "wildcard" => f.occ \in Nat
      BY <2>2
    <3> QED
      BY <2>2, <3>1, <3>2, <3>3, <3>4, <3>5, <3>6 DEF Located
  <2> QED
    BY <2>3 DEF f
<1> QED
  <2>1. /\ NewFrame("getMetadatum", n, path) \in Located(M, nx)
        /\ NewFrame("getUnder", n, path) \in Located(M, nx)
        /\ NewFrame("deleteWild", n, path) \in Located(M, nx)
    BY <1>4
  <2>2. Head(path).kind # "multi" => NewFrame("getPath", n, path) \in Located(M, nx)
    BY <1>4
  <2>3. Head(path).kind = "key" => NewFrame("deletePath", n, path) \in Located(M, nx)
    BY <1>4
  <2> QED
    BY <2>1, <2>2, <2>3 DEF GetFrame, DeleteFrame

\* The fields of an activation record that is located.
LEMMA LocatedParts ==
  ASSUME NEW M, NEW nx, NEW f \in Located(M, nx)
  PROVE  /\ f \in Frame
         /\ f.fn \in Fn /\ f.node \in Node /\ f.seg \in Segment /\ f.rest \in Seq(Segment)
         /\ f.pos \in Nat \ {0} /\ f.occ \in Nat \cup {OCCURRENCE_END} /\ f.cur \in Nat
         /\ f.seg.occ \in Occurrence
         /\ f.seg.kind = "key" => f.seg.key \in Key
         /\ f.node < nx /\ IsComposite(M[f.node].key) /\ f.node \in Composites(M, nx)
         /\ f.fn = "getMetadatum" => f.occ = Start(f.seg.occ)
         /\ f.fn = "getPath" => f.seg.kind # "multi"
         /\ f.fn = "getPath" /\ f.seg.kind = "single" =>
              f.pos <= Len(Elements[M[f.node].key])
         /\ f.fn = "deletePath" => f.seg.kind = "key"
         /\ f.fn \in {"getPath", "getUnder"} /\ f.seg.occ.kind = "wildcard" => f.occ \in Nat
<1>1. f \in Frame
  BY DEF Located
<1>2. /\ f.fn \in Fn /\ f.node \in Node /\ f.seg \in Segment /\ f.rest \in Seq(Segment)
      /\ f.pos \in Nat \ {0} /\ f.occ \in Nat \cup {OCCURRENCE_END} /\ f.cur \in Nat
  BY <1>1 DEF Frame
<1>3. f.seg.occ \in Occurrence /\ (f.seg.kind = "key" => f.seg.key \in Key)
  BY <1>2, SegmentParts
<1> QED
  BY <1>1, <1>2, <1>3 DEF Located, Composites

\* getMetadataAllUnderForOccurrences is entered on a located record.
LEMMA UnderFrameLocated ==
  ASSUME NEW M, NEW nx \in Nat, NEW M1, NEW nx1 \in Nat,
         NEW f \in Located(M, nx), f.fn = "getUnder", NEW n \in Composites(M1, nx1)
  PROVE  UnderFrame(n, f) \in Located(M1, nx1)
<1> DEFINE g == UnderFrame(n, f)
<1>1. n \in Node /\ n < nx1 /\ IsComposite(M1[n].key)
  BY DEF Composites
<1>2. f \in Frame /\ f.seg \in Segment /\ f.seg.occ \in Occurrence
  BY LocatedParts
<1>3. /\ Start(f.seg.occ) \in Nat \cup {OCCURRENCE_END}
      /\ StartCursor(f.seg.occ) \in Nat
  BY <1>2, OccurrenceValues
<1>4. PICK seg \in Segment : seg = [f.seg EXCEPT !.match = Key]
  <2>1. [f.seg EXCEPT !.match = Key] \in Segment
    BY <1>2 DEF Segment
  <2> QED
    BY <2>1, Zenon
<1>5. seg.occ = f.seg.occ
  BY <1>2, <1>4 DEF Segment
<1>6. PICK o \in Nat \cup {OCCURRENCE_END} :
        o = IF f.seg.occ.kind = "wildcard" THEN 0 ELSE Start(f.seg.occ)
  BY <1>3
<1>7. g = [f EXCEPT !.node = n, !.seg = seg, !.pos = 1, !.occ = o,
                    !.cur = StartCursor(f.seg.occ)]
  BY <1>2, <1>4, <1>6 DEF UnderFrame, Frame
<1> HIDE DEF g
<1>8. g.fn = "getUnder" /\ g.node = n /\ g.occ = o /\ g.seg = seg
  BY <1>2, <1>7 DEF Frame
<1>9. g \in Frame
  <2>1. /\ f.fn \in Fn /\ f.rest \in Seq(Segment)
        /\ f = [fn |-> f.fn, node |-> f.node, seg |-> f.seg, rest |-> f.rest,
                pos |-> f.pos, occ |-> f.occ, cur |-> f.cur]
    BY <1>2 DEF Frame
  <2>2. g = [fn |-> f.fn, node |-> n, seg |-> seg, rest |-> f.rest,
             pos |-> 1, occ |-> o, cur |-> StartCursor(f.seg.occ)]
    BY <1>7, <2>1
  <2> QED
    BY <1>1, <1>3, <2>1, <2>2 DEF Frame
<1>10. f.seg.occ.kind = "wildcard" => o \in Nat
  BY <1>6
<1>11. g \in Located(M1, nx1)
  BY <1>1, <1>5, <1>8, <1>9, <1>10 DEF Located
<1> QED
  BY <1>11 DEF g

\* A record that is further on in its loops.
LEMMA MovedLocated ==
  ASSUME NEW M, NEW nx, NEW f \in Located(M, nx), f.fn # "getMetadatum",
         NEW g \in Frame, g.fn = f.fn, g.node = f.node, g.seg = f.seg,
         f.fn = "getPath" /\ f.seg.kind = "single" =>
           g.pos <= Len(Elements[M[f.node].key]),
         f.fn \in {"getPath", "getUnder"} /\ f.seg.occ.kind = "wildcard" => g.occ \in Nat
  PROVE  g \in Located(M, nx)
BY DEF Located

\* Moving to the next occurrence keeps the record on its composite.
LEMMA NextOccurrenceLocated ==
  ASSUME NEW M, NEW nx, NEW f \in Located(M, nx), f.fn # "getMetadatum"
  PROVE  /\ NextOccurrence(f) \in Located(M, nx)
         /\ NextOccurrence(f).fn = f.fn
         /\ NextOccurrence(f).node = f.node
         /\ NextOccurrence(f).seg = f.seg
<1> DEFINE g == NextOccurrence(f)
<1>1. /\ f \in Frame /\ f.seg.occ \in Occurrence /\ f.cur \in Nat
      /\ f.occ \in Nat \cup {OCCURRENCE_END}
      /\ f.fn \in {"getPath", "getUnder"} /\ f.seg.occ.kind = "wildcard" => f.occ \in Nat
      /\ f.fn = "getPath" /\ f.seg.kind = "single" =>
           f.pos <= Len(Elements[M[f.node].key])
  BY LocatedParts
<1>2. /\ g \in Frame /\ g.fn = f.fn /\ g.node = f.node /\ g.seg = f.seg /\ g.pos = f.pos
      /\ f.fn \in {"getPath", "getUnder"} /\ f.seg.occ.kind = "wildcard" => g.occ \in Nat
  <2>1. CASE f.seg.occ.kind = "wildcard" /\ f.fn \in {"getPath", "getUnder"}
    <3>1. g = [f EXCEPT !.occ = f.occ + 1]
      BY <2>1 DEF NextOccurrence, Frame
    <3>2. f.occ + 1 \in Nat
      BY <1>1, <2>1
    <3> HIDE DEF g
    <3> QED
      BY <1>1, <2>1, <3>1, <3>2 DEF Frame
  <2>2. CASE /\ ~ (f.seg.occ.kind = "wildcard" /\ f.fn \in {"getPath", "getUnder"})
             /\ f.cur < Len(f.seg.occ.list)
    <3>1. g = [f EXCEPT !.occ = f.seg.occ.list[f.cur + 1], !.cur = f.cur + 1]
      BY <2>2 DEF NextOccurrence, Frame
    <3>2. f.seg.occ.list[f.cur + 1] \in Nat /\ f.cur + 1 \in Nat
      BY <1>1, <2>2, OccurrenceValues
    <3> HIDE DEF g
    <3> QED
      BY <1>1, <2>2, <3>1, <3>2 DEF Frame
  <2>3. CASE /\ ~ (f.seg.occ.kind = "wildcard" /\ f.fn \in {"getPath", "getUnder"})
             /\ ~ f.cur < Len(f.seg.occ.list)
    <3>1. g = [f EXCEPT !.occ = OCCURRENCE_END]
      BY <2>3 DEF NextOccurrence, Frame
    <3> HIDE DEF g
    <3> QED
      BY <1>1, <2>3, <3>1 DEF Frame
  <2> QED
    BY <2>1, <2>2, <2>3
<1> HIDE DEF g
<1>3. g \in Located(M, nx)
  BY <1>1, <1>2, MovedLocated
<1> QED
  BY <1>2, <1>3 DEF g

\* The loop over the keys goes on.
LEMMA NextKeyLocated ==
  ASSUME NEW M, NEW nx, NEW f \in Located(M, nx), LoopsOverKeys(f)
  PROVE  NextKey(f) \in Located(M, nx)
<1> DEFINE g == NextKey(f)
<1>1. /\ f \in Frame /\ f.seg.occ \in Occurrence /\ f.pos \in Nat \ {0}
      /\ f.fn \in {"getUnder", "deleteWild"} /\ f.cur \in Nat
      /\ f.node \in Node /\ f.seg \in Segment
      /\ f.occ \in Nat \cup {OCCURRENCE_END}
      /\ f.fn \in {"getPath", "getUnder"} /\ f.seg.occ.kind = "wildcard" => f.occ \in Nat
  BY LocatedParts DEF LoopsOverKeys
<1>2. /\ Start(f.seg.occ) \in Nat \cup {OCCURRENCE_END}
      /\ StartCursor(f.seg.occ) \in Nat
  BY <1>1, OccurrenceValues
<1>3. f.pos + 1 \in Nat \ {0}
  BY <1>1
<1>4. /\ g \in Frame /\ g.fn = f.fn /\ g.node = f.node /\ g.seg = f.seg
      /\ f.fn \in {"getPath", "getUnder"} /\ f.seg.occ.kind = "wildcard" => g.occ \in Nat
  <2>1. CASE f.pos < Len(ElementsOf(f.node))
    <3> DEFINE o == IF f.seg.occ.kind = "wildcard" /\ f.fn = "getUnder"
                    THEN 0 ELSE Start(f.seg.occ)
    <3>1. /\ o \in Nat \cup {OCCURRENCE_END}
          /\ f.fn \in {"getPath", "getUnder"} /\ f.seg.occ.kind = "wildcard" => o \in Nat
      BY <1>1, <1>2
    <3>2. g = [f EXCEPT !.pos = f.pos + 1, !.occ = o, !.cur = StartCursor(f.seg.occ)]
      BY <1>1, <2>1 DEF NextKey, Frame
    <3> HIDE DEF g, o
    <3>3. /\ g.fn = f.fn /\ g.node = f.node /\ g.seg = f.seg /\ g.occ = o
          /\ g.pos = f.pos + 1 /\ g.cur = StartCursor(f.seg.occ)
      BY <1>1, <3>2 DEF Frame
    <3>4. g \in Frame
      BY <1>1, <1>2, <1>3, <3>1, <3>2 DEF Frame
    <3> QED
      BY <3>1, <3>3, <3>4
  <2>2. CASE ~ f.pos < Len(ElementsOf(f.node))
    <3>1. g = [f EXCEPT !.pos = f.pos + 1]
      BY <1>1, <2>2 DEF NextKey, Frame
    <3> HIDE DEF g
    <3> QED
      BY <1>1, <1>3, <3>1 DEF Frame
  <2> QED
    BY <2>1, <2>2
<1> HIDE DEF g
<1>5. g \in Located(M, nx)
  BY <1>1, <1>4, MovedLocated
<1> QED
  BY <1>5 DEF g

\* The innermost loop goes on; for ? the loop over the occurrences restarts the
\* one over the keys.
LEMMA AfterBodyLocated ==
  ASSUME NEW f \in Located(md, next), f.fn # "getMetadatum", md[f.node].key \in Key \cup {RootKey}
  PROVE  AfterBody(f) \in Located(md, next)
<1> USE SchemaAssumption
<1>1. NextOccurrence(f) \in Located(md, next) /\ NextOccurrence(f).fn = f.fn
      /\ NextOccurrence(f).node = f.node /\ NextOccurrence(f).seg = f.seg
  BY NextOccurrenceLocated
<1>2. /\ f \in Frame /\ f.pos \in Nat \ {0} /\ IsComposite(md[f.node].key)
      /\ f.fn \in {"getPath", "getUnder"} /\ f.seg.occ.kind = "wildcard" => f.occ \in Nat
  BY LocatedParts
<1>3. Elements[md[f.node].key] \in Seq(Key) /\ Len(Elements[md[f.node].key]) >= 1
  <2>1. Elements[md[f.node].key] \in Seq(Key) /\ Elements[md[f.node].key] # <<>>
    BY <1>2 DEF SchemaAssumption, IsComposite
  <2> QED
    BY <2>1, EmptySeq, LenProperties, SMTT(40)
<1>4. ASSUME NEW h \in Located(md, next), h.fn = f.fn, h.node = f.node, h.seg = f.seg,
             NEW q \in Nat \ {0}, q <= Len(Elements[md[f.node].key]),
             NEW g, g = [h EXCEPT !.pos = q]
      PROVE  g \in Located(md, next)
  <2>1. /\ h \in Frame
        /\ h.fn \in {"getPath", "getUnder"} /\ h.seg.occ.kind = "wildcard" => h.occ \in Nat
    BY LocatedParts
  <2>2. /\ g \in Frame /\ g.fn = h.fn /\ g.node = h.node /\ g.seg = h.seg
        /\ g.pos = q /\ g.occ = h.occ
    BY <1>4, <2>1 DEF Frame
  <2> QED
    BY <1>4, <2>1, <2>2, MovedLocated
<1>5. CASE f.fn = "getPath" /\ f.seg.kind = "single"
  <2>1. CASE f.pos < Len(ElementsOf(f.node))
    <3>1. PICK q \in Nat \ {0} : q = f.pos + 1
      <4>1. f.pos + 1 \in Nat \ {0}
        BY <1>2
      <4> QED
        BY <4>1, Zenon
    <3>2. q <= Len(Elements[md[f.node].key])
      <4>1. Len(Elements[md[f.node].key]) \in Nat
        BY <1>3, LenProperties
      <4> QED
        BY <1>2, <2>1, <3>1, <4>1, SMTT(40) DEF ElementsOf
    <3>3. AfterBody(f) = [f EXCEPT !.pos = q]
      BY <1>2, <1>5, <2>1, <3>1 DEF AfterBody, Frame
    <3> QED
      BY <1>4, <3>2, <3>3, Zenon
  <2>2. CASE ~ f.pos < Len(ElementsOf(f.node))
    <3>1. PICK h \in Located(md, next) :
            h = NextOccurrence(f) /\ h.fn = f.fn /\ h.node = f.node /\ h.seg = f.seg
      BY <1>1
    <3>2. AfterBody(f) = [h EXCEPT !.pos = 1]
      BY <1>5, <2>2, <3>1 DEF AfterBody
    <3>3. PICK q \in Nat \ {0} : q = 1
      OBVIOUS
    <3>4. q <= Len(Elements[md[f.node].key])
      BY <1>3, <3>3
    <3>5. AfterBody(f) = [h EXCEPT !.pos = q]
      BY <3>2, <3>3
    <3> QED
      BY <1>4, <3>1, <3>4, <3>5, Zenon
  <2> QED
    BY <2>1, <2>2
<1>6. CASE ~ (f.fn = "getPath" /\ f.seg.kind = "single")
  BY <1>1, <1>6 DEF AfterBody
<1> QED
  BY <1>5, <1>6

\* The records of the recursions; getMetadatum descends without one.
Loops(M, nx) == {f \in Located(M, nx) : f.fn # "getMetadatum"}

\* Moving a loop past its body leaves a loop.
LEMMA AfterBodyLoops ==
  ASSUME HeapInv, NEW f \in Located(md, next), f.fn # "getMetadatum"
  PROVE  AfterBody(f) \in Located(md, next) /\ AfterBody(f).fn = f.fn
<1> USE SchemaAssumption
<1>1. md[f.node].key \in Key \cup {RootKey}
  BY LocatedParts DEF HeapInv, HeapType
<1>2. AfterBody(f) \in Located(md, next)
  BY <1>1, AfterBodyLocated
<1>3. AfterBody(f).fn = f.fn
  <2>1. /\ NextOccurrence(f) \in Frame /\ f \in Frame
        /\ NextOccurrence(f).fn = f.fn
    BY NextOccurrenceLocated, LocatedParts
  <2> QED
    BY <2>1 DEF AfterBody, Frame
<1> QED
  BY <1>2, <1>3

\* Moving a loop to its next key leaves a loop.
LEMMA NextKeyLoops ==
  ASSUME NEW f \in Loops(md, next), LoopsOverKeys(f)
  PROVE  NextKey(f) \in Loops(md, next)
<1>1. f \in Located(md, next) /\ f.fn # "getMetadatum" /\ f \in Frame
  BY LocatedParts DEF Loops
<1>2. NextKey(f) \in Located(md, next)
  BY <1>1, NextKeyLocated
<1>3. NextKey(f).fn = f.fn
  BY <1>1 DEF NextKey, Frame
<1> QED
  BY <1>1, <1>2, <1>3 DEF Loops

\* The top of a nonempty stack and what Pop, Push and Replace make of it.
LEMMA StackParts ==
  ASSUME NEW S, NEW s \in Seq(S), s # <<>>
  PROVE  /\ Head(s) \in S
         /\ Tail(s) \in Seq(S)
         /\ \A f \in S : <<f>> \o Tail(s) \in Seq(S) /\ <<f>> \o s \in Seq(S)
         /\ Len(s) # 1 => /\ s[2] \in S
                          /\ Tail(Tail(s)) \in Seq(S)
                          /\ \A f \in S : <<f>> \o Tail(Tail(s)) \in Seq(S)
<1>1. Head(s) \in S /\ Tail(s) \in Seq(S) /\ Len(Tail(s)) = Len(s) - 1
  BY HeadTailProperties
<1>2. \A f \in S : <<f>> \in Seq(S)
  OBVIOUS
<1>3. \A f \in S : <<f>> \o Tail(s) \in Seq(S) /\ <<f>> \o s \in Seq(S)
  BY <1>1, <1>2, ConcatProperties
<1>4. ASSUME Len(s) # 1
      PROVE  /\ s[2] \in S
             /\ Tail(Tail(s)) \in Seq(S)
             /\ \A f \in S : <<f>> \o Tail(Tail(s)) \in Seq(S)
  <2>1. Len(s) \in Nat /\ Len(s) > 1
    <3>1. Len(s) \in Nat
      BY LenProperties
    <3>2. Len(s) # 0
      BY EmptySeq
    <3>3. PICK l \in Nat : l = Len(s)
      BY <3>1, Zenon
    <3>4. l # 0 /\ l # 1
      BY <1>4, <3>2, <3>3
    <3>5. l > 1
      BY ONLY <3>4, l \in Nat
    <3> QED
      BY <3>3, <3>5
  <2>2. Tail(s) # <<>>
    <3>1. Len(Tail(s)) # 0
      BY <1>1, <2>1
    <3> QED
      BY <3>1, EmptySeq
  <2>3. Tail(Tail(s)) \in Seq(S)
    BY <1>1, <2>2, HeadTailProperties
  <2>4. s[2] \in S
    <3>1. 2 \in 1 .. Len(s)
      BY <2>1
    <3> QED
      BY <3>1, ElementOfSeq
  <2> QED
    BY <1>2, <2>3, <2>4, ConcatProperties
<1> QED
  BY <1>1, <1>3, <1>4

\* The caller of a recursion resumes where the callee left the occurrence.
LEMMA PopLocated ==
  ASSUME HeapInv, stack \in Seq(Loops(md, next)), stack # <<>>
  PROVE  Pop \in Seq(Loops(md, next))
<1> USE SchemaAssumption
<1>1. CASE Len(stack) = 1
  BY <1>1, EmptySeq DEF Pop
<1>2. CASE Len(stack) # 1
  <2>1. /\ stack[2] \in Loops(md, next)
        /\ \A f \in Loops(md, next) : <<f>> \o Tail(Tail(stack)) \in Seq(Loops(md, next))
    BY <1>2, StackParts
  <2>2. Top \in Loops(md, next)
    BY StackParts DEF Top
  <2>3. PICK c \in Loops(md, next) : c = stack[2]
    BY <2>1
  <2>4. Top.cur \in Nat
    BY <2>2, LocatedParts DEF Loops
  <2>5. c \in Located(md, next) /\ c.fn # "getMetadatum"
    BY DEF Loops
  <2>6. PICK b : b = IF c.fn = "getUnder" THEN [c EXCEPT !.cur = Top.cur] ELSE c
    OBVIOUS
  <2>7. b \in Frame /\ b.fn = c.fn /\ b.node = c.node /\ b.seg = c.seg
        /\ b.pos = c.pos /\ b.occ = c.occ
    <3>1. c \in Frame
      BY <2>5, LocatedParts
    <3> QED
      BY <2>4, <2>6, <3>1 DEF Frame
  <2>8. b \in Located(md, next)
    <3>1. /\ c.fn = "getPath" /\ c.seg.kind = "single" =>
               c.pos <= Len(Elements[md[c.node].key])
          /\ c.fn \in {"getPath", "getUnder"} /\ c.seg.occ.kind = "wildcard" => c.occ \in Nat
      BY <2>5, LocatedParts
    <3> QED
      BY <2>5, <2>7, <3>1, MovedLocated
  <2>9. AfterBody(b) \in Loops(md, next)
    BY <2>5, <2>7, <2>8, AfterBodyLoops DEF Loops
  <2>10. Pop = <<AfterBody(b)>> \o Tail(Tail(stack))
    BY <1>2, <2>3, <2>6 DEF Pop
  <2> QED
    BY <2>1, <2>9, <2>10
<1> QED
  BY <1>1, <1>2

\* A loop is at a key of its composite.
LEMMA FrameKeyIsKey ==
  ASSUME HeapInv, NEW f \in Loops(md, next), ~ FrameDone(f),
         f.fn # "deletePath"
  PROVE  FrameKey(f) \in Key
<1> USE SchemaAssumption
<1>1. /\ f.node \in Node /\ f.fn \in Fn /\ f.pos \in Nat \ {0} /\ f.seg \in Segment
      /\ f.seg.kind = "key" => f.seg.key \in Key
      /\ f.fn = "getPath" => f.seg.kind # "multi"
      /\ f.fn = "getPath" /\ f.seg.kind = "single" =>
           f.pos <= Len(Elements[md[f.node].key])
      /\ f.fn # "getMetadatum"
  BY LocatedParts DEF Loops
<1>2. f.seg.kind \in {"key", "multi", "single"}
  BY <1>1, SegmentParts
<1>3. CASE f.seg.kind = "key"
  BY <1>1, <1>3 DEF FrameKey
<1>4. CASE f.seg.kind # "key"
  <2>1. Elements[md[f.node].key] \in Seq(Key)
    BY <1>1 DEF SchemaAssumption, HeapInv, HeapType
  <2>2. Len(Elements[md[f.node].key]) \in Nat
    BY <2>1, LenProperties
  <2>3. f.pos <= Len(Elements[md[f.node].key])
    <3>1. CASE f.fn = "getPath"
      BY <1>1, <1>2, <1>4, <3>1
    <3>2. CASE f.fn # "getPath"
      <4>1. LoopsOverKeys(f)
        BY <1>1, <3>2 DEF LoopsOverKeys, Fn
      <4> QED
        BY <1>1, <2>2, <4>1 DEF FrameDone, ElementsOf
    <3> QED
      BY <3>1, <3>2
  <2>4. f.pos \in 1 .. Len(Elements[md[f.node].key])
    BY <1>1, <2>2, <2>3
  <2> QED
    BY <1>4, <2>1, <2>4, ElementOfSeq DEF FrameKey, ElementsOf
<1> QED
  BY <1>3, <1>4

\* What a loop works on is an occurrence, never OCCURRENCE_END.
LEMMA OccurrenceIsReal ==
  ASSUME NEW f \in Loops(md, next), ~ FrameDone(f), f.fn = "deletePath" \/ ~ KeyDone(f)
  PROVE  f.occ \in Nat
<1>1. /\ f.fn \in Fn /\ f.fn # "getMetadatum" /\ f.occ \in Nat \cup {OCCURRENCE_END}
      /\ f.fn \in {"getPath", "getUnder"} /\ f.seg.occ.kind = "wildcard" => f.occ \in Nat
  BY LocatedParts DEF Loops
<1>2. CASE f.fn \in {"getPath", "getUnder"} /\ f.seg.occ.kind = "wildcard"
  BY <1>1, <1>2
<1>3. CASE ~ (f.fn \in {"getPath", "getUnder"} /\ f.seg.occ.kind = "wildcard")
  <2>1. \A k : Exhausted(f, k) = (f.occ = OCCURRENCE_END)
    BY <1>3 DEF Exhausted
  <2>2. CASE f.fn \in {"getPath", "deletePath"}
    BY <1>1, <2>1, <2>2 DEF FrameDone
  <2>3. CASE f.fn \in {"getUnder", "deleteWild"}
    BY <1>1, <2>1, <2>3 DEF KeyDone, LoopsOverKeys
  <2> QED
    BY <1>1, <2>2, <2>3 DEF Fn
<1> QED
  BY <1>2, <1>3

-----------------------------------------------------------------------------
\* The inductive invariant

\* getMetadatum runs on one record, which it replaces when it descends; the
\* recursions of getMetadata and deleteMetadata stack theirs.
StackInv ==
  \/ stack \in Seq(Loops(md, next))
  \/ \E f \in Located(md, next) : stack = <<f>>

IInv ==
  /\ HeapInv
  /\ StackInv
  /\ held \subseteq Composites(md, next)
  /\ iter \in Seq(Node)
  /\ ret \in Node \cup {None}
  /\ call.create \in BOOLEAN

\* What keeps the keys of the objects keeps every record and handle in place.
LEMMA HeapGrows ==
  ASSUME HeapInv, HeapInv', next <= next',
         \A m \in 0 .. next - 1 : md'[m].key = md[m].key
  PROVE  /\ Located(md, next) \subseteq Located(md', next')
         /\ Loops(md, next) \subseteq Loops(md', next')
         /\ Seq(Loops(md, next)) \subseteq Seq(Loops(md', next'))
         /\ Composites(md, next) \subseteq Composites(md', next')
<1> USE BoundAssumption
<1>1. next \in Nat /\ next' \in Nat
  BY DEF HeapInv, HeapType, BoundAssumption
<1>2. /\ Located(md, next) \subseteq Located(md', next')
      /\ Composites(md, next) \subseteq Composites(md', next')
  BY <1>1, LocatedGrows
<1>3. Loops(md, next) \subseteq Loops(md', next')
  BY <1>2 DEF Loops
<1> QED
  BY <1>2, <1>3, SeqMonotone

\* A step that leaves the objects alone keeps their invariants.
LEMMA HeapSame ==
  ASSUME HeapInv, UNCHANGED heap
  PROVE  /\ HeapInv' /\ next' = next /\ md' = md
         /\ Located(md', next') = Located(md, next)
         /\ Loops(md', next') = Loops(md, next)
         /\ Composites(md', next') = Composites(md, next)
<1>1. kids' = kids /\ md' = md /\ next' = next
  BY DEF heap
<1>2. HeapType' /\ WithinMaxOccurs'
  BY <1>1 DEF HeapInv, HeapType, WithinMaxOccurs
<1>3. OccurrencesNumbered /\ ChoiceExclusive
  BY DEF HeapInv
<1>4. OccurrencesNumbered'
  BY ONLY <1>1, <1>3 DEF OccurrencesNumbered
<1>5. ChoiceExclusive'
  BY ONLY <1>1, <1>3 DEF ChoiceExclusive
<1> QED
  BY <1>1, <1>2, <1>4, <1>5 DEF HeapInv

\* The initial states satisfy the invariant.
LEMMA InitIInv ==
  ASSUME Init
  PROVE  IInv
<1> USE SchemaAssumption, BoundAssumption
<1>1. MaxNode \in Nat /\ 0 \in Node /\ 1 \in 1 .. MaxNode + 1
  BY DEF BoundAssumption, Node
<1>2. <<>> \in Seq(Node) /\ Len(<<>>) = 0 /\ <<>> \in Seq(Loops(md, next))
  BY EmptySeq
<1>3. \A n \in Node, k \in Key : kids[n][k] = <<>>
  BY DEF Init
<1>4. HeapType
  BY <1>1, <1>2 DEF Init, HeapType
<1>5. OccurrencesNumbered
  BY <1>2, <1>3 DEF OccurrencesNumbered
<1>6. ChoiceExclusive
  <2> SUFFICES ASSUME NEW a \in Node, NEW g \in Choice, NEW x \in Items[g],
                      NEW y \in Items[g], x # y,
                      NEW p \in KeysUnder[x], NEW q \in KeysUnder[y]
               PROVE  kids[a][p] = <<>> \/ kids[a][q] = <<>>
    BY DEF ChoiceExclusive
  <2>1. p \in Key
    BY DEF SchemaAssumption
  <2> QED
    BY <1>3, <2>1
<1>7. WithinMaxOccurs
  <2> SUFFICES ASSUME NEW n \in Node, NEW k \in Key
               PROVE  Len(kids[n][k]) <= MaxOccurs[k]
    BY DEF WithinMaxOccurs
  <2>1. MaxOccurs[k] \in Nat
    BY DEF SchemaAssumption
  <2> QED
    BY <1>2, <1>3, <2>1
<1>8. held \subseteq Composites(md, next)
  BY <1>1 DEF Init, Composites, IsComposite, SchemaAssumption
<1>9. StackInv /\ iter \in Seq(Node)
  BY <1>2 DEF Init, StackInv
<1>10. ret \in Node \cup {None} /\ call.create \in BOOLEAN
  BY DEF Init
<1> QED
  BY <1>4, <1>5, <1>6, <1>7, <1>8, <1>9, <1>10 DEF IInv, HeapInv

\* A client calls a composite it holds with one of the paths.
LEMMA CallKeepsIInv ==
  ASSUME IInv, Call
  PROVE  IInv'
<1> USE SchemaAssumption, BoundAssumption
<1>1. HeapInv /\ held \subseteq Composites(md, next)
  BY DEF IInv
<1>2. PICK n \in held :
        \/ \E create \in BOOLEAN :
             \/ \E path \in MdPaths : getMetadatum(n, path, create)
             \/ \E path \in GetPaths : getMetadata(n, path, create)
        \/ getMetadataEmptyKey(n)
        \/ \E path \in DeletePaths : deleteMetadata(n, path)
        \/ deleteMetadataEverything(n)
  BY DEF Call
<1>3. n \in Composites(md, next) /\ n \in Node
  BY <1>1 DEF Composites
<1>4. md[n].key \in Key \cup {RootKey} /\ next \in Nat
  BY <1>1, <1>3 DEF HeapInv, HeapType, BoundAssumption
<1>5. \A path \in Path :
        /\ NewFrame("getMetadatum", n, path) \in Located(md, next)
        /\ GetFrame(n, path) \in Located(md, next)
        /\ DeleteFrame(n, path) \in Located(md, next)
  BY <1>3, <1>4, NewFramesLocated
<1>6. ASSUME NEW op, NEW path, NEW create \in BOOLEAN, Begin(op, n, path, create)
      PROVE  /\ iter' \in Seq(Node) /\ ret' \in Node \cup {None} /\ held' = held
             /\ call'.create \in BOOLEAN /\ stack = <<>>
  BY <1>6, EmptySeq DEF Begin
<1>7. ASSUME NEW f \in Located(md, next), stack' = <<f>>, UNCHANGED heap,
             NEW op, NEW path, NEW create \in BOOLEAN, Begin(op, n, path, create)
      PROVE  IInv'
  <2>1. /\ HeapInv' /\ Located(md', next') = Located(md, next)
        /\ Composites(md', next') = Composites(md, next)
    BY <1>1, <1>7, HeapSame
  <2>2. \E g \in Located(md', next') : stack' = <<g>>
    BY <1>7, <2>1
  <2>3. /\ iter' \in Seq(Node) /\ ret' \in Node \cup {None} /\ held' = held
        /\ call'.create \in BOOLEAN
    BY <1>6, <1>7
  <2> QED
    BY <1>1, <2>1, <2>2, <2>3 DEF IInv, StackInv
<1>8. ASSUME NEW create \in BOOLEAN, NEW path \in MdPaths, getMetadatum(n, path, create)
      PROVE  IInv'
  <2>1. path \in Path
    BY DEF BoundAssumption
  <2> QED
    BY <1>5, <1>7, <1>8, <2>1 DEF getMetadatum
<1>9. ASSUME NEW create \in BOOLEAN, NEW path \in Path, getMetadata(n, path, create)
      PROVE  IInv'
  BY <1>5, <1>7, <1>9 DEF getMetadata
<1>10. CASE getMetadataEmptyKey(n)
  <2>1. <<AllWildcard>> \in Path
    <3>1. AllWildcard \in Segment
      BY EmptySeq DEF AllWildcard, Segment, Occurrence
    <3> HIDE DEF AllWildcard
    <3> QED
      BY <3>1 DEF Path
  <2> QED
    BY <1>9, <1>10, <2>1 DEF getMetadataEmptyKey
<1>11. ASSUME NEW path \in DeletePaths, deleteMetadata(n, path)
       PROVE  IInv'
  <2>1. path \in Path
    BY DEF BoundAssumption
  <2> QED
    BY <1>5, <1>7, <1>11, <2>1 DEF deleteMetadata
<1>12. CASE deleteMetadataEverything(n)
  <2>1. /\ iter' \in Seq(Node) /\ ret' \in Node \cup {None} /\ held' = held
        /\ call'.create \in BOOLEAN /\ stack = <<>> /\ stack' = stack
    BY <1>6, <1>12 DEF deleteMetadataEverything
  <2>2. HeapInv' /\ md' = md /\ next' = next
    BY <1>1, <1>3, <1>12, DeleteAllKeepsHeap DEF deleteMetadataEverything
  <2>3. stack' \in Seq(Loops(md', next'))
    BY <2>1, EmptySeq
  <2>4. Composites(md', next') = Composites(md, next)
    BY <2>2
  <2> QED
    BY <1>1, <2>1, <2>2, <2>3, <2>4 DEF IInv, StackInv
<1>13. GetPaths \subseteq Path
  BY DEF BoundAssumption
<1> QED
  BY <1>2, <1>8, <1>9, <1>10, <1>11, <1>12, <1>13

\* While a loop runs, every record of the stack is a loop.
LEMMA StackOfLoops ==
  ASSUME StackInv, stack # <<>>
  PROVE  /\ Top \in Located(md, next)
         /\ Top.fn = "getMetadatum" => stack = <<Top>>
         /\ Top.fn # "getMetadatum" =>
              Top \in Loops(md, next) /\ stack \in Seq(Loops(md, next))
<1>1. CASE stack \in Seq(Loops(md, next))
  <2>1. Top \in Loops(md, next)
    BY <1>1, StackParts DEF Top
  <2> QED
    BY <1>1, <2>1 DEF Loops
<1>2. ASSUME NEW f \in Located(md, next), stack = <<f>>
      PROVE  /\ Top \in Located(md, next)
             /\ Top.fn = "getMetadatum" => stack = <<Top>>
             /\ Top.fn # "getMetadatum" =>
                  Top \in Loops(md, next) /\ stack \in Seq(Loops(md, next))
  <2>1. Top = f
    BY <1>2 DEF Top
  <2>2. f.fn # "getMetadatum" => f \in Loops(md, next)
    BY DEF Loops
  <2>3. f \in Loops(md, next) => <<f>> \in Seq(Loops(md, next))
    OBVIOUS
  <2> QED
    BY <1>2, <2>1, <2>2, <2>3
<1> QED
  BY <1>1, <1>2 DEF StackInv

\* The end of an activation keeps the invariant.
LEMMA ReturnKeepsIInv ==
  ASSUME IInv, Return
  PROVE  IInv'
<1> USE SchemaAssumption
<1>1. stack # <<>> /\ FrameDone(Top) /\ stack' = Pop /\ UNCHANGED <<heap, iter, ret, held, call>>
  BY DEF Return, Running
<1>2. HeapInv /\ StackInv
  BY DEF IInv
<1>3. Top.fn # "getMetadatum"
  BY <1>1 DEF FrameDone, LoopsOverKeys
<1>4. stack' \in Seq(Loops(md, next))
  BY <1>1, <1>2, <1>3, StackOfLoops, PopLocated
<1> QED
  BY <1>1, <1>2, <1>4, HeapSame DEF IInv, StackInv

\* A key with nothing left to do keeps the invariant.
LEMMA SkipKeyKeepsIInv ==
  ASSUME IInv, SkipKey
  PROVE  IInv'
<1> USE SchemaAssumption
<1>1. /\ stack # <<>> /\ Top.fn # "getMetadatum"
      /\ stack' = Replace(IF LoopsOverKeys(Top) THEN NextKey(Top) ELSE AfterBody(Top))
      /\ UNCHANGED <<heap, iter, ret, held, call>>
  BY DEF SkipKey, Running
<1>2. HeapInv /\ StackInv
  BY DEF IInv
<1>3. Top \in Loops(md, next) /\ stack \in Seq(Loops(md, next)) /\ Top \in Located(md, next)
  BY <1>1, <1>2, StackOfLoops
<1>4. LoopsOverKeys(Top) => NextKey(Top) \in Loops(md, next)
  BY <1>3, NextKeyLoops
<1>5. AfterBody(Top) \in Loops(md, next)
  BY <1>1, <1>2, <1>3, AfterBodyLoops DEF Loops
<1>6. \A f \in Loops(md, next) : <<f>> \o Tail(stack) \in Seq(Loops(md, next))
  BY <1>1, <1>3, StackParts
<1>7. stack' \in Seq(Loops(md, next))
  BY <1>1, <1>4, <1>5, <1>6 DEF Replace
<1> QED
  BY <1>1, <1>2, <1>7, HeapSame DEF IInv, StackInv

\* One level of getMetadatum keeps the invariant.
LEMMA GetMetadatumLevelKeepsIInv ==
  ASSUME IInv, GetMetadatumLevel
  PROVE  IInv'
<1> USE SchemaAssumption, BoundAssumption, KeysUnderAssumption
<1> DEFINE f == Top
           k == f.seg.key
           a == Answer(f.node, k, f.occ, call.create)
<1>1. stack # <<>> /\ f.fn = "getMetadatum" /\ UNCHANGED <<call, iter>>
  BY DEF GetMetadatumLevel, Running
<1>2. /\ HeapInv /\ StackInv /\ held \subseteq Composites(md, next) /\ iter \in Seq(Node)
      /\ ret \in Node \cup {None} /\ call.create \in BOOLEAN
  BY DEF IInv
<1>3. f \in Located(md, next) /\ stack = <<f>>
  BY <1>1, <1>2, StackOfLoops
<1>4. Tail(stack) = <<>>
  BY <1>3
<1>5. CASE ~ Exact(<<f.seg>>)
  <2>1. stack' = <<>> /\ ret' = None /\ UNCHANGED <<heap, held>>
    BY <1>4, <1>5 DEF GetMetadatumLevel
  <2>2. stack' \in Seq(Loops(md, next))
    BY <2>1, EmptySeq
  <2> QED
    BY <1>1, <1>2, <2>1, <2>2, HeapSame DEF IInv, StackInv
<1>6. CASE Exact(<<f.seg>>)
  <2>1. /\ f.node \in Node /\ f.node < next /\ f.seg \in Segment /\ f.seg.occ \in Occurrence
        /\ f.rest \in Seq(Segment) /\ f.occ = Start(f.seg.occ)
        /\ f.seg.kind = "key" => k \in Key
    BY <1>1, <1>3, LocatedParts
  <2>2. f.seg.kind = "key" /\ SingleOccurrence(f.seg.occ)
    BY <1>6 DEF Exact
  <2>3. k \in Key /\ f.occ \in Nat
    BY <2>1, <2>2, OccurrenceValues
  <2>4. f.node \in 0 .. next - 1
    BY <1>2, <2>1, ExistsBelow
  <2>5. /\ CreateMissing(f.node, k, f.occ, call.create)
        /\ IF f.rest # <<>> /\ a # None /\ IsComposite(k)
           THEN /\ stack' = Replace(NewFrame("getMetadatum", a, f.rest))
                /\ UNCHANGED <<ret, held>>
           ELSE /\ stack' = Tail(stack)
                /\ ret' = IF f.rest = <<>> THEN a ELSE None
                /\ held' = IF ret' # None /\ IsComposite(k)
                           THEN held \cup {ret'} ELSE held
    BY <1>6 DEF GetMetadatumLevel
  <2> HIDE DEF a, k, f
  <2>6. HeapInv' /\ next <= next' /\ \A m \in 0 .. next - 1 : md'[m] = md[m]
    <3>1. HeapInv /\ call.create \in BOOLEAN
      BY <1>2
    <3>2. CreateMissing(f.node, k, f.occ, call.create)
      BY <2>5
    <3> QED
      BY <2>3, <2>4, <3>1, <3>2, CreateKeepsHeap, SMTT(60)
  <2>7. Composites(md, next) \subseteq Composites(md', next')
    BY <1>2, <2>6, HeapGrows
  <2>8. a # None => a \in 1 .. next' - 1 /\ md'[a].key = k
    <3>1. SUFFICES ASSUME a # None
                   PROVE  a \in 1 .. next' - 1 /\ md'[a].key = k
      OBVIOUS
    <3>2. Answer(f.node, k, f.occ, call.create) # None
      BY <3>1 DEF a
    <3>3. /\ Answer(f.node, k, f.occ, call.create) \in 1 .. next' - 1
          /\ md'[Answer(f.node, k, f.occ, call.create)].key = k
      <4>1. HeapInv /\ call.create \in BOOLEAN
        BY <1>2
      <4>2. CreateMissing(f.node, k, f.occ, call.create)
        BY <2>5
      <4> QED
        BY <2>3, <2>4, <3>2, <4>1, <4>2, AnswerLocated, SMTT(60)
    <3> QED
      BY <3>3 DEF a
  <2>9. next' \in 1 .. MaxNode + 1 /\ MaxNode \in Nat
    BY <2>6 DEF HeapInv, HeapType, BoundAssumption
  <2>10. a # None => a \in Node /\ a < next'
    <3>1. \A m \in 1 .. next' - 1 : m \in Node /\ m < next'
      <4>1. next' \in Nat /\ next' <= MaxNode + 1
        BY <2>9
      <4> QED
        BY <2>9, <4>1 DEF Node
    <3> QED
      BY <2>8, <3>1
  <2>11. a # None /\ IsComposite(k) => a \in Composites(md', next')
    BY <2>8, <2>10 DEF Composites
  <2>12. CASE f.rest # <<>> /\ a # None /\ IsComposite(k)
    <3>1. stack' = Replace(NewFrame("getMetadatum", a, f.rest)) /\ UNCHANGED <<ret, held>>
      BY <2>5, <2>12
    <3>2. f.rest \in Path /\ md'[a].key \in Key \cup {RootKey} /\ next' \in Nat
      BY <2>1, <2>3, <2>8, <2>9, <2>12, SMTT(40) DEF Path
    <3>3. NewFrame("getMetadatum", a, f.rest) \in Located(md', next')
      BY <2>11, <2>12, <3>2, NewFramesLocated
    <3>4. stack' = <<NewFrame("getMetadatum", a, f.rest)>>
      <4>1. PICK g \in Located(md', next') : g = NewFrame("getMetadatum", a, f.rest)
        BY <3>3, Zenon
      <4>2. <<g>> \in Seq(Located(md', next'))
        OBVIOUS
      <4>3. <<g>> \o <<>> = <<g>>
        BY <4>2, ConcatEmptySeq
      <4> QED
        BY <1>4, <3>1, <4>1, <4>3 DEF Replace
    <3>5. \E g \in Located(md', next') : stack' = <<g>>
      BY <3>3, <3>4
    <3> QED
      BY <1>1, <1>2, <2>6, <2>7, <3>1, <3>5 DEF IInv, StackInv
  <2>13. CASE ~ (f.rest # <<>> /\ a # None /\ IsComposite(k))
    <3>1. /\ stack' = <<>>
          /\ ret' = IF f.rest = <<>> THEN a ELSE None
          /\ held' = IF ret' # None /\ IsComposite(k) THEN held \cup {ret'} ELSE held
      BY <1>4, <2>5, <2>13
    <3>2. ret' = a \/ ret' = None
      BY <3>1
    <3>3. ret' \in Node \cup {None}
      BY <2>10, <3>2
    <3>4. held' \subseteq Composites(md', next')
      BY <1>2, <2>7, <2>11, <3>1, <3>2
    <3>5. stack' \in Seq(Loops(md', next'))
      BY <3>1, EmptySeq
    <3> QED
      BY <1>1, <1>2, <2>6, <3>3, <3>4, <3>5 DEF IInv, StackInv
  <2> QED
    BY <2>12, <2>13
<1> QED
  BY <1>5, <1>6

\* One pass of a loop of getMetadata keeps the invariant.
LEMMA GetOccurrenceKeepsIInv ==
  ASSUME IInv, GetOccurrence
  PROVE  IInv'
<1> USE SchemaAssumption, BoundAssumption, KeysUnderAssumption
<1> DEFINE f == Top
           k == FrameKey(f)
           a == Answer(f.node, k, f.occ, call.create)
<1>1. /\ stack # <<>> /\ f.fn \in {"getPath", "getUnder"}
      /\ ~ FrameDone(f) /\ ~ KeyDone(f)
      /\ UNCHANGED <<call, ret, held>>
      /\ CreateMissing(f.node, k, f.occ, call.create)
      /\ iter' = IF a # None /\ ~IsComposite(k) THEN Append(iter, a) ELSE iter
      /\ stack' = IF a # None /\ IsComposite(k) /\ f.fn = "getUnder"
                  THEN Push(UnderFrame(a, f))
                  ELSE IF a # None /\ IsComposite(k) /\ f.rest # <<>>
                  THEN Push(GetFrame(a, f.rest))
                  ELSE Replace(AfterBody(f))
  BY DEF GetOccurrence, Running
<1>2. /\ HeapInv /\ StackInv /\ held \subseteq Composites(md, next) /\ iter \in Seq(Node)
      /\ ret \in Node \cup {None} /\ call.create \in BOOLEAN
  BY DEF IInv
<1>3. f \in Loops(md, next) /\ stack \in Seq(Loops(md, next)) /\ f \in Located(md, next)
      /\ f.fn # "getMetadatum"
  BY <1>1, <1>2, StackOfLoops
<1>4. k \in Key /\ f.occ \in Nat
  BY <1>1, <1>2, <1>3, FrameKeyIsKey, OccurrenceIsReal
<1>5. f.node \in Node /\ f.node < next /\ f.rest \in Seq(Segment)
  BY <1>3, LocatedParts
<1>6. f.node \in 0 .. next - 1
  BY <1>2, <1>5 DEF Node, HeapInv, HeapType, BoundAssumption
<1>7. AfterBody(f) \in Loops(md, next)
  BY <1>2, <1>3, AfterBodyLoops DEF Loops
<1> HIDE DEF a, k, f
<1>8. HeapInv' /\ next <= next' /\ \A m \in 0 .. next - 1 : md'[m] = md[m]
  <2>1. CreateMissing(f.node, k, f.occ, call.create)
    BY <1>1
  <2>2. HeapInv /\ call.create \in BOOLEAN
    BY <1>2
  <2>3. f.occ \in Nat /\ k \in Key
    BY <1>4
  <2> QED
    BY <1>6, <2>1, <2>2, <2>3, CreateKeepsHeap, SMTT(60)
<1>9. /\ Loops(md, next) \subseteq Loops(md', next')
      /\ Seq(Loops(md, next)) \subseteq Seq(Loops(md', next'))
      /\ Composites(md, next) \subseteq Composites(md', next')
  BY <1>2, <1>8, HeapGrows
<1>10. a # None => a \in 1 .. next' - 1 /\ md'[a].key = k
  <2>1. SUFFICES ASSUME a # None
                 PROVE  a \in 1 .. next' - 1 /\ md'[a].key = k
    OBVIOUS
  <2>2. Answer(f.node, k, f.occ, call.create) # None
    BY <2>1 DEF a
  <2>3. /\ Answer(f.node, k, f.occ, call.create) \in 1 .. next' - 1
        /\ md'[Answer(f.node, k, f.occ, call.create)].key = k
    <3>1. CreateMissing(f.node, k, f.occ, call.create)
      BY <1>1
    <3>2. HeapInv /\ call.create \in BOOLEAN
      BY <1>2
    <3> QED
      BY <1>4, <1>6, <2>2, <3>1, <3>2, AnswerLocated, SMTT(60)
  <2> QED
    BY <2>3 DEF a
<1>11. next' \in Nat /\ next \in Nat /\ next' <= MaxNode + 1 /\ MaxNode \in Nat
  <2>1. next' \in 1 .. MaxNode + 1 /\ MaxNode \in Nat
    BY <1>8 DEF HeapInv, HeapType, BoundAssumption
  <2>2. next \in 1 .. MaxNode + 1
    BY <1>2 DEF HeapInv, HeapType
  <2> QED
    BY ONLY <2>1, <2>2, SMTT(30)
<1>12. a # None => a \in Node /\ a < next'
  <2>1. \A m \in 1 .. next' - 1 : m \in Node /\ m < next'
    BY <1>11 DEF Node
  <2> QED
    BY <1>10, <2>1
<1>13. a # None /\ IsComposite(k) => a \in Composites(md', next')
  BY <1>10, <1>12 DEF Composites
<1>14. iter' \in Seq(Node)
  <2>1. \A m \in Node : Append(iter, m) \in Seq(Node)
    BY <1>2, AppendProperties
  <2> QED
    BY <1>1, <1>2, <1>12, <2>1
<1>15. stack \in Seq(Loops(md', next')) /\ stack # <<>>
  BY <1>1, <1>3, <1>9
<1>16. \A g \in Loops(md', next') :
         /\ Push(g) \in Seq(Loops(md', next'))
         /\ Replace(g) \in Seq(Loops(md', next'))
  BY <1>15, StackParts DEF Push, Replace
<1>17. stack' \in Seq(Loops(md', next'))
  <2>1. CASE a # None /\ IsComposite(k) /\ f.fn = "getUnder"
    <3>1. a \in Composites(md', next')
      BY <1>13, <2>1
    <3>2. UnderFrame(a, f) \in Located(md', next')
      BY <1>3, <1>11, <2>1, <3>1, UnderFrameLocated
    <3>3. UnderFrame(a, f).fn = "getUnder"
      <4>1. f \in Frame
        BY <1>3, LocatedParts
      <4> QED
        BY <2>1, <4>1 DEF UnderFrame, Frame
    <3>4. UnderFrame(a, f) \in Loops(md', next')
      BY <3>2, <3>3 DEF Loops
    <3> QED
      BY <1>1, <1>16, <2>1, <3>4
  <2>2. CASE a # None /\ IsComposite(k) /\ f.fn # "getUnder" /\ f.rest # <<>>
    <3>1. /\ a \in Composites(md', next') /\ f.rest \in Path
          /\ md'[a].key \in Key \cup {RootKey}
      BY <1>4, <1>5, <1>10, <1>13, <2>2 DEF Path
    <3>2. GetFrame(a, f.rest) \in Located(md', next')
      BY <1>11, <3>1, NewFramesLocated
    <3>3. GetFrame(a, f.rest).fn # "getMetadatum"
      BY DEF GetFrame, NewFrame
    <3>4. GetFrame(a, f.rest) \in Loops(md', next')
      BY <3>2, <3>3 DEF Loops
    <3> QED
      BY <1>1, <1>16, <2>2, <3>4
  <2>3. CASE /\ ~ (a # None /\ IsComposite(k) /\ f.fn = "getUnder")
             /\ ~ (a # None /\ IsComposite(k) /\ f.rest # <<>>)
    <3>1. stack' = Replace(AfterBody(f))
      BY <1>1, <2>3
    <3>2. AfterBody(f) \in Loops(md', next')
      BY <1>7, <1>9
    <3> QED
      BY <1>16, <3>1, <3>2
  <2> QED
    BY <2>1, <2>2, <2>3
<1> QED
  BY <1>1, <1>2, <1>8, <1>9, <1>14, <1>17 DEF IInv, StackInv

\* A deletion at the top record, after which the loop goes on.
LEMMA DeletionKeepsIInv ==
  ASSUME IInv, stack # <<>>,
         Top \in Loops(md, next), stack \in Seq(Loops(md, next)),
         NEW k \in Key, Top.occ \in Nat,
         deleteMetadatum(Top.node, k, Top.occ) \/ UNCHANGED heap,
         stack' = Replace(NextOccurrence(Top)),
         UNCHANGED <<iter, ret, held, call>>
  PROVE  IInv'
<1> USE SchemaAssumption, BoundAssumption
<1>1. HeapInv
  BY DEF IInv
<1>2. Top.node \in Node /\ Top \in Located(md, next) /\ Top.fn # "getMetadatum"
  BY LocatedParts DEF Loops
<1>3. HeapInv' /\ next' = next /\ \A m \in Node : md'[m].key = md[m].key
  <2>1. CASE deleteMetadatum(Top.node, k, Top.occ)
    BY <1>1, <1>2, <2>1, DeleteKeepsHeap
  <2>2. CASE UNCHANGED heap
    BY <1>1, <2>2, HeapSame
  <2> QED
    BY <2>1, <2>2
<1>4. next \in Nat /\ next <= next' /\ \A m \in 0 .. next - 1 : md'[m].key = md[m].key
  <2>1. next \in Nat /\ next <= MaxNode + 1 /\ MaxNode \in Nat
    BY <1>1 DEF HeapInv, HeapType, BoundAssumption
  <2>2. \A m \in 0 .. next - 1 : m \in Node
    BY <2>1 DEF Node
  <2> QED
    BY <1>3, <2>1, <2>2
<1>5. /\ Seq(Loops(md, next)) \subseteq Seq(Loops(md', next'))
      /\ Composites(md, next) \subseteq Composites(md', next')
  BY <1>1, <1>3, <1>4, HeapGrows
<1>6. NextOccurrence(Top) \in Loops(md, next)
  BY <1>2, NextOccurrenceLocated DEF Loops
<1>7. stack' \in Seq(Loops(md, next))
  BY <1>6, StackParts DEF Replace
<1> QED
  BY <1>3, <1>5, <1>7 DEF IInv, StackInv

\* The steps of deleteMetadata that delete keep the invariant.
LEMMA DeleteKeepsIInv ==
  ASSUME IInv, DeleteNamed \/ DeleteWildcard
  PROVE  IInv'
<1> USE SchemaAssumption, BoundAssumption
<1>1. HeapInv /\ StackInv
  BY DEF IInv
<1>2. CASE DeleteNamed
  <2>1. /\ stack # <<>> /\ Top.fn = "deletePath" /\ ~ FrameDone(Top)
        /\ UNCHANGED <<iter, ret, held, call>>
        /\ stack' = Replace(NextOccurrence(Top))
        /\ deleteMetadatum(Top.node, Top.seg.key, Top.occ) \/ UNCHANGED heap
    BY <1>2 DEF DeleteNamed, Running
  <2>2. Top \in Loops(md, next) /\ stack \in Seq(Loops(md, next))
    BY <1>1, <2>1, StackOfLoops
  <2>3. Top.seg.key \in Key
    BY <2>1, <2>2, LocatedParts DEF Loops
  <2>4. Top.occ \in Nat
    BY <2>1, <2>2, OccurrenceIsReal
  <2> QED
    BY <2>1, <2>2, <2>3, <2>4, DeletionKeepsIInv
<1>3. CASE DeleteWildcard
  <2>1. /\ stack # <<>> /\ Top.fn = "deleteWild" /\ ~ FrameDone(Top) /\ ~ KeyDone(Top)
        /\ UNCHANGED <<iter, ret, held, call>>
        /\ stack' = Replace(NextOccurrence(Top))
        /\ deleteMetadatum(Top.node, FrameKey(Top), Top.occ)
    BY <1>3 DEF DeleteWildcard, Running
  <2>2. Top \in Loops(md, next) /\ stack \in Seq(Loops(md, next))
    BY <1>1, <2>1, StackOfLoops
  <2>3. FrameKey(Top) \in Key
    BY <1>1, <2>1, <2>2, FrameKeyIsKey
  <2>4. Top.occ \in Nat
    BY <2>1, <2>2, OccurrenceIsReal
  <2> QED
    BY <2>1, <2>2, <2>3, <2>4, DeletionKeepsIInv
<1> QED
  BY <1>2, <1>3

\* The descent of deleteMetadata into a child keeps the invariant.
LEMMA DeleteDescendKeepsIInv ==
  ASSUME IInv, DeleteDescend
  PROVE  IInv'
<1> USE SchemaAssumption, BoundAssumption
<1> DEFINE f == Top
           c == findMetadata(f.node, f.seg.key, f.occ)
<1>1. /\ stack # <<>> /\ f.fn = "deletePath" /\ ~ FrameDone(f) /\ f.rest # <<>>
      /\ UNCHANGED <<heap, iter, ret, held, call>>
      /\ stack' = IF c # None /\ IsComposite(f.seg.key)
                  THEN Push(DeleteFrame(c, f.rest)) ELSE Pop
  BY DEF DeleteDescend, Running
<1>2. HeapInv /\ StackInv
  BY DEF IInv
<1>3. f \in Loops(md, next) /\ stack \in Seq(Loops(md, next))
  BY <1>1, <1>2, StackOfLoops
<1>4. /\ f.seg.key \in Key /\ f.node \in Node /\ f.rest \in Path
  BY <1>1, <1>3, LocatedParts DEF Loops, Path
<1>5. f.occ \in Nat
  BY <1>1, <1>3, OccurrenceIsReal
<1>6. c # None => c \in 1 .. next - 1 /\ md[c].key = f.seg.key
  BY <1>2, <1>4, <1>5, FindMetadataKind
<1> HIDE DEF c
<1>7. CASE c # None /\ IsComposite(f.seg.key)
  <2>1. next \in Nat /\ next <= MaxNode + 1 /\ MaxNode \in Nat
    BY <1>2 DEF HeapInv, HeapType, BoundAssumption
  <2>2. \A m \in 1 .. next - 1 : m \in Node /\ m < next
    BY <2>1 DEF Node
  <2>3. c \in Composites(md, next) /\ md[c].key \in Key \cup {RootKey}
    BY <1>4, <1>6, <1>7, <2>2 DEF Composites
  <2>4. DeleteFrame(c, f.rest) \in Located(md, next)
    BY <1>4, <2>1, <2>3, NewFramesLocated
  <2>5. DeleteFrame(c, f.rest) \in Loops(md, next)
    BY <2>4 DEF Loops, DeleteFrame, NewFrame
  <2>6. \A g \in Loops(md, next) : Push(g) \in Seq(Loops(md, next))
    BY <1>1, <1>3, StackParts DEF Push
  <2>7. stack' \in Seq(Loops(md, next))
    BY <1>1, <1>7, <2>5, <2>6
  <2> QED
    BY <1>1, <1>2, <2>7, HeapSame DEF IInv, StackInv
<1>8. CASE ~ (c # None /\ IsComposite(f.seg.key))
  <2>1. stack' \in Seq(Loops(md, next))
    BY <1>1, <1>2, <1>3, <1>8, PopLocated
  <2> QED
    BY <1>1, <1>2, <2>1, HeapSame DEF IInv, StackInv
<1> QED
  BY <1>7, <1>8

\* A stuttering step keeps the invariant.
LEMMA StutterKeepsIInv ==
  ASSUME IInv, UNCHANGED vars
  PROVE  IInv'
<1>1. UNCHANGED <<heap, stack, call, iter, ret, held>>
  BY DEF vars, heap
<1> QED
  BY <1>1, HeapSame DEF IInv, StackInv

\* Every step keeps the invariant.
LEMMA NextKeepsIInv ==
  ASSUME IInv, Next
  PROVE  IInv'
<1> USE SchemaAssumption, BoundAssumption, KeysUnderAssumption
<1>1. CASE Call
  BY <1>1, CallKeepsIInv
<1>2. CASE Return
  BY <1>2, ReturnKeepsIInv
<1>3. CASE SkipKey
  BY <1>3, SkipKeyKeepsIInv
<1>4. CASE GetMetadatumLevel
  BY <1>4, GetMetadatumLevelKeepsIInv
<1>5. CASE GetOccurrence
  BY <1>5, GetOccurrenceKeepsIInv
<1>6. CASE DeleteNamed \/ DeleteWildcard
  BY <1>6, DeleteKeepsIInv
<1>7. CASE DeleteDescend
  BY <1>7, DeleteDescendKeepsIInv
<1> QED
  BY <1>1, <1>2, <1>3, <1>4, <1>5, <1>6, <1>7 DEF Next, Step

\* The inductive invariant holds in every behaviour.
THEOREM Invariance == Spec => []IInv
<1> USE SchemaAssumption, BoundAssumption, KeysUnderAssumption
<1>1. Init => IInv
  BY InitIInv
<1>2. IInv /\ [Next]_vars => IInv'
  BY NextKeepsIInv, StutterKeepsIInv
<1> QED
  BY <1>1, <1>2, PTL DEF Spec

\* The state always holds values of its types: every record works on an object
\* that was created, and every occurrence, cursor and answer is one.
THEOREM TypeCorrect == Spec => []TypeOK
<1>1. IInv => TypeOK
  <2> SUFFICES ASSUME IInv PROVE TypeOK
    OBVIOUS
  <2>1. HeapInv /\ StackInv /\ held \subseteq Composites(md, next)
    BY DEF IInv
  <2>2. stack \in Seq(Located(md, next))
    <3>1. CASE stack \in Seq(Loops(md, next))
      <4>1. Loops(md, next) \subseteq Located(md, next)
        BY DEF Loops
      <4> QED
        BY <3>1, <4>1, SeqMonotone
    <3>2. CASE \E f \in Located(md, next) : stack = <<f>>
      BY <3>2
    <3> QED
      BY <2>1, <3>1, <3>2 DEF StackInv
  <2>3. stack \in Seq(Frame)
    <3>1. Located(md, next) \subseteq Frame
      BY DEF Located
    <3> QED
      BY <2>2, <3>1, SeqMonotone
  <2>4. \A i \in DOMAIN stack : stack[i].node < next
    <3> SUFFICES ASSUME NEW i \in DOMAIN stack PROVE stack[i].node < next
      OBVIOUS
    <3>1. i \in 1 .. Len(stack)
      BY <2>2, LenProperties
    <3>2. stack[i] \in Located(md, next)
      BY <2>2, <3>1, ElementOfSeq
    <3> QED
      BY <3>2, LocatedParts
  <2>5. held \subseteq 0 .. next - 1
    <3>1. \A n \in Composites(md, next) : n \in 0 .. next - 1
      BY <2>1, BoundAssumption DEF Composites, Node, HeapInv, HeapType, BoundAssumption
    <3> QED
      BY <2>1, <3>1
  <2> QED
    BY <2>1, <2>3, <2>4, <2>5 DEF TypeOK, IInv, HeapInv, HeapType
<1> QED
  BY <1>1, Invariance, PTL

\* Every object knows its key, its parent and its number, through every
\* sequence of creations, deletions and renumberings.
THEOREM Numbering == Spec => []OccurrencesNumbered
<1>1. IInv => OccurrencesNumbered
  BY DEF IInv, HeapInv
<1> QED
  BY <1>1, Invariance, PTL

\* No composite ever holds objects of two items of a choice, whatever the model
\* groups and their nesting.
THEOREM Choices == Spec => []ChoiceExclusive
<1>1. IInv => ChoiceExclusive
  BY DEF IInv, HeapInv
<1> QED
  BY <1>1, Invariance, PTL

\* No element ever exceeds its maxOccurs, whatever the schema.
THEOREM Bounded == Spec => []WithinMaxOccurs
<1>1. IInv => WithinMaxOccurs
  BY DEF IInv, HeapInv
<1> QED
  BY <1>1, Invariance, PTL

\* What a call adds to an element brings it to its minOccurs.
LEMMA CreateFills ==
  ASSUME HeapInv,
         NEW n \in 0 .. next - 1, NEW k \in Key, NEW o \in Nat, NEW create \in BOOLEAN,
         CreateMissing(n, k, o, create), next' <= MaxNode,
         NEW a \in Node, NEW b \in Key, Len(kids'[a][b]) > Len(kids[a][b])
  PROVE  Len(kids'[a][b]) >= MinOccurs[b]
<1> USE SchemaAssumption, BoundAssumption
<1>1. next \in Nat /\ MaxNode \in Nat /\ next <= MaxNode + 1 /\ next >= 1
  BY DEF HeapInv, HeapType, BoundAssumption
<1>2. n \in Node
  BY <1>1 DEF Node
<1>3. PICK len \in Nat : len = Len(kids[n][k])
  <2>1. Len(kids[n][k]) \in Nat
    BY <1>2, LenProperties DEF HeapInv, HeapType
  <2> QED
    BY <2>1, Zenon
<1>4. PICK c \in Nat : c = Missing(n, k, o, create)
  BY <1>2, MissingRange, Zenon
<1>5. PICK s \in Nat : s = Supply /\ s = MaxNode + 1 - next
  <2>1. Supply \in Nat /\ Supply = MaxNode + 1 - next
    BY <1>1 DEF Supply
  <2> QED
    BY <2>1, Zenon
<1>6. PICK d \in Nat : d = Min2(c, s)
  <2>1. Min2(c, s) \in Nat
    BY DEF Min2
  <2> QED
    BY <2>1, Zenon
<1>7. Extended(n, k, len, d)
  BY <1>3, <1>4, <1>5, <1>6, CreateShape
<1>8. /\ next' = next + d /\ Len(kids'[n][k]) = len + d
      /\ a # n \/ b # k => kids'[a][b] = kids[a][b]
  BY <1>7 DEF Extended
<1>9. a = n /\ b = k
  <2>1. Len(kids[a][b]) \in Nat
    BY LenProperties DEF HeapInv, HeapType
  <2>2. kids'[a][b] # kids[a][b]
    <3>1. SUFFICES ASSUME kids'[a][b] = kids[a][b] PROVE FALSE
      OBVIOUS
    <3>2. PICK l \in Nat : l = Len(kids[a][b])
      BY <2>1, Zenon
    <3>3. l > l
      BY <3>1, <3>2
    <3> QED
      BY ONLY <3>3, l \in Nat
  <2> QED
    BY <1>8, <2>2
<1>10. len + d > len
  BY <1>3, <1>8, <1>9
<1>11. c > 0 /\ d = c
  BY ONLY <1>1, <1>5, <1>6, <1>8, <1>10, next' <= MaxNode,
          c \in Nat, s \in Nat, d \in Nat, len \in Nat DEF Min2
<1>12. MinOccurs[k] \in Nat
  BY DEF SchemaAssumption
<1>13. c = Max2(MinOccurs[k], o + 1) - len
  BY <1>3, <1>4, <1>11 DEF Missing
<1>14. Max2(MinOccurs[k], o + 1) \in Nat /\ Max2(MinOccurs[k], o + 1) >= MinOccurs[k]
  BY <1>12, SMTT(40) DEF Max2
<1>15. len + d >= MinOccurs[k]
  BY ONLY <1>11, <1>12, <1>13, <1>14, d \in Nat, len \in Nat
<1> QED
  BY <1>8, <1>9, <1>15

\* What a step may do to the objects: nothing, create at an element, delete at an
\* element, or delete everything of one composite.
LEMMA StepShapes ==
  ASSUME IInv, Next
  PROVE  \/ UNCHANGED heap
         \/ \E n \in 0 .. next - 1, k \in Key, o \in Nat, create \in BOOLEAN :
              CreateMissing(n, k, o, create)
         \/ \E n \in Node, k \in Key, o \in Nat : deleteMetadatum(n, k, o)
         \/ \E n \in Node : deleteMetadataAll(n)
<1> USE SchemaAssumption, BoundAssumption
<1>1. HeapInv /\ StackInv /\ held \subseteq Composites(md, next) /\ call.create \in BOOLEAN
  BY DEF IInv
<1>2. \A n \in Node : n < next => n \in 0 .. next - 1
  BY <1>1, SMTT(40) DEF Node, HeapInv, HeapType, BoundAssumption
<1>3. CASE Call
  <2>1. \A n \in held : n \in Node
    BY <1>1 DEF Composites
  <2>2. \A n : deleteMetadataEverything(n) => deleteMetadataAll(n)
    BY DEF deleteMetadataEverything
  <2>3. \A n, path : deleteMetadata(n, path) => UNCHANGED heap
    BY DEF deleteMetadata
  <2>4. \A n, path, create : getMetadata(n, path, create) \/ getMetadatum(n, path, create)
                               => UNCHANGED heap
    BY DEF getMetadata, getMetadatum
  <2>5. \A n : getMetadataEmptyKey(n) => UNCHANGED heap
    BY <2>4 DEF getMetadataEmptyKey
  <2> QED
    BY <1>3, <2>1, <2>2, <2>3, <2>4, <2>5 DEF Call
<1>4. CASE Return \/ SkipKey \/ DeleteDescend
  BY <1>4 DEF Return, SkipKey, DeleteDescend
<1>5. CASE DeleteNamed
  <2>1. /\ stack # <<>> /\ Top.fn = "deletePath" /\ ~ FrameDone(Top)
        /\ deleteMetadatum(Top.node, Top.seg.key, Top.occ) \/ UNCHANGED heap
    BY <1>5 DEF DeleteNamed, Running
  <2>2. Top \in Loops(md, next)
    BY <1>1, <2>1, StackOfLoops
  <2>3. Top.seg.key \in Key /\ Top.node \in Node
    BY <2>1, <2>2, LocatedParts DEF Loops
  <2>4. Top.occ \in Nat
    BY <2>1, <2>2, OccurrenceIsReal
  <2> QED
    BY <2>1, <2>3, <2>4
<1>6. CASE DeleteWildcard
  <2>1. /\ stack # <<>> /\ Top.fn = "deleteWild" /\ ~ FrameDone(Top) /\ ~ KeyDone(Top)
        /\ deleteMetadatum(Top.node, FrameKey(Top), Top.occ)
    BY <1>6 DEF DeleteWildcard, Running
  <2>2. Top \in Loops(md, next)
    BY <1>1, <2>1, StackOfLoops
  <2>3. FrameKey(Top) \in Key /\ Top.node \in Node
    BY <1>1, <2>1, <2>2, FrameKeyIsKey, LocatedParts DEF Loops
  <2>4. Top.occ \in Nat
    BY <2>1, <2>2, OccurrenceIsReal
  <2> QED
    BY <2>1, <2>3, <2>4
<1>7. CASE GetOccurrence
  <2>1. /\ stack # <<>> /\ Top.fn \in {"getPath", "getUnder"}
        /\ ~ FrameDone(Top) /\ ~ KeyDone(Top)
        /\ CreateMissing(Top.node, FrameKey(Top), Top.occ, call.create)
    BY <1>7 DEF GetOccurrence, Running
  <2>2. Top \in Loops(md, next) /\ Top \in Located(md, next)
    BY <1>1, <2>1, StackOfLoops
  <2>3. FrameKey(Top) \in Key /\ Top.occ \in Nat
    BY <1>1, <2>1, <2>2, FrameKeyIsKey, OccurrenceIsReal
  <2>4. Top.node \in 0 .. next - 1
    BY <1>2, <2>2, LocatedParts
  <2> QED
    BY <1>1, <2>1, <2>3, <2>4
<1>8. CASE GetMetadatumLevel
  <2>1. stack # <<>> /\ Top.fn = "getMetadatum"
    BY <1>8 DEF GetMetadatumLevel, Running
  <2>2. \/ UNCHANGED heap
        \/ Exact(<<Top.seg>>) /\ CreateMissing(Top.node, Top.seg.key, Top.occ, call.create)
    BY <1>8 DEF GetMetadatumLevel
  <2>3. Top \in Located(md, next)
    BY <1>1, <2>1, StackOfLoops
  <2>4. /\ Top.node \in Node /\ Top.node < next /\ Top.seg.occ \in Occurrence
        /\ Top.occ = Start(Top.seg.occ)
        /\ Top.seg.kind = "key" => Top.seg.key \in Key
    BY <2>1, <2>3, LocatedParts
  <2>5. CASE Exact(<<Top.seg>>)
    <3>1. Top.seg.kind = "key" /\ SingleOccurrence(Top.seg.occ)
      BY <2>5 DEF Exact
    <3>2. Top.seg.key \in Key /\ Top.occ \in Nat /\ Top.node \in 0 .. next - 1
      BY <1>2, <2>4, <3>1, OccurrenceValues
    <3> QED
      BY <1>1, <2>2, <3>2
  <2> QED
    BY <2>2, <2>5
<1> QED
  BY <1>3, <1>4, <1>5, <1>6, <1>7, <1>8 DEF Next, Step

\* Every step that creates below a composite fills the element it asks for.
LEMMA StepFills ==
  ASSUME IInv, Next, next' <= MaxNode,
         NEW a \in Node, NEW b \in Key, Len(kids'[a][b]) > Len(kids[a][b])
  PROVE  Len(kids'[a][b]) >= MinOccurs[b]
<1> USE SchemaAssumption, BoundAssumption, KeysUnderAssumption
<1>1. HeapInv /\ StackInv /\ held \subseteq Composites(md, next) /\ call.create \in BOOLEAN
  BY DEF IInv
<1>2. ~ Len(kids'[a][b]) <= Len(kids[a][b])
  <2>1. Len(kids[a][b]) \in Nat
    BY <1>1, LenProperties DEF HeapInv, HeapType
  <2>2. HeapInv'
    <3>1. IInv'
      BY NextKeepsIInv
    <3> QED
      BY <3>1 DEF IInv
  <2>3. Len(kids'[a][b]) \in Nat
    BY <2>2, LenProperties DEF HeapInv, HeapType
  <2>4. PICK l \in Nat, l1 \in Nat : l = Len(kids[a][b]) /\ l1 = Len(kids'[a][b])
    BY <2>1, <2>3, Zenon
  <2>5. l1 > l
    BY <2>4
  <2>6. ~ l1 <= l
    BY ONLY <2>5, l \in Nat, l1 \in Nat
  <2> QED
    BY <2>4, <2>6
<1>3. ~ UNCHANGED heap
  <2>1. Len(kids[a][b]) \in Nat
    BY <1>1, LenProperties DEF HeapInv, HeapType
  <2> QED
    BY <2>1 DEF heap
<1>4. \A n \in Node : ~ deleteMetadataAll(n)
  BY <1>1, <1>2, DeleteAllKeepsHeap
<1>5. \A n \in Node, k \in Key, o \in Nat : ~ deleteMetadatum(n, k, o)
  BY <1>1, <1>2, DeleteKeepsHeap
<1>6. \E n \in 0 .. next - 1, k \in Key, o \in Nat, create \in BOOLEAN :
         CreateMissing(n, k, o, create)
  BY <1>3, <1>4, <1>5, StepShapes
<1> QED
  BY <1>1, <1>6, CreateFills, SMTT(40)

\* A step that adds objects to an element leaves it with minOccurs of them.
THEOREM Filled == Spec => FilledToMinOccurs
<1> USE SchemaAssumption, BoundAssumption, KeysUnderAssumption
<1>1. IInv /\ [Next]_vars =>
        [\A n \in Node : \A k \in Key :
           Len(kids'[n][k]) > Len(kids[n][k]) /\ next' <= MaxNode
             => Len(kids'[n][k]) >= MinOccurs[k]]_vars
  BY StepFills
<1> QED
  BY <1>1, Invariance, PTL DEF Spec, FilledToMinOccurs

-----------------------------------------------------------------------------
\* The objects are rooted, and in the tree or cut off from it

\* Objects are created below composites that are there already, at elements the schema
\* gives them.
Rooted ==
  /\ \A n \in Node, k \in Key : kids[n][k] # <<>> => n < next /\ Has(n, k)
  /\ \A m \in 1 .. next - 1 :
       /\ md[m].key \in Key /\ md[m].parent \in 0 .. m - 1
       /\ IsComposite(md[md[m].parent].key)

\* What has an element has elements.
LEMMA HasIsComposite ==
  ASSUME NEW n, NEW k, Has(n, k)
  PROVE  IsComposite(md[n].key)
  BY DEF Has, IsComposite, ElementsOf

\* Creating keeps the objects rooted.
LEMMA CreateKeepsRooted ==
  ASSUME HeapInv, Rooted,
         NEW n \in 0 .. next - 1, NEW k \in Key, NEW o \in Nat, NEW create \in BOOLEAN,
         CreateMissing(n, k, o, create)
  PROVE  Rooted'
<1> USE SchemaAssumption, BoundAssumption
<1>1. next \in Nat /\ MaxNode \in Nat /\ next <= MaxNode + 1 /\ next >= 1
  BY DEF HeapInv, HeapType, BoundAssumption
<1>2. n \in Node
  BY <1>1 DEF Node
<1>3. PICK len \in Nat : len = Len(kids[n][k])
  <2>1. Len(kids[n][k]) \in Nat
    BY <1>2, LenProperties DEF HeapInv, HeapType
  <2> QED
    BY <2>1, Zenon
<1>4. PICK d \in Nat : d = Min2(Missing(n, k, o, create), Supply)
  <2>1. Missing(n, k, o, create) \in Nat
    BY <1>2, MissingRange
  <2>2. Supply \in Nat
    BY <1>1, SMTT(40) DEF Supply
  <2>3. Min2(Missing(n, k, o, create), Supply) \in Nat
    BY <2>1, <2>2 DEF Min2
  <2> QED
    BY <2>3, Zenon
<1>5. HeapType' /\ Extended(n, k, len, d)
  BY <1>3, <1>4, CreateShape, ZenonT(40)
<1>6. /\ next' = next + d
      /\ d > 0 => okToCreate(n, k)
      /\ \A a \in Node, b \in Key : a # n \/ b # k => kids'[a][b] = kids[a][b]
      /\ Len(kids'[n][k]) = len + d
      /\ \A m \in Node : md'[m] = IF m \in next .. next + d - 1
                                  THEN [key |-> k, parent |-> n, occurrence |-> len + (m - next)]
                                  ELSE md[m]
  BY <1>5 DEF Extended
<1>7. \A m \in 0 .. next - 1 : md'[m] = md[m] /\ m \in Node
  <2> SUFFICES ASSUME NEW m \in 0 .. next - 1 PROVE md'[m] = md[m] /\ m \in Node
    OBVIOUS
  <2>1. m \in Node /\ m \notin next .. next + d - 1
    BY <1>1, SMTT(40) DEF Node
  <2> QED
    BY <1>6, <2>1
<1>8. d > 0 => Has(n, k) /\ IsComposite(md[n].key)
  BY <1>6, HasIsComposite DEF okToCreate
<1>9. ASSUME NEW a \in Node, NEW b \in Key, kids'[a][b] # <<>>
      PROVE  a < next' /\ Has(a, b)'
  <2>1. a < next /\ Has(a, b)
    <3>1. CASE kids[a][b] # <<>>
      BY <3>1 DEF Rooted
    <3>2. CASE kids[a][b] = <<>>
      <4>1. a = n /\ b = k
        BY <1>6, <1>9, <3>2
      <4>2. Len(kids[a][b]) = 0 /\ kids'[a][b] \in Seq(Node)
        BY <1>5, <3>2 DEF HeapType
      <4>3. Len(kids'[a][b]) # 0
        BY <1>9, <4>2, EmptySeq
      <4>4. d > 0
        BY <1>3, <1>6, <4>1, <4>2, <4>3
      <4> QED
        BY <1>1, <1>8, <4>1, <4>4
    <3> QED BY <3>1, <3>2
  <2>2. a \in 0 .. next - 1 /\ a < next'
    BY <1>1, <1>6, <2>1 DEF Node
  <2>3. md'[a] = md[a]
    BY <1>7, <2>2
  <2> QED
    BY <2>1, <2>2, <2>3 DEF Has, ElementsOf
<1>10. ASSUME NEW m \in 1 .. next' - 1
       PROVE  /\ md'[m].key \in Key /\ md'[m].parent \in 0 .. m - 1
              /\ IsComposite(md'[md'[m].parent].key)
  <2>1. CASE m < next
    <3>1. m \in 1 .. next - 1 /\ m \in 0 .. next - 1
      BY <1>1, <2>1
    <3>2. md'[m] = md[m]
      BY <1>7, <3>1
    <3>3. md[m].key \in Key /\ md[m].parent \in 0 .. m - 1 /\ IsComposite(md[md[m].parent].key)
      BY <3>1 DEF Rooted
    <3>4. md[m].parent \in 0 .. next - 1
      <4>1. \A p \in 0 .. m - 1 : p \in 0 .. next - 1
        BY ONLY <1>1, <3>1
      <4> QED BY <3>3, <4>1
    <3>5. md'[md[m].parent] = md[md[m].parent]
      BY <1>7, <3>4
    <3> QED
      BY <3>2, <3>3, <3>5
  <2>2. CASE ~ m < next
    <3>1. m \in next .. next + d - 1 /\ d > 0 /\ n \in 0 .. m - 1
      BY <1>1, <1>6, <2>2
    <3>2. next' \in 1 .. MaxNode + 1
      BY <1>5 DEF HeapType
    <3>3. m \in Node
      <4>1. PICK x \in 1 .. MaxNode + 1 : x = next'
        BY <3>2, Zenon
      <4>2. m \in 1 .. x - 1
        BY <4>1
      <4>3. x \in Nat /\ x <= MaxNode + 1
        BY <1>1
      <4> QED BY <1>1, <4>2, <4>3 DEF Node
    <3>4. md'[m].key = k /\ md'[m].parent = n
      <4>1. md'[m] = [key |-> k, parent |-> n, occurrence |-> len + (m - next)]
        BY <1>6, <3>1, <3>3, Zenon
      <4> QED BY <4>1
    <3>5. md'[n] = md[n]
      BY <1>7
    <3> QED
      BY <1>8, <3>1, <3>4, <3>5
  <2> QED BY <2>1, <2>2
<1> QED
  BY <1>9, <1>10 DEF Rooted

\* Deleting renumbers objects and changes nothing else of them.
LEMMA DeleteMd ==
  ASSUME HeapInv, NEW n \in Node, NEW k \in Key, NEW o \in Nat,
         deleteMetadatum(n, k, o), NEW m \in Node
  PROVE  md'[m].key = md[m].key /\ md'[m].parent = md[m].parent
<1>1. CASE kids[n][k] = <<>>
  BY <1>1 DEF deleteMetadatum, heap
<1>2. CASE kids[n][k] # <<>>
  <2>1. md[m] \in [key : Key \cup {RootKey}, parent : Node \cup {None}, occurrence : Nat]
    BY DEF HeapInv, HeapType
  <2>2. \/ md'[m] = md[m]
        \/ \E c : md'[m] = [md[m] EXCEPT !.occurrence = c]
    BY <1>2 DEF deleteMetadatum
  <2> QED
    BY <2>1, <2>2
<1> QED BY <1>1, <1>2

\* What is kept of the objects when some are deleted.
LEMMA ShrinkKeepsRooted ==
  ASSUME HeapInv, Rooted, next' = next,
         \A m \in Node : md'[m].key = md[m].key /\ md'[m].parent = md[m].parent,
         \A a \in Node, b \in Key : kids[a][b] = <<>> => kids'[a][b] = <<>>
  PROVE  Rooted'
<1>1. next \in Nat /\ MaxNode \in Nat /\ next <= MaxNode + 1 /\ next >= 1
  BY BoundAssumption DEF HeapInv, HeapType, BoundAssumption
<1>2. ASSUME NEW a \in Node, NEW b \in Key, kids'[a][b] # <<>>
      PROVE  a < next' /\ Has(a, b)'
  BY <1>2 DEF Rooted, Has, ElementsOf
<1>3. ASSUME NEW m \in 1 .. next' - 1
      PROVE  /\ md'[m].key \in Key /\ md'[m].parent \in 0 .. m - 1
             /\ IsComposite(md'[md'[m].parent].key)
  <2>1. m \in 1 .. next - 1 /\ m \in Node
    BY <1>1 DEF Node
  <2>2. md[m].key \in Key /\ md[m].parent \in 0 .. m - 1 /\ IsComposite(md[md[m].parent].key)
    BY <2>1 DEF Rooted
  <2>3. md[m].parent \in Node
    BY <1>1, <2>1, <2>2 DEF Node
  <2> QED BY <2>1, <2>2, <2>3
<1> QED BY <1>2, <1>3 DEF Rooted

\* Every step keeps the objects rooted.
LEMMA NextKeepsRooted ==
  ASSUME IInv, Rooted, Next
  PROVE  Rooted'
<1>1. HeapInv
  BY DEF IInv
<1>2. CASE UNCHANGED heap
  BY <1>2 DEF heap, Rooted, Has, ElementsOf
<1>3. ASSUME NEW n \in 0 .. next - 1, NEW k \in Key, NEW o \in Nat, NEW create \in BOOLEAN,
             CreateMissing(n, k, o, create)
      PROVE  Rooted'
  BY <1>1, <1>3, CreateKeepsRooted
<1>4. ASSUME NEW n \in Node, NEW k \in Key, NEW o \in Nat, deleteMetadatum(n, k, o)
      PROVE  Rooted'
  <2>1. \A m \in Node : md'[m].key = md[m].key /\ md'[m].parent = md[m].parent
    BY <1>1, <1>4, DeleteMd
  <2>2. HeapInv' /\ next' = next /\ \A a \in Node, b \in Key : Len(kids'[a][b]) <= Len(kids[a][b])
    BY <1>1, <1>4, DeleteKeepsHeap
  <2>3. ASSUME NEW a \in Node, NEW b \in Key, kids[a][b] = <<>>
        PROVE  kids'[a][b] = <<>>
    <3>1. Len(kids[a][b]) = 0 /\ kids'[a][b] \in Seq(Node) /\ Len(kids'[a][b]) \in Nat
      BY <2>2, <2>3, LenProperties DEF HeapInv, HeapType
    <3>2. Len(kids'[a][b]) = 0
      BY <2>2, <3>1
    <3> QED
      BY <3>1, <3>2, EmptySeq
  <2> QED
    BY <1>1, <2>1, <2>2, <2>3, ShrinkKeepsRooted
<1>5. ASSUME NEW n \in Node, deleteMetadataAll(n)
      PROVE  Rooted'
  <2>1. md' = md /\ next' = next
    BY <1>5 DEF deleteMetadataAll
  <2>2. \A a \in Node, b \in Key : kids[a][b] = <<>> => kids'[a][b] = <<>>
    BY <1>1, <1>5 DEF deleteMetadataAll, HeapInv, HeapType
  <2> QED
    BY <1>1, <2>1, <2>2, ShrinkKeepsRooted
<1> QED
  BY <1>2, <1>3, <1>4, <1>5, StepShapes

\* Every object that exists is below a composite that was there before it, at an element
\* that the schema gives that composite.
THEOREM RootedAlways == Spec => []Rooted
<1>1. Init => Rooted
  <2> SUFFICES ASSUME Init PROVE Rooted
    OBVIOUS
  <2>1. next = 1 /\ \A n \in Node, k \in Key : kids[n][k] = <<>>
    BY DEF Init
  <2> QED BY <2>1 DEF Rooted
<1>2. IInv /\ Rooted /\ [Next]_vars => Rooted'
  <2>1. UNCHANGED vars => UNCHANGED heap
    BY DEF vars, heap
  <2>2. UNCHANGED heap /\ Rooted => Rooted'
    BY DEF heap, Rooted, Has, ElementsOf
  <2> QED BY <2>1, <2>2, NextKeepsRooted
<1> QED
  BY <1>1, <1>2, Invariance, PTL DEF Spec

\* The objects in the tree are the ones the elements hold.
KidsInTree ==
  \A n \in Node, k \in Key : \A i \in 1 .. Len(kids[n][k]) : kids[n][k][i] \in InTree
TreeIsKids ==
  \A m \in InTree :
    /\ m \in 1 .. next - 1 /\ md[m].parent \in Node /\ md[m].key \in Key
    /\ md[m].occurrence + 1 \in 1 .. Len(kids[md[m].parent][md[m].key])
    /\ kids[md[m].parent][md[m].key][md[m].occurrence + 1] = m

\* In every state of the heap, an object is in the tree exactly when an element holds it.
LEMMA InTreeKids == HeapInv /\ Rooted => KidsInTree /\ TreeIsKids
<1> SUFFICES ASSUME HeapInv, Rooted PROVE KidsInTree /\ TreeIsKids
  OBVIOUS
<1>1. ASSUME NEW n \in Node, NEW k \in Key, NEW i \in 1 .. Len(kids[n][k])
      PROVE  kids[n][k][i] \in InTree
  <2> DEFINE m == kids[n][k][i]
  <2>1. m \in 1 .. next - 1 /\ md[m].key = k /\ md[m].parent = n /\ md[m].occurrence = i - 1
    BY Numbered, ZenonT(30) DEF HeapInv
  <2>2. Len(kids[n][k]) \in Nat
    BY LenProperties DEF HeapInv, HeapType
  <2>3. i - 1 < Len(kids[n][k]) /\ (i - 1) + 1 = i
    BY <2>2
  <2>4. findMetadata(n, k, i - 1) = m
    BY <2>3 DEF findMetadata
  <2> QED BY <2>1, <2>4 DEF InTree
<1>2. ASSUME NEW m \in InTree
      PROVE  /\ m \in 1 .. next - 1 /\ md[m].parent \in Node /\ md[m].key \in Key
             /\ md[m].occurrence + 1 \in 1 .. Len(kids[md[m].parent][md[m].key])
             /\ kids[md[m].parent][md[m].key][md[m].occurrence + 1] = m
  <2> DEFINE p == md[m].parent
             k == md[m].key
             o == md[m].occurrence
  <2>1. m \in 1 .. next - 1 /\ findMetadata(p, k, o) = m
    BY DEF InTree
  <2>2. next \in Nat /\ MaxNode \in Nat /\ next <= MaxNode + 1 /\ next >= 1
    BY BoundAssumption DEF HeapInv, HeapType, BoundAssumption
  <2>3. k \in Key /\ p \in 0 .. m - 1
    BY <2>1 DEF Rooted
  <2>4. p \in Node /\ m \in Node
    <3>1. \A q \in 0 .. m - 1 : q \in Node
      BY ONLY <2>1, <2>2 DEF Node
    <3>2. m \in Node
      BY ONLY <2>1, <2>2 DEF Node
    <3> QED BY <2>3, <3>1, <3>2
  <2>5. o \in Nat
    BY <2>4 DEF HeapInv, HeapType
  <2>6. m # None
    BY <2>1 DEF None
  <2>7. Len(kids[p][k]) \in Nat
    BY <2>3, <2>4, LenProperties DEF HeapInv, HeapType
  <2>8. o < Len(kids[p][k])
    BY <2>1, <2>6 DEF findMetadata
  <2>9. kids[p][k][o + 1] = m
    BY <2>1, <2>8 DEF findMetadata
  <2>10. o + 1 \in 1 .. Len(kids[p][k])
    BY <2>5, <2>7, <2>8
  <2> QED BY <2>1, <2>3, <2>4, <2>9, <2>10
<1> QED BY <1>1, <1>2 DEF KidsInTree, TreeIsKids

\* Deleting at an element takes objects of that element out of the tree: the one at the
\* occurrence if there is one.
LEMMA DeleteInTree ==
  ASSUME HeapInv, Rooted, HeapInv', Rooted',
         NEW n \in Node, NEW k \in Key, NEW o \in Nat,
         deleteMetadatum(n, k, o)
  PROVE  /\ InTree' \subseteq InTree
         /\ \A m \in InTree \ InTree' : md[m].parent = n /\ md[m].key = k
         /\ findMetadata(n, k, o) # None => InTree' = InTree \ {findMetadata(n, k, o)}
<1>1. KidsInTree /\ TreeIsKids
  BY InTreeKids
<1>2. KidsInTree' /\ TreeIsKids'
  <2>1. HeapInv' /\ Rooted' => KidsInTree' /\ TreeIsKids'
    BY InTreeKids, PTL
  <2> QED BY <2>1
<1>3. CASE kids[n][k] = <<>>
  <2>1. kids' = kids /\ md' = md /\ next' = next
    BY <1>3 DEF deleteMetadatum, heap
  <2>2. InTree' = InTree
    BY <2>1 DEF InTree, findMetadata
  <2>3. findMetadata(n, k, o) = None
    BY <1>3 DEF findMetadata
  <2> QED BY <2>2, <2>3
<1>4. CASE kids[n][k] # <<>>
  <2> DEFINE s == kids[n][k]
             t == RemoveAt(s, o)
  <2>1. next' = next /\ kids' = [kids EXCEPT ![n][k] = t]
    BY <1>4 DEF deleteMetadatum
  <2>2. s \in Seq(Node)
    BY DEF HeapInv, HeapType
  <2>3. PICK len \in Nat : len = Len(s)
    BY <2>2, LenProperties
  <2>4. Len(t) = len - 1 /\ \A i \in 1 .. len - 1 : t[i] = IF i < o + 1 THEN s[i] ELSE s[i + 1]
    BY <1>4, <2>2, <2>3, RemoveAtSeq
  <2> HIDE DEF t
  <2>5. /\ kids'[n][k] = t
        /\ \A a \in Node, b \in Key : a # n \/ b # k => kids'[a][b] = kids[a][b]
    BY <2>1 DEF HeapInv, HeapType
  <2>6. \A i \in 1 .. len : s[i] \in InTree
    BY <1>1, <2>3 DEF KidsInTree
  <2>7. \A i \in 1 .. len - 1 : t[i] \in InTree'
    BY <1>2, <2>4, <2>5 DEF KidsInTree
  <2> HIDE DEF s
  <2>8. \A m \in InTree' : /\ m \in InTree
                           /\ md[m].parent = n /\ md[m].key = k => 
                                \E i \in 1 .. len - 1 : m = t[i]
    <3> SUFFICES ASSUME NEW m \in InTree'
                 PROVE  /\ m \in InTree
                        /\ md[m].parent = n /\ md[m].key = k => 
                             \E i \in 1 .. len - 1 : m = t[i]
      OBVIOUS
    <3> DEFINE a == md'[m].parent
               b == md'[m].key
               i == md'[m].occurrence + 1
    <3>1. m \in 1 .. next' - 1 /\ a \in Node /\ b \in Key /\ i \in 1 .. Len(kids'[a][b]) /\ kids'[a][b][i] = m
      BY <1>2 DEF TreeIsKids
    <3>2. m \in Node
      <4>1. next' \in 1 .. MaxNode + 1 /\ MaxNode \in Nat
        BY BoundAssumption DEF HeapInv, HeapType, BoundAssumption
      <4>2. PICK x \in 1 .. MaxNode + 1 : x = next'
        BY <4>1, Zenon
      <4>3. m \in 1 .. x - 1
        BY <3>1, <4>2
      <4>4. x \in Nat /\ x <= MaxNode + 1
        BY <4>1
      <4> QED BY <4>1, <4>3, <4>4 DEF Node
    <3>3. md[m].parent = a /\ md[m].key = b
      BY <3>2, DeleteMd
    <3> HIDE DEF a, b, i
    <3>4. CASE a # n \/ b # k
      <4>1. kids'[a][b] = kids[a][b]
        BY <2>5, <3>1, <3>4
      <4>2. m \in InTree
        BY <1>1, <3>1, <4>1 DEF KidsInTree
      <4> QED BY <3>3, <3>4, <4>2
    <3>5. CASE a = n /\ b = k
      <4>1. i \in 1 .. len - 1 /\ m = t[i]
        BY <2>4, <2>5, <3>1, <3>5
      <4>2. \E j \in 1 .. len : m = s[j]
        BY <2>4, <4>1
      <4> QED BY <2>6, <4>1, <4>2
    <3> QED BY <3>4, <3>5
  <2>9. \A m \in InTree \ InTree' : md[m].parent = n /\ md[m].key = k
    <3> SUFFICES ASSUME NEW m \in InTree, ~(md[m].parent = n /\ md[m].key = k)
                 PROVE  m \in InTree'
      OBVIOUS
    <3> DEFINE a == md[m].parent
               b == md[m].key
               i == md[m].occurrence + 1
    <3>1. a \in Node /\ b \in Key /\ i \in 1 .. Len(kids[a][b]) /\ kids[a][b][i] = m
      BY <1>1 DEF TreeIsKids
    <3>2. a # n \/ b # k
      OBVIOUS
    <3> HIDE DEF a, b, i
    <3>3. kids'[a][b] = kids[a][b]
      BY <2>5, <3>1, <3>2
    <3> QED BY <1>2, <3>1, <3>3 DEF KidsInTree
  <2>10. ASSUME findMetadata(n, k, o) # None
         PROVE  InTree' = InTree \ {findMetadata(n, k, o)}
    <3>1. o < len /\ findMetadata(n, k, o) = s[o + 1]
      BY <2>3, <2>10 DEF findMetadata, s
    <3>2. \A i \in 1 .. len : md[s[i]].occurrence = i - 1 /\ md[s[i]].parent = n /\ md[s[i]].key = k
      BY <2>3, Numbered, ZenonT(30) DEF HeapInv, s
    <3>3. s[o + 1] \notin InTree'
      <4> SUFFICES ASSUME s[o + 1] \in InTree' PROVE FALSE
        OBVIOUS
      <4>1. o + 1 \in 1 .. len
        BY <3>1
      <4>2. PICK i \in 1 .. len - 1 : s[o + 1] = t[i]
        BY <2>8, <3>2, <4>1
      <4>3. PICK j \in 1 .. len : t[i] = s[j] /\ j # o + 1
        BY <2>4
      <4>4. md[s[o + 1]].occurrence = (o + 1) - 1 /\ md[s[j]].occurrence = j - 1
        BY <3>2, <4>1
      <4>5. (o + 1) - 1 = j - 1
        BY <4>2, <4>3, <4>4
      <4> QED BY <4>3, <4>5
    <3>4. \A m \in InTree : m # s[o + 1] => m \in InTree'
      <4> SUFFICES ASSUME NEW m \in InTree, m # s[o + 1], m \notin InTree' PROVE FALSE
        OBVIOUS
      <4>1. md[m].parent = n /\ md[m].key = k
        BY <2>9
      <4>2. PICK i \in 1 .. len : s[i] = m
        BY <1>1, <2>3, <4>1 DEF TreeIsKids, s
      <4>3. i # o + 1
        BY <4>2
      <4>4. CASE i < o + 1
        <5>1. i \in 1 .. len - 1
          BY <3>1, <4>4
        <5>2. t[i] = m
          BY <2>4, <4>2, <4>4, <5>1
        <5> QED BY <2>7, <5>1, <5>2
      <4>5. CASE i > o + 1
        <5>1. i - 1 \in 1 .. len - 1 /\ ~ (i - 1 < o + 1) /\ (i - 1) + 1 = i
          BY <4>5
        <5>2. t[i - 1] = m
          BY <2>4, <4>2, <5>1
        <5> QED BY <2>7, <5>1, <5>2
      <4> QED BY <4>3, <4>4, <4>5
    <3> QED BY <2>8, <3>1, <3>3, <3>4
  <2> QED BY <2>8, <2>9, <2>10
<1> QED BY <1>3, <1>4

\* Deleting everything of a composite takes its own objects out of the tree.
LEMMA DeleteAllInTree ==
  ASSUME HeapInv, Rooted, HeapInv', Rooted', NEW n \in Node, deleteMetadataAll(n)
  PROVE  \A m \in InTree \ InTree' : md[m].parent = n
<1>1. TreeIsKids
  BY InTreeKids
<1>2. KidsInTree'
  <2>1. HeapInv' /\ Rooted' => KidsInTree' /\ TreeIsKids'
    BY InTreeKids, PTL
  <2> QED BY <2>1
<1> SUFFICES ASSUME NEW m \in InTree, md[m].parent # n PROVE m \in InTree'
  OBVIOUS
<1>3. \A a \in Node : a # n => kids'[a] = kids[a]
  BY DEF deleteMetadataAll, HeapInv, HeapType
<1> DEFINE a == md[m].parent
           b == md[m].key
           i == md[m].occurrence + 1
<1>4. a \in Node /\ b \in Key /\ i \in 1 .. Len(kids[a][b]) /\ kids[a][b][i] = m
  BY <1>1 DEF TreeIsKids
<1>5. kids'[a] = kids[a]
  BY <1>3, <1>4
<1> HIDE DEF a, b, i
<1> QED BY <1>2, <1>4, <1>5 DEF KidsInTree

\* What the objects are in the tree depends on the objects only.
LEMMA SameInTree ==
  ASSUME UNCHANGED heap
  PROVE  InTree' = InTree
  BY DEF heap, InTree, findMetadata

-----------------------------------------------------------------------------
\* The running call and its records

\* The path of the empty key, the wildcard alone, is a path.
LEMMA AllWildcardIsPath == AllWildcard \in Segment /\ <<AllWildcard>> \in Path
<1>1. AllWildcard \in Segment
  BY EmptySeq DEF AllWildcard, Segment, Occurrence
<1> HIDE DEF AllWildcard
<1> QED
  BY <1>1 DEF Path

\* A call is one of four operations on a composite, with a path.
LEMMA CallShapes ==
  ASSUME IInv, Call
  PROVE  \E n \in Composites(md, next), path \in Path, create \in BOOLEAN :
           \/ getMetadatum(n, path, create)
           \/ getMetadata(n, path, create)
           \/ deleteMetadata(n, path)
           \/ path = <<AllWildcard>> /\ deleteMetadataEverything(n)
<1>1. PICK n \in held :
        \/ \E create \in BOOLEAN :
             \/ \E path \in MdPaths : getMetadatum(n, path, create)
             \/ \E path \in GetPaths : getMetadata(n, path, create)
        \/ getMetadataEmptyKey(n)
        \/ \E path \in DeletePaths : deleteMetadata(n, path)
        \/ deleteMetadataEverything(n)
  BY DEF Call
<1>2. n \in Composites(md, next)
  BY DEF IInv
<1>3. MdPaths \subseteq Path /\ GetPaths \subseteq Path /\ DeletePaths \subseteq Path
  BY BoundAssumption DEF BoundAssumption
<1>4. <<AllWildcard>> \in Path
  BY AllWildcardIsPath
<1>5. CASE getMetadataEmptyKey(n)
  BY <1>2, <1>4, <1>5 DEF getMetadataEmptyKey
<1> QED
  BY <1>1, <1>2, <1>3, <1>4, <1>5

\* The same activation, further on in its loops.
Same(f, g) == g.fn = f.fn /\ g.node = f.node /\ g.seg = f.seg /\ g.rest = f.rest

\* The moves of a loop keep the activation: its function, its composite and its segments.
LEMMA MoveSame ==
  ASSUME NEW f \in Frame
  PROVE  /\ Same(f, NextOccurrence(f)) /\ Same(f, NextKey(f)) /\ Same(f, AfterBody(f))
         /\ \A c : Same(f, [f EXCEPT !.cur = c])
         /\ NextOccurrence(f).pos = f.pos
<1>1. Same(f, NextOccurrence(f)) /\ NextOccurrence(f).pos = f.pos
  BY DEF NextOccurrence, Same, Frame
<1>2. Same(f, NextKey(f))
  BY DEF NextKey, Same, Frame
<1>3. ASSUME NEW q PROVE Same(f, [NextOccurrence(f) EXCEPT !.pos = q])
  BY DEF NextOccurrence, Same, Frame
<1>4. Same(f, AfterBody(f))
  <2>1. Same(f, [f EXCEPT !.pos = f.pos + 1])
    BY DEF Same, Frame
  <2>2. AfterBody(f) \in {[f EXCEPT !.pos = f.pos + 1], [NextOccurrence(f) EXCEPT !.pos = 1],
                          NextOccurrence(f)}
    BY DEF AfterBody, Frame
  <2> QED BY <1>1, <1>3, <2>1, <2>2
<1>5. \A c : Same(f, [f EXCEPT !.cur = c])
  BY DEF Same, Frame
<1> QED BY <1>1, <1>2, <1>4, <1>5

\* The stacks a step can leave when the records of the stack are in a set that holds with
\* a record the same activation further on.
LEMMA StackMoves ==
  ASSUME HeapInv, stack \in Seq(Loops(md, next)), stack # <<>>,
         NEW G, stack \in Seq(G),
         \A f \in G : \A g \in Loops(md, next) : Same(f, g) => g \in G
  PROVE  /\ Top \in G /\ Pop \in Seq(G)
         /\ Replace(AfterBody(Top)) \in Seq(G) /\ Replace(NextOccurrence(Top)) \in Seq(G)
         /\ LoopsOverKeys(Top) => Replace(NextKey(Top)) \in Seq(G)
         /\ \A g \in G : Push(g) \in Seq(G) /\ Replace(g) \in Seq(G)
<1>1. /\ Top \in G /\ Tail(stack) \in Seq(G)
      /\ \A g \in G : Push(g) \in Seq(G) /\ Replace(g) \in Seq(G)
      /\ Len(stack) # 1 => /\ stack[2] \in G
                           /\ \A g \in G : <<g>> \o Tail(Tail(stack)) \in Seq(G)
  BY StackParts DEF Top, Push, Replace
<1>2. /\ Top \in Loops(md, next)
      /\ Len(stack) # 1 => stack[2] \in Loops(md, next)
  BY StackParts DEF Top
<1>3. ASSUME NEW f \in G, f \in Loops(md, next)
      PROVE  /\ AfterBody(f) \in G /\ NextOccurrence(f) \in G
             /\ LoopsOverKeys(f) => NextKey(f) \in G
  <2>1. f \in Located(md, next) /\ f.fn # "getMetadatum" /\ f \in Frame
    BY <1>3, LocatedParts DEF Loops
  <2>2. AfterBody(f) \in Loops(md, next)
    BY <2>1, AfterBodyLoops DEF Loops
  <2>3. NextOccurrence(f) \in Loops(md, next)
    BY <2>1, NextOccurrenceLocated DEF Loops
  <2>4. LoopsOverKeys(f) => NextKey(f) \in Loops(md, next)
    BY <1>3, NextKeyLoops
  <2> QED
    BY <1>3, <2>1, <2>2, <2>3, <2>4, MoveSame
<1>4. Pop \in Seq(G)
  <2>1. CASE Len(stack) = 1
    BY <2>1, EmptySeq DEF Pop
  <2>2. CASE Len(stack) # 1
    <3>1. PICK c \in G : c = stack[2] /\ c \in Loops(md, next)
      BY <1>1, <1>2, <2>2
    <3>2. PICK b : b = IF c.fn = "getUnder" THEN [c EXCEPT !.cur = Top.cur] ELSE c
      OBVIOUS
    <3>3. c \in Located(md, next) /\ c \in Frame /\ c.fn # "getMetadatum" /\ Top.cur \in Nat
      BY <1>2, <3>1, LocatedParts DEF Loops
    <3>4. b \in Frame /\ b.pos = c.pos /\ b.occ = c.occ
      BY <3>2, <3>3 DEF Frame
    <3>5. Same(c, b)
      <4>1. Same(c, c)
        BY DEF Same
      <4> QED BY <3>2, <3>3, <4>1, MoveSame
    <3>6. b \in Loops(md, next)
      <4>1. /\ c.fn = "getPath" /\ c.seg.kind = "single" =>
                 c.pos <= Len(Elements[md[c.node].key])
            /\ c.fn \in {"getPath", "getUnder"} /\ c.seg.occ.kind = "wildcard" => c.occ \in Nat
        BY <3>3, LocatedParts
      <4>2. b \in Located(md, next)
        BY <3>3, <3>4, <3>5, <4>1, MovedLocated DEF Same
      <4> QED BY <3>3, <3>5, <4>2 DEF Loops, Same
    <3>7. b \in G
      BY <3>1, <3>5, <3>6
    <3>8. AfterBody(b) \in G
      BY <1>3, <3>6, <3>7
    <3>9. Pop = <<AfterBody(b)>> \o Tail(Tail(stack))
      BY <2>2, <3>1, <3>2 DEF Pop
    <3> QED BY <1>1, <2>2, <3>8, <3>9
  <2> QED BY <2>1, <2>2
<1> QED BY <1>1, <1>2, <1>3, <1>4

\* Which records belong to which call.
FnsOf(op) ==
  {fn \in Fn : \/ op = "getMetadatum" /\ fn = "getMetadatum"
               \/ op = "getMetadata" /\ fn \in {"getPath", "getUnder"}
               \/ op = "deleteMetadata" /\ fn \in {"deletePath", "deleteWild"}}

\* The client is in one call at a time, on a composite, and the records are of that call.
CallInv ==
  /\ call.op \in {"none", "getMetadatum", "getMetadata", "deleteMetadata"}
  /\ call.op # "none" => call.path \in Path /\ call.node \in Composites(md, next)
  /\ stack \in Seq({f \in Frame : f.fn \in FnsOf(call.op)})

\* The record a call starts with is one of its own.
LEMMA CallKeepsCallInv ==
  ASSUME IInv, Call
  PROVE  CallInv'
<1>1. PICK n \in Composites(md, next), path \in Path, create \in BOOLEAN :
           \/ getMetadatum(n, path, create)
           \/ getMetadata(n, path, create)
           \/ deleteMetadata(n, path)
           \/ path = <<AllWildcard>> /\ deleteMetadataEverything(n)
  BY CallShapes
<1>2. md' = md /\ next' = next
  BY <1>1 DEF getMetadatum, getMetadata, deleteMetadata, deleteMetadataEverything,
              deleteMetadataAll, heap
<1>3. n \in Composites(md', next') /\ n \in Node
  BY <1>2 DEF Composites
<1>4. ASSUME NEW fn \in Fn
      PROVE  NewFrame(fn, n, path) \in Frame /\ NewFrame(fn, n, path).fn = fn
  BY <1>3, NewFrameType
<1>5. ASSUME NEW op, NEW b, Begin(op, n, path, b)
      PROVE  call'.op = op /\ call'.path = path /\ call'.node = n /\ stack = <<>>
  BY <1>5 DEF Begin
<1>6. CASE getMetadatum(n, path, create)
  <2>1. call'.op = "getMetadatum" /\ call'.path = path /\ call'.node = n
        /\ stack' = <<NewFrame("getMetadatum", n, path)>>
    BY <1>5, <1>6 DEF getMetadatum
  <2>2. NewFrame("getMetadatum", n, path) \in {f \in Frame : f.fn \in FnsOf(call'.op)}
    BY <1>4, <2>1 DEF FnsOf, Fn
  <2> QED BY <1>3, <2>1, <2>2 DEF CallInv
<1>7. CASE getMetadata(n, path, create)
  <2>1. call'.op = "getMetadata" /\ call'.path = path /\ call'.node = n
        /\ stack' = <<GetFrame(n, path)>>
    BY <1>5, <1>7 DEF getMetadata
  <2>2. GetFrame(n, path) \in {f \in Frame : f.fn \in FnsOf(call'.op)}
    BY <1>4, <2>1 DEF FnsOf, Fn, GetFrame
  <2> QED BY <1>3, <2>1, <2>2 DEF CallInv
<1>8. CASE deleteMetadata(n, path)
  <2>1. call'.op = "deleteMetadata" /\ call'.path = path /\ call'.node = n
        /\ stack' = <<DeleteFrame(n, path)>>
    BY <1>5, <1>8 DEF deleteMetadata
  <2>2. DeleteFrame(n, path) \in {f \in Frame : f.fn \in FnsOf(call'.op)}
    BY <1>4, <2>1 DEF FnsOf, Fn, DeleteFrame
  <2> QED BY <1>3, <2>1, <2>2 DEF CallInv
<1>9. CASE path = <<AllWildcard>> /\ deleteMetadataEverything(n)
  <2>1. call'.op = "deleteMetadata" /\ call'.path = path /\ call'.node = n
        /\ stack' = <<>>
    BY <1>5, <1>9 DEF deleteMetadataEverything
  <2>2. stack' \in Seq({f \in Frame : f.fn \in FnsOf(call'.op)})
    BY <2>1, EmptySeq
  <2> QED BY <1>3, <2>1, <2>2 DEF CallInv
<1> QED BY <1>1, <1>6, <1>7, <1>8, <1>9

\* While a call runs its records stay of its kind.
LEMMA StepKeepsCallInv ==
  ASSUME IInv, CallInv, Step
  PROVE  CallInv'
<1>1. HeapInv /\ StackInv
  BY DEF IInv
<1>2. stack # <<>> /\ call' = call
  BY DEF Step, Return, SkipKey, GetMetadatumLevel, GetOccurrence, DeleteNamed,
         DeleteDescend, DeleteWildcard, Running
<1> DEFINE G == {f \in Frame : f.fn \in FnsOf(call.op)}
<1>3. stack \in Seq(G)
  BY DEF CallInv
<1>4. Composites(md, next) \subseteq Composites(md', next')
  <2>1. HeapInv' /\ Next
    <3>1. Next
      BY DEF Next
    <3> QED BY <3>1, NextKeepsIInv DEF IInv
  <2>2. next <= next' /\ \A m \in 0 .. next - 1 : md'[m].key = md[m].key
    <3>1. next \in Nat /\ MaxNode \in Nat /\ next <= MaxNode + 1 /\ next <= next
      BY <1>1, BoundAssumption DEF HeapInv, HeapType, BoundAssumption
    <3>2. \A m \in 0 .. next - 1 : m \in Node
      BY <3>1 DEF Node
    <3>3. CASE UNCHANGED heap
      BY <3>1, <3>3 DEF heap
    <3>4. ASSUME NEW n \in 0 .. next - 1, NEW k \in Key, NEW o \in Nat, NEW create \in BOOLEAN,
                 CreateMissing(n, k, o, create)
          PROVE  next <= next' /\ \A m \in 0 .. next - 1 : md'[m].key = md[m].key
      <4>1. HeapInv' /\ next <= next' /\ \A m \in 0 .. next - 1 : md'[m] = md[m]
        BY <1>1, <3>4, CreateKeepsHeap
      <4> QED BY <4>1
    <3>5. ASSUME NEW n \in Node, NEW k \in Key, NEW o \in Nat, deleteMetadatum(n, k, o)
          PROVE  next <= next' /\ \A m \in 0 .. next - 1 : md'[m].key = md[m].key
      BY <1>1, <3>1, <3>2, <3>5, DeleteKeepsHeap
    <3>6. ASSUME NEW n \in Node, deleteMetadataAll(n)
          PROVE  next <= next' /\ \A m \in 0 .. next - 1 : md'[m].key = md[m].key
      BY <3>1, <3>6 DEF deleteMetadataAll
    <3> QED BY <2>1, <3>3, <3>4, <3>5, <3>6, StepShapes
  <2> QED BY <1>1, <2>1, <2>2, HeapGrows
<1>5. stack' \in Seq(G)
  <2>1. CASE Top.fn = "getMetadatum"
    <3>1. GetMetadatumLevel
      BY <2>1 DEF Step, Return, FrameDone, LoopsOverKeys, SkipKey, GetOccurrence, DeleteNamed,
                  DeleteDescend, DeleteWildcard, Running
    <3>2. stack = <<Top>> /\ Tail(stack) = <<>>
      <4>1. stack = <<Top>>
        BY <1>1, <1>2, <2>1, StackOfLoops
      <4>2. PICK f : stack = <<f>>
        BY <4>1
      <4> QED BY <4>1, <4>2
    <3>3. Top \in G
      BY <1>2, <1>3, StackParts DEF Top
    <3>4. CASE stack' = Tail(stack)
      BY <3>2, <3>4, EmptySeq
    <3>5. CASE stack' # Tail(stack)
      <4> DEFINE a == Answer(Top.node, Top.seg.key, Top.occ, call.create)
      <4>1. /\ stack' = Replace(NewFrame("getMetadatum", a, Top.rest))
        BY <3>1, <3>5 DEF GetMetadatumLevel
      <4>2. stack' = <<NewFrame("getMetadatum", a, Top.rest)>>
        BY <3>2, <4>1 DEF Replace
      <4>3. NewFrame("getMetadatum", a, Top.rest) \in Frame
        <5>1. Next
          BY DEF Next
        <5>2. IInv'
          BY <5>1, NextKeepsIInv
        <5>3. StackInv' /\ stack' # <<>> /\ Head(stack') = NewFrame("getMetadatum", a, Top.rest)
          BY <4>2, <5>2 DEF IInv
        <5> HIDE DEF a
        <5>4. stack' \in Seq(Loops(md', next')) => Head(stack') \in Frame
          <6>1. SUFFICES ASSUME stack' \in Seq(Loops(md', next')) PROVE Head(stack') \in Frame
            OBVIOUS
          <6>2. Head(stack') \in Loops(md', next')
            BY <5>3, <6>1, StackParts
          <6> QED BY <6>2 DEF Loops, Located
        <5>5. (\E f \in Located(md', next') : stack' = <<f>>) => Head(stack') \in Frame
          BY DEF Located
        <5> QED BY <5>3, <5>4, <5>5 DEF StackInv
      <4>4. NewFrame("getMetadatum", a, Top.rest).fn = Top.fn
        BY <2>1 DEF NewFrame
      <4>5. NewFrame("getMetadatum", a, Top.rest) \in G
        BY <3>3, <4>3, <4>4
      <4> QED BY <4>2, <4>5
    <3> QED BY <3>4, <3>5
  <2>2. CASE Top.fn # "getMetadatum"
    <3>1. stack \in Seq(Loops(md, next)) /\ Top \in Loops(md, next)
      BY <1>1, <1>2, <2>2, StackOfLoops
    <3>2. \A f \in G : \A g \in Loops(md, next) : Same(f, g) => g \in G
      BY DEF Same, Loops, Located
    <3>3. /\ Top \in G /\ Pop \in Seq(G)
          /\ Replace(AfterBody(Top)) \in Seq(G) /\ Replace(NextOccurrence(Top)) \in Seq(G)
          /\ LoopsOverKeys(Top) => Replace(NextKey(Top)) \in Seq(G)
          /\ \A g \in G : Push(g) \in Seq(G)
      <4> HIDE DEF G
      <4> QED BY <1>1, <1>2, <1>3, <3>1, <3>2, StackMoves
    <3>4. CASE GetOccurrence
      <4> DEFINE a == Answer(Top.node, FrameKey(Top), Top.occ, call.create)
      <4>1. Top.fn \in {"getPath", "getUnder"}
        BY <3>4 DEF GetOccurrence, Running
      <4>2. \/ stack' = Push(UnderFrame(a, Top)) /\ Top.fn = "getUnder"
            \/ stack' = Push(GetFrame(a, Top.rest))
            \/ stack' = Replace(AfterBody(Top))
        BY <3>4 DEF GetOccurrence
      <4> HIDE DEF a
      <4>3. \A f : stack' = Push(f) => f \in Frame
        <5> SUFFICES ASSUME NEW f, stack' = Push(f) PROVE f \in Frame
          OBVIOUS
        <5>1. IInv'
          <6>1. Next
            BY DEF Next
          <6> QED BY <6>1, NextKeepsIInv
        <5>2. stack' # <<>> /\ Head(stack') = f /\ Len(stack') > 1
          BY <1>2, <3>1 DEF Push
        <5>3. stack' \in Seq(Loops(md', next'))
          <6>2. ASSUME NEW g, stack' = <<g>> PROVE FALSE
            <7>1. Len(stack') = 1
              BY <6>2
            <7> QED BY <5>2, <7>1
          <6> QED BY <5>1, <6>2 DEF IInv, StackInv
        <5>4. f \in Loops(md', next')
          BY <5>2, <5>3, StackParts
        <5> QED BY <5>4 DEF Loops, Located
      <4>4. {"getPath", "getUnder"} \subseteq FnsOf(call.op)
        BY <3>3, <4>1 DEF FnsOf, Fn
      <4>5. \A n, path : GetFrame(n, path).fn \in {"getPath", "getUnder"}
        BY DEF GetFrame, NewFrame
      <4>6. \A n : UnderFrame(n, Top).fn = Top.fn
        BY <3>3 DEF UnderFrame, Frame
      <4> QED BY <3>3, <4>1, <4>2, <4>3, <4>4, <4>5, <4>6
    <3>5. CASE DeleteDescend
      <4> DEFINE c == findMetadata(Top.node, Top.seg.key, Top.occ)
      <4>1. Top.fn = "deletePath" /\ (stack' = Push(DeleteFrame(c, Top.rest)) \/ stack' = Pop)
        BY <3>5 DEF DeleteDescend, Running
      <4> HIDE DEF c
      <4>2. stack' = Push(DeleteFrame(c, Top.rest)) => DeleteFrame(c, Top.rest) \in Frame
        <5> SUFFICES ASSUME stack' = Push(DeleteFrame(c, Top.rest)) PROVE DeleteFrame(c, Top.rest) \in Frame
          OBVIOUS
        <5> DEFINE f == DeleteFrame(c, Top.rest)
        <5>1. IInv'
          <6>1. Next
            BY DEF Next
          <6> QED BY <6>1, NextKeepsIInv
        <5> HIDE DEF f
        <5>2. stack' # <<>> /\ Head(stack') = f /\ Len(stack') > 1
          BY <1>2, <3>1 DEF Push, f
        <5>3. stack' \in Seq(Loops(md', next'))
          <6>2. ASSUME NEW g, stack' = <<g>> PROVE FALSE
            <7>1. Len(stack') = 1
              BY <6>2
            <7> QED BY <5>2, <7>1
          <6> QED BY <5>1, <6>2 DEF IInv, StackInv
        <5>4. f \in Loops(md', next')
          BY <5>2, <5>3, StackParts
        <5> QED BY <5>4 DEF Loops, Located, f
      <4>3. {"deletePath", "deleteWild"} \subseteq FnsOf(call.op)
        BY <3>3, <4>1 DEF FnsOf, Fn
      <4>4. \A n, path : DeleteFrame(n, path).fn \in {"deletePath", "deleteWild"}
        BY DEF DeleteFrame, NewFrame
      <4> QED BY <3>3, <4>1, <4>2, <4>3, <4>4
    <3>6. CASE Return \/ SkipKey \/ DeleteNamed \/ DeleteWildcard
      BY <3>3, <3>6 DEF Return, SkipKey, DeleteNamed, DeleteWildcard
    <3>7. ~ GetMetadatumLevel
      BY <2>2 DEF GetMetadatumLevel, Running
    <3> QED BY <3>4, <3>5, <3>6, <3>7 DEF Step
  <2> QED BY <2>1, <2>2
<1> QED BY <1>2, <1>4, <1>5 DEF CallInv

\* One call at a time, in every behaviour.
LEMMA CallInvAlways == Spec => [](IInv /\ Rooted /\ CallInv)
<1>1. Init => CallInv
  BY EmptySeq DEF Init, CallInv
<1>2. IInv /\ CallInv /\ [Next]_vars => CallInv'
  <2>1. UNCHANGED vars /\ CallInv => CallInv'
    BY DEF vars, CallInv, Composites
  <2> QED BY <2>1, CallKeepsCallInv, StepKeepsCallInv DEF Next
<1> QED
  BY <1>1, <1>2, Invariance, RootedAlways, PTL DEF Spec

-----------------------------------------------------------------------------
\* What a path without wildcards finds

\* The objects from n to what the path names, as far as they exist.
IsWalk(W, n, path) ==
  /\ W \in [0 .. Len(path) -> Node \cup {None}]
  /\ W[0] = n
  /\ \A i \in 1 .. Len(path) :
       W[i] = IF W[i - 1] = None THEN None
              ELSE findMetadata(W[i - 1], path[i].key, Start(path[i].occ))

FindIsWalk ==
  \A n \in Node, path \in Path :
    Exact(path) => \E W : IsWalk(W, n, path) /\ Find(n, path) = W[Len(path)]

\* A segment of such a path names one occurrence of one key.
LEMMA ExactParts ==
  ASSUME NEW path \in Path, Exact(path)
  PROVE  /\ Len(path) \in Nat /\ Len(path) > 0
         /\ \A i \in 1 .. Len(path) :
              /\ path[i] \in Segment /\ path[i].kind = "key" /\ path[i].key \in Key
              /\ path[i].occ \in Occurrence /\ Start(path[i].occ) \in Nat
<1>1. path \in Seq(Segment) /\ path # <<>>
  BY DEF Path
<1>2. Len(path) \in Nat /\ Len(path) > 0 /\ DOMAIN path = 1 .. Len(path)
  BY <1>1, EmptySeq, LenProperties
<1>3. ASSUME NEW i \in 1 .. Len(path)
      PROVE  /\ path[i] \in Segment /\ path[i].kind = "key" /\ path[i].key \in Key
             /\ path[i].occ \in Occurrence /\ Start(path[i].occ) \in Nat
  <2>1. path[i] \in Segment
    BY <1>1, ElementOfSeq
  <2>2. path[i].kind = "key" /\ SingleOccurrence(path[i].occ)
    BY <1>2 DEF Exact
  <2> QED BY <2>1, <2>2, SegmentParts, OccurrenceValues
<1> QED BY <1>2, <1>3

\* Looking up an occurrence gives an object or nothing.
LEMMA FindMetadataType ==
  ASSUME HeapInv, NEW n \in Node, NEW k \in Key, NEW o \in Nat
  PROVE  findMetadata(n, k, o) \in Node \cup {None}
<1>1. findMetadata(n, k, o) # None => findMetadata(n, k, o) \in 1 .. next - 1
  BY FindMetadataKind
<1>2. next \in Nat /\ MaxNode \in Nat /\ next <= MaxNode + 1
  BY BoundAssumption DEF HeapInv, HeapType, BoundAssumption
<1>3. \A m \in 1 .. next - 1 : m \in Node
  BY <1>2 DEF Node
<1> QED BY <1>1, <1>3

\* What Find answers is the end of the walk: the function it is defined with exists, and
\* takes no other steps.
LEMMA FindWalks == HeapInv => FindIsWalk
<1> SUFFICES ASSUME HeapInv, NEW n \in Node, NEW path \in Path, Exact(path)
             PROVE  \E W : IsWalk(W, n, path) /\ Find(n, path) = W[Len(path)]
  BY DEF FindIsWalk
<1> DEFINE L == Len(path)
           S == Node \cup {None}
           Step1(i, x) == IF x = None THEN None
                          ELSE findMetadata(x, path[i].key, Start(path[i].occ))
           turn == [i \in 1 .. L |-> [x \in S |-> Step1(i, x)]]
           Rec(f) == [i \in 0 .. L |->
                        IF i = 0 THEN n
                        ELSE IF f[i - 1] = None THEN None
                        ELSE findMetadata(f[i - 1], path[i].key, Start(path[i].occ))]
           F == CHOOSE f : f = Rec(f)
<1>1. L \in Nat /\ \A i \in 1 .. L : path[i].key \in Key /\ Start(path[i].occ) \in Nat
  BY ExactParts
<1>2. \A i \in 1 .. L, x \in S : Step1(i, x) \in S
  BY <1>1, FindMetadataType
<1>3. turn \in [1 .. L -> [S -> S]] /\ \A i \in 1 .. L, x \in S : turn[i][x] = Step1(i, x)
  <2> HIDE DEF Step1, S
  <2> QED BY <1>2
<1>4. n \in S
  OBVIOUS
<1> HIDE DEF S, turn
<1>5. PICK f : IsRun(f, S, L, n, turn)
  <2> HIDE DEF L
  <2> QED BY <1>1, <1>3, <1>4, RunExists
<1>6. f \in [0 .. L -> S] /\ f[0] = n /\ \A i \in 1 .. L : f[i] = turn[i][f[i - 1]]
  BY <1>5 DEF IsRun
<1>7. f = Rec(f)
  <2>1. ASSUME NEW i \in 0 .. L PROVE f[i] = Rec(f)[i]
    <3>1. CASE i = 0
      BY <1>6, <3>1
    <3>2. CASE i # 0
      <4>1. i \in 1 .. L /\ i - 1 \in 0 .. L
        BY <1>1, <3>2
      <4>2. f[i - 1] \in S
        BY <1>6, <4>1
      <4>3. f[i] = Step1(i, f[i - 1])
        BY <1>3, <1>6, <4>1, <4>2
      <4> QED BY <3>2, <4>3
    <3> QED BY <3>1, <3>2
  <2>2. DOMAIN f = 0 .. L /\ f = [i \in DOMAIN f |-> f[i]]
    BY <1>6
  <2> QED BY <2>1, <2>2
<1>8. F = Rec(F)
  <2> HIDE DEF Rec
  <2> QED BY <1>7
<1>9. Find(n, path) = F[L]
  BY DEF Find
<1> HIDE DEF F
<1>10. F[0] = n /\ \A i \in 1 .. L : F[i] = Step1(i, F[i - 1])
  <2>1. F[0] = Rec(F)[0] /\ \A i \in 1 .. L : F[i] = Rec(F)[i]
    BY <1>8
  <2>2. Rec(F)[0] = n
    BY <1>1
  <2>3. ASSUME NEW i \in 1 .. L PROVE Rec(F)[i] = Step1(i, F[i - 1])
    BY <1>1
  <2> QED BY <2>1, <2>2, <2>3
<1>11. \A i \in 0 .. L : F[i] \in S
  <2>1. F[0] \in S /\ \A i \in 1 .. L : F[i - 1] \in S => F[i] = turn[i][F[i - 1]]
    BY <1>3, <1>4, <1>10
  <2> HIDE DEF L, Step1
  <2> QED BY <1>1, <1>3, <2>1, RunStays
<1>12. F \in [0 .. L -> S]
  <2>1. F = [i \in 0 .. L |-> Rec(F)[i]]
    BY <1>8
  <2>2. \A i \in 0 .. L : Rec(F)[i] = F[i]
    BY <1>8
  <2> HIDE DEF Rec, L
  <2>3. F = [i \in 0 .. L |-> F[i]]
    BY <2>1, <2>2
  <2> QED BY <1>11, <2>3
<1>13. IsWalk(F, n, path)
  BY <1>10, <1>12 DEF IsWalk, S
<1> QED BY <1>9, <1>13

\* A walk that has ended in nothing stays there.
LEMMA WalkEnds ==
  ASSUME NEW path \in Path, Exact(path), NEW W, NEW n, IsWalk(W, n, path),
         NEW i \in 0 .. Len(path), W[i] = None
  PROVE  \A j \in i .. Len(path) : W[j] = None
<1> DEFINE P == {d \in Nat : i + d <= Len(path) => W[i + d] = None}
<1>1. Len(path) \in Nat
  BY ExactParts
<1>2. 0 \in P
  BY <1>1
<1>3. ASSUME NEW d \in Nat, d \in P PROVE d + 1 \in P
  <2> SUFFICES ASSUME i + (d + 1) <= Len(path) PROVE W[i + (d + 1)] = None
    OBVIOUS
  <2>1. W[i + d] = None
    BY <1>1, <1>3
  <2>2. i + (d + 1) \in 1 .. Len(path) /\ (i + (d + 1)) - 1 = i + d
    BY <1>1
  <2> QED BY <2>1, <2>2 DEF IsWalk
<1>4. Nat \subseteq P
  <2> HIDE DEF P
  <2> QED BY <1>2, <1>3, SetInduction
<1>5. ASSUME NEW j \in i .. Len(path) PROVE W[j] = None
  <2>1. j - i \in Nat /\ i + (j - i) = j /\ j <= Len(path)
    BY <1>1
  <2> QED BY <1>4, <2>1
<1> QED BY <1>5

\* Objects that a lookup finds are still found.
FoundStays ==
  \A a \in Node, b \in Key, o \in Nat :
    findMetadata(a, b, o) # None => findMetadata(a, b, o)' = findMetadata(a, b, o)

\* A walk takes the same steps when objects have been added.
LEMMA WalkStays ==
  ASSUME FoundStays, NEW path \in Path, Exact(path),
         NEW n, NEW V, NEW W, IsWalk(W, n, path),
         V[0] = n,
         \A i \in 1 .. Len(path) :
           V[i] = IF V[i - 1] = None THEN None
                  ELSE findMetadata(V[i - 1], path[i].key, Start(path[i].occ))'
  PROVE  \A j \in 0 .. Len(path) : W[j] # None => V[j] = W[j]
<1> DEFINE P == {j \in Nat : j <= Len(path) /\ W[j] # None => V[j] = W[j]}
<1>1. Len(path) \in Nat /\ \A i \in 1 .. Len(path) : path[i].key \in Key /\ Start(path[i].occ) \in Nat
  BY ExactParts
<1>2. 0 \in P
  BY DEF IsWalk
<1>3. ASSUME NEW j \in Nat, j \in P PROVE j + 1 \in P
  <2> SUFFICES ASSUME j + 1 <= Len(path), W[j + 1] # None PROVE V[j + 1] = W[j + 1]
    OBVIOUS
  <2>1. j + 1 \in 1 .. Len(path) /\ (j + 1) - 1 = j /\ j <= Len(path) /\ j \in 0 .. Len(path)
    BY <1>1
  <2>2. W[j + 1] = IF W[j] = None THEN None
                   ELSE findMetadata(W[j], path[j + 1].key, Start(path[j + 1].occ))
    BY <2>1 DEF IsWalk
  <2>3. W[j] # None /\ W[j] \in Node
    BY <2>1, <2>2 DEF IsWalk
  <2>4. V[j] = W[j]
    BY <1>3, <2>1, <2>3
  <2>5. V[j + 1] = findMetadata(V[j], path[j + 1].key, Start(path[j + 1].occ))'
    BY <2>1, <2>3, <2>4
  <2>6. findMetadata(W[j], path[j + 1].key, Start(path[j + 1].occ))' 
          = findMetadata(W[j], path[j + 1].key, Start(path[j + 1].occ))
    BY <1>1, <2>1, <2>2, <2>3 DEF FoundStays
  <2> QED BY <2>2, <2>3, <2>4, <2>5, <2>6 DEF findMetadata
<1>4. Nat \subseteq P
  <2> HIDE DEF P
  <2> QED BY <1>2, <1>3, SetInduction
<1> QED BY <1>1, <1>4

\* Creating takes nothing away, and what it answers is found from then on; it answers
\* nothing when nothing is there, nor will be unless the factory gave out.
LEMMA CreateFinds ==
  ASSUME HeapInv,
         NEW n \in 0 .. next - 1, NEW k \in Key, NEW o \in Nat, NEW create \in BOOLEAN,
         CreateMissing(n, k, o, create)
  PROVE  /\ FoundStays
         /\ Answer(n, k, o, create) # None =>
              findMetadata(n, k, o)' = Answer(n, k, o, create)
         /\ Answer(n, k, o, create) = None =>
              /\ findMetadata(n, k, o) = None
              /\ findMetadata(n, k, o)' = None \/ next' > MaxNode
<1>1. next \in Nat /\ MaxNode \in Nat /\ next <= MaxNode + 1 /\ next >= 1
  BY BoundAssumption DEF HeapInv, HeapType, BoundAssumption
<1>2. n \in Node
  BY <1>1 DEF Node
<1>3. PICK len \in Nat : len = Len(kids[n][k])
  <2>1. Len(kids[n][k]) \in Nat
    BY <1>2, LenProperties DEF HeapInv, HeapType
  <2> QED BY <2>1, Zenon
<1>4. PICK miss \in Nat : miss = Missing(n, k, o, create)
  BY <1>2, MissingRange, Zenon
<1>5. Supply \in Nat /\ Supply = MaxNode + 1 - next
  BY <1>1 DEF Supply
<1>6. PICK d \in Nat : d = IF miss < Supply THEN miss ELSE Supply
  BY <1>4, <1>5
<1>7. d = Min2(Missing(n, k, o, create), Supply)
  BY <1>4, <1>6 DEF Min2
<1>8. Extended(n, k, len, d)
  BY <1>3, <1>7, CreateShape, ZenonT(40)
<1>9. /\ next' = next + d
      /\ \A a \in Node, b \in Key : a # n \/ b # k => kids'[a][b] = kids[a][b]
      /\ Len(kids'[n][k]) = len + d
      /\ \A i \in 1 .. len + d :
           kids'[n][k][i] = IF i <= len THEN kids[n][k][i] ELSE next + (i - len) - 1
  BY <1>8 DEF Extended
<1>10. ASSUME NEW a \in Node, NEW b \in Key, NEW c \in Nat, findMetadata(a, b, c) # None
       PROVE  findMetadata(a, b, c)' = findMetadata(a, b, c)
  <2>1. CASE a # n \/ b # k
    <3>1. kids'[a][b] = kids[a][b]
      BY <1>9, <2>1
    <3> QED BY <3>1 DEF findMetadata
  <2>2. CASE a = n /\ b = k
    <3>1. c < len /\ findMetadata(a, b, c) = kids[n][k][c + 1]
      BY <1>3, <1>10, <2>2 DEF findMetadata
    <3>2. c + 1 \in 1 .. len + d /\ c + 1 <= len /\ c < len + d
      BY <3>1
    <3>3. kids'[n][k][c + 1] = kids[n][k][c + 1]
      BY <1>9, <3>2
    <3> QED BY <1>9, <2>2, <3>1, <3>2, <3>3 DEF findMetadata
  <2> QED BY <2>1, <2>2
<1>11. CASE miss = 0
  <2>1. Answer(n, k, o, create) = findMetadata(n, k, o) /\ d = 0
    BY <1>4, <1>5, <1>6, <1>11 DEF Answer
  <2>2. findMetadata(n, k, o) = None => findMetadata(n, k, o)' = None
    <3> SUFFICES ASSUME findMetadata(n, k, o) = None PROVE findMetadata(n, k, o)' = None
      OBVIOUS
    <3>1. o >= len
      BY <1>2, <1>3, FindMetadataKind
    <3>2. ~ o < Len(kids'[n][k])
      BY <1>9, <2>1, <3>1
    <3> QED BY <3>2 DEF findMetadata
  <2> QED BY <1>2, <1>10, <2>1, <2>2 DEF FoundStays
<1>12. CASE miss # 0
  <2>1. miss > 0 /\ o >= len /\ len + miss >= o + 1
    <3>1. miss > 0
      BY <1>4, <1>12
    <3> QED BY <1>2, <1>3, <1>4, <3>1, MissingRange
  <2>2. findMetadata(n, k, o) = None
    BY <1>3, <2>1 DEF findMetadata
  <2>3. CASE miss <= Supply
    <3>1. Answer(n, k, o, create) = next + (o - len) /\ d = miss
      BY <1>3, <1>4, <1>5, <1>6, <1>12, <2>3 DEF Answer
    <3>2. o + 1 \in 1 .. len + d /\ ~ o + 1 <= len /\ o < len + d
      BY <2>1, <3>1
    <3>3. kids'[n][k][o + 1] = next + ((o + 1) - len) - 1
      BY <1>9, <3>2
    <3>4. next + ((o + 1) - len) - 1 = next + (o - len) /\ next + (o - len) # None
      BY <1>1, <2>1, <1>3 DEF None
    <3>5. findMetadata(n, k, o)' = kids'[n][k][o + 1]
      BY <1>9, <3>2 DEF findMetadata
    <3> QED BY <1>10, <3>1, <3>3, <3>4, <3>5 DEF FoundStays
  <2>4. CASE ~ miss <= Supply
    <3>1. Answer(n, k, o, create) = None /\ d = Supply
      BY <1>4, <1>5, <1>6, <1>12, <2>4 DEF Answer
    <3>2. next' = MaxNode + 1
      BY <1>1, <1>5, <1>9, <3>1
    <3> QED BY <1>1, <1>10, <2>2, <3>1, <3>2 DEF FoundStays
  <2> QED BY <2>3, <2>4
<1> QED BY <1>11, <1>12

\* The record stands at segment i + 1 of the path.
At(f, path, i) ==
  /\ i \in Nat /\ i < Len(path) /\ f.seg = path[i + 1]
  /\ Len(f.rest) = Len(path) - i - 1
  /\ \A j \in 1 .. Len(f.rest) : f.rest[j] = path[i + 1 + j]

\* A new activation stands at the first segment of its path.
LEMMA NewFrameAt ==
  ASSUME NEW path \in Path, NEW fn, NEW n
  PROVE  At(NewFrame(fn, n, path), path, 0)
<1>1. path \in Seq(Segment) /\ path # <<>>
  BY DEF Path
<1>2. Len(path) \in Nat /\ Len(path) > 0
  BY <1>1, EmptySeq, LenProperties
<1>3. Head(path) = path[1] /\ Len(Tail(path)) = Len(path) - 1
  BY <1>1, HeadTailProperties
<1>4. \A j \in 1 .. Len(path) - 1 : Tail(path)[j] = path[j + 1]
  BY <1>1
<1> QED BY <1>2, <1>3, <1>4 DEF At, NewFrame

\* The record for the rest of the path stands at the next segment.
LEMMA NextFrameAt ==
  ASSUME NEW path \in Path, NEW f, f.rest \in Seq(Segment), f.rest # <<>>,
         NEW i, At(f, path, i), NEW fn, NEW n
  PROVE  At(NewFrame(fn, n, f.rest), path, i + 1)
<1>1. path \in Seq(Segment) /\ Len(path) \in Nat
  BY LenProperties DEF Path
<1>2. f.rest \in Path
  BY DEF Path
<1> DEFINE g == NewFrame(fn, n, f.rest)
<1>3. At(g, f.rest, 0)
  BY <1>2, NewFrameAt
<1> HIDE DEF g
<1>4. /\ i \in Nat /\ Len(f.rest) = Len(path) - i - 1 /\ Len(f.rest) > 0
      /\ \A j \in 1 .. Len(f.rest) : f.rest[j] = path[i + 1 + j]
  BY <1>3 DEF At
<1>5. g.seg = path[(i + 1) + 1]
  BY <1>3, <1>4 DEF At
<1>6. Len(g.rest) = Len(path) - (i + 1) - 1
  BY <1>1, <1>3, <1>4 DEF At
<1>7. ASSUME NEW j \in 1 .. Len(g.rest)
      PROVE  g.rest[j] = path[(i + 1) + 1 + j]
  <2>1. g.rest[j] = f.rest[0 + 1 + j] /\ Len(g.rest) = Len(f.rest) - 0 - 1
    BY <1>3 DEF At
  <2>2. j + 1 \in 1 .. Len(f.rest) /\ 0 + 1 + j = j + 1
    BY <1>4, <2>1
  <2>3. f.rest[j + 1] = path[i + 1 + (j + 1)]
    BY <1>4, <2>2
  <2> QED BY <1>4, <2>1, <2>2, <2>3
<1>8. i + 1 \in Nat /\ i + 1 < Len(path)
  BY <1>1, <1>4
<1> QED BY <1>5, <1>6, <1>7, <1>8 DEF At, g

\* There is one walk along a path: it ends at what Find answers.
LEMMA FindIs ==
  ASSUME HeapInv, NEW n \in Node, NEW path \in Path, Exact(path),
         NEW W, IsWalk(W, n, path)
  PROVE  Find(n, path) = W[Len(path)]
<1> DEFINE L == Len(path)
<1>1. L \in Nat
  BY ExactParts
<1>2. PICK U : IsWalk(U, n, path) /\ Find(n, path) = U[L]
  BY FindWalks DEF FindIsWalk
<1> DEFINE P == {j \in Nat : j <= L => U[j] = W[j]}
<1>3. 0 \in P
  BY <1>2 DEF IsWalk
<1>4. ASSUME NEW j \in Nat, j \in P PROVE j + 1 \in P
  <2> SUFFICES ASSUME j + 1 <= L PROVE U[j + 1] = W[j + 1]
    OBVIOUS
  <2>1. j + 1 \in 1 .. L /\ (j + 1) - 1 = j /\ U[j] = W[j]
    BY <1>1, <1>4
  <2> QED BY <1>2, <2>1 DEF IsWalk
<1>5. Nat \subseteq P
  <2> HIDE DEF P
  <2> QED BY <1>3, <1>4, SetInduction
<1> QED BY <1>1, <1>2, <1>5

-----------------------------------------------------------------------------
\* getMetadatum

\* While getMetadatum runs on a path without wildcards its record stands where the walk
\* along the path has led so far, and what the path named at the call is still named.
Walking(f) ==
  \E i \in 0 .. Len(call.path) - 1 :
    /\ At(f, call.path, i)
    /\ \E W : IsWalk(W, call.node, call.path) /\ f.node = W[i]

GetInv ==
  /\ call.op = "getMetadatum" /\ stack # <<>> /\ Exact(call.path) =>
       /\ Walking(Top)
       /\ call.target # None => Find(call.node, call.path) = call.target
  /\ GetMetadatumFindsPath

\* A level answers what the path names, or goes on at the next segment.
LEMMA LevelKeepsGetInv ==
  ASSUME IInv, Rooted, CallInv, IInv', Rooted', GetInv, GetMetadatumLevel
  PROVE  GetInv'
<1>0. PICK f, n, path, k, a :
        /\ f = Top /\ n = call.node /\ path = call.path /\ k = f.seg.key
        /\ a = Answer(f.node, k, f.occ, call.create)
  OBVIOUS
<1> DEFINE L == Len(path)
<1>1. stack # <<>> /\ f.fn = "getMetadatum" /\ call' = call
  BY <1>0 DEF GetMetadatumLevel, Running
<1>2. HeapInv /\ StackInv /\ HeapInv' /\ call.create \in BOOLEAN
  BY DEF IInv
<1>3. f \in Located(md, next) /\ stack = <<f>>
  BY <1>0, <1>1, <1>2, StackOfLoops
<1>4. Tail(stack) = <<>>
  BY <1>3
<1>5. call.op = "getMetadatum" /\ path \in Path /\ n \in Node
  <2>1. stack \in Seq({g \in Frame : g.fn \in FnsOf(call.op)})
    BY DEF CallInv
  <2>2. f \in {g \in Frame : g.fn \in FnsOf(call.op)}
    BY <1>0, <1>1, <2>1, StackParts DEF Top
  <2>3. call.op = "getMetadatum"
    BY <1>1, <2>2 DEF FnsOf
  <2> QED BY <1>0, <2>3 DEF CallInv, Composites
<1>6. CASE ~ Exact(path)
  BY <1>0, <1>1, <1>6 DEF GetInv, GetMetadatumFindsPath
<1>7. CASE Exact(path)
  <2>1. PICK i, W : i \in 0 .. L - 1 /\ At(f, path, i) /\ IsWalk(W, n, path) /\ f.node = W[i]
    BY <1>0, <1>1, <1>5, <1>7 DEF GetInv, Walking
  <2>2. L \in Nat /\ L > 0 /\ \A j \in 1 .. L :
              /\ path[j] \in Segment /\ path[j].kind = "key" /\ path[j].key \in Key
              /\ path[j].occ \in Occurrence /\ Start(path[j].occ) \in Nat
    BY <1>5, <1>7, ExactParts
  <2>3. i \in Nat /\ i + 1 \in 1 .. L /\ i \in 0 .. L /\ i + 1 \in 0 .. L /\ (i + 1) - 1 = i
    <3>1. i \in 0 .. L - 1
      BY <2>1
    <3> HIDE DEF L
    <3> QED BY <2>2, <3>1
  <2>4. f.seg = path[i + 1] /\ Len(f.rest) = L - i - 1
    BY <2>1 DEF At
  <2>5. Exact(<<f.seg>>)
    <3>1. f.seg.kind = "key" /\ SingleOccurrence(f.seg.occ)
      <4>1. path \in Seq(Segment)
        BY <1>5 DEF Path
      <4>2. i + 1 \in DOMAIN path
        BY <2>3, <4>1, LenProperties
      <4> QED BY <1>7, <2>4, <4>2 DEF Exact
    <3> QED BY <3>1 DEF Exact
  <2>6. /\ f.node \in Node /\ f.node < next /\ f.occ = Start(f.seg.occ)
        /\ f.rest \in Seq(Segment) /\ k \in Key /\ f.occ \in Nat
    BY <1>0, <1>1, <1>3, <2>2, <2>3, <2>4, LocatedParts
  <2>7. f.node \in 0 .. next - 1
    BY <1>2, <2>6, ExistsBelow
  <2>8. /\ CreateMissing(f.node, k, f.occ, call.create)
        /\ IF f.rest # <<>> /\ a # None /\ IsComposite(k)
           THEN stack' = Replace(NewFrame("getMetadatum", a, f.rest))
           ELSE /\ stack' = Tail(stack)
                /\ ret' = IF f.rest = <<>> THEN a ELSE None
    BY <1>0, <2>5 DEF GetMetadatumLevel
  <2> HIDE DEF L
  <2>9. /\ FoundStays
        /\ a # None => findMetadata(f.node, k, f.occ)' = a
        /\ a = None => /\ findMetadata(f.node, k, f.occ) = None
                       /\ findMetadata(f.node, k, f.occ)' = None \/ next' > MaxNode
    <3>1. CreateMissing(f.node, k, f.occ, call.create)
      BY <2>8
    <3> QED BY <1>2, <2>6, <2>7, <3>1, CreateFinds, SMTT(30), <1>0
  <2>10. PICK V : /\ V \in [0 .. L -> Node \cup {None}] /\ V[0] = n
                  /\ \A j \in 1 .. L :
                       V[j] = IF V[j - 1] = None THEN None
                              ELSE findMetadata(V[j - 1], path[j].key, Start(path[j].occ))'
                  /\ Find(n, path)' = V[L]
                  /\ IsWalk(V, n, path)'
    <3>1. FindIsWalk'
      <4>1. HeapInv' => FindIsWalk'
        BY FindWalks, PTL
      <4> QED BY <1>2, <4>1
    <3>2. \A m \in Node, p \in Path : Exact(p) =>
             \E V : /\ V \in [0 .. Len(p) -> Node \cup {None}] /\ V[0] = m
                    /\ \A j \in 1 .. Len(p) :
                         V[j] = IF V[j - 1] = None THEN None
                                ELSE findMetadata(V[j - 1], p[j].key, Start(p[j].occ))'
                    /\ Find(m, p)' = V[Len(p)]
                    /\ IsWalk(V, m, p)'
      BY <3>1 DEF FindIsWalk, IsWalk
    <3> QED BY <1>5, <1>7, <3>2 DEF L
  <2>11. \A j \in 0 .. L : W[j] # None => V[j] = W[j]
    BY <1>5, <1>7, <2>1, <2>9, <2>10, WalkStays DEF L
  <2>12. W[i] # None /\ V[i] = f.node /\ f.node # None
    BY <2>1, <2>3, <2>6, <2>11 DEF Node, None
  <2>13. V[i + 1] = findMetadata(f.node, k, f.occ)' /\ W[i + 1] = findMetadata(f.node, k, f.occ)
    <3>1. path[i + 1].key = k /\ Start(path[i + 1].occ) = f.occ
      BY <1>0, <2>4, <2>6
    <3>2. V[i + 1] = findMetadata(V[i], path[i + 1].key, Start(path[i + 1].occ))'
      BY <2>3, <2>10, <2>12
    <3>3. W[i + 1] = findMetadata(W[i], path[i + 1].key, Start(path[i + 1].occ))
      BY <2>1, <2>3, <2>12 DEF IsWalk, L
    <3> QED BY <2>1, <2>12, <3>1, <3>2, <3>3 DEF findMetadata
  <2>14. Find(n, path) = W[L]
    BY <1>2, <1>5, <1>7, <2>1, FindIs DEF L
  <2>15. call.target # None => W[L] = call.target /\ Find(n, path)' = call.target
    <3>1. call.target # None => W[L] = call.target
      BY <1>0, <1>1, <1>5, <1>7, <2>14 DEF GetInv
    <3> QED BY <2>2, <2>10, <2>11, <3>1
  <2>16. CASE f.rest # <<>> /\ a # None /\ IsComposite(k)
    <3> DEFINE g == NewFrame("getMetadatum", a, f.rest)
    <3>1. stack' = <<g>>
      <4>1. stack' = <<g>> \o <<>>
        BY <1>4, <2>8, <2>16 DEF Replace
      <4> QED BY <4>1
    <3>2. At(g, path, i + 1)
      BY <1>5, <2>1, <2>6, <2>16, NextFrameAt
    <3>3. g.node = V[i + 1]
      BY <2>9, <2>13, <2>16 DEF NewFrame
    <3> HIDE DEF g
    <3>4. Top' = g /\ stack' # <<>>
      BY <3>1 DEF Top
    <3>5. i + 1 \in 0 .. L - 1
      BY <2>2, <2>3, <3>2 DEF At, L
    <3>6. Walking(Top)'
      BY <1>0, <1>1, <2>10, <3>2, <3>3, <3>4, <3>5 DEF Walking, At, L
    <3> QED BY <1>0, <1>1, <2>15, <3>4, <3>6 DEF GetInv, GetMetadatumFindsPath, Idle
  <2>17. CASE ~(f.rest # <<>> /\ a # None /\ IsComposite(k))
    <3>1. stack' = <<>> /\ ret' = IF f.rest = <<>> THEN a ELSE None
      BY <1>4, <2>8, <2>17
    <3>2. /\ ret' = Find(n, path)' \/ (ret' = None /\ next' > MaxNode)
          /\ call.target # None => ret' = call.target
      <4>1. CASE f.rest = <<>>
        <5>1. i + 1 = L
          BY <2>2, <2>3, <2>4, <4>1
        <5>2. ret' = a /\ Find(n, path)' = findMetadata(f.node, k, f.occ)'
                       /\ W[L] = findMetadata(f.node, k, f.occ)
          BY <2>10, <2>13, <3>1, <4>1, <5>1
        <5> QED BY <2>9, <2>15, <5>2
      <4>2. CASE f.rest # <<>>
        <5>1. ret' = None
          BY <3>1, <4>2
        <5>2. i + 2 \in 1 .. L /\ (i + 2) - 1 = i + 1
          <6>1. Len(f.rest) > 0
            BY <2>6, <4>2, EmptySeq, LenProperties
          <6> QED BY <2>2, <2>3, <2>4, <6>1
        <5>3. \A U : IsWalk(U, n, path) /\ U[i + 1] = None => U[L] = None
          BY <1>5, <1>7, <2>2, <2>3, WalkEnds DEF L
        <5>4. ASSUME V[i + 1] = None \/ V[i + 2] = None
              PROVE  V[L] = None
          <6> DEFINE P == {d \in Nat : i + 2 + d <= L => V[i + 2 + d] = None}
          <6>1. 0 \in P
            BY <2>3, <2>10, <5>2, <5>4
          <6>2. ASSUME NEW d \in Nat, d \in P PROVE d + 1 \in P
            <7> SUFFICES ASSUME i + 2 + (d + 1) <= L PROVE V[i + 2 + (d + 1)] = None
              OBVIOUS
            <7>1. V[i + 2 + d] = None /\ i + 2 + (d + 1) \in 1 .. L
                  /\ (i + 2 + (d + 1)) - 1 = i + 2 + d
              BY <2>2, <2>3, <6>2
            <7> QED BY <2>10, <7>1
          <6>3. Nat \subseteq P
            <7> HIDE DEF P
            <7> QED BY <6>1, <6>2, SetInduction
          <6>4. L - (i + 2) \in Nat /\ i + 2 + (L - (i + 2)) = L
            BY <2>2, <2>3, <5>2
          <6> QED BY <2>2, <6>3, <6>4
        <5>5. CASE a = None
          BY <2>1, <2>9, <2>10, <2>13, <2>15, <5>1, <5>3, <5>4, <5>5
        <5>6. CASE a # None
          <6>1. ~ IsComposite(k)
            BY <2>17, <4>2, <5>6
          <6>2. a \in 1 .. next' - 1 /\ md'[a].key = k
            <7>1. CreateMissing(f.node, k, f.occ, call.create)
              BY <2>8
            <7>2. Answer(f.node, k, f.occ, call.create) # None
              BY <1>0, <5>6
            <7>3. /\ Answer(f.node, k, f.occ, call.create) \in 1 .. next' - 1
                  /\ md'[Answer(f.node, k, f.occ, call.create)].key = k
              BY <1>2, <2>6, <2>7, <7>1, <7>2, AnswerLocated, SMTT(30)
            <7> QED BY <1>0, <7>3
          <6>3. V[i + 1] = a /\ a \in Node
            <7>1. V[i + 1] = a
              BY <2>9, <2>13, <5>6
            <7> QED BY <2>3, <2>10, <5>6, <7>1
          <6>4. ~ Has(a, path[i + 2].key)'
            <7>1. ASSUME Has(a, path[i + 2].key)' PROVE FALSE
              <8>1. Elements[md'[a].key] # <<>>
                BY <7>1 DEF Has, ElementsOf
              <8> QED BY <6>1, <6>2, <8>1 DEF IsComposite
            <7> QED BY <7>1
          <6>5. kids'[a][path[i + 2].key] = <<>>
            <7>1. path[i + 2].key \in Key
              BY <2>2, <5>2
            <7>2. \A m \in Node, b \in Key : kids'[m][b] # <<>> => Has(m, b)'
              BY DEF Rooted
            <7>3. kids'[a][path[i + 2].key] # <<>> => Has(a, path[i + 2].key)'
              BY <6>3, <7>1, <7>2, Zenon DEF Has, ElementsOf
            <7> QED BY <6>4, <7>3
          <6>6. V[i + 2] = None
            <7>1. V[i + 2] = findMetadata(a, path[i + 2].key, Start(path[i + 2].occ))'
              BY <2>10, <5>2, <5>6, <6>3 DEF findMetadata
            <7>2. Start(path[i + 2].occ) \in Nat
              BY <2>2, <5>2
            <7> QED BY <6>5, <7>1, <7>2 DEF findMetadata
          <6> QED BY <2>10, <2>15, <5>1, <5>4, <6>6
        <5> QED BY <5>5, <5>6
      <4> QED BY <4>1, <4>2
    <3> QED BY <1>0, <1>1, <3>1, <3>2 DEF GetInv, GetMetadatumFindsPath, Idle
  <2> QED BY <2>16, <2>17
<1> QED BY <1>6, <1>7

\* A call starts its walk at the composite it is on.
LEMMA CallKeepsGetInv ==
  ASSUME IInv, Call
  PROVE  GetInv'
<1>1. PICK n \in Composites(md, next), path \in Path, create \in BOOLEAN :
           \/ getMetadatum(n, path, create)
           \/ getMetadata(n, path, create)
           \/ deleteMetadata(n, path)
           \/ path = <<AllWildcard>> /\ deleteMetadataEverything(n)
  BY CallShapes
<1>2. n \in Node
  BY DEF Composites
<1>3. CASE getMetadatum(n, path, create)
  <2>1. /\ call' = [op |-> "getMetadatum", node |-> n, path |-> path, create |-> create,
                     target |-> IF Exact(path) THEN Find(n, path) ELSE None,
                     named |-> IF EndsInList(path) THEN Named(n, path) ELSE {},
                     before |-> InTree]
        /\ stack' = <<NewFrame("getMetadatum", n, path)>>
        /\ kids' = kids /\ md' = md /\ next' = next
    BY <1>3 DEF getMetadatum, Begin, heap
  <2>2. call'.op = "getMetadatum" /\ call'.node = n /\ call'.path = path
        /\ (Exact(path) => call'.target = Find(n, path))
    BY <2>1
  <2>3. stack' # <<>> /\ Top' = NewFrame("getMetadatum", n, path)
    <3> DEFINE g == NewFrame("getMetadatum", n, path)
    <3>1. stack' = <<g>>
      BY <2>1
    <3> HIDE DEF g
    <3>2. Top' = g /\ stack' # <<>>
      BY <3>1 DEF Top
    <3> QED BY <3>2 DEF g
  <2>4. \A p : Find(n, p)' = Find(n, p)
    BY <2>1 DEF Find, findMetadata
  <2>5. ASSUME Exact(path) PROVE Walking(Top)'
    <3>1. PICK W : IsWalk(W, n, path) /\ Find(n, path) = W[Len(path)]
      BY <1>2, <2>5, FindWalks DEF FindIsWalk, IInv
    <3>2. IsWalk(W, n, path)' /\ W[0] = n
      BY <2>1, <3>1 DEF IsWalk, findMetadata
    <3>3. 0 \in 0 .. Len(path) - 1
      BY <2>5, ExactParts
    <3>4. At(Top', path, 0) /\ Top'.node = n
      <4>1. At(NewFrame("getMetadatum", n, path), path, 0)
        BY NewFrameAt
      <4>2. NewFrame("getMetadatum", n, path).node = n
        BY DEF NewFrame
      <4> QED BY <2>3, <4>1, <4>2
    <3> QED BY <2>2, <3>2, <3>3, <3>4 DEF Walking, At
  <2> QED BY <2>2, <2>3, <2>4, <2>5 DEF GetInv, GetMetadatumFindsPath, Idle
<1>4. CASE getMetadata(n, path, create)
  BY <1>4 DEF getMetadata, Begin, GetInv, GetMetadatumFindsPath, Idle
<1>5. CASE deleteMetadata(n, path)
  BY <1>5 DEF deleteMetadata, Begin, GetInv, GetMetadatumFindsPath, Idle
<1>6. CASE deleteMetadataEverything(n)
  BY <1>6 DEF deleteMetadataEverything, Begin, GetInv, GetMetadatumFindsPath, Idle
<1> QED BY <1>1, <1>3, <1>4, <1>5, <1>6

\* The steps of the other calls do not concern getMetadatum.
LEMMA StepKeepsGetInv ==
  ASSUME IInv, Rooted, CallInv, IInv', Rooted', GetInv, Step
  PROVE  GetInv'
<1>1. CASE GetMetadatumLevel
  BY <1>1, LevelKeepsGetInv
<1>2. CASE ~ GetMetadatumLevel
  <2>1. stack # <<>> /\ call' = call /\ Top.fn # "getMetadatum"
    BY <1>2 DEF Step, Return, FrameDone, LoopsOverKeys, SkipKey, GetOccurrence, DeleteNamed,
                DeleteDescend, DeleteWildcard, Running
  <2>2. Top \in {g \in Frame : g.fn \in FnsOf(call.op)}
    BY <2>1, StackParts DEF CallInv, Top
  <2>3. call.op # "getMetadatum"
    BY <2>1, <2>2 DEF FnsOf
  <2> QED BY <2>1, <2>3 DEF GetInv, GetMetadatumFindsPath, Idle
<1> QED BY <1>1, <1>2

\* What getMetadatum answers for a path without wildcards is what a later lookup of the path
\* finds and what an earlier one found, for every schema, path and history of the tree.
THEOREM FindsPath == Spec => []GetMetadatumFindsPath
<1>1. Init => GetInv
  BY DEF Init, GetInv, GetMetadatumFindsPath, Idle
<1>2. (IInv /\ Rooted /\ CallInv) /\ (IInv /\ Rooted /\ CallInv)' /\ GetInv /\ [Next]_vars
        => GetInv'
  <2> SUFFICES ASSUME IInv, Rooted, CallInv, (IInv /\ Rooted /\ CallInv)', GetInv, [Next]_vars
               PROVE  GetInv'
    OBVIOUS
  <2>1. CASE UNCHANGED vars
    <3>1. kids' = kids /\ md' = md /\ next' = next /\ stack' = stack /\ call' = call /\ ret' = ret
      BY <2>1 DEF vars
    <3>2. \A n, p : Find(n, p)' = Find(n, p)
      BY <3>1 DEF Find, findMetadata
    <3>3. Walking(Top)' = Walking(Top)
      BY <3>1 DEF Walking, At, IsWalk, findMetadata, Top
    <3> QED BY <2>1, <3>1, <3>2, <3>3 DEF GetInv, GetMetadatumFindsPath, Idle
  <2>3. CASE Call
    BY <2>3, CallKeepsGetInv
  <2>4. CASE Step
    BY <2>4, StepKeepsGetInv
  <2> QED BY <2>1, <2>3, <2>4 DEF Next
<1>3. GetInv => GetMetadatumFindsPath
  BY DEF GetInv
<1> QED
  BY <1>1, <1>2, <1>3, CallInvAlways, PTL DEF Spec

-----------------------------------------------------------------------------
\* What is below a composite

\* An object is below n when its parent is n or is below n.
BelowIs ==
  \A n : /\ Below(n) \subseteq 1 .. next - 1
         /\ \A m \in 1 .. next - 1 :
              m \in Below(n) <=> (md[m].parent = n \/ md[m].parent \in Below(n))

\* In every state of the heap, what is below an object is what the parents say.
LEMMA BelowCharacter == HeapInv /\ Rooted => BelowIs
<1> SUFFICES ASSUME HeapInv, Rooted, NEW n
             PROVE  /\ Below(n) \subseteq 1 .. next - 1
                    /\ \A m \in 1 .. next - 1 :
                         m \in Below(n) <=> (md[m].parent = n \/ md[m].parent \in Below(n))
  BY DEF BelowIs
<1> DEFINE Rec(f) == [m \in 0 .. next - 1 |->
                        m # 0 /\ (md[m].parent = n \/ f[md[m].parent])]
           B == CHOOSE f : f = Rec(f)
           S == 1 .. next - 1
           p == [m \in S |-> md[m].parent]
           Q == {m \in S : md[m].parent = n}
<1>1. next \in Nat /\ next >= 1
  BY BoundAssumption DEF HeapInv, HeapType, BoundAssumption
<1>2. \A m \in S : md[m].parent \in 0 .. next - 1
  <2> SUFFICES ASSUME NEW m \in S PROVE md[m].parent \in 0 .. next - 1
    OBVIOUS
  <2>1. md[m].parent \in 0 .. m - 1
    BY DEF Rooted
  <2>2. \A x \in 0 .. m - 1 : x \in 0 .. next - 1
    BY ONLY <1>1, m \in 1 .. next - 1
  <2> QED BY <2>1, <2>2
<1>3. PICK A \in SUBSET S : \A m \in S : m \in A <=> (m \in Q \/ p[m] \in A)
  <2>1. Q \in SUBSET S /\ p \in [S -> 0 .. next - 1]
    BY <1>2
  <2> HIDE DEF S, Q, p
  <2> QED BY <2>1, ReachedExists
<1>4. \A m \in S : m \in A <=> (md[m].parent = n \/ md[m].parent \in A)
  BY <1>3
<1> DEFINE F == [m \in 0 .. next - 1 |-> IF m \in A THEN TRUE ELSE FALSE]
<1>5. F = Rec(F)
  <2>1. ASSUME NEW m \in 0 .. next - 1
        PROVE  F[m] = (m # 0 /\ (md[m].parent = n \/ F[md[m].parent]))
    <3>1. CASE m = 0
      <4>1. 0 \notin A
        BY <1>1, <1>3
      <4> QED BY <3>1, <4>1
    <3>2. CASE m # 0
      <4>1. m \in S
        BY <1>1, <3>2
      <4>2. F[md[m].parent] = IF md[m].parent \in A THEN TRUE ELSE FALSE
        BY <1>2, <4>1
      <4>3. F[m] = IF m \in A THEN TRUE ELSE FALSE
        OBVIOUS
      <4>4. m \in A <=> (md[m].parent = n \/ md[m].parent \in A)
        BY <1>4, <4>1
      <4> HIDE DEF F
      <4>5. CASE m \in A
        BY <3>2, <4>2, <4>3, <4>4, <4>5, Zenon
      <4>6. CASE m \notin A
        <5>1. md[m].parent # n /\ md[m].parent \notin A
          BY <4>4, <4>6
        <5>2. F[m] = FALSE /\ F[md[m].parent] = FALSE
          BY <4>2, <4>3, <4>6, <5>1, Zenon
        <5>3. (m # 0 /\ (md[m].parent = n \/ F[md[m].parent])) = FALSE
          BY <5>1, <5>2, Zenon
        <5> QED BY <5>2, <5>3, Zenon
      <4> QED BY <4>5, <4>6
    <3> QED BY <3>1, <3>2
  <2>2. F = [m \in 0 .. next - 1 |-> F[m]]
    OBVIOUS
  <2> HIDE DEF F
  <2> QED BY <2>1, <2>2
<1>6. B = Rec(B)
  <2> HIDE DEF Rec, F
  <2> QED BY <1>5
<1>7. Below(n) = {m \in S : B[m]}
  BY DEF Below
<1> HIDE DEF B
<1>8. \A m \in 0 .. next - 1 : B[m] = (m # 0 /\ (md[m].parent = n \/ B[md[m].parent]))
  BY <1>6
<1>9. B[0] = FALSE
  <2>1. 0 \in 0 .. next - 1
    BY <1>1
  <2>2. B[0] = (0 # 0 /\ (md[0].parent = n \/ B[md[0].parent]))
    BY <1>8, <2>1
  <2> QED BY <2>2, Zenon
<1>10. \A m \in 0 .. next - 1 : B[m] <=> m \in Below(n)
  <2> SUFFICES ASSUME NEW m \in 0 .. next - 1 PROVE B[m] <=> m \in Below(n)
    OBVIOUS
  <2>1. CASE m = 0
    BY <1>7, <1>9, <2>1
  <2>2. CASE m # 0
    <3>1. m \in S
      BY <1>1, <2>2
    <3> QED BY <1>7, <3>1
  <2> QED BY <2>1, <2>2
<1>11. ASSUME NEW m \in S
       PROVE  m \in Below(n) <=> (md[m].parent = n \/ md[m].parent \in Below(n))
  <2>1. m \in 0 .. next - 1 /\ m # 0 /\ md[m].parent \in 0 .. next - 1
    BY <1>1, <1>2
  <2>2. B[m] = (m # 0 /\ (md[m].parent = n \/ B[md[m].parent]))
    BY <1>8, <2>1
  <2>3. (B[m] <=> m \in Below(n)) /\ (B[md[m].parent] <=> md[m].parent \in Below(n))
    BY <1>10, <2>1
  <2> QED BY <2>1, <2>2, <2>3, Zenon
<1> QED BY <1>7, <1>11

\* What is below a composite depends on the parents only.
LEMMA SameBelow ==
  ASSUME HeapInv, Rooted, HeapInv', Rooted', next' = next,
         \A m \in Node : md'[m].parent = md[m].parent, NEW n
  PROVE  Below(n)' = Below(n)
<1>1. BelowIs
  BY BelowCharacter
<1>2. BelowIs'
  <2>1. HeapInv' /\ Rooted' => BelowIs'
    BY BelowCharacter, PTL
  <2> QED BY <2>1
<1>3. next \in Nat /\ next >= 1 /\ MaxNode \in Nat /\ next <= MaxNode + 1
  BY BoundAssumption DEF HeapInv, HeapType, BoundAssumption
<1>4. \A m \in 1 .. next - 1 : m \in Node /\ md[m].parent \in 0 .. m - 1
  BY <1>3 DEF Rooted, Node
<1> DEFINE P == {d \in Nat : \A m \in 0 .. d : m \in Below(n)' <=> m \in Below(n)}
<1>5. 0 \in P
  <2>1. 0 \notin Below(n) /\ 0 \notin Below(n)'
    BY <1>1, <1>2, <1>3 DEF BelowIs
  <2>2. \A m \in 0 .. 0 : m = 0
    OBVIOUS
  <2> QED BY <2>1, <2>2
<1>6. ASSUME NEW d \in Nat, d \in P PROVE d + 1 \in P
  <2>1. \A m \in 0 .. d : m \in Below(n)' <=> m \in Below(n)
    BY <1>6
  <2>2. d + 1 \in Below(n)' <=> d + 1 \in Below(n)
    <3>1. CASE d + 1 \in 1 .. next - 1
      <4>1. md[d + 1].parent \in 0 .. d /\ md'[d + 1].parent = md[d + 1].parent
        BY <1>4, <3>1
      <4> QED BY <1>1, <1>2, <2>1, <3>1, <4>1 DEF BelowIs
    <3>2. CASE d + 1 \notin 1 .. next - 1
      BY <1>1, <1>2, <3>2 DEF BelowIs
    <3> QED BY <3>1, <3>2
  <2>3. \A m \in 0 .. d + 1 : m \in 0 .. d \/ m = d + 1
    OBVIOUS
  <2> QED BY <2>1, <2>2, <2>3
<1>7. Nat \subseteq P
  <2> HIDE DEF P
  <2> QED BY <1>5, <1>6, SetInduction
<1>8. Below(n) \subseteq 1 .. next - 1 /\ Below(n)' \subseteq 1 .. next - 1
  BY <1>1, <1>2 DEF BelowIs
<1>9. \A m \in 1 .. next - 1 : m \in Nat /\ m \in 0 .. m
  BY <1>3
<1>10. \A m \in 1 .. next - 1 : m \in Below(n)' <=> m \in Below(n)
  BY <1>7, <1>9
<1> QED BY <1>8, <1>10

-----------------------------------------------------------------------------
\* deleteMetadata

\* Where a walk along a path leads next: to the occurrence the segment names, or nowhere when
\* it is missing or is a leaf that the path goes on below.
LEMMA WalkOn ==
  ASSUME HeapInv, Rooted, NEW n \in Node, NEW path \in Path, Exact(path),
         NEW i \in 0 .. Len(path) - 1, NEW f, At(f, path, i), f.rest \in Seq(Segment),
         NEW W, IsWalk(W, n, path), f.node = W[i], f.node \in Node
  PROVE  /\ W[i + 1] = findMetadata(f.node, f.seg.key, Start(f.seg.occ))
         /\ f.rest = <<>> => Find(n, path) = W[i + 1]
         /\ f.rest # <<>> => i + 1 \in 0 .. Len(path) - 1
         /\ f.rest # <<>> /\ (W[i + 1] = None \/ ~ IsComposite(f.seg.key)) =>
              Find(n, path) = None
<1> DEFINE L == Len(path)
<1>1. L \in Nat /\ L > 0 /\ \A j \in 1 .. L : path[j].key \in Key /\ Start(path[j].occ) \in Nat
  BY ExactParts
<1>2. /\ i \in Nat /\ i + 1 \in 1 .. L /\ (i + 1) - 1 = i /\ i + 1 \in 0 .. L
      /\ f.seg = path[i + 1] /\ Len(f.rest) = L - i - 1
  BY <1>1 DEF At
<1>3. f.node # None
  BY BoundAssumption DEF Node, None
<1>4. W[i + 1] = findMetadata(f.node, f.seg.key, Start(f.seg.occ))
  BY <1>2, <1>3 DEF IsWalk
<1>5. Find(n, path) = W[L]
  BY FindIs
<1>6. f.rest = <<>> => L = i + 1
  BY <1>1, <1>2
<1>7. ASSUME f.rest # <<>>
      PROVE  i + 1 \in 0 .. L - 1 /\ i + 2 \in 1 .. L /\ (i + 2) - 1 = i + 1 /\ i + 2 \in 0 .. L
  <2>1. Len(f.rest) > 0
    BY <1>7, EmptySeq, LenProperties
  <2> QED BY <1>1, <1>2, <2>1
<1>8. ASSUME f.rest # <<>>, W[i + 1] = None \/ ~ IsComposite(f.seg.key)
      PROVE  W[L] = None
  <2>1. CASE W[i + 1] = None
    <3>1. \A j \in i + 1 .. L : W[j] = None
      BY <1>2, <2>1, WalkEnds
    <3> QED BY <1>1, <1>2, <3>1
  <2>2. CASE W[i + 1] # None /\ ~ IsComposite(f.seg.key)
    <3>1. PICK a : a = W[i + 1]
      OBVIOUS
    <3>2. a \in Node
      BY <1>2, <2>2, <3>1 DEF IsWalk
    <3>3. md[a].key = f.seg.key
      BY <1>1, <1>2, <1>4, <2>2, <3>1, FindMetadataKind
    <3>4. path[i + 2].key \in Key /\ Start(path[i + 2].occ) \in Nat
      BY <1>1, <1>7, <1>8
    <3>5. kids[a][path[i + 2].key] = <<>>
      <4>1. kids[a][path[i + 2].key] # <<>> => Has(a, path[i + 2].key)
        BY <3>2, <3>4 DEF Rooted
      <4> QED BY <2>2, <3>3, <4>1, HasIsComposite
    <3>6. findMetadata(a, path[i + 2].key, Start(path[i + 2].occ)) = None
      BY <3>4, <3>5 DEF findMetadata
    <3>7. W[i + 2] = None
      BY <1>7, <1>8, <3>1, <3>6 DEF IsWalk
    <3>8. \A j \in i + 2 .. L : W[j] = None
      BY <1>7, <1>8, <3>7, WalkEnds
    <3> QED BY <1>1, <1>7, <1>8, <3>8
  <2> QED BY <1>8, <2>1, <2>2
<1> QED BY <1>4, <1>5, <1>6, <1>7, <1>8

\* A record of deleteMetadata works at or below the receiver, and the segments it has left
\* behind name a key.
Deleting(f) ==
  /\ \E i \in 0 .. Len(call.path) - 1 :
       At(f, call.path, i) /\ \A j \in 1 .. i : call.path[j].kind = "key"
  /\ f.node = call.node \/ f.node \in Below(call.node)
  /\ f.fn = "deleteWild" => f.seg.kind # "key"

\* The objects deleteMetadata may remove.
Removable(m) ==
  /\ m \in Below(call.node)
  /\ \E i \in DOMAIN call.path :
       /\ \A j \in 1 .. i - 1 : call.path[j].kind = "key"
       /\ i = Len(call.path) \/ call.path[i].kind # "key"
       /\ md[m].key \in call.path[i].match \cup {call.path[i].key}

\* The records that look at one occurrence.
Once == {f \in Frame : f.fn = "deletePath" /\ f.cur >= Len(f.seg.occ.list)}

\* On a path without wildcards a record looks at one occurrence.
LEMMA ExactFrame ==
  ASSUME NEW path \in Path, Exact(path), NEW n \in Node
  PROVE  /\ DeleteFrame(n, path) \in Once
         /\ DeleteFrame(n, path) = NewFrame("deletePath", n, path)
         /\ DeleteFrame(n, path).node = n
         /\ DeleteFrame(n, path).occ # OCCURRENCE_END
         /\ DeleteFrame(n, path).occ = Start(DeleteFrame(n, path).seg.occ)
<1> DEFINE occ == Head(path).occ
<1>1. path \in Seq(Segment) /\ path # <<>> /\ Len(path) \in Nat /\ Len(path) > 0
      /\ Head(path) = path[1] /\ DOMAIN path = 1 .. Len(path)
  <2>1. path \in Seq(Segment) /\ path # <<>>
    BY DEF Path
  <2> QED BY <2>1, EmptySeq, LenProperties, HeadTailProperties
<1>2. Head(path).kind = "key" /\ SingleOccurrence(occ) /\ occ \in Occurrence /\ Start(occ) \in Nat
  BY <1>1, ExactParts DEF Exact
<1>3. DeleteFrame(n, path) = NewFrame("deletePath", n, path)
  BY <1>2 DEF DeleteFrame
<1>4. PICK g : g = NewFrame("deletePath", n, path)
  OBVIOUS
<1>5. g \in Frame /\ g.fn = "deletePath" /\ g.node = n /\ g.seg = Head(path) /\ g.occ = Start(occ)
  BY <1>4, NewFrameType DEF Fn
<1>6. g.cur = StartCursor(occ)
  BY <1>4 DEF NewFrame
<1>7. g.cur >= Len(g.seg.occ.list)
  <2>1. (occ.kind = "list") <=> (occ.list # <<>>)
    BY <1>2 DEF Occurrence
  <2>2. occ.list # <<>> => Len(occ.list) = 1
    BY <1>2, <2>1 DEF SingleOccurrence
  <2>3. g.seg.occ = occ /\ g.cur = IF occ.list # <<>> THEN 1 ELSE 0
    BY <1>5, <1>6 DEF StartCursor
  <2> HIDE DEF occ
  <2>4. CASE occ.list = <<>>
    <3>1. Len(occ.list) = 0
      BY <2>4, EmptySeq
    <3> QED BY <2>3, <2>4, <3>1
  <2>5. CASE occ.list # <<>>
    <3>1. Len(g.seg.occ.list) = 1 /\ g.cur = 1
      BY <2>2, <2>3, <2>5, Zenon
    <3> QED BY <3>1
  <2> QED BY <2>4, <2>5
<1> QED BY <1>2, <1>3, <1>4, <1>5, <1>7 DEF Once, OCCURRENCE_END

\* While deleteMetadata runs, what is gone could be removed.  On a path without wildcards
\* the object it names is gone once the innermost record is past its occurrence, and nothing
\* else; before that nothing is gone and the walk goes on.
DelInv ==
  call.op = "deleteMetadata" =>
    /\ stack \in Seq({f \in Frame : Deleting(f)})
    /\ call.before \subseteq 1 .. next - 1
    /\ \A m \in call.before \ InTree : Removable(m)
    /\ Exact(call.path) =>
         /\ stack \in Seq(Once)
         /\ stack = <<>> \/ Top.occ = OCCURRENCE_END =>
              InTree = call.before \ {call.target}
         /\ stack # <<>> /\ Top.occ # OCCURRENCE_END =>
              /\ InTree = call.before /\ Walking(Top) /\ Top.occ = Start(Top.seg.occ)
              /\ Find(call.node, call.path) = call.target

\* A call starts with the tree as it is.
LEMMA CallKeepsDelInv ==
  ASSUME IInv, Rooted, IInv', Rooted', Call
  PROVE  DelInv'
<1>1. PICK n \in Composites(md, next), path \in Path, create \in BOOLEAN :
           \/ getMetadatum(n, path, create)
           \/ getMetadata(n, path, create)
           \/ deleteMetadata(n, path)
           \/ path = <<AllWildcard>> /\ deleteMetadataEverything(n)
  BY CallShapes
<1>2. n \in Node /\ InTree \subseteq 1 .. next - 1 /\ HeapInv /\ HeapInv'
  BY DEF Composites, InTree, IInv
<1>3. CASE getMetadatum(n, path, create) \/ getMetadata(n, path, create)
  BY <1>3 DEF getMetadatum, getMetadata, Begin, DelInv
<1>4. CASE deleteMetadata(n, path)
  <2>0. PICK g : g = DeleteFrame(n, path)
    OBVIOUS
  <2>1. /\ call' = [op |-> "deleteMetadata", node |-> n, path |-> path, create |-> FALSE,
                     target |-> IF Exact(path) THEN Find(n, path) ELSE None,
                     named |-> IF EndsInList(path) THEN Named(n, path) ELSE {},
                     before |-> InTree]
        /\ stack' = <<g>>
        /\ kids' = kids /\ md' = md /\ next' = next /\ UNCHANGED heap
    BY <1>4, <2>0 DEF deleteMetadata, Begin, heap
  <2>2. /\ call'.op = "deleteMetadata" /\ call'.node = n /\ call'.path = path
        /\ call'.before = InTree
        /\ Exact(path) => call'.target = Find(n, path)
    BY <2>1
  <2>3. /\ g \in Frame /\ At(g, path, 0) /\ g.node = n /\ g.seg = Head(path)
        /\ g.fn = IF Head(path).kind = "key" THEN "deletePath" ELSE "deleteWild"
    <3>1. PICK fn \in {"deletePath", "deleteWild"} :
            fn = IF Head(path).kind = "key" THEN "deletePath" ELSE "deleteWild"
      OBVIOUS
    <3>2. g = NewFrame(fn, n, path)
      BY <2>0, <3>1 DEF DeleteFrame
    <3>3. /\ NewFrame(fn, n, path) \in Frame /\ NewFrame(fn, n, path).fn = fn
          /\ NewFrame(fn, n, path).node = n /\ NewFrame(fn, n, path).seg = Head(path)
      BY <1>2, NewFrameType, <3>1 DEF Fn
    <3> QED BY <3>1, <3>2, <3>3, NewFrameAt
  <2>4. stack' # <<>> /\ Top' = g
    BY <2>1 DEF Top
  <2>5. InTree' = InTree
    BY <2>1, SameInTree
  <2>6. path \in Seq(Segment) /\ path # <<>> /\ Len(path) \in Nat /\ 0 \in 0 .. Len(path) - 1
        /\ Head(path) = path[1]
    <3>1. path \in Seq(Segment) /\ path # <<>>
      BY DEF Path
    <3>2. Len(path) \in Nat /\ Len(path) > 0 /\ Head(path) = path[1]
      BY <3>1, EmptySeq, LenProperties, HeadTailProperties
    <3> QED BY <3>1, <3>2
  <2>7. Deleting(g)'
    <3>1. \E i \in 0 .. Len(path) - 1 : At(g, path, i) /\ \A j \in 1 .. i : path[j].kind = "key"
      BY <2>3, <2>6
    <3> QED BY <2>2, <2>3, <3>1 DEF Deleting, At
  <2>8. stack' \in Seq({f \in Frame : Deleting(f)'})
    BY <2>1, <2>3, <2>7
  <2>9. ASSUME Exact(path)
        PROVE  g \in Once /\ g.occ # OCCURRENCE_END /\ g.occ = Start(g.seg.occ)
               /\ Find(n, path)' = Find(n, path) /\ Walking(g)'
    <3>1. g \in Once /\ g.occ # OCCURRENCE_END /\ g.occ = Start(g.seg.occ)
      BY <1>2, <2>0, <2>9, ExactFrame
    <3>4. Find(n, path)' = Find(n, path)
      BY <2>1 DEF Find, findMetadata
    <3>5. Walking(g)'
      <4>1. PICK W : IsWalk(W, n, path)
        BY <1>2, <2>9, FindWalks DEF FindIsWalk
      <4>2. IsWalk(W, n, path)' /\ W[0] = n
        BY <2>1, <4>1 DEF IsWalk, findMetadata
      <4> QED BY <2>2, <2>3, <2>6, <4>2 DEF Walking, At
    <3> QED BY <3>1, <3>4, <3>5
  <2>10. Exact(path) => stack' \in Seq(Once)
    BY <2>1, <2>9
  <2>11. Exact(path) => (Walking(Top)' <=> Walking(g)')
    BY <2>4 DEF Walking
  <2> QED BY <1>2, <2>1, <2>2, <2>4, <2>5, <2>8, <2>9, <2>10, <2>11 DEF DelInv
<1>5. CASE path = <<AllWildcard>> /\ deleteMetadataEverything(n)
  <2>1. /\ call'.op = "deleteMetadata" /\ call'.node = n /\ call'.path = <<AllWildcard>>
        /\ call'.before = InTree /\ stack' = <<>> /\ deleteMetadataAll(n)
        /\ md' = md /\ next' = next
    BY <1>5 DEF deleteMetadataEverything, Begin, deleteMetadataAll
  <2>2. ~ Exact(<<AllWildcard>>)
    BY DEF Exact, AllWildcard
  <2>3. stack' \in Seq({f \in Frame : Deleting(f)'})
    BY <2>1, EmptySeq
  <2>4. ASSUME NEW m \in InTree, m \notin InTree'
        PROVE  Removable(m)'
    <3>1. md[m].parent = n
      BY <1>2, <2>1, <2>4, DeleteAllInTree
    <3>2. m \in 1 .. next - 1 /\ md[m].key \in Key
      BY <1>2 DEF Rooted
    <3>3. m \in Below(n)'
      <4>1. HeapInv' /\ Rooted' => BelowIs'
        BY BelowCharacter, PTL
      <4>2. \A x : x \in 1 .. next' - 1 /\ md'[x].parent = n => x \in Below(n)'
        BY <1>2, <4>1 DEF BelowIs
      <4> QED BY <2>1, <3>1, <3>2, <4>2
    <3>4. /\ 1 \in DOMAIN <<AllWildcard>> /\ <<AllWildcard>>[1] = AllWildcard
          /\ AllWildcard.kind # "key" /\ AllWildcard.match = Key
      BY DEF AllWildcard
    <3>5. \A j \in 1 .. 1 - 1 : FALSE
      OBVIOUS
    <3>6. \E i \in DOMAIN <<AllWildcard>> :
            /\ \A j \in 1 .. i - 1 : <<AllWildcard>>[j].kind = "key"
            /\ i = Len(<<AllWildcard>>) \/ <<AllWildcard>>[i].kind # "key"
            /\ md[m].key \in <<AllWildcard>>[i].match \cup {<<AllWildcard>>[i].key}
      <4> HIDE DEF AllWildcard
      <4> QED BY <3>2, <3>4, <3>5
    <3>7. Below(call.node)' = Below(n)'
      BY <2>1 DEF Below
    <3> QED BY <2>1, <3>3, <3>6, <3>7 DEF Removable
  <2> QED BY <1>2, <2>1, <2>2, <2>3, <2>4 DEF DelInv
<1> QED BY <1>1, <1>3, <1>4, <1>5

\* A step of deleteMetadata moves a record of a loop and may delete objects at its node.
LEMMA DeleteStep ==
  ASSUME IInv, Rooted, CallInv, IInv', Rooted', call.op = "deleteMetadata", Step
  PROVE  /\ stack # <<>> /\ call' = call
         /\ stack \in Seq(Loops(md, next)) /\ Top \in Loops(md, next)
         /\ Top.fn \in {"deletePath", "deleteWild"}
         /\ Return \/ SkipKey \/ DeleteNamed \/ DeleteDescend \/ DeleteWildcard
         /\ next' = next
         /\ \A m \in Node : md'[m].key = md[m].key /\ md'[m].parent = md[m].parent
         /\ \A n : Below(n)' = Below(n)
<1>1. HeapInv /\ StackInv /\ HeapInv'
  BY DEF IInv
<1>2. stack # <<>> /\ call' = call
  BY DEF Step, Return, SkipKey, GetMetadatumLevel, GetOccurrence, DeleteNamed,
         DeleteDescend, DeleteWildcard, Running
<1>3. Top \in {g \in Frame : g.fn \in FnsOf(call.op)}
  BY <1>2, StackParts DEF CallInv, Top
<1>4. Top.fn \in {"deletePath", "deleteWild"}
  BY <1>3 DEF FnsOf
<1>5. stack \in Seq(Loops(md, next)) /\ Top \in Loops(md, next)
  BY <1>1, <1>2, <1>4, StackOfLoops
<1>6. Return \/ SkipKey \/ DeleteNamed \/ DeleteDescend \/ DeleteWildcard
  BY <1>4 DEF Step, GetMetadatumLevel, GetOccurrence, Running
<1>7. next' = next /\ \A m \in Node : md'[m].key = md[m].key /\ md'[m].parent = md[m].parent
  <2>1. CASE UNCHANGED heap
    BY <2>1 DEF heap
  <2>2. ASSUME NEW n \in Node, NEW k \in Key, NEW o \in Nat, deleteMetadatum(n, k, o)
        PROVE  next' = next /\ \A m \in Node : md'[m].key = md[m].key /\ md'[m].parent = md[m].parent
    <3>1. next' = next
      BY <2>2 DEF deleteMetadatum, heap
    <3> QED BY <1>1, <2>2, <3>1, DeleteMd
  <2>3. CASE DeleteNamed
    <3>1. /\ ~ FrameDone(Top)
          /\ deleteMetadatum(Top.node, Top.seg.key, Top.occ) \/ UNCHANGED heap
      BY <2>3 DEF DeleteNamed
    <3>2. Top.node \in Node /\ Top.seg.key \in Key /\ Top.occ \in Nat
      <4>1. Top.fn = "deletePath"
        BY <2>3 DEF DeleteNamed, Running
      <4> QED BY <1>5, <3>1, <4>1, LocatedParts, OccurrenceIsReal DEF Loops
    <3> QED BY <2>1, <2>2, <3>1, <3>2
  <2>4. CASE DeleteWildcard
    <3>1. /\ ~ FrameDone(Top) /\ ~ KeyDone(Top) /\ Top.fn = "deleteWild"
          /\ deleteMetadatum(Top.node, FrameKey(Top), Top.occ)
      BY <2>4 DEF DeleteWildcard, Running
    <3>2. Top.node \in Node /\ FrameKey(Top) \in Key /\ Top.occ \in Nat
      BY <1>1, <1>5, <3>1, LocatedParts, OccurrenceIsReal, FrameKeyIsKey DEF Loops
    <3> QED BY <2>2, <3>1, <3>2
  <2>5. CASE Return \/ SkipKey \/ DeleteDescend
    BY <2>1, <2>5 DEF Return, SkipKey, DeleteDescend
  <2> QED BY <1>6, <2>3, <2>4, <2>5
<1>8. \A n : Below(n)' = Below(n)
  <2> TAKE n
  <2> QED BY <1>1, <1>7, SameBelow
<1> QED BY <1>2, <1>4, <1>5, <1>6, <1>7, <1>8

\* The records stay in the path.
LEMMA StepKeepsDeleting ==
  ASSUME IInv, Rooted, CallInv, IInv', Rooted', call.op = "deleteMetadata", Step,
         stack \in Seq({f \in Frame : Deleting(f)})
  PROVE  /\ Deleting(Top)
         /\ stack' \in Seq({f \in Frame : Deleting(f)'})
<1> DEFINE G == {f \in Frame : Deleting(f)}
<1>1. /\ stack # <<>> /\ call' = call
      /\ stack \in Seq(Loops(md, next)) /\ Top \in Loops(md, next)
      /\ Top.fn \in {"deletePath", "deleteWild"}
      /\ Return \/ SkipKey \/ DeleteNamed \/ DeleteDescend \/ DeleteWildcard
      /\ \A n : Below(n)' = Below(n)
  BY DeleteStep
<1>2. HeapInv /\ HeapInv'
  BY DEF IInv
<1>3. \A f \in G : \A g \in Loops(md, next) : Same(f, g) => g \in G
  <2> SUFFICES ASSUME NEW f \in G, NEW g \in Loops(md, next), Same(f, g) PROVE g \in G
    OBVIOUS
  <2>1. g \in Frame /\ Deleting(f)
    BY LocatedParts DEF Loops
  <2>2. g.fn = f.fn /\ g.node = f.node /\ g.seg = f.seg /\ g.rest = f.rest
    BY DEF Same
  <2>3. \A i : At(f, call.path, i) => At(g, call.path, i)
    BY <2>2 DEF At
  <2> QED BY <2>1, <2>2, <2>3 DEF Deleting
<1>4. /\ Top \in G /\ Pop \in Seq(G)
      /\ Replace(AfterBody(Top)) \in Seq(G) /\ Replace(NextOccurrence(Top)) \in Seq(G)
      /\ LoopsOverKeys(Top) => Replace(NextKey(Top)) \in Seq(G)
      /\ \A g \in G : Push(g) \in Seq(G)
  <2>1. stack \in Seq(G)
    OBVIOUS
  <2> HIDE DEF G
  <2> QED BY <1>1, <1>2, <1>3, <2>1, StackMoves
<1>5. stack' \in Seq(G)
  <2>1. CASE Return \/ SkipKey \/ DeleteNamed \/ DeleteWildcard
    BY <1>4, <2>1 DEF Return, SkipKey, DeleteNamed, DeleteWildcard
  <2>2. CASE DeleteDescend
    <3>1. PICK f, c : f = Top /\ c = findMetadata(f.node, f.seg.key, f.occ)
      OBVIOUS
    <3>2. /\ f.fn = "deletePath" /\ ~ FrameDone(f) /\ f.rest # <<>>
          /\ \/ c # None /\ stack' = Push(DeleteFrame(c, f.rest))
             \/ stack' = Pop
      BY <2>2, <3>1 DEF DeleteDescend, Running
    <3>3. f.node \in Node /\ f.seg.key \in Key /\ f.occ \in Nat /\ f.rest \in Path
          /\ f.seg.kind = "key"
      <4>1. f \in Loops(md, next) /\ f \in Located(md, next)
        BY <1>1, <3>1 DEF Loops
      <4>2. f.rest \in Seq(Segment)
        BY <4>1, LocatedParts
      <4> QED BY <3>2, <4>1, <4>2, LocatedParts, OccurrenceIsReal DEF Path
    <3>4. ASSUME c # None
          PROVE  DeleteFrame(c, f.rest) \in G
      <4>1. c \in 1 .. next - 1
        BY <1>2, <3>1, <3>3, <3>4, FindMetadataKind
      <4>2. c \in Node
        <5>1. next \in Nat /\ MaxNode \in Nat /\ next <= MaxNode + 1
          BY <1>2, BoundAssumption DEF HeapInv, HeapType, BoundAssumption
        <5> QED BY <4>1, <5>1 DEF Node
      <4>3. md[c].parent = f.node
        <5>1. Len(kids[f.node][f.seg.key]) \in Nat
          BY <1>2, <3>3, LenProperties DEF HeapInv, HeapType
        <5>2. f.occ < Len(kids[f.node][f.seg.key]) /\ c = kids[f.node][f.seg.key][f.occ + 1]
          BY <3>1, <3>4 DEF findMetadata
        <5>3. f.occ + 1 \in 1 .. Len(kids[f.node][f.seg.key])
          BY <3>3, <5>1, <5>2
        <5>4. md[kids[f.node][f.seg.key][f.occ + 1]].parent = f.node
          <6>1. PICK n \in Node, k \in Key : n = f.node /\ k = f.seg.key
            BY <3>3
          <6>2. PICK i \in 1 .. Len(kids[n][k]) : i = f.occ + 1
            BY <5>3, <6>1
          <6>3. md[kids[n][k][i]].parent = n
            BY <1>2, Numbered DEF HeapInv
          <6> QED BY <6>1, <6>2, <6>3
        <5> QED BY <5>2, <5>4
      <4>4. Deleting(f) /\ f \in Frame
        BY <1>4, <3>1
      <4>5. c \in Below(call.node)
        BY <1>2, <4>1, <4>3, <4>4, BelowCharacter DEF BelowIs, Deleting
      <4>6. PICK fn \in {"deletePath", "deleteWild"} :
              fn = IF Head(f.rest).kind = "key" THEN "deletePath" ELSE "deleteWild"
        OBVIOUS
      <4>7. PICK g : g = NewFrame(fn, c, f.rest)
        OBVIOUS
      <4>8. DeleteFrame(c, f.rest) = g
        BY <4>6, <4>7 DEF DeleteFrame
      <4>9. g \in Frame /\ g.fn = fn /\ g.node = c /\ g.seg = Head(f.rest)
        BY <3>3, <4>2, <4>6, <4>7, NewFrameType DEF Fn
      <4>10. PICK i \in 0 .. Len(call.path) - 1 :
               At(f, call.path, i) /\ \A j \in 1 .. i : call.path[j].kind = "key"
        BY <4>4 DEF Deleting
      <4>11. At(g, call.path, i + 1)
        <5>1. call.path \in Path /\ f.rest \in Seq(Segment)
          BY <3>3 DEF CallInv, Path
        <5> QED BY <3>2, <4>7, <4>10, <5>1, NextFrameAt
      <4>12. i + 1 \in 0 .. Len(call.path) - 1 /\ \A j \in 1 .. i + 1 : call.path[j].kind = "key"
        <5>1. Len(call.path) \in Nat
          BY LenProperties DEF CallInv, Path
        <5>2. i \in Nat /\ i + 1 < Len(call.path) /\ call.path[i + 1] = f.seg
          BY <4>10, <4>11 DEF At
        <5>3. \A j \in 1 .. i + 1 : j \in 1 .. i \/ j = i + 1
          BY <5>2
        <5> QED BY <3>3, <4>10, <5>1, <5>2, <5>3
      <4>13. Deleting(g)
        BY <4>5, <4>6, <4>9, <4>11, <4>12 DEF Deleting
      <4> QED BY <4>8, <4>9, <4>13
    <3> HIDE DEF G
    <3> QED BY <1>4, <3>2, <3>4
  <2> QED BY <1>1, <2>1, <2>2
<1>6. G \subseteq {f \in Frame : Deleting(f)'}
  <2> SUFFICES ASSUME NEW f \in Frame, Deleting(f) PROVE Deleting(f)'
    OBVIOUS
  <2>1. \A i : At(f, call.path, i)' = At(f, call.path, i)
    BY <1>1 DEF At
  <2>2. PICK n : n = call.node
    OBVIOUS
  <2>3. Below(call.node)' = Below(n)' /\ Below(n)' = Below(call.node)
    <3>1. call'.node = n
      BY <1>1, <2>2
    <3>2. Below(call.node)' = Below(n)'
      BY <3>1 DEF Below
    <3> QED BY <1>1, <2>2, <3>2
  <2> QED BY <1>1, <2>1, <2>3 DEF Deleting
<1> QED
  <2> HIDE DEF G
  <2>1. Seq(G) \subseteq Seq({f \in Frame : Deleting(f)'})
    BY <1>6, SeqMonotone
  <2> QED BY <1>4, <1>5, <2>1 DEF G

\* What a step takes out of the tree the call may remove.
LEMMA StepRemoves ==
  ASSUME IInv, Rooted, CallInv, IInv', Rooted', call.op = "deleteMetadata", Step,
         Deleting(Top), NEW m \in InTree, m \notin InTree'
  PROVE  Removable(m)
<1>1. /\ stack # <<>> /\ call' = call /\ Top \in Loops(md, next)
      /\ Top.fn \in {"deletePath", "deleteWild"}
      /\ Return \/ SkipKey \/ DeleteNamed \/ DeleteDescend \/ DeleteWildcard
  BY DeleteStep
<1>2. HeapInv /\ HeapInv'
  BY DEF IInv
<1>3. ASSUME NEW k \in Key, NEW o \in Nat, deleteMetadatum(Top.node, k, o),
             k \in Top.seg.match \cup {Top.seg.key},
             Top.rest = <<>> \/ Top.seg.kind # "key"
      PROVE  Removable(m)
  <2>1. Top.node \in Node
    BY <1>1, LocatedParts DEF Loops
  <2>2. md[m].parent = Top.node /\ md[m].key = k
    BY <1>2, <1>3, <2>1, DeleteInTree
  <2>3. m \in 1 .. next - 1
    BY DEF InTree
  <2>4. m \in Below(call.node)
    BY <1>2, <2>2, <2>3, BelowCharacter DEF BelowIs, Deleting
  <2>5. PICK i \in 0 .. Len(call.path) - 1 :
          At(Top, call.path, i) /\ \A j \in 1 .. i : call.path[j].kind = "key"
    BY DEF Deleting
  <2>6. Len(call.path) \in Nat /\ DOMAIN call.path = 1 .. Len(call.path)
    BY LenProperties DEF CallInv, Path
  <2>7. i \in Nat /\ i + 1 \in DOMAIN call.path /\ (i + 1) - 1 = i /\ call.path[i + 1] = Top.seg
    BY <2>5, <2>6 DEF At
  <2>8. i + 1 = Len(call.path) \/ Top.seg.kind # "key"
    BY <1>3, <2>5, <2>6, EmptySeq DEF At
  <2> QED BY <1>3, <2>2, <2>4, <2>5, <2>7, <2>8 DEF Removable
<1>4. ~ UNCHANGED heap
  BY SameInTree
<1>5. CASE DeleteNamed
  <2>1. /\ Top.rest = <<>> /\ ~ FrameDone(Top) /\ Top.fn = "deletePath"
        /\ deleteMetadatum(Top.node, Top.seg.key, Top.occ)
    BY <1>4, <1>5 DEF DeleteNamed, Running
  <2>2. Top.seg.key \in Key /\ Top.occ \in Nat
    BY <1>1, <2>1, LocatedParts, OccurrenceIsReal DEF Loops
  <2> QED BY <1>3, <2>1, <2>2
<1>6. CASE DeleteWildcard
  <2>1. /\ ~ FrameDone(Top) /\ ~ KeyDone(Top) /\ Top.fn = "deleteWild"
        /\ deleteMetadatum(Top.node, FrameKey(Top), Top.occ)
    BY <1>6 DEF DeleteWildcard, Running
  <2>2. FrameKey(Top) \in Key /\ Top.occ \in Nat
    BY <1>1, <1>2, <2>1, OccurrenceIsReal, FrameKeyIsKey
  <2>3. Top.seg.kind # "key"
    BY <2>1 DEF Deleting
  <2>4. FrameKey(Top) \in Top.seg.match
    BY <2>1, <2>3 DEF KeyDone
  <2> QED BY <1>3, <2>1, <2>2, <2>3, <2>4
<1>7. CASE Return \/ SkipKey \/ DeleteDescend
  BY <1>4, <1>7 DEF Return, SkipKey, DeleteDescend
<1> QED BY <1>1, <1>5, <1>6, <1>7

\* The rest of a path without wildcards has none.
LEMMA ExactRest ==
  ASSUME NEW path \in Path, Exact(path), NEW f, f.rest \in Seq(Segment), f.rest # <<>>,
         NEW i, At(f, path, i)
  PROVE  f.rest \in Path /\ Exact(f.rest)
<1>1. path \in Seq(Segment) /\ DOMAIN path = 1 .. Len(path) /\ Len(path) \in Nat
  BY LenProperties DEF Path
<1>2. DOMAIN f.rest = 1 .. Len(f.rest) /\ Len(f.rest) \in Nat
  BY LenProperties
<1>3. ASSUME NEW j \in 1 .. Len(f.rest)
      PROVE  f.rest[j].kind = "key" /\ SingleOccurrence(f.rest[j].occ)
  <2>1. f.rest[j] = path[i + 1 + j]
    BY DEF At
  <2>2. i + 1 + j \in DOMAIN path
    <3>1. i \in Nat /\ Len(f.rest) = Len(path) - i - 1
      BY DEF At
    <3>2. j \in Nat /\ j >= 1 /\ j <= Len(path) - i - 1
      BY <1>2, <3>1
    <3>3. i + 1 + j \in 1 .. Len(path)
      <4>1. PICK L \in Nat : L = Len(path)
        BY <1>1
      <4>2. i + 1 + j \in 1 .. L
        <5>1. i \in Nat /\ j \in Nat /\ j >= 1 /\ j <= L - i - 1
          BY <3>1, <3>2, <4>1
        <5> QED BY ONLY <5>1, L \in Nat
      <4> QED BY <4>1, <4>2
    <3> QED BY <1>1, <3>3, Zenon
  <2> QED BY <2>1, <2>2 DEF Exact
<1> QED BY <1>2, <1>3 DEF Exact, Path

\* Past its occurrence such a record is at the end of its loop.
LEMMA OnceMoves ==
  ASSUME NEW f \in Once
  PROVE  NextOccurrence(f) \in Once /\ NextOccurrence(f).occ = OCCURRENCE_END
<1>1. f \in Frame /\ f.fn = "deletePath" /\ f.cur >= Len(f.seg.occ.list) /\ f.cur \in Nat
      /\ f.seg.occ \in Occurrence
  BY SegmentParts DEF Once, Frame
<1>2. Len(f.seg.occ.list) \in Nat
  BY <1>1, LenProperties DEF Occurrence
<1>3. ~ f.cur < Len(f.seg.occ.list)
  BY <1>1, <1>2
<1>4. NextOccurrence(f) = [f EXCEPT !.occ = OCCURRENCE_END]
  BY <1>1, <1>3 DEF NextOccurrence
<1>5. [f EXCEPT !.occ = OCCURRENCE_END].occ = OCCURRENCE_END
  BY <1>1 DEF Frame
<1>6. [f EXCEPT !.occ = OCCURRENCE_END] \in Frame
  BY <1>1 DEF Frame
<1>7. [f EXCEPT !.occ = OCCURRENCE_END].fn = f.fn /\ [f EXCEPT !.occ = OCCURRENCE_END].cur = f.cur
      /\ [f EXCEPT !.occ = OCCURRENCE_END].seg = f.seg
  BY <1>1 DEF Frame
<1> QED BY <1>1, <1>4, <1>5, <1>6, <1>7 DEF Once

\* A call without wildcards returns through records that have ended their loops.
LEMMA OncePops ==
  ASSUME stack \in Seq(Once), stack # <<>>
  PROVE  /\ Top \in Once /\ Pop \in Seq(Once)
         /\ Pop = <<>> \/ Head(Pop).occ = OCCURRENCE_END
<1>1. /\ Top \in Once
      /\ Len(stack) # 1 => /\ stack[2] \in Once /\ Tail(Tail(stack)) \in Seq(Once)
                           /\ \A f \in Once : <<f>> \o Tail(Tail(stack)) \in Seq(Once)
  BY StackParts DEF Top
<1>2. CASE Len(stack) = 1
  BY <1>1, <1>2, EmptySeq DEF Pop
<1>3. CASE Len(stack) # 1
  <2>1. PICK c \in Once : c = stack[2]
    BY <1>1, <1>3
  <2>2. c.fn = "deletePath"
    BY DEF Once
  <2>3. PICK g : g = NextOccurrence(c)
    OBVIOUS
  <2>4. Pop = <<g>> \o Tail(Tail(stack))
    <3>1. AfterBody(c) = g
      BY <2>2, <2>3 DEF AfterBody
    <3> QED BY <1>3, <2>1, <2>2, <3>1 DEF Pop
  <2>5. g \in Once /\ g.occ = OCCURRENCE_END
    BY <2>3, OnceMoves
  <2>6. Head(<<g>> \o Tail(Tail(stack))) = g
    BY <1>1, <1>3
  <2> QED BY <1>1, <1>3, <2>4, <2>5, <2>6
<1> QED BY <1>2, <1>3

\* A deletion on a path without wildcards takes out what it names and goes back.
LEMMA StepKeepsExact ==
  ASSUME IInv, Rooted, CallInv, IInv', Rooted', call.op = "deleteMetadata", Step,
         DelInv, Exact(call.path)
  PROVE  /\ stack' \in Seq(Once)
         /\ stack' = <<>> \/ Top'.occ = OCCURRENCE_END =>
              InTree' = call.before \ {call.target}
         /\ stack' # <<>> /\ Top'.occ # OCCURRENCE_END =>
              /\ InTree' = call.before /\ Walking(Top)' /\ Top'.occ = Start(Top'.seg.occ)
              /\ Find(call.node, call.path)' = call.target
<1>1. /\ stack # <<>> /\ call' = call /\ Top \in Loops(md, next)
      /\ Return \/ SkipKey \/ DeleteNamed \/ DeleteDescend \/ DeleteWildcard
  BY DeleteStep
<1>2. HeapInv /\ HeapInv'
  BY DEF IInv
<1>3. /\ stack \in Seq(Once) /\ call.before \subseteq 1 .. next - 1
      /\ Top.occ = OCCURRENCE_END => InTree = call.before \ {call.target}
      /\ Top.occ # OCCURRENCE_END =>
              /\ InTree = call.before /\ Walking(Top) /\ Top.occ = Start(Top.seg.occ)
              /\ Find(call.node, call.path) = call.target
  BY <1>1 DEF DelInv
<1>4. /\ Top \in Once /\ Pop \in Seq(Once)
      /\ Pop = <<>> \/ Head(Pop).occ = OCCURRENCE_END
  BY <1>1, <1>3, OncePops
<1>5. PICK f, n, path : f = Top /\ n = call.node /\ path = call.path
  OBVIOUS
<1>6. /\ f \in Once /\ f.fn = "deletePath" /\ f.node \in Node /\ f.rest \in Seq(Segment)
      /\ f.seg.kind = "key" /\ f.seg.key \in Key /\ f.occ \in Nat \cup {OCCURRENCE_END}
  <2>1. f \in Located(md, next) /\ f.fn = "deletePath"
    BY <1>1, <1>4, <1>5 DEF Loops, Once
  <2> QED BY <1>4, <1>5, <2>1, LocatedParts
<1>7. FrameDone(f) <=> f.occ = OCCURRENCE_END
  BY <1>6 DEF FrameDone, Exhausted, LoopsOverKeys
<1>8. None \notin call.before
  <2>1. next \in Nat
    BY <1>2 DEF HeapInv, HeapType
  <2> QED BY <1>3, <2>1 DEF None
<1>9. path \in Path /\ n \in Node /\ Exact(path) /\ call'.node = n /\ call'.path = path
  BY <1>1, <1>5 DEF CallInv, Composites
<1>10. ASSUME NEW s, s \in Seq(Once), stack' = s, s = <<>> \/ Head(s).occ = OCCURRENCE_END,
              InTree' = call.before \ {call.target}
       PROVE  /\ stack' \in Seq(Once)
              /\ stack' = <<>> \/ Top'.occ = OCCURRENCE_END =>
                   InTree' = call.before \ {call.target}
              /\ ~(stack' # <<>> /\ Top'.occ # OCCURRENCE_END)
  BY <1>10 DEF Top
<1>11. CASE Return
  <2>1. f.occ = OCCURRENCE_END /\ stack' = Pop /\ InTree' = InTree
    <3>1. FrameDone(f) /\ stack' = Pop /\ UNCHANGED heap
      BY <1>5, <1>11 DEF Return
    <3> QED BY <1>7, <3>1, SameInTree
  <2>2. InTree' = call.before \ {call.target}
    BY <1>3, <1>5, <2>1
  <2> QED BY <1>4, <1>10, <2>1, <2>2
<1>12. ASSUME f.occ # OCCURRENCE_END
       PROVE  \E i, W :
                /\ i \in 0 .. Len(path) - 1
                /\ At(f, path, i) /\ IsWalk(W, n, path) /\ f.node = W[i]
                /\ W[i + 1] = findMetadata(f.node, f.seg.key, f.occ)
                /\ f.rest = <<>> => call.target = W[i + 1]
                /\ f.rest # <<>> => i + 1 \in 0 .. Len(path) - 1
                /\ f.rest # <<>> /\ (W[i + 1] = None \/ ~ IsComposite(f.seg.key)) =>
                     call.target = None
  <2>1. PICK i, W :
           i \in 0 .. Len(path) - 1 /\ At(f, path, i) /\ IsWalk(W, n, path) /\ f.node = W[i]
    BY <1>3, <1>5, <1>12 DEF Walking
  <2>2. f.occ = Start(f.seg.occ) /\ Find(n, path) = call.target
    BY <1>3, <1>5, <1>12
  <2>3. /\ W[i + 1] = findMetadata(f.node, f.seg.key, Start(f.seg.occ))
        /\ f.rest = <<>> => Find(n, path) = W[i + 1]
        /\ f.rest # <<>> => i + 1 \in 0 .. Len(path) - 1
        /\ f.rest # <<>> /\ (W[i + 1] = None \/ ~ IsComposite(f.seg.key)) =>
              Find(n, path) = None
    BY <1>2, <1>6, <1>9, <2>1, WalkOn
  <2> QED BY <2>1, <2>2, <2>3
<1>13. CASE DeleteNamed
  <2>1. /\ f.rest = <<>> /\ f.occ # OCCURRENCE_END
        /\ IF findMetadata(f.node, f.seg.key, f.occ) # None
           THEN deleteMetadatum(f.node, f.seg.key, f.occ)
           ELSE UNCHANGED heap
        /\ stack' = Replace(NextOccurrence(f))
    BY <1>5, <1>7, <1>13 DEF DeleteNamed
  <2>2. call.target = findMetadata(f.node, f.seg.key, f.occ)
    BY <1>12, <2>1
  <2>3. InTree = call.before /\ f.occ \in Nat
    BY <1>3, <1>5, <1>6, <2>1
  <2>4. InTree' = call.before \ {call.target}
    <3>1. CASE call.target = None
      BY <1>8, <2>1, <2>2, <2>3, <3>1, SameInTree
    <3>2. CASE call.target # None
      <4>1. PICK k \in Key, m \in Node : k = f.seg.key /\ m = f.node
        BY <1>6
      <4>2. deleteMetadatum(m, k, f.occ) /\ findMetadata(m, k, f.occ) # None
        BY <2>1, <2>2, <3>2, <4>1
      <4>3. InTree' = InTree \ {findMetadata(m, k, f.occ)}
        BY <1>2, <2>3, <4>2, DeleteInTree
      <4> QED BY <2>2, <2>3, <4>1, <4>3
    <3> QED BY <3>1, <3>2
  <2>5. PICK g : g = NextOccurrence(f)
    OBVIOUS
  <2>6. g \in Once /\ g.occ = OCCURRENCE_END
    BY <1>6, <2>5, OnceMoves
  <2>7. Replace(g) \in Seq(Once) /\ Head(Replace(g)) = g
    <3>1. Tail(stack) \in Seq(Once) /\ <<g>> \o Tail(stack) \in Seq(Once)
      BY <1>1, <1>3, <2>6, StackParts
    <3>2. Head(<<g>> \o Tail(stack)) = g
      BY <3>1
    <3> QED BY <3>1, <3>2 DEF Replace
  <2> QED BY <1>10, <2>1, <2>4, <2>5, <2>6, <2>7
<1>14. CASE DeleteDescend
  <2>1. PICK c : c = findMetadata(f.node, f.seg.key, f.occ)
    OBVIOUS
  <2>2. /\ f.rest # <<>> /\ f.occ # OCCURRENCE_END /\ InTree' = InTree
        /\ kids' = kids /\ md' = md /\ next' = next
        /\ stack' = IF c # None /\ IsComposite(f.seg.key)
                    THEN Push(DeleteFrame(c, f.rest)) ELSE Pop
    <3>1. /\ f.rest # <<>> /\ ~ FrameDone(f) /\ UNCHANGED heap
          /\ stack' = IF c # None /\ IsComposite(f.seg.key)
                      THEN Push(DeleteFrame(c, f.rest)) ELSE Pop
      BY <1>5, <1>14, <2>1 DEF DeleteDescend
    <3> QED BY <1>7, <3>1, SameInTree DEF heap
  <2>3. PICK i, W :
                /\ i \in 0 .. Len(path) - 1
                /\ At(f, path, i) /\ IsWalk(W, n, path)
                /\ W[i + 1] = c
                /\ i + 1 \in 0 .. Len(path) - 1
                /\ c = None \/ ~ IsComposite(f.seg.key) => call.target = None
    BY <1>12, <2>1, <2>2
  <2>4. InTree = call.before /\ Find(n, path) = call.target
    BY <1>3, <1>5, <2>2
  <2>5. CASE ~(c # None /\ IsComposite(f.seg.key))
    <3>1. InTree' = call.before \ {call.target} /\ stack' = Pop
      BY <1>8, <2>2, <2>3, <2>4, <2>5
    <3> QED BY <1>4, <1>10, <3>1
  <2>6. CASE c # None /\ IsComposite(f.seg.key)
    <3>1. c \in Node
      <4>1. W \in [0 .. Len(path) -> Node \cup {None}] /\ i + 1 \in 0 .. Len(path)
        <5>1. Len(path) \in Nat
          BY <1>9, ExactParts
        <5> QED BY <2>3, <5>1 DEF IsWalk
      <4> QED BY <2>3, <2>6, <4>1
    <3>2. f.rest \in Path /\ Exact(f.rest)
      BY <1>6, <1>9, <2>2, <2>3, ExactRest
    <3>3. PICK g : g = DeleteFrame(c, f.rest)
      OBVIOUS
    <3>4. /\ g \in Once /\ g = NewFrame("deletePath", c, f.rest) /\ g.node = c
          /\ g.occ # OCCURRENCE_END /\ g.occ = Start(g.seg.occ)
      BY <3>1, <3>2, <3>3, ExactFrame
    <3>5. At(g, path, i + 1)
      BY <1>6, <1>9, <2>2, <2>3, <3>4, NextFrameAt
    <3>6. stack' \in Seq(Once) /\ stack' # <<>> /\ Top' = g
      <4>1. stack' = <<g>> \o stack
        BY <2>2, <2>6, <3>3 DEF Push
      <4> QED BY <1>3, <3>4, <4>1 DEF Top
    <3>7. IsWalk(W, n, path)'
      BY <2>2, <2>3 DEF IsWalk, findMetadata
    <3>8. Walking(Top)'
      BY <1>9, <2>3, <3>4, <3>5, <3>6, <3>7 DEF Walking, At
    <3>9. Find(call.node, call.path)' = Find(n, path)
      BY <1>9, <2>2 DEF Find, findMetadata
    <3> QED BY <2>2, <2>4, <3>4, <3>6, <3>8, <3>9
  <2> QED BY <2>5, <2>6
<1>15. ~ SkipKey /\ ~ DeleteWildcard
  <2>1. ~ KeyDone(f)
    BY <1>6 DEF KeyDone, LoopsOverKeys
  <2> QED BY <1>5, <1>6, <2>1 DEF SkipKey, DeleteWildcard, Running
<1> QED BY <1>1, <1>11, <1>13, <1>14, <1>15

\* The steps of a deletion keep the invariant, and those of the other calls do not
\* concern it.
LEMMA StepKeepsDelInv ==
  ASSUME IInv, Rooted, CallInv, IInv', Rooted', DelInv, Step
  PROVE  DelInv'
<1>1. CASE call.op # "deleteMetadata"
  <2>1. call' = call
    BY DEF Step, Return, SkipKey, GetMetadatumLevel, GetOccurrence, DeleteNamed,
           DeleteDescend, DeleteWildcard, Running
  <2> QED BY <1>1, <2>1 DEF DelInv
<1>2. CASE call.op = "deleteMetadata"
  <2>1. /\ call' = call /\ next' = next
        /\ \A m \in Node : md'[m].key = md[m].key
        /\ \A n : Below(n)' = Below(n)
    BY <1>2, DeleteStep
  <2>2. /\ stack \in Seq({f \in Frame : Deleting(f)}) /\ call.before \subseteq 1 .. next - 1
        /\ \A m \in call.before \ InTree : Removable(m)
    BY <1>2 DEF DelInv
  <2>3. Deleting(Top) /\ stack' \in Seq({f \in Frame : Deleting(f)'})
    BY <1>2, <2>2, StepKeepsDeleting
  <2>4. ASSUME NEW m \in call.before, m \notin InTree'
        PROVE  Removable(m)'
    <3>1. Removable(m)
      BY <1>2, <2>2, <2>3, <2>4, StepRemoves
    <3>2. m \in Node
      <4>1. next \in Nat /\ MaxNode \in Nat /\ next <= MaxNode + 1
        BY BoundAssumption DEF IInv, HeapInv, HeapType, BoundAssumption
      <4>2. \A x \in 1 .. next - 1 : x \in Node
        BY <4>1 DEF Node
      <4> QED BY <2>2, <4>2
    <3>3. Below(call.node)' = Below(call.node)
      <4>1. PICK n : n = call.node
        OBVIOUS
      <4>2. call'.node = n
        BY <2>1, <4>1
      <4>3. Below(call.node)' = Below(n)'
        BY <4>2 DEF Below
      <4> QED BY <2>1, <4>1, <4>3
    <3> QED BY <2>1, <3>1, <3>2, <3>3 DEF Removable
  <2>5. Exact(call.path) =>
         /\ stack' \in Seq(Once)
         /\ stack' = <<>> \/ Top'.occ = OCCURRENCE_END =>
              InTree' = call.before \ {call.target}
         /\ stack' # <<>> /\ Top'.occ # OCCURRENCE_END =>
              /\ InTree' = call.before /\ Walking(Top)' /\ Top'.occ = Start(Top'.seg.occ)
              /\ Find(call.node, call.path)' = call.target
    BY <1>2, StepKeepsExact
  <2> QED BY <2>1, <2>2, <2>3, <2>4, <2>5 DEF DelInv
<1> QED BY <1>1, <1>2

\* A path without wildcards and lists deletes exactly the object that it named at the call,
\* and no path deletes an object that is not below the receiver or whose key it does not
\* name.
THEOREM DeletesNamed == Spec => []DeletesWhatIsNamed
<1>1. Init => DelInv
  BY DEF Init, DelInv
<1>2. (IInv /\ Rooted /\ CallInv) /\ (IInv /\ Rooted /\ CallInv)' /\ DelInv /\ [Next]_vars
        => DelInv'
  <2> SUFFICES ASSUME IInv, Rooted, CallInv, (IInv /\ Rooted /\ CallInv)', DelInv, [Next]_vars
               PROVE  DelInv'
    OBVIOUS
  <2>1. CASE UNCHANGED vars
    <3>1. kids' = kids /\ md' = md /\ next' = next /\ stack' = stack /\ call' = call
      BY <2>1 DEF vars
    <3>2. InTree' = InTree
      BY <3>1, SameInTree DEF heap
    <3>3. Below(call.node)' = Below(call.node)
      BY <3>1 DEF Below
    <3>4. /\ \A f : Deleting(f)' <=> Deleting(f)
          /\ \A m : Removable(m)' <=> Removable(m)
      BY <3>1, <3>3 DEF Deleting, Removable, At
    <3>5. Walking(Top)' <=> Walking(Top)
      BY <3>1 DEF Walking, At, IsWalk, findMetadata, Top
    <3>6. Find(call.node, call.path)' = Find(call.node, call.path)
      BY <3>1 DEF Find, findMetadata
    <3>7. Top' = Top
      BY <3>1 DEF Top
    <3>8. {f \in Frame : Deleting(f)}' = {f \in Frame : Deleting(f)}
      BY <3>4
    <3> QED BY <3>1, <3>2, <3>4, <3>5, <3>6, <3>7, <3>8 DEF DelInv
  <2>2. CASE Call
    BY <2>2, CallKeepsDelInv
  <2>3. CASE Step
    BY <2>3, StepKeepsDelInv
  <2> QED BY <2>1, <2>2, <2>3 DEF Next
<1>3. DelInv => DeletesWhatIsNamed
  BY DEF DelInv, DeletesWhatIsNamed, DeleteRemovesNamed, DeleteStaysInPath, Idle, Removable
<1> QED
  BY <1>1, <1>2, <1>3, CallInvAlways, PTL DEF Spec

-----------------------------------------------------------------------------
\* The leaves below a composite

\* Parents come before their children, and the ancestors of an object are in a line.
Ancestry ==
  /\ \A n \in Node : \A m \in Below(n) : n < m
  /\ \A n, c : \A m \in Below(c) : c \in Below(n) => m \in Below(n)
  /\ \A a, b \in Node : \A m \in Below(a) : m \in Below(b) => a = b \/ a \in Below(b) \/ b \in Below(a)
  /\ \A n \in Node : \A m \in Below(n) :
       /\ IsComposite(md[n].key)
       /\ \E c \in 1 .. next - 1 : md[c].parent = n /\ (m = c \/ m \in Below(c))

\* In every state of the heap, parents come first and the ancestors of an object are in a line.
LEMMA BelowAncestry == HeapInv /\ Rooted => Ancestry
<1> SUFFICES ASSUME HeapInv, Rooted PROVE Ancestry
  OBVIOUS
<1>1. next \in Nat /\ next >= 1 /\ MaxNode \in Nat /\ next <= MaxNode + 1
  BY BoundAssumption DEF HeapInv, HeapType, BoundAssumption
<1>2. \A n : Below(n) \subseteq 1 .. next - 1
  BY BelowCharacter DEF BelowIs
<1>3. \A n : \A m \in 1 .. next - 1 :
        m \in Below(n) <=> (md[m].parent = n \/ md[m].parent \in Below(n))
  BY BelowCharacter DEF BelowIs
<1>4. \A m \in 1 .. next - 1 : /\ m \in Nat /\ m \in Node /\ md[m].parent \in 0 .. m - 1
                               /\ IsComposite(md[md[m].parent].key)
  BY <1>1 DEF Rooted, Node
<1>5. ASSUME NEW n \in Node
      PROVE  \A m \in Below(n) : n < m
  <2> DEFINE P == {m \in Nat : m \in Below(n) => n < m}
  <2>1. ASSUME NEW m \in Nat, \A x \in 0 .. m - 1 : x \in P PROVE m \in P
    <3> SUFFICES ASSUME m \in Below(n) PROVE n < m
      OBVIOUS
    <3>1. m \in 1 .. next - 1 /\ md[m].parent \in 0 .. m - 1
      BY <1>2, <1>4
    <3>2. md[m].parent = n \/ (md[m].parent \in Below(n) /\ md[m].parent \in P)
      BY <1>3, <2>1, <3>1
    <3>3. PICK q \in 0 .. m - 1 : q = md[m].parent
      BY <3>1
    <3>4. q = n \/ n < q
      BY <3>2, <3>3
    <3> QED BY <1>1, <3>3, <3>4 DEF Node
  <2>2. Nat \subseteq P
    <3> HIDE DEF P
    <3> QED BY <2>1, StrongInduction
  <2> QED BY <1>2, <1>4, <2>2
<1>6. ASSUME NEW n, NEW c, c \in Below(n)
      PROVE  \A m \in Below(c) : m \in Below(n)
  <2> DEFINE P == {m \in Nat : m \in Below(c) => m \in Below(n)}
  <2>1. ASSUME NEW m \in Nat, \A x \in 0 .. m - 1 : x \in P PROVE m \in P
    <3> SUFFICES ASSUME m \in Below(c) PROVE m \in Below(n)
      OBVIOUS
    <3>1. m \in 1 .. next - 1 /\ md[m].parent \in 0 .. m - 1
      BY <1>2, <1>4
    <3>2. md[m].parent = c \/ (md[m].parent \in Below(c) /\ md[m].parent \in P)
      BY <1>3, <2>1, <3>1
    <3>3. md[m].parent \in Below(n)
      BY <1>6, <3>2
    <3> QED BY <1>3, <3>1, <3>3
  <2>2. Nat \subseteq P
    <3> HIDE DEF P
    <3> QED BY <2>1, StrongInduction
  <2> QED BY <1>2, <1>4, <2>2
<1>7. ASSUME NEW a \in Node, NEW b \in Node
      PROVE  \A m \in Below(a) : m \in Below(b) => a = b \/ a \in Below(b) \/ b \in Below(a)
  <2> DEFINE P == {m \in Nat : m \in Below(a) /\ m \in Below(b) =>
                                 a = b \/ a \in Below(b) \/ b \in Below(a)}
  <2>1. ASSUME NEW m \in Nat, \A x \in 0 .. m - 1 : x \in P PROVE m \in P
    <3> SUFFICES ASSUME m \in Below(a), m \in Below(b)
                 PROVE  a = b \/ a \in Below(b) \/ b \in Below(a)
      OBVIOUS
    <3>1. m \in 1 .. next - 1 /\ md[m].parent \in 0 .. m - 1
      BY <1>2, <1>4
    <3>2. /\ md[m].parent = a \/ md[m].parent \in Below(a)
          /\ md[m].parent = b \/ md[m].parent \in Below(b)
          /\ md[m].parent \in P
      BY <1>3, <2>1, <3>1
    <3> QED BY <3>2
  <2>2. Nat \subseteq P
    <3> HIDE DEF P
    <3> QED BY <2>1, StrongInduction
  <2> QED BY <1>2, <1>4, <2>2
<1>8. ASSUME NEW n \in Node
      PROVE  \A m \in Below(n) :
               \E c \in 1 .. next - 1 : md[c].parent = n /\ (m = c \/ m \in Below(c))
  <2> DEFINE Child(m) == \E c \in 1 .. next - 1 : md[c].parent = n /\ (m = c \/ m \in Below(c))
             P == {m \in Nat : m \in Below(n) => Child(m)}
  <2>1. ASSUME NEW m \in Nat, \A x \in 0 .. m - 1 : x \in P PROVE m \in P
    <3> SUFFICES ASSUME m \in Below(n) PROVE Child(m)
      OBVIOUS
    <3>1. m \in 1 .. next - 1 /\ md[m].parent \in 0 .. m - 1
      BY <1>2, <1>4
    <3>2. md[m].parent = n \/ (md[m].parent \in Below(n) /\ Child(md[m].parent))
      BY <1>3, <2>1, <3>1
    <3>3. CASE md[m].parent = n
      BY <3>1, <3>3
    <3>4. CASE Child(md[m].parent)
      <4>1. PICK c \in 1 .. next - 1 :
              md[c].parent = n /\ (md[m].parent = c \/ md[m].parent \in Below(c))
        BY <3>4
      <4>2. m \in Below(c)
        BY <1>3, <3>1, <4>1
      <4> QED BY <4>1, <4>2
    <3> QED BY <3>2, <3>3, <3>4
  <2>2. Nat \subseteq P
    <3> HIDE DEF P
    <3> QED BY <2>1, StrongInduction
  <2>3. \A m \in Below(n) : m \in Nat
    BY <1>2, <1>4
  <2> QED BY <2>2, <2>3
<1>9. ASSUME NEW n \in Node, NEW m \in Below(n)
      PROVE  IsComposite(md[n].key)
  BY <1>4, <1>8
<1> QED BY <1>5, <1>6, <1>7, <1>8, <1>9 DEF Ancestry

\* The children of n, and the leaves at or below one.
Kids(n) == {c \in InTree : md[c].parent = n}
LeavesOf(c) == IF IsComposite(md[c].key) THEN LeavesUnder(c) ELSE {c}

\* Two children of a composite have no leaf in common.
LEMMA LeavesDisjoint ==
  ASSUME HeapInv, Rooted, NEW n \in Node, NEW c \in Kids(n), NEW d \in Kids(n), c # d
  PROVE  LeavesOf(c) \cap LeavesOf(d) = {}
<1>1. Ancestry /\ BelowIs
  BY BelowAncestry, BelowCharacter
<1>2. c \in 1 .. next - 1 /\ d \in 1 .. next - 1 /\ md[c].parent = n /\ md[d].parent = n
  BY DEF Kids, InTree
<1>3. c \in Node /\ d \in Node /\ n \in Nat /\ c \in Nat /\ d \in Nat
  BY <1>2, BoundAssumption DEF HeapInv, HeapType, BoundAssumption, Node
<1>4. n < c /\ n < d
  BY <1>1, <1>2 DEF Ancestry, BelowIs
<1>5. c \notin Below(d) /\ d \notin Below(c)
  <2>1. \A x \in Node, y \in Node : md[y].parent = n /\ y \in 1 .. next - 1 /\ y \in Below(x) /\ n < x => FALSE
    <3> SUFFICES ASSUME NEW x \in Node, NEW y \in 1 .. next - 1, md[y].parent = n, y \in Below(x), n < x
                 PROVE  FALSE
      OBVIOUS
    <3>1. n = x \/ n \in Below(x)
      BY <1>1 DEF BelowIs
    <3>2. x < n \/ x = n
      BY <1>1, <3>1 DEF Ancestry
    <3> QED BY <1>3, <3>2 DEF Node
  <2> QED BY <1>2, <1>3, <1>4, <2>1
<1>6. \A m \in LeavesOf(c) : m = c \/ m \in Below(c)
  BY DEF LeavesOf, LeavesUnder
<1>7. \A m \in LeavesOf(d) : m = d \/ m \in Below(d)
  BY DEF LeavesOf, LeavesUnder
<1>8. ASSUME NEW m \in LeavesOf(c), m \in LeavesOf(d)
      PROVE  FALSE
  BY <1>1, <1>3, <1>5, <1>6, <1>7, <1>8 DEF Ancestry
<1> QED BY <1>8

\* The leaves below a composite are those of its children.
LEMMA LeafSplit ==
  ASSUME HeapInv, Rooted, NEW n \in Node
  PROVE  LeavesUnder(n) = UNION {LeavesOf(c) : c \in Kids(n)}
<1>1. Ancestry /\ BelowIs
  BY BelowAncestry, BelowCharacter
<1>2. next \in Nat /\ MaxNode \in Nat /\ next <= MaxNode + 1
  BY BoundAssumption DEF HeapInv, HeapType, BoundAssumption
<1>3. \A m \in 1 .. next - 1 : m \in Node
  BY <1>2 DEF Node
<1>4. \A x : Below(x) \subseteq 1 .. next - 1
  BY <1>1 DEF BelowIs
<1>5. ASSUME NEW m \in LeavesUnder(n)
      PROVE  \E c \in Kids(n) : m \in LeavesOf(c)
  <2>1. /\ m \in Below(n) /\ m \in InTree /\ ~ IsComposite(md[m].key)
        /\ \A c \in Below(n) : m \in Below(c) => c \in InTree
    BY DEF LeavesUnder
  <2>2. PICK c \in 1 .. next - 1 : md[c].parent = n /\ (m = c \/ m \in Below(c))
    BY <1>1, <2>1 DEF Ancestry
  <2>3. c \in Below(n) /\ c \in Node
    BY <1>1, <1>3, <2>2 DEF BelowIs
  <2>4. c \in Kids(n)
    BY <2>1, <2>2, <2>3 DEF Kids
  <2>5. CASE m = c
    BY <2>1, <2>4, <2>5 DEF LeavesOf
  <2>6. CASE m \in Below(c)
    <3>1. IsComposite(md[c].key)
      BY <1>1, <2>3, <2>6 DEF Ancestry
    <3>2. \A x \in Below(c) : x \in Below(n)
      BY <1>1, <2>3 DEF Ancestry
    <3>3. m \in LeavesUnder(c)
      BY <2>1, <2>6, <3>2 DEF LeavesUnder
    <3> QED BY <2>4, <3>1, <3>3 DEF LeavesOf
  <2> QED BY <2>2, <2>5, <2>6
<1>6. ASSUME NEW c \in Kids(n), NEW m \in LeavesOf(c)
      PROVE  m \in LeavesUnder(n)
  <2>1. c \in 1 .. next - 1 /\ md[c].parent = n /\ c \in InTree /\ c \in Node
    BY <1>3 DEF Kids, InTree
  <2>2. c \in Below(n) /\ n < c /\ n \in Nat /\ c \in Nat
    <3>1. c \in Below(n)
      BY <1>1, <2>1 DEF BelowIs
    <3> QED BY <1>1, <2>1, <3>1 DEF Ancestry, Node
  <2>3. \A x \in Below(n) : c \notin Below(x)
    <3> SUFFICES ASSUME NEW x \in Below(n), c \in Below(x) PROVE FALSE
      OBVIOUS
    <3>1. x \in Node /\ n < x
      BY <1>1, <1>3, <1>4 DEF Ancestry
    <3>2. n = x \/ n \in Below(x)
      BY <1>1, <2>1 DEF BelowIs
    <3>3. x < n \/ x = n
      BY <1>1, <3>1, <3>2 DEF Ancestry
    <3> QED BY <2>2, <3>1, <3>3 DEF Node
  <2>4. CASE ~ IsComposite(md[c].key)
    <3>1. m = c
      BY <2>4 DEF LeavesOf
    <3> QED BY <2>1, <2>2, <2>3, <2>4, <3>1 DEF LeavesUnder
  <2>5. CASE IsComposite(md[c].key)
    <3>1. m \in LeavesUnder(c)
      BY <2>5 DEF LeavesOf
    <3>2. /\ m \in Below(c) /\ m \in InTree /\ ~ IsComposite(md[m].key)
          /\ \A x \in Below(c) : m \in Below(x) => x \in InTree
      BY <3>1 DEF LeavesUnder
    <3>3. m \in Below(n)
      BY <1>1, <2>2, <3>2 DEF Ancestry
    <3>4. ASSUME NEW x \in Below(n), m \in Below(x)
          PROVE  x \in InTree
      <4>1. x \in Node
        BY <1>3, <1>4
      <4>2. x = c \/ x \in Below(c) \/ c \in Below(x)
        BY <1>1, <2>1, <3>2, <3>4, <4>1 DEF Ancestry
      <4> QED BY <2>1, <2>3, <3>2, <3>4, <4>2
    <3> QED BY <3>2, <3>3, <3>4 DEF LeavesUnder
  <2> QED BY <2>4, <2>5
<1>7. LeavesUnder(n) \subseteq UNION {LeavesOf(c) : c \in Kids(n)}
  BY <1>5
<1>8. UNION {LeavesOf(c) : c \in Kids(n)} \subseteq LeavesUnder(n)
  BY <1>6
<1> QED BY <1>7, <1>8

-----------------------------------------------------------------------------
\* The traversal of everything

\* The records of a traversal for the empty key.
Everything ==
  {f \in Frame : f.fn = "getUnder" /\ f.seg = AllWildcard /\ f.rest = <<>> /\ f.occ \in Nat}

\* The children of the composite of f that its loops have passed, the leaves at or below
\* one of them, and the key and the child the loops are at.
DoneKids(f) ==
  {c \in Kids(f.node) : \E p \in 1 .. Len(ElementsOf(f.node)) :
     /\ md[c].key = ElementsOf(f.node)[p]
     /\ p < f.pos \/ (p = f.pos /\ md[c].occurrence < f.occ)}
Done(f) == UNION {LeavesOf(c) : c \in DoneKids(f)}
KeyAt(f) == ElementsOf(f.node)[f.pos]
Inside(f) == f.pos <= Len(ElementsOf(f.node)) /\ findMetadata(f.node, KeyAt(f), f.occ) # None

\* Where the loops of such a record can be.
LEMMA EverythingParts ==
  ASSUME HeapInv, NEW f \in Everything
  PROVE  /\ f \in Frame /\ f.fn = "getUnder" /\ f.seg = AllWildcard /\ f.rest = <<>>
         /\ f.node \in Node /\ f.pos \in Nat \ {0} /\ f.occ \in Nat /\ f.cur \in Nat
         /\ f.seg.kind = "multi" /\ f.seg.match = Key
         /\ f.seg.occ.kind = "wildcard" /\ f.seg.occ.list = <<>>
         /\ ElementsOf(f.node) \in Seq(Key) /\ Len(ElementsOf(f.node)) \in Nat
         /\ \A p \in 1 .. Len(ElementsOf(f.node)) :
              /\ ElementsOf(f.node)[p] \in Key
              /\ Len(kids[f.node][ElementsOf(f.node)[p]]) \in Nat
         /\ \A p, q \in 1 .. Len(ElementsOf(f.node)) :
              ElementsOf(f.node)[p] = ElementsOf(f.node)[q] => p = q
<1>1. /\ f \in Frame /\ f.fn = "getUnder" /\ f.seg = AllWildcard /\ f.rest = <<>>
      /\ f.node \in Node /\ f.pos \in Nat \ {0} /\ f.occ \in Nat /\ f.cur \in Nat
  BY DEF Everything, Frame
<1>2. /\ f.seg.kind = "multi" /\ f.seg.match = Key
      /\ f.seg.occ.kind = "wildcard" /\ f.seg.occ.list = <<>>
  BY <1>1 DEF AllWildcard
<1>3. PICK k \in Key \cup {RootKey} : k = md[f.node].key
  BY <1>1 DEF HeapInv, HeapType
<1>4. PICK E \in Seq(Key) : E = ElementsOf(f.node) /\ E = Elements[k]
  BY <1>3, SchemaAssumption DEF SchemaAssumption, ElementsOf
<1>5. Len(E) \in Nat /\ \A p \in 1 .. Len(E) : E[p] \in Key
  BY LenProperties, ElementOfSeq
<1>6. \A p \in 1 .. Len(E) : Len(kids[f.node][E[p]]) \in Nat
  BY <1>1, <1>5, LenProperties DEF HeapInv, HeapType
<1>7. \A p, q \in 1 .. Len(E) : E[p] = E[q] => p = q
  <2>1. DOMAIN E = 1 .. Len(E)
    OBVIOUS
  <2> QED BY <1>4, <2>1, SchemaAssumption DEF SchemaAssumption
<1> QED BY <1>1, <1>2, <1>4, <1>5, <1>6, <1>7

\* A record of a composite that was just entered has passed nothing.
LEMMA NothingDone ==
  ASSUME HeapInv, Rooted, NEW f \in Everything, f.pos = 1, f.occ = 0
  PROVE  Done(f) = {}
<1>1. ASSUME NEW c \in DoneKids(f) PROVE FALSE
  <2>1. c \in InTree /\ \E p \in 1 .. Len(ElementsOf(f.node)) : p = 1 /\ md[c].occurrence < 0
    BY EverythingParts DEF DoneKids, Kids
  <2>2. c \in 1 .. next - 1
    BY <2>1 DEF InTree
  <2>3. c \in Node
    BY <2>2, BoundAssumption DEF HeapInv, HeapType, BoundAssumption, Node
  <2>4. md[c].occurrence \in Nat
    BY <2>3 DEF HeapInv, HeapType
  <2> QED BY <2>1, <2>4
<1> QED BY <1>1 DEF Done

\* A record that is through its keys has passed all children.
LEMMA AllDone ==
  ASSUME HeapInv, Rooted, NEW f \in Everything, f.pos > Len(ElementsOf(f.node))
  PROVE  Done(f) = LeavesUnder(f.node)
<1>1. ASSUME NEW c \in Kids(f.node) PROVE c \in DoneKids(f)
  <2>1. c \in InTree /\ md[c].parent = f.node
    BY DEF Kids
  <2>2. /\ md[c].parent \in Node /\ md[c].key \in Key
        /\ md[c].occurrence + 1 \in 1 .. Len(kids[md[c].parent][md[c].key])
    BY <2>1, InTreeKids DEF TreeIsKids
  <2>3. kids[f.node][md[c].key] # <<>>
    <3>1. Len(<<>>) = 0
      BY EmptySeq
    <3>2. ASSUME kids[f.node][md[c].key] = <<>> PROVE FALSE
      BY <2>1, <2>2, <3>1, <3>2
    <3> QED BY <3>2
  <2>4. Has(f.node, md[c].key)
    BY <2>1, <2>2, <2>3 DEF Rooted
  <2>5. PICK p \in DOMAIN ElementsOf(f.node) : ElementsOf(f.node)[p] = md[c].key
    BY <2>4 DEF Has
  <2>6. p \in 1 .. Len(ElementsOf(f.node)) /\ p < f.pos
    BY EverythingParts
  <2> QED BY <2>5, <2>6 DEF DoneKids
<1>2. DoneKids(f) = Kids(f.node)
  BY <1>1 DEF DoneKids
<1>3. f.node \in Node
  BY EverythingParts
<1> QED BY <1>2, <1>3, LeafSplit DEF Done

\* When the occurrences of a key are through, the next key has passed the same children.
LEMMA NextKeyDone ==
  ASSUME HeapInv, Rooted, NEW f \in Everything,
         f.pos <= Len(ElementsOf(f.node)), Exhausted(f, KeyAt(f))
  PROVE  NextKey(f) \in Everything /\ NextKey(f).node = f.node /\ Done(NextKey(f)) = Done(f)
<1> DEFINE g == NextKey(f)
           E == ElementsOf(f.node)
<1>1. /\ f \in Frame /\ f.fn = "getUnder" /\ f.seg = AllWildcard /\ f.rest = <<>>
      /\ f.node \in Node /\ f.pos \in Nat \ {0} /\ f.occ \in Nat /\ f.cur \in Nat
      /\ f.seg.occ.kind = "wildcard" /\ f.seg.occ.list = <<>>
      /\ Len(E) \in Nat
      /\ \A p \in 1 .. Len(E) : E[p] \in Key /\ Len(kids[f.node][E[p]]) \in Nat
      /\ \A p, q \in 1 .. Len(E) : E[p] = E[q] => p = q
  BY EverythingParts
<1>2. f.pos \in 1 .. Len(E) /\ KeyAt(f) = E[f.pos]
  BY <1>1 DEF KeyAt
<1>3. Len(kids[f.node][KeyAt(f)]) <= f.occ
  <2> DEFINE k == KeyAt(f)
  <2>1. k \in Key /\ Len(kids[f.node][k]) \in Nat
    BY <1>1, <1>2
  <2>2. Has(f.node, k)
    <3>1. f.pos \in DOMAIN E
      BY <1>2, EverythingParts
    <3> QED BY <1>2, <3>1 DEF Has
  <2>3. Len(kids[f.node][k]) <= MaxOccurs[k]
    BY <1>1, <2>1 DEF HeapInv, WithinMaxOccurs
  <2>4. MaxOccurs[k] \in Nat
    BY <2>1, SchemaAssumption DEF SchemaAssumption
  <2>5. f.occ >= getWildcardMax(f.node, k)
    BY <1>1 DEF Exhausted
  <2> HIDE DEF k
  <2>6. getWildcardMax(f.node, k) \in Nat /\ getWildcardMax(f.node, k) >= Len(kids[f.node][k])
    BY <2>1, <2>2, <2>3, <2>4 DEF getWildcardMax, Max2
  <2> QED BY <1>1, <2>1, <2>5, <2>6 DEF k
<1>4. PICK o \in Nat :
        /\ g \in Frame /\ g.fn = f.fn /\ g.node = f.node /\ g.seg = f.seg /\ g.rest = f.rest
        /\ g.pos = f.pos + 1 /\ g.occ = o
        /\ f.pos < Len(E) => o = 0
  <2>1. StartCursor(f.seg.occ) = 0
    BY <1>1 DEF StartCursor
  <2>2. CASE f.pos < Len(E)
    <3>1. g = [f EXCEPT !.pos = f.pos + 1, !.occ = 0, !.cur = 0]
      BY <1>1, <2>1, <2>2 DEF NextKey
    <3> HIDE DEF g
    <3>2. PICK h : h = [f EXCEPT !.pos = f.pos + 1]
      OBVIOUS
    <3>3. /\ h \in Frame /\ h.fn = f.fn /\ h.node = f.node /\ h.seg = f.seg /\ h.rest = f.rest
          /\ h.pos = f.pos + 1
      BY <1>1, <3>2 DEF Frame
    <3>4. g = [h EXCEPT !.occ = 0, !.cur = 0]
      BY <1>1, <3>1, <3>2 DEF Frame
    <3>5. /\ g \in Frame /\ g.fn = h.fn /\ g.node = h.node /\ g.seg = h.seg /\ g.rest = h.rest
          /\ g.pos = h.pos /\ g.occ = 0
      BY <3>3, <3>4 DEF Frame
    <3> QED BY <1>1, <2>2, <3>3, <3>5
  <2>3. CASE ~ (f.pos < Len(E))
    <3>1. g = [f EXCEPT !.pos = f.pos + 1]
      BY <2>3 DEF NextKey
    <3> HIDE DEF g
    <3>2. g \in Frame /\ g.fn = f.fn /\ g.node = f.node /\ g.seg = f.seg /\ g.rest = f.rest
          /\ g.pos = f.pos + 1 /\ g.occ = f.occ
      BY <1>1, <3>1 DEF Frame
    <3> QED BY <1>1, <2>3, <3>2
  <2> QED BY <2>2, <2>3
<1> HIDE DEF g
<1>5. g.node = f.node /\ g.pos = f.pos + 1 /\ g.occ = o
  BY <1>4
<1>6. g \in Everything
  BY <1>1, <1>4 DEF Everything
<1>7. ASSUME NEW c2 \in Kids(f.node), NEW p \in 1 .. Len(E), md[c2].key = E[p]
      PROVE  (p < f.pos \/ (p = f.pos /\ md[c2].occurrence < f.occ))
               <=> (p < f.pos + 1 \/ (p = f.pos + 1 /\ md[c2].occurrence < o))
  <2>1. c2 \in InTree /\ md[c2].parent = f.node
    BY DEF Kids
  <2>2. c2 \in Node /\ md[c2].occurrence \in Nat
    <3>1. c2 \in 1 .. next - 1
      BY <2>1 DEF InTree
    <3>2. c2 \in Node
      BY <3>1, BoundAssumption DEF HeapInv, HeapType, BoundAssumption, Node
    <3> QED BY <3>2 DEF HeapInv, HeapType
  <2>3. md[c2].occurrence + 1 <= Len(kids[f.node][E[p]])
    BY <1>7, <2>1, InTreeKids DEF TreeIsKids
  <2>4. p = f.pos => md[c2].occurrence < f.occ
    BY <1>1, <1>2, <1>3, <2>2, <2>3, SMTT(30)
  <2>5. p = f.pos + 1 => f.pos < Len(E)
    BY <1>1
  <2> QED BY <1>1, <1>4, <2>2, <2>4, <2>5
<1>8. DoneKids(g) = DoneKids(f)
  BY <1>5, <1>7 DEF DoneKids
<1> QED BY <1>5, <1>6, <1>8 DEF Done, g

\* The next occurrence of a key adds the child at this one, if there is one, and what is
\* below it, of which nothing had been passed.
LEMMA NextOccurrenceDone ==
  ASSUME HeapInv, Rooted, NEW f \in Everything, f.pos <= Len(ElementsOf(f.node)),
         NEW a, a = findMetadata(f.node, KeyAt(f), f.occ)
  PROVE  /\ NextOccurrence(f) \in Everything /\ NextOccurrence(f).node = f.node
         /\ a = None => Done(NextOccurrence(f)) = Done(f)
         /\ a # None => /\ a \in Kids(f.node) /\ md[a].key = KeyAt(f)
                        /\ Done(NextOccurrence(f)) = Done(f) \cup LeavesOf(a)
                        /\ Done(f) \cap LeavesOf(a) = {}
<1> DEFINE g == NextOccurrence(f)
           E == ElementsOf(f.node)
           k == KeyAt(f)
<1>1. /\ f \in Frame /\ f.fn = "getUnder" /\ f.seg = AllWildcard /\ f.rest = <<>>
      /\ f.node \in Node /\ f.pos \in Nat \ {0} /\ f.occ \in Nat /\ f.cur \in Nat
      /\ f.seg.occ.kind = "wildcard"
      /\ Len(E) \in Nat
      /\ \A p \in 1 .. Len(E) : E[p] \in Key /\ Len(kids[f.node][E[p]]) \in Nat
      /\ \A p, q \in 1 .. Len(E) : E[p] = E[q] => p = q
  BY EverythingParts
<1>2. f.pos \in 1 .. Len(E) /\ k = E[f.pos] /\ k \in Key
  BY <1>1 DEF KeyAt
<1>3. g = [fn |-> "getUnder", node |-> f.node, seg |-> AllWildcard, rest |-> <<>>,
           pos |-> f.pos, occ |-> f.occ + 1, cur |-> f.cur]
  <2>1. g = [f EXCEPT !.occ = @ + 1]
    BY <1>1 DEF NextOccurrence
  <2>2. f = [fn |-> "getUnder", node |-> f.node, seg |-> AllWildcard, rest |-> <<>>,
             pos |-> f.pos, occ |-> f.occ, cur |-> f.cur]
    BY <1>1 DEF Frame
  <2> HIDE DEF g
  <2> QED BY <2>1, <2>2
<1> HIDE DEF g, k
<1>4. g.node = f.node /\ g.pos = f.pos /\ g.occ = f.occ + 1
  BY <1>3
<1>5. g \in Everything
  BY <1>1, <1>3 DEF Everything, Frame, Fn
<1>6. ASSUME NEW c \in Kids(f.node)
      PROVE  /\ c \in InTree /\ md[c].parent = f.node /\ md[c].occurrence \in Nat
             /\ md[c].key = k => /\ md[c].occurrence < Len(kids[f.node][k])
                                 /\ kids[f.node][k][md[c].occurrence + 1] = c
  <2>1. c \in InTree /\ md[c].parent = f.node
    BY DEF Kids
  <2>2. md[c].occurrence \in Nat
    <3>1. c \in 1 .. next - 1
      BY <2>1 DEF InTree
    <3>2. c \in Node
      BY <3>1, BoundAssumption DEF HeapInv, HeapType, BoundAssumption, Node
    <3> QED BY <3>2 DEF HeapInv, HeapType
  <2>3. ASSUME md[c].key = k
        PROVE  /\ md[c].occurrence < Len(kids[f.node][k])
               /\ kids[f.node][k][md[c].occurrence + 1] = c
    <3>1. /\ md[c].occurrence + 1 \in 1 .. Len(kids[f.node][k])
          /\ kids[f.node][k][md[c].occurrence + 1] = c
      BY <2>1, <2>3, InTreeKids DEF TreeIsKids
    <3>2. Len(kids[f.node][k]) \in Nat
      BY <1>1, <1>2
    <3> QED BY <2>2, <3>1, <3>2
  <2> QED BY <2>1, <2>2, <2>3
<1>7. \A c \in Kids(f.node) :
        c \in DoneKids(g) <=> c \in DoneKids(f) \/ (md[c].key = k /\ md[c].occurrence = f.occ)
  <2> SUFFICES ASSUME NEW c \in Kids(f.node)
               PROVE  c \in DoneKids(g) <=>
                        c \in DoneKids(f) \/ (md[c].key = k /\ md[c].occurrence = f.occ)
    OBVIOUS
  <2>1. md[c].occurrence \in Nat
    BY <1>6
  <2>2. md[c].occurrence < f.occ + 1 <=> md[c].occurrence < f.occ \/ md[c].occurrence = f.occ
    BY <1>1, <2>1
  <2> QED BY <1>2, <1>4, <2>2 DEF DoneKids
<1>8. DoneKids(g) \subseteq Kids(f.node) /\ DoneKids(f) \subseteq Kids(f.node)
  BY <1>4 DEF DoneKids
<1>9. CASE a = None
  <2>1. f.occ >= Len(kids[f.node][k])
    BY <1>1, <1>2, <1>9, FindMetadataKind DEF k
  <2>2. Len(kids[f.node][k]) \in Nat
    BY <1>1, <1>2
  <2>3. \A c \in Kids(f.node) : ~ (md[c].key = k /\ md[c].occurrence = f.occ)
    BY <1>1, <1>6, <2>1, <2>2
  <2>4. DoneKids(g) = DoneKids(f)
    BY <1>7, <1>8, <2>3
  <2> QED BY <1>4, <1>5, <1>9, <2>4 DEF Done, g
<1>10. CASE a # None
  <2>1. f.occ < Len(kids[f.node][k]) /\ a = kids[f.node][k][f.occ + 1]
    <3>1. f.occ < Len(kids[f.node][k])
      BY <1>1, <1>2, <1>10, FindMetadataKind DEF k
    <3> QED BY <3>1 DEF findMetadata, k
  <2>2. f.occ + 1 \in 1 .. Len(kids[f.node][k])
    BY <1>1, <1>2, <2>1
  <2>3. a \in InTree /\ md[a].key = k /\ md[a].parent = f.node /\ md[a].occurrence = f.occ
    <3>1. PICK n \in Node, j \in Key : n = f.node /\ j = k
      BY <1>1, <1>2
    <3>2. PICK i \in 1 .. Len(kids[n][j]) : i = f.occ + 1
      BY <2>2, <3>1
    <3>3. /\ md[kids[n][j][i]].key = j /\ md[kids[n][j][i]].parent = n
          /\ md[kids[n][j][i]].occurrence = i - 1
      BY Numbered, ZenonT(30) DEF HeapInv
    <3>4. kids[n][j][i] \in InTree
      BY InTreeKids DEF KidsInTree
    <3>5. a = kids[n][j][i] /\ i - 1 = f.occ
      BY <1>1, <2>1, <3>1, <3>2
    <3> QED BY <3>1, <3>3, <3>4, <3>5
  <2>4. a \in Kids(f.node)
    BY <2>3 DEF Kids
  <2>5. \A c \in Kids(f.node) : md[c].key = k /\ md[c].occurrence = f.occ <=> c = a
    BY <1>6, <2>1, <2>3
  <2>6. a \notin DoneKids(f)
    <3> SUFFICES ASSUME a \in DoneKids(f) PROVE FALSE
      OBVIOUS
    <3>1. PICK p \in 1 .. Len(E) : md[a].key = E[p] /\ (p < f.pos \/ (p = f.pos /\ md[a].occurrence < f.occ))
      BY DEF DoneKids
    <3>2. p = f.pos
      BY <1>1, <1>2, <2>3, <3>1
    <3> QED BY <1>1, <2>3, <3>1, <3>2
  <2>7. DoneKids(g) = DoneKids(f) \cup {a}
    BY <1>7, <1>8, <2>4, <2>5
  <2>8. Done(g) = Done(f) \cup LeavesOf(a)
    BY <2>7 DEF Done
  <2>9. \A c \in DoneKids(f) : LeavesOf(c) \cap LeavesOf(a) = {}
    BY <1>1, <1>8, <2>4, <2>6, LeavesDisjoint
  <2>10. Done(f) \cap LeavesOf(a) = {}
    BY <2>9 DEF Done
  <2> QED BY <1>4, <1>5, <1>10, <2>3, <2>4, <2>8, <2>10 DEF g, k
<1> QED BY <1>9, <1>10

\* What stands where in the stacks a step makes of s.
LEMMA StackIndices ==
  ASSUME NEW S, NEW s \in Seq(S), s # <<>>, NEW g \in S
  PROVE  /\ Len(s) \in Nat /\ Len(s) >= 1 /\ Head(s) = s[1] /\ \A j \in 1 .. Len(s) : s[j] \in S
         /\ <<g>> \o Tail(s) \in Seq(S) /\ <<g>> \o s \in Seq(S)
         /\ Len(<<g>> \o Tail(s)) = Len(s)
         /\ (<<g>> \o Tail(s))[1] = g
         /\ \A j \in 2 .. Len(s) : (<<g>> \o Tail(s))[j] = s[j]
         /\ Len(<<g>> \o s) = Len(s) + 1
         /\ (<<g>> \o s)[1] = g
         /\ \A j \in 2 .. Len(s) + 1 : (<<g>> \o s)[j] = s[j - 1]
<1>1. Len(s) \in Nat /\ Len(s) >= 1 /\ Head(s) = s[1] /\ \A j \in 1 .. Len(s) : s[j] \in S
  <2>1. Len(s) \in Nat /\ Len(s) # 0
    BY EmptySeq, LenProperties
  <2> QED BY <2>1, HeadTailProperties, ElementOfSeq
<1>2. /\ Tail(s) \in Seq(S) /\ Len(Tail(s)) = Len(s) - 1
      /\ \A j \in 1 .. Len(s) - 1 : Tail(s)[j] = s[j + 1]
  BY HeadTailProperties
<1>3. <<g>> \in Seq(S) /\ Len(<<g>>) = 1 /\ <<g>>[1] = g
  OBVIOUS
<1>4. ASSUME NEW t \in Seq(S)
      PROVE  /\ <<g>> \o t \in Seq(S) /\ Len(<<g>> \o t) = Len(t) + 1
             /\ (<<g>> \o t)[1] = g
             /\ \A j \in 2 .. Len(t) + 1 : (<<g>> \o t)[j] = t[j - 1]
  <2>1. Len(t) \in Nat
    BY LenProperties
  <2>2. <<g>> \o t \in Seq(S) /\ Len(<<g>> \o t) = 1 + Len(t)
    BY <1>3, ConcatProperties
  <2>3. \A j \in 1 .. 1 + Len(t) : (<<g>> \o t)[j] = IF j <= 1 THEN <<g>>[j] ELSE t[j - 1]
    BY <1>3, ConcatProperties
  <2> QED BY <1>3, <2>1, <2>2, <2>3
<1>5. \A j \in 2 .. Len(s) : (<<g>> \o Tail(s))[j] = s[j]
  <2> SUFFICES ASSUME NEW j \in 2 .. Len(s) PROVE (<<g>> \o Tail(s))[j] = s[j]
    OBVIOUS
  <2>1. (<<g>> \o Tail(s))[j] = Tail(s)[j - 1]
    BY <1>1, <1>2, <1>4
  <2>2. Tail(s)[j - 1] = s[(j - 1) + 1]
    BY <1>1, <1>2
  <2> QED BY <1>1, <2>1, <2>2
<1> QED BY <1>1, <1>2, <1>4, <1>5

\* The iterator of a traversal from n: the leaves the records on the stack have passed, each
\* once, when the stack is empty all below n.  Each record is at the occurrence whose
\* composite the record above it is in, and has passed none of the leaves there.
TraversalOf(s, it, n) ==
  /\ s \in Seq(Everything)
  /\ s # <<>> => s[Len(s)].node = n
  /\ \A j \in 2 .. Len(s) :
       /\ Inside(s[j]) /\ s[j - 1].node = findMetadata(s[j].node, KeyAt(s[j]), s[j].occ)
       /\ \A i \in 1 .. j - 1 : Done(s[j]) \cap LeavesUnder(s[i].node) = {}
  /\ \A m : (\E i \in DOMAIN it : it[i] = m) <=>
              IF s = <<>> THEN m \in LeavesUnder(n)
              ELSE \E j \in 1 .. Len(s) : m \in Done(s[j])
  /\ \A i, j \in DOMAIN it : i # j => it[i] # it[j]

\* A record that moves on within its composite passes the leaves that are added.
LEMMA TraversalMoves ==
  ASSUME NEW s, NEW it, NEW n, TraversalOf(s, it, n), s # <<>>,
         NEW g \in Everything, g.node = s[1].node, Done(s[1]) \subseteq Done(g),
         NEW it1,
         \A m : (\E i \in DOMAIN it1 : it1[i] = m) <=> (\E i \in DOMAIN it : it[i] = m) \/ m \in Done(g),
         \A i, j \in DOMAIN it1 : i # j => it1[i] # it1[j]
  PROVE  TraversalOf(<<g>> \o Tail(s), it1, n)
<1> DEFINE t == <<g>> \o Tail(s)
<1>1. s \in Seq(Everything)
  BY DEF TraversalOf
<1>2. /\ Len(s) \in Nat /\ Len(s) >= 1
      /\ t \in Seq(Everything) /\ Len(t) = Len(s) /\ t[1] = g
      /\ \A j \in 2 .. Len(s) : t[j] = s[j]
  BY <1>1, StackIndices
<1>3. t # <<>>
  BY <1>2, EmptySeq
<1> HIDE DEF t
<1>4. \A j \in 1 .. Len(s) : t[j].node = s[j].node
  <2>1. \A j \in 1 .. Len(s) : j = 1 \/ j \in 2 .. Len(s)
    BY <1>2
  <2> QED BY <1>2, <2>1
<1>5. t[Len(t)].node = n
  BY <1>2, <1>4 DEF TraversalOf
<1>6. ASSUME NEW j \in 2 .. Len(t)
      PROVE  /\ Inside(t[j]) /\ t[j - 1].node = findMetadata(t[j].node, KeyAt(t[j]), t[j].occ)
             /\ \A i \in 1 .. j - 1 : Done(t[j]) \cap LeavesUnder(t[i].node) = {}
  <2>1. j \in 2 .. Len(s) /\ t[j] = s[j] /\ j - 1 \in 1 .. Len(s)
    BY <1>2
  <2>2. \A i \in 1 .. j - 1 : i \in 1 .. Len(s)
    BY <1>2
  <2> QED BY <1>4, <2>1, <2>2 DEF TraversalOf
<1>7. ASSUME NEW m
      PROVE  (\E i \in DOMAIN it1 : it1[i] = m) <=> \E j \in 1 .. Len(t) : m \in Done(t[j])
  <2>1. (\E i \in DOMAIN it : it[i] = m) <=> \E j \in 1 .. Len(s) : m \in Done(s[j])
    BY DEF TraversalOf
  <2>2. 1 \in 1 .. Len(s) /\ \A j \in 1 .. Len(s) : j = 1 \/ j \in 2 .. Len(s)
    BY <1>2
  <2> QED BY <1>2, <2>1, <2>2
<1>8. TraversalOf(t, it1, n)
  BY <1>2, <1>3, <1>5, <1>6, <1>7 DEF TraversalOf
<1> QED BY <1>8 DEF t

\* The composite at the occurrence of the top record is entered.
LEMMA TraversalEnters ==
  ASSUME HeapInv, Rooted, NEW s, NEW it, NEW n, TraversalOf(s, it, n), s # <<>>,
         Inside(s[1]), NEW g \in Everything, Done(g) = {},
         g.node = findMetadata(s[1].node, KeyAt(s[1]), s[1].occ),
         IsComposite(md[g.node].key)
  PROVE  TraversalOf(<<g>> \o s, it, n)
<1> DEFINE t == <<g>> \o s
<1>1. s \in Seq(Everything)
  BY DEF TraversalOf
<1>2. /\ Len(s) \in Nat /\ Len(s) >= 1 /\ s[1] \in Everything
      /\ t \in Seq(Everything) /\ Len(t) = Len(s) + 1 /\ t[1] = g
      /\ \A j \in 2 .. Len(s) + 1 : t[j] = s[j - 1]
  BY <1>1, StackIndices
<1>3. t # <<>>
  BY <1>2, EmptySeq
<1> HIDE DEF t
<1>4. t[Len(t)].node = n
  BY <1>2 DEF TraversalOf
<1>5. /\ g.node \in Kids(s[1].node) /\ Done(s[1]) \cap LeavesUnder(g.node) = {}
      /\ LeavesUnder(g.node) \subseteq LeavesUnder(s[1].node)
  <2>1. /\ g.node \in Kids(s[1].node)
        /\ Done(s[1]) \cap LeavesOf(g.node) = {}
    BY <1>2, NextOccurrenceDone DEF Inside
  <2>2. LeavesOf(g.node) = LeavesUnder(g.node)
    BY DEF LeavesOf
  <2>3. s[1].node \in Node
    BY <1>2, EverythingParts
  <2>4. LeavesUnder(s[1].node) = UNION {LeavesOf(c) : c \in Kids(s[1].node)}
    BY <2>3, LeafSplit
  <2> QED BY <2>1, <2>2, <2>4
<1>6. ASSUME NEW j \in 2 .. Len(t)
      PROVE  /\ Inside(t[j]) /\ t[j - 1].node = findMetadata(t[j].node, KeyAt(t[j]), t[j].occ)
             /\ \A i \in 1 .. j - 1 : Done(t[j]) \cap LeavesUnder(t[i].node) = {}
  <2>1. PICK l \in 1 .. Len(s) : l = j - 1 /\ t[j] = s[l]
    BY <1>2
  <2>2. CASE l = 1
    <3>1. t[j - 1] = g /\ \A i \in 1 .. j - 1 : i = 1
      BY <1>2, <2>1, <2>2
    <3> QED BY <1>2, <1>5, <2>1, <2>2, <3>1
  <2>3. CASE l # 1
    <3>1. l \in 2 .. Len(s) /\ t[j - 1] = s[l - 1]
      BY <1>2, <2>1, <2>3
    <3>2. /\ Inside(s[l]) /\ s[l - 1].node = findMetadata(s[l].node, KeyAt(s[l]), s[l].occ)
          /\ \A i \in 1 .. l - 1 : Done(s[l]) \cap LeavesUnder(s[i].node) = {}
      BY <3>1 DEF TraversalOf
    <3>3. ASSUME NEW i \in 1 .. j - 1
          PROVE  Done(s[l]) \cap LeavesUnder(t[i].node) = {}
      <4>1. CASE i = 1
        <5>1. 1 \in 1 .. l - 1
          BY <1>2, <3>1
        <5>2. Done(s[l]) \cap LeavesUnder(s[1].node) = {}
          BY <3>2, <5>1
        <5> QED BY <1>2, <1>5, <4>1, <5>2
      <4>2. CASE i # 1
        <5>1. i \in 1 .. l /\ l \in Nat /\ l <= Len(s)
          BY <1>2, <2>1
        <5>2. i - 1 \in 1 .. l - 1 /\ i \in 2 .. Len(s) + 1
          BY <1>2, <4>2, <5>1
        <5>3. t[i] = s[i - 1]
          BY <1>2, <5>2
        <5> QED BY <3>2, <5>2, <5>3
      <4> QED BY <4>1, <4>2
    <3> QED BY <2>1, <3>1, <3>2, <3>3
  <2> QED BY <2>2, <2>3
<1>7. ASSUME NEW m
      PROVE  (\E i \in DOMAIN it : it[i] = m) <=> \E j \in 1 .. Len(t) : m \in Done(t[j])
  <2>1. (\E i \in DOMAIN it : it[i] = m) <=> \E j \in 1 .. Len(s) : m \in Done(s[j])
    BY DEF TraversalOf
  <2>2. ASSUME NEW j \in 1 .. Len(s), m \in Done(s[j])
        PROVE  \E l \in 1 .. Len(t) : m \in Done(t[l])
    <3>1. j + 1 \in 2 .. Len(s) + 1 /\ j + 1 \in 1 .. Len(t) /\ (j + 1) - 1 = j
      BY <1>2
    <3> QED BY <1>2, <2>2, <3>1
  <2>3. ASSUME NEW j \in 1 .. Len(t), m \in Done(t[j])
        PROVE  \E l \in 1 .. Len(s) : m \in Done(s[l])
    <3>1. j # 1
      BY <1>2, <2>3
    <3>2. j \in 2 .. Len(s) + 1 /\ j - 1 \in 1 .. Len(s)
      BY <1>2, <3>1
    <3> QED BY <1>2, <2>3, <3>2
  <2> QED BY <2>1, <2>2, <2>3
<1>8. TraversalOf(t, it, n)
  BY <1>2, <1>3, <1>4, <1>6, <1>7 DEF TraversalOf
<1> QED BY <1>8 DEF t

\* A record that is through returns: all leaves below its composite are in the iterator,
\* and its caller has passed them when it goes on.
LEMMA TraversalLeaves ==
  ASSUME HeapInv, Rooted, NEW s, NEW it, NEW n, TraversalOf(s, it, n), s # <<>>,
         s[1].pos > Len(ElementsOf(s[1].node)), IsComposite(md[s[1].node].key)
  PROVE  /\ Len(s) = 1 => TraversalOf(<<>>, it, n)
         /\ Len(s) # 1 => \A c \in Nat :
              TraversalOf(<<NextOccurrence([s[2] EXCEPT !.cur = c])>> \o Tail(Tail(s)), it, n)
<1>1. s \in Seq(Everything)
  BY DEF TraversalOf
<1>2. Len(s) \in Nat /\ Len(s) >= 1 /\ \A j \in 1 .. Len(s) : s[j] \in Everything
  BY <1>1, StackParts, StackIndices
<1>3. Done(s[1]) = LeavesUnder(s[1].node)
  BY <1>2, AllDone
<1>4. ASSUME Len(s) = 1
      PROVE  TraversalOf(<<>>, it, n)
  <2>1. s[1].node = n
    BY <1>4 DEF TraversalOf
  <2>2. \A m : (\E i \in DOMAIN it : it[i] = m) <=> m \in LeavesUnder(n)
    <3>1. \A j \in 1 .. Len(s) : j = 1
      BY <1>4
    <3>2. 1 \in 1 .. Len(s)
      BY <1>2
    <3>3. \A m : (\E i \in DOMAIN it : it[i] = m) <=> \E j \in 1 .. Len(s) : m \in Done(s[j])
      BY DEF TraversalOf
    <3> QED BY <1>3, <2>1, <3>1, <3>2, <3>3
  <2>3. <<>> \in Seq(Everything) /\ Len(<<>>) = 0
    BY EmptySeq
  <2>4. \A j \in 2 .. Len(<<>>) : FALSE
    BY <2>3
  <2> QED BY <2>2, <2>3, <2>4 DEF TraversalOf
<1>5. ASSUME Len(s) # 1, NEW c \in Nat
      PROVE  TraversalOf(<<NextOccurrence([s[2] EXCEPT !.cur = c])>> \o Tail(Tail(s)), it, n)
  <2>0. Len(s) >= 2 /\ 2 \in 2 .. Len(s) /\ 2 \in 1 .. Len(s)
    <3>1. PICK l \in Nat : l = Len(s) /\ l >= 1 /\ l # 1
      BY <1>2, <1>5
    <3>2. l >= 2 /\ 2 \in 2 .. l /\ 2 \in 1 .. l
      BY ONLY <3>1
    <3> QED BY <3>1, <3>2
  <2>1. PICK f \in Everything : f = s[2] /\ 2 \in 2 .. Len(s)
    BY <1>2, <2>0
  <2>2. PICK b : b = [f EXCEPT !.cur = c]
    OBVIOUS
  <2>3. /\ b \in Everything /\ b.node = f.node /\ b.pos = f.pos /\ b.occ = f.occ
    BY <2>2 DEF Everything, Frame
  <2>4. KeyAt(b) = KeyAt(f) /\ Done(b) = Done(f)
    <3>1. DoneKids(b) = DoneKids(f)
      BY <2>3 DEF DoneKids
    <3> QED BY <2>3, <3>1 DEF KeyAt, Done
  <2> DEFINE a == s[1].node
             g == NextOccurrence(b)
  <2>5. Inside(f) /\ a = findMetadata(f.node, KeyAt(f), f.occ)
    BY <2>1 DEF TraversalOf
  <2>6. a # None /\ f.pos <= Len(ElementsOf(f.node))
    BY <2>5 DEF Inside
  <2>7. g \in Everything /\ g.node = f.node /\ Done(g) = Done(f) \cup LeavesOf(a)
    <3> HIDE DEF a
    <3> QED BY <2>3, <2>4, <2>5, <2>6, NextOccurrenceDone
  <2>8. LeavesOf(a) = Done(s[1])
    BY <1>3 DEF LeavesOf
  <2> HIDE DEF a, g
  <2> DEFINE r == Tail(s)
             t == <<g>> \o Tail(r)
  <2>9. /\ r \in Seq(Everything) /\ Len(r) = Len(s) - 1
        /\ \A j \in 1 .. Len(s) - 1 : r[j] = s[j + 1]
    BY <1>1, HeadTailProperties
  <2>10. r # <<>>
    <3>1. Len(r) # 0
      BY <1>2, <2>0, <2>9
    <3> QED BY <3>1, EmptySeq
  <2>11. /\ t \in Seq(Everything) /\ Len(t) = Len(s) - 1 /\ t[1] = g
         /\ \A j \in 2 .. Len(r) : t[j] = r[j]
    BY <2>7, <2>9, <2>10, StackIndices
  <2> HIDE DEF r, t
  <2>12. Len(t) >= 1 /\ \A j \in 2 .. Len(t) : t[j] = s[j + 1]
    BY <1>2, <1>5, <2>9, <2>11
  <2>13. t # <<>>
    BY <2>12, EmptySeq
  <2>14. \A j \in 1 .. Len(t) : t[j].node = s[j + 1].node
    <3>1. \A j \in 1 .. Len(t) : j = 1 \/ j \in 2 .. Len(t)
      BY <1>2, <2>11
    <3> QED BY <2>1, <2>7, <2>11, <2>12, <3>1
  <2>15. t[Len(t)].node = n
    <3>1. Len(t) \in 1 .. Len(t) /\ Len(t) + 1 = Len(s)
      BY <1>2, <1>5, <2>11
    <3> QED BY <2>14, <3>1 DEF TraversalOf
  <2>16. ASSUME NEW j \in 2 .. Len(t)
        PROVE  /\ Inside(t[j]) /\ t[j - 1].node = findMetadata(t[j].node, KeyAt(t[j]), t[j].occ)
               /\ \A i \in 1 .. j - 1 : Done(t[j]) \cap LeavesUnder(t[i].node) = {}
    <3>1. PICK l \in 2 .. Len(s) : l = j + 1 /\ t[j] = s[l] /\ j - 1 \in 1 .. Len(t) /\ (j - 1) + 1 = l - 1
      BY <1>2, <2>11, <2>12
    <3>2. /\ Inside(s[l]) /\ s[l - 1].node = findMetadata(s[l].node, KeyAt(s[l]), s[l].occ)
          /\ \A i \in 1 .. l - 1 : Done(s[l]) \cap LeavesUnder(s[i].node) = {}
      BY <3>1 DEF TraversalOf
    <3>3. t[j - 1].node = s[l - 1].node
      BY <2>14, <3>1
    <3>4. ASSUME NEW i \in 1 .. j - 1
          PROVE  Done(s[l]) \cap LeavesUnder(t[i].node) = {}
      <4>1. i \in 1 .. Len(t) /\ i + 1 \in 1 .. l - 1
        BY <1>2, <2>11, <3>1
      <4> QED BY <2>14, <3>2, <4>1
    <3> QED BY <3>1, <3>2, <3>3, <3>4
  <2>17. ASSUME NEW m
         PROVE  (\E i \in DOMAIN it : it[i] = m) <=> \E j \in 1 .. Len(t) : m \in Done(t[j])
    <3>1. (\E i \in DOMAIN it : it[i] = m) <=> \E j \in 1 .. Len(s) : m \in Done(s[j])
      BY DEF TraversalOf
    <3>2. Done(t[1]) = Done(s[1]) \cup Done(s[2])
      BY <2>1, <2>7, <2>8, <2>11
    <3>3. ASSUME NEW j \in 1 .. Len(s), m \in Done(s[j])
          PROVE  \E l \in 1 .. Len(t) : m \in Done(t[l])
      <4>1. CASE j \in {1, 2}
        <5>1. 1 \in 1 .. Len(t)
          BY <2>12
        <5> QED BY <3>2, <3>3, <4>1, <5>1
      <4>2. CASE j \notin {1, 2}
        <5>1. j - 1 \in 2 .. Len(t) /\ j - 1 \in 1 .. Len(t) /\ (j - 1) + 1 = j
          BY <1>2, <2>11, <4>2
        <5> QED BY <2>12, <3>3, <5>1
      <4> QED BY <4>1, <4>2
    <3>4. ASSUME NEW j \in 1 .. Len(t), m \in Done(t[j])
          PROVE  \E l \in 1 .. Len(s) : m \in Done(s[l])
      <4>1. CASE j = 1
        <5>1. 1 \in 1 .. Len(s) /\ 2 \in 1 .. Len(s)
          BY <1>2, <2>1
        <5> QED BY <3>2, <3>4, <4>1, <5>1
      <4>2. CASE j # 1
        <5>1. j \in 2 .. Len(t) /\ j + 1 \in 1 .. Len(s)
          BY <1>2, <2>11, <4>2
        <5> QED BY <2>12, <3>4, <5>1
      <4> QED BY <4>1, <4>2
    <3> QED BY <3>1, <3>3, <3>4
  <2>18. TraversalOf(t, it, n)
    BY <2>11, <2>13, <2>15, <2>16, <2>17 DEF TraversalOf
  <2> QED BY <2>1, <2>2, <2>18 DEF t, g, r
<1> QED BY <1>4, <1>5

\* A call that may not create leaves the objects as they are and answers what it finds.
LEMMA NothingCreated ==
  ASSUME HeapInv, NEW n \in Node, NEW k \in Key, NEW o,
         CreateMissing(n, k, o, FALSE)
  PROVE  UNCHANGED heap /\ Answer(n, k, o, FALSE) = findMetadata(n, k, o)
<1>1. next \in Nat /\ MaxNode \in Nat /\ next <= MaxNode + 1
  BY BoundAssumption DEF HeapInv, HeapType, BoundAssumption
<1>2. Missing(n, k, o, FALSE) = 0
  BY DEF Missing
<1>3. Min2(Missing(n, k, o, FALSE), Supply) = 0
  <2>1. Supply \in Nat
    BY <1>1 DEF Supply
  <2>2. \A x \in Nat : Min2(0, x) = 0
    BY DEF Min2
  <2> QED BY <1>2, <2>1, <2>2
<1>4. /\ kids' = [kids EXCEPT ![n][k] = kids[n][k] \o [i \in 1 .. 0 |-> next + i - 1]]
      /\ md' = [m \in Node |-> IF m \in next .. next + 0 - 1
                               THEN [key |-> k, parent |-> n,
                                     occurrence |-> Len(kids[n][k]) + (m - next)]
                               ELSE md[m]]
      /\ next' = next + 0
  BY <1>3 DEF CreateMissing
<1>5. md' = md /\ next' = next
  <2>1. \A m : m \notin next .. next + 0 - 1
    BY <1>1
  <2>2. next' = next
    BY <1>1, <1>4
  <2>3. md' = [m \in Node |-> md[m]]
    BY <1>4, <2>1
  <2>4. md = [m \in Node |-> md[m]]
    BY DEF HeapInv, HeapType
  <2> QED BY <2>2, <2>3, <2>4
<1>6. kids' = kids
  <2>1. [i \in 1 .. 0 |-> next + i - 1] = <<>>
    <3>1. [i \in 1 .. 0 |-> next + i - 1] \in [1 .. 0 -> Nat]
      <4>1. \A i \in 1 .. 0 : FALSE
        OBVIOUS
      <4> QED BY <4>1
    <3> DEFINE e == [i \in 1 .. 0 |-> next + i - 1]
    <3> HIDE DEF e
    <3>2. e \in Seq(Nat) /\ Len(e) = 0
      BY <3>1, FunctionIsSeq DEF e
    <3>3. e = <<>>
      BY <3>2, EmptySeq
    <3> QED BY <3>3 DEF e
  <2>2. kids[n][k] \in Seq(Node)
    BY DEF HeapInv, HeapType
  <2>3. kids[n][k] \o <<>> = kids[n][k]
    BY <2>2, ConcatEmptySeq
  <2>4. kids' = [kids EXCEPT ![n][k] = kids[n][k]]
    BY <1>4, <2>1, <2>3
  <2> QED BY <2>4 DEF HeapInv, HeapType
<1> QED BY <1>2, <1>5, <1>6 DEF heap, Answer

\* A traversal depends on the objects only.
LEMMA SameTraversal ==
  ASSUME HeapInv, Rooted, HeapInv', Rooted', UNCHANGED heap, NEW s, NEW it, NEW n
  PROVE  TraversalOf(s, it, n)' <=> TraversalOf(s, it, n)
<1>1. kids' = kids /\ md' = md /\ next' = next
  BY DEF heap
<1>2. InTree' = InTree
  BY SameInTree
<1>3. \A m : Below(m)' = Below(m)
  <2> TAKE m
  <2> QED BY <1>1, SameBelow
<1>4. \A m : LeavesUnder(m)' = LeavesUnder(m)
  BY <1>1, <1>2, <1>3 DEF LeavesUnder
<1>5. \A m : LeavesOf(m)' = LeavesOf(m)
  BY <1>1, <1>4 DEF LeavesOf
<1>6. \A f : DoneKids(f)' = DoneKids(f)
  BY <1>1, <1>2 DEF DoneKids, Kids, ElementsOf
<1>7. \A f : Done(f)' = Done(f)
  BY <1>5, <1>6 DEF Done
<1>8. \A f : /\ Inside(f)' <=> Inside(f)
             /\ findMetadata(f.node, KeyAt(f), f.occ)' = findMetadata(f.node, KeyAt(f), f.occ)
  BY <1>1 DEF Inside, KeyAt, ElementsOf, findMetadata
<1> QED BY <1>4, <1>7, <1>8 DEF TraversalOf

\* A call of getMetadata("") that may not create is a traversal of a tree that does not change.
AllInv ==
  call.op = "getMetadata" /\ call.path = <<AllWildcard>> /\ ~ call.create =>
    TraversalOf(stack, iter, call.node) /\ InTree = call.before

\* What the iterator gets when a leaf is found that it does not have yet.
LEMMA Appended ==
  ASSUME NEW it \in Seq(Node), NEW a \in Node,
         \A i, j \in DOMAIN it : i # j => it[i] # it[j],
         ~ \E i \in DOMAIN it : it[i] = a
  PROVE  /\ \A m : (\E i \in DOMAIN Append(it, a) : Append(it, a)[i] = m) <=>
                     (\E i \in DOMAIN it : it[i] = m) \/ m \in {a}
         /\ \A i, j \in DOMAIN Append(it, a) : i # j => Append(it, a)[i] # Append(it, a)[j]
<1>1. PICK l \in Nat : l = Len(it) /\ DOMAIN it = 1 .. l
  BY LenProperties
<1>2. PICK jt : jt = Append(it, a)
  OBVIOUS
<1>3. DOMAIN jt = 1 .. l + 1 /\ jt[l + 1] = a /\ \A i \in 1 .. l : jt[i] = it[i]
  BY <1>1, <1>2
<1>4. \A i \in 1 .. l + 1 : i \in 1 .. l \/ i = l + 1
  BY <1>1
<1>5. l + 1 \in 1 .. l + 1 /\ 1 .. l \subseteq 1 .. l + 1
  BY <1>1
<1> QED BY <1>1, <1>2, <1>3, <1>4, <1>5

\* The traversal goes on with every step.
LEMMA StepKeepsAllInv ==
  ASSUME IInv, Rooted, CallInv, IInv', Rooted', AllInv, Step
  PROVE  AllInv'
<1>1. stack # <<>> /\ call' = call
  BY DEF Step, Return, SkipKey, GetMetadatumLevel, GetOccurrence, DeleteNamed,
         DeleteDescend, DeleteWildcard, Running
<1> SUFFICES ASSUME call.op = "getMetadata", call.path = <<AllWildcard>>, ~ call.create
             PROVE  TraversalOf(stack, iter, call.node)' /\ InTree' = call.before
  BY <1>1 DEF AllInv
<1>2. TraversalOf(stack, iter, call.node) /\ InTree = call.before
  BY DEF AllInv
<1>3. HeapInv /\ HeapInv' /\ iter \in Seq(Node)
  BY DEF IInv
<1>4. PICK s, it, n : s = stack /\ it = iter /\ n = call.node
  OBVIOUS
<1>5. TraversalOf(s, it, n) /\ s \in Seq(Everything) /\ s # <<>> /\ it \in Seq(Node)
  BY <1>1, <1>2, <1>3, <1>4 DEF TraversalOf
<1>6. PICK f \in Everything : f = s[1] /\ f = Top
  BY <1>4, <1>5, StackIndices, StackParts DEF Top
<1>7. /\ f.fn = "getUnder" /\ f.seg.kind = "multi" /\ f.seg.match = Key
      /\ f.seg.occ.kind = "wildcard" /\ f.seg.occ.list = <<>> /\ f.rest = <<>>
      /\ f.node \in Node /\ f.pos \in Nat \ {0} /\ f.occ \in Nat
      /\ Len(ElementsOf(f.node)) \in Nat
      /\ \A p \in 1 .. Len(ElementsOf(f.node)) : ElementsOf(f.node)[p] \in Key
  BY <1>3, EverythingParts
<1>8. Top \in Loops(md, next)
  BY <1>1, <1>3, <1>6, <1>7, StackOfLoops DEF IInv
<1>9. FrameDone(f) <=> f.pos > Len(ElementsOf(f.node))
  BY <1>7 DEF FrameDone, LoopsOverKeys
<1>10. FrameKey(f) = KeyAt(f)
  BY <1>7 DEF FrameKey, KeyAt
<1>11. ~ FrameDone(f) => f.pos <= Len(ElementsOf(f.node)) /\ KeyAt(f) \in Key
  BY <1>7, <1>9 DEF KeyAt
<1>12. Return \/ SkipKey \/ GetOccurrence
  BY <1>6, <1>7 DEF Step, GetMetadatumLevel, DeleteNamed, DeleteDescend, DeleteWildcard, Running
<1>13. ASSUME UNCHANGED heap, NEW t, NEW jt, stack' = t, iter' = jt, TraversalOf(t, jt, n)
       PROVE  TraversalOf(stack, iter, call.node)' /\ InTree' = call.before
  <2>1. TraversalOf(t, jt, n)'
    BY <1>3, <1>13, SameTraversal
  <2>2. call'.node = n
    BY <1>1, <1>4
  <2>3. TraversalOf(stack, iter, call.node)'
    BY <1>13, <2>1, <2>2 DEF TraversalOf
  <2> QED BY <1>2, <1>13, <2>3, SameInTree
<1>14. \A m \in Done(s[1]) : \E i \in DOMAIN it : it[i] = m
  <2>1. 1 \in 1 .. Len(s)
    BY <1>5, StackIndices, LenProperties, EmptySeq
  <2> QED BY <1>5, <2>1 DEF TraversalOf
<1>15. CASE Return
  <2>1. UNCHANGED heap /\ iter' = it /\ stack' = Pop /\ f.pos > Len(ElementsOf(f.node))
    BY <1>4, <1>6, <1>9, <1>15 DEF Return
  <2>2. IsComposite(md[f.node].key) /\ f.cur \in Nat
    BY <1>6, <1>8, LocatedParts DEF Loops
  <2>3. /\ Len(s) = 1 => TraversalOf(<<>>, it, n)
        /\ Len(s) # 1 => \A c \in Nat :
             TraversalOf(<<NextOccurrence([s[2] EXCEPT !.cur = c])>> \o Tail(Tail(s)), it, n)
    BY <1>3, <1>5, <1>6, <2>1, <2>2, TraversalLeaves
  <2>4. CASE Len(s) = 1
    <3>1. stack' = <<>>
      BY <1>4, <2>1, <2>4 DEF Pop
    <3> QED BY <1>13, <2>1, <2>3, <2>4, <3>1
  <2>5. CASE Len(s) # 1
    <3> DEFINE b == [s[2] EXCEPT !.cur = f.cur]
               t == <<NextOccurrence(b)>> \o Tail(Tail(s))
    <3>1. s[2] \in Everything
      BY <1>5, <2>5, StackParts
    <3>2. s[2].fn = "getUnder"
      BY <3>1 DEF Everything
    <3>3. AfterBody(b) = NextOccurrence(b)
      <4>1. b.fn = "getUnder"
        BY <3>1 DEF Everything, Frame
      <4> HIDE DEF b
      <4> QED BY <4>1 DEF AfterBody
    <3>4. Pop = <<AfterBody(b)>> \o Tail(Tail(s))
      BY <1>4, <1>6, <2>5, <3>2 DEF Pop
    <3>5. stack' = t /\ TraversalOf(t, it, n)
      <4> HIDE DEF b
      <4> QED BY <2>1, <2>2, <2>3, <2>5, <3>3, <3>4 DEF b
    <3> HIDE DEF t
    <3> QED BY <1>13, <2>1, <3>5
  <2> QED BY <2>4, <2>5
<1>16. CASE SkipKey
  <2>1. UNCHANGED heap /\ iter' = it /\ ~ FrameDone(f) /\ KeyDone(f)
        /\ stack' = Replace(NextKey(f))
    BY <1>4, <1>6, <1>7, <1>16 DEF SkipKey, LoopsOverKeys
  <2>2. Exhausted(f, KeyAt(f))
    BY <1>7, <1>10, <1>11, <2>1 DEF KeyDone
  <2> DEFINE g == NextKey(f)
  <2>3. g \in Everything /\ g.node = f.node /\ Done(g) = Done(f) \cup {}
    BY <1>3, <1>11, <2>1, <2>2, NextKeyDone
  <2>4. stack' = <<g>> \o Tail(s)
    BY <1>4, <2>1 DEF Replace
  <2> HIDE DEF g
  <2>5. \A i, j \in DOMAIN it : i # j => it[i] # it[j]
    BY <1>5 DEF TraversalOf
  <2>6. TraversalOf(<<g>> \o Tail(s), it, n)
    <3>1. g.node = s[1].node /\ Done(s[1]) \subseteq Done(g) /\ Done(g) \subseteq Done(s[1])
      BY <1>6, <2>3
    <3>2. \A m : (\E i \in DOMAIN it : it[i] = m)
                   <=> (\E i \in DOMAIN it : it[i] = m) \/ m \in Done(g)
      BY <1>14, <3>1
    <3> QED BY <1>5, <2>3, <2>5, <3>1, <3>2, TraversalMoves
  <2> QED BY <1>13, <2>1, <2>4, <2>6
<1>17. CASE GetOccurrence
  <2> DEFINE k == KeyAt(f)
             a == findMetadata(f.node, k, f.occ)
  <2>1. /\ ~ FrameDone(f) /\ ~ KeyDone(f)
        /\ CreateMissing(f.node, k, f.occ, call.create)
    BY <1>6, <1>10, <1>17 DEF GetOccurrence
  <2>2. f.pos <= Len(ElementsOf(f.node)) /\ k \in Key
    BY <1>11, <2>1
  <2>3. call.create = FALSE
    BY DEF IInv
  <2>4. UNCHANGED heap /\ Answer(f.node, k, f.occ, call.create) = a
    <3> HIDE DEF k
    <3>1. CreateMissing(f.node, k, f.occ, FALSE)
      BY <2>1, <2>3
    <3> QED BY <1>3, <1>7, <2>2, <2>3, <3>1, NothingCreated
  <2>5. /\ iter' = IF a # None /\ ~ IsComposite(k) THEN Append(it, a) ELSE it
        /\ stack' = IF a # None /\ IsComposite(k) THEN Push(UnderFrame(a, f))
                    ELSE Replace(AfterBody(f))
    BY <1>4, <1>6, <1>7, <1>10, <1>17, <2>4 DEF GetOccurrence
  <2> DEFINE g == NextOccurrence(f)
  <2>6. AfterBody(f) = g
    BY <1>7 DEF AfterBody
  <2>7. /\ g \in Everything /\ g.node = f.node
        /\ a = None => Done(g) = Done(f)
        /\ a # None => /\ a \in Kids(f.node) /\ md[a].key = k
                       /\ Done(g) = Done(f) \cup LeavesOf(a)
                       /\ Done(f) \cap LeavesOf(a) = {}
    BY <1>3, <2>2, NextOccurrenceDone
  <2> HIDE DEF a, k, g
  <2>8. \A i, j \in DOMAIN it : i # j => it[i] # it[j]
    BY <1>5 DEF TraversalOf
  <2>9. a # None => a \in Node
    <3>1. a # None => a \in 1 .. next - 1
      BY <2>7 DEF Kids, InTree
    <3> QED BY <1>3, <3>1, BoundAssumption DEF HeapInv, HeapType, BoundAssumption, Node
  <2>10. CASE a = None
    <3>1. TraversalOf(<<g>> \o Tail(s), it, n)
      <4>1. g.node = s[1].node /\ Done(s[1]) \subseteq Done(g) /\ Done(g) \subseteq Done(s[1])
        BY <1>6, <2>7, <2>10
      <4>2. \A m : (\E i \in DOMAIN it : it[i] = m)
                     <=> (\E i \in DOMAIN it : it[i] = m) \/ m \in Done(g)
        BY <1>14, <4>1
      <4> QED BY <1>5, <2>7, <2>8, <4>1, <4>2, TraversalMoves
    <3>2. stack' = <<g>> \o Tail(s) /\ iter' = it
      BY <1>4, <2>5, <2>6, <2>10 DEF Replace
    <3> QED BY <1>13, <2>4, <3>1, <3>2
  <2>11. CASE a # None /\ ~ IsComposite(k)
    <3>1. LeavesOf(a) = {a}
      BY <2>7, <2>11 DEF LeavesOf
    <3>2. ~ \E i \in DOMAIN it : it[i] = a
      <4>1. a \notin Done(s[1])
        BY <1>6, <2>7, <2>11, <3>1
      <4>2. a \in LeavesUnder(s[1].node)
        <5>1. LeavesUnder(f.node) = UNION {LeavesOf(c) : c \in Kids(f.node)}
          BY <1>3, <1>7, LeafSplit
        <5> QED BY <1>6, <2>7, <2>11, <3>1, <5>1
      <4>3. ASSUME NEW j \in 2 .. Len(s) PROVE a \notin Done(s[j])
        <5>1. \A i \in 1 .. j - 1 : Done(s[j]) \cap LeavesUnder(s[i].node) = {}
          BY <1>5 DEF TraversalOf
        <5>2. 1 \in 1 .. j - 1
          OBVIOUS
        <5>3. Done(s[j]) \cap LeavesUnder(s[1].node) = {}
          BY <5>1, <5>2
        <5> QED BY <4>2, <5>3
      <4>4. \A j \in 1 .. Len(s) : j = 1 \/ j \in 2 .. Len(s)
        BY <1>5, LenProperties
      <4>5. (\E i \in DOMAIN it : it[i] = a) <=> \E j \in 1 .. Len(s) : a \in Done(s[j])
        BY <1>5 DEF TraversalOf
      <4> QED BY <4>1, <4>3, <4>4, <4>5
    <3>3. /\ \A m : (\E i \in DOMAIN Append(it, a) : Append(it, a)[i] = m) <=>
                      (\E i \in DOMAIN it : it[i] = m) \/ m \in {a}
          /\ \A i, j \in DOMAIN Append(it, a) : i # j => Append(it, a)[i] # Append(it, a)[j]
      BY <1>5, <2>8, <2>9, <2>11, <3>2, Appended
    <3>4. PICK jt : jt = Append(it, a)
      OBVIOUS
    <3>5. TraversalOf(<<g>> \o Tail(s), jt, n)
      <4>1. g.node = s[1].node /\ Done(g) = Done(s[1]) \cup {a}
        BY <1>6, <2>7, <2>11, <3>1
      <4>2. Done(s[1]) \subseteq Done(g)
        BY <4>1
      <4>3. \A m : (\E i \in DOMAIN jt : jt[i] = m)
                     <=> (\E i \in DOMAIN it : it[i] = m) \/ m \in Done(g)
        BY <1>14, <3>3, <3>4, <4>1
      <4>4. \A i, j \in DOMAIN jt : i # j => jt[i] # jt[j]
        BY <3>3, <3>4
      <4> QED BY <1>5, <2>7, <4>1, <4>2, <4>3, <4>4, TraversalMoves
    <3>6. stack' = <<g>> \o Tail(s) /\ iter' = jt
      BY <1>4, <2>5, <2>6, <2>11, <3>4 DEF Replace
    <3> QED BY <1>13, <2>4, <3>5, <3>6
  <2>12. CASE a # None /\ IsComposite(k)
    <3> DEFINE h == UnderFrame(a, f)
    <3>1. h \in Everything /\ h.node = a /\ h.pos = 1 /\ h.occ = 0
      <4>1. [f.seg EXCEPT !.match = Key] = AllWildcard
        BY DEF Everything, AllWildcard
      <4>2. h = [f EXCEPT !.node = a, !.seg = AllWildcard, !.pos = 1, !.occ = 0, !.cur = 0]
        BY <1>7, <4>1 DEF UnderFrame, StartCursor, Everything, Frame
      <4>3. f \in Frame /\ AllWildcard \in Segment
        BY AllWildcardIsPath DEF Everything
      <4> HIDE DEF h
      <4>4. PICK e : e = [f EXCEPT !.node = a, !.seg = AllWildcard, !.pos = 1]
        OBVIOUS
      <4>5. /\ e \in Frame /\ e.fn = "getUnder" /\ e.node = a /\ e.seg = AllWildcard
            /\ e.rest = <<>> /\ e.pos = 1
        <5>1. PICK d : d = [f EXCEPT !.node = a]
          OBVIOUS
        <5>2. d \in Frame /\ d.fn = "getUnder" /\ d.node = a /\ d.rest = <<>>
          BY <1>7, <2>9, <2>12, <4>3, <5>1 DEF Frame
        <5>3. PICK c : c = [d EXCEPT !.seg = AllWildcard]
          OBVIOUS
        <5>4. /\ c \in Frame /\ c.fn = "getUnder" /\ c.node = a /\ c.rest = <<>>
              /\ c.seg = AllWildcard
          BY <4>3, <5>2, <5>3 DEF Frame
        <5>5. e = [c EXCEPT !.pos = 1]
          BY <4>3, <4>4, <5>1, <5>3 DEF Frame
        <5> QED BY <5>4, <5>5 DEF Frame
      <4>6. h = [e EXCEPT !.occ = 0, !.cur = 0]
        BY <4>2, <4>3, <4>4 DEF Frame
      <4> QED BY <4>5, <4>6 DEF Everything, Frame
    <3>2. stack' = <<h>> \o s /\ iter' = it
      BY <1>4, <2>5, <2>12 DEF Push
    <3> HIDE DEF h
    <3>3. Done(h) = {}
      BY <1>3, <3>1, NothingDone
    <3>4. Inside(f) /\ IsComposite(md[h.node].key)
          /\ h.node = findMetadata(f.node, KeyAt(f), f.occ)
      BY <2>2, <2>7, <2>12, <3>1 DEF Inside, a, k
    <3>5. TraversalOf(<<h>> \o s, it, n)
      BY <1>3, <1>5, <1>6, <3>1, <3>3, <3>4, TraversalEnters
    <3> QED BY <1>13, <2>4, <3>2, <3>5
  <2> QED BY <2>10, <2>11, <2>12
<1> QED BY <1>12, <1>15, <1>16, <1>17

\* A call starts a traversal at its composite with an empty iterator.
LEMMA CallKeepsAllInv ==
  ASSUME IInv, Rooted, IInv', Rooted', Call
  PROVE  AllInv'
<1>1. PICK n \in Composites(md, next), path \in Path, create \in BOOLEAN :
           \/ getMetadatum(n, path, create)
           \/ getMetadata(n, path, create)
           \/ deleteMetadata(n, path)
           \/ path = <<AllWildcard>> /\ deleteMetadataEverything(n)
  BY CallShapes
<1>2. n \in Node /\ HeapInv /\ HeapInv'
  BY DEF Composites, IInv
<1>3. CASE getMetadatum(n, path, create) \/ deleteMetadata(n, path) \/ deleteMetadataEverything(n)
  BY <1>3 DEF getMetadatum, deleteMetadata, deleteMetadataEverything, Begin, AllInv
<1>4. CASE getMetadata(n, path, create)
  <2>1. /\ call'.op = "getMetadata" /\ call'.node = n /\ call'.path = path
        /\ call'.create = create /\ call'.before = InTree
        /\ stack' = <<GetFrame(n, path)>> /\ iter' = <<>> /\ UNCHANGED heap
    BY <1>4 DEF getMetadata, Begin
  <2> SUFFICES ASSUME path = <<AllWildcard>>
               PROVE  TraversalOf(stack, iter, call.node)' /\ InTree' = call'.before
    BY <2>1 DEF AllInv
  <2> DEFINE h == GetFrame(n, path)
  <2>2. Head(path) = AllWildcard /\ Tail(path) = <<>>
    OBVIOUS
  <2>3. /\ h \in Everything /\ h.node = n /\ h.pos = 1 /\ h.occ = 0
    <3>1. h = [fn |-> "getUnder", node |-> n, seg |-> AllWildcard, rest |-> <<>>, pos |-> 1,
               occ |-> 0, cur |-> 0]
      BY <2>2 DEF GetFrame, NewFrame, StartCursor, AllWildcard
    <3>2. AllWildcard \in Segment /\ <<>> \in Seq(Segment)
      BY AllWildcardIsPath, EmptySeq
    <3> HIDE DEF h
    <3> QED BY <1>2, <3>1, <3>2 DEF Everything, Frame, Fn
  <2> HIDE DEF h
  <2>4. Done(h) = {}
    BY <1>2, <2>3, NothingDone
  <2>5. PICK t, jt : t = <<h>> /\ jt = <<>>
    OBVIOUS
  <2>6. /\ t \in Seq(Everything) /\ t # <<>> /\ Len(t) = 1 /\ t[1] = h
        /\ DOMAIN jt = {}
    BY <2>3, <2>5
  <2>7. TraversalOf(t, jt, n)
    <3>1. \A j \in 2 .. Len(t) : FALSE
      BY <2>6
    <3>2. \A j \in 1 .. Len(t) : j = 1
      BY <2>6
    <3>3. t[Len(t)].node = n
      BY <2>3, <2>6
    <3> QED BY <2>4, <2>6, <3>1, <3>2, <3>3 DEF TraversalOf
  <2>8. TraversalOf(t, jt, n)'
    BY <1>2, <2>1, <2>7, SameTraversal
  <2>9. stack' = t /\ iter' = jt /\ call'.node = n
    BY <2>1, <2>5 DEF h
  <2>10. TraversalOf(stack, iter, call.node)'
    BY <2>8, <2>9 DEF TraversalOf
  <2> QED BY <2>1, <2>10, SameInTree
<1> QED BY <1>1, <1>3, <1>4

\* getMetadata("") and getMetadata("*[*]") of any composite of any tree answer each leaf
\* below it that is in the tree, once, and change nothing when they may not create.
THEOREM GetsEverything == Spec => []EmptyKeyGetsEverything
<1>1. Init => AllInv
  BY DEF Init, AllInv
<1>2. (IInv /\ Rooted /\ CallInv) /\ (IInv /\ Rooted /\ CallInv)' /\ AllInv /\ [Next]_vars
        => AllInv'
  <2> SUFFICES ASSUME IInv, Rooted, CallInv, (IInv /\ Rooted /\ CallInv)', AllInv, [Next]_vars
               PROVE  AllInv'
    OBVIOUS
  <2>1. CASE UNCHANGED vars
    <3>1. UNCHANGED heap /\ stack' = stack /\ call' = call /\ iter' = iter
      BY <2>1 DEF vars, heap
    <3> SUFFICES ASSUME call.op = "getMetadata", call.path = <<AllWildcard>>, ~ call.create
                 PROVE  TraversalOf(stack, iter, call.node)' /\ InTree' = call.before
      BY <3>1 DEF AllInv
    <3>2. PICK s, it, n : s = stack /\ it = iter /\ n = call.node /\ TraversalOf(s, it, n)
      BY DEF AllInv
    <3>3. TraversalOf(s, it, n)'
      BY <3>1, <3>2, SameTraversal DEF IInv
    <3>4. stack' = s /\ iter' = it /\ call'.node = n
      BY <3>1, <3>2
    <3>5. TraversalOf(stack, iter, call.node)'
      BY <3>3, <3>4 DEF TraversalOf
    <3> QED BY <3>1, <3>5, SameInTree DEF AllInv
  <2>3. CASE Call
    BY <2>3, CallKeepsAllInv
  <2>4. CASE Step
    BY <2>4, StepKeepsAllInv
  <2> QED BY <2>1, <2>3, <2>4 DEF Next
<1>3. AllInv => EmptyKeyGetsEverything
  <2> SUFFICES ASSUME AllInv, Idle("getMetadata"), call.path = <<AllWildcard>>, ~ call.create
               PROVE  /\ {iter[i] : i \in DOMAIN iter} = LeavesUnder(call.node)
                      /\ \A i, j \in DOMAIN iter : i # j => iter[i] # iter[j]
                      /\ InTree = call.before
    BY DEF EmptyKeyGetsEverything
  <2>1. TraversalOf(stack, iter, call.node) /\ InTree = call.before /\ stack = <<>>
    BY DEF AllInv, Idle
  <2>2. \A m : (\E i \in DOMAIN iter : iter[i] = m) <=> m \in LeavesUnder(call.node)
    BY <2>1 DEF TraversalOf
  <2>3. \A m : m \in {iter[i] : i \in DOMAIN iter} <=> \E i \in DOMAIN iter : iter[i] = m
    OBVIOUS
  <2>4. {iter[i] : i \in DOMAIN iter} = LeavesUnder(call.node)
    BY <2>2, <2>3
  <2> QED BY <2>1, <2>4 DEF TraversalOf
<1> QED
  BY <1>1, <1>2, <1>3, CallInvAlways, PTL DEF Spec
=============================================================================
