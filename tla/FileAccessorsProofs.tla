------------------------- MODULE FileAccessorsProofs -------------------------
(***************************************************************************)
(* No change is lost, no other file changes, and what is set in a DIG35    *)
(* document reads back: for any leaves, values, tags, tables, schemas and  *)
(* files.                                                                  *)
(***************************************************************************)
EXTENDS FileAccessors, Induction

-----------------------------------------------------------------------------
\* Elements of a document

\* What getElementsByTagName finds first.
LEMMA FirstOfName ==
  ASSUME NEW doc \in Seq(Elements), NEW tag
  PROVE  /\ FirstNamed(doc, tag) \in 0 .. Len(doc)
         /\ FirstNamed(doc, tag) # 0 =>
              /\ doc[FirstNamed(doc, tag)].tag = tag
              /\ \A i \in 1 .. Len(doc) : doc[i].tag = tag => FirstNamed(doc, tag) <= i
         /\ FirstNamed(doc, tag) = 0 => \A i \in 1 .. Len(doc) : doc[i].tag # tag
  <1> DEFINE at == {i \in DOMAIN doc : doc[i].tag = tag}
  <1>1. at \in SUBSET Nat /\ at = {i \in 1 .. Len(doc) : doc[i].tag = tag}
    OBVIOUS
  <1>2. FirstNamed(doc, tag) = IF at = {} THEN 0 ELSE CHOOSE i \in at : \A j \in at : i <= j
    BY DEF FirstNamed
  <1> HIDE DEF at
  <1>3. at # {} => FirstNamed(doc, tag) \in at /\ \A j \in at : FirstNamed(doc, tag) <= j
    BY <1>1, <1>2, LeastMember
  <1>4. CASE at = {}
    <2>1. FirstNamed(doc, tag) = 0 /\ \A i \in 1 .. Len(doc) : doc[i].tag # tag
      BY <1>1, <1>2, <1>4
    <2> QED BY <2>1
  <1>5. CASE at # {}
    <2>1. /\ FirstNamed(doc, tag) \in 1 .. Len(doc) /\ doc[FirstNamed(doc, tag)].tag = tag
          /\ \A i \in 1 .. Len(doc) : doc[i].tag = tag => FirstNamed(doc, tag) <= i
      BY <1>1, <1>3, <1>5
    <2> QED BY <2>1
  <1> QED BY <1>4, <1>5

LEMMA OnlyFirst ==
  ASSUME NEW doc \in Seq(Elements), NEW tag, NEW n \in 1 .. Len(doc), doc[n].tag = tag,
         \A i \in 1 .. Len(doc) : i < n => doc[i].tag # tag
  PROVE  FirstNamed(doc, tag) = n
  <1>1. FirstNamed(doc, tag) # 0 /\ FirstNamed(doc, tag) \in 1 .. Len(doc)
    BY FirstOfName
  <1>2. doc[FirstNamed(doc, tag)].tag = tag /\ FirstNamed(doc, tag) <= n
    BY <1>1, FirstOfName
  <1> QED BY <1>1, <1>2

\* What nodes there are.
LEMMA KindsOfNode ==
  /\ TextTag \notin Tag
  /\ \A e \in Elements : /\ e.depth \in Nat /\ e.tag \in Tag \cup {TextTag}
                         /\ e.tag = TextTag => e.text \in Content
  /\ \A tag \in Tag, d \in Nat : Node(tag, d, NoText) \in Elements /\ Node(tag, d, NoText).tag = tag
  /\ \A d \in Nat, v \in Content :
       /\ Node(TextTag, d, v) \in Elements
       /\ Node(TextTag, d, v).tag = TextTag /\ Node(TextTag, d, v).text = v
       /\ Node(TextTag, d, v).depth = d
  BY Dig35Assumption DEF Elements, Node

\* The subtree of a node ends behind it, in the document.
LEMMA SubtreeEnds ==
  ASSUME NEW doc \in Seq(Elements), NEW i \in 1 .. Len(doc)
  PROVE  /\ LastUnder(doc, i) \in i .. Len(doc)
         /\ \A j \in i + 1 .. LastUnder(doc, i) : doc[j].depth > doc[i].depth
         /\ LastUnder(doc, i) < Len(doc) => doc[LastUnder(doc, i) + 1].depth <= doc[i].depth
  <1> DEFINE after == {j \in DOMAIN doc : j > i /\ doc[j].depth <= doc[i].depth}
             next == CHOOSE j \in after : \A k \in after : j <= k
             last == LastUnder(doc, i)
  <1>1. after \in SUBSET Nat /\ after = {j \in (i + 1) .. Len(doc) : doc[j].depth <= doc[i].depth}
    OBVIOUS
  <1>2. last = IF after = {} THEN Len(doc) ELSE next - 1
    BY DEF LastUnder
  <1>d. \A j \in 1 .. Len(doc) : doc[j].depth \in Nat
    BY KindsOfNode
  <1> HIDE DEF after, last
  <1>3. after # {} => next \in after /\ \A k \in after : next <= k
    BY <1>1, LeastMember
  <1> HIDE DEF next
  <1>4. CASE after = {}
    <2>1. last = Len(doc)
      BY <1>2, <1>4
    <2>2. ASSUME NEW j \in i + 1 .. last
          PROVE  doc[j].depth > doc[i].depth
      <3>1. j \in (i + 1) .. Len(doc) /\ j \notin after
        BY <1>4, <2>1
      <3> QED BY <1>1, <1>d, <3>1
    <2> QED BY <2>1, <2>2 DEF last
  <1>5. CASE after # {}
    <2>1. next \in (i + 1) .. Len(doc) /\ doc[next].depth <= doc[i].depth
      BY <1>1, <1>3, <1>5
    <2>2. last = next - 1 /\ last + 1 = next /\ last \in i .. Len(doc)
      BY <1>2, <1>5, <2>1
    <2>3. ASSUME NEW j \in i + 1 .. last
          PROVE  doc[j].depth > doc[i].depth
      <3>1. j \in (i + 1) .. Len(doc) /\ ~(next <= j)
        BY <2>1, <2>2
      <3>2. j \notin after
        BY <1>3, <1>5, <3>1
      <3> QED BY <1>1, <1>d, <3>1, <3>2
    <2> QED BY <2>1, <2>2, <2>3 DEF last
  <1> QED BY <1>4, <1>5

\* The first element of a name, and the first node in it.
KeepsFirst(new, old, t) ==
  FirstNamed(old, t) # 0 =>
    /\ FirstNamed(new, t) # 0 /\ new[FirstNamed(new, t)] = old[FirstNamed(old, t)]
    /\ HasChild(old, FirstNamed(old, t)) =>
         /\ HasChild(new, FirstNamed(new, t))
         /\ new[FirstNamed(new, t) + 1] = old[FirstNamed(old, t) + 1]

\* The last child of a node is put into a document: the first of any other name
\* stays what it was, and so does what it begins with, wherever they move.
LEMMA ChildAppended ==
  ASSUME NEW doc \in Seq(Elements), NEW at \in 1 .. Len(doc), NEW name, NEW text,
         Node(name, doc[at].depth + 1, text) \in Elements
  PROVE  LET new == appendChild(doc, at, name, text)
             p == LastUnder(doc, at)
         IN  /\ new \in Seq(Elements) /\ Len(new) = Len(doc) + 1
             /\ \A i \in 1 .. p : new[i] = doc[i]
             /\ new[p + 1] = Node(name, doc[at].depth + 1, text)
             /\ FirstNamed(new, name) # 0
             /\ \A t : t # name => KeepsFirst(new, doc, t) /\ (FirstNamed(doc, t) = 0 => FirstNamed(new, t) = 0)
  <1> DEFINE p == LastUnder(doc, at)
             e == Node(name, doc[at].depth + 1, text)
             one == <<e>>
             new == appendChild(doc, at, name, text)
  <1>1. p \in Nat /\ at <= p /\ p <= Len(doc) /\ Len(doc) \in Nat
    BY SubtreeEnds
  <1>2. e \in Elements /\ e.tag = name
    BY DEF Node
  <1>3. new = Splice(doc, p, one)
    <2>1. new = SubSeq(doc, 1, (p + 1) - 1) \o one \o SubSeq(doc, p + 1, Len(doc))
      BY DEF appendChild, InsertAt
    <2>2. (p + 1) - 1 = p
      BY <1>1
    <2> QED BY <2>1, <2>2 DEF Splice
  <1>b. /\ \A j \in at + 1 .. p : doc[j].depth > doc[at].depth
        /\ p < Len(doc) => doc[p + 1].depth <= doc[at].depth
    BY SubtreeEnds
  <1> HIDE DEF p, e
  <1>4. one \in Seq(Elements) /\ Len(one) = 1 /\ one[1] = e
    BY <1>2
  <1> HIDE DEF one, new
  <1>5. new \in Seq(Elements) /\ Len(new) = Len(doc) + 1
    <2>1. one \in Seq(Elements)
      BY <1>4
    <2>2. new \in Seq(Elements) /\ Len(new) = Len(doc) + Len(one)
      BY <1>1, <1>3, <2>1, Spliced
    <2> QED BY <1>4, <2>2
  <1>a. ASSUME NEW i \in 1 .. Len(doc) + Len(one)
        PROVE  new[i] = IF i <= p THEN doc[i] ELSE IF i <= p + Len(one) THEN one[i - p]
                        ELSE doc[i - Len(one)]
    <2>1. one \in Seq(Elements) /\ p \in Nat /\ p <= Len(doc)
      BY <1>1, <1>4
    <2>2. Splice(doc, p, one)[i] = IF i <= p THEN doc[i]
                                   ELSE IF i <= p + Len(one) THEN one[i - p]
                                   ELSE doc[i - Len(one)]
      BY <2>1, Spliced
    <2> QED BY <1>3, <2>2
  <1>6. ASSUME NEW i \in 1 .. Len(doc) + 1
        PROVE  new[i] = IF i <= p THEN doc[i] ELSE IF i = p + 1 THEN e ELSE doc[i - 1]
    <2>1. i \in Nat /\ (i = p + 1 => i - p = 1)
      BY <1>1
    <2>2. ~(i <= p) /\ i <= p + 1 => i = p + 1
      BY <1>1, <2>1
    <2> QED BY <1>1, <1>4, <1>a, <2>1, <2>2
  <1>7. new[p + 1] = e /\ FirstNamed(new, name) # 0
    <2>1. p + 1 \in 1 .. Len(new) /\ p + 1 \in 1 .. Len(doc) + 1 /\ ~(p + 1 <= p)
      BY <1>1, <1>5
    <2>2. new[p + 1] = e
      BY <1>6, <2>1
    <2> QED BY <1>2, <1>5, <2>1, <2>2, FirstOfName
  <1>c. \A i \in 1 .. p : new[i] = doc[i]
    BY <1>1, <1>6
  <1>8. ASSUME NEW t, t # name, FirstNamed(doc, t) # 0
        PROVE  KeepsFirst(new, doc, t)
    <2> DEFINE f == FirstNamed(doc, t)
    <2>1. /\ f \in 1 .. Len(doc) /\ doc[f].tag = t
          /\ \A i \in 1 .. Len(doc) : i < f => doc[i].tag # t
      <3>1. f \in 1 .. Len(doc) /\ doc[f].tag = t
        BY <1>8, FirstOfName
      <3>2. \A i \in 1 .. Len(doc) : doc[i].tag = t => f <= i
        BY <1>8, FirstOfName
      <3> HIDE DEF f
      <3> QED BY <3>1, <3>2
    <2>k. HasChild(doc, f) <=> (f < Len(doc) /\ doc[f + 1].depth > doc[f].depth)
      BY <2>1 DEF HasChild
    <2>d. \A j \in 1 .. Len(doc) : doc[j].depth \in Nat
      BY KindsOfNode
    <2> HIDE DEF f
    <2>2. CASE f <= p
      <3>1. f \in 1 .. Len(new) /\ new[f] = doc[f]
        BY <1>1, <1>5, <1>6, <2>1, <2>2
      <3>2. \A i \in 1 .. Len(new) : i < f => new[i].tag # t
        <4> SUFFICES ASSUME NEW i \in 1 .. Len(new), i < f PROVE new[i].tag # t
          OBVIOUS
        <4>1. i \in 1 .. Len(doc) + 1 /\ i \in 1 .. Len(doc) /\ i <= p
          BY <1>1, <1>5, <2>1, <2>2
        <4> QED BY <1>6, <2>1, <4>1
      <3>3. FirstNamed(new, t) = f
        BY <1>5, <2>1, <3>1, <3>2, OnlyFirst
      <3>4. ASSUME f < Len(doc), doc[f + 1].depth > doc[f].depth
            PROVE  HasChild(new, f) /\ new[f + 1] = doc[f + 1]
        <4>1. f # p
          <5> SUFFICES ASSUME f = p PROVE FALSE
            OBVIOUS
          <5>1. doc[p + 1].depth <= doc[at].depth /\ doc[at].depth \in Nat /\ doc[p].depth \in Nat
                /\ doc[p + 1].depth \in Nat
            BY <1>1, <1>b, <2>1, <2>d, <3>4
          <5>2. CASE p = at
            BY <3>4, <5>1, <5>2
          <5>3. CASE p # at
            <6>1. p \in at + 1 .. p
              BY <1>1, <5>3
            <6>2. doc[p].depth > doc[at].depth
              BY <1>b, <6>1
            <6> QED BY <3>4, <5>1, <6>2
          <5> QED BY <5>2, <5>3
        <4>2. f + 1 \in 1 .. Len(doc) + 1 /\ f + 1 <= p /\ f < Len(new)
          BY <1>1, <1>5, <2>1, <2>2, <3>4, <4>1
        <4>3. new[f + 1] = doc[f + 1]
          BY <1>6, <4>2
        <4> QED BY <3>1, <3>4, <4>2, <4>3 DEF HasChild
      <3> QED BY <2>1, <2>k, <3>1, <3>3, <3>4 DEF f, KeepsFirst
    <2>3. CASE ~(f <= p)
      <3>1. /\ f + 1 \in 1 .. Len(new) /\ f + 1 \in 1 .. Len(doc) + 1
            /\ ~(f + 1 <= p) /\ f + 1 # p + 1 /\ (f + 1) - 1 = f
        BY <1>1, <1>5, <2>1, <2>3
      <3>2. new[f + 1] = doc[f]
        BY <1>6, <3>1
      <3>3. \A i \in 1 .. Len(new) : i < f + 1 => new[i].tag # t
        <4> SUFFICES ASSUME NEW i \in 1 .. Len(new), i < f + 1 PROVE new[i].tag # t
          OBVIOUS
        <4>1. i \in 1 .. Len(doc) + 1
          BY <1>5
        <4>2. CASE i <= p
          <5>1. i \in 1 .. Len(doc) /\ i < f
            BY <1>1, <2>1, <2>3, <4>1, <4>2
          <5> QED BY <1>6, <2>1, <4>1, <4>2, <5>1
        <4>3. CASE i = p + 1
          <5>1. ~(i <= p)
            BY <1>1, <4>3
          <5> QED BY <1>2, <1>6, <1>8, <4>1, <4>3, <5>1
        <4>4. CASE ~(i <= p) /\ i # p + 1
          <5>1. i - 1 \in 1 .. Len(doc) /\ i - 1 < f
            BY <1>1, <2>1, <4>1, <4>4
          <5> QED BY <1>6, <2>1, <4>1, <4>4, <5>1
        <4> QED BY <4>2, <4>3, <4>4
      <3>4. FirstNamed(new, t) = f + 1
        BY <1>5, <3>1, <3>2, <3>3, <2>1, OnlyFirst, SMTT(30)
      <3>5. f + 1 # 0
        BY <2>1
      <3>6. ASSUME f < Len(doc), doc[f + 1].depth > doc[f].depth
            PROVE  HasChild(new, f + 1) /\ new[(f + 1) + 1] = doc[f + 1]
        <4>1. /\ (f + 1) + 1 \in 1 .. Len(doc) + 1 /\ ~((f + 1) + 1 <= p) /\ (f + 1) + 1 # p + 1
              /\ ((f + 1) + 1) - 1 = f + 1 /\ f + 1 < Len(new)
          BY <1>1, <1>5, <2>1, <2>3, <3>6
        <4>2. new[(f + 1) + 1] = doc[f + 1]
          BY <1>6, <4>1
        <4> QED BY <3>2, <3>6, <4>1, <4>2 DEF HasChild
      <3>7. FirstNamed(new, t) # 0 /\ new[FirstNamed(new, t)] = doc[f]
        BY <3>2, <3>4, <3>5
      <3>8. HasChild(doc, f) => HasChild(new, FirstNamed(new, t)) /\ new[FirstNamed(new, t) + 1] = doc[f + 1]
        BY <2>k, <3>4, <3>6
      <3> QED BY <3>7, <3>8 DEF f, KeepsFirst
    <2> QED BY <2>2, <2>3
  <1>9. ASSUME NEW t, t # name, FirstNamed(doc, t) = 0
        PROVE  FirstNamed(new, t) = 0
    <2>1. \A i \in 1 .. Len(doc) : doc[i].tag # t
      BY <1>9, FirstOfName
    <2>2. ASSUME NEW i \in 1 .. Len(new)
          PROVE  new[i].tag # t
      <3>1. i \in 1 .. Len(doc) + 1
        BY <1>5
      <3>2. (i <= p => i \in 1 .. Len(doc)) /\ (~(i <= p) /\ i # p + 1 => i - 1 \in 1 .. Len(doc))
        BY <1>1, <3>1
      <3> QED BY <1>2, <1>6, <1>9, <2>1, <3>1, <3>2
    <2> QED BY <1>5, <2>2, FirstOfName
  <1>10. \A t : FirstNamed(doc, t) = 0 => KeepsFirst(new, doc, t)
    BY DEF KeepsFirst
  <1> QED BY <1>5, <1>7, <1>8, <1>9, <1>10, <1>c DEF new, p, e

-----------------------------------------------------------------------------
\* getDOMNode

Nodes == {w \in [doc : Seq(Elements), at : Nat] : w.at <= Len(w.doc)}

\* The first elements of the names there were are the same, and so is what they
\* begin with.
Extends(new, old) == \A t \in Tag : KeepsFirst(new, old, t)

LEMMA ExtendsAgain ==
  ASSUME NEW new, NEW mid, NEW old, Extends(new, mid), Extends(mid, old)
  PROVE  Extends(new, old)
  BY DEF Extends, KeepsFirst

LEMMA NodeStep ==
  ASSUME NEW w \in Nodes, NEW name \in Tag, NEW first \in BOOLEAN, NEW create \in BOOLEAN
  PROVE  /\ nextNode(w, name, first, create) \in Nodes
         /\ create /\ w.at # 0 =>
              LET next == nextNode(w, name, first, create)
              IN  /\ next.at # 0 /\ next.at = FirstNamed(next.doc, name)
                  /\ Extends(next.doc, w.doc)
         /\ ~create =>
              /\ nextNode(w, name, first, create).doc = w.doc
              /\ nextNode(w, name, first, create).at =
                   IF ~first /\ w.at = 0 THEN 0 ELSE FirstNamed(w.doc, name)
  <1> DEFINE doc == w.doc
             found == FirstNamed(doc, name)
             new == appendChild(doc, w.at, name, NoText)
             next == nextNode(w, name, first, create)
             Record == [doc : Seq(Elements), at : Nat]
  <1>1. w \in Record /\ doc \in Seq(Elements) /\ w.at \in Nat /\ w.at <= Len(doc)
    BY DEF Nodes
  <1>2. found \in 0 .. Len(doc) /\ Len(doc) \in Nat
    <2> HIDE DEF doc
    <2> QED BY <1>1, FirstOfName
  <1>3. CASE ~first /\ w.at = 0
    <2>1. next = w
      BY <1>3 DEF nextNode
    <2> QED BY <1>3, <2>1
  <1>4. CASE ~(~first /\ w.at = 0) /\ found # 0
    <2>1. next = [w EXCEPT !.at = found]
      BY <1>4 DEF nextNode
    <2>2. next \in Record /\ next.doc = doc /\ next.at = found
      BY <1>1, <1>2, <2>1
    <2>3. next \in Nodes
      BY <1>2, <2>2 DEF Nodes
    <2>4. Extends(next.doc, w.doc)
      BY <2>2 DEF Extends, KeepsFirst
    <2> QED BY <1>4, <2>2, <2>3, <2>4
  <1>5. CASE ~(~first /\ w.at = 0) /\ found = 0 /\ (~create \/ w.at = 0)
    <2>1. next = [w EXCEPT !.at = 0]
      BY <1>5 DEF nextNode
    <2>2. next \in Record /\ next.doc = doc /\ next.at = 0
      BY <1>1, <2>1
    <2>3. next \in Nodes
      BY <1>2, <2>2 DEF Nodes
    <2> QED BY <1>5, <2>2, <2>3
  <1>6. CASE w.at # 0 /\ found = 0 /\ create
    <2>1. next = [doc |-> new, at |-> FirstNamed(new, name)]
      BY <1>6 DEF nextNode
    <2>2. w.at \in 1 .. Len(doc)
      BY <1>1, <1>2, <1>6
    <2>a. Node(name, doc[w.at].depth + 1, NoText) \in Elements
      <3> HIDE DEF doc
      <3>1. doc[w.at] \in Elements
        BY <1>1, <2>2
      <3>2. doc[w.at].depth + 1 \in Nat
        BY <3>1, KindsOfNode
      <3> QED BY <3>2, KindsOfNode
    <2>3. new \in Seq(Elements) /\ FirstNamed(new, name) # 0
      <3> HIDE DEF doc
      <3> QED BY <1>1, <2>2, <2>a, ChildAppended
    <2>b. \A t : t # name => KeepsFirst(new, doc, t)
      <3> HIDE DEF doc
      <3> QED BY <1>1, <2>2, <2>a, ChildAppended
    <2>4. Extends(new, doc)
      BY <1>6, <2>b DEF Extends, KeepsFirst
    <2> HIDE DEF new
    <2>5. FirstNamed(new, name) \in 0 .. Len(new) /\ Len(new) \in Nat
      BY <2>3, FirstOfName
    <2>6. next \in Nodes
      BY <2>1, <2>3, <2>5 DEF Nodes
    <2>7. next.doc = new /\ next.at = FirstNamed(new, name)
      BY <2>1
    <2> HIDE DEF next
    <2>8. next.at # 0 /\ next.at = FirstNamed(next.doc, name) /\ Extends(next.doc, w.doc)
      BY <2>3, <2>4, <2>7
    <2> QED BY <1>6, <2>6, <2>8 DEF next
  <1> QED BY <1>3, <1>4, <1>5, <1>6


\* The way to the element of a tag, name by name.
IsWalk(W, doc, path, create) ==
  /\ getDOMNode(doc, path, create) = W[Len(path)]
  /\ W[0] = [doc |-> doc, at |-> FirstNamed(doc, Root)]
  /\ \A k \in 1 .. Len(path) : W[k] = nextNode(W[k - 1], path[k], k = 1, create)
  /\ \A k \in 0 .. Len(path) : W[k] \in Nodes

LEMMA NodeWalk ==
  ASSUME NEW doc \in Seq(Elements), NEW path \in Seq(Tag), path # <<>>, NEW create \in BOOLEAN
  PROVE  \E W : IsWalk(W, doc, path, create)
  <1> DEFINE c == [doc |-> doc, at |-> FirstNamed(doc, Root)]
             Turn(w, i) == nextNode(w, path[i], i = 1, create)
             S == Nodes
             turn == [i \in 1 .. Len(path) |-> [w \in S |-> Turn(w, i)]]
             W == CHOOSE W : W = [i \in 0 .. Len(path) |-> IF i = 0 THEN c ELSE Turn(W[i - 1], i)]
  <1>1. Len(path) \in Nat /\ \A i \in 1 .. Len(path) : path[i] \in Tag
    OBVIOUS
  <1>2. getDOMNode(doc, path, create) = W[Len(path)]
    BY DEF getDOMNode
  <1>3. ASSUME NEW i \in 1 .. Len(path), NEW w \in S
        PROVE  Turn(w, i) \in S
    <2>1. path[i] \in Tag /\ (i = 1) \in BOOLEAN
      BY <1>1
    <2> QED BY <2>1, NodeStep
  <1>4. c \in S
    <2>1. FirstNamed(doc, Root) \in 0 .. Len(doc) /\ Len(doc) \in Nat
      BY FirstOfName
    <2> QED BY <2>1 DEF Nodes
  <1> HIDE DEF S, c, Turn
  <1>5. turn \in [1 .. Len(path) -> [S -> S]]
    BY <1>3
  <1>6. \E f : IsRun(f, S, Len(path), c, turn)
    <2> HIDE DEF turn
    <2> QED BY <1>1, <1>4, <1>5, RunExists, Zenon
  <1>7. PICK f : f \in [0 .. Len(path) -> S] /\ f[0] = c /\ \A i \in 1 .. Len(path) : f[i] = turn[i][f[i - 1]]
    BY <1>6 DEF IsRun
  <1>8. ASSUME NEW i \in 1 .. Len(path)
        PROVE  f[i] = Turn(f[i - 1], i)
    <2>1. f[i - 1] \in S
      BY <1>1, <1>7
    <2> QED BY <1>7, <2>1
  <1>9. f = [i \in 0 .. Len(path) |-> IF i = 0 THEN c ELSE Turn(f[i - 1], i)]
    <2> HIDE DEF turn
    <2> QED BY <1>1, <1>7, <1>8
  <1>10. W = [i \in 0 .. Len(path) |-> IF i = 0 THEN c ELSE Turn(W[i - 1], i)]
    BY <1>9
  <1> HIDE DEF W
  <1>11. W[0] \in S
    BY <1>1, <1>4, <1>10
  <1>12. \A i \in 1 .. Len(path) : W[i - 1] \in S => W[i] = turn[i][W[i - 1]]
    BY <1>1, <1>10, SMTT(30)
  <1>13. \A i \in 0 .. Len(path) : W[i] \in S
    <2> HIDE DEF turn
    <2> QED BY <1>1, <1>5, <1>11, <1>12, RunStays, Zenon
  <1>14. /\ W[0] = c
         /\ \A k \in 1 .. Len(path) : W[k] = Turn(W[k - 1], k)
    BY <1>1, <1>10
  <1>15. IsWalk(W, doc, path, create)
    BY <1>2, <1>13, <1>14 DEF c, Turn, S, IsWalk
  <1> QED BY <1>15

LEMMA NodeTypes ==
  ASSUME NEW doc \in Seq(Elements), NEW path \in Seq(Tag), NEW create \in BOOLEAN
  PROVE  getDOMNode(doc, path, create) \in Nodes
  <1>1. CASE path = <<>>
    <2>1. getDOMNode(doc, path, create) = [doc |-> doc, at |-> 0]
      BY <1>1 DEF getDOMNode
    <2> QED BY <2>1 DEF Nodes
  <1>2. CASE path # <<>>
    <2>1. PICK W : IsWalk(W, doc, path, create)
      BY <1>2, NodeWalk
    <2>2. Len(path) \in 0 .. Len(path)
      OBVIOUS
    <2> QED BY <2>1, <2>2 DEF IsWalk
  <1> QED BY <1>1, <1>2

\* Without creating, the way ends at the first name that is missing.
LEMMA NodeFound ==
  ASSUME NEW doc \in Seq(Elements), NEW path \in Seq(Tag), path # <<>>
  PROVE  getDOMNode(doc, path, FALSE).at =
           IF \E j \in 1 .. Len(path) : FirstNamed(doc, path[j]) = 0 THEN 0
           ELSE FirstNamed(doc, path[Len(path)])
  <1>0. PICK W : IsWalk(W, doc, path, FALSE)
    BY NodeWalk
  <1>1. /\ getDOMNode(doc, path, FALSE) = W[Len(path)]
        /\ W[0] = [doc |-> doc, at |-> FirstNamed(doc, Root)]
        /\ \A k \in 1 .. Len(path) : W[k] = nextNode(W[k - 1], path[k], k = 1, FALSE)
        /\ \A k \in 0 .. Len(path) : W[k] \in Nodes
    BY <1>0 DEF IsWalk
  <1>2. Len(path) \in Nat \ {0} /\ \A i \in 1 .. Len(path) : path[i] \in Tag
    OBVIOUS
  <1> DEFINE At(k) == IF \E j \in 1 .. k : FirstNamed(doc, path[j]) = 0 THEN 0
                      ELSE FirstNamed(doc, path[k])
             P == {k \in Nat : k <= Len(path) => W[k].doc = doc /\ (k > 0 => W[k].at = At(k))}
  <1>3. 0 \in P
    BY <1>1
  <1>4. ASSUME NEW k \in Nat, k \in P
        PROVE  k + 1 \in P
    <2> SUFFICES ASSUME k + 1 <= Len(path)
                 PROVE  W[k + 1].doc = doc /\ W[k + 1].at = At(k + 1)
      OBVIOUS
    <2> DEFINE w == W[k]
               name == path[k + 1]
    <2>1. k + 1 \in 1 .. Len(path) /\ (k + 1) - 1 = k /\ k \in 0 .. Len(path)
      BY <1>2
    <2>2. /\ w \in Nodes /\ name \in Tag /\ w.doc = doc /\ (k > 0 => w.at = At(k))
          /\ (k + 1 = 1) \in BOOLEAN
      BY <1>1, <1>2, <1>4, <2>1
    <2>3. W[k + 1] = nextNode(w, name, k + 1 = 1, FALSE)
      BY <1>1, <2>1
    <2> HIDE DEF w, name
    <2>4. /\ W[k + 1].doc = doc
          /\ W[k + 1].at = IF ~(k + 1 = 1) /\ w.at = 0 THEN 0 ELSE FirstNamed(doc, name)
      <3> DEFINE new == W[k + 1]
      <3>1. new = nextNode(w, name, k + 1 = 1, FALSE)
        BY <2>3
      <3> HIDE DEF new
      <3>2. /\ new.doc = w.doc
            /\ new.at = IF ~(k + 1 = 1) /\ w.at = 0 THEN 0 ELSE FirstNamed(w.doc, name)
        BY <2>2, <3>1, NodeStep
      <3> QED BY <2>2, <3>2 DEF new
    <2>5. CASE k = 0
      <3>1. \A j \in 1 .. k + 1 : j = 1
        BY <2>5
      <3> QED BY <2>4, <2>5, <3>1 DEF name
    <2>6. CASE k # 0
      <3>1. \A j \in 1 .. k + 1 : j \in 1 .. k \/ j = k + 1
        OBVIOUS
      <3>2. 1 .. k \subseteq 1 .. k + 1 /\ k \in 1 .. k /\ k + 1 \in 1 .. k + 1 /\ k > 0 /\ k + 1 # 1
        BY <2>6
      <3>3. CASE \E j \in 1 .. k : FirstNamed(doc, path[j]) = 0
        BY <2>2, <2>4, <3>2, <3>3
      <3>4. CASE ~ \E j \in 1 .. k : FirstNamed(doc, path[j]) = 0
        <4>1. w.at # 0
          BY <2>2, <3>2, <3>4
        <4>2. W[k + 1].at = FirstNamed(doc, path[k + 1])
          BY <2>4, <4>1 DEF name
        <4> QED BY <2>4, <3>1, <3>2, <3>4, <4>2
      <3> QED BY <3>3, <3>4
    <2> QED BY <2>5, <2>6
  <1>5. Len(path) \in P
    <2> HIDE DEF P
    <2> QED BY <1>2, <1>3, <1>4, SetInduction
  <1>6. W[Len(path)].at = At(Len(path))
    <2>1. Len(path) > 0
      BY <1>2
    <2> QED BY <1>5, <2>1
  <1> QED BY <1>1, <1>6

\* With creating, every name on the way is there in the end.
LEMMA NodeCreated ==
  ASSUME NEW doc \in Seq(Elements), NEW path \in Seq(Tag), path # <<>>,
         FirstNamed(doc, Root) # 0
  PROVE  LET node == getDOMNode(doc, path, TRUE)
         IN  /\ node.at # 0 /\ node.at = FirstNamed(node.doc, path[Len(path)])
             /\ \A j \in 1 .. Len(path) : FirstNamed(node.doc, path[j]) # 0
             /\ Extends(node.doc, doc)
  <1>0. PICK W : IsWalk(W, doc, path, TRUE)
    BY NodeWalk
  <1>1. /\ getDOMNode(doc, path, TRUE) = W[Len(path)]
        /\ W[0] = [doc |-> doc, at |-> FirstNamed(doc, Root)]
        /\ \A k \in 1 .. Len(path) : W[k] = nextNode(W[k - 1], path[k], k = 1, TRUE)
        /\ \A k \in 0 .. Len(path) : W[k] \in Nodes
    BY <1>0 DEF IsWalk
  <1>2. Len(path) \in Nat \ {0} /\ \A i \in 1 .. Len(path) : path[i] \in Tag
    OBVIOUS
  <1> DEFINE Good(k) ==
               /\ W[k].at # 0 /\ (k > 0 => W[k].at = FirstNamed(W[k].doc, path[k]))
               /\ \A j \in 1 .. k : FirstNamed(W[k].doc, path[j]) # 0
               /\ Extends(W[k].doc, doc)
             P == {k \in Nat : k <= Len(path) => Good(k)}
  <1>3. 0 \in P
    <2>1. W[0].at # 0 /\ W[0].doc = doc
      BY <1>1
    <2>2. Good(0)
      BY <2>1 DEF Extends, KeepsFirst
    <2> QED BY <2>2
  <1>4. ASSUME NEW k \in Nat, k \in P
        PROVE  k + 1 \in P
    <2> SUFFICES ASSUME k + 1 <= Len(path) PROVE Good(k + 1)
      OBVIOUS
    <2> DEFINE w == W[k]
               new == W[k + 1]
               name == path[k + 1]
    <2>1. k + 1 \in 1 .. Len(path) /\ (k + 1) - 1 = k /\ k \in 0 .. Len(path)
      BY <1>2
    <2>2. w \in Nodes /\ name \in Tag /\ (k + 1 = 1) \in BOOLEAN
      BY <1>1, <1>2, <2>1
    <2>3. w.at # 0 /\ (\A j \in 1 .. k : FirstNamed(w.doc, path[j]) # 0) /\ Extends(w.doc, doc)
      BY <1>4, <2>1
    <2>4. new = nextNode(w, name, k + 1 = 1, TRUE)
      BY <1>1, <2>1
    <2>5. name = path[k + 1]
      OBVIOUS
    <2> HIDE DEF w, name, new
    <2>6. new.at # 0 /\ new.at = FirstNamed(new.doc, name) /\ Extends(new.doc, w.doc)
      BY <2>2, <2>3, <2>4, NodeStep
    <2>7. Extends(new.doc, doc)
      BY <2>3, <2>6, ExtendsAgain
    <2>8. ASSUME NEW j \in 1 .. k + 1
          PROVE  FirstNamed(new.doc, path[j]) # 0
      <3>1. j \in 1 .. k \/ j = k + 1
        OBVIOUS
      <3>2. CASE j \in 1 .. k
        <4>1. path[j] \in Tag
          BY <1>2, <2>1, <3>2
        <4> QED BY <2>3, <2>6, <3>2, <4>1 DEF Extends, KeepsFirst
      <3>3. CASE j = k + 1
        BY <2>5, <2>6, <3>3
      <3> QED BY <3>1, <3>2, <3>3
    <2> QED BY <2>5, <2>6, <2>7, <2>8 DEF new
  <1>5. Len(path) \in P
    <2> HIDE DEF P
    <2> QED BY <1>2, <1>3, <1>4, SetInduction
  <1>6. Good(Len(path)) /\ Len(path) > 0
    BY <1>2, <1>5
  <1> DEFINE node == getDOMNode(doc, path, TRUE)
  <1>7. node = W[Len(path)]
    BY <1>1
  <1> HIDE DEF node
  <1>8. node.at # 0 /\ node.at = FirstNamed(node.doc, path[Len(path)]) /\ Extends(node.doc, doc)
    BY <1>6, <1>7
  <1>9. \A j \in 1 .. Len(path) : FirstNamed(node.doc, path[j]) # 0
    BY <1>6, <1>7
  <1> QED BY <1>8, <1>9 DEF node

-----------------------------------------------------------------------------
\* Setting a leaf of a document

WithText(d, a, v) == [d EXCEPT ![a].text = v]

LEMMA TextSet ==
  ASSUME NEW d \in Seq(Elements), NEW a, a \in 1 .. Len(d), d[a].tag = TextTag, NEW v \in Content
  PROVE  /\ WithText(d, a, v) \in Seq(Elements) /\ Len(WithText(d, a, v)) = Len(d)
         /\ WithText(d, a, v)[a] = Node(TextTag, d[a].depth, v)
         /\ \A i \in 1 .. Len(d) : i # a => WithText(d, a, v)[i] = d[i]
         /\ \A t : FirstNamed(WithText(d, a, v), t) = FirstNamed(d, t)
  <1> DEFINE e == WithText(d, a, v)
             new == [d[a] EXCEPT !.text = v]
  <1>1. e = [d EXCEPT ![a] = new] /\ d[a] \in Elements
    BY DEF WithText
  <1>2. new \in Elements /\ new.tag = d[a].tag /\ new = Node(TextTag, d[a].depth, v)
    BY <1>1, KindsOfNode DEF Elements, Node
  <1> HIDE DEF new, e
  <1>3. /\ e \in Seq(Elements) /\ Len(e) = Len(d) /\ e[a] = new
        /\ \A i \in 1 .. Len(d) : i # a => e[i] = d[i]
    BY <1>1, <1>2
  <1>4. DOMAIN e = DOMAIN d /\ DOMAIN d = 1 .. Len(d) /\ \A i \in 1 .. Len(d) : e[i].tag = d[i].tag
    BY <1>2, <1>3
  <1>5. ASSUME NEW t
        PROVE  FirstNamed(e, t) = FirstNamed(d, t)
    <2>1. {i \in DOMAIN e : e[i].tag = t} = {i \in DOMAIN d : d[i].tag = t}
      BY <1>4
    <2> DEFINE First(at) == IF at = {} THEN 0 ELSE CHOOSE i \in at : \A j \in at : i <= j
    <2>2. /\ FirstNamed(e, t) = First({i \in DOMAIN e : e[i].tag = t})
          /\ FirstNamed(d, t) = First({i \in DOMAIN d : d[i].tag = t})
      BY DEF FirstNamed
    <2> HIDE DEF First
    <2> QED BY <2>1, <2>2
  <1> QED BY <1>2, <1>3, <1>5 DEF e

LEMMA TagTypes == \A l \in Leaf : Dig35Tag[l] \in Seq(Tag)
  BY Dig35Assumption

\* The text that is set is the first child, or there is another child in front of it that is
\* none; it is the first child of no other node.
LEMMA FirstOfTexts ==
  ASSUME NEW doc \in Seq(Elements), NEW i \in 1 .. Len(doc)
  PROVE  /\ FirstText(doc, i) # 0 =>
              /\ FirstText(doc, i) \in i + 1 .. Len(doc) /\ doc[FirstText(doc, i)].tag = TextTag
              /\ \A k \in i + 1 .. FirstText(doc, i) - 1 : LastUnder(doc, k) < FirstText(doc, i)
         /\ HasChild(doc, i) /\ doc[i + 1].tag = TextTag => FirstText(doc, i) = i + 1
         /\ ~HasChild(doc, i) => FirstText(doc, i) = 0 /\ LastUnder(doc, i) = i
  <1> DEFINE last == LastUnder(doc, i)
             at == {j \in i + 1 .. last :
                      doc[j].tag = TextTag /\ \A k \in i + 1 .. j - 1 : LastUnder(doc, k) < j}
             text == FirstText(doc, i)
  <1>1. text = IF at = {} THEN 0 ELSE CHOOSE j \in at : \A k \in at : j <= k
    BY DEF FirstText
  <1>2. /\ last \in i .. Len(doc) /\ \A j \in i + 1 .. last : doc[j].depth > doc[i].depth
        /\ last < Len(doc) => doc[last + 1].depth <= doc[i].depth
    BY SubtreeEnds
  <1> HIDE DEF last
  <1>3. at \in SUBSET Nat /\ at \subseteq i + 1 .. Len(doc)
    BY <1>2
  <1>4. at # {} => text \in at /\ \A k \in at : text <= k
    <2> HIDE DEF at
    <2> QED BY <1>1, <1>3, LeastMember
  <1>5. ASSUME text # 0
        PROVE  /\ text \in i + 1 .. Len(doc) /\ doc[text].tag = TextTag
               /\ \A k \in i + 1 .. text - 1 : LastUnder(doc, k) < text
    <2>1. text \in at
      <3> HIDE DEF at
      <3> QED BY <1>1, <1>4, <1>5
    <2> QED BY <1>3, <2>1
  <1>6. ASSUME HasChild(doc, i), doc[i + 1].tag = TextTag
        PROVE  text = i + 1
    <2>1. i < Len(doc) /\ doc[i + 1].depth > doc[i].depth
      BY <1>6 DEF HasChild
    <2>2. doc[i + 1].depth \in Nat /\ doc[i].depth \in Nat
      BY <2>1, KindsOfNode
    <2>3. last # i
      BY <1>2, <2>1, <2>2
    <2>4. i + 1 \in i + 1 .. last /\ \A k \in i + 1 .. (i + 1) - 1 : FALSE
      BY <1>2, <2>3
    <2>5. i + 1 \in at
      BY <1>6, <2>4
    <2>6. \A k \in at : i + 1 <= k
      BY <1>3
    <2>7. text \in at /\ text <= i + 1
      <3> HIDE DEF at
      <3> QED BY <1>4, <2>5
    <2>8. text \in Nat /\ i + 1 <= text
      <3> HIDE DEF at
      <3> QED BY <1>3, <2>6, <2>7
    <2> QED BY <2>7, <2>8
  <1>7. ASSUME ~HasChild(doc, i)
        PROVE  text = 0 /\ last = i
    <2>1. i < Len(doc) => ~(doc[i + 1].depth > doc[i].depth)
      BY <1>7 DEF HasChild
    <2>2. last = i
      <3> SUFFICES ASSUME last # i PROVE FALSE
        OBVIOUS
      <3>1. i + 1 \in i + 1 .. last /\ i < Len(doc)
        BY <1>2
      <3> QED BY <1>2, <2>1, <3>1
    <2>3. at = {}
      BY <2>2
    <2> QED BY <1>1, <2>2, <2>3
  <1> QED BY <1>5, <1>6, <1>7 DEF last

\* What setMdValue makes of a document whose elements are there.
LEMMA TextOfElement ==
  ASSUME NEW doc \in Seq(Elements), NEW i \in 1 .. Len(doc), NEW v \in Content
  PROVE  LET new == SetText(doc, i, v)
         IN  /\ new \in Seq(Elements)
             /\ ~(HasChild(doc, i) /\ doc[i + 1].tag # TextTag) => FirstContent(new, i) = v
             /\ \A t \in Tag : FirstNamed(doc, t) = 0 => FirstNamed(new, t) = 0
             /\ \A t \in Tag : FirstNamed(doc, t) # 0 =>
                  /\ FirstNamed(new, t) # 0
                  /\ FirstNamed(doc, t) = i => FirstNamed(new, t) = i
                  /\ HasChild(doc, FirstNamed(doc, t)) /\ FirstNamed(doc, t) # i =>
                       FirstContent(new, FirstNamed(new, t)) = FirstContent(doc, FirstNamed(doc, t))
  <1> DEFINE text == FirstText(doc, i)
             new == SetText(doc, i, v)
  <1>d. \A j \in 1 .. Len(doc) : doc[j].depth \in Nat
    BY KindsOfNode
  <1>1. CASE text # 0
    <2>1. /\ text \in i + 1 .. Len(doc) /\ doc[text].tag = TextTag
          /\ \A k \in i + 1 .. text - 1 : LastUnder(doc, k) < text
      BY <1>1, FirstOfTexts
    <2>2. HasChild(doc, i) /\ (doc[i + 1].tag = TextTag => text = i + 1)
      BY <1>1, FirstOfTexts
    <2>3. new = WithText(doc, text, v)
      BY <1>1 DEF SetText, WithText
    <2> HIDE DEF text, new
    <2>4. text \in 1 .. Len(doc)
      BY <2>1
    <2>5. /\ new \in Seq(Elements) /\ Len(new) = Len(doc)
          /\ new[text] = Node(TextTag, doc[text].depth, v)
          /\ \A j \in 1 .. Len(doc) : j # text => new[j] = doc[j]
          /\ \A t : FirstNamed(new, t) = FirstNamed(doc, t)
      <3>1. /\ WithText(doc, text, v) \in Seq(Elements) /\ Len(WithText(doc, text, v)) = Len(doc)
            /\ WithText(doc, text, v)[text] = Node(TextTag, doc[text].depth, v)
            /\ \A j \in 1 .. Len(doc) : j # text => WithText(doc, text, v)[j] = doc[j]
            /\ \A t : FirstNamed(WithText(doc, text, v), t) = FirstNamed(doc, t)
        BY <2>1, <2>4, TextSet
      <3> QED BY <2>3, <3>1, Zenon
    <2>6. /\ new[text].tag = TextTag /\ new[text].text = v /\ new[text].depth = doc[text].depth
      BY <1>d, <2>4, <2>5, KindsOfNode
    <2>7. \A j \in 1 .. Len(doc) : new[j].depth = doc[j].depth
      BY <2>5, <2>6
    <2>8. ASSUME NEW j \in 1 .. Len(doc)
          PROVE  HasChild(new, j) <=> HasChild(doc, j)
      <3>1. j < Len(doc) => j + 1 \in 1 .. Len(doc)
        OBVIOUS
      <3> QED BY <2>5, <2>7, <3>1 DEF HasChild
    <2>9. doc[i + 1].tag = TextTag => FirstContent(new, i) = v
      BY <2>2, <2>6, <2>8 DEF FirstContent
    <2>10. ASSUME NEW j \in 1 .. Len(doc), HasChild(doc, j), j # i
           PROVE  FirstContent(new, j) = FirstContent(doc, j)
      <3>1. j < Len(doc) /\ doc[j + 1].depth > doc[j].depth /\ j + 1 \in 1 .. Len(doc)
        BY <2>10 DEF HasChild
      <3>2. j + 1 # text
        <4> SUFFICES ASSUME j + 1 = text PROVE FALSE
          OBVIOUS
        <4>1. j \in i + 1 .. text - 1
          BY <2>1, <2>10
        <4>2. LastUnder(doc, j) < text /\ LastUnder(doc, j) \in j .. Len(doc)
          BY <2>1, <4>1, SubtreeEnds
        <4>3. LastUnder(doc, j) = j
          BY <3>1, <4>2
        <4>4. doc[j + 1].depth <= doc[j].depth
          BY <3>1, <4>3, SubtreeEnds
        <4> QED BY <1>d, <3>1, <4>4
      <3>3. new[j + 1] = doc[j + 1]
        BY <2>5, <3>1, <3>2
      <3> QED BY <2>8, <2>10, <3>3 DEF FirstContent
    <2>11. \A t : FirstNamed(doc, t) # 0 => FirstNamed(doc, t) \in 1 .. Len(doc)
      BY FirstOfName
    <2> QED BY <2>2, <2>5, <2>9, <2>10, <2>11 DEF text, new
  <1>2. CASE text = 0
    <2> DEFINE p == LastUnder(doc, i)
    <2>1. new = appendChild(doc, i, TextTag, v)
      BY <1>2 DEF SetText
    <2>2. ~(HasChild(doc, i) /\ doc[i + 1].tag # TextTag) => ~HasChild(doc, i) /\ p = i
      BY <1>2, FirstOfTexts
    <2>3. doc[i].depth + 1 \in Nat /\ doc[i].depth \in Nat
      BY <1>d
    <2>4. Node(TextTag, doc[i].depth + 1, v) \in Elements
      BY <2>3, KindsOfNode
    <2>p. p \in i .. Len(doc)
      BY SubtreeEnds
    <2> HIDE DEF text, new, p
    <2>5. /\ new \in Seq(Elements) /\ Len(new) = Len(doc) + 1
          /\ \A j \in 1 .. p : new[j] = doc[j]
          /\ new[p + 1] = Node(TextTag, doc[i].depth + 1, v)
          /\ \A t : t # TextTag => KeepsFirst(new, doc, t) /\ (FirstNamed(doc, t) = 0 => FirstNamed(new, t) = 0)
      BY <2>1, <2>4, ChildAppended DEF p
    <2>6. /\ new[p + 1].tag = TextTag /\ new[p + 1].text = v /\ new[p + 1].depth = doc[i].depth + 1
      BY <2>3, <2>5, KindsOfNode
    <2>7. ASSUME p = i
          PROVE  FirstContent(new, i) = v
      <3>1. new[i] = doc[i] /\ i < Len(new) /\ new[i + 1].depth > new[i].depth
        BY <2>3, <2>5, <2>6, <2>7
      <3> QED BY <2>6, <2>7, <3>1 DEF FirstContent, HasChild
    <2>8. ASSUME NEW t \in Tag, FirstNamed(doc, t) # 0
          PROVE  /\ FirstNamed(new, t) # 0
                 /\ FirstNamed(doc, t) = i => FirstNamed(new, t) = i
                 /\ HasChild(doc, FirstNamed(doc, t)) =>
                      FirstContent(new, FirstNamed(new, t)) = FirstContent(doc, FirstNamed(doc, t))
      <3>1. KeepsFirst(new, doc, t)
        BY <2>5, KindsOfNode
      <3>2. ASSUME FirstNamed(doc, t) = i
            PROVE  FirstNamed(new, t) = i
        <4>1. /\ doc[i].tag = t
              /\ \A j \in 1 .. Len(doc) : doc[j].tag = t => i <= j
          BY <2>8, <3>2, FirstOfName
        <4>2. i \in 1 .. Len(new) /\ new[i].tag = t
          BY <2>5, <2>p, <4>1
        <4>3. \A j \in 1 .. Len(new) : j < i => new[j].tag # t
          <5> SUFFICES ASSUME NEW j \in 1 .. Len(new), j < i PROVE new[j].tag # t
            OBVIOUS
          <5>1. j \in 1 .. p /\ j \in 1 .. Len(doc) /\ ~(i <= j)
            BY <2>p
          <5> QED BY <2>5, <4>1, <5>1
        <4> QED BY <2>5, <4>2, <4>3, OnlyFirst
      <3> QED BY <2>8, <3>1, <3>2 DEF KeepsFirst, FirstContent
    <2> QED BY <2>2, <2>5, <2>7, <2>8, KindsOfNode DEF text, new
  <1> QED BY <1>1, <1>2

LEMMA SetTypes ==
  ASSUME NEW doc \in Seq(Elements), NEW l \in Leaf, md[l] \in Content
  PROVE  Dig35Set(doc, l) \in Seq(Elements)
  <1> DEFINE node == getDOMNode(doc, Dig35Tag[l], TRUE)
  <1>1. node \in Nodes
    BY TagTypes, NodeTypes
  <1>2. Dig35Set(doc, l) = IF node.at = 0 THEN node.doc
                           ELSE SetText(node.doc, node.at, md[l])
    BY DEF Dig35Set
  <1> HIDE DEF node
  <1>3. node.doc \in Seq(Elements) /\ (node.at # 0 => node.at \in 1 .. Len(node.doc))
    BY <1>1 DEF Nodes
  <1> QED BY <1>2, <1>3, TextOfElement

\* A leaf reads the first element of the last name of its tag, when all the names
\* are there.
LEMMA LeafNode ==
  ASSUME NEW doc \in Seq(Elements), NEW l \in Leaf
  PROVE  /\ Dig35Tag[l] = <<>> => NodeOf(doc, l) = 0
         /\ Dig35Tag[l] # <<>> =>
              NodeOf(doc, l) =
                IF \E j \in 1 .. Len(Dig35Tag[l]) : FirstNamed(doc, Dig35Tag[l][j]) = 0 THEN 0
                ELSE FirstNamed(doc, Last(Dig35Tag[l]))
  <1>1. CASE Dig35Tag[l] = <<>>
    BY <1>1 DEF NodeOf, getDOMNode
  <1>2. CASE Dig35Tag[l] # <<>>
    BY <1>2, TagTypes, NodeFound DEF NodeOf, Last
  <1> QED BY <1>1, <1>2

LEMMA SetReads ==
  ASSUME NEW doc \in Seq(Elements), FirstNamed(doc, Root) # 0,
         NEW l \in Leaf, Dig35Tag[l] # <<>>, md[l] \in Content
  PROVE  LET node == getDOMNode(doc, Dig35Tag[l], TRUE)
             after == Dig35Set(doc, l)
         IN  /\ l \in Dig35Reads(after)
             /\ ~(HasChild(node.doc, node.at) /\ node.doc[node.at + 1].tag # TextTag) =>
                  Dig35Value(after)[l] = md[l]
             /\ \A k \in Dig35Reads(doc) :
                  Dig35Value(doc)[k] # NoText /\ Last(Dig35Tag[k]) # Last(Dig35Tag[l]) =>
                    k \in Dig35Reads(after) /\ Dig35Value(after)[k] = Dig35Value(doc)[k]
  <1> DEFINE path == Dig35Tag[l]
             node == getDOMNode(doc, path, TRUE)
             mid == node.doc
             at == node.at
             after == Dig35Set(doc, l)
             begins == HasChild(mid, at) /\ mid[at + 1].tag # TextTag
  <1>1. /\ at # 0 /\ at = FirstNamed(mid, path[Len(path)])
        /\ \A j \in 1 .. Len(path) : FirstNamed(mid, path[j]) # 0
        /\ Extends(mid, doc)
    BY TagTypes, NodeCreated
  <1>2. node \in Nodes /\ path \in Seq(Tag) /\ path # <<>>
    BY TagTypes, NodeTypes
  <1>p. Len(path) \in Nat \ {0} /\ \A j \in 1 .. Len(path) : path[j] \in Tag
    BY <1>2
  <1>3. after = SetText(mid, at, md[l])
    BY <1>1 DEF Dig35Set
  <1> HIDE DEF node
  <1>4. mid \in Seq(Elements) /\ at \in 1 .. Len(mid)
    BY <1>1, <1>2 DEF Nodes
  <1> HIDE DEF mid, at, after
  <1>5. /\ after \in Seq(Elements)
        /\ ~begins => FirstContent(after, at) = md[l]
        /\ \A t \in Tag : FirstNamed(mid, t) # 0 =>
             /\ FirstNamed(after, t) # 0
             /\ FirstNamed(mid, t) = at => FirstNamed(after, t) = at
             /\ HasChild(mid, FirstNamed(mid, t)) /\ FirstNamed(mid, t) # at =>
                  FirstContent(after, FirstNamed(after, t)) = FirstContent(mid, FirstNamed(mid, t))
    <2>1. md[l] \in Content
      OBVIOUS
    <2> HIDE DEF path
    <2> QED BY <1>3, <1>4, <2>1, TextOfElement
  <1>6. NodeOf(after, l) = at
    <2>1. FirstNamed(after, Last(path)) = at
      BY <1>1, <1>5, <1>p DEF Last
    <2>2. \A j \in 1 .. Len(path) : FirstNamed(after, path[j]) # 0
      BY <1>1, <1>5, <1>p
    <2> QED BY <1>2, <1>5, <2>1, <2>2, LeafNode
  <1>7. l \in Dig35Reads(after) /\ (~begins => Dig35Value(after)[l] = md[l])
    BY <1>1, <1>5, <1>6 DEF Dig35Reads, Dig35Value
  <1>8. ASSUME NEW k \in Dig35Reads(doc), Dig35Value(doc)[k] # NoText,
               Last(Dig35Tag[k]) # Last(path)
        PROVE  k \in Dig35Reads(after) /\ Dig35Value(after)[k] = Dig35Value(doc)[k]
    <2> DEFINE other == Dig35Tag[k]
               name == Last(other)
               f == FirstNamed(doc, name)
               g == FirstNamed(mid, name)
               h == FirstNamed(after, name)
    <2>1. k \in Leaf /\ NodeOf(doc, k) # 0
      BY DEF Dig35Reads
    <2>2. other \in Seq(Tag) /\ other # <<>>
      BY <2>1, TagTypes, LeafNode
    <2>t. name \in Tag /\ \A j \in 1 .. Len(other) : other[j] \in Tag
      BY <2>2 DEF Last
    <2>3. (\A j \in 1 .. Len(other) : FirstNamed(doc, other[j]) # 0) /\ NodeOf(doc, k) = f
      BY <2>1, <2>2, LeafNode
    <2>c. Dig35Value(doc)[k] = FirstContent(doc, f)
      BY <2>3 DEF Dig35Value
    <2>h. HasChild(doc, f)
      BY <1>8, <2>c DEF FirstContent
    <2>m. KeepsFirst(mid, doc, name) /\ \A j \in 1 .. Len(other) : KeepsFirst(mid, doc, other[j])
      BY <1>1, <2>t DEF Extends
    <2>4. \A j \in 1 .. Len(other) : FirstNamed(after, other[j]) # 0
      BY <1>5, <2>3, <2>m, <2>t DEF KeepsFirst
    <2>5. f # 0 /\ g # 0 /\ mid[g] = doc[f] /\ HasChild(mid, g) /\ mid[g + 1] = doc[f + 1]
      BY <2>1, <2>3, <2>h, <2>m DEF KeepsFirst
    <2>6. NodeOf(after, k) = h
      BY <1>5, <2>1, <2>2, <2>4, LeafNode
    <2>7. g \in 1 .. Len(mid) /\ mid[g].tag = name
      BY <1>4, <2>5, FirstOfName
    <2>8. g # at
      <3>1. mid[at].tag = path[Len(path)]
        BY <1>1, <1>4, FirstOfName
      <3> QED BY <1>8, <2>7, <3>1 DEF Last
    <2>9. h # 0 /\ FirstContent(after, h) = FirstContent(mid, g)
      BY <1>5, <2>5, <2>8, <2>t
    <2>10. FirstContent(mid, g) = FirstContent(doc, f)
      BY <2>5, <2>h DEF FirstContent
    <2> HIDE DEF f, g, h
    <2> QED BY <2>1, <2>6, <2>9, <2>10, <2>c DEF Dig35Reads, Dig35Value
  <1> QED BY <1>7, <1>8 DEF after, mid, at, node

-----------------------------------------------------------------------------
\* Documents

LEMMA RemoveTypes ==
  ASSUME NEW doc \in Seq(Elements), NEW l \in Leaf
  PROVE  Dig35RemoveValue(doc, l) \in Seq(Elements)
  <1> DEFINE at == NodeOf(doc, l)
             last == LastUnder(doc, at)
             head == SubSeq(doc, 1, at - 1)
             rest == SubSeq(doc, last + 1, Len(doc))
  <1>1. Dig35RemoveValue(doc, l) = IF at = 0 THEN doc ELSE head \o rest
    BY DEF Dig35RemoveValue
  <1>2. CASE at # 0
    <2> DEFINE node == getDOMNode(doc, Dig35Tag[l], FALSE)
    <2>1. at = node.at /\ node \in Nodes
      BY TagTypes, NodeTypes DEF NodeOf
    <2> HIDE DEF node
    <2>2. CASE Dig35Tag[l] = <<>>
      BY <1>2, <2>2, LeafNode
    <2>3. CASE Dig35Tag[l] # <<>>
      <3>1. at = FirstNamed(doc, Last(Dig35Tag[l]))
        BY <1>2, <2>3, LeafNode
      <3> HIDE DEF at
      <3>2. at \in 1 .. Len(doc)
        BY <1>2, <3>1, FirstOfName
      <3>3. last \in 1 .. Len(doc)
        BY <3>2, SubtreeEnds
      <3> HIDE DEF last
      <3>4. head \in Seq(Elements) /\ rest \in Seq(Elements)
        BY <3>2, <3>3
      <3> HIDE DEF head, rest
      <3> QED BY <1>1, <3>4
    <2> QED BY <2>2, <2>3
  <1> QED BY <1>1, <1>2

LEMMA ParsedTypes ==
  ASSUME NEW bytes \in {Garbage} \cup Documents
  PROVE  /\ Parsed(bytes) \in Seq(Elements) \cup {NoDocument}
         /\ Parsed(bytes) # NoDocument => bytes \in Documents /\ Parsed(bytes) = bytes
  BY FileAccessorsAssumption DEF Parsed, Documents

LEMMA ElementReplaced ==
  ASSUME NEW S, NEW s \in Seq(S), NEW n \in 1 .. Len(s), NEW x \in S
  PROVE  [s EXCEPT ![n] = x] \in Seq(S)
OBVIOUS

LEMMA PutTypes ==
  ASSUME NEW out \in Seq(Elements), NEW node \in Elements
  PROVE  Put(out, node) \in Seq(Elements)
  <1>1. CASE out # <<>> /\ out[Len(out)].tag = TextTag /\ node.tag = TextTag
    <2>1. Len(out) \in 1 .. Len(out) /\ out[Len(out)] \in Elements
      BY <1>1
    <2> DEFINE last == out[Len(out)]
               text == OneText(last.text, node.text)
    <2>2. last.text \in Content /\ node.text \in Content
      BY <1>1, <2>1, KindsOfNode
    <2>3. text \in Content
      BY <2>2, FileAccessorsAssumption
    <2> HIDE DEF text
    <2>4. [last EXCEPT !.text = text] \in Elements
      BY <1>1, <2>1, <2>3, KindsOfNode DEF Elements
    <2>5. [out EXCEPT ![Len(out)].text = text] = [out EXCEPT ![Len(out)] = [last EXCEPT !.text = text]]
      OBVIOUS
    <2>6. [out EXCEPT ![Len(out)] = [last EXCEPT !.text = text]] \in Seq(Elements)
      BY <2>1, <2>4, ElementReplaced
    <2>7. Append(out, node) \in Seq(Elements)
      OBVIOUS
    <2>8. Put(out, node) \in {out, Append(out, node), [out EXCEPT ![Len(out)].text = text]}
      BY DEF Put, text
    <2> QED BY <2>5, <2>6, <2>7, <2>8
  <1>2. CASE ~(out # <<>> /\ out[Len(out)].tag = TextTag /\ node.tag = TextTag)
    <2>1. Put(out, node) \in {out, Append(out, node)}
      BY <1>2 DEF Put
    <2>2. Append(out, node) \in Seq(Elements)
      OBVIOUS
    <2> QED BY <2>1, <2>2
  <1> QED BY <1>1, <1>2

LEMMA SerializedTypes ==
  ASSUME NEW doc \in Seq(Elements)
  PROVE  Serialized(doc) \in {Garbage} \cup Documents
  <1> DEFINE c == <<>>
             S == Seq(Elements)
             Turn(w, i) == Put(w, doc[i])
             turn == [i \in 1 .. Len(doc) |-> [w \in S |-> Turn(w, i)]]
             W == CHOOSE W : W = [i \in 0 .. Len(doc) |-> IF i = 0 THEN c ELSE Turn(W[i - 1], i)]
  <1>1. Len(doc) \in Nat /\ \A i \in 1 .. Len(doc) : doc[i] \in Elements
    OBVIOUS
  <1>2. Serialized(doc) = IF W[Len(doc)] = <<>> THEN Garbage ELSE W[Len(doc)]
    BY DEF Serialized
  <1>3. ASSUME NEW i \in 1 .. Len(doc), NEW w \in S
        PROVE  Turn(w, i) \in S
    BY <1>1, PutTypes
  <1>4. c \in S
    OBVIOUS
  <1> HIDE DEF S, c, Turn
  <1>5. turn \in [1 .. Len(doc) -> [S -> S]]
    BY <1>3
  <1>6. \E f : IsRun(f, S, Len(doc), c, turn)
    <2> HIDE DEF turn
    <2> QED BY <1>1, <1>4, <1>5, RunExists, Zenon
  <1>7. PICK f : f \in [0 .. Len(doc) -> S] /\ f[0] = c /\ \A i \in 1 .. Len(doc) : f[i] = turn[i][f[i - 1]]
    BY <1>6 DEF IsRun
  <1>8. ASSUME NEW i \in 1 .. Len(doc)
        PROVE  f[i] = Turn(f[i - 1], i)
    <2>1. f[i - 1] \in S
      BY <1>1, <1>7
    <2> QED BY <1>7, <2>1
  <1>9. f = [i \in 0 .. Len(doc) |-> IF i = 0 THEN c ELSE Turn(f[i - 1], i)]
    <2> HIDE DEF turn
    <2> QED BY <1>1, <1>7, <1>8
  <1>10. W = [i \in 0 .. Len(doc) |-> IF i = 0 THEN c ELSE Turn(W[i - 1], i)]
    BY <1>9
  <1> HIDE DEF W
  <1>11. W[0] \in S
    BY <1>1, <1>4, <1>10
  <1>12. \A i \in 1 .. Len(doc) : W[i - 1] \in S => W[i] = turn[i][W[i - 1]]
    BY <1>1, <1>10
  <1>13. \A i \in 0 .. Len(doc) : W[i] \in S
    <2> HIDE DEF turn
    <2> QED BY <1>1, <1>5, <1>11, <1>12, RunStays, Zenon
  <1>14. W[Len(doc)] \in Seq(Elements)
    BY <1>1, <1>13 DEF S
  <1> QED BY <1>2, <1>14 DEF Documents

LEMMA InsideTypes ==
  ASSUME NEW doc \in Seq(Elements)
  PROVE  Inside(doc) \in Seq(Elements)
  <1> DEFINE c == <<>>
             S == Seq(Elements)
             Turn(w, i) == IF i = 1 \/ (doc[i].tag = TextTag /\ doc[i].depth = doc[1].depth + 1) THEN w
                           ELSE Append(w, doc[i])
             turn == [i \in 1 .. Len(doc) |-> [w \in S |-> Turn(w, i)]]
             W == CHOOSE W : W = [i \in 0 .. Len(doc) |-> IF i = 0 THEN c ELSE Turn(W[i - 1], i)]
  <1>1. Len(doc) \in Nat /\ \A i \in 1 .. Len(doc) : doc[i] \in Elements
    OBVIOUS
  <1>2. Inside(doc) = W[Len(doc)]
    BY DEF Inside
  <1>3. ASSUME NEW i \in 1 .. Len(doc), NEW w \in S
        PROVE  Turn(w, i) \in S
    <2>1. doc[i] \in Elements
      BY <1>1
    <2>2. Append(w, doc[i]) \in S
      BY <2>1
    <2> QED BY <2>2
  <1>4. c \in S
    OBVIOUS
  <1> HIDE DEF S, c, Turn
  <1>5. turn \in [1 .. Len(doc) -> [S -> S]]
    BY <1>3
  <1>6. \E f : IsRun(f, S, Len(doc), c, turn)
    <2> HIDE DEF turn
    <2> QED BY <1>1, <1>4, <1>5, RunExists, Zenon
  <1>7. PICK f : f \in [0 .. Len(doc) -> S] /\ f[0] = c /\ \A i \in 1 .. Len(doc) : f[i] = turn[i][f[i - 1]]
    BY <1>6 DEF IsRun
  <1>8. ASSUME NEW i \in 1 .. Len(doc)
        PROVE  f[i] = Turn(f[i - 1], i)
    <2>1. f[i - 1] \in S
      BY <1>1, <1>7
    <2> QED BY <1>7, <2>1
  <1>9. f = [i \in 0 .. Len(doc) |-> IF i = 0 THEN c ELSE Turn(f[i - 1], i)]
    <2> HIDE DEF turn
    <2> QED BY <1>1, <1>7, <1>8
  <1>10. W = [i \in 0 .. Len(doc) |-> IF i = 0 THEN c ELSE Turn(W[i - 1], i)]
    BY <1>9
  <1> HIDE DEF W
  <1>11. W[0] \in S
    BY <1>1, <1>4, <1>10
  <1>12. \A i \in 1 .. Len(doc) : W[i - 1] \in S => W[i] = turn[i][W[i - 1]]
    BY <1>1, <1>10
  <1>13. \A i \in 0 .. Len(doc) : W[i] \in S
    <2> HIDE DEF turn
    <2> QED BY <1>1, <1>5, <1>11, <1>12, RunStays, Zenon
  <1>14. W[Len(doc)] \in Seq(Elements)
    BY <1>1, <1>13 DEF S
  <1> QED BY <1>2, <1>14

LEMMA RaisedTypes ==
  ASSUME NEW nodes \in Seq(Elements), NEW d \in Nat
  PROVE  Raised(nodes, d) \in Seq(Elements)
  <1> DEFINE item(i) == [nodes[i] EXCEPT !.depth = @ + d]
  <1>1. ASSUME NEW i \in 1 .. Len(nodes)
        PROVE  item(i) \in Elements
    <2>1. nodes[i] \in Elements
      OBVIOUS
    <2> QED BY <2>1, SMTT(30) DEF Elements
  <1> HIDE DEF item
  <1>2. [i \in 1 .. Len(nodes) |-> item(i)] \in Seq(Elements)
    BY <1>1
  <1>3. Raised(nodes, d) = [i \in 1 .. Len(nodes) |-> item(i)]
    BY DEF Raised, item
  <1> QED BY <1>2, <1>3

\* What is appended goes behind the first element.
LEMMA AppendedTypes ==
  ASSUME NEW doc \in Seq(Elements), NEW other \in Documents, FirstNamed(doc, Root) # 0
  PROVE  /\ Appended(doc, other) \in Seq(Elements) /\ Appended(doc, other) # <<>>
         /\ Appended(doc, other)[1].tag = doc[1].tag
  <1> DEFINE root == FirstNamed(doc, Root)
             piece == IF other[1].tag = Root THEN Raised(Inside(other), doc[root].depth)
                      ELSE Raised(<<other[1]>> \o Inside(other), doc[1].depth + 1)
             at == LastUnder(doc, IF other[1].tag = Root THEN root ELSE 1)
             new == Appended(doc, other)
  <1>1. root \in 1 .. Len(doc) /\ 1 \in 1 .. Len(doc)
    BY FirstOfName
  <1> HIDE DEF root
  <1>2. at \in 1 .. Len(doc)
    <2>1. LastUnder(doc, root) \in root .. Len(doc) /\ LastUnder(doc, 1) \in 1 .. Len(doc)
      BY <1>1, SubtreeEnds
    <2> QED BY <1>1, <2>1
  <1>3. doc[root].depth \in Nat /\ doc[1].depth + 1 \in Nat
    <2>1. doc[root].depth \in Nat /\ doc[1].depth \in Nat
      BY <1>1, KindsOfNode
    <2> QED BY <2>1
  <1>5. piece \in Seq(Elements)
    <2>1. other \in Seq(Elements) /\ other[1] \in Elements
      BY DEF Documents
    <2>2. Inside(other) \in Seq(Elements)
      BY <2>1, InsideTypes
    <2>3. <<other[1]>> \o Inside(other) \in Seq(Elements)
      BY <2>1, <2>2
    <2> QED BY <1>3, <2>2, <2>3, RaisedTypes
  <1>6. new = Splice(doc, at, piece)
    BY DEF Appended, Splice, root
  <1> HIDE DEF piece, at, new
  <1>7. at \in Nat /\ at <= Len(doc) /\ 1 <= at
    BY <1>2
  <1>8. new \in Seq(Elements) /\ Len(new) = Len(doc) + Len(piece)
    BY <1>5, <1>6, <1>7, Spliced
  <1>9. ASSUME NEW i \in 1 .. Len(doc) + Len(piece)
        PROVE  new[i] = IF i <= at THEN doc[i]
                        ELSE IF i <= at + Len(piece) THEN piece[i - at] ELSE doc[i - Len(piece)]
    BY <1>5, <1>6, <1>7, Spliced, SMTT(30)
  <1>10. 1 \in 1 .. Len(doc) + Len(piece) /\ Len(new) # 0
    BY <1>1, <1>5, <1>8
  <1>11. new[1] = doc[1] /\ new # <<>>
    BY <1>7, <1>8, <1>9, <1>10
  <1> QED BY <1>8, <1>11 DEF new


\* The document of the boxes of a file keeps its root in front.
LEMMA ExtractedTypes ==
  ASSUME NEW boxes \in Seq({OtherBox, Garbage} \cup Documents)
  PROVE  Extracted(boxes) \in Seq(Elements)
  <1> DEFINE Accepts(box) == box # OtherBox /\ Parsed(box) # NoDocument
                             /\ (box[1].tag = Root \/ isMetadataBlockKey(box[1].tag))
             c == NewDocument
             Boxes == {OtherBox, Garbage} \cup Documents
             Turn(w, i) == IF Reaches(boxes, i) /\ Accepts(boxes[i]) THEN Appended(w, boxes[i]) ELSE w
             S == {d \in Seq(Elements) : d # <<>> /\ d[1].tag = Root}
             turn == [i \in 1 .. Len(boxes) |-> [w \in S |-> Turn(w, i)]]
             W == CHOOSE W : W = [i \in 0 .. Len(boxes) |-> IF i = 0 THEN c ELSE Turn(W[i - 1], i)]
  <1>1. Len(boxes) \in Nat /\ \A i \in 1 .. Len(boxes) : boxes[i] \in Boxes
    OBVIOUS
  <1>2. Extracted(boxes) = W[Len(boxes)]
    BY DEF Extracted
  <1>3. ASSUME NEW i \in 1 .. Len(boxes), NEW w \in S
        PROVE  Turn(w, i) \in S
    <2>1. CASE ~(Reaches(boxes, i) /\ Accepts(boxes[i]))
      BY <2>1
    <2>2. CASE Reaches(boxes, i) /\ Accepts(boxes[i])
      <3>1. boxes[i] \in Documents
        <4>1. boxes[i] \in Boxes /\ boxes[i] # OtherBox
          BY <1>1, <2>2
        <4> QED BY <2>2, <4>1 DEF Parsed
      <3>2. w \in Seq(Elements) /\ w # <<>> /\ w[1].tag = Root
        OBVIOUS
      <3>3. 1 \in 1 .. Len(w)
        BY <3>2
      <3>4. FirstNamed(w, Root) # 0
        BY <3>2, <3>3, FirstOfName
      <3>5. /\ Appended(w, boxes[i]) \in Seq(Elements) /\ Appended(w, boxes[i]) # <<>>
            /\ Appended(w, boxes[i])[1].tag = w[1].tag
        BY <3>1, <3>2, <3>4, AppendedTypes
      <3> HIDE DEF Accepts
      <3> QED BY <2>2, <3>2, <3>5
    <2> QED BY <2>1, <2>2
  <1>4. c \in S
    <2>1. Node(Root, 0, NoText) \in Elements /\ Node(Root, 0, NoText).tag = Root
      BY Dig35Assumption, KindsOfNode
    <2> QED BY <2>1 DEF NewDocument
  <1> HIDE DEF S, c, Turn
  <1>5. turn \in [1 .. Len(boxes) -> [S -> S]]
    BY <1>3
  <1>6. \E f : IsRun(f, S, Len(boxes), c, turn)
    <2> HIDE DEF turn
    <2> QED BY <1>1, <1>4, <1>5, RunExists, Zenon
  <1>7. PICK f : f \in [0 .. Len(boxes) -> S] /\ f[0] = c /\ \A i \in 1 .. Len(boxes) : f[i] = turn[i][f[i - 1]]
    BY <1>6 DEF IsRun
  <1>8. ASSUME NEW i \in 1 .. Len(boxes)
        PROVE  f[i] = Turn(f[i - 1], i)
    <2>1. f[i - 1] \in S
      BY <1>1, <1>7
    <2> QED BY <1>7, <2>1
  <1>9. f = [i \in 0 .. Len(boxes) |-> IF i = 0 THEN c ELSE Turn(f[i - 1], i)]
    <2> HIDE DEF turn
    <2> QED BY <1>1, <1>7, <1>8
  <1>10. W = [i \in 0 .. Len(boxes) |-> IF i = 0 THEN c ELSE Turn(W[i - 1], i)]
    BY <1>9
  <1> HIDE DEF W
  <1>11. W[0] \in S
    BY <1>1, <1>4, <1>10
  <1>12. \A i \in 1 .. Len(boxes) : W[i - 1] \in S => W[i] = turn[i][W[i - 1]]
    BY <1>1, <1>10
  <1>13. \A i \in 0 .. Len(boxes) : W[i] \in S
    <2> HIDE DEF turn
    <2> QED BY <1>1, <1>5, <1>11, <1>12, RunStays, Zenon
  <1>14. W[Len(boxes)] \in S
    BY <1>1, <1>13
  <1> QED BY <1>2, <1>14 DEF S

\* Writing leaf by leaf.
LEMMA Dig35WrittenTypes ==
  ASSUME NEW doc \in Seq(Elements), NEW s \in Scope, NEW valid \in BOOLEAN, md \in [Leaf -> Content]
  PROVE  Written(s, valid, doc, Dig35Set, Dig35NoThrow).state \in Seq(Elements)
  <1> DEFINE g == IF valid THEN Leaves ELSE s
             c == [state |-> doc, thrown |-> 0]
             Docs == Seq(Elements)
             Turn(w, i) == IF md[g[i]] = Absent \/ (throwErrors /\ w.thrown > 0) THEN w
                           ELSE [w EXCEPT !.state = Dig35Set(w.state, g[i])]
             S == [state : Docs, thrown : Nat]
             turn == [i \in 1 .. Len(g) |-> [w \in S |-> Turn(w, i)]]
             W == CHOOSE W : W = [i \in 0 .. Len(g) |-> IF i = 0 THEN c ELSE Turn(W[i - 1], i)]
  <1>1. g \in Seq(Leaf) /\ Len(g) \in Nat
    BY AccessorAssumption
  <1>2. Written(s, valid, doc, Dig35Set, Dig35NoThrow) = W[Len(g)]
    BY DEF Written, Dig35NoThrow
  <1> HIDE DEF g
  <1>3. ASSUME NEW i \in 1 .. Len(g), NEW w \in S
        PROVE  Turn(w, i) \in S
    <2>1. g[i] \in Leaf /\ w.state \in Docs
      BY <1>1
    <2>2. md[g[i]] \in Content
      BY <2>1
    <2>3. Dig35Set(w.state, g[i]) \in Docs
      BY <2>1, <2>2, SetTypes
    <2> HIDE DEF Docs
    <2> QED BY <2>3
  <1>4. c \in S
    OBVIOUS
  <1> HIDE DEF S, c, Turn
  <1>5. turn \in [1 .. Len(g) -> [S -> S]]
    BY <1>3
  <1>6. \E f : IsRun(f, S, Len(g), c, turn)
    <2> HIDE DEF turn
    <2> QED BY <1>1, <1>4, <1>5, RunExists, Zenon
  <1>7. PICK f : f \in [0 .. Len(g) -> S] /\ f[0] = c /\ \A i \in 1 .. Len(g) : f[i] = turn[i][f[i - 1]]
    BY <1>6 DEF IsRun
  <1>8. ASSUME NEW i \in 1 .. Len(g)
        PROVE  f[i] = Turn(f[i - 1], i)
    <2>1. f[i - 1] \in S
      BY <1>1, <1>7, SMTT(30)
    <2> QED BY <1>7, <2>1
  <1>9. f = [i \in 0 .. Len(g) |-> IF i = 0 THEN c ELSE Turn(f[i - 1], i)]
    <2> HIDE DEF turn
    <2> QED BY <1>1, <1>7, <1>8
  <1>10. W = [i \in 0 .. Len(g) |-> IF i = 0 THEN c ELSE Turn(W[i - 1], i)]
    BY <1>9
  <1> HIDE DEF W
  <1>11. W[0] \in S
    BY <1>1, <1>4, <1>10
  <1>12. \A i \in 1 .. Len(g) : W[i - 1] \in S => W[i] = turn[i][W[i - 1]]
    BY <1>1, <1>10
  <1>13. \A i \in 0 .. Len(g) : W[i] \in S
    <2> HIDE DEF turn
    <2> QED BY <1>1, <1>5, <1>11, <1>12, RunStays, Zenon
  <1>14. W[Len(g)] \in S
    BY <1>1, <1>13
  <1> QED BY <1>2, <1>14 DEF S

\* Removing leaf by leaf.
LEMMA Dig35RemovedTypes ==
  ASSUME NEW doc \in Seq(Elements), NEW s \in Scope
  PROVE  Removed(s, doc, Dig35RemoveValue, Dig35NoThrow).state \in Seq(Elements)
  <1> DEFINE c == [state |-> doc, thrown |-> FALSE]
             Docs == Seq(Elements)
             Turn(w, i) == IF md[s[i]] = Absent \/ w.thrown THEN w
                           ELSE [state |-> Dig35RemoveValue(w.state, s[i]), thrown |-> FALSE]
             S == [state : Docs, thrown : BOOLEAN]
             turn == [i \in 1 .. Len(s) |-> [w \in S |-> Turn(w, i)]]
             W == CHOOSE W : W = [i \in 0 .. Len(s) |-> IF i = 0 THEN c ELSE Turn(W[i - 1], i)]
  <1>1. s \in Seq(Leaf) /\ Len(s) \in Nat
    BY AccessorAssumption
  <1>2. Removed(s, doc, Dig35RemoveValue, Dig35NoThrow) = W[Len(s)]
    BY DEF Removed, Dig35NoThrow
  <1>3. ASSUME NEW i \in 1 .. Len(s), NEW w \in S
        PROVE  Turn(w, i) \in S
    <2>1. s[i] \in Leaf /\ w.state \in Docs
      BY <1>1
    <2>2. Dig35RemoveValue(w.state, s[i]) \in Docs
      BY <2>1, RemoveTypes
    <2> HIDE DEF Docs
    <2> QED BY <2>2
  <1>4. c \in S
    OBVIOUS
  <1> HIDE DEF S, c, Turn
  <1>5. turn \in [1 .. Len(s) -> [S -> S]]
    BY <1>3
  <1>6. \E f : IsRun(f, S, Len(s), c, turn)
    <2> HIDE DEF turn
    <2> QED BY <1>1, <1>4, <1>5, RunExists, Zenon
  <1>7. PICK f : f \in [0 .. Len(s) -> S] /\ f[0] = c /\ \A i \in 1 .. Len(s) : f[i] = turn[i][f[i - 1]]
    BY <1>6 DEF IsRun
  <1>8. ASSUME NEW i \in 1 .. Len(s)
        PROVE  f[i] = Turn(f[i - 1], i)
    <2>1. f[i - 1] \in S
      BY <1>1, <1>7
    <2> QED BY <1>7, <2>1
  <1>9. f = [i \in 0 .. Len(s) |-> IF i = 0 THEN c ELSE Turn(f[i - 1], i)]
    <2> HIDE DEF turn
    <2> QED BY <1>1, <1>7, <1>8
  <1>10. W = [i \in 0 .. Len(s) |-> IF i = 0 THEN c ELSE Turn(W[i - 1], i)]
    BY <1>9
  <1> HIDE DEF W
  <1>11. W[0] \in S
    BY <1>1, <1>4, <1>10
  <1>12. \A i \in 1 .. Len(s) : W[i - 1] \in S => W[i] = turn[i][W[i - 1]]
    BY <1>1, <1>10
  <1>13. \A i \in 0 .. Len(s) : W[i] \in S
    <2> HIDE DEF turn
    <2> QED BY <1>1, <1>5, <1>11, <1>12, RunStays, Zenon
  <1>14. W[Len(s)] \in S
    BY <1>1, <1>13
  <1> QED BY <1>2, <1>14 DEF S

-----------------------------------------------------------------------------
\* The entries of a TIFF file


\* Writing leaf by leaf.
LEMMA TiffWrittenTypes ==
  ASSUME NEW entries \in [Leaf -> Content], NEW s \in Scope, NEW valid \in BOOLEAN,
         md \in [Leaf -> Content]
  PROVE  Written(s, valid, entries, TiffSet, TiffSetThrows).state \in [Leaf -> Content]
  <1> DEFINE g == IF valid THEN Leaves ELSE s
             c == [state |-> entries, thrown |-> 0]
             Entries == [Leaf -> Content]
             Turn(w, i) == IF md[g[i]] = Absent \/ (throwErrors /\ w.thrown > 0) THEN w
                           ELSE IF tiffRow[g[i]] = "badLocation" THEN [w EXCEPT !.thrown = @ + 1]
                           ELSE [w EXCEPT !.state = TiffSet(w.state, g[i])]
             S == [state : Entries, thrown : Nat]
             turn == [i \in 1 .. Len(g) |-> [w \in S |-> Turn(w, i)]]
             W == CHOOSE W : W = [i \in 0 .. Len(g) |-> IF i = 0 THEN c ELSE Turn(W[i - 1], i)]
  <1>1. g \in Seq(Leaf) /\ Len(g) \in Nat
    BY AccessorAssumption
  <1>2. Written(s, valid, entries, TiffSet, TiffSetThrows) = W[Len(g)]
    BY DEF Written, TiffSetThrows
  <1> HIDE DEF g
  <1>3. ASSUME NEW i \in 1 .. Len(g), NEW w \in S
        PROVE  Turn(w, i) \in S
    <2>1. g[i] \in Leaf /\ w.state \in Entries
      BY <1>1
    <2>2. md[g[i]] \in Content
      BY <2>1
    <2>3. TiffSet(w.state, g[i]) \in Entries
      BY <2>1, <2>2 DEF TiffSet
    <2> HIDE DEF Entries
    <2> QED BY <2>3
  <1>4. c \in S
    OBVIOUS
  <1> HIDE DEF S, c, Turn
  <1>5. turn \in [1 .. Len(g) -> [S -> S]]
    BY <1>3
  <1>6. \E f : IsRun(f, S, Len(g), c, turn)
    <2> HIDE DEF turn
    <2> QED BY <1>1, <1>4, <1>5, RunExists, Zenon
  <1>7. PICK f : f \in [0 .. Len(g) -> S] /\ f[0] = c /\ \A i \in 1 .. Len(g) : f[i] = turn[i][f[i - 1]]
    BY <1>6 DEF IsRun
  <1>8. ASSUME NEW i \in 1 .. Len(g)
        PROVE  f[i] = Turn(f[i - 1], i)
    <2>1. f[i - 1] \in S
      BY <1>1, <1>7
    <2> QED BY <1>7, <2>1
  <1>9. f = [i \in 0 .. Len(g) |-> IF i = 0 THEN c ELSE Turn(f[i - 1], i)]
    <2> HIDE DEF turn
    <2> QED BY <1>1, <1>7, <1>8
  <1>10. W = [i \in 0 .. Len(g) |-> IF i = 0 THEN c ELSE Turn(W[i - 1], i)]
    BY <1>9
  <1> HIDE DEF W
  <1>11. W[0] \in S
    BY <1>1, <1>4, <1>10
  <1>12. \A i \in 1 .. Len(g) : W[i - 1] \in S => W[i] = turn[i][W[i - 1]]
    BY <1>1, <1>10
  <1>13. \A i \in 0 .. Len(g) : W[i] \in S
    <2> HIDE DEF turn
    <2> QED BY <1>1, <1>5, <1>11, <1>12, RunStays, Zenon
  <1>14. W[Len(g)] \in S
    BY <1>1, <1>13
  <1> QED BY <1>2, <1>14 DEF S

\* Removing changes no entry.
LEMMA TiffRemovedTypes ==
  ASSUME NEW entries \in [Leaf -> Content], NEW s \in Scope
  PROVE  Removed(s, entries, TiffRemoveValue, TiffRemoveThrows).state \in [Leaf -> Content]
  <1> DEFINE c == [state |-> entries, thrown |-> FALSE]
             Entries == [Leaf -> Content]
             Turn(w, i) == IF md[s[i]] = Absent \/ w.thrown THEN w ELSE [state |-> w.state, thrown |-> TRUE]
             S == [state : Entries, thrown : BOOLEAN]
             turn == [i \in 1 .. Len(s) |-> [w \in S |-> Turn(w, i)]]
             W == CHOOSE W : W = [i \in 0 .. Len(s) |-> IF i = 0 THEN c ELSE Turn(W[i - 1], i)]
  <1>1. s \in Seq(Leaf) /\ Len(s) \in Nat
    BY AccessorAssumption
  <1>2. Removed(s, entries, TiffRemoveValue, TiffRemoveThrows) = W[Len(s)]
    BY DEF Removed, TiffRemoveThrows, TiffRemoveValue
  <1>3. ASSUME NEW i \in 1 .. Len(s), NEW w \in S
        PROVE  Turn(w, i) \in S
    <2> HIDE DEF Entries
    <2> QED OBVIOUS
  <1>4. c \in S
    OBVIOUS
  <1> HIDE DEF S, c, Turn
  <1>5. turn \in [1 .. Len(s) -> [S -> S]]
    BY <1>3
  <1>6. \E f : IsRun(f, S, Len(s), c, turn)
    <2> HIDE DEF turn
    <2> QED BY <1>1, <1>4, <1>5, RunExists, Zenon
  <1>7. PICK f : f \in [0 .. Len(s) -> S] /\ f[0] = c /\ \A i \in 1 .. Len(s) : f[i] = turn[i][f[i - 1]]
    BY <1>6 DEF IsRun
  <1>8. ASSUME NEW i \in 1 .. Len(s)
        PROVE  f[i] = Turn(f[i - 1], i)
    <2>1. f[i - 1] \in S
      BY <1>1, <1>7
    <2> QED BY <1>7, <2>1
  <1>9. f = [i \in 0 .. Len(s) |-> IF i = 0 THEN c ELSE Turn(f[i - 1], i)]
    <2> HIDE DEF turn
    <2> QED BY <1>1, <1>7, <1>8
  <1>10. W = [i \in 0 .. Len(s) |-> IF i = 0 THEN c ELSE Turn(W[i - 1], i)]
    BY <1>9
  <1> HIDE DEF W
  <1>11. W[0] \in S
    BY <1>1, <1>4, <1>10
  <1>12. \A i \in 1 .. Len(s) : W[i - 1] \in S => W[i] = turn[i][W[i - 1]]
    BY <1>1, <1>10
  <1>13. \A i \in 0 .. Len(s) : W[i] \in S
    <2> HIDE DEF turn
    <2> QED BY <1>1, <1>5, <1>11, <1>12, RunStays, Zenon
  <1>14. W[Len(s)] \in S
    BY <1>1, <1>13
  <1> QED BY <1>2, <1>14 DEF S

-----------------------------------------------------------------------------
\* The trees of XML files

LEMMA WithLeafTypes ==
  ASSUME NEW tree \in Trees, NEW l \in Leaf, NEW v \in Content
  PROVE  /\ WithLeaf(tree, l, v) \in Trees
         /\ CreatedLeaves(tree.leaves, l) \in [Leaf -> Content]
  <1>1. tree.leaves \in [Leaf -> Content] /\ tree.blocks \in SUBSET Blocks
    BY DEF Trees
  <1>2. Unset \in Content
    BY DEF Content
  <1>3. CreatedLeaves(tree.leaves, l) \in [Leaf -> Content]
    BY <1>1, <1>2 DEF CreatedLeaves
  <1>4. {Place(l).block} \ {NoBlock} \in SUBSET Blocks
    BY DEF Blocks, Place
  <1> QED BY <1>1, <1>3, <1>4 DEF WithLeaf, Trees

LEMMA WithoutLeafTypes ==
  ASSUME NEW tree \in Trees, NEW l \in Leaf
  PROVE  WithoutLeaf(tree, l) \in Trees
  <1> DEFINE next(k) == Occurrence(Key(k), Place(k).occurrence + 1)
             moved == [k \in Leaf |->
                        IF k \in Siblings(l) /\ Place(k).occurrence >= Place(l).occurrence
                        THEN IF next(k) = {} THEN Absent ELSE tree.leaves[CHOOSE n \in next(k) : TRUE]
                        ELSE tree.leaves[k]]
  <1>1. tree \in [leaves : [Leaf -> Content], blocks : SUBSET Blocks] /\ Absent \in Content
    BY DEF Trees, Content
  <1>2. WithoutLeaf(tree, l) = IF tree.leaves[l] = Absent THEN tree ELSE [tree EXCEPT !.leaves = moved]
    BY DEF WithoutLeaf
  <1>3. ASSUME NEW k \in Leaf
        PROVE  moved[k] \in Content
    <2>1. next(k) \subseteq Leaf
      BY DEF Occurrence
    <2> HIDE DEF next
    <2>2. next(k) # {} => (CHOOSE n \in next(k) : TRUE) \in Leaf
      BY <2>1
    <2> QED BY <1>1, <2>2
  <1>4. moved \in [Leaf -> Content]
    <2>1. DOMAIN moved = Leaf
      OBVIOUS
    <2> QED BY <1>3
  <1> HIDE DEF moved
  <1> QED BY <1>1, <1>2, <1>4 DEF Trees


\* Copying leaf by leaf.
LEMMA CopiedTypes ==
  ASSUME mRootMd \in Trees, md \in [Leaf -> Content], NEW s \in Seq(Leaf)
  PROVE  Copied(s) \in Trees
  <1> DEFINE c == mRootMd
             Turn(w, i) == IF md[s[i]] = Absent THEN w ELSE WithLeaf(w, s[i], md[s[i]])
             S == Trees
             turn == [i \in 1 .. Len(s) |-> [w \in S |-> Turn(w, i)]]
             W == CHOOSE W : W = [i \in 0 .. Len(s) |-> IF i = 0 THEN c ELSE Turn(W[i - 1], i)]
  <1>1. Len(s) \in Nat /\ \A i \in 1 .. Len(s) : s[i] \in Leaf
    OBVIOUS
  <1>2. Copied(s) = W[Len(s)]
    BY DEF Copied
  <1>3. ASSUME NEW i \in 1 .. Len(s), NEW w \in S
        PROVE  Turn(w, i) \in S
    <2>1. s[i] \in Leaf /\ md[s[i]] \in Content
      BY <1>1
    <2> QED BY <2>1, WithLeafTypes
  <1>4. c \in S
    OBVIOUS
  <1> HIDE DEF S, c, Turn
  <1>5. turn \in [1 .. Len(s) -> [S -> S]]
    BY <1>3
  <1>6. \E f : IsRun(f, S, Len(s), c, turn)
    <2> HIDE DEF turn
    <2> QED BY <1>1, <1>4, <1>5, RunExists, Zenon
  <1>7. PICK f : f \in [0 .. Len(s) -> S] /\ f[0] = c /\ \A i \in 1 .. Len(s) : f[i] = turn[i][f[i - 1]]
    BY <1>6 DEF IsRun
  <1>8. ASSUME NEW i \in 1 .. Len(s)
        PROVE  f[i] = Turn(f[i - 1], i)
    <2>1. f[i - 1] \in S
      BY <1>1, <1>7
    <2> QED BY <1>7, <2>1
  <1>9. f = [i \in 0 .. Len(s) |-> IF i = 0 THEN c ELSE Turn(f[i - 1], i)]
    <2> HIDE DEF turn
    <2> QED BY <1>1, <1>7, <1>8
  <1>10. W = [i \in 0 .. Len(s) |-> IF i = 0 THEN c ELSE Turn(W[i - 1], i)]
    BY <1>9
  <1> HIDE DEF W
  <1>11. W[0] \in S
    BY <1>1, <1>4, <1>10
  <1>12. \A i \in 1 .. Len(s) : W[i - 1] \in S => W[i] = turn[i][W[i - 1]]
    BY <1>1, <1>10
  <1>13. \A i \in 0 .. Len(s) : W[i] \in S
    <2> HIDE DEF turn
    <2> QED BY <1>1, <1>5, <1>11, <1>12, RunStays, Zenon
  <1>14. W[Len(s)] \in S
    BY <1>1, <1>13
  <1> QED BY <1>2, <1>14 DEF S

Parses == [tree : Trees, dropped : BOOLEAN]

LEMMA ParsedElementTypes ==
  ASSUME NEW p \in Parses, NEW element, element.text \in Content
  PROVE  ParsedElement(p, element) \in Parses
  <1> DEFINE found == Occurrence(element.key, 0)
             l == CHOOSE k \in found : TRUE
             text == IF element.text # Unset THEN element.text ELSE CreatedLeaves(p.tree.leaves, l)[l]
             blocks == [p.tree EXCEPT !.blocks = @ \cup (Blocks \cap {element.key[1]})]
  <1>1. p.tree \in Trees /\ p.dropped \in BOOLEAN
    BY DEF Parses
  <1>2. /\ p.dropped => ParsedElement(p, element) = p
        /\ ~p.dropped /\ found = {} => ParsedElement(p, element) = [tree |-> blocks, dropped |-> TRUE]
        /\ ~p.dropped /\ found # {} =>
             ParsedElement(p, element) = [tree |-> WithLeaf(p.tree, l, text), dropped |-> FALSE]
    BY <1>1 DEF ParsedElement
  <1>3. blocks \in Trees
    BY <1>1 DEF Trees
  <1>4. ASSUME found # {} PROVE WithLeaf(p.tree, l, text) \in Trees
    <2>1. l \in Leaf
      <3>1. found \subseteq Leaf
        BY DEF Occurrence
      <3> HIDE DEF found
      <3> QED BY <1>4, <3>1
    <2> HIDE DEF l
    <2>2. CreatedLeaves(p.tree.leaves, l)[l] \in Content
      <3>1. element.text \in Content
        OBVIOUS
      <3>2. CreatedLeaves(p.tree.leaves, l) \in [Leaf -> Content]
        BY <1>1, <2>1, <3>1, WithLeafTypes
      <3> QED BY <2>1, <3>2
    <2>3. text \in Content
      BY <2>2
    <2> HIDE DEF text
    <2> QED BY <1>1, <2>1, <2>3, WithLeafTypes
  <1> HIDE DEF blocks, l, text, found
  <1>5. CASE p.dropped
    BY <1>2, <1>5
  <1>6. CASE ~p.dropped /\ found = {}
    <2>1. ParsedElement(p, element) = [tree |-> blocks, dropped |-> TRUE]
      BY <1>2, <1>6
    <2> QED BY <1>3, <2>1 DEF Parses
  <1>7. CASE ~p.dropped /\ found # {}
    <2>1. WithLeaf(p.tree, l, text) \in Trees
      BY <1>4, <1>7
    <2>2. ParsedElement(p, element) = [tree |-> WithLeaf(p.tree, l, text), dropped |-> FALSE]
      BY <1>2, <1>7
    <2> QED BY <2>1, <2>2 DEF Parses
  <1> QED BY <1>5, <1>6, <1>7

\* The way through a document, element by element.
IsParse(W, doc) ==
  /\ XmlParsed(doc) = W[Len(doc)].tree
  /\ W[0] = [tree |-> EmptyTree, dropped |-> FALSE]
  /\ \A i \in 1 .. Len(doc) : W[i] = ParsedElement(W[i - 1], doc[i])
  /\ \A i \in 0 .. Len(doc) : W[i] \in Parses


LEMMA ParseWalk ==
  ASSUME NEW doc, IsXmlDocument(doc)
  PROVE  \E W : IsParse(W, doc)
  <1> DEFINE c == [tree |-> EmptyTree, dropped |-> FALSE]
             Turn(w, i) == ParsedElement(w, doc[i])
             S == Parses
             turn == [i \in 1 .. Len(doc) |-> [w \in S |-> Turn(w, i)]]
             W == CHOOSE W : W = [i \in 0 .. Len(doc) |-> IF i = 0 THEN c ELSE Turn(W[i - 1], i)]
  <1>1. Len(doc) \in Nat /\ \A i \in 1 .. Len(doc) : doc[i].text \in Content
    BY DEF IsXmlDocument
  <1>2. XmlParsed(doc) = W[Len(doc)].tree
    BY DEF XmlParsed
  <1>3. ASSUME NEW i \in 1 .. Len(doc), NEW w \in S
        PROVE  Turn(w, i) \in S
    BY <1>1, ParsedElementTypes
  <1>4. c \in S
    <2>1. EmptyTree \in Trees
      BY DEF EmptyTree, Trees, Content
    <2> QED BY <2>1 DEF Parses
  <1> HIDE DEF S, c, Turn
  <1>5. turn \in [1 .. Len(doc) -> [S -> S]]
    BY <1>3
  <1>6. \E f : IsRun(f, S, Len(doc), c, turn)
    <2> HIDE DEF turn
    <2> QED BY <1>1, <1>4, <1>5, RunExists, Zenon
  <1>7. PICK f : f \in [0 .. Len(doc) -> S] /\ f[0] = c /\ \A i \in 1 .. Len(doc) : f[i] = turn[i][f[i - 1]]
    BY <1>6 DEF IsRun
  <1>8. ASSUME NEW i \in 1 .. Len(doc)
        PROVE  f[i] = Turn(f[i - 1], i)
    <2>1. f[i - 1] \in S
      BY <1>1, <1>7
    <2> QED BY <1>7, <2>1
  <1>9. f = [i \in 0 .. Len(doc) |-> IF i = 0 THEN c ELSE Turn(f[i - 1], i)]
    <2> HIDE DEF turn
    <2> QED BY <1>1, <1>7, <1>8
  <1>10. W = [i \in 0 .. Len(doc) |-> IF i = 0 THEN c ELSE Turn(W[i - 1], i)]
    BY <1>9
  <1> HIDE DEF W
  <1>11. W[0] \in S
    BY <1>1, <1>4, <1>10
  <1>12. \A i \in 1 .. Len(doc) : W[i - 1] \in S => W[i] = turn[i][W[i - 1]]
    BY <1>1, <1>10
  <1>13. \A i \in 0 .. Len(doc) : W[i] \in S
    <2> HIDE DEF turn
    <2> QED BY <1>1, <1>5, <1>11, <1>12, RunStays, Zenon
  <1>14. /\ W[0] = c
         /\ \A i \in 1 .. Len(doc) : W[i] = Turn(W[i - 1], i)
    BY <1>1, <1>10
  <1>15. IsParse(W, doc)
    BY <1>2, <1>13, <1>14 DEF c, Turn, S, IsParse
  <1> QED BY <1>15

LEMMA XmlParsedTypes ==
  ASSUME NEW doc, IsXmlDocument(doc)
  PROVE  XmlParsed(doc) \in Trees
  <1>1. PICK W : IsParse(W, doc)
    BY ParseWalk
  <1>2. Len(doc) \in 0 .. Len(doc)
    BY DEF IsXmlDocument
  <1> QED BY <1>1, <1>2 DEF IsParse, Parses

-----------------------------------------------------------------------------
\* What is printed reads back

Present(tree) == {l \in Leaf : tree.leaves[l] # Absent}
ElementOf(tree, l) == [key |-> Key(l), text |-> tree.leaves[l]]
ElementsOf(tree) == {ElementOf(tree, l) : l \in Present(tree)}

\* The way through a tree that is printed, leaf by leaf.
IsPrint(D, tree) ==
  /\ D[0] = <<>>
  /\ \A i \in 1 .. Len(Leaves) :
       D[i] = IF Leaves[i] \notin Present(tree) THEN D[i - 1]
              ELSE Append(D[i - 1], ElementOf(tree, Leaves[i]))
  /\ \A i \in 0 .. Len(Leaves) : D[i] \in Seq(ElementsOf(tree))
  /\ Printed(tree) = IF Emptied(tree) \/ \E l \in Present(tree) : Place(l).multiple
                     THEN Malformed ELSE D[Len(Leaves)]

LEMMA LeavesTypes ==
  /\ Leaves \in Seq(Leaf) /\ Len(Leaves) \in Nat
  /\ \A i \in 1 .. Len(Leaves) : Leaves[i] \in Leaf
  /\ \A l \in Leaf : \E i \in 1 .. Len(Leaves) : Leaves[i] = l
  BY AccessorAssumption DEF ToSet


\* A tree has its way.
LEMMA PrintWalk ==
  ASSUME NEW tree \in Trees
  PROVE  \E D : IsPrint(D, tree)
  <1> DEFINE c == <<>>
             Turn(w, i) == IF tree.leaves[Leaves[i]] \in {Absent} THEN w ELSE Append(w, [key |-> Key(Leaves[i]), text |-> tree.leaves[Leaves[i]]])
             S == Seq(ElementsOf(tree))
             turn == [i \in 1 .. Len(Leaves) |-> [w \in S |-> Turn(w, i)]]
             W == CHOOSE W : W = [i \in 0 .. Len(Leaves) |-> IF i = 0 THEN c ELSE Turn(W[i - 1], i)]
  <1>1. Len(Leaves) \in Nat /\ \A i \in 1 .. Len(Leaves) : Leaves[i] \in Leaf
    BY LeavesTypes
  <1>2. Printed(tree) = IF Emptied(tree) \/ \E l \in Present(tree) : Place(l).multiple
                       THEN Malformed ELSE W[Len(Leaves)]
    BY DEF Printed, PrintedBut, Present
  <1>3. ASSUME NEW i \in 1 .. Len(Leaves), NEW w \in S
        PROVE  Turn(w, i) \in S
    <2> DEFINE e == [key |-> Key(Leaves[i]), text |-> tree.leaves[Leaves[i]]]
               U == ElementsOf(tree)
    <2>1. Leaves[i] \in Leaf
      BY <1>1
    <2>2. tree.leaves[Leaves[i]] # Absent => e \in U
      BY <2>1 DEF ElementsOf, ElementOf, Present
    <2>3. w \in Seq(U)
      OBVIOUS
    <2> HIDE DEF e, U
    <2>4. e \in U => Append(w, e) \in Seq(U)
      BY <2>3
    <2>5. Turn(w, i) \in Seq(U)
      BY <2>2, <2>3, <2>4 DEF e
    <2> QED BY <2>5 DEF U
  <1>4. c \in S
    OBVIOUS
  <1> HIDE DEF S, c, Turn
  <1>5. turn \in [1 .. Len(Leaves) -> [S -> S]]
    BY <1>3
  <1>6. \E f : IsRun(f, S, Len(Leaves), c, turn)
    <2> HIDE DEF turn
    <2> QED BY <1>1, <1>4, <1>5, RunExists, Zenon
  <1>7. PICK f : f \in [0 .. Len(Leaves) -> S] /\ f[0] = c /\ \A i \in 1 .. Len(Leaves) : f[i] = turn[i][f[i - 1]]
    BY <1>6 DEF IsRun
  <1>8. ASSUME NEW i \in 1 .. Len(Leaves)
        PROVE  f[i] = Turn(f[i - 1], i)
    <2>1. f[i - 1] \in S
      BY <1>1, <1>7
    <2> QED BY <1>7, <2>1
  <1>9. f = [i \in 0 .. Len(Leaves) |-> IF i = 0 THEN c ELSE Turn(f[i - 1], i)]
    <2> HIDE DEF turn
    <2> QED BY <1>1, <1>7, <1>8
  <1>10. W = [i \in 0 .. Len(Leaves) |-> IF i = 0 THEN c ELSE Turn(W[i - 1], i)]
    BY <1>9
  <1> HIDE DEF W
  <1>11. W[0] \in S
    BY <1>1, <1>4, <1>10
  <1>12. \A i \in 1 .. Len(Leaves) : W[i - 1] \in S => W[i] = turn[i][W[i - 1]]
    BY <1>1, <1>10
  <1>13. \A i \in 0 .. Len(Leaves) : W[i] \in S
    <2> HIDE DEF turn
    <2> QED BY <1>1, <1>5, <1>11, <1>12, RunStays, Zenon
  <1>14. /\ W[0] = c
         /\ \A i \in 1 .. Len(Leaves) : W[i] = Turn(W[i - 1], i)
    BY <1>1, <1>10
  <1>15. ASSUME NEW i \in 1 .. Len(Leaves)
         PROVE  W[i] = IF Leaves[i] \notin Present(tree) THEN W[i - 1]
                       ELSE Append(W[i - 1], ElementOf(tree, Leaves[i]))
    BY <1>1, <1>14 DEF Turn, Present, ElementOf
  <1>16. IsPrint(W, tree)
    BY <1>2, <1>13, <1>14, <1>15 DEF c, S, IsPrint
  <1> QED BY <1>16

\* A sequence of elements is not what the parser does not accept.
LEMMA PrintedIsDocument ==
  ASSUME NEW tree \in Trees, NEW d \in Seq(ElementsOf(tree)), xmlSchema \in XmlSchemas
  PROVE  IsXmlDocument(d) /\ d # Malformed
  <1> DEFINE U == [key : {<<schema.place[l].block, schema.place[l].name>> :
                            schema \in XmlSchemas, l \in Leaf}, text : Content]
  <1>1. ASSUME NEW e \in ElementsOf(tree)
        PROVE  e \in U /\ e.text \in Content \ {Absent}
    <2>1. PICK l \in Present(tree) : e = ElementOf(tree, l)
      BY DEF ElementsOf
    <2>2. l \in Leaf /\ tree.leaves[l] \in Content \ {Absent}
      BY DEF Present, Trees
    <2>3. Key(l) \in {<<schema.place[k].block, schema.place[k].name>> :
                       schema \in XmlSchemas, k \in Leaf}
      BY <2>2 DEF Key, Place
    <2> QED BY <2>1, <2>2, <2>3 DEF ElementOf
  <1>2. Malformed \notin Seq(U)
    BY FileAccessorsAssumption
  <1> HIDE DEF U
  <1>3. d \in Seq(U)
    <2>1. ElementsOf(tree) \subseteq U
      BY <1>1
    <2> QED BY <2>1
  <1>4. \A i \in DOMAIN d : d[i] \in ElementsOf(tree)
    OBVIOUS
  <1>5. IsXmlDocument(d)
    BY <1>1, <1>4 DEF IsXmlDocument
  <1> QED BY <1>2, <1>3, <1>5

LEMMA PrintedTypes ==
  ASSUME NEW tree \in Trees, xmlSchema \in XmlSchemas
  PROVE  Printed(tree) = Malformed \/ IsXmlDocument(Printed(tree))
  <1>1. PICK D : IsPrint(D, tree)
    BY PrintWalk
  <1>2. D[Len(Leaves)] \in Seq(ElementsOf(tree))
    BY <1>1, LeavesTypes DEF IsPrint
  <1>3. IsXmlDocument(D[Len(Leaves)])
    BY <1>2, PrintedIsDocument
  <1> QED BY <1>1, <1>3 DEF IsPrint

\* Every leaf in the tree has an element.
LEMMA AllPrinted ==
  ASSUME NEW tree \in Trees, NEW D, IsPrint(D, tree), NEW l \in Present(tree)
  PROVE  \E m \in 1 .. Len(D[Len(Leaves)]) : D[Len(Leaves)][m] = ElementOf(tree, l)
  <1> DEFINE Has(i) == \E m \in 1 .. Len(D[i]) : D[i][m] = ElementOf(tree, l)
  <1>1. l \in Leaf
    BY DEF Present
  <1>2. PICK at \in 1 .. Len(Leaves) : Leaves[at] = l
    BY <1>1, LeavesTypes
  <1>3. Len(Leaves) \in Nat
    BY LeavesTypes
  <1>4. ASSUME NEW i \in 1 .. Len(Leaves)
        PROVE  (i = at \/ Has(i - 1)) => Has(i)
    <2> DEFINE U == ElementsOf(tree)
               e == ElementOf(tree, Leaves[i])
               before == D[i - 1]
    <2>1. i - 1 \in 0 .. Len(Leaves)
      BY <1>3
    <2>2. D[i - 1] \in Seq(U)
      BY <2>1 DEF IsPrint
    <2>3. D[i] = IF Leaves[i] \notin Present(tree) THEN D[i - 1] ELSE Append(D[i - 1], e)
      BY DEF IsPrint
    <2>4. e \in U \/ Leaves[i] \notin Present(tree)
      BY DEF ElementsOf
    <2>5. i = at => e = ElementOf(tree, l) /\ Leaves[i] \in Present(tree)
      BY <1>2
    <2> HIDE DEF U, e
    <2>6. CASE Leaves[i] \notin Present(tree)
      BY <2>3, <2>5, <2>6
    <2>7. CASE Leaves[i] \in Present(tree)
      <3>1. D[i] = Append(before, e) /\ e \in U /\ before \in Seq(U)
        BY <2>2, <2>3, <2>4, <2>7
      <3> HIDE DEF before
      <3>2. /\ Len(D[i]) = Len(before) + 1 /\ Len(before) \in Nat /\ D[i][Len(before) + 1] = e
            /\ \A m \in 1 .. Len(before) : D[i][m] = before[m]
        BY <3>1
      <3>3. CASE i = at
        BY <2>5, <3>2, <3>3
      <3>4. CASE Has(i - 1)
        <4>1. PICK m \in 1 .. Len(before) : before[m] = ElementOf(tree, l)
          BY <3>4 DEF before
        <4>2. m \in 1 .. Len(D[i]) /\ D[i][m] = ElementOf(tree, l)
          BY <3>2, <4>1
        <4> QED BY <4>2
      <3> QED BY <3>3, <3>4
    <2> QED BY <2>6, <2>7
  <1> HIDE DEF Has
  <1> DEFINE P == {i \in Nat : at <= i /\ i <= Len(Leaves) => Has(i)}
  <1>5. 0 \in P
    BY <1>2
  <1>6. ASSUME NEW i \in Nat, i \in P
        PROVE  i + 1 \in P
    <2> SUFFICES ASSUME at <= i + 1, i + 1 <= Len(Leaves) PROVE Has(i + 1)
      OBVIOUS
    <2>1. i + 1 \in 1 .. Len(Leaves) /\ (i + 1) - 1 = i
      BY <1>3
    <2>2. i + 1 = at \/ Has(i)
      BY <1>2, <1>3, <1>6
    <2> QED BY <1>4, <2>1, <2>2
  <1>7. Nat \subseteq P
    <2> HIDE DEF P
    <2> QED BY <1>5, <1>6, SetInduction
  <1>8. Has(Len(Leaves))
    BY <1>2, <1>3, <1>7
  <1> QED BY <1>8 DEF Has

\* A key of which there is one leaf has no other occurrence.
LEMMA OnlyOccurrence ==
  ASSUME NEW l \in Leaf, ~Place(l).multiple, xmlSchema \in XmlSchemas
  PROVE  Occurrence(Key(l), 0) = {l} /\ Siblings(l) = {l} /\ Place(l).occurrence = 0
  <1>1. Place(l).occurrence = 0
    BY XmlAssumption DEF Place
  <1>2. ASSUME NEW k \in Leaf, Key(k) = Key(l)
        PROVE  k = l
    <2>1. Place(k).block = Place(l).block /\ Place(k).name = Place(l).name
      BY <1>2 DEF Key
    <2>2. ~Place(k).multiple
      BY <2>1, XmlAssumption DEF Place
    <2>3. Place(k).occurrence = 0
      BY <2>2, XmlAssumption DEF Place
    <2> QED BY <1>1, <2>1, <2>3, XmlAssumption DEF Place
  <1> QED BY <1>1, <1>2 DEF Occurrence, Siblings

\* Parsing the element of a leaf gives the leaf its value, and no other leaf another.
LEMMA ElementParsed ==
  ASSUME NEW tree \in Trees, NEW p \in Parses, ~p.dropped, NEW l \in Present(tree),
         ~Place(l).multiple, xmlSchema \in XmlSchemas, p.tree.leaves[l] \in {Absent, tree.leaves[l]}
  PROVE  LET q == ParsedElement(p, ElementOf(tree, l))
         IN  /\ ~q.dropped /\ q.tree.leaves[l] = tree.leaves[l]
             /\ \A k \in Leaf : k # l => q.tree.leaves[k] = p.tree.leaves[k]
  <1> DEFINE q == ParsedElement(p, ElementOf(tree, l))
             text == IF tree.leaves[l] # Unset THEN tree.leaves[l] ELSE CreatedLeaves(p.tree.leaves, l)[l]
  <1>1. /\ l \in Leaf /\ tree.leaves[l] # Absent /\ p.tree \in Trees
        /\ ElementOf(tree, l).key = Key(l) /\ ElementOf(tree, l).text = tree.leaves[l]
    BY DEF Present, Parses, ElementOf
  <1>2. Occurrence(Key(l), 0) = {l} /\ Siblings(l) = {l} /\ Place(l).occurrence = 0
    BY <1>1, OnlyOccurrence
  <1>3. (CHOOSE k \in Occurrence(Key(l), 0) : TRUE) = l
    BY <1>2
  <1>4. q = [tree |-> WithLeaf(p.tree, l, text), dropped |-> FALSE]
    <2>1. Occurrence(ElementOf(tree, l).key, 0) # {}
      BY <1>1, <1>2
    <2> QED BY <1>1, <1>3, <2>1 DEF ParsedElement
  <1>5. p.tree.leaves \in [Leaf -> Content]
    BY <1>1 DEF Trees
  <1>6. /\ CreatedLeaves(p.tree.leaves, l) \in [Leaf -> Content]
        /\ CreatedLeaves(p.tree.leaves, l)[l] = IF p.tree.leaves[l] = Absent THEN Unset ELSE p.tree.leaves[l]
        /\ \A k \in Leaf : k # l => CreatedLeaves(p.tree.leaves, l)[k] = p.tree.leaves[k]
    <2>1. CreatedLeaves(p.tree.leaves, l) \in [Leaf -> Content]
      <3>1. Unset \in Content
        BY DEF Content
      <3> QED BY <1>1, <3>1, WithLeafTypes
    <2>2. CreatedLeaves(p.tree.leaves, l)[l] = IF p.tree.leaves[l] = Absent THEN Unset ELSE p.tree.leaves[l]
      BY <1>1, <1>2 DEF CreatedLeaves
    <2>3. \A k \in Leaf : k # l => CreatedLeaves(p.tree.leaves, l)[k] = p.tree.leaves[k]
      BY <1>2 DEF CreatedLeaves
    <2> QED BY <2>1, <2>2, <2>3
  <1>7. text = tree.leaves[l]
    BY <1>6
  <1>8. ~q.dropped /\ q.tree.leaves = [CreatedLeaves(p.tree.leaves, l) EXCEPT ![l] = text]
    BY <1>4 DEF WithLeaf
  <1> HIDE DEF q, text
  <1>9. q.tree.leaves[l] = tree.leaves[l] /\ \A k \in Leaf : k # l => q.tree.leaves[k] = p.tree.leaves[k]
    BY <1>1, <1>6, <1>7, <1>8
  <1> QED BY <1>8, <1>9 DEF q

\* What is printed of a tree with something in it and no key that may occur more than once
\* is a document, and it reads back as the tree.
LEMMA PrintedReads ==
  ASSUME NEW tree \in Trees, xmlSchema \in XmlSchemas, Present(tree) # {},
         \A l \in Present(tree) : ~Place(l).multiple
  PROVE  Printed(tree) # Malformed /\ XmlParsed(Printed(tree)).leaves = tree.leaves
  <1>1. PICK D : IsPrint(D, tree)
    BY PrintWalk
  <1> DEFINE d == D[Len(Leaves)]
  <1>2. Printed(tree) = d
    <2>1. ~Emptied(tree)
      BY DEF Emptied, Present
    <2> QED BY <1>1, <2>1 DEF IsPrint
  <1>3. d \in Seq(ElementsOf(tree))
    BY <1>1, LeavesTypes DEF IsPrint
  <1>4. IsXmlDocument(d) /\ d # Malformed
    BY <1>3, PrintedIsDocument
  <1>5. \A l \in Present(tree) : \E m \in 1 .. Len(d) : d[m] = ElementOf(tree, l)
    BY <1>1, AllPrinted
  <1> HIDE DEF d
  <1>6. PICK W : IsParse(W, d)
    BY <1>4, ParseWalk
  <1> DEFINE Upto(i) == {l \in Present(tree) : \E m \in 1 .. i : d[m] = ElementOf(tree, l)}
             Good(i) == ~W[i].dropped /\ \A l \in Leaf :
                          W[i].tree.leaves[l] = IF l \in Upto(i) THEN tree.leaves[l] ELSE Absent
             P == {i \in Nat : i <= Len(d) => Good(i)}
  <1>7. Len(d) \in Nat
    BY <1>3
  <1>8. 0 \in P
    <2>1. W[0] = [tree |-> EmptyTree, dropped |-> FALSE]
      BY <1>6 DEF IsParse
    <2>2. Upto(0) = {}
      OBVIOUS
    <2> QED BY <2>1, <2>2 DEF EmptyTree
  <1>9. ASSUME NEW i \in Nat, i \in P
        PROVE  i + 1 \in P
    <2> SUFFICES ASSUME i + 1 <= Len(d) PROVE Good(i + 1)
      OBVIOUS
    <2>1. i + 1 \in 1 .. Len(d) /\ i \in 0 .. Len(d) /\ (i + 1) - 1 = i
      BY <1>7
    <2>2. W[i + 1] = ParsedElement(W[i], d[i + 1]) /\ W[i] \in Parses
      BY <1>6, <2>1 DEF IsParse
    <2>3. PICK k \in Present(tree) : d[i + 1] = ElementOf(tree, k)
      <3>1. d[i + 1] \in ElementsOf(tree)
        BY <1>3, <2>1
      <3> QED BY <3>1 DEF ElementsOf
    <2>4. Good(i)
      BY <1>9, <1>7
    <2>5. k \in Leaf /\ ~Place(k).multiple
      BY DEF Present
    <2>6. W[i].tree.leaves[k] \in {Absent, tree.leaves[k]} /\ ~W[i].dropped
      BY <2>4, <2>5
    <2>7. /\ ~W[i + 1].dropped /\ W[i + 1].tree.leaves[k] = tree.leaves[k]
          /\ \A l \in Leaf : l # k => W[i + 1].tree.leaves[l] = W[i].tree.leaves[l]
      BY <2>2, <2>3, <2>5, <2>6, ElementParsed
    <2>8. Upto(i + 1) = Upto(i) \cup {k}
      <3>1. ASSUME NEW l \in Present(tree), d[i + 1] = ElementOf(tree, l)
            PROVE  l = k
        <4>1. Key(l) = Key(k) /\ l \in Leaf
          BY <2>3, <3>1 DEF ElementOf, Present
        <4>2. l \in Siblings(k)
          BY <4>1 DEF Siblings
        <4> QED BY <2>5, <4>2, OnlyOccurrence
      <3>2. \A m \in 1 .. i + 1 : m \in 1 .. i \/ m = i + 1
        OBVIOUS
      <3>3. \A m \in 1 .. i : m \in 1 .. i + 1
        OBVIOUS
      <3>4. i + 1 \in 1 .. i + 1
        OBVIOUS
      <3> QED BY <2>3, <3>1, <3>2, <3>3, <3>4, Zenon
    <2>9. ASSUME NEW l \in Leaf
          PROVE  W[i + 1].tree.leaves[l] = IF l \in Upto(i + 1) THEN tree.leaves[l] ELSE Absent
      <3> HIDE DEF Upto
      <3>1. CASE l = k
        BY <2>7, <2>8, <3>1
      <3>2. CASE l # k
        BY <2>4, <2>7, <2>8, <3>2
      <3> QED BY <3>1, <3>2
    <2> QED BY <2>7, <2>9
  <1>10. Good(Len(d))
    <2>1. Nat \subseteq P
      <3> HIDE DEF P
      <3> QED BY <1>8, <1>9, SetInduction
    <2> HIDE DEF Good
    <2> QED BY <1>7, <2>1
  <1>11. Upto(Len(d)) = Present(tree)
    BY <1>5
  <1>12. W[Len(d)].tree.leaves = tree.leaves
    <2>1. W[Len(d)] \in Parses
      <3>1. Len(d) \in 0 .. Len(d)
        BY <1>7
      <3> QED BY <1>6, <3>1 DEF IsParse
    <2>2. W[Len(d)].tree.leaves \in [Leaf -> Content] /\ tree.leaves \in [Leaf -> Content]
      BY <2>1 DEF Parses, Trees
    <2>3. ASSUME NEW l \in Leaf
          PROVE  W[Len(d)].tree.leaves[l] = tree.leaves[l]
      <3> HIDE DEF Upto
      <3> QED BY <1>10, <1>11 DEF Present
    <2> QED BY <2>2, <2>3
  <1>13. XmlParsed(d) = W[Len(d)].tree
    BY <1>6 DEF IsParse
  <1> QED BY <1>2, <1>4, <1>12, <1>13

-----------------------------------------------------------------------------
\* The files of a format, and what is read

DiskOK == DOMAIN disk = File /\ \A f \in File : Holds(format, disk[f])

LEMMA FormatHolds ==
  ASSUME NEW bytes
  PROVE  /\ Holds("dig35", bytes) <=> bytes \in {Absent, Garbage} \cup Documents
         /\ Holds("j2k", bytes) <=> bytes \in {Absent} \cup Seq({OtherBox, Garbage} \cup Documents)
         /\ Holds("tiff", bytes) <=> bytes \in {Absent, NotTiff} \cup [Leaf -> Content]
         /\ Holds("xml", bytes) <=> (bytes \in {Absent, Malformed} \/ IsXmlDocument(bytes))
  BY DEF Holds

\* A file that is written with what its format may hold.
LEMMA DiskWritten ==
  ASSUME DiskOK, format' = format, NEW f \in File, NEW bytes, Holds(format, bytes),
         disk' = [disk EXCEPT ![f] = bytes]
  PROVE  DiskOK'
  <1>1. DOMAIN disk' = File /\ \A g \in File : disk'[g] = IF g = f THEN bytes ELSE disk[g]
    BY DEF DiskOK
  <1>2. \A g \in File : Holds(format', disk'[g])
    BY <1>1 DEF DiskOK
  <1> QED BY <1>1, <1>2 DEF DiskOK

LEMMA DiskUnchanged ==
  ASSUME DiskOK, format' = format, disk' = disk
  PROVE  DiskOK'
  BY DEF DiskOK

\* A call that reads leaves values in the tree when the values are.
LEMMA ReadTypes ==
  ASSUME md \in [Leaf -> Content], NEW s, NEW good, NEW val, readMetadata(s, good, val),
         \A i \in DOMAIN s : s[i] \in good => val[s[i]] \in Content
  PROVE  md' \in [Leaf -> Content] /\ format' = format
  <1> DEFINE failing == {i \in InTree(s) : s[i] \notin good}
             reached == InTree(s) \cap Reached(s, IF throwErrors THEN {s[i] : i \in failing} ELSE {})
  <1>1. md' = [l \in Leaf |-> IF l \in good /\ \E i \in reached : s[i] = l THEN val[l] ELSE md[l]]
    BY DEF readMetadata
  <1>2. reached \subseteq DOMAIN s
    BY DEF InTree
  <1> HIDE DEF reached
  <1>3. ASSUME NEW l \in Leaf
        PROVE  (IF l \in good /\ \E i \in reached : s[i] = l THEN val[l] ELSE md[l]) \in Content
    BY <1>2
  <1> QED BY <1>1, <1>3 DEF readMetadata

LEMMA RootTypes ==
  ASSUME NEW good, NEW val, readMetadataRoot(good, val),
         \A l \in Leaf : l \in good => val[l] \in Content
  PROVE  md' \in [Leaf -> Content] /\ format' = format
  <1>1. Absent \in Content
    BY DEF Content
  <1> QED BY <1>1 DEF readMetadataRoot

LEMMA Dig35ValueTypes ==
  ASSUME NEW doc \in Seq(Elements), NEW l \in Dig35Reads(doc), Dig35Value(doc)[l] # NoText
  PROVE  Dig35Value(doc)[l] \in Content
  <1>1. l \in Leaf /\ NodeOf(doc, l) # 0
    BY DEF Dig35Reads
  <1>2. NodeOf(doc, l) \in 1 .. Len(doc)
    <2>1. NodeOf(doc, l) = FirstNamed(doc, Last(Dig35Tag[l]))
      BY <1>1, LeafNode
    <2> QED BY <1>1, <2>1, FirstOfName
  <1>3. Dig35Value(doc)[l] = FirstContent(doc, NodeOf(doc, l))
    BY DEF Dig35Value
  <1> DEFINE i == NodeOf(doc, l)
  <1> HIDE DEF i
  <1>4. HasChild(doc, i) /\ Dig35Value(doc)[l] \in {doc[i + 1].text, Unset}
        /\ (Dig35Value(doc)[l] # Unset => doc[i + 1].tag = TextTag)
    BY <1>3 DEF FirstContent, i
  <1>5. doc[i + 1] \in Elements
    BY <1>2, <1>4 DEF HasChild, i
  <1>6. Unset \in Content
    BY DEF Content
  <1> QED BY <1>4, <1>5, <1>6, KindsOfNode

-----------------------------------------------------------------------------
\* What the steps of each format change keeps the invariant

LEMMA Dig35Changes ==
  ASSUME FileInv, format = "dig35", UNCHANGED <<format, j2kVars, tiffVars, xmlVars>>,
         DiskOK', md' \in [Leaf -> Content], mDoc' \in Seq(Elements) \cup {NoDocument},
         mFileName' \in File \cup {Absent}
  PROVE  FileInv'
  <1>1. FileTypeOK'
    BY DEF FileInv, FileTypeOK, DiskOK, j2kVars, tiffVars, xmlVars, Trees, Blocks, Place
  <1>2. OwnFormat'
    BY DEF FileInv, OwnFormat, j2kVars, tiffVars, xmlVars
  <1> QED BY <1>1, <1>2 DEF FileInv

Boxes == {OtherBox, Garbage} \cup Documents

LEMMA J2kChanges ==
  ASSUME FileInv, format = "j2k", UNCHANGED <<format, mFileName, tiffVars, xmlVars>>,
         DiskOK', md' \in [Leaf -> Content], mDoc' \in Seq(Elements) \cup {NoDocument},
         hasDig35' \in BOOLEAN, hasDig35' => mDoc' # NoDocument,
         mJP2Sink' \in File \cup {Absent}, mJP2Sink' # Absent => disk'[mJP2Sink'] \in Seq(Boxes)
  PROVE  FileInv'
  <1>1. FileTypeOK'
    BY DEF FileInv, FileTypeOK, DiskOK, tiffVars, xmlVars, Trees, Blocks, Place
  <1>2. OwnFormat'
    BY DEF FileInv, OwnFormat, tiffVars, xmlVars, Boxes, Documents, Elements, Content
  <1> QED BY <1>1, <1>2 DEF FileInv

ImageFiles == [state : {"none", "made", "open"}, name : File \cup {Absent}, mode : Mode,
               entries : [Leaf -> Content]]

LEMMA TiffChanges ==
  ASSUME FileInv, format = "tiff", UNCHANGED <<format, dig35Vars, j2kVars, xmlVars>>,
         DiskOK', md' \in [Leaf -> Content], mImgFile' \in ImageFiles,
         mOwnImgFile' = (mImgFile'.state = "open"),
         mImgFile'.state = "open" => mImgFile'.name \in File
  PROVE  FileInv'
  <1>1. FileTypeOK'
    BY DEF FileInv, FileTypeOK, DiskOK, dig35Vars, j2kVars, xmlVars, Trees, Blocks, Place, ImageFiles
  <1>2. OwnFormat'
    BY DEF FileInv, OwnFormat, dig35Vars, j2kVars, xmlVars
  <1> QED BY <1>1, <1>2 DEF FileInv

LEMMA XmlChanges ==
  ASSUME FileInv, format = "xml", UNCHANGED <<format, xmlSchema, dig35Vars, j2kVars, tiffVars>>,
         DiskOK', md' \in [Leaf -> Content], mRootMd' \in Trees,
         xmlFile' \in File \cup {Absent}, mFstream' \in BOOLEAN, mFstream' => xmlFile' \in File,
         shared' \in BOOLEAN
  PROVE  FileInv'
  <1>1. Trees' = Trees
    BY DEF Trees, Blocks, Place
  <1>2. FileTypeOK'
    BY <1>1 DEF FileInv, FileTypeOK, DiskOK, dig35Vars, j2kVars, tiffVars
  <1>3. OwnFormat'
    BY DEF FileInv, OwnFormat, dig35Vars, j2kVars, tiffVars
  <1> QED BY <1>2, <1>3 DEF FileInv

-----------------------------------------------------------------------------
\* The steps of the DIG35 accessor

LEMMA SavedDiskOK ==
  ASSUME FileInv, format = "dig35", format' = format, disk' = SavedDisk
  PROVE  DiskOK'
  <1>1. DiskOK
    BY DEF FileInv, FileTypeOK, DiskOK
  <1>2. CASE Dig35Saves
    <2>1. mFileName \in File /\ mDoc \in Seq(Elements) /\ disk' = [disk EXCEPT ![mFileName] = Serialized(mDoc)]
      BY <1>2 DEF Dig35Saves, SavedDisk, FileInv, FileTypeOK
    <2>2. Holds(format, Serialized(mDoc))
      <3>1. Serialized(mDoc) \in {Garbage} \cup Documents
        BY <2>1, SerializedTypes
      <3> QED BY <3>1, FormatHolds
    <2> QED BY <1>1, <2>1, <2>2, DiskWritten
  <1>3. CASE ~Dig35Saves
    BY <1>1, <1>3, DiskUnchanged DEF SavedDisk
  <1> QED BY <1>2, <1>3

LEMMA openMemoryKeeps ==
  ASSUME FileInv, format = "dig35", UNCHANGED <<j2kVars, tiffVars, xmlVars>>,
         NEW name \in File \cup {Absent}, NEW bytes \in {Garbage} \cup Documents, NEW mode,
         openMemory(name, bytes, mode)
  PROVE  FileInv'
  <1> DEFINE doc == IF mode = "create" THEN NewDocument ELSE Parsed(bytes)
  <1>1. doc \in Seq(Elements) \cup {NoDocument}
    <2>1. NewDocument \in Seq(Elements)
      BY Dig35Assumption, KindsOfNode DEF NewDocument
    <2> QED BY <2>1, ParsedTypes
  <1>2. /\ disk' = SavedDisk /\ mDoc' = doc /\ UNCHANGED <<format, md>>
        /\ mFileName' = IF doc # NoDocument THEN name ELSE Absent
    BY DEF openMemory
  <1> HIDE DEF doc
  <1>3. DiskOK'
    BY <1>2, SavedDiskOK
  <1>4. md' \in [Leaf -> Content]
    BY <1>2 DEF FileInv, FileTypeOK
  <1> QED BY <1>1, <1>2, <1>3, <1>4, Dig35Changes

LEMMA Dig35Keeps ==
  ASSUME FileInv, format = "dig35", Dig35Next, UNCHANGED <<j2kVars, tiffVars, xmlVars>>
  PROVE  FileInv'
  <1>1. /\ DiskOK /\ md \in [Leaf -> Content] /\ mDoc \in Seq(Elements) \cup {NoDocument}
        /\ mFileName \in File \cup {Absent}
    BY DEF FileInv, FileTypeOK, DiskOK
  <1>2. \A f \in File : disk[f] \in {Absent, Garbage} \cup Documents
    BY <1>1, FormatHolds DEF DiskOK
  <1>3. Input \subseteq File
    BY AccessorAssumption
  <1>4. CASE Dig35Open
    <2>0. PICK f \in File :
            \E mode \in Asked(f) :
              IF Opens(mode) /\ disk[f] = Absent
              THEN outcome' = "false" /\ UNCHANGED <<format, disk, md, throwErrors, errors, dig35Vars>>
              ELSE openMemory(f, disk[f], mode)
      BY <1>4 DEF Dig35Open
    <2>1. PICK mode \in Asked(f) :
            IF Opens(mode) /\ disk[f] = Absent
            THEN outcome' = "false" /\ UNCHANGED <<format, disk, md, throwErrors, errors, dig35Vars>>
            ELSE openMemory(f, disk[f], mode)
      BY <2>0
    <2>2. CASE Opens(mode) /\ disk[f] = Absent
      <3>1. UNCHANGED <<format, disk, md, mDoc, mFileName>>
        BY <2>1, <2>2 DEF dig35Vars
      <3>2. DiskOK'
        BY <1>1, <3>1, DiskUnchanged
      <3> QED BY <1>1, <3>1, <3>2, Dig35Changes
    <2>3. CASE ~(Opens(mode) /\ disk[f] = Absent)
      <3>1. CASE disk[f] # Absent
        <4>1. disk[f] \in {Garbage} \cup Documents
          BY <1>2, <3>1
        <4> QED BY <2>1, <2>3, <4>1, openMemoryKeeps
      <3>2. CASE disk[f] = Absent
        <4>1. mode = "create"
          BY <2>3, <3>2 DEF Opens, Asked, Mode
        <4>2. openMemory(f, Garbage, mode)
          BY <2>1, <2>3, <4>1 DEF openMemory
        <4> QED BY <4>2, openMemoryKeeps
      <3> QED BY <3>1, <3>2
    <2> QED BY <2>2, <2>3
  <1>5. CASE Dig35OpenMemory
    <2>1. CASE openMemory(Absent, Garbage, "create")
      BY <2>1, openMemoryKeeps
    <2>2. ASSUME NEW f \in Input, NEW mode, disk[f] # Absent, openMemory(Absent, disk[f], mode)
          PROVE  FileInv'
      <3>1. disk[f] \in {Garbage} \cup Documents
        BY <1>2, <1>3, <2>2
      <3> QED BY <2>2, <3>1, openMemoryKeeps
    <2> QED BY <1>5, <2>1, <2>2 DEF Dig35OpenMemory
  <1>6. CASE Dig35Append
    <2>1. PICK f \in Input :
            LET other == IF disk[f] = Absent THEN NoDocument ELSE Parsed(disk[f])
                accepted == /\ mDoc # NoDocument /\ other # NoDocument
                            /\ FirstNamed(mDoc, Root) # 0
                            /\ other[1].tag = Root \/ isMetadataBlockKey(other[1].tag)
            IN  /\ mDoc' = IF accepted THEN Appended(mDoc, other) ELSE mDoc
                /\ UNCHANGED <<format, disk, md, mFileName>>
      BY <1>6 DEF Dig35Append
    <2> DEFINE other == IF disk[f] = Absent THEN NoDocument ELSE Parsed(disk[f])
    <2>2. other \in Documents \cup {NoDocument}
      <3>1. disk[f] # Absent => disk[f] \in {Garbage} \cup Documents
        BY <1>2, <1>3
      <3> QED BY <3>1, ParsedTypes
    <2> HIDE DEF other
    <2>3. mDoc' = mDoc \/ (mDoc # NoDocument /\ other # NoDocument /\ FirstNamed(mDoc, Root) # 0
                           /\ mDoc' = Appended(mDoc, other))
      BY <2>1 DEF other
    <2>4. mDoc' \in Seq(Elements) \cup {NoDocument}
      BY <1>1, <2>2, <2>3, AppendedTypes
    <2>5. DiskOK'
      BY <1>1, <2>1, DiskUnchanged
    <2> QED BY <1>1, <2>1, <2>4, <2>5, Dig35Changes
  <1>7. CASE Dig35Close
    <2>1. disk' = SavedDisk /\ mDoc' = NoDocument /\ mFileName' = Absent /\ UNCHANGED <<format, md>>
      BY <1>7 DEF Dig35Close
    <2>2. DiskOK'
      BY <2>1, SavedDiskOK
    <2> QED BY <1>1, <2>1, <2>2, Dig35Changes
  <1>8. CASE Dig35CloseToMemory
    <2>1. UNCHANGED <<format, disk, md, mDoc, mFileName>>
      BY <1>8 DEF Dig35CloseToMemory, dig35Vars
    <2>2. DiskOK'
      BY <1>1, <2>1, DiskUnchanged
    <2> QED BY <1>1, <2>1, <2>2, Dig35Changes
  <1>9. CASE Dig35Read
    <2>1. /\ mDoc # NoDocument /\ UNCHANGED <<disk, mDoc, mFileName>>
          /\ \E s \in Scope : Dig35Readable(mDoc, s) /\ readMetadata(s, Dig35Reads(mDoc), Dig35Value(mDoc))
      BY <1>9 DEF Dig35Read, dig35Vars
    <2>2. PICK s \in Scope : Dig35Readable(mDoc, s) /\ readMetadata(s, Dig35Reads(mDoc), Dig35Value(mDoc))
      BY <2>1
    <2>3. \A i \in DOMAIN s : s[i] \in Dig35Reads(mDoc) => Dig35Value(mDoc)[s[i]] \in Content
      BY <1>1, <2>1, <2>2, Dig35ValueTypes DEF Dig35Readable
    <2>4. md' \in [Leaf -> Content] /\ format' = format
      BY <1>1, <2>2, <2>3, ReadTypes
    <2>5. DiskOK'
      BY <1>1, <2>1, <2>4, DiskUnchanged
    <2> QED BY <1>1, <2>1, <2>4, <2>5, Dig35Changes
  <1>10. CASE Dig35ReadRoot
    <2>1. /\ mDoc # NoDocument /\ UNCHANGED <<disk, mDoc, mFileName>>
          /\ Dig35Readable(mDoc, Leaves) /\ readMetadataRoot(Dig35Reads(mDoc), Dig35Value(mDoc))
      BY <1>10 DEF Dig35ReadRoot, dig35Vars
    <2>2. ASSUME NEW l \in Leaf, l \in Dig35Reads(mDoc)
          PROVE  Dig35Value(mDoc)[l] \in Content
      <3>1. PICK i \in 1 .. Len(Leaves) : Leaves[i] = l
        BY LeavesTypes
      <3>2. Dig35Value(mDoc)[l] # NoText
        BY <2>1, <2>2, <3>1, LeavesTypes, SMTT(30) DEF Dig35Readable
      <3> QED BY <1>1, <2>1, <2>2, <3>2, Dig35ValueTypes
    <2>3. md' \in [Leaf -> Content] /\ format' = format
      BY <2>1, <2>2, RootTypes
    <2>4. DiskOK'
      BY <1>1, <2>1, <2>3, DiskUnchanged
    <2> QED BY <1>1, <2>1, <2>3, <2>4, Dig35Changes
  <1>11. CASE Dig35Write
    <2>1. /\ mDoc # NoDocument /\ UNCHANGED <<disk, mFileName>>
          /\ \E s \in Scope, valid \in BOOLEAN :
               /\ mDoc' = Written(s, valid, mDoc, Dig35Set, Dig35NoThrow).state
               /\ UNCHANGED <<format, md>>
      BY <1>11 DEF Dig35Write, WriteOutcome
    <2>2. mDoc' \in Seq(Elements)
      BY <1>1, <2>1, Dig35WrittenTypes
    <2>3. DiskOK'
      BY <1>1, <2>1, DiskUnchanged
    <2> QED BY <1>1, <2>1, <2>2, <2>3, Dig35Changes
  <1>12. CASE Dig35Remove
    <2>1. /\ mDoc # NoDocument /\ UNCHANGED <<disk, mFileName>>
          /\ \E s \in Scope :
               /\ mDoc' = Removed(s, mDoc, Dig35RemoveValue, Dig35NoThrow).state
               /\ UNCHANGED <<format, md>>
      BY <1>12 DEF Dig35Remove, RemoveOutcome
    <2>2. mDoc' \in Seq(Elements)
      BY <1>1, <2>1, Dig35RemovedTypes
    <2>3. DiskOK'
      BY <1>1, <2>1, DiskUnchanged
    <2> QED BY <1>1, <2>1, <2>2, <2>3, Dig35Changes
  <1> QED BY <1>4, <1>5, <1>6, <1>7, <1>8, <1>9, <1>10, <1>11, <1>12 DEF Dig35Next

-----------------------------------------------------------------------------
\* The steps of the JPEG 2000 accessor

\* A box more is in the target, if there is one.
LEMMA J2kSavedOK ==
  ASSUME FileInv, format = "j2k", format' = format, disk' = J2kSaved,
         mJP2Sink' = IF hasDig35 THEN Absent ELSE mJP2Sink
  PROVE  /\ DiskOK' /\ mJP2Sink' \in File \cup {Absent}
         /\ mJP2Sink' # Absent => disk'[mJP2Sink'] \in Seq(Boxes)
  <1>1. DiskOK /\ mJP2Sink \in File \cup {Absent}
    BY DEF FileInv, FileTypeOK, DiskOK
  <1>2. mJP2Sink # Absent => disk[mJP2Sink] \in Seq(Boxes)
    BY DEF FileInv, OwnFormat, Boxes
  <1>3. CASE mJP2Sink # Absent /\ hasDig35
    <2>1. disk' = [disk EXCEPT ![mJP2Sink] = Append(disk[mJP2Sink], Serialized(mDoc))]
      BY <1>3 DEF J2kSaved
    <2>2. mDoc \in Seq(Elements)
      BY <1>3 DEF FileInv, FileTypeOK, OwnFormat
    <2>3. Serialized(mDoc) \in Boxes
      BY <2>2, SerializedTypes DEF Boxes
    <2> DEFINE bytes == Append(disk[mJP2Sink], Serialized(mDoc))
    <2>4. bytes \in Seq(Boxes)
      BY <1>2, <1>3, <2>3
    <2> HIDE DEF bytes
    <2>5. Holds(format, bytes)
      BY <2>4, FormatHolds DEF Boxes
    <2>6. DiskOK'
      BY <1>1, <1>3, <2>1, <2>5, DiskWritten DEF bytes
    <2> QED BY <1>3, <2>6
  <1>4. CASE ~(mJP2Sink # Absent /\ hasDig35)
    <2>1. disk' = disk
      BY <1>4 DEF J2kSaved
    <2>2. DiskOK'
      BY <1>1, <2>1, DiskUnchanged
    <2> QED BY <1>1, <1>2, <2>1, <2>2
  <1> QED BY <1>3, <1>4

LEMMA J2kKeeps ==
  ASSUME FileInv, format = "j2k", J2kNext, UNCHANGED <<tiffVars, xmlVars>>
  PROVE  FileInv'
  <1>1. /\ DiskOK /\ md \in [Leaf -> Content] /\ mDoc \in Seq(Elements) \cup {NoDocument}
        /\ hasDig35 \in BOOLEAN /\ mJP2Sink \in File \cup {Absent}
        /\ hasDig35 => mDoc # NoDocument
        /\ mJP2Sink # Absent => disk[mJP2Sink] \in Seq(Boxes)
    BY DEF FileInv, FileTypeOK, DiskOK, OwnFormat, Boxes
  <1>2. NewDocument \in Seq(Elements) /\ NoDocument \notin Seq(Elements)
    <2>1. NewDocument \in Seq(Elements)
      BY Dig35Assumption, KindsOfNode DEF NewDocument
    <2> QED BY <2>1, FileAccessorsAssumption
  <1>3. CASE J2kOpen
    <2>0. PICK f \in File :
            \E mode \in Asked(f) :
              LET boxes == IF disk[f] = Absent THEN <<>> ELSE disk[f]
              IN  /\ disk' = J2kSaved
                  /\ mJP2Sink' = IF hasDig35 THEN Absent ELSE mJP2Sink
                  /\ hasDig35' = (mode = "readonly")
                  /\ mDoc' = IF mode = "readonly" THEN Extracted(boxes) ELSE NoDocument
                  /\ UNCHANGED <<format, md, mFileName>>
      BY <1>3 DEF J2kOpen
    <2> DEFINE boxes == IF disk[f] = Absent THEN <<>> ELSE disk[f]
    <2>1. PICK mode \in Asked(f) :
            /\ disk' = J2kSaved
            /\ mJP2Sink' = IF hasDig35 THEN Absent ELSE mJP2Sink
            /\ hasDig35' = (mode = "readonly")
            /\ mDoc' = IF mode = "readonly" THEN Extracted(boxes) ELSE NoDocument
            /\ UNCHANGED <<format, md, mFileName>>
      BY <2>0
    <2>2. boxes \in Seq(Boxes)
      <3>1. disk[f] \in {Absent} \cup Seq(Boxes)
        BY <1>1, FormatHolds DEF DiskOK, Boxes
      <3> QED BY <3>1
    <2> HIDE DEF boxes
    <2>3. Extracted(boxes) \in Seq(Elements)
      BY <2>2, ExtractedTypes DEF Boxes
    <2>4. mDoc' \in Seq(Elements) \cup {NoDocument} /\ (hasDig35' => mDoc' # NoDocument) /\ hasDig35' \in BOOLEAN
      BY <1>2, <2>1, <2>3
    <2>5. /\ DiskOK' /\ mJP2Sink' \in File \cup {Absent}
          /\ mJP2Sink' # Absent => disk'[mJP2Sink'] \in Seq(Boxes)
      BY <2>1, J2kSavedOK
    <2> QED BY <1>1, <2>1, <2>4, <2>5, J2kChanges
  <1>4. CASE J2kClose
    <2>1. /\ disk' = J2kSaved /\ mJP2Sink' = IF hasDig35 THEN Absent ELSE mJP2Sink
          /\ hasDig35' = FALSE /\ mDoc' = NoDocument /\ UNCHANGED <<format, md, mFileName>>
      BY <1>4 DEF J2kClose
    <2>2. /\ DiskOK' /\ mJP2Sink' \in File \cup {Absent}
          /\ mJP2Sink' # Absent => disk'[mJP2Sink'] \in Seq(Boxes)
      BY <2>1, J2kSavedOK
    <2> QED BY <1>1, <2>1, <2>2, J2kChanges
  <1>5. CASE J2kNewOnTarget
    <2>1. /\ \E f \in File : disk' = [disk EXCEPT ![f] = <<OtherBox>>] /\ mJP2Sink' = f
          /\ hasDig35' = TRUE /\ mDoc' = NewDocument /\ UNCHANGED <<format, md, mFileName>>
      BY <1>5 DEF J2kNewOnTarget
    <2>2. PICK f \in File : disk' = [disk EXCEPT ![f] = <<OtherBox>>] /\ mJP2Sink' = f
      BY <2>1
    <2>3. <<OtherBox>> \in Seq(Boxes)
      BY DEF Boxes
    <2>4. Holds(format, <<OtherBox>>)
      BY <2>3, FormatHolds DEF Boxes
    <2>5. DiskOK'
      BY <1>1, <2>1, <2>2, <2>4, DiskWritten
    <2>6. disk'[mJP2Sink'] \in Seq(Boxes)
      BY <1>1, <2>2, <2>3 DEF DiskOK
    <2>7. mDoc' \in Seq(Elements) \cup {NoDocument} /\ (hasDig35' => mDoc' # NoDocument) /\ hasDig35' \in BOOLEAN
      BY <1>2, <2>1
    <2> QED BY <1>1, <2>1, <2>2, <2>5, <2>6, <2>7, J2kChanges
  <1>6. CASE J2kRead
    <2>1. /\ UNCHANGED <<disk, mDoc, mFileName, hasDig35, mJP2Sink>>
          /\ \E s \in Scope : (hasDig35 => Dig35Readable(mDoc, s)) /\ readMetadata(s, J2kReads, J2kValue)
      BY <1>6 DEF J2kRead, dig35Vars, j2kVars
    <2>2. PICK s \in Scope : (hasDig35 => Dig35Readable(mDoc, s)) /\ readMetadata(s, J2kReads, J2kValue)
      BY <2>1
    <2>3. \A i \in DOMAIN s : s[i] \in J2kReads => J2kValue[s[i]] \in Content
      BY <1>1, <2>2, Dig35ValueTypes DEF Dig35Readable, J2kReads, J2kValue
    <2>4. md' \in [Leaf -> Content] /\ format' = format
      BY <1>1, <2>2, <2>3, ReadTypes
    <2>5. DiskOK'
      BY <1>1, <2>1, <2>4, DiskUnchanged
    <2> QED BY <1>1, <2>1, <2>4, <2>5, J2kChanges
  <1>7. CASE J2kReadRoot
    <2>1. /\ UNCHANGED <<disk, mDoc, mFileName, hasDig35, mJP2Sink>>
          /\ (hasDig35 => Dig35Readable(mDoc, Leaves)) /\ readMetadataRoot(J2kReads, J2kValue)
      BY <1>7 DEF J2kReadRoot, dig35Vars, j2kVars
    <2>2. ASSUME NEW l \in Leaf, l \in J2kReads
          PROVE  J2kValue[l] \in Content
      <3>1. PICK i \in 1 .. Len(Leaves) : Leaves[i] = l
        BY LeavesTypes
      <3>2. hasDig35 /\ l \in Dig35Reads(mDoc) /\ J2kValue = Dig35Value(mDoc)
        BY <2>2 DEF J2kReads, J2kValue
      <3>3. Dig35Value(mDoc)[l] # NoText
        BY <2>1, <3>1, <3>2, LeavesTypes, SMTT(30) DEF Dig35Readable
      <3> QED BY <1>1, <3>2, <3>3, Dig35ValueTypes
    <2>3. md' \in [Leaf -> Content] /\ format' = format
      BY <2>1, <2>2, RootTypes
    <2>4. DiskOK'
      BY <1>1, <2>1, <2>3, DiskUnchanged
    <2> QED BY <1>1, <2>1, <2>3, <2>4, J2kChanges
  <1>8. CASE J2kWrite
    <2>1. /\ UNCHANGED <<disk, mFileName, hasDig35, mJP2Sink>>
          /\ \E s \in Scope, valid \in BOOLEAN :
               /\ mDoc' = IF hasDig35 THEN Written(s, valid, mDoc, Dig35Set, Dig35NoThrow).state ELSE mDoc
               /\ UNCHANGED <<format, md>>
      BY <1>8 DEF J2kWrite, WriteOutcome, j2kVars
    <2>2. mDoc' \in Seq(Elements) \cup {NoDocument} /\ (hasDig35' => mDoc' # NoDocument)
      BY <1>1, <1>2, <2>1, Dig35WrittenTypes
    <2>3. DiskOK'
      BY <1>1, <2>1, DiskUnchanged
    <2> QED BY <1>1, <2>1, <2>2, <2>3, J2kChanges
  <1>9. CASE J2kRemove
    <2>1. /\ UNCHANGED <<disk, mFileName, hasDig35, mJP2Sink>>
          /\ \E s \in Scope :
               /\ mDoc' = IF hasDig35 THEN Removed(s, mDoc, Dig35RemoveValue, Dig35NoThrow).state ELSE mDoc
               /\ UNCHANGED <<format, md>>
      BY <1>9 DEF J2kRemove, RemoveOutcome, j2kVars
    <2>2. mDoc' \in Seq(Elements) \cup {NoDocument} /\ (hasDig35' => mDoc' # NoDocument)
      BY <1>1, <1>2, <2>1, Dig35RemovedTypes
    <2>3. DiskOK'
      BY <1>1, <2>1, DiskUnchanged
    <2> QED BY <1>1, <2>1, <2>2, <2>3, J2kChanges
  <1> QED BY <1>3, <1>4, <1>5, <1>6, <1>7, <1>8, <1>9 DEF J2kNext

-----------------------------------------------------------------------------
\* The steps of the TIFF accessor

LEMMA TiffSavedOK ==
  ASSUME FileInv, format = "tiff"
  PROVE  DOMAIN TiffSaved = File /\ \A f \in File : Holds(format, TiffSaved[f])
  <1>1. DOMAIN disk = File /\ \A f \in File : Holds(format, disk[f])
    BY DEF FileInv, FileTypeOK
  <1>2. mImgFile.entries \in [Leaf -> Content]
    BY DEF FileInv, FileTypeOK
  <1>3. Holds(format, mImgFile.entries)
    BY <1>2, FormatHolds
  <1> QED BY <1>1, <1>3 DEF TiffSaved

LEMMA TiffValueTypes ==
  ASSUME FileInv, NEW l \in Leaf
  PROVE  Entry(l) \in Content
  BY DEF Entry, FileInv, FileTypeOK

LEMMA TiffKeeps ==
  ASSUME FileInv, format = "tiff", TiffNext, UNCHANGED <<dig35Vars, j2kVars, xmlVars>>
  PROVE  FileInv'
  <1>1. /\ DiskOK /\ md \in [Leaf -> Content] /\ mImgFile \in ImageFiles
        /\ mOwnImgFile = (mImgFile.state = "open")
        /\ mImgFile.state = "open" => mImgFile.name \in File
    BY DEF FileInv, FileTypeOK, DiskOK, OwnFormat, ImageFiles
  <1>2. NoEntries \in [Leaf -> Content] /\ Absent \in Content
    BY DEF NoEntries, Content
  <1>3. Closed \in ImageFiles /\ Closed.state = "none"
    BY <1>2 DEF Closed, ImageFiles, Mode
  <1>4. CASE TiffOpen
    <2>0. PICK f \in File :
            \E mode \in Asked(f) :
              LET found == IF mode = "create" THEN NoEntries ELSE TiffSaved[f]
                  opened == found \notin {Absent, NotTiff}
              IN  /\ disk' = IF mode = "create" THEN [TiffSaved EXCEPT ![f] = NoEntries] ELSE TiffSaved
                  /\ mImgFile' = IF opened
                                 THEN [state |-> "open", name |-> f, mode |-> mode, entries |-> found]
                                 ELSE [Closed EXCEPT !.state = "made"]
                  /\ mOwnImgFile' = opened
                  /\ UNCHANGED <<format, md>>
      BY <1>4 DEF TiffOpen
    <2>1. PICK mode \in Asked(f) :
              LET found == IF mode = "create" THEN NoEntries ELSE TiffSaved[f]
                  opened == found \notin {Absent, NotTiff}
              IN  /\ disk' = IF mode = "create" THEN [TiffSaved EXCEPT ![f] = NoEntries] ELSE TiffSaved
                  /\ mImgFile' = IF opened
                                 THEN [state |-> "open", name |-> f, mode |-> mode, entries |-> found]
                                 ELSE [Closed EXCEPT !.state = "made"]
                  /\ mOwnImgFile' = opened
                  /\ UNCHANGED <<format, md>>
      BY <2>0
    <2> DEFINE found == IF mode = "create" THEN NoEntries ELSE TiffSaved[f]
               opened == found \notin {Absent, NotTiff}
    <2>2. found \in {Absent, NotTiff} \cup [Leaf -> Content]
      BY <1>2, TiffSavedOK, FormatHolds
    <2>3. mode \in Mode
      BY DEF Asked, Mode
    <2>4. DiskOK'
      <3>1. Holds(format, NoEntries)
        BY <1>2, FormatHolds
      <3> QED BY <2>1, <3>1, TiffSavedOK DEF DiskOK
    <2>5. /\ mImgFile' = IF opened
                         THEN [state |-> "open", name |-> f, mode |-> mode, entries |-> found]
                         ELSE [Closed EXCEPT !.state = "made"]
          /\ mOwnImgFile' = opened /\ UNCHANGED <<format, md>>
      BY <2>1
    <2>6. opened => found \in [Leaf -> Content]
      BY <2>2
    <2> HIDE DEF opened, found
    <2>7. CASE opened
      <3>1. mImgFile' = [state |-> "open", name |-> f, mode |-> mode, entries |-> found] /\ mOwnImgFile' = TRUE
        BY <2>5, <2>7
      <3>2. mImgFile' \in ImageFiles
        BY <2>3, <2>6, <2>7, <3>1 DEF ImageFiles
      <3>3. mOwnImgFile' = (mImgFile'.state = "open") /\ mImgFile'.name \in File
        BY <3>1
      <3> QED BY <1>1, <2>4, <2>5, <3>2, <3>3, TiffChanges
    <2>8. CASE ~opened
      <3>1. mImgFile' = [Closed EXCEPT !.state = "made"] /\ mOwnImgFile' = FALSE
        BY <2>5, <2>8 DEF opened
      <3>2. mImgFile' \in ImageFiles /\ mImgFile'.state = "made"
        BY <1>3, <3>1 DEF ImageFiles
      <3> QED BY <1>1, <2>4, <2>5, <3>1, <3>2, TiffChanges
    <2> QED BY <2>7, <2>8
  <1>5. CASE TiffClose
    <2>1. /\ disk' = TiffSaved /\ mImgFile' = IF mOwnImgFile THEN Closed ELSE mImgFile
          /\ mOwnImgFile' = FALSE /\ UNCHANGED <<format, md>>
      BY <1>5 DEF TiffClose, AfterClose
    <2>2. DiskOK'
      BY <2>1, TiffSavedOK DEF DiskOK
    <2>3. mImgFile' \in ImageFiles /\ mImgFile'.state # "open"
      BY <1>1, <1>3, <2>1
    <2> QED BY <1>1, <2>1, <2>2, <2>3, TiffChanges
  <1>6. CASE getImageAccessor
    <2>1. UNCHANGED <<format, disk, md, mImgFile, mOwnImgFile>>
      BY <1>6 DEF getImageAccessor
    <2>2. DiskOK'
      BY <1>1, <2>1, DiskUnchanged
    <2> QED BY <1>1, <2>1, <2>2, TiffChanges
  <1>7. CASE TiffRead
    <2>1. UNCHANGED <<disk, mImgFile, mOwnImgFile>> /\ \E s \in Scope : readMetadata(s, TiffReads, TiffValue)
      BY <1>7 DEF TiffRead, tiffVars
    <2>2. PICK s \in Scope : readMetadata(s, TiffReads, TiffValue)
      BY <2>1
    <2>3. \A i \in DOMAIN s : s[i] \in TiffReads => TiffValue[s[i]] \in Content
      BY TiffValueTypes DEF TiffReads, TiffValue
    <2>4. md' \in [Leaf -> Content] /\ format' = format
      BY <1>1, <2>2, <2>3, ReadTypes
    <2>5. DiskOK'
      BY <1>1, <2>1, <2>4, DiskUnchanged
    <2> QED BY <1>1, <2>1, <2>4, <2>5, TiffChanges
  <1>8. CASE TiffReadRoot
    <2>1. /\ UNCHANGED <<format, disk, mImgFile, mOwnImgFile>>
          /\ \/ md' = [l \in Leaf |-> IF l \in TiffRootReads THEN Entry(l) ELSE Absent]
             \/ md' = md
      BY <1>8 DEF TiffReadRoot, tiffVars
    <2>2. md' \in [Leaf -> Content]
      BY <1>1, <1>2, <2>1, TiffValueTypes
    <2>3. DiskOK'
      BY <1>1, <2>1, DiskUnchanged
    <2> QED BY <1>1, <2>1, <2>2, <2>3, TiffChanges
  <1>9. CASE TiffWrite
    <2>1. /\ UNCHANGED <<disk, mOwnImgFile>>
          /\ \E s \in Scope, valid \in BOOLEAN :
               /\ mImgFile' = [mImgFile EXCEPT !.entries =
                                 Written(s, valid, mImgFile.entries, TiffSet, TiffSetThrows).state]
               /\ UNCHANGED <<format, md>>
      BY <1>9 DEF TiffWrite, WriteOutcome
    <2>2. mImgFile' \in ImageFiles /\ mImgFile'.state = mImgFile.state /\ mImgFile'.name = mImgFile.name
      <3>1. mImgFile.entries \in [Leaf -> Content]
        BY <1>1 DEF ImageFiles
      <3>2. PICK e : e \in [Leaf -> Content] /\ mImgFile' = [mImgFile EXCEPT !.entries = e]
        BY <1>1, <2>1, <3>1, TiffWrittenTypes
      <3> QED BY <1>1, <3>2 DEF ImageFiles
    <2>3. DiskOK'
      BY <1>1, <2>1, DiskUnchanged
    <2> QED BY <1>1, <2>1, <2>2, <2>3, TiffChanges
  <1>10. CASE TiffRemove
    <2>1. /\ UNCHANGED <<disk, mOwnImgFile>>
          /\ \E s \in Scope :
               /\ mImgFile' = [mImgFile EXCEPT !.entries =
                                 Removed(s, mImgFile.entries, TiffRemoveValue, TiffRemoveThrows).state]
               /\ UNCHANGED <<format, md>>
      BY <1>10 DEF TiffRemove, RemoveOutcome
    <2>2. mImgFile' \in ImageFiles /\ mImgFile'.state = mImgFile.state /\ mImgFile'.name = mImgFile.name
      <3>1. mImgFile.entries \in [Leaf -> Content]
        BY <1>1 DEF ImageFiles
      <3>2. PICK e : e \in [Leaf -> Content] /\ mImgFile' = [mImgFile EXCEPT !.entries = e]
        BY <2>1, <3>1, TiffRemovedTypes
      <3> QED BY <1>1, <3>2 DEF ImageFiles
    <2>3. DiskOK'
      BY <1>1, <2>1, DiskUnchanged
    <2> QED BY <1>1, <2>1, <2>2, <2>3, TiffChanges
  <1> QED BY <1>4, <1>5, <1>6, <1>7, <1>8, <1>9, <1>10 DEF TiffNext

-----------------------------------------------------------------------------
\* The steps of the XML accessor

LEMMA XmlSavedOK ==
  ASSUME FileInv, format = "xml", format' = format, disk' = XmlSaved
  PROVE  DiskOK'
  <1>1. DiskOK
    BY DEF FileInv, FileTypeOK, DiskOK
  <1>2. CASE mOpenMode # "readonly" /\ mFstream /\ ~mInSync
    <2> DEFINE bytes == IF checkNamespace THEN Printed(mRootMd) ELSE Malformed
    <2>1. disk' = [disk EXCEPT ![xmlFile] = bytes] /\ xmlFile \in File
      BY <1>2 DEF XmlSaved, FileInv, OwnFormat
    <2>2. mRootMd \in Trees /\ xmlSchema \in XmlSchemas
      BY DEF FileInv, FileTypeOK
    <2>3. bytes = Malformed \/ IsXmlDocument(bytes)
      BY <2>2, PrintedTypes
    <2> HIDE DEF bytes
    <2>4. Holds(format, bytes)
      BY <2>3, FormatHolds
    <2> QED BY <1>1, <2>1, <2>4, DiskWritten
  <1>3. CASE ~(mOpenMode # "readonly" /\ mFstream /\ ~mInSync)
    BY <1>1, <1>3, DiskUnchanged DEF XmlSaved
  <1> QED BY <1>2, <1>3

\* A tree with other leaves.
LEMMA OtherLeaves ==
  ASSUME NEW tree \in Trees, NEW leaves \in [Leaf -> Content]
  PROVE  [tree EXCEPT !.leaves = leaves] \in Trees
  BY DEF Trees

LEMMA XmlKeeps ==
  ASSUME FileInv, format = "xml", XmlNext, UNCHANGED <<dig35Vars, j2kVars, tiffVars>>
  PROVE  FileInv'
  <1>1. /\ DiskOK /\ md \in [Leaf -> Content] /\ mRootMd \in Trees
        /\ xmlFile \in File \cup {Absent} /\ mFstream \in BOOLEAN /\ shared \in BOOLEAN
        /\ mFstream => xmlFile \in File
    BY DEF FileInv, FileTypeOK, DiskOK, OwnFormat
  <1>2. mRootMd.leaves \in [Leaf -> Content]
    BY <1>1 DEF Trees
  <1>3. CASE XmlOpen
    <2>0. PICK f \in File :
            \E mode \in Asked(f) :
              /\ mode # "create" => disk[f] \notin {Absent, Malformed}
              /\ disk' = IF mode # "create" \/ mFstream THEN disk ELSE [disk EXCEPT ![f] = Malformed]
              /\ mRootMd' = IF mode # "create" THEN XmlParsed(disk[f]) ELSE mRootMd
              /\ shared' = (shared /\ ~(mode # "create"))
              /\ mFstream' = TRUE /\ xmlFile' = f /\ UNCHANGED <<format, md, xmlSchema>>
      BY <1>3 DEF XmlOpen, treeVars
    <2>1. PICK mode \in Asked(f) :
            /\ mode # "create" => disk[f] \notin {Absent, Malformed}
            /\ disk' = IF mode # "create" \/ mFstream THEN disk ELSE [disk EXCEPT ![f] = Malformed]
            /\ mRootMd' = IF mode # "create" THEN XmlParsed(disk[f]) ELSE mRootMd
            /\ shared' = (shared /\ ~(mode # "create"))
            /\ mFstream' = TRUE /\ xmlFile' = f /\ UNCHANGED <<format, md, xmlSchema>>
      BY <2>0
    <2>2. mRootMd' \in Trees
      <3>1. mode # "create" => IsXmlDocument(disk[f])
        BY <1>1, <2>1, FormatHolds DEF DiskOK
      <3> QED BY <1>1, <2>1, <3>1, XmlParsedTypes
    <2>3. DiskOK'
      <3>1. Holds(format, Malformed)
        BY FormatHolds
      <3>2. CASE disk' = disk
        BY <1>1, <2>1, <3>2, DiskUnchanged
      <3>3. CASE disk' = [disk EXCEPT ![f] = Malformed]
        BY <1>1, <2>1, <3>1, <3>3, DiskWritten
      <3> QED BY <2>1, <3>2, <3>3
    <2> QED BY <1>1, <2>1, <2>2, <2>3, XmlChanges
  <1>4. CASE XmlOpenThrows \/ XmlRefuses
    <2>1. UNCHANGED <<format, disk, md, xmlSchema, mRootMd, xmlFile, mFstream, shared>>
      BY <1>4 DEF XmlOpenThrows, XmlRefuses, treeVars, xmlVars
    <2>2. DiskOK'
      BY <1>1, <2>1, DiskUnchanged
    <2> QED BY <1>1, <2>1, <2>2, XmlChanges
  <1>5. CASE XmlClose
    <2>1. /\ disk' = XmlSaved /\ mFstream' = FALSE /\ xmlFile' = IF mFstream THEN Absent ELSE xmlFile
          /\ UNCHANGED <<format, md, xmlSchema, mRootMd, shared>>
      BY <1>5 DEF XmlClose, treeVars
    <2>2. DiskOK'
      BY <2>1, XmlSavedOK
    <2> QED BY <1>1, <2>1, <2>2, XmlChanges
  <1>6. CASE XmlRead
    <2>1. PICK s \in Scope :
            /\ Passed(s)
            /\ LET l == s[1]
                   found == {k \in Occurrence(Key(l), 0) : mRootMd.leaves[k] # Absent}
               IN  md' = IF ~checkNamespace THEN md
                         ELSE IF s = Leaves THEN mRootMd.leaves
                         ELSE [md EXCEPT ![l] = IF found = {} THEN @
                                                ELSE mRootMd.leaves[CHOOSE k \in found : TRUE]]
            /\ shared' = (shared \/ (checkNamespace /\ s = Leaves))
            /\ mRootMd' = IF shared THEN [mRootMd EXCEPT !.leaves = md'] ELSE mRootMd
            /\ UNCHANGED <<format, disk, xmlSchema, mFstream, xmlFile>>
      BY <1>6 DEF XmlRead, Checked
    <2> DEFINE found == {k \in Occurrence(Key(s[1]), 0) : mRootMd.leaves[k] # Absent}
    <2>2. found # {} => mRootMd.leaves[CHOOSE k \in found : TRUE] \in Content
      <3>1. found \subseteq Leaf
        BY DEF Occurrence
      <3> HIDE DEF found
      <3>2. found # {} => (CHOOSE k \in found : TRUE) \in Leaf
        BY <3>1
      <3> QED BY <1>2, <3>2
    <2>3. md' = IF ~checkNamespace THEN md
                ELSE IF s = Leaves THEN mRootMd.leaves
                ELSE [md EXCEPT ![s[1]] = IF found = {} THEN @ ELSE mRootMd.leaves[CHOOSE k \in found : TRUE]]
      BY <2>1
    <2> HIDE DEF found
    <2>4. md' \in [Leaf -> Content]
      <3>1. CASE ~checkNamespace \/ s = Leaves
        BY <1>1, <1>2, <2>3, <3>1
      <3>2. CASE ~(~checkNamespace \/ s = Leaves)
        <4>1. md' = [md EXCEPT ![s[1]] = IF found = {} THEN md[s[1]]
                                         ELSE mRootMd.leaves[CHOOSE k \in found : TRUE]]
          BY <2>3, <3>2
        <4>2. s[1] \in Leaf => md[s[1]] \in Content
          BY <1>1
        <4> QED BY <1>1, <2>2, <4>1, <4>2
      <3> QED BY <3>1, <3>2
    <2>5. mRootMd' \in Trees
      BY <1>1, <2>1, <2>4, OtherLeaves
    <2>6. DiskOK'
      BY <1>1, <2>1, DiskUnchanged
    <2>7. shared' \in BOOLEAN
      BY <2>1
    <2> QED BY <1>1, <2>1, <2>4, <2>5, <2>6, <2>7, XmlChanges
  <1>7. CASE XmlReadRoot
    <2>1. /\ UNCHANGED <<format, disk, xmlSchema, mRootMd, mFstream, xmlFile>>
          /\ shared' \in BOOLEAN /\ md' \in {mRootMd.leaves, md}
      BY <1>7 DEF XmlReadRoot
    <2>2. DiskOK'
      BY <1>1, <2>1, DiskUnchanged
    <2> QED BY <1>1, <1>2, <2>1, <2>2, XmlChanges
  <1>8. CASE XmlWrite
    <2>1. /\ UNCHANGED <<format, disk, md, xmlSchema, mFstream, xmlFile, shared>>
          /\ \E s \in Scope, valid \in BOOLEAN :
               mRootMd' = IF checkNamespace THEN Copied(IF valid THEN Leaves ELSE s) ELSE mRootMd
      BY <1>8 DEF XmlWrite, Checked
    <2>2. mRootMd' \in Trees
      <3>1. PICK s \in Scope, valid \in BOOLEAN :
              mRootMd' = IF checkNamespace THEN Copied(IF valid THEN Leaves ELSE s) ELSE mRootMd
        BY <2>1
      <3>2. (IF valid THEN Leaves ELSE s) \in Seq(Leaf)
        BY AccessorAssumption
      <3>3. Copied(IF valid THEN Leaves ELSE s) \in Trees
        BY <1>1, <3>2, CopiedTypes
      <3> QED BY <1>1, <3>1, <3>3
    <2>3. DiskOK'
      BY <1>1, <2>1, DiskUnchanged
    <2> QED BY <1>1, <2>1, <2>2, <2>3, XmlChanges
  <1>9. CASE XmlRemove
    <2>1. PICK s \in Scope :
            /\ Passed(s)
            /\ mRootMd' = IF s = Leaves THEN mRootMd ELSE WithoutLeaf(mRootMd, s[1])
            /\ md' = IF shared THEN mRootMd'.leaves ELSE md
            /\ UNCHANGED <<format, disk, xmlSchema, mFstream, xmlFile, shared>>
      BY <1>9 DEF XmlRemove
    <2>2. mRootMd' \in Trees
      <3>1. s # Leaves => s[1] \in Leaf
        BY <2>1, AccessorAssumption DEF Passed
      <3> QED BY <1>1, <2>1, <3>1, WithoutLeafTypes
    <2>3. md' \in [Leaf -> Content]
      <3>1. mRootMd'.leaves \in [Leaf -> Content]
        BY <2>2 DEF Trees
      <3> QED BY <1>1, <2>1, <3>1
    <2>4. DiskOK'
      BY <1>1, <2>1, DiskUnchanged
    <2> QED BY <1>1, <2>1, <2>2, <2>3, <2>4, XmlChanges
  <1>10. CASE XmlSetValue
    <2>1. /\ UNCHANGED <<format, disk, xmlSchema, mFstream, xmlFile, shared>>
          /\ \E l \in Given(format), v \in Value :
               /\ md' = [CreatedLeaves(md, l) EXCEPT ![l] = v]
               /\ mRootMd' = IF shared THEN WithLeaf(mRootMd, l, v) ELSE mRootMd
      BY <1>10 DEF XmlSetValue
    <2>2. PICK l \in Given(format), v \in Value :
               /\ md' = [CreatedLeaves(md, l) EXCEPT ![l] = v]
               /\ mRootMd' = IF shared THEN WithLeaf(mRootMd, l, v) ELSE mRootMd
      BY <2>1
    <2>3. l \in Leaf /\ v \in Content
      <3>1. format \in Format
        BY DEF FileInv, FileTypeOK
      <3> QED BY <3>1, AccessorAssumption DEF Content
    <2>4. mRootMd' \in Trees
      BY <1>1, <2>2, <2>3, WithLeafTypes
    <2>5. CreatedLeaves(md, l) \in [Leaf -> Content]
      <3>1. [mRootMd EXCEPT !.leaves = md] \in Trees /\ [mRootMd EXCEPT !.leaves = md].leaves = md
        BY <1>1 DEF Trees
      <3> QED BY <2>3, <3>1, WithLeafTypes
    <2>6. md' \in [Leaf -> Content]
      BY <2>2, <2>3, <2>5
    <2>7. DiskOK'
      BY <1>1, <2>1, DiskUnchanged
    <2> QED BY <1>1, <2>1, <2>4, <2>6, <2>7, XmlChanges
  <1>11. CASE XmlNewTree
    <2>1. /\ UNCHANGED <<format, disk, xmlSchema, mRootMd, mFstream, xmlFile>>
          /\ md' = [l \in Leaf |-> Unset] /\ shared' = FALSE
      BY <1>11 DEF XmlNewTree, NewTree
    <2>2. DiskOK'
      BY <1>1, <2>1, DiskUnchanged
    <2>3. md' \in [Leaf -> Content]
      BY <2>1 DEF Content
    <2> QED BY <1>1, <2>1, <2>2, <2>3, XmlChanges
  <1> QED BY <1>3, <1>4, <1>5, <1>6, <1>7, <1>8, <1>9, <1>10, <1>11 DEF XmlNext

-----------------------------------------------------------------------------
\* The theorems

LEMMA FileInvInit == FileInit => FileInv
  <1> SUFFICES ASSUME FileInit PROVE FileInv
    OBVIOUS
  <1>1. format \in Format /\ md = [l \in Leaf |-> Unset]
    BY DEF FileInit, AccessorInit
  <1>2. DOMAIN disk = File /\ \A f \in File : Holds(format, disk[f])
    BY <1>1, FileAccessorsAssumption DEF FileInit
  <1>3. Unset \in Content /\ Absent \in Content
    BY DEF Content
  <1>4. /\ mDoc = NoDocument /\ mFileName = Absent /\ hasDig35 = FALSE /\ mJP2Sink = Absent
        /\ mImgFile = Closed /\ mOwnImgFile = FALSE /\ xmlSchema \in XmlSchemas /\ mRootMd = EmptyTree
        /\ mFstream = FALSE /\ xmlFile = Absent /\ shared = FALSE
    BY DEF FileInit, Dig35Init, J2kInit, TiffInit, XmlInit
  <1>5. Closed \in ImageFiles /\ Closed.state = "none"
    BY <1>3 DEF Closed, ImageFiles, Mode, NoEntries
  <1>6. EmptyTree \in Trees
    BY <1>3 DEF EmptyTree, Trees
  <1>7. FileTypeOK
    BY <1>1, <1>2, <1>3, <1>4, <1>5, <1>6 DEF FileTypeOK, ImageFiles
  <1>8. OwnFormat
    BY <1>4, <1>5 DEF OwnFormat
  <1> QED BY <1>7, <1>8 DEF FileInv

\* What the application does, outside of XML files.
LEMMA UserKeeps ==
  ASSUME FileInv, SetValue \/ NewTree, UNCHANGED <<dig35Vars, j2kVars, tiffVars, xmlVars>>
  PROVE  FileInv'
  <1>1. md \in [Leaf -> Content] /\ format \in Format /\ format' = format /\ disk' = disk
    BY DEF SetValue, NewTree, FileInv, FileTypeOK
  <1>2. CASE SetValue
    <2>1. PICK l \in Given(format), v \in Value : md' = [md EXCEPT ![l] = v]
      BY <1>2 DEF SetValue
    <2>2. v \in Content
      BY DEF Content
    <2>3. md' \in [Leaf -> Content]
      BY <1>1, <2>1, <2>2
    <2> QED BY <1>1, <2>3 DEF FileInv, FileTypeOK, OwnFormat, dig35Vars, j2kVars, tiffVars, xmlVars,
                              Trees, Blocks, Place, Documents, Elements, Content
  <1>3. CASE NewTree
    <2>1. md' \in [Leaf -> Content]
      BY <1>3 DEF NewTree, Content
    <2> QED BY <1>1, <2>1 DEF FileInv, FileTypeOK, OwnFormat, dig35Vars, j2kVars, tiffVars, xmlVars,
                              Trees, Blocks, Place, Documents, Elements, Content
  <1> QED BY <1>2, <1>3

LEMMA FileInvNext == FileInv /\ [FileNext]_fileVars => FileInv'
  <1> SUFFICES ASSUME FileInv, [FileNext]_fileVars PROVE FileInv'
    OBVIOUS
  <1>1. CASE format # "xml" /\ (SetValue \/ NewTree) /\ UNCHANGED <<dig35Vars, j2kVars, tiffVars, xmlVars>>
    BY <1>1, UserKeeps
  <1>2. CASE format = "dig35" /\ Dig35Next /\ UNCHANGED <<j2kVars, tiffVars, xmlVars>>
    BY <1>2, Dig35Keeps
  <1>3. CASE format = "j2k" /\ J2kNext /\ UNCHANGED <<tiffVars, xmlVars>>
    BY <1>3, J2kKeeps
  <1>4. CASE format = "tiff" /\ TiffNext /\ UNCHANGED <<dig35Vars, j2kVars, xmlVars>>
    BY <1>4, TiffKeeps
  <1>5. CASE format = "xml" /\ XmlNext /\ UNCHANGED <<dig35Vars, j2kVars, tiffVars>>
    BY <1>5, XmlKeeps
  <1>6. CASE UNCHANGED fileVars
    BY <1>6 DEF fileVars, baseVars, FileInv, FileTypeOK, OwnFormat, dig35Vars, j2kVars, tiffVars, xmlVars,
                Trees, Blocks, Place, Documents, Elements, Content
  <1> QED BY <1>1, <1>2, <1>3, <1>4, <1>5, <1>6 DEF FileNext

\* Everything is of its type, an accessor has to do with the files of its format only, and the
\* TIFF accessor owns the image file exactly when it is open.
THEOREM FileInvariance == FileSpec => []FileInv
  <1>1. FileInit => FileInv
    BY FileInvInit
  <1>2. FileInv /\ [FileNext]_fileVars => FileInv'
    BY FileInvNext
  <1> QED BY <1>1, <1>2, PTL DEF FileSpec

\* A leaf that is set in a DIG35 document reads back if no element stands first in its element
\* (getDOMNode, setMdValue, getMdValue of the DIG35 accessor), and disturbs no other leaf that can
\* be read but those whose tags end in the same name.
THEOREM SetsReadBack == FileSpec => []SetReadsBack
  <1>1. FileInv => SetReadsBack
    <2> SUFFICES ASSUME FileInv, mDoc # NoDocument, FirstNamed(mDoc, Root) # 0,
                        NEW l \in Leaf, Dig35Tag[l] # <<>>, md[l] # Absent
                 PROVE  LET node == getDOMNode(mDoc, Dig35Tag[l], TRUE)
                            after == Dig35Set(mDoc, l)
                        IN  /\ l \in Dig35Reads(after)
                            /\ ~(HasChild(node.doc, node.at) /\ node.doc[node.at + 1].tag # TextTag) =>
                                 Dig35Value(after)[l] = md[l]
                            /\ \A k \in Dig35Reads(mDoc) :
                                 Dig35Value(mDoc)[k] # NoText /\ Last(Dig35Tag[k]) # Last(Dig35Tag[l]) =>
                                   k \in Dig35Reads(after) /\ Dig35Value(after)[k] = Dig35Value(mDoc)[k]
      BY DEF SetReadsBack
    <2>1. mDoc \in Seq(Elements) /\ md[l] \in Content
      BY DEF FileInv, FileTypeOK
    <2> QED BY <2>1, SetReads
  <1>2. FileSpec => []FileInv
    BY FileInvariance
  <1> QED BY <1>1, <1>2, PTL

-----------------------------------------------------------------------------
\* The files that are open for writing, format by format

WritesDig35(f) == f = mFileName /\ mMode # "readonly" /\ mDoc # NoDocument
WritesJ2k(f) == f = mJP2Sink
WritesTiff(f) == f = mImgFile.name /\ mImgFile.state = "open" /\ mImgFile.mode # "readonly"
WritesXml(f) == f = xmlFile /\ mFstream /\ mOpenMode # "readonly"

OwnWrites ==
  \A f \in File :
    /\ format = "dig35" => (f \in OpenForWriting <=> WritesDig35(f))
    /\ format = "j2k" => (f \in OpenForWriting <=> WritesJ2k(f))
    /\ format = "tiff" => (f \in OpenForWriting <=> WritesTiff(f))
    /\ format = "xml" => (f \in OpenForWriting <=> WritesXml(f))

LEMMA WritesOwn == FileInv => OwnWrites
  <1> SUFFICES ASSUME FileInv, NEW f \in File
               PROVE  /\ format = "dig35" => (f \in OpenForWriting <=> WritesDig35(f))
                      /\ format = "j2k" => (f \in OpenForWriting <=> WritesJ2k(f))
                      /\ format = "tiff" => (f \in OpenForWriting <=> WritesTiff(f))
                      /\ format = "xml" => (f \in OpenForWriting <=> WritesXml(f))
    BY DEF OwnWrites
  <1>1. f # Absent
    BY AccessorAssumption
  <1>2. f \in OpenForWriting <=> WritesDig35(f) \/ WritesJ2k(f) \/ WritesTiff(f) \/ WritesXml(f)
    BY DEF OpenForWriting, WritesDig35, WritesJ2k, WritesTiff, WritesXml
  <1>3. /\ WritesDig35(f) => format = "dig35"
        /\ WritesJ2k(f) => format = "j2k"
        /\ WritesTiff(f) => format = "tiff"
        /\ WritesXml(f) => format = "xml"
    BY <1>1 DEF FileInv, FileTypeOK, OwnFormat, WritesDig35, WritesJ2k, WritesTiff, WritesXml
  <1> QED BY <1>2, <1>3

LEMMA WritesOwnNext == FileInv' => OwnWrites'
  BY WritesOwn, PTL

\* Of a file that is open for writing in a DIG35 accessor.
LEMMA Dig35Files ==
  ASSUME FileInv, format = "dig35", Dig35Next, UNCHANGED <<j2kVars, tiffVars, xmlVars>>, NEW f \in File
  PROVE  /\ disk'[f] # disk[f] => f \in OpenForWriting
         /\ f \in OpenForWriting /\ f \notin OpenForWriting' => Kept(f)
  <1>1. FileInv' /\ format' = format
    <2>1. FileInv'
      BY Dig35Keeps
    <2>2. format' = format
      BY DEF Dig35Next, Dig35Open, Dig35OpenMemory, openMemory, Dig35Append, Dig35Close, Dig35CloseToMemory,
             Dig35Read, Dig35ReadRoot, readMetadata, readMetadataRoot, Dig35Write, WriteOutcome,
             Dig35Remove, RemoveOutcome
    <2> QED BY <2>1, <2>2
  <1>2. /\ f \in OpenForWriting <=> WritesDig35(f)
        /\ (f \in OpenForWriting)' <=> WritesDig35(f)'
    BY <1>1, WritesOwn, WritesOwnNext DEF OwnWrites
  <1>3. f # Absent /\ DOMAIN disk = File
    BY AccessorAssumption DEF FileInv, FileTypeOK
  <1>4. CASE disk' = SavedDisk
    <2>1. /\ disk'[f] # disk[f] => WritesDig35(f)
          /\ WritesDig35(f) => disk'[f] = Serialized(mDoc)
      BY <1>3, <1>4 DEF SavedDisk, Dig35Saves, WritesDig35
    <2> QED BY <1>2, <2>1 DEF Kept
  <1>5. CASE UNCHANGED <<disk, mFileName, mMode>> /\ (mDoc # NoDocument => mDoc' # NoDocument)
    BY <1>2, <1>5 DEF WritesDig35
  <1>6. mDoc' \in Seq(Elements) => mDoc' # NoDocument
    BY FileAccessorsAssumption
  <1>7. mDoc \in Seq(Elements) \cup {NoDocument}
    BY DEF FileInv, FileTypeOK
  <1>8. CASE Dig35Open \/ Dig35OpenMemory \/ Dig35Close
    BY <1>4, <1>5, <1>8 DEF Dig35Open, Dig35OpenMemory, openMemory, Dig35Close, dig35Vars
  <1>9. CASE Dig35CloseToMemory \/ Dig35Read \/ Dig35ReadRoot
    BY <1>5, <1>9 DEF Dig35CloseToMemory, Dig35Read, Dig35ReadRoot, dig35Vars
  <1>10. CASE Dig35Append
    <2>1. UNCHANGED <<disk, mFileName, mMode>>
      BY <1>10 DEF Dig35Append
    <2>2. mDoc' = mDoc \/ mDoc' \in Seq(Elements)
      <3>1. PICK g \in Input :
              LET other == IF disk[g] = Absent THEN NoDocument ELSE Parsed(disk[g])
                  accepted == /\ mDoc # NoDocument /\ other # NoDocument
                              /\ FirstNamed(mDoc, Root) # 0
                              /\ other[1].tag = Root \/ isMetadataBlockKey(other[1].tag)
              IN  mDoc' = IF accepted THEN Appended(mDoc, other) ELSE mDoc
        BY <1>10 DEF Dig35Append
      <3> DEFINE other == IF disk[g] = Absent THEN NoDocument ELSE Parsed(disk[g])
      <3>2. mDoc' = mDoc \/ (mDoc # NoDocument /\ other # NoDocument /\ FirstNamed(mDoc, Root) # 0
                             /\ mDoc' = Appended(mDoc, other))
        BY <3>1
      <3>3. other # NoDocument => other \in Documents
        <4>1. g \in File
          BY AccessorAssumption
        <4>2. disk[g] \in {Absent, Garbage} \cup Documents
          BY <4>1, FormatHolds DEF FileInv, FileTypeOK
        <4>3. disk[g] # Absent /\ Parsed(disk[g]) # NoDocument => Parsed(disk[g]) \in Documents
          BY <4>2, ParsedTypes
        <4> QED BY <4>3
      <3> HIDE DEF other
      <3> QED BY <1>7, <3>2, <3>3, AppendedTypes
    <2> QED BY <1>5, <1>6, <2>1, <2>2
  <1>11. CASE Dig35Write
    <2>1. /\ mDoc # NoDocument /\ UNCHANGED <<disk, mFileName, mMode>>
          /\ \E s \in Scope, valid \in BOOLEAN : mDoc' = Written(s, valid, mDoc, Dig35Set, Dig35NoThrow).state
      BY <1>11 DEF Dig35Write
    <2>2. md \in [Leaf -> Content]
      BY DEF FileInv, FileTypeOK
    <2>3. mDoc' \in Seq(Elements)
      BY <1>7, <2>1, <2>2, Dig35WrittenTypes
    <2> QED BY <1>5, <1>6, <2>1, <2>3
  <1>12. CASE Dig35Remove
    <2>1. /\ mDoc # NoDocument /\ UNCHANGED <<disk, mFileName, mMode>>
          /\ \E s \in Scope : mDoc' = Removed(s, mDoc, Dig35RemoveValue, Dig35NoThrow).state
      BY <1>12 DEF Dig35Remove
    <2>2. mDoc' \in Seq(Elements)
      BY <1>7, <2>1, Dig35RemovedTypes
    <2> QED BY <1>5, <1>6, <2>1, <2>2
  <1> QED BY <1>8, <1>9, <1>10, <1>11, <1>12 DEF Dig35Next

\* Of the target of a JPEG 2000 accessor.
LEMMA J2kFiles ==
  ASSUME FileInv, format = "j2k", J2kNext, UNCHANGED <<tiffVars, xmlVars>>, NEW f \in File
  PROVE  /\ disk'[f] # disk[f] => f \in OpenForWriting \cup OpenForWriting'
         /\ f \in OpenForWriting /\ f \notin OpenForWriting' => Kept(f)
  <1>1. FileInv' /\ format' = format
    <2>1. FileInv'
      BY J2kKeeps
    <2>2. format' = format
      BY DEF J2kNext, J2kOpen, J2kClose, J2kNewOnTarget, J2kRead, J2kReadRoot, readMetadata,
             readMetadataRoot, J2kWrite, WriteOutcome, J2kRemove, RemoveOutcome
    <2> QED BY <2>1, <2>2
  <1>2. /\ f \in OpenForWriting <=> WritesJ2k(f)
        /\ (f \in OpenForWriting)' <=> WritesJ2k(f)'
    BY <1>1, WritesOwn, WritesOwnNext DEF OwnWrites
  <1>3. f # Absent /\ DOMAIN disk = File
    BY AccessorAssumption DEF FileInv, FileTypeOK
  <1>4. CASE J2kOpen \/ J2kClose
    <2>1. disk' = J2kSaved /\ mJP2Sink' = IF hasDig35 THEN Absent ELSE mJP2Sink
      BY <1>4 DEF J2kOpen, J2kClose
    <2>2. disk'[f] # disk[f] => WritesJ2k(f)
      BY <1>3, <2>1 DEF J2kSaved, WritesJ2k
    <2>3. WritesJ2k(f) /\ ~WritesJ2k(f)' => disk'[f] = Append(disk[f], Serialized(mDoc))
      BY <1>3, <2>1 DEF J2kSaved, WritesJ2k
    <2> QED BY <1>2, <2>2, <2>3 DEF Kept
  <1>5. CASE J2kNewOnTarget
    <2>1. PICK g \in File : disk' = [disk EXCEPT ![g] = <<OtherBox>>] /\ mJP2Sink' = g
      BY <1>5 DEF J2kNewOnTarget
    <2>2. mJP2Sink = Absent
      BY <1>5 DEF J2kNewOnTarget
    <2>3. disk'[f] # disk[f] => WritesJ2k(f)'
      BY <1>3, <2>1 DEF WritesJ2k
    <2>4. ~WritesJ2k(f)
      BY <1>3, <2>2 DEF WritesJ2k
    <2> QED BY <1>2, <2>3, <2>4
  <1>6. CASE J2kRead \/ J2kReadRoot \/ J2kWrite \/ J2kRemove
    <2>1. UNCHANGED <<disk, mJP2Sink>>
      BY <1>6 DEF J2kRead, J2kReadRoot, J2kWrite, J2kRemove, j2kVars
    <2> QED BY <1>2, <2>1 DEF WritesJ2k
  <1> QED BY <1>4, <1>5, <1>6 DEF J2kNext

\* Of the file of a TIFF accessor.
LEMMA TiffFiles ==
  ASSUME FileInv, format = "tiff", TiffNext, UNCHANGED <<dig35Vars, j2kVars, xmlVars>>, NEW f \in File
  PROVE  /\ disk'[f] # disk[f] => f \in OpenForWriting \cup OpenForWriting'
         /\ f \in OpenForWriting /\ f \notin OpenForWriting' => Kept(f)
  <1>1. FileInv' /\ format' = format
    <2>1. FileInv'
      BY TiffKeeps
    <2>2. format' = format
      BY DEF TiffNext, TiffOpen, TiffClose, getImageAccessor, TiffRead, TiffReadRoot, readMetadata,
             TiffWrite, WriteOutcome, TiffRemove, RemoveOutcome
    <2> QED BY <2>1, <2>2
  <1>2. /\ f \in OpenForWriting <=> WritesTiff(f)
        /\ (f \in OpenForWriting)' <=> WritesTiff(f)'
    BY <1>1, WritesOwn, WritesOwnNext DEF OwnWrites
  <1>3. /\ DOMAIN disk = File /\ mOwnImgFile = (mImgFile.state = "open")
        /\ mImgFile \in ImageFiles /\ mImgFile.state \in {"none", "made", "open"}
    BY DEF FileInv, FileTypeOK, OwnFormat, ImageFiles
  <1>4. /\ TiffSaved[f] # disk[f] => WritesTiff(f)
        /\ WritesTiff(f) => TiffSaved[f] = mImgFile.entries
        /\ DOMAIN TiffSaved = File
    BY <1>3 DEF TiffSaved, WritesTiff
  <1>5. CASE TiffOpen
    <2>0. PICK g \in File :
            \E mode \in Asked(g) :
              LET found == IF mode = "create" THEN NoEntries ELSE TiffSaved[g]
                  opened == found \notin {Absent, NotTiff}
              IN  /\ disk' = IF mode = "create" THEN [TiffSaved EXCEPT ![g] = NoEntries] ELSE TiffSaved
                  /\ opened =>
                       mImgFile' = [state |-> "open", name |-> g, mode |-> mode, entries |-> found]
      BY <1>5 DEF TiffOpen
    <2>1. PICK mode \in Asked(g) :
              LET found == IF mode = "create" THEN NoEntries ELSE TiffSaved[g]
                  opened == found \notin {Absent, NotTiff}
              IN  /\ disk' = IF mode = "create" THEN [TiffSaved EXCEPT ![g] = NoEntries] ELSE TiffSaved
                  /\ opened =>
                       mImgFile' = [state |-> "open", name |-> g, mode |-> mode, entries |-> found]
      BY <2>0
    <2>2. CASE mode = "create" /\ f = g
      <3>1. NoEntries \in [Leaf -> Content]
        BY DEF NoEntries, Content
      <3>2. NoEntries \notin {Absent, NotTiff}
        BY <3>1, FileAccessorsAssumption
      <3>3. mImgFile' = [state |-> "open", name |-> g, mode |-> "create", entries |-> NoEntries]
        BY <2>1, <2>2, <3>2
      <3>4. WritesTiff(f)'
        BY <2>2, <3>3 DEF WritesTiff
      <3> QED BY <1>2, <3>4
    <2>3. CASE ~(mode = "create" /\ f = g)
      <3>1. disk'[f] = TiffSaved[f]
        BY <1>4, <2>1, <2>3
      <3> QED BY <1>2, <1>4, <3>1 DEF Kept
    <2> QED BY <2>2, <2>3
  <1>6. CASE TiffClose
    <2>1. disk' = TiffSaved
      BY <1>6 DEF TiffClose
    <2> QED BY <1>2, <1>4, <2>1 DEF Kept
  <1>7. CASE getImageAccessor \/ TiffRead \/ TiffReadRoot
    <2>1. UNCHANGED <<disk, mImgFile>>
      BY <1>7 DEF getImageAccessor, TiffRead, TiffReadRoot, tiffVars
    <2> QED BY <1>2, <2>1 DEF WritesTiff
  <1>8. CASE TiffWrite \/ TiffRemove
    <2>1. disk' = disk /\ \E e : mImgFile' = [mImgFile EXCEPT !.entries = e]
      BY <1>8 DEF TiffWrite, TiffRemove
    <2>2. PICK e : mImgFile' = [mImgFile EXCEPT !.entries = e]
      BY <2>1
    <2>3. mImgFile'.name = mImgFile.name /\ mImgFile'.state = mImgFile.state /\ mImgFile'.mode = mImgFile.mode
      BY <1>3, <2>2 DEF ImageFiles
    <2> QED BY <1>2, <2>1, <2>3 DEF WritesTiff
  <1> QED BY <1>5, <1>6, <1>7, <1>8 DEF TiffNext

\* Of the file of an XML accessor.
LEMMA XmlFiles ==
  ASSUME FileInv, format = "xml", XmlNext, UNCHANGED <<dig35Vars, j2kVars, tiffVars>>, NEW f \in File
  PROVE  /\ disk'[f] # disk[f] => f \in OpenForWriting \cup OpenForWriting'
         /\ f \in OpenForWriting /\ f \notin OpenForWriting' => Kept(f)
  <1>1. FileInv' /\ format' = format
    <2>1. FileInv'
      BY XmlKeeps
    <2>2. format' = format
      BY DEF XmlNext, XmlOpen, XmlOpenThrows, XmlClose, XmlRead, XmlReadRoot, Checked, XmlWrite, XmlRemove,
             XmlRefuses, XmlSetValue, XmlNewTree, NewTree
    <2> QED BY <2>1, <2>2
  <1>2. /\ f \in OpenForWriting <=> WritesXml(f)
        /\ (f \in OpenForWriting)' <=> WritesXml(f)'
    BY <1>1, WritesOwn, WritesOwnNext DEF OwnWrites
  <1>3. DOMAIN disk = File /\ mRootMd \in Trees /\ xmlSchema \in XmlSchemas
    BY DEF FileInv, FileTypeOK
  <1>4. CASE XmlOpen
    <2>0. PICK g \in File :
            \E mode \in Asked(g) :
              /\ disk' = IF mode # "create" \/ mFstream THEN disk ELSE [disk EXCEPT ![g] = Malformed]
              /\ mFstream' = TRUE /\ xmlFile' = g /\ mOpenMode' = mode
      BY <1>4 DEF XmlOpen
    <2>1. PICK mode \in Asked(g) :
            /\ disk' = IF mode # "create" \/ mFstream THEN disk ELSE [disk EXCEPT ![g] = Malformed]
            /\ mFstream' = TRUE /\ xmlFile' = g /\ mOpenMode' = mode
      BY <2>0
    <2>2. disk'[f] # disk[f] => WritesXml(f)'
      BY <1>3, <2>1 DEF WritesXml
    <2> QED BY <1>1, <1>2, <2>1, <2>2 DEF Kept
  <1>5. CASE XmlClose
    <2>1. disk' = XmlSaved
      BY <1>5 DEF XmlClose
    <2>2. disk'[f] # disk[f] => WritesXml(f)
      BY <1>3, <2>1 DEF XmlSaved, WritesXml
    <2>3. ASSUME WritesXml(f)
          PROVE  XmlKept(f)
      <3>1. CASE mInSync
        BY <2>1, <3>1 DEF XmlSaved, XmlKept
      <3>2. CASE ~mInSync
        <4>1. disk'[f] = IF checkNamespace THEN Printed(mRootMd) ELSE Malformed
          BY <1>3, <2>1, <2>3, <3>2 DEF XmlSaved, WritesXml
        <4>2. Present(mRootMd) # {} /\ (\A l \in Present(mRootMd) : ~Place(l).multiple) =>
                Printed(mRootMd) # Malformed /\ XmlParsed(Printed(mRootMd)).leaves = mRootMd.leaves
          BY <1>3, PrintedReads
        <4> QED BY <3>2, <4>1, <4>2 DEF XmlKept, Present
      <3> QED BY <3>1, <3>2
    <2> QED BY <1>2, <2>2, <2>3 DEF Kept
  <1>6. CASE ~(XmlOpen \/ XmlClose)
    <2>1. UNCHANGED <<disk, xmlFile, mFstream, mOpenMode>>
      BY <1>6 DEF XmlNext, XmlOpenThrows, XmlRead, XmlReadRoot, Checked, XmlWrite, XmlRemove,
                  XmlRefuses, XmlSetValue, XmlNewTree, NewTree, xmlVars
    <2> QED BY <1>2, <2>1 DEF WritesXml
  <1> QED BY <1>4, <1>5, <1>6

\* Of any file, in any step.
LEMMA FilesKept ==
  ASSUME FileInv, [FileNext]_fileVars, NEW f \in File
  PROVE  /\ disk'[f] # disk[f] => f \in OpenForWriting \cup OpenForWriting'
         /\ f \in OpenForWriting /\ f \notin OpenForWriting' => Kept(f)
  <1>1. CASE UNCHANGED <<disk, dig35Vars, j2kVars, tiffVars, xmlVars>>
    BY <1>1 DEF OpenForWriting, dig35Vars, j2kVars, tiffVars, xmlVars
  <1>2. CASE format # "xml" /\ (SetValue \/ NewTree) /\ UNCHANGED <<dig35Vars, j2kVars, tiffVars, xmlVars>>
    BY <1>1, <1>2 DEF SetValue, NewTree
  <1>3. CASE format = "dig35" /\ Dig35Next /\ UNCHANGED <<j2kVars, tiffVars, xmlVars>>
    BY <1>3, Dig35Files
  <1>4. CASE format = "j2k" /\ J2kNext /\ UNCHANGED <<tiffVars, xmlVars>>
    BY <1>4, J2kFiles
  <1>5. CASE format = "tiff" /\ TiffNext /\ UNCHANGED <<dig35Vars, j2kVars, xmlVars>>
    BY <1>5, TiffFiles
  <1>6. CASE format = "xml" /\ XmlNext /\ UNCHANGED <<dig35Vars, j2kVars, tiffVars>>
    BY <1>6, XmlFiles
  <1>7. CASE UNCHANGED fileVars
    BY <1>1, <1>7 DEF fileVars, baseVars
  <1> QED BY <1>2, <1>3, <1>4, <1>5, <1>6, <1>7 DEF FileNext

\* open() and close() of the accessors change no file but the one that was open for writing, or
\* the one they create.
THEOREM OnlyOwnFiles == FileSpec => OnlyOwnFileChanges
  <1>1. FileInv /\ [FileNext]_fileVars =>
          [\A f \in File : disk'[f] # disk[f] => f \in OpenForWriting \cup OpenForWriting']_fileVars
    BY FilesKept
  <1>2. FileSpec => []FileInv
    BY FileInvariance
  <1> QED BY <1>1, <1>2, PTL DEF FileSpec, OnlyOwnFileChanges

\* A file that is no longer open for writing holds what its accessor was to write: the document,
\* its box, the entries, or what reads back as the tree.
THEOREM NothingLost == FileSpec => NoChangeLost
  <1>1. FileInv /\ [FileNext]_fileVars =>
          [\A f \in OpenForWriting \ OpenForWriting' : Kept(f)]_fileVars
    <2> SUFFICES ASSUME FileInv, [FileNext]_fileVars, NEW f \in OpenForWriting \ OpenForWriting'
                 PROVE  Kept(f)
      OBVIOUS
    <2>1. f \in File
      BY DEF OpenForWriting
    <2> QED BY <2>1, FilesKept
  <1>2. FileSpec => []FileInv
    BY FileInvariance
  <1> QED BY <1>1, <1>2, PTL DEF FileSpec, NoChangeLost
=============================================================================
