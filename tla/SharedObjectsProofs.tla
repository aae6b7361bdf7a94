------------------------ MODULE SharedObjectsProofs ------------------------
(***************************************************************************)
(* Proofs about SharedObjects, for any threads, pointers, keys and         *)
(* addresses.                                                              *)
(***************************************************************************)
EXTENDS SharedObjects, FiniteSetTheorems, TLAPS

\* Thread t alone overwrites p, now.
Reaches(t, p) == p \in LocalsOf(t) \/ (p \in Key /\ lock = t)

\* Only a thread that still has to let an object go has one.
Tasks ==
  \A t \in Thread :
    /\ pc[t] \in {"deleteRef", "delete"} => old[t] # NoObject
    /\ pc[t] \in {"idle", "call", "registry"} => old[t] = NoObject

\* An object that t has in dst[t] and is still to count is a new one, which nobody
\* else knows; or t got it from a pointer that it alone overwrites.
Fresh(t) ==
  /\ \A p \in Pointer \ {dst[t]} : ptr[p] # ptr[dst[t]]
  /\ \A u \in Thread : old[u] # ptr[dst[t]]
Sourced(t) ==
  \E q \in Pointer \ {dst[t]} : Reaches(t, q) /\ ptr[q] = ptr[dst[t]]
Pending ==
  \A t \in Thread : pc[t] = "addRef" =>
    /\ Reaches(t, dst[t])
    /\ ptr[dst[t]] # NoObject
    /\ Fresh(t) \/ Sourced(t)

\* The inductive invariant.
IInv == TypeOK /\ Counted /\ NoUseAfterDelete /\ Tasks /\ Pending

\* A step that starts an assignment: p, which t alone reaches, gets o.
Overwrites(t, p, o) ==
  /\ pc[t] \in {"idle", "call", "registry"}
  /\ Reaches(t, p)
  /\ ptr[p] # o
  /\ Assign(t, p, o)
  /\ UNCHANGED lock

\* What is assigned: NULL, or a pointer that t alone overwrites, or a new object.
Shares(t, p, o) ==
  /\ o = NoObject \/ \E q \in Pointer \ {p} : Reaches(t, q) /\ ptr[q] = o
  /\ UNCHANGED <<live, count>>
Allocates(o) ==
  /\ o \in Object \ live
  /\ live' = live \cup {o}
  /\ count' = [count EXCEPT ![o] = 0]

\* A step that neither assigns nor counts.
Moves(t, s) ==
  /\ pc[t] \in {"idle", "call", "registry"}
  /\ s \in {"idle", "call", "registry"}
  /\ pc' = [pc EXCEPT ![t] = s]
  /\ lock' = lock \/ (lock = t /\ lock' = NoThread) \/ (lock = NoThread /\ lock' = t)
  /\ UNCHANGED <<live, count, ptr, dst, old>>

-----------------------------------------------------------------------------
\* Who holds what

\* Two threads never reach the same pointer.
LEMMA ReachesApart ==
  ASSUME TypeOK, NEW t \in Thread, NEW u \in Thread, t # u, NEW p, Reaches(t, p)
  PROVE  ~ Reaches(u, p)
BY PointerAssumption DEF TypeOK, Reaches, LocalsOf

\* A pointer that a thread reaches is counted, unless that thread is about to do it.
LEMMA ReachedIsCounted ==
  ASSUME TypeOK, Pending, NEW t \in Thread, NEW p \in Pointer, Reaches(t, p), dst[t] # p
  PROVE  ~ Uncounted(p)
<1>1. ASSUME NEW u \in Thread, dst[u] = p
      PROVE  FALSE
  <2>1. u # t
    BY <1>1
  <2>2. pc[u] = "addRef"
    BY <1>1, PointerAssumption DEF TypeOK
  <2>3. Reaches(u, p)
    BY <1>1, <2>2 DEF Pending
  <2> QED
    BY <2>1, <2>3, ReachesApart
<1> QED
  BY <1>1 DEF Uncounted

LEMMA HoldersFinite ==
  ASSUME NEW o
  PROVE  IsFiniteSet(Holders(o))
<1>1. IsFiniteSet(Pointer \cup Thread)
  BY PointerAssumption, FS_Union
<1>2. Holders(o) \subseteq Pointer \cup Thread
  BY DEF Holders
<1> QED
  BY <1>1, <1>2, FS_Subset

-----------------------------------------------------------------------------
\* An assignment begins

\* The overwritten pointer hands its object to the thread: as many hold it as before.
LEMMA OverwriteHolders ==
  ASSUME IInv, NEW t \in Thread, NEW p \in Pointer, NEW o, Overwrites(t, p, o),
         NEW x \in Object
  PROVE  Cardinality(Holders(x)') = Cardinality(Holders(x))
<1> USE DEF IInv
<1>1. /\ p \in DOMAIN ptr /\ t \in DOMAIN dst /\ t \in DOMAIN old /\ t \in DOMAIN pc
      /\ old[t] = NoObject /\ dst[t] = None /\ NoObject # x
  BY PointerAssumption DEF TypeOK, Overwrites, Tasks
<1>2. ~ Uncounted(p)
  BY <1>1, ReachedIsCounted, PointerAssumption DEF Overwrites
<1>3. /\ ptr' = [ptr EXCEPT ![p] = o]
      /\ dst' = [dst EXCEPT ![t] = IF o # NoObject THEN p ELSE None]
      /\ old' = [old EXCEPT ![t] = ptr[p]]
      /\ pc' = [pc EXCEPT ![t] = IF o # NoObject THEN "addRef" ELSE "deleteRef"]
  BY DEF Overwrites, Assign
<1>4. t \notin Holders(x) /\ t \notin Pointer
  BY <1>1, PointerAssumption DEF Holders
<1>5. \A q \in Pointer : Uncounted(q)' <=> Uncounted(q) \/ (q = p /\ o # NoObject)
  BY <1>1, <1>3, PointerAssumption DEF Uncounted, TypeOK
<1>6. \A q \in Pointer : ptr'[q] = IF q = p THEN o ELSE ptr[q]
  BY <1>3 DEF TypeOK
<1>7. \A u \in Thread : /\ old'[u] = IF u = t THEN ptr[p] ELSE old[u]
                        /\ u # t => pc'[u] = pc[u]
                        /\ pc'[t] # "delete"
  BY <1>3 DEF TypeOK
<1>8. CASE ptr[p] = x
  <2>1. p \in Holders(x)
    BY <1>2, <1>8 DEF Holders
  <2>2. Holders(x)' = (Holders(x) \ {p}) \cup {t}
    <3>1. o # x
      BY <1>8 DEF Overwrites
    <3>2. {q \in Pointer : ptr'[q] = x /\ ~ Uncounted(q)'} =
          {q \in Pointer : ptr[q] = x /\ ~ Uncounted(q)} \ {p}
      BY <1>5, <1>6, <3>1
    <3>3. {u \in Thread : old'[u] = x /\ pc'[u] # "delete"} =
          {u \in Thread : old[u] = x /\ pc[u] # "delete"} \cup {t}
      BY <1>7, <1>8
    <3>4. p \notin Thread
      BY PointerAssumption
    <3> QED
      BY <3>2, <3>3, <3>4 DEF Holders
  <2>3. /\ IsFiniteSet(Holders(x) \ {p})
        /\ Cardinality(Holders(x) \ {p}) = Cardinality(Holders(x)) - 1
    BY <2>1, HoldersFinite, FS_RemoveElement
  <2>4. Cardinality((Holders(x) \ {p}) \cup {t}) = Cardinality(Holders(x) \ {p}) + 1
    BY <1>4, <2>3, FS_AddElement
  <2>5. Cardinality(Holders(x)) \in Nat
    BY HoldersFinite, FS_CardinalityType
  <2> QED
    BY <2>2, <2>3, <2>4, <2>5
<1>9. CASE ptr[p] # x
  <2>1. Holders(x)' = Holders(x)
    BY <1>1, <1>5, <1>6, <1>7, <1>9 DEF Holders, Overwrites
  <2> QED
    BY <2>1
<1> QED
  BY <1>8, <1>9


\* What an assignment does to each variable.
LEMMA OverwriteEffect ==
  ASSUME IInv, NEW t \in Thread, NEW p \in Pointer, NEW o, Overwrites(t, p, o)
  PROVE  /\ lock' = lock
         /\ \A q \in Pointer : ptr'[q] = IF q = p THEN o ELSE ptr[q]
         /\ \A u \in Thread \ {t} : dst'[u] = dst[u] /\ old'[u] = old[u] /\ pc'[u] = pc[u]
         /\ dst'[t] = (IF o # NoObject THEN p ELSE None)
         /\ old'[t] = ptr[p]
         /\ pc'[t] = (IF o # NoObject THEN "addRef" ELSE "deleteRef")
         /\ \A u \in Thread, q \in Pointer : Reaches(u, q) => Reaches(u, q)'
BY DEF IInv, TypeOK, Overwrites, Assign, Reaches, LocalsOf

\* What is assigned is neither about to be deleted nor the secret of another thread:
\* then the step keeps the invariant, but for the counts.
LEMMA OverwriteKeeps ==
  ASSUME IInv, NEW t \in Thread, NEW p \in Pointer, NEW o, Overwrites(t, p, o),
         live \subseteq live', o \in live' \cup {NoObject},
         \A u \in Thread : pc[u] = "delete" => o # old[u],
         \A u \in Thread \ {t} : pc[u] = "addRef" /\ Fresh(u) => o # ptr[dst[u]],
         o # NoObject => Fresh(t)' \/ Sourced(t)'
  PROVE  NoUseAfterDelete' /\ Tasks' /\ Pending'
<1> USE DEF IInv
<1>1. /\ lock' = lock
      /\ \A q \in Pointer : ptr'[q] = IF q = p THEN o ELSE ptr[q]
      /\ \A u \in Thread \ {t} : dst'[u] = dst[u] /\ old'[u] = old[u] /\ pc'[u] = pc[u]
      /\ dst'[t] = (IF o # NoObject THEN p ELSE None)
      /\ old'[t] = ptr[p]
      /\ pc'[t] = (IF o # NoObject THEN "addRef" ELSE "deleteRef")
      /\ \A u \in Thread, q \in Pointer : Reaches(u, q) => Reaches(u, q)'
  BY OverwriteEffect
<1>2. Reaches(t, p) /\ ptr[p] # o
  BY DEF Overwrites
<1>3. NoUseAfterDelete'
  <2>1. \A q \in Pointer : ptr'[q] \in live' \cup {NoObject}
    BY <1>1 DEF NoUseAfterDelete
  <2>2. \A u \in Thread : old'[u] \in live' \cup {NoObject}
    BY <1>1 DEF NoUseAfterDelete
  <2>3. ASSUME NEW u \in Thread, pc'[u] = "delete"
        PROVE  /\ \A q \in Pointer : ptr'[q] # old'[u]
               /\ \A v \in Thread \ {u} : old'[v] # old'[u]
    <3>1. u # t /\ pc[u] = "delete" /\ old'[u] = old[u]
      BY <1>1, <2>3
    <3>2. /\ \A q \in Pointer : ptr[q] # old[u]
          /\ \A v \in Thread \ {u} : old[v] # old[u]
      BY <3>1 DEF NoUseAfterDelete
    <3> QED
      BY <1>1, <3>1, <3>2
  <2> QED
    BY <2>1, <2>2, <2>3 DEF NoUseAfterDelete
<1>4. Tasks'
  BY <1>1, <1>2 DEF Tasks
<1>5. Pending'
  <2>1. ASSUME NEW u \in Thread, pc'[u] = "addRef", u = t
        PROVE  /\ Reaches(u, dst[u])' /\ ptr'[dst'[u]] # NoObject
               /\ Fresh(u)' \/ Sourced(u)'
    BY <1>1, <1>2, <2>1 DEF Reaches
  <2>2. ASSUME NEW u \in Thread, pc'[u] = "addRef", u # t
        PROVE  /\ Reaches(u, dst[u])' /\ ptr'[dst'[u]] # NoObject
               /\ Fresh(u)' \/ Sourced(u)'
    <3>1. /\ pc[u] = "addRef" /\ dst'[u] = dst[u] /\ dst[u] \in Pointer
          /\ Reaches(u, dst[u]) /\ ptr[dst[u]] # NoObject
      BY <1>1, <2>2 DEF Pending, TypeOK
    <3>2. dst[u] # p /\ ptr'[dst'[u]] = ptr[dst[u]]
      BY <1>1, <1>2, <2>2, <3>1, ReachesApart
    <3>3. Reaches(u, dst[u])'
      BY <1>1, <3>1 DEF Reaches
    <3>4. CASE Sourced(u)
      <4>1. PICK q \in Pointer \ {dst[u]} : Reaches(u, q) /\ ptr[q] = ptr[dst[u]]
        BY <3>4 DEF Sourced
      <4>2. q # p /\ Reaches(u, q)' /\ ptr'[q] = ptr'[dst'[u]] /\ q \in Pointer \ {dst'[u]}
        BY <1>1, <1>2, <2>2, <3>1, <3>2, <4>1, ReachesApart
      <4>3. Sourced(u)'
        BY <4>2 DEF Sourced, Reaches
      <4> QED
        BY <3>1, <3>2, <3>3, <4>3
    <3>5. CASE Fresh(u)
      <4>1. \A q \in Pointer \ {dst'[u]} : ptr'[q] # ptr'[dst'[u]]
        BY <1>1, <2>2, <3>1, <3>2, <3>5 DEF Fresh
      <4>2. \A v \in Thread : old'[v] # ptr'[dst'[u]]
        BY <1>1, <3>1, <3>2, <3>5 DEF Fresh
      <4>3. Fresh(u)'
        BY <4>1, <4>2 DEF Fresh
      <4> QED
        BY <3>1, <3>2, <3>3, <4>3
    <3> QED
      BY <3>1, <3>4, <3>5 DEF Pending
  <2> QED
    BY <2>1, <2>2 DEF Pending
<1> QED
  BY <1>3, <1>4, <1>5

\* The pointer gets NULL or shares an object.
LEMMA SharingKeeps ==
  ASSUME IInv, NEW t \in Thread, NEW p \in Pointer, NEW o,
         Overwrites(t, p, o), Shares(t, p, o)
  PROVE  Counted' /\ NoUseAfterDelete' /\ Tasks' /\ Pending'
<1> USE DEF IInv
<1>1. Counted'
  BY OverwriteHolders DEF Counted, Shares
<1>2. o \in live' \cup {NoObject} /\ live \subseteq live'
  BY DEF Shares, NoUseAfterDelete
<1>3. \A u \in Thread : pc[u] = "delete" => o # old[u]
  BY DEF Shares, NoUseAfterDelete, Tasks
<1>4. ASSUME NEW u \in Thread \ {t}, pc[u] = "addRef", Fresh(u)
      PROVE  o # ptr[dst[u]]
  <2>1. Reaches(u, dst[u]) /\ ptr[dst[u]] # NoObject
    BY <1>4 DEF Pending
  <2>2. ASSUME NEW q \in Pointer, Reaches(t, q), ptr[q] = o
        PROVE  o # ptr[dst[u]]
    BY <1>4, <2>1, <2>2, ReachesApart DEF Fresh
  <2> QED
    BY <2>1, <2>2 DEF Shares
<1>5. ASSUME o # NoObject
      PROVE  Sourced(t)'
  <2>1. PICK q \in Pointer \ {p} : Reaches(t, q) /\ ptr[q] = o
    BY <1>5 DEF Shares
  <2>2. dst'[t] = p /\ ptr'[p] = o /\ ptr'[q] = o /\ Reaches(t, q)'
    BY <1>5, <2>1, OverwriteEffect
  <2> QED
    BY <2>2 DEF Sourced, Reaches
<1> QED
  BY <1>1, <1>2, <1>3, <1>4, <1>5, OverwriteKeeps

\* The pointer gets a new object, whose count starts at 0.
LEMMA AllocationKeeps ==
  ASSUME IInv, NEW t \in Thread, NEW p \in Pointer, NEW o,
         Overwrites(t, p, o), Allocates(o)
  PROVE  Counted' /\ NoUseAfterDelete' /\ Tasks' /\ Pending'
<1> USE DEF IInv
<1>1. /\ o \in Object /\ o # NoObject
      /\ \A q \in Pointer : ptr[q] # o
      /\ \A u \in Thread : old[u] # o
  BY PointerAssumption DEF Allocates, NoUseAfterDelete
<1>2. Counted'
  <2>1. \A x \in Object : Cardinality(Holders(x)') = Cardinality(Holders(x))
    BY OverwriteHolders
  <2>2. Holders(o) = {}
    BY <1>1 DEF Holders
  <2>3. Cardinality(Holders(o)) = 0
    BY <2>2, FS_EmptySet
  <2>4. \A x \in Object : count'[x] = IF x = o THEN 0 ELSE count[x]
    BY DEF Allocates, TypeOK
  <2> QED
    BY <2>1, <2>3, <2>4 DEF Counted
<1>3. o \in live' \cup {NoObject} /\ live \subseteq live'
  BY DEF Allocates
<1>4. Fresh(t)'
  <2>1. dst'[t] = p /\ ptr'[p] = o
    BY <1>1, OverwriteEffect
  <2>2. \A q \in Pointer \ {p} : ptr'[q] # o
    BY <1>1, OverwriteEffect
  <2>3. \A u \in Thread : old'[u] # o
    BY <1>1, OverwriteEffect
  <2> QED
    BY <2>1, <2>2, <2>3 DEF Fresh
<1>5. ASSUME NEW u \in Thread \ {t}, pc[u] = "addRef"
      PROVE  o # ptr[dst[u]]
  BY <1>1, <1>5 DEF TypeOK
<1> QED
  BY <1>1, <1>2, <1>3, <1>4, <1>5, OverwriteKeeps

-----------------------------------------------------------------------------
\* The other steps

\* A step that keeps to its place keeps the objects, whatever it does to the lock.
LEMMA MoveKeeps ==
  ASSUME IInv, NEW t \in Thread, NEW s, Moves(t, s)
  PROVE  Counted' /\ NoUseAfterDelete' /\ Tasks' /\ Pending'
<1> USE DEF IInv
<1>1. /\ live' = live /\ count' = count /\ ptr' = ptr /\ dst' = dst /\ old' = old
      /\ \A u \in Thread \ {t} : pc'[u] = pc[u]
      /\ pc'[t] = s /\ s \in {"idle", "call", "registry"}
      /\ pc[t] \in {"idle", "call", "registry"}
  BY DEF Moves, TypeOK
<1>2. \A u \in Thread : pc'[u] = "delete" <=> pc[u] = "delete"
  BY <1>1
<1>3. \A o : Holders(o)' = Holders(o)
  BY <1>1, <1>2 DEF Holders, Uncounted
<1>4. Counted'
  BY <1>1, <1>3 DEF Counted
<1>5. NoUseAfterDelete'
  BY <1>1, <1>2 DEF NoUseAfterDelete
<1>6. Tasks'
  BY <1>1 DEF Tasks
<1>7. Pending'
  <2>1. ASSUME NEW u \in Thread, pc'[u] = "addRef"
        PROVE  /\ Reaches(u, dst[u])' /\ ptr'[dst'[u]] # NoObject
               /\ Fresh(u)' \/ Sourced(u)'
    <3>1. u # t /\ pc[u] = "addRef"
      BY <1>1, <2>1
    <3>2. \A q : Reaches(u, q) => Reaches(u, q)'
      BY <3>1, PointerAssumption DEF Moves, Reaches, LocalsOf
    <3>3. Reaches(u, dst[u]) /\ ptr[dst[u]] # NoObject /\ (Fresh(u) \/ Sourced(u))
      BY <3>1 DEF Pending
    <3>4. Fresh(u) => Fresh(u)'
      BY <1>1 DEF Fresh
    <3>5. Sourced(u) => Sourced(u)'
      BY <1>1, <3>2 DEF Sourced
    <3> QED
      BY <1>1, <3>2, <3>3, <3>4, <3>5
  <2> QED
    BY <2>1 DEF Pending
<1> QED
  BY <1>4, <1>5, <1>6, <1>7

\* Counting a pointer makes it one more of those that hold the object.
LEMMA AddRefKeeps ==
  ASSUME IInv, NEW t \in Thread, addRef(t)
  PROVE  Counted' /\ NoUseAfterDelete' /\ Tasks' /\ Pending'
<1> USE DEF IInv
<1>1. PICK p \in Pointer, x \in Object :
        /\ p = dst[t] /\ x = ptr[p] /\ x # NoObject
        /\ pc[t] = "addRef" /\ Reaches(t, p)
  BY PointerAssumption DEF addRef, TypeOK, Pending
<1>2. /\ live' = live /\ ptr' = ptr /\ old' = old /\ lock' = lock
      /\ \A u \in Thread : dst'[u] = IF u = t THEN None ELSE dst[u]
      /\ \A u \in Thread \ {t} : pc'[u] = pc[u]
      /\ pc'[t] = IF old[t] # NoObject THEN "deleteRef" ELSE Done(t)
      /\ \A o \in Object : count'[o] = IF o = x THEN count[o] + 1 ELSE count[o]
  BY <1>1 DEF addRef, TypeOK
<1>3. Done(t) \in {"idle", "registry"}
  BY DEF Done
<1>4. \A u \in Thread : pc'[u] = "delete" <=> pc[u] = "delete"
  BY <1>1, <1>2, <1>3
<1>5. \A u \in Thread \ {t} : dst[u] # p
  <2>1. ASSUME NEW u \in Thread \ {t}, dst[u] = p
        PROVE  FALSE
    <3>1. Reaches(u, p)
      BY <1>1, <2>1, PointerAssumption DEF Pending, TypeOK
    <3> QED
      BY <1>1, <3>1, ReachesApart
  <2> QED
    BY <2>1
<1>6. \A q \in Pointer : Uncounted(q)' <=> Uncounted(q) /\ q # p
  BY <1>1, <1>2, <1>5, PointerAssumption DEF Uncounted
<1>7. Uncounted(p)
  BY <1>1 DEF Uncounted
<1>8. Counted'
  <2>1. ASSUME NEW o \in Object, o # x
        PROVE  Holders(o)' = Holders(o)
    BY <1>1, <1>2, <1>4, <1>6, <2>1 DEF Holders
  <2>2. Holders(x)' = Holders(x) \cup {p} /\ p \notin Holders(x)
    <3>1. p \notin Thread
      BY <1>1, PointerAssumption
    <3>2. {q \in Pointer : ptr'[q] = x /\ ~ Uncounted(q)'} =
          {q \in Pointer : ptr[q] = x /\ ~ Uncounted(q)} \cup {p}
      BY <1>1, <1>2, <1>6
    <3>3. {u \in Thread : old'[u] = x /\ pc'[u] # "delete"} =
          {u \in Thread : old[u] = x /\ pc[u] # "delete"}
      BY <1>2, <1>4
    <3>4. Holders(x)' = {q \in Pointer : ptr'[q] = x /\ ~ Uncounted(q)'} \cup
                        {u \in Thread : old'[u] = x /\ pc'[u] # "delete"}
      BY DEF Holders
    <3> QED
      BY <1>7, <3>1, <3>2, <3>3, <3>4 DEF Holders
  <2>3. Cardinality(Holders(x) \cup {p}) = Cardinality(Holders(x)) + 1
    BY <2>2, HoldersFinite, FS_AddElement
  <2>4. ASSUME NEW o \in Object
        PROVE  count'[o] = Cardinality(Holders(o)')
    <3>1. CASE o = x
      BY <1>1, <1>2, <2>2, <2>3, <3>1 DEF Counted
    <3>2. CASE o # x
      BY <1>2, <2>1, <3>2 DEF Counted
    <3> QED
      BY <3>1, <3>2
  <2> QED
    BY <2>4 DEF Counted
<1>9. NoUseAfterDelete'
  BY <1>2, <1>4 DEF NoUseAfterDelete
<1>10. Tasks'
  BY <1>1, <1>2, <1>3 DEF Tasks
<1>11. Pending'
  <2>1. ASSUME NEW u \in Thread, pc'[u] = "addRef"
        PROVE  /\ Reaches(u, dst[u])' /\ ptr'[dst'[u]] # NoObject
               /\ Fresh(u)' \/ Sourced(u)'
    <3>1. u # t /\ pc[u] = "addRef" /\ dst'[u] = dst[u]
      BY <1>2, <1>3, <2>1
    <3>2. Reaches(u, dst[u]) /\ ptr[dst[u]] # NoObject /\ (Fresh(u) \/ Sourced(u))
      BY <3>1 DEF Pending
    <3> QED
      BY <1>2, <3>1, <3>2 DEF Reaches, Fresh, Sourced
  <2> QED
    BY <2>1 DEF Pending
<1> QED
  BY <1>8, <1>9, <1>10, <1>11

\* Whoever counts the last reference down is alone with the object.
LEMMA LastIsAlone ==
  ASSUME IInv, NEW t \in Thread, pc[t] = "deleteRef", LastRef(old[t])
  PROVE  /\ \A p \in Pointer : ptr[p] # old[t]
         /\ \A u \in Thread \ {t} : old[u] # old[t]
<1> DEFINE x == old[t]
<1> USE DEF IInv
<1>1. x \in Object /\ x # NoObject
  BY PointerAssumption DEF TypeOK, Tasks
<1>2. t \in Holders(x) /\ t \notin Pointer
  BY PointerAssumption DEF Holders
<1>3. Holders(x) = {t}
  <2>1. Cardinality(Holders(x)) = 1
    BY <1>1 DEF Counted, LastRef
  <2>2. IsFiniteSet(Holders(x))
    BY HoldersFinite
  <2>3. \E y : Holders(x) = {y}
    BY <2>1, <2>2, FS_Singleton
  <2> QED
    BY <1>2, <2>3
<1>4. ASSUME NEW p \in Pointer, ptr[p] = x
      PROVE  FALSE
  <2>1. Uncounted(p)
    BY <1>2, <1>3, <1>4 DEF Holders
  <2>2. PICK u \in Thread : dst[u] = p
    BY <2>1 DEF Uncounted
  <2>3. /\ pc[u] = "addRef" /\ Reaches(u, p)
        /\ Fresh(u) \/ Sourced(u)
    BY <2>2, PointerAssumption DEF TypeOK, Pending
  <2>4. ~ Fresh(u)
    BY <1>4, <2>2 DEF Fresh
  <2>5. PICK q \in Pointer \ {p} : Reaches(u, q) /\ ptr[q] = x
    BY <1>4, <2>2, <2>3, <2>4 DEF Sourced
  <2>6. ~ Uncounted(q)
    BY <2>2, <2>5, ReachedIsCounted
  <2>7. q \in Holders(x)
    BY <2>5, <2>6 DEF Holders
  <2> QED
    BY <1>2, <1>3, <2>7
<1>5. ASSUME NEW u \in Thread \ {t}, old[u] = x
      PROVE  FALSE
  <2>1. CASE pc[u] = "delete"
    BY <1>5, <2>1 DEF NoUseAfterDelete
  <2>2. CASE pc[u] # "delete"
    BY <1>3, <1>5, <2>2 DEF Holders
  <2> QED
    BY <2>1, <2>2
<1> QED
  BY <1>4, <1>5

\* Letting an object go makes the thread one less of those that hold it.
LEMMA DeleteRefKeeps ==
  ASSUME IInv, NEW t \in Thread, deleteRef(t)
  PROVE  /\ Counted' /\ NoUseAfterDelete' /\ Tasks' /\ Pending'
         /\ count' \in [Object -> Nat]
<1> USE DEF IInv
<1>1. PICK x \in Object : x = old[t] /\ x # NoObject /\ pc[t] = "deleteRef"
  BY PointerAssumption DEF deleteRef, TypeOK, Tasks
<1>2. /\ live' = live /\ ptr' = ptr /\ lock' = lock /\ dst' = dst
      /\ \A u \in Thread \ {t} : pc'[u] = pc[u] /\ old'[u] = old[u]
      /\ \A o \in Object : count'[o] = IF o = x THEN count[o] - 1 ELSE count[o]
      /\ count' = [count EXCEPT ![x] = @ - 1]
  BY <1>1 DEF deleteRef, TypeOK
<1>3. \/ LastRef(x) /\ pc'[t] = "delete" /\ old'[t] = x
      \/ ~ LastRef(x) /\ pc'[t] = Done(t) /\ old'[t] = NoObject
  BY <1>1 DEF deleteRef, TypeOK
<1>4. Done(t) \in {"idle", "registry"}
  BY DEF Done
<1>5. t \in Holders(x) /\ t \notin Pointer
  BY <1>1, PointerAssumption DEF Holders
<1>6. \A q : Uncounted(q)' <=> Uncounted(q)
  BY <1>2 DEF Uncounted
<1>7. Holders(x)' = Holders(x) \ {t}
  <2>1. {u \in Thread : old'[u] = x /\ pc'[u] # "delete"} =
        {u \in Thread : old[u] = x /\ pc[u] # "delete"} \ {t}
    BY <1>1, <1>2, <1>3, <1>4
  <2>2. Holders(x)' = {q \in Pointer : ptr'[q] = x /\ ~ Uncounted(q)'} \cup
                      {u \in Thread : old'[u] = x /\ pc'[u] # "delete"}
    BY DEF Holders
  <2> QED
    BY <1>1, <1>2, <1>5, <1>6, <2>1, <2>2 DEF Holders
<1>8. \A o \in Object \ {x} : Holders(o)' = Holders(o)
  BY <1>1, <1>2, <1>3, <1>4, <1>6, PointerAssumption DEF Holders
<1>9. Cardinality(Holders(x) \ {t}) = Cardinality(Holders(x)) - 1
  BY <1>5, HoldersFinite, FS_RemoveElement
<1>10. \A o \in Object : count'[o] = Cardinality(Holders(o)')
  BY <1>2, <1>7, <1>8, <1>9 DEF Counted
<1>11. count' \in [Object -> Nat]
  <2>1. count[x] # 0
    <3>1. Holders(x) # {}
      BY <1>5
    <3> QED
      BY <1>1, <3>1, HoldersFinite, FS_EmptySet DEF Counted
  <2> QED
    BY <1>1, <1>2, <2>1 DEF TypeOK
<1>12. NoUseAfterDelete'
  <2>1. /\ \A p \in Pointer : ptr'[p] \in live' \cup {NoObject}
        /\ \A u \in Thread : old'[u] \in live' \cup {NoObject}
    BY <1>1, <1>2, <1>3 DEF NoUseAfterDelete
  <2>2. ASSUME NEW u \in Thread, pc'[u] = "delete"
        PROVE  /\ \A p \in Pointer : ptr'[p] # old'[u]
               /\ \A v \in Thread \ {u} : old'[v] # old'[u]
    <3>1. CASE u = t
      <4>1. LastRef(old[t]) /\ old'[t] = old[t]
        BY <1>1, <1>3, <1>4, <2>2, <3>1
      <4> QED
        BY <1>1, <1>2, <3>1, <4>1, LastIsAlone
    <3>2. CASE u # t
      <4>1. pc[u] = "delete" /\ old'[u] = old[u] /\ old[u] # NoObject
        BY <1>2, <2>2, <3>2 DEF Tasks
      <4>2. /\ \A p \in Pointer : ptr[p] # old[u]
            /\ \A v \in Thread \ {u} : old[v] # old[u]
        BY <4>1 DEF NoUseAfterDelete
      <4> QED
        BY <1>1, <1>2, <1>3, <4>1, <4>2
    <3> QED
      BY <3>1, <3>2
  <2> QED
    BY <2>1, <2>2 DEF NoUseAfterDelete
<1>13. Tasks'
  BY <1>1, <1>2, <1>3, <1>4 DEF Tasks
<1>14. Pending'
  <2>1. ASSUME NEW u \in Thread, pc'[u] = "addRef"
        PROVE  /\ Reaches(u, dst[u])' /\ ptr'[dst'[u]] # NoObject
               /\ Fresh(u)' \/ Sourced(u)'
    <3>1. u # t /\ pc[u] = "addRef"
      BY <1>2, <1>3, <1>4, <2>1
    <3>2. Reaches(u, dst[u]) /\ ptr[dst[u]] # NoObject /\ (Fresh(u) \/ Sourced(u))
      BY <3>1 DEF Pending
    <3>3. \A q : Reaches(u, q) => Reaches(u, q)'
      BY <1>2 DEF Reaches, LocalsOf
    <3>4. Fresh(u) => Fresh(u)'
      BY <1>1, <1>2, <1>3, <3>2 DEF Fresh
    <3>5. Sourced(u) => Sourced(u)'
      BY <1>2, <3>3 DEF Sourced
    <3> QED
      BY <1>2, <3>2, <3>3, <3>4, <3>5
  <2> QED
    BY <2>1 DEF Pending
<1> QED
  BY <1>10, <1>11, <1>12, <1>13, <1>14 DEF Counted

\* What is deleted nobody has.
LEMMA DeleteKeeps ==
  ASSUME IInv, NEW t \in Thread, Delete(t)
  PROVE  Counted' /\ NoUseAfterDelete' /\ Tasks' /\ Pending'
<1> DEFINE x == old[t]
<1> USE DEF IInv
<1>1. pc[t] = "delete" /\ x # NoObject
  BY DEF Delete, Tasks
<1>2. /\ count' = count /\ ptr' = ptr /\ lock' = lock /\ dst' = dst
      /\ live' = live \ {x}
      /\ \A u \in Thread \ {t} : pc'[u] = pc[u] /\ old'[u] = old[u]
      /\ old'[t] = NoObject /\ pc'[t] = Done(t)
  BY DEF Delete, TypeOK
<1>3. Done(t) \in {"idle", "registry"}
  BY DEF Done
<1>4. /\ \A p \in Pointer : ptr[p] # x
      /\ \A u \in Thread \ {t} : old[u] # x
  BY <1>1 DEF NoUseAfterDelete
<1>5. \A o \in Object : Holders(o)' = Holders(o)
  BY <1>1, <1>2, <1>3, PointerAssumption DEF Holders, Uncounted
<1>6. Counted'
  BY <1>2, <1>5 DEF Counted
<1>7. NoUseAfterDelete'
  <2>1. /\ \A p \in Pointer : ptr'[p] \in live' \cup {NoObject}
        /\ \A u \in Thread : old'[u] \in live' \cup {NoObject}
    BY <1>2, <1>4 DEF NoUseAfterDelete
  <2>2. ASSUME NEW u \in Thread, pc'[u] = "delete"
        PROVE  /\ \A p \in Pointer : ptr'[p] # old'[u]
               /\ \A v \in Thread \ {u} : old'[v] # old'[u]
    <3>1. u # t /\ pc[u] = "delete" /\ old'[u] = old[u] /\ old[u] # NoObject
      BY <1>2, <1>3, <2>2 DEF Tasks
    <3>2. /\ \A p \in Pointer : ptr[p] # old[u]
          /\ \A v \in Thread \ {u} : old[v] # old[u]
      BY <3>1 DEF NoUseAfterDelete
    <3> QED
      BY <1>2, <3>1, <3>2
  <2> QED
    BY <2>1, <2>2 DEF NoUseAfterDelete
<1>8. Tasks'
  BY <1>2, <1>3 DEF Tasks
<1>9. Pending'
  <2>1. ASSUME NEW u \in Thread, pc'[u] = "addRef"
        PROVE  /\ Reaches(u, dst[u])' /\ ptr'[dst'[u]] # NoObject
               /\ Fresh(u)' \/ Sourced(u)'
    <3>1. u # t /\ pc[u] = "addRef"
      BY <1>2, <1>3, <2>1
    <3>2. Reaches(u, dst[u]) /\ ptr[dst[u]] # NoObject /\ (Fresh(u) \/ Sourced(u))
      BY <3>1 DEF Pending
    <3>3. \A q : Reaches(u, q) => Reaches(u, q)'
      BY <1>2 DEF Reaches, LocalsOf
    <3>4. Fresh(u) => Fresh(u)'
      BY <1>2, <3>2 DEF Fresh
    <3>5. Sourced(u) => Sourced(u)'
      BY <1>2, <3>3 DEF Sourced
    <3> QED
      BY <1>2, <3>2, <3>3, <3>4, <3>5
  <2> QED
    BY <2>1 DEF Pending
<1> QED
  BY <1>6, <1>7, <1>8, <1>9

-----------------------------------------------------------------------------
\* Every step is of one of six kinds

\* A step of each kind, with what the types need.
Sharing(t, p, o) ==
  /\ Overwrites(t, p, o) /\ Shares(t, p, o) /\ UNCHANGED call
  /\ p \in Key => NoObject \in {ptr[p], o}
Allocation(t, p, o) == Overwrites(t, p, o) /\ Allocates(o) /\ UNCHANGED call
Kinds(t) ==
  \/ \E p \in Pointer, o \in Object \cup {NoObject} : Sharing(t, p, o)
  \/ \E p \in Local, o \in Object : Allocation(t, p, o)
  \/ \E s \in {"idle", "call", "registry"} : Moves(t, s) /\ TypeOK'
  \/ addRef(t) \/ deleteRef(t) \/ Delete(t)

\* A step that only goes back to where assignments end.
LEMMA DoneMoves ==
  ASSUME IInv, NEW t \in Thread, pc[t] \in {"idle", "call", "registry"},
         pc' = [pc EXCEPT ![t] = Done(t)],
         UNCHANGED <<live, count, ptr, lock, call, dst, old>>
  PROVE  Kinds(t)
<1>1. Done(t) \in {"idle", "registry"}
  BY DEF Done
<1>2. Moves(t, Done(t))
  BY <1>1 DEF Moves
<1>3. TypeOK'
  BY <1>1 DEF IInv, TypeOK, Done, LocalsOf, Calls
<1> QED
  BY <1>1, <1>2, <1>3 DEF Kinds

\* An assignment of NULL or of an object that t reaches.
LEMMA AssignKind ==
  ASSUME IInv, NEW t \in Thread, NEW p \in Pointer, NEW o,
         pc[t] \in {"idle", "call", "registry"}, Reaches(t, p), Assign(t, p, o),
         UNCHANGED <<live, count, lock, call>>,
         o = NoObject \/ \E q \in Pointer : Reaches(t, q) /\ ptr[q] = o,
         p \in Key => NoObject \in {ptr[p], o}
  PROVE  Kinds(t)
<1>1. CASE ptr[p] = o
  BY <1>1, DoneMoves DEF Assign
<1>2. CASE ptr[p] # o
  <2>1. Overwrites(t, p, o)
    BY <1>2 DEF Overwrites
  <2>2. Shares(t, p, o)
    BY <1>2 DEF Shares
  <2>3. o \in Object \cup {NoObject}
    BY DEF IInv, TypeOK
  <2> QED
    BY <2>1, <2>2, <2>3 DEF Kinds, Sharing
<1> QED
  BY <1>1, <1>2

\* A new object for a local; whatever it is a copy of, its count starts at 0.
LEMMA ConstructKind ==
  ASSUME IInv, NEW t \in Thread, NEW p \in LocalsOf(t), NEW from,
         pc[t] \in {"idle", "call", "registry"}, Construct(t, p, from),
         UNCHANGED <<lock, call>>
  PROVE  Kinds(t)
<1>1. PICK o \in Object \ live : /\ live' = live \cup {o}
                                 /\ count' = [count EXCEPT ![o] = 0]
                                 /\ Assign(t, p, o)
  BY DEF Construct, CopiedCount
<1>2. p \in Local /\ p \in Pointer
  BY DEF LocalsOf, Pointer
<1>3. ptr[p] # o
  BY <1>1, <1>2, PointerAssumption DEF IInv, NoUseAfterDelete
<1>4. Allocation(t, p, o)
  BY <1>1, <1>3 DEF Allocation, Overwrites, Reaches, Allocates
<1> QED
  BY <1>2, <1>4 DEF Kinds

\* The keys and locals of a call are those its operation takes.
LEMMA CallTypes ==
  ASSUME TypeOK, NEW t \in Thread
  PROVE  /\ call[t].name \in {"create", "get", "addEntry"} =>
              call[t].key \in Key /\ call[t].local \in LocalsOf(t)
         /\ call[t].name = "removeEntry" => call[t].key \in Key
         /\ pc[t] \in {"call", "registry"} => lock = t
<1>1. call[t] \in Calls /\ call[t].local \in LocalsOf(t) \cup {None}
  BY DEF TypeOK
<1>2. None \notin Local
  BY PointerAssumption DEF Pointer
<1>3. CASE call[t] \in [name : {"create", "get", "addEntry"}, key : Key, local : Local]
  BY <1>1, <1>2, <1>3 DEF TypeOK
<1>4. CASE call[t] \in [name : {"removeEntry"}, key : Key, local : {None}]
  BY <1>4 DEF TypeOK
<1>5. CASE call[t] \in {[NoCall EXCEPT !.name = "clear"], NoCall}
  <2>1. call[t].name \in {"clear", "none"}
    BY <1>5 DEF NoCall, None
  <2> QED
    BY <2>1 DEF TypeOK
<1> QED
  BY <1>1, <1>3, <1>4, <1>5 DEF Calls

\* Waiting for the lock, and leaving the guard.
LEMMA BeginKind ==
  ASSUME IInv, NEW t \in Thread, NEW name, NEW k, NEW p, Begin(t, name, k, p),
         [name |-> name, key |-> k, local |-> p] \in Calls \ {NoCall},
         p \in LocalsOf(t) \cup {None}, TakesLock(name)
  PROVE  Kinds(t)
<1>1. Moves(t, IF name = "clear" THEN "registry" ELSE "call")
  BY DEF Begin, Moves
<1>2. TypeOK'
  BY PointerAssumption DEF IInv, TypeOK, Begin, LocalsOf
<1> QED
  BY <1>1, <1>2 DEF Kinds

LEMMA LeaveKind ==
  ASSUME IInv, NEW t \in Thread, Leave(t)
  PROVE  Kinds(t)
<1>1. lock = t
  BY CallTypes DEF IInv, Leave
<1>2. Moves(t, "idle")
  BY <1>1 DEF Leave, Moves
<1>3. TypeOK'
  BY <1>1, PointerAssumption DEF IInv, TypeOK, Leave, LocalsOf, Calls, NoCall
<1> QED
  BY <1>2, <1>3 DEF Kinds

LEMMA ClientKind ==
  ASSUME IInv, NEW t \in Thread, Client(t)
  PROVE  Kinds(t)
<1>1. \A p \in LocalsOf(t) : p \in Pointer /\ p \notin Key /\ Reaches(t, p)
  BY PointerAssumption DEF LocalsOf, Pointer, Reaches
<1>2. ASSUME NEW p \in LocalsOf(t), New(t, p)
      PROVE  Kinds(t)
  BY <1>2, ConstructKind DEF New
<1>3. ASSUME NEW p \in LocalsOf(t), Drop(t, p)
      PROVE  Kinds(t)
  BY <1>1, <1>3, AssignKind DEF Drop
<1>4. ASSUME NEW p \in LocalsOf(t), NEW q \in LocalsOf(t), Copy(t, p, q)
      PROVE  Kinds(t)
  BY <1>1, <1>4, AssignKind DEF Copy
<1>5. ASSUME NEW p \in LocalsOf(t), NEW k \in Key, NEW name \in {"create", "get", "addEntry"},
             Begin(t, name, k, p)
      PROVE  Kinds(t)
  <2>1. [name |-> name, key |-> k, local |-> p] \in Calls \ {NoCall}
    BY DEF Calls, NoCall, LocalsOf, None
  <2> QED
    BY <1>5, <2>1, BeginKind DEF TakesLock, Operation
<1>6. ASSUME NEW k \in Key, Begin(t, "removeEntry", k, None)
      PROVE  Kinds(t)
  <2>1. [name |-> "removeEntry", key |-> k, local |-> None] \in Calls \ {NoCall}
    BY DEF Calls, NoCall, None
  <2> QED
    BY <1>6, <2>1, BeginKind DEF TakesLock, Operation
<1>7. ASSUME Begin(t, "clear", None, None)
      PROVE  Kinds(t)
  <2>1. [name |-> "clear", key |-> None, local |-> None] \in Calls \ {NoCall}
    BY DEF Calls, NoCall, None
  <2> QED
    BY <1>7, <2>1, BeginKind DEF TakesLock, Operation
<1> QED
  BY <1>2, <1>3, <1>4, <1>5, <1>6, <1>7 DEF Client

LEMMA StepKind ==
  ASSUME IInv, NEW t \in Thread, Step(t)
  PROVE  Kinds(t)
<1>1. \A p \in LocalsOf(t) : p \in Pointer /\ p \notin Key /\ Reaches(t, p)
  BY PointerAssumption DEF LocalsOf, Pointer, Reaches
<1>2. \A k \in Key : k \in Pointer /\ (pc[t] \in {"call", "registry"} => Reaches(t, k))
  BY CallTypes DEF IInv, Pointer, Reaches
<1>3. CASE addRef(t) \/ deleteRef(t) \/ Delete(t)
  BY <1>3 DEF Kinds
<1>4. CASE create(t)
  <2>1. call[t].local \in LocalsOf(t) /\ pc[t] = "call" /\ UNCHANGED <<lock, call>>
    BY <1>4, CallTypes DEF IInv, create, Calling
  <2>2. CASE NoClone(t)
    BY <2>1, <2>2, DoneMoves DEF NoClone
  <2>3. CASE Construct(t, call[t].local, ptr[call[t].key])
    BY <2>1, <2>3, ConstructKind
  <2> QED
    BY <1>4, <2>2, <2>3 DEF create
<1>5. CASE get(t)
  <2>1. /\ call[t].local \in LocalsOf(t) /\ call[t].key \in Key
        /\ pc[t] = "call" /\ UNCHANGED <<live, count, lock, call>>
    BY <1>5, CallTypes DEF IInv, get, Calling
  <2> QED
    BY <1>1, <1>2, <1>5, <2>1, AssignKind DEF get
<1>6. CASE addEntry(t)
  <2>1. /\ call[t].local \in LocalsOf(t) /\ call[t].key \in Key
        /\ pc[t] = "call" /\ UNCHANGED <<live, count, lock, call>>
    BY <1>6, CallTypes DEF IInv, addEntry, Calling
  <2>2. CASE ptr[call[t].key] = NoObject
    BY <1>1, <1>2, <1>6, <2>1, <2>2, AssignKind DEF addEntry
  <2>3. CASE ptr[call[t].key] # NoObject
    BY <1>6, <2>1, <2>3, DoneMoves DEF addEntry
  <2> QED
    BY <2>2, <2>3
<1>7. CASE removeEntry(t)
  <2>1. call[t].key \in Key /\ pc[t] = "call" /\ UNCHANGED <<live, count, lock, call>>
    BY <1>7, CallTypes DEF IInv, removeEntry, Calling
  <2> QED
    BY <1>2, <1>7, <2>1, AssignKind DEF removeEntry
<1>8. CASE clear(t)
  <2>1. PICK k \in Entries : Assign(t, k, NoObject)
    BY <1>8 DEF clear
  <2> QED
    BY <1>2, <1>8, <2>1, AssignKind DEF clear, Entries
<1>9. CASE Leave(t)
  BY <1>9, LeaveKind
<1> QED
  BY <1>3, <1>4, <1>5, <1>6, <1>7, <1>8, <1>9 DEF Step

-----------------------------------------------------------------------------
\* The invariant

LEMMA InitIInv == Init => IInv
<1> SUFFICES ASSUME Init
             PROVE  IInv
  OBVIOUS
<1>1. TypeOK
  BY PointerAssumption DEF Init, TypeOK, Calls, NoCall, LocalsOf
<1>2. \A o \in Object : Holders(o) = {}
  BY PointerAssumption DEF Init, Holders
<1>3. Counted
  BY <1>2, FS_EmptySet DEF Init, Counted
<1>4. NoUseAfterDelete /\ Tasks /\ Pending
  BY DEF Init, NoUseAfterDelete, Tasks, Pending
<1> QED
  BY <1>1, <1>3, <1>4 DEF IInv

\* The types after an assignment began.
LEMMA OverwriteTypes ==
  ASSUME IInv, NEW t \in Thread, NEW p \in Pointer, NEW o \in Object \cup {NoObject},
         Overwrites(t, p, o), UNCHANGED call,
         live' \subseteq Object, count' \in [Object -> Nat]
  PROVE  TypeOK'
<1>1. /\ ptr' = [ptr EXCEPT ![p] = o]
      /\ dst' = [dst EXCEPT ![t] = IF o # NoObject THEN p ELSE None]
      /\ old' = [old EXCEPT ![t] = ptr[p]]
      /\ pc' = [pc EXCEPT ![t] = IF o # NoObject THEN "addRef" ELSE "deleteRef"]
      /\ lock' = lock /\ call' = call
  BY DEF Overwrites, Assign
<1>2. p # None
  BY PointerAssumption
<1> QED
  BY <1>1, <1>2 DEF IInv, TypeOK, LocalsOf, Overwrites

\* The types after a step of counting or deletion.
LEMMA CountingTypes ==
  ASSUME IInv, NEW t \in Thread, addRef(t) \/ deleteRef(t) \/ Delete(t),
         count' \in [Object -> Nat]
  PROVE  TypeOK'
<1>1. Done(t) = IF lock = t THEN "registry" ELSE "idle"
  BY DEF Done
<1>2. CASE addRef(t)
  BY <1>1, <1>2 DEF addRef, IInv, TypeOK, LocalsOf
<1>3. CASE deleteRef(t)
  BY <1>1, <1>3 DEF deleteRef, IInv, TypeOK, LocalsOf
<1>4. CASE Delete(t)
  BY <1>1, <1>4 DEF Delete, IInv, TypeOK, LocalsOf
<1> QED
  BY <1>2, <1>3, <1>4

LEMMA NextIInv == IInv /\ [Next]_vars => IInv'
<1> SUFFICES ASSUME IInv, [Next]_vars
             PROVE  IInv'
  OBVIOUS
<1>1. CASE UNCHANGED vars
  <2>1. TypeOK' /\ NoUseAfterDelete' /\ Tasks'
    BY <1>1 DEF vars, IInv, TypeOK, LocalsOf, NoUseAfterDelete, Tasks
  <2>2. Counted'
    BY <1>1 DEF vars, IInv, Counted, Holders, Uncounted
  <2>3. Pending'
    BY <1>1 DEF vars, IInv, Pending, Reaches, LocalsOf, Fresh, Sourced
  <2> QED
    BY <2>1, <2>2, <2>3 DEF IInv
<1>2. ASSUME NEW t \in Thread, Kinds(t)
      PROVE  IInv'
  <2>1. ASSUME NEW p \in Pointer, NEW o \in Object \cup {NoObject}, Sharing(t, p, o)
        PROVE  IInv'
    <3>1. Counted' /\ NoUseAfterDelete' /\ Tasks' /\ Pending'
      BY <2>1, SharingKeeps DEF Sharing
    <3>2. TypeOK'
      BY <2>1, OverwriteTypes DEF Sharing, Shares, IInv, TypeOK
    <3> QED
      BY <3>1, <3>2 DEF IInv
  <2>2. ASSUME NEW p \in Local, NEW o \in Object, Allocation(t, p, o)
        PROVE  IInv'
    <3>1. p \in Pointer
      BY DEF Pointer
    <3>2. Counted' /\ NoUseAfterDelete' /\ Tasks' /\ Pending'
      BY <2>2, <3>1, AllocationKeeps DEF Allocation
    <3>3. live' \subseteq Object /\ count' \in [Object -> Nat]
      BY <2>2 DEF Allocation, Allocates, IInv, TypeOK
    <3>4. TypeOK'
      BY <2>2, <3>1, <3>3, OverwriteTypes DEF Allocation
    <3> QED
      BY <3>2, <3>4 DEF IInv
  <2>3. ASSUME NEW s \in {"idle", "call", "registry"}, Moves(t, s), TypeOK'
        PROVE  IInv'
    BY <2>3, MoveKeeps DEF IInv
  <2>4. CASE addRef(t)
    <3>1. count' \in [Object -> Nat]
      <4>1. ptr[dst[t]] \in Object
        BY <2>4, PointerAssumption DEF addRef, IInv, TypeOK, Pending
      <4> QED
        BY <2>4, <4>1 DEF addRef, IInv, TypeOK
    <3> QED
      BY <2>4, <3>1, AddRefKeeps, CountingTypes DEF IInv
  <2>5. CASE deleteRef(t)
    BY <2>5, DeleteRefKeeps, CountingTypes DEF IInv
  <2>6. CASE Delete(t)
    <3>1. count' \in [Object -> Nat]
      BY <2>6 DEF Delete, IInv, TypeOK
    <3> QED
      BY <2>6, <3>1, DeleteKeeps, CountingTypes DEF IInv
  <2> QED
    BY <1>2, <2>1, <2>2, <2>3, <2>4, <2>5, <2>6 DEF Kinds
<1> QED
  BY <1>1, <1>2, ClientKind, StepKind DEF Next

\* The invariant that counts, pointers, assignments in flight and deletions about to
\* happen keep together (EkRefCount.h 178-218, EkSmartPtr.h 326-361, EkFactoryT.h).
THEOREM Invariance == Spec => []IInv
BY InitIInv, NextIInv, PTL DEF Spec

\* The types, and that the lock of the registry is held exactly by the thread whose
\* guard is alive (EkGuard.h 71-98).
THEOREM TypeCorrect == Spec => []TypeOK
<1>1. IInv => TypeOK
  BY DEF IInv
<1> QED
  BY <1>1, Invariance, PTL

\* mUseCount is the number of those that hold the object, at every step of every
\* interleaving (EkRefCount.h 178-218).
THEOREM CountsExact == Spec => []Counted
<1>1. IInv => Counted
  BY DEF IInv
<1> QED
  BY <1>1, Invariance, PTL

\* No smart pointer, and no assignment on its way, has an object that was deleted, and
\* no object is deleted by two threads (EkSmartPtr.h 255-361).
THEOREM Safe == Spec => []NoUseAfterDelete
<1>1. IInv => NoUseAfterDelete
  BY DEF IInv
<1> QED
  BY <1>1, Invariance, PTL

\* An entry of the registry is not replaced by a second addEntry (EkFactoryT.h 355-365).
THEOREM FirstEntryWins == Spec => EntriesStay
<1> DEFINE Stays == \A k \in Key : ptr[k] = ptr'[k] \/ NoObject \in {ptr[k], ptr'[k]}
<1>1. ASSUME IInv, [Next]_vars
      PROVE  [Stays]_vars
  <2>1. CASE UNCHANGED vars
    BY <2>1
  <2>2. ASSUME NEW t \in Thread, Kinds(t)
        PROVE  Stays
    <3>1. ASSUME NEW p \in Pointer, NEW o \in Object \cup {NoObject}, Sharing(t, p, o)
          PROVE  Stays
      <4>1. \A q \in Pointer : ptr'[q] = IF q = p THEN o ELSE ptr[q]
        BY <1>1, <3>1, OverwriteEffect DEF Sharing
      <4>2. p \in Key => NoObject \in {ptr[p], o}
        BY <3>1 DEF Sharing
      <4> QED
        BY <4>1, <4>2 DEF Pointer
    <3>2. ASSUME NEW p \in Local, NEW o \in Object, Allocation(t, p, o)
          PROVE  Stays
      <4>1. p \in Pointer /\ p \notin Key
        BY PointerAssumption DEF Pointer
      <4>2. \A q \in Pointer : ptr'[q] = IF q = p THEN o ELSE ptr[q]
        BY <1>1, <3>2, <4>1, OverwriteEffect DEF Allocation
      <4> QED
        BY <4>1, <4>2 DEF Pointer
    <3>3. CASE UNCHANGED ptr
      BY <3>3
    <3> QED
      BY <2>2, <3>1, <3>2, <3>3 DEF Kinds, Moves, addRef, deleteRef, Delete
  <2> QED
    BY <1>1, <2>1, <2>2, ClientKind, StepKind DEF Next
<1> QED
  BY <1>1, Invariance, PTL DEF Spec, EntriesStay

\* Counting implements ObjectLifetimes: every step of the counted pointers makes,
\* copies or clears a pointer, or deletes what nothing points at, or changes nothing
\* that a client could see.
THEOREM ImplementsSafely == Spec => Lifetimes!SafeSpec
<1>1. Init => Lifetimes!Init
  BY DEF Init, Lifetimes!Init
<1>2. ASSUME IInv, [Next]_vars
      PROVE  [Lifetimes!Next]_(Lifetimes!vars)
  <2> USE DEF Lifetimes!vars
  <2>1. CASE UNCHANGED vars
    BY <2>1 DEF vars
  <2>2. ASSUME NEW t \in Thread, Kinds(t)
        PROVE  [Lifetimes!Next]_(Lifetimes!vars)
    <3>1. ASSUME NEW p \in Pointer, NEW o \in Object \cup {NoObject}, Sharing(t, p, o)
          PROVE  Lifetimes!Next
      <4>1. ptr' = [ptr EXCEPT ![p] = o] /\ UNCHANGED live
        BY <3>1 DEF Sharing, Overwrites, Assign, Shares
      <4>2. CASE o = NoObject
        BY <4>1, <4>2 DEF Lifetimes!Next, Lifetimes!Clear
      <4>3. CASE o # NoObject
        <5>1. PICK q \in Pointer : ptr[q] = o
          BY <3>1, <4>3 DEF Sharing, Shares
        <5>2. Lifetimes!Point(p, q)
          BY <4>1, <4>3, <5>1 DEF Lifetimes!Point
        <5> QED
          BY <5>2 DEF Lifetimes!Next
      <4> QED
        BY <4>2, <4>3
    <3>2. ASSUME NEW p \in Local, NEW o \in Object, Allocation(t, p, o)
          PROVE  Lifetimes!Next
      <4>1. Lifetimes!Make(p, o)
        BY <3>2 DEF Allocation, Allocates, Overwrites, Assign, Lifetimes!Make
      <4> QED
        BY <4>1 DEF Lifetimes!Next, Pointer
    <3>3. CASE Delete(t)
      <4>1. /\ old[t] # NoObject /\ old[t] \in live \cup {NoObject}
            /\ \A p \in Pointer : ptr[p] # old[t]
        BY <1>2, <3>3 DEF IInv, Tasks, NoUseAfterDelete, Delete
      <4>2. old[t] \in live /\ old[t] \in Object
        BY <1>2, <4>1 DEF IInv, TypeOK
      <4>3. Lifetimes!Delete(old[t])
        BY <3>3, <4>1, <4>2 DEF Delete, Lifetimes!Delete
      <4> QED
        BY <4>2, <4>3 DEF Lifetimes!Next
    <3>4. CASE UNCHANGED <<live, ptr>>
      BY <3>4
    <3> QED
      BY <2>2, <3>1, <3>2, <3>3, <3>4 DEF Kinds, Moves, addRef, deleteRef
  <2> QED
    BY <1>2, <2>1, <2>2, ClientKind, StepKind DEF Next
<1> QED
  BY <1>1, <1>2, Invariance, PTL DEF Spec, Lifetimes!SafeSpec

=============================================================================
