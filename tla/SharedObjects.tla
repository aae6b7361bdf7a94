--------------------------- MODULE SharedObjects ---------------------------
(***************************************************************************)
(* Reference-counted objects (EkRefCount), the smart pointers that share   *)
(* them (EkSmartPtr) and a registry of prototypes (EkFactoryT), used by    *)
(* several threads.                                                        *)
(*                                                                         *)
(* A smart pointer is a local of one thread or an entry of the registry,   *)
(* which all threads reach under mRegistryLock.  To assign to one, or to   *)
(* destroy it, takes steps that other threads can come between: the        *)
(* pointer is overwritten, the new object counted up, the old one counted  *)
(* down and deleted if its count is zero.  Counting itself is atomic, by   *)
(* the object's own mutex or by a locked instruction.                      *)
(*                                                                         *)
(* Objects are addresses: what is deleted may be allocated again.          *)
(***************************************************************************)
EXTENDS Naturals, FiniteSets

CONSTANTS
  Thread, NoThread,
  Object, NoObject,   \* the addresses: a bound on the objects alive at one time
  Local,              \* the smart pointers of the threads
  Owner,              \* Owner[p]: the thread of local p
  Key                 \* the keys of the registry, each standing for its entry too

Pointer == Local \cup Key
None == "none"

ASSUME PointerAssumption ==
  /\ IsFiniteSet(Thread) /\ IsFiniteSet(Pointer)
  /\ Local # {} /\ Key # {}
  /\ Local \cap Key = {} /\ Thread \cap Pointer = {} /\ None \notin Pointer
  /\ Owner \in [Local -> Thread]
  /\ NoThread \notin Thread /\ NoObject \notin Object

VARIABLES
  live,     \* the objects that were constructed and not deleted
  count,    \* count[o]: mUseCount
  ptr,      \* ptr[p]: mPtr
  lock,     \* the owner of mRegistryLock
  pc,       \* where the thread is
  call,     \* the call of the registry it is in, with its key and its pointer
  dst,      \* the pointer that was overwritten, until the new object is counted
  old       \* oldPtr, from when it is overwritten until it is let go

vars == <<live, count, ptr, lock, pc, call, dst, old>>

NoCall == [name |-> None, key |-> None, local |-> None]

LocalsOf(t) == {p \in Local : Owner[p] = t}
Entries == {k \in Key : ptr[k] # NoObject}

-----------------------------------------------------------------------------
\* EkRefCount and EkSmartPtr

\* What a thread does after an assignment: the call of the registry goes on.
Done(t) == IF lock = t THEN "registry" ELSE "idle"

\* p = o, which does nothing if p points at o already.
Assign(t, p, o) ==
  IF ptr[p] = o
  THEN pc' = [pc EXCEPT ![t] = Done(t)] /\ UNCHANGED <<ptr, dst, old>>
  ELSE /\ ptr' = [ptr EXCEPT ![p] = o]
       /\ dst' = [dst EXCEPT ![t] = IF o # NoObject THEN p ELSE None]
       /\ old' = [old EXCEPT ![t] = ptr[p]]
       /\ pc' = [pc EXCEPT ![t] = IF o # NoObject THEN "addRef" ELSE "deleteRef"]

addRef(t) ==
  /\ pc[t] = "addRef"
  /\ count' = [count EXCEPT ![ptr[dst[t]]] = @ + 1]
  /\ dst' = [dst EXCEPT ![t] = None]
  /\ pc' = [pc EXCEPT ![t] = IF old[t] # NoObject THEN "deleteRef" ELSE Done(t)]
  /\ UNCHANGED <<live, ptr, lock, call, old>>

\* Mutant of LastRef: the count is tested before it is decremented.
LastRefEarly(o) == count[o] <= 2

LastRef(o) == count[o] = 1

\* Counts down and tells, in one step, whether that was the last reference.
deleteRef(t) ==
  /\ pc[t] = "deleteRef"
  /\ count' = [count EXCEPT ![old[t]] = @ - 1]
  /\ IF LastRef(old[t])
     THEN pc' = [pc EXCEPT ![t] = "delete"] /\ UNCHANGED old
     ELSE /\ pc' = [pc EXCEPT ![t] = Done(t)]
          /\ old' = [old EXCEPT ![t] = NoObject]
  /\ UNCHANGED <<live, ptr, lock, call, dst>>

Delete(t) ==
  /\ pc[t] = "delete"
  /\ live' = live \ {old[t]}
  /\ old' = [old EXCEPT ![t] = NoObject]
  /\ pc' = [pc EXCEPT ![t] = Done(t)]
  /\ UNCHANGED <<count, ptr, lock, call, dst>>

\* Mutant of CopiedCount: the copy constructor copies mUseCount too.
CopiedCountToo(from) == IF from = NoObject THEN 0 ELSE count[from]

\* The copy constructor does not copy the count.
CopiedCount(from) == 0

\* p = new object, or p = the clone of an object.
Construct(t, p, from) ==
  \E o \in Object \ live :
    /\ live' = live \cup {o}
    /\ count' = [count EXCEPT ![o] = CopiedCount(from)]
    /\ Assign(t, p, o)

New(t, p) ==
  /\ pc[t] = "idle"
  /\ Construct(t, p, NoObject)
  /\ UNCHANGED <<lock, call>>

Copy(t, p, q) ==
  /\ pc[t] = "idle"
  /\ ptr[q] # NoObject
  /\ Assign(t, p, ptr[q])
  /\ UNCHANGED <<live, count, lock, call>>

\* A destructor, or the assignment of NULL.
Drop(t, p) ==
  /\ pc[t] = "idle"
  /\ ptr[p] # NoObject
  /\ Assign(t, p, NoObject)
  /\ UNCHANGED <<live, count, lock, call>>

-----------------------------------------------------------------------------
\* EkFactoryT

Operation == {"create", "get", "addEntry", "removeEntry", "clear"}

\* Mutant of TakesLock: get reads the registry without the guard.
TakesLockButGet(name) == name # "get"

\* Every call holds mRegistryLock from its first statement on.
TakesLock(name) == name \in Operation

Begin(t, name, k, p) ==
  /\ pc[t] = "idle"
  /\ TakesLock(name) => lock = NoThread
  /\ lock' = IF TakesLock(name) THEN t ELSE lock
  /\ call' = [call EXCEPT ![t] = [name |-> name, key |-> k, local |-> p]]
  /\ pc' = [pc EXCEPT ![t] = IF name = "clear" THEN "registry" ELSE "call"]
  /\ UNCHANGED <<live, count, ptr, dst, old>>

Calling(t, name) == pc[t] = "call" /\ call[t].name = name /\ UNCHANGED <<lock, call>>

NoClone(t) ==
  /\ ptr[call[t].key] = NoObject \/ Object = live
  /\ pc' = [pc EXCEPT ![t] = Done(t)]
  /\ UNCHANGED <<live, count, ptr, dst, old>>

\* A clone of the prototype, in a pointer that was NULL; or NULL, or an exception
\* for want of memory.
create(t) ==
  /\ Calling(t, "create")
  /\ \/ NoClone(t)
     \/ /\ ptr[call[t].key] # NoObject
        /\ Construct(t, call[t].local, ptr[call[t].key])

\* The prototype itself.
get(t) ==
  /\ Calling(t, "get")
  /\ Assign(t, call[t].local, ptr[call[t].key])
  /\ UNCHANGED <<live, count>>

\* insert: an entry that is there stays.
addEntry(t) ==
  /\ Calling(t, "addEntry")
  /\ IF ptr[call[t].key] = NoObject
     THEN Assign(t, call[t].key, ptr[call[t].local])
     ELSE pc' = [pc EXCEPT ![t] = Done(t)] /\ UNCHANGED <<ptr, dst, old>>
  /\ UNCHANGED <<live, count>>

removeEntry(t) ==
  /\ Calling(t, "removeEntry")
  /\ Assign(t, call[t].key, NoObject)
  /\ UNCHANGED <<live, count>>

\* The map destroys its entries one after the other.
clear(t) ==
  /\ pc[t] = "registry"
  /\ call[t].name = "clear"
  /\ \E k \in Entries : Assign(t, k, NoObject)
  /\ UNCHANGED <<live, count, lock, call>>

Leave(t) ==
  /\ pc[t] = "registry"
  /\ call[t].name = "clear" => Entries = {}
  /\ pc' = [pc EXCEPT ![t] = "idle"]
  /\ lock' = NoThread
  /\ call' = [call EXCEPT ![t] = NoCall]
  /\ UNCHANGED <<live, count, ptr, dst, old>>

-----------------------------------------------------------------------------
Init ==
  /\ live = {}
  /\ count = [o \in Object |-> 0]
  /\ ptr = [p \in Pointer |-> NoObject]
  /\ lock = NoThread
  /\ pc = [t \in Thread |-> "idle"]
  /\ call = [t \in Thread |-> NoCall]
  /\ dst = [t \in Thread |-> None]
  /\ old = [t \in Thread |-> NoObject]

\* What an idle thread may do with its own pointers and with the registry.
Client(t) ==
  \/ \E p \in LocalsOf(t) :
       \/ New(t, p) \/ Drop(t, p)
       \/ \E q \in LocalsOf(t) : Copy(t, p, q)
       \/ \E k \in Key :
            \/ ptr[p] = NoObject /\ (Begin(t, "create", k, p) \/ Begin(t, "get", k, p))
            \/ ptr[p] # NoObject /\ Begin(t, "addEntry", k, p)
  \/ \E k \in Key : Begin(t, "removeEntry", k, None)
  \/ Begin(t, "clear", None, None)

\* The rest of what it began.
Step(t) ==
  \/ addRef(t) \/ deleteRef(t) \/ Delete(t)
  \/ create(t) \/ get(t) \/ addEntry(t) \/ removeEntry(t) \/ clear(t) \/ Leave(t)

Next == \E t \in Thread : Client(t) \/ Step(t)

Spec == Init /\ [][Next]_vars
FairSpec == Spec /\ \A t \in Thread : WF_vars(Step(t))

-----------------------------------------------------------------------------
\* Properties

Calls ==
  [name : {"create", "get", "addEntry"}, key : Key, local : Local] \cup
  [name : {"removeEntry"}, key : Key, local : {None}] \cup
  {[NoCall EXCEPT !.name = "clear"], NoCall}

\* The types, and mRegistryLock is held by exactly the thread inside a call.
TypeOK ==
  /\ live \subseteq Object /\ count \in [Object -> Nat]
  /\ ptr \in [Pointer -> Object \cup {NoObject}]
  /\ lock \in Thread \cup {NoThread}
  /\ pc \in [Thread -> {"idle", "addRef", "deleteRef", "delete", "call", "registry"}]
  /\ call \in [Thread -> Calls]
  /\ dst \in [Thread -> Pointer \cup {None}]
  /\ old \in [Thread -> Object \cup {NoObject}]
  /\ \A t \in Thread : /\ dst[t] # None <=> pc[t] = "addRef"
                       /\ call[t].local \in LocalsOf(t) \cup {None}
                       /\ lock = t <=> call[t] # NoCall
                       /\ pc[t] \in {"call", "registry"} => lock = t
                       /\ pc[t] = "idle" => lock # t

\* Those that o counts: the pointers to it, but for one that is still to count, and
\* the threads that overwrote a pointer to it and are still to count it down.
Uncounted(p) == \E t \in Thread : dst[t] = p
Holders(o) ==
  {p \in Pointer : ptr[p] = o /\ ~ Uncounted(p)} \cup
  {t \in Thread : old[t] = o /\ pc[t] # "delete"}

\* The count of a live object is the number of those that hold it, whatever the
\* threads are in the middle of; that of an address without object is 0.
Counted == \A o \in Object : count[o] = Cardinality(Holders(o))

\* Nothing is used after its deletion: a pointer, and an object to be let go, is
\* live; and what one thread is about to delete no pointer and no other thread has.
NoUseAfterDelete ==
  /\ \A p \in Pointer : ptr[p] \in live \cup {NoObject}
  /\ \A t \in Thread : old[t] \in live \cup {NoObject}
  /\ \A t \in Thread : pc[t] = "delete" =>
       /\ \A p \in Pointer : ptr[p] # old[t]
       /\ \A u \in Thread \ {t} : old[u] # old[t]

\* Counting implements what it is for: an object is deleted when, and only when,
\* nothing points at it any more; nothing leaks.
Lifetimes == INSTANCE ObjectLifetimes WITH points <- ptr
Implements == Lifetimes!Spec

\* Of two threads that add a prototype under one key the first wins: an entry is
\* not replaced (insert in addEntry, EkFactoryT.h 355-365).
EntriesStay ==
  [][\A k \in Key : ptr[k] = ptr'[k] \/ NoObject \in {ptr[k], ptr'[k]}]_vars
=============================================================================
