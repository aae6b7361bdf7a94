-------------------------- MODULE ObjectLifetimes --------------------------
(***************************************************************************)
(* What reference counting promises (EkRefCount.h): an object lives for as *)
(* long as something points at it.  Nothing is counted here: `live' are    *)
(* the objects that exist and `points' says where each pointer points.     *)
(***************************************************************************)
CONSTANTS Object, Pointer, NoObject

VARIABLES live, points
vars == <<live, points>>

Init ==
  /\ live = {}
  /\ points = [p \in Pointer |-> NoObject]

\* A new object, at an address that is free, and the pointer that gets it.
Make(p, o) ==
  /\ o \in Object \ live
  /\ live' = live \cup {o}
  /\ points' = [points EXCEPT ![p] = o]

\* An object is reached through another pointer only.
Point(p, q) ==
  /\ points[q] # NoObject
  /\ points' = [points EXCEPT ![p] = points[q]]
  /\ UNCHANGED live

Clear(p) ==
  /\ points' = [points EXCEPT ![p] = NoObject]
  /\ UNCHANGED live

\* "If the use count variable ever goes to zero the object should be deleted".
Delete(o) ==
  /\ o \in live
  /\ \A p \in Pointer : points[p] # o
  /\ live' = live \ {o}
  /\ UNCHANGED points

Next ==
  \/ \E p \in Pointer : \/ \E o \in Object : Make(p, o)
                        \/ \E q \in Pointer : Point(p, q)
                        \/ Clear(p)
  \/ \E o \in Object : Delete(o)

SafeSpec == Init /\ [][Next]_vars

\* What nothing points at does not stay.
Spec == SafeSpec /\ \A o \in Object : WF_vars(Delete(o))
=============================================================================
