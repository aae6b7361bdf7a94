-------------------------- MODULE MCSharedObjects --------------------------
(***************************************************************************)
(* Two threads with two pointers each, and a registry.                     *)
(***************************************************************************)
EXTENDS SharedObjects, TLC

CONSTANTS t1, t2, p1, p2, q1, q2

MCThread == {t1, t2}
MCLocal == {p1, p2, q1, q2}
MCOwner == p1 :> t1 @@ p2 :> t1 @@ q1 :> t2 @@ q2 :> t2
=============================================================================
