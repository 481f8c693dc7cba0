---------------------------- MODULE MCSessions ----------------------------
(***************************************************************************)
(* Instances of Sessions for TLC.                                          *)
(***************************************************************************)
EXTENDS Sessions, TLC

CONSTANTS u1, u2, i1, i2, i3, p1, p2

MCFirstId == u1 :> i1 @@ u2 :> i2
MCFirstPassword == [u \in Users |-> p1]
=============================================================================
