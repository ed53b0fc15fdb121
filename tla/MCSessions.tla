----------------------------- MODULE MCSessions -----------------------------
(***************************************************************************)
(* Instances of Sessions for TLC: a user with two devices.                 *)
(***************************************************************************)
EXTENDS Sessions, TLC

CONSTANTS ann, ios, web

OneUser == [d \in Devices |-> ann]

AnyDevice == Permutations(Devices)
=============================================================================
