----------------------------- MODULE MCDelivery -----------------------------
(***************************************************************************)
(* Instances of Delivery for TLC.  The requests that send are              *)
(* interchangeable.                                                        *)
(***************************************************************************)
EXTENDS Delivery, TLC

CONSTANTS u1, u2, g1

Requests == Permutations(Senders)

Post(from, target, kind) == [from |-> from, target |-> target, kind |-> kind]

ToGroup == {Post(u1, g1, "normal")}

ToBoth == {Post(u1, g1, "normal"), Post(u2, u1, "like")}
=============================================================================
