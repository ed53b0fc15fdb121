----------------------------- MODULE MCSettings -----------------------------
(* A small instance of Settings: one user with devices, one other user who  *)
(* owns the only group.  A second trouble is a restart, which shows what    *)
(* the first left in the table.                                             *)
EXTENDS Settings, TLC

CONSTANTS u1, o1, g1

MCOwner == (g1 :> o1)
MCUserOf == [d \in Devices |-> u1]

MCNext == Next /\ (used'.troubles > used.troubles /\ used.troubles > 0 => Restart)

MCSpec == Init /\ [][MCNext]_vars
=============================================================================
