---------------------------- MODULE MCMatrixSync ----------------------------
(* Small instances of MatrixSync and BotPresence, side by side: a behaviour  *)
(* is of one part and leaves the other as it is.                            *)
(* MatrixSync: two bots, one of which may not exist yet, two bridges, which  *)
(* are alike, and one administrator.  Whom a message of a group is from     *)
(* changes nothing, so they are all of one person.                          *)
EXTENDS MatrixSync, BotPresence, TLC

VARIABLE part

Bridges == Permutations(Clients)

MCInit ==
    /\ Init /\ PresenceInit
    /\ part \in {"sync", "presence"}
    /\ part = "sync" => \A u \in Callers : isBot[u]

MCNext ==
    /\ UNCHANGED part
    /\ \/ /\ part = "sync" /\ Next /\ UNCHANGED presenceVars
          /\ \A m \in Mids : mids'[m].group => mids'[m].from = Person
       \/ part = "presence" /\ PresenceNext /\ UNCHANGED vars

MCSpec == MCInit /\ [][MCNext]_<<vars, presenceVars, part>>
=============================================================================
