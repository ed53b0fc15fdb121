------------------------------ MODULE MCGroups ------------------------------
(***************************************************************************)
(* Small instances of Groups, Users, Tokens, SystemConfig, MatrixKeys,     *)
(* MatrixLogin and MatrixRooms, side by side: a behaviour is of one part   *)
(* and leaves the others as they are.  The groups have an administrator    *)
(* and another user, whose app listens; in a part of their own, with       *)
(* fewer requests, an administrator and a guest, whose apps both listen.   *)
(* A second trouble of the groups, or of the users, is a restart.          *)
(***************************************************************************)
EXTENDS Groups, Users, Tokens, SystemConfig, MatrixKeys, MatrixLogin, MatrixRooms

CONSTANTS ann, bob, gil,
          MaxGuestRequests  \* a bound: MaxRequests, of the groups with a guest

VARIABLE part

MCGroupOf == [m \in Mids |-> 1]

MCInit ==
    /\ Init /\ UsersInit /\ TokensInit /\ ConfigInit /\ KeysInit /\ LoginInit /\ RoomsInit
    /\ part \in {"groups", "guests", "users", "tokens", "config", "keys", "logins", "rooms"}
    /\ part = "keys" \/ owner = "server"
    /\ table.users = IF part = "guests" THEN {ann, gil} ELSE {ann, bob}
    /\ part \in {"groups", "guests"} \/ born = 0

MCNext ==
    /\ UNCHANGED part
    /\ \/ /\ part \in {"groups", "guests"} /\ Next
          /\ IF part = "groups" THEN ~mirror'[ann].on ELSE used'.requests <= MaxGuestRequests
          /\ used'.troubles > used.troubles /\ used.troubles > 0 => Restart
          /\ UNCHANGED <<usersVars, tokenVars, configVars, keysVars, loginVars, roomVars>>
       \/ /\ part = "users" /\ UsersNext
          /\ userUsed'.troubles > userUsed.troubles /\ userUsed.troubles > 0 => RestartUsers
          /\ UNCHANGED <<vars, tokenVars, configVars, keysVars, loginVars, roomVars>>
       \/ part = "tokens" /\ TokensNext /\ UNCHANGED <<vars, usersVars, configVars, keysVars, loginVars, roomVars>>
       \/ part = "config" /\ ConfigNext /\ UNCHANGED <<vars, usersVars, tokenVars, keysVars, loginVars, roomVars>>
       \/ part = "keys" /\ KeysNext /\ UNCHANGED <<vars, usersVars, tokenVars, configVars, loginVars, roomVars>>
       \/ part = "logins" /\ LoginNext /\ UNCHANGED <<vars, usersVars, tokenVars, configVars, keysVars, roomVars>>
       \/ part = "rooms" /\ RoomsNext /\ UNCHANGED <<vars, usersVars, tokenVars, configVars, keysVars, loginVars>>

MCSpec == MCInit /\ [][MCNext]_<<vars, usersVars, tokenVars, configVars, keysVars, loginVars, roomVars, part>>

\* The variables of the part at work are well typed.
AllTypesOK ==
    /\ part \in {"groups", "guests"} => TypeOK
    /\ part = "users" => UsersTypeOK
    /\ part = "tokens" => TokensTypeOK
    /\ part = "config" => ConfigTypeOK
    /\ part = "keys" => KeysTypeOK
    /\ part = "logins" => LoginTypeOK
    /\ part = "rooms" => RoomsTypeOK
=============================================================================
