---------------------------- MODULE MessageStore ----------------------------
(***************************************************************************)
(* What the message database promises its callers, whatever leases, logs   *)
(* and flushes it is made of.  A message gets a mid that is larger than    *)
(* every other and enters the store at once, a group is cleared at once,   *)
(* and a crash takes the store back to what it was at some moment since it *)
(* was last on the disk.                                                   *)
(***************************************************************************)
EXTENDS Integers

CONSTANTS Users, Groups,
          Chats     \* where a message can be sent

VARIABLES messages,  \* in the store
          survivors, \* the stores that a crash may leave
          drawn      \* mids given out whose message is not in the store yet

storeVars == <<messages, survivors, drawn>>

Message == [mid : Nat, target : Chats, to : SUBSET Users]

\* The mid that is new is larger than all the others.
Draw ==
    \E mid \in drawn' :
        /\ mid \in Nat
        /\ \A n \in drawn \cup {m.mid : m \in messages} : mid > n
        /\ drawn' = drawn \cup {mid}
        /\ UNCHANGED <<messages, survivors>>

Put ==
    \E m \in messages' :
        /\ m \in Message /\ m.mid \in drawn
        /\ drawn' = drawn \ {m.mid}
        /\ messages' = messages \cup {m}
        /\ survivors' = survivors \cup {messages'}

\* The message of a mid does not come any more.
GiveUp ==
    \E mid \in drawn :
        /\ drawn' = drawn \ {mid}
        /\ UNCHANGED <<messages, survivors>>

Clear(gid) ==
    /\ messages' = {m \in messages : m.target # gid}
    /\ survivors' = survivors \cup {messages'}
    /\ UNCHANGED drawn

ReachDisk ==
    /\ survivors' = {messages}
    /\ UNCHANGED <<messages, drawn>>

Crash(left) ==
    /\ messages' = left /\ survivors' = {left}
    /\ drawn' = {}

StoreInit == messages = {} /\ survivors = {{}} /\ drawn = {}

StoreNext ==
    \/ Draw \/ Put \/ GiveUp
    \/ \E gid \in Groups : Clear(gid)
    \/ \E left \in survivors : Crash(left)
    \/ ReachDisk

StoreSpec == StoreInit /\ [][StoreNext]_storeVars
=============================================================================
