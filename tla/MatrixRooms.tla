---------------------------- MODULE MatrixRooms -----------------------------
(***************************************************************************)
(* Encrypted messages of a Matrix bridge to a room.  The bridge encrypts   *)
(* them with a Megolm session and sends the key of that session, from the  *)
(* message on that it stands at, to the server's device.  The server keeps *)
(* the keys in matrix_megolm_inbound_session, deletes those that were not  *)
(* used for 90 days, and reads a message with the key it finds: a message  *)
(* whose key it does not have is answered 200 all the same and is gone.    *)
(***************************************************************************)
EXTENDS Integers

CONSTANTS Megolms,    \* Megolm sessions of the bridge
          Letters,    \* messages of the bridge
          \* bounds of the model
          MaxTicks, MaxRoomTroubles

\* 90 days in ticks: what was last used that many ticks ago is deleted.
Retention == 2

VARIABLES inbound,    \* the row of each session: the first message it can read; None for no row
          unused,     \* ticks since its last_used_at
          ratchet,    \* messages the bridge has encrypted with each session
          keyOnWay,   \* the first message of the key that is on its way; None for none
          letter,     \* where each message is
          copies,     \* how often it was given to send_message
          \* history, read by the properties only
          keyed,      \* sessions whose key was answered 200
          idleFor,    \* ticks since the bridge last knew that the server used the key
          excused,    \* messages sent before the key of their session was answered, or
                      \* looked at while the key was unread or lapsed
          unread,     \* sessions with a key that the server could not read or store
          lapsed,     \* sessions that were idle for 90 days
          resent,     \* messages sent more than once
          ticks, roomTroubles

roomVars == <<inbound, unused, ratchet, keyOnWay, letter, copies, keyed, idleFor, excused, unread,
              lapsed, resent, ticks, roomTroubles>>

None == -1

Unwritten == [pc |-> "unwritten", session |-> None, index |-> 0, key |-> None]

RoomsTypeOK ==
    /\ inbound \in [Megolms -> {None} \cup Nat] /\ keyOnWay \in [Megolms -> {None} \cup Nat]
    /\ unused \in [Megolms -> 0..Retention] /\ idleFor \in [Megolms -> 0..Retention]
    /\ ratchet \in [Megolms -> Nat]
    /\ letter \in [Letters -> [pc : {"unwritten", "sent", "found", "read", "answered", "lost", "refused"},
                               session : Megolms \cup {None}, index : Nat, key : {None} \cup Nat]]
    /\ copies \in [Letters -> Nat]
    /\ keyed \cup unread \cup lapsed \subseteq Megolms
    /\ excused \cup resent \subseteq Letters

RoomTrouble == roomTroubles < MaxRoomTroubles /\ roomTroubles' = roomTroubles + 1

----------------------------------------------------------------------------
\* The key of a session: send_to_device.

\* The bridge shares the key, once more for a device that is new.
ShareKey(s) ==
    /\ keyOnWay[s] = None
    /\ keyOnWay' = [keyOnWay EXCEPT ![s] = ratchet[s]]
    /\ UNCHANGED <<inbound, unused, ratchet, letter, copies, keyed, idleFor, excused, unread, lapsed, resent, ticks, roomTroubles>>

\* handle_room_key_event: a key that is there is written over.
StoreKey(s) ==
    /\ keyOnWay[s] # None
    /\ inbound' = [inbound EXCEPT ![s] = keyOnWay[s]]
    /\ unused' = [unused EXCEPT ![s] = 0]
    /\ keyOnWay' = [keyOnWay EXCEPT ![s] = None]
    /\ keyed' = keyed \cup {s} /\ idleFor' = [idleFor EXCEPT ![s] = 0]
    /\ unread' = unread \ {s} /\ lapsed' = lapsed \ {s}
    /\ UNCHANGED <<ratchet, letter, copies, excused, resent, ticks, roomTroubles>>

\* The Olm message cannot be read, or a statement fails: a warning, and 200.
LoseKey(s) ==
    /\ keyOnWay[s] # None /\ RoomTrouble
    /\ keyOnWay' = [keyOnWay EXCEPT ![s] = None]
    /\ keyed' = keyed \cup {s} /\ idleFor' = [idleFor EXCEPT ![s] = 0]
    /\ unread' = unread \cup {s}
    /\ UNCHANGED <<inbound, unused, ratchet, letter, copies, excused, lapsed, resent, ticks>>

----------------------------------------------------------------------------
\* A message: handle_megolm_encrypted_message.

\* The bridge encrypts a message, whether or not its key was answered.
WriteLetter(l, s) ==
    /\ letter[l].pc = "unwritten"
    /\ letter' = [letter EXCEPT ![l] = [pc |-> "sent", session |-> s, index |-> ratchet[s], key |-> None]]
    /\ ratchet' = [ratchet EXCEPT ![s] = @ + 1]
    /\ excused' = IF s \in keyed THEN excused ELSE excused \cup {l}
    /\ UNCHANGED <<inbound, unused, keyOnWay, copies, keyed, idleFor, unread, lapsed, resent, ticks, roomTroubles>>

\* get_inbound_session: "the bridge will not retry".
FindKey(l) ==
    LET s == letter[l].session IN
    /\ letter[l].pc = "sent"
    /\ letter' = [letter EXCEPT ![l].pc = IF inbound[s] = None THEN "lost" ELSE "found",
                                ![l].key = inbound[s]]
    /\ excused' = IF s \in unread \cup lapsed THEN excused \cup {l} ELSE excused
    /\ UNCHANGED <<inbound, unused, ratchet, keyOnWay, copies, keyed, idleFor, unread, lapsed, resent, ticks, roomTroubles>>

\* update_session_last_used, of a row that is there.
Touched(s) == IF inbound[s] = None THEN unused ELSE [unused EXCEPT ![s] = 0]

\* decrypt, and 400 for a message before those the key can read.
ReadLetter(l) ==
    /\ letter[l].pc = "found"
    /\ IF letter[l].key <= letter[l].index
       THEN /\ letter' = [letter EXCEPT ![l].pc = "read"]
            /\ unused' = Touched(letter[l].session)
       ELSE /\ letter' = [letter EXCEPT ![l].pc = "refused"]
            /\ UNCHANGED unused
    /\ UNCHANGED <<inbound, ratchet, keyOnWay, copies, keyed, idleFor, excused, unread, lapsed, resent, ticks, roomTroubles>>

\* send_message and the answer with the mid.
StoreLetter(l) ==
    /\ letter[l].pc = "read"
    /\ copies' = [copies EXCEPT ![l] = @ + 1]
    /\ letter' = [letter EXCEPT ![l].pc = "answered"]
    /\ idleFor' = [idleFor EXCEPT ![letter[l].session] = 0]
    /\ UNCHANGED <<inbound, unused, ratchet, keyOnWay, keyed, excused, unread, lapsed, resent, ticks, roomTroubles>>

\* A statement or send_message fails: an error; or the connection breaks, and
\* the bridge sends the message again.  What send_message does may go on.
Break(l) ==
    /\ letter[l].pc \in {"sent", "found", "read"} /\ RoomTrouble
    /\ \/ letter' = [letter EXCEPT ![l].pc = "refused"] /\ UNCHANGED resent
       \/ letter' = [letter EXCEPT ![l].pc = "sent"] /\ resent' = resent \cup {l}
    /\ copies' \in {copies} \cup (IF letter[l].pc = "read" THEN {[copies EXCEPT ![l] = @ + 1]} ELSE {})
    /\ UNCHANGED <<inbound, unused, ratchet, keyOnWay, keyed, idleFor, excused, unread, lapsed, ticks>>

----------------------------------------------------------------------------
\* Time, and the cleaner.

Older(n) == IF n < Retention THEN n + 1 ELSE n

\* Ticks are long: no request lasts as long.
Tick ==
    /\ ticks < MaxTicks /\ ticks' = ticks + 1
    /\ \A s \in Megolms : keyOnWay[s] = None
    /\ \A l \in Letters : letter[l].pc \notin {"sent", "found", "read"}
    /\ unused' = [s \in Megolms |-> Older(unused[s])]
    /\ idleFor' = [s \in Megolms |-> Older(idleFor[s])]
    /\ lapsed' = lapsed \cup {s \in Megolms : idleFor'[s] = Retention}
    /\ UNCHANGED <<inbound, ratchet, keyOnWay, letter, copies, keyed, excused, unread, resent, roomTroubles>>

\* Mutant of Expired: the cutoff is too early.
ExpiredSoon(s) == inbound[s] # None /\ unused[s] > 0

Expired(s) == inbound[s] # None /\ unused[s] = Retention

\* clean_sessions, at any moment after the 90 days.
CleanSessions ==
    /\ \E s \in Megolms : Expired(s)
    /\ inbound' = [s \in Megolms |-> IF Expired(s) THEN None ELSE inbound[s]]
    /\ UNCHANGED <<unused, ratchet, keyOnWay, letter, copies, keyed, idleFor, excused, unread, lapsed, resent, ticks, roomTroubles>>

RoomsInit ==
    /\ inbound = [s \in Megolms |-> None] /\ keyOnWay = inbound
    /\ unused = [s \in Megolms |-> 0] /\ idleFor = unused /\ ratchet = unused
    /\ letter = [l \in Letters |-> Unwritten]
    /\ copies = [l \in Letters |-> 0]
    /\ keyed = {} /\ excused = {} /\ unread = {} /\ lapsed = {} /\ resent = {}
    /\ ticks = 0 /\ roomTroubles = 0

RoomsNext ==
    \/ \E s \in Megolms : ShareKey(s) \/ StoreKey(s) \/ LoseKey(s)
    \/ \E l \in Letters :
        \/ \E s \in Megolms : WriteLetter(l, s)
        \/ FindKey(l) \/ ReadLetter(l) \/ StoreLetter(l) \/ Break(l)
    \/ Tick \/ CleanSessions

RoomsSpec == RoomsInit /\ [][RoomsNext]_roomVars

----------------------------------------------------------------------------
\* Properties.

\* "The bridge will not retry", so a message must not be dropped with a 200 that
\* the bridge sent after its key was answered: keys outlive their use.  (One that
\* is shared again replaces the older; a message from before it that is still on
\* its way is then refused with 400, and the bridge knows.)  Not so when the
\* server could not read the key, which is answered 200 as well, or nobody used
\* it for 90 days.
\* What is answered with a mid is stored, and once unless it was sent again.
KeyedIsRead ==
    \A l \in Letters :
        /\ letter[l].pc = "lost" => l \in excused
        /\ letter[l].pc = "answered" => copies[l] >= 1
        /\ copies[l] > 1 => l \in resent
=============================================================================
