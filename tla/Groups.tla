------------------------------- MODULE Groups -------------------------------
(***************************************************************************)
(* Groups with their owner, members, pinned messages and announcement,     *)
(* each in SQLite ("table"), in State.cache and in the app of every user   *)
(* with an open event stream ("mirror"): an app gets its related groups    *)
(* when it subscribes and is told of each later change.                    *)
(*                                                                         *)
(* A handler holds the write guard of State.cache, writes SQLite, then the *)
(* cache, and broadcasts.  Edits of messages go through the message        *)
(* database and the queue msg_updated_channel; the task that serves it     *)
(* reads the merged message before it asks for the guard to copy it into   *)
(* the pin.                                                                *)
(***************************************************************************)
EXTENDS Integers, Sequences, FiniteSets, Functions

CONSTANTS Users, Admins,   \* uids; those of administrators
          Guests,          \* and of guests, who may see, join and even own groups
          Listeners,       \* the users whose apps open an event stream
          Nobody,
          Mids, GroupOf,   \* messages of groups; the group each was sent to
          \* bounds of the model
          MaxGroups, MaxEdits, MaxRequests,
          MaxTroubles      \* dropped and failed requests and restarts

Gids == 1..MaxGroups

ASSUME GroupsAssumption ==
    /\ Admins \subseteq Users /\ Guests \subseteq Users \ Admins /\ Listeners \subseteq Users /\ Nobody \notin Users
    /\ MaxGroups \in Nat \ {0} /\ MaxEdits \in Nat
    /\ IsFiniteSet(Mids) /\ GroupOf \in [Mids -> Gids]

VARIABLES table,    \* SQLite
          cache,    \* State.cache
          born,     \* the last gid that was given: sqlite_sequence
          merged,   \* MsgDb: the content of each merged message, 0 for none
          queue,    \* msg_updated_channel
          worker,   \* process_msg_updated: the message it has read
          mirror,   \* the apps
          \* history, read by the properties only
          hist,
          used      \* how much of each bound is spent

vars == <<table, cache, born, merged, queue, worker, mirror, hist, used>>

Content == 0..(MaxEdits + 1)
Pin == [mid : Mids, by : Users, content : Content]
Row == [st : {"none", "public", "private"}, owner : Users \cup {Nobody}, members : SUBSET Users,
        pins : SUBSET Pin, ann : 0..2, annBy : Users \cup {Nobody}]
NoGroup == [st |-> "none", owner |-> Nobody, members |-> {}, pins |-> {}, ann |-> 0, annBy |-> Nobody]

\* In the table a pin has no content: it is the merged message's.
Store == [users : SUBSET Users, groups : [Gids -> Row]]

\* A BroadcastEvent: what it carries of the group is in row.
Event == [kind : {"joined", "kicked", "userJoined", "userLeft", "changed", "pin", "announcement"},
          to : SUBSET Users, gid : Gids, row : Row, uids : SUBSET Users, mid : Mids \cup {0}]

Idle == [mid |-> 0, content |-> 0]

TypeOK ==
    /\ table \in Store
    /\ cache \in Store
    /\ \A g \in Gids : \A p \in cache.groups[g].pins : p.content # 0
    /\ born \in 0..MaxGroups
    /\ merged \in [Mids -> Content]
    /\ queue \in Seq(Mids)
    /\ worker \in {Idle} \cup [mid : Mids, content : Content]
    /\ mirror \in [Users -> [on : BOOLEAN, view : [Gids -> Row], inbox : Seq(Event)]]
    /\ hist \in [cut : SUBSET Gids, lost : SUBSET (Gids \X Mids), untold : SUBSET (Users \X Gids),
                 shared : SUBSET Mids, failed : BOOLEAN]
    /\ used \in [requests : Nat, troubles : Nat]

----------------------------------------------------------------------------
Exists(store, g) == store.groups[g].st # "none"
Public(g) == cache.groups[g].st = "public"

\* CacheGroup::contains_user.
Contains(row, u) == row.st = "public" \/ (row.st = "private" /\ u \in row.members)

\* get_related_groups.
Related(u) == [g \in Gids |-> IF Contains(cache.groups[g], u) THEN cache.groups[g] ELSE NoGroup]

\* Mutant of Audience: public groups are forgotten, which have no list of members.
MembersOnly(g) == cache.groups[g].members

\* Who hears of a change of g, as most handlers have it.
Audience(g) == IF Public(g) THEN cache.users ELSE cache.groups[g].members

Post(kind, to, g) ==
    [kind |-> kind, to |-> to, gid |-> g, row |-> NoGroup, uids |-> {}, mid |-> 0]
PostRow(kind, to, g, row) == [Post(kind, to, g) EXCEPT !.row = row]
PostUsers(kind, to, g, us) == [Post(kind, to, g) EXCEPT !.uids = us]
PostPin(to, g, mid, pins) == [Post("pin", to, g) EXCEPT !.mid = mid, !.row = [NoGroup EXCEPT !.pins = pins]]

\* event_sender.send for each of the posts, in order.
Broadcast(posts) ==
    mirror' = [u \in Users |-> IF mirror[u].on THEN [mirror[u] EXCEPT !.inbox = @ \o posts] ELSE mirror[u]]

\* Mutant of Stored: the statement is missing.
NotStored(g, row) == table.groups[g]

\* The row of g after a statement that changes nothing when the row is gone.
Stored(g, row) == IF Exists(table, g) THEN row ELSE table.groups[g]

\* The handler leaves tableRow and cacheRow of g and reaches its end, or its
\* request is dropped at the await of its last statement.  A group that a drop
\* left different stays so until a restart.
Serve(g, tableRow, cacheRow, posts, after) ==
    /\ used.requests < MaxRequests
    /\ table' = [table EXCEPT !.groups[g] = tableRow]
    /\ \/ /\ cache' = [cache EXCEPT !.groups[g] = cacheRow]
          /\ Broadcast(posts)
          /\ used' = [used EXCEPT !.requests = @ + 1]
          /\ hist' = after
       \/ /\ used.troubles < MaxTroubles
          /\ used' = [used EXCEPT !.requests = @ + 1, !.troubles = @ + 1]
          /\ hist' = [hist EXCEPT !.cut = IF tableRow = table.groups[g] THEN @ ELSE @ \cup {g}]
          /\ UNCHANGED <<cache, mirror>>
    /\ UNCHANGED <<merged, queue, worker>>

Handle(g, tableRow, cacheRow, posts) == Serve(g, tableRow, cacheRow, posts, hist)

\* The open apps of us show g as it was, for nothing tells them better.
Untold(us, g) == [hist EXCEPT !.untold = @ \cup ({u \in us : mirror[u].on} \X {g})]

May(a, g) == a \in Admins \/ (cache.groups[g].st = "private" /\ cache.groups[g].owner = a)

----------------------------------------------------------------------------
\* Membership.

Create(a, public, members) ==
    LET g == born + 1
        row == IF public THEN [NoGroup EXCEPT !.st = "public"]
               ELSE [NoGroup EXCEPT !.st = "private", !.owner = a, !.members = members]
    IN  /\ g \in Gids /\ a \notin Guests
        /\ IF public THEN a \in Admins /\ members = {} ELSE a \in members
        /\ members \subseteq cache.users \cap table.users
        /\ born' = g
        /\ Handle(g, row, row,
                  <<PostRow("joined", IF public THEN cache.users ELSE members, g, row)>>)

AddMembers(a, g, us) ==
    LET old == cache.groups[g]
        new == [old EXCEPT !.members = @ \cup us]
    IN  /\ old.st = "private" /\ (May(a, g) \/ a \in old.members)
        /\ us # {} /\ us \subseteq cache.users \ old.members
        /\ Exists(table, g) /\ us \subseteq table.users \ table.groups[g].members
        /\ Handle(g, [table.groups[g] EXCEPT !.members = @ \cup us], new,
                  <<PostRow("joined", us, g, new), PostUsers("userJoined", old.members, g, us)>>)
        /\ UNCHANGED born

RemoveMembers(a, g, us) ==
    LET old == cache.groups[g]
        rest == old.members \ us
    IN  /\ old.st = "private" /\ May(a, g)
        /\ us # {} /\ us \subseteq old.members \ {old.owner}
        /\ Handle(g, [table.groups[g] EXCEPT !.members = @ \ us], [old EXCEPT !.members = rest],
                  <<Post("kicked", us, g), PostUsers("userLeft", rest, g, us)>>)
        /\ UNCHANGED born

Leave(a, g) ==
    LET old == cache.groups[g] IN
    /\ old.st = "private" /\ a \in old.members \ {old.owner}
    /\ Handle(g, [table.groups[g] EXCEPT !.members = @ \ {a}], [old EXCEPT !.members = @ \ {a}],
              <<PostUsers("userLeft", old.members, g, {a})>>)
    /\ UNCHANGED born

\* update, of the owner; its other fields go the same way.
UpdateOwner(a, g, owner) ==
    LET old == cache.groups[g] IN
    /\ old.st = "private" /\ May(a, g) /\ owner \in old.members
    /\ Handle(g, Stored(g, [table.groups[g] EXCEPT !.owner = owner]), [old EXCEPT !.owner = owner],
              <<PostRow("changed", old.members, g, [NoGroup EXCEPT !.owner = owner])>>)
    /\ UNCHANGED born

\* change_type: a public group becomes private, by default without the guests.
\* The event names the gid as the owner, and those who are no longer in the group
\* are not told to leave.  Rows of members that a public group had in the table,
\* which only a dropped request leaves there, stay.
MakePrivate(a, g, us) ==
    LET members == (IF us = {} THEN cache.users \ Guests ELSE us) \cup {a}
        told == Untold(Users, g)
    IN  /\ Public(g) /\ a \in Admins
        /\ Exists(table, g) /\ members \subseteq table.users \ table.groups[g].members
        /\ Serve(g, [table.groups[g] EXCEPT !.st = "private", !.owner = a, !.members = @ \cup members],
                 [cache.groups[g] EXCEPT !.st = "private", !.owner = a, !.members = members],
                 <<PostRow("changed", cache.users, g, [NoGroup EXCEPT !.st = "private"])>>,
                 IF table.groups[g].members = {} THEN told ELSE [told EXCEPT !.cut = @ \cup {g}])
        /\ UNCHANGED born

\* change_type: a private group becomes public.  Guests see it too, but those who
\* were not in it are left out of the events.
MakePublic(a, g) ==
    LET old == cache.groups[g]
        new == [old EXCEPT !.st = "public", !.owner = Nobody, !.members = {}]
        others == (cache.users \ Guests) \ old.members
    IN  /\ old.st = "private" /\ May(a, g)
        /\ Serve(g, Stored(g, [table.groups[g] EXCEPT !.st = "public", !.owner = Nobody, !.members = {}]), new,
                 <<PostRow("changed", cache.users, g, [NoGroup EXCEPT !.st = "public"]),
                   PostUsers("userJoined", old.members, g, others),
                   PostRow("joined", others, g, new)>>,
                 Untold(Guests \ old.members, g))
        /\ UNCHANGED born

Delete(a, g) ==
    /\ Exists(cache, g) /\ May(a, g)
    /\ Handle(g, NoGroup, NoGroup, <<Post("kicked", Audience(g), g)>>)
    /\ UNCHANGED born

\* Foreign keys: memberships, pins and announcements of a user go with the
\* user.  The rows of the groups the user owns stay.
WithoutUser(row, u) ==
    [row EXCEPT !.members = @ \ {u}, !.pins = {p \in @ : p.by # u},
                !.ann = IF row.annBy = u THEN 0 ELSE @, !.annBy = IF row.annBy = u THEN Nobody ELSE @]

Off == [on |-> FALSE, view |-> [g \in Gids |-> NoGroup], inbox |-> <<>>]

\* State::delete_user: the private groups of u go, but only from the cache.  The
\* others in a group are told, unless u is a guest.
DeleteUser(u) ==
    LET owned == {g \in Gids : cache.groups[g].st = "private" /\ cache.groups[g].owner = u}
        shared == {g \in Gids : cache.groups[g].st = "private" /\ u \in cache.groups[g].members}
        posts == IF u \in Guests THEN <<>>
                 ELSE [g \in Gids |-> IF g \in owned THEN Post("kicked", cache.groups[g].members, g)
                                      ELSE PostUsers("userLeft", Audience(g) \ {u}, g, {u})]
        untold == IF u \notin Guests THEN {}
                  ELSE UNION {{v \in cache.groups[g].members : mirror[v].on} \X {g} : g \in owned \cup shared}
    IN  /\ u \in cache.users
        /\ used.requests < MaxRequests /\ used.troubles < MaxTroubles
        /\ used' = [used EXCEPT !.requests = @ + 1, !.troubles = @ + 1]
        /\ table' = [users |-> table.users \ {u},
                     groups |-> [g \in Gids |-> WithoutUser(table.groups[g], u)]]
        /\ \/ /\ cache' = [users |-> cache.users \ {u},
                           groups |-> [g \in Gids |-> IF g \in owned THEN NoGroup
                                                      ELSE IF Public(g) THEN cache.groups[g]
                                                      ELSE [cache.groups[g] EXCEPT !.members = @ \ {u}]]]
              /\ mirror' = [v \in Users |->
                     IF v = u THEN Off
                     ELSE IF mirror[v].on THEN [mirror[v] EXCEPT !.inbox = @ \o posts] ELSE mirror[v]]
              /\ hist' = [hist EXCEPT !.untold = (@ \cup untold) \ ({u} \X Gids)]
           \/ /\ hist' = [hist EXCEPT !.cut = @ \cup {g \in Gids : u \in table.groups[g].members}]
              /\ UNCHANGED <<cache, mirror>>  \* dropped at its commit
        /\ UNCHANGED <<born, merged, queue, worker>>

----------------------------------------------------------------------------
\* Pinned messages and announcements.

PinIds(row) == {p.mid : p \in row.pins}

\* Mutant of Pinnable: the message is not looked for.
AnythingPinnable(m) == TRUE

\* Any message with a merged copy may be pinned, whichever group it belongs to.
Pinnable(m) == merged[m] # 0

PinMessage(a, g, m) ==
    LET pin == [mid |-> m, by |-> a, content |-> merged[m]] IN
    /\ Exists(cache, g) /\ May(a, g) /\ m \notin PinIds(cache.groups[g])
    /\ Pinnable(m)
    /\ Exists(table, g) /\ a \in table.users
    /\ Serve(g, [table.groups[g] EXCEPT !.pins = @ \cup {[pin EXCEPT !.content = 0]}],
             [cache.groups[g] EXCEPT !.pins = @ \cup {pin}],
             <<PostPin(Audience(g), g, m, {pin})>>,
             IF \E other \in Gids \ {g} : m \in PinIds(cache.groups[other])
             THEN [hist EXCEPT !.shared = @ \cup {m}] ELSE hist)
    /\ UNCHANGED born

Unpinned(row, m) == [row EXCEPT !.pins = {p \in @ : p.mid # m}]

UnpinMessage(a, g, m) ==
    /\ Exists(cache, g) /\ May(a, g) /\ m \in PinIds(cache.groups[g])
    /\ Handle(g, Unpinned(table.groups[g], m), Unpinned(cache.groups[g], m),
              <<PostPin(Audience(g), g, m, {})>>)
    /\ UNCHANGED born

\* Who announced first stays the author; the update of a row that a cascade
\* deleted changes nothing.
Announce(a, g, content) ==
    LET first == cache.groups[g].ann = 0
        by == IF first THEN a ELSE cache.groups[g].annBy
        Announced(row) == [row EXCEPT !.ann = content, !.annBy = by]
    IN  /\ Exists(cache, g) /\ May(a, g) /\ a \notin Guests
        /\ first => Exists(table, g) /\ a \in table.users /\ table.groups[g].ann = 0
        /\ Handle(g, IF first \/ table.groups[g].ann # 0 THEN Announced(table.groups[g]) ELSE table.groups[g],
                  Announced(cache.groups[g]),
                  <<PostRow("announcement", Users, g, [NoGroup EXCEPT !.ann = content, !.annBy = by])>>)
        /\ UNCHANGED born

Silent(row) == [row EXCEPT !.ann = 0, !.annBy = Nobody]

DeleteAnnouncement(a, g) ==
    /\ Exists(cache, g) /\ May(a, g) /\ a \notin Guests
    /\ Handle(g, Silent(table.groups[g]), Silent(cache.groups[g]),
              <<PostRow("announcement", Users, g, NoGroup)>>)
    /\ UNCHANGED born

\* clear: the messages go first, then the rows; a transaction that fails leaves
\* the pins and the announcement in both places, one that is dropped at its commit
\* leaves them in the cache.  (What it does to the users' settings about g is
\* ClearGroup of Settings.)
Clear(a, g) ==
    LET Cleared(row) == Silent([row EXCEPT !.pins = {}])
        ids == PinIds(cache.groups[g])
        silence == IF cache.groups[g].ann = 0 THEN <<>> ELSE <<PostRow("announcement", Users, g, NoGroup)>>
        without == [table EXCEPT !.groups[g] = Cleared(@)]
    IN  /\ Exists(cache, g) /\ May(a, g) /\ a \notin Guests
        /\ used.requests < MaxRequests
        /\ merged' = [m \in Mids |-> IF GroupOf[m] = g THEN 0 ELSE merged[m]]
        /\ \/ /\ table' = without
              /\ cache' = [cache EXCEPT !.groups[g] = Cleared(@)]
              /\ \E order \in Bijection(1..Cardinality(ids), ids) :
                    Broadcast([i \in DOMAIN order |-> PostPin(Audience(g), g, order[i], {})] \o silence)
              /\ used' = [used EXCEPT !.requests = @ + 1]
              /\ UNCHANGED hist
           \/ /\ used.troubles < MaxTroubles
              /\ used' = [used EXCEPT !.requests = @ + 1, !.troubles = @ + 1]
              /\ table' \in {table, without}
              /\ hist' = [hist EXCEPT !.cut = IF table' = table THEN @ ELSE @ \cup {g}]
              /\ UNCHANGED <<cache, mirror>>
        /\ UNCHANGED <<born, queue, worker>>

----------------------------------------------------------------------------
\* Edits of messages and the task that copies them into pins.

\* Mutant of Edit: the queue is not told of a message that is being copied.
EditOnce(m) ==
    /\ merged[m] \in 1..MaxEdits /\ used.requests < MaxRequests
    /\ merged' = [merged EXCEPT ![m] = @ + 1]
    /\ queue' = IF worker.mid = m THEN queue ELSE Append(queue, m)
    /\ used' = [used EXCEPT !.requests = @ + 1]
    /\ UNCHANGED <<table, cache, born, worker, mirror, hist>>

\* internal_send_message of an edit: the merged message, then the queue.  (A
\* deletion touches neither: a deleted message stays pinned.)
Edit(m) ==
    /\ merged[m] \in 1..MaxEdits /\ used.requests < MaxRequests
    /\ merged' = [merged EXCEPT ![m] = @ + 1]
    /\ queue' = Append(queue, m)
    /\ used' = [used EXCEPT !.requests = @ + 1]
    /\ UNCHANGED <<table, cache, born, worker, mirror, hist>>

\* process_msg_updated, up to the await of the guard.
ReadMerged ==
    /\ worker = Idle /\ queue # <<>>
    /\ worker' = [mid |-> Head(queue), content |-> merged[Head(queue)]]
    /\ queue' = Tail(queue)
    /\ UNCHANGED <<table, cache, born, merged, mirror, hist, used>>

\* process_msg_updated under the guard: the first group that pins the message.
CopyMerged ==
    LET m == worker.mid
        pinning == {g \in Gids : m \in PinIds(cache.groups[g])}
        g == CHOOSE x \in pinning : \A y \in pinning : x <= y
        old == CHOOSE p \in cache.groups[g].pins : p.mid = m
        new == [old EXCEPT !.content = worker.content]
    IN  /\ worker # Idle
        /\ worker' = Idle
        /\ IF pinning = {} THEN UNCHANGED <<table, cache, mirror, hist>>
           ELSE IF worker.content # 0
           THEN /\ cache' = [cache EXCEPT !.groups[g].pins = (@ \ {old}) \cup {new}]
                /\ Broadcast(<<PostPin(Audience(g), g, m, {new})>>)
                /\ UNCHANGED <<table, hist>>
           ELSE /\ cache' = [cache EXCEPT !.groups[g] = Unpinned(@, m)]
                /\ \/ table' = [table EXCEPT !.groups[g] = Unpinned(@, m)] /\ UNCHANGED hist
                   \/ UNCHANGED table /\ hist' = [hist EXCEPT !.failed = TRUE]
                /\ Broadcast(<<PostPin(Audience(g), g, m, {})>>)
        /\ UNCHANGED <<born, merged, queue, used>>

----------------------------------------------------------------------------
\* The apps and the process.

Subscribe(u) ==
    /\ u \in cache.users /\ ~mirror[u].on
    /\ mirror' = [mirror EXCEPT ![u] = [on |-> TRUE, view |-> Related(u), inbox |-> <<>>]]
    /\ UNCHANGED <<table, cache, born, merged, queue, worker, hist, used>>

\* What an app makes of an event about a group it shows as row.
Shown(row, u, e) ==
    IF e.kind = "joined" THEN e.row
    ELSE IF e.kind = "kicked" \/ row.st = "none" THEN NoGroup
    ELSE CASE e.kind = "userJoined" -> [row EXCEPT !.members = @ \cup e.uids]
           [] e.kind = "userLeft" -> IF u \in e.uids THEN NoGroup ELSE [row EXCEPT !.members = @ \ e.uids]
           [] e.kind = "changed" ->
                IF e.row.st = "public" THEN [row EXCEPT !.st = "public", !.owner = Nobody]
                ELSE IF e.row.st = "private" THEN [row EXCEPT !.st = "private"]
                ELSE [row EXCEPT !.owner = e.row.owner]
           [] e.kind = "pin" -> [row EXCEPT !.pins = {p \in @ : p.mid # e.mid} \cup e.row.pins]
           [] e.kind = "announcement" -> [row EXCEPT !.ann = e.row.ann, !.annBy = e.row.annBy]

\* events_loop passes on what is for u, an announcement if u is in the group now.
Receive(u) ==
    /\ mirror[u].inbox # <<>>
    /\ LET e == Head(mirror[u].inbox) IN
       mirror' = [mirror EXCEPT ![u].inbox = Tail(@),
                    ![u].view[e.gid] = IF u \in e.to /\ (e.kind = "announcement" => Contains(cache.groups[e.gid], u))
                                       THEN Shown(@, u, e) ELSE @]
    /\ UNCHANGED <<table, cache, born, merged, queue, worker, hist, used>>

\* The stream ends: the client leaves, or it lagged behind the channel.
EndStream(u) ==
    /\ mirror[u].on
    /\ mirror' = [mirror EXCEPT ![u] = Off]
    /\ hist' = [hist EXCEPT !.untold = @ \ ({u} \X Gids)]
    /\ UNCHANGED <<table, cache, born, merged, queue, worker, used>>

\* load_groups_cache.  The query of the pins has a parameter that is not bound,
\* so it finds none.  The queue is lost; members whose group is gone are skipped.
Restart ==
    /\ used.troubles < MaxTroubles
    /\ used' = [used EXCEPT !.troubles = @ + 1]
    /\ cache' = [users |-> table.users, groups |-> [g \in Gids |-> [table.groups[g] EXCEPT !.pins = {}]]]
    /\ queue' = <<>> /\ worker' = Idle
    /\ mirror' = [u \in Users |-> Off]
    /\ hist' = [hist EXCEPT !.cut = {}, !.untold = {}, !.shared = {},
                            !.lost = UNION {{g} \X PinIds(table.groups[g]) : g \in Gids}]
    /\ UNCHANGED <<table, born, merged>>

----------------------------------------------------------------------------
\* Some users exist, and the first group does, private or public, or does not.
Init ==
    /\ \E people \in SUBSET Users :
       \E row \in {NoGroup, [NoGroup EXCEPT !.st = "public"]} \cup
                  {[NoGroup EXCEPT !.st = "private", !.owner = u, !.members = people] : u \in people} :
          /\ table = [users |-> people, groups |-> [g \in Gids |-> IF g = 1 THEN row ELSE NoGroup]]
          /\ born = IF row = NoGroup THEN 0 ELSE 1
    /\ cache = table
    /\ merged = [m \in Mids |-> 1]
    /\ queue = <<>> /\ worker = Idle
    /\ mirror = [u \in Users |-> Off]
    /\ hist = [cut |-> {}, lost |-> {}, untold |-> {}, shared |-> {}, failed |-> FALSE]
    /\ used = [requests |-> 0, troubles |-> 0]

Next ==
    \/ \E a \in cache.users :
        \/ \E public \in BOOLEAN, us \in SUBSET Users : Create(a, public, us)
        \/ \E g \in Gids :
            \/ \E us \in SUBSET Users : AddMembers(a, g, us) \/ RemoveMembers(a, g, us) \/ MakePrivate(a, g, us)
            \/ \E u \in Users : UpdateOwner(a, g, u)
            \/ Leave(a, g) \/ MakePublic(a, g) \/ Delete(a, g) \/ Clear(a, g)
            \/ \E m \in Mids : PinMessage(a, g, m) \/ UnpinMessage(a, g, m)
            \/ \E content \in 1..2 : Announce(a, g, content)
            \/ DeleteAnnouncement(a, g)
    \/ \E u \in Users : DeleteUser(u)
    \/ \E u \in Listeners : Subscribe(u) \/ Receive(u) \/ EndStream(u)
    \/ \E m \in Mids : Edit(m)
    \/ ReadMerged \/ CopyMerged \/ Restart

Spec == Init /\ [][Next]_vars

----------------------------------------------------------------------------
\* Properties.

\* Without the pins and announcements whose author was deleted, and the members
\* of public groups that were: the rows went by cascade.
Living(row) == [row EXCEPT !.members = IF row.st = "public" THEN @ \cap table.users ELSE @,
                           !.pins = {p \in @ : p.by \in table.users},
                           !.ann = IF row.annBy \in table.users THEN @ ELSE 0,
                           !.annBy = IF row.annBy \in table.users THEN @ ELSE Nobody]

\* A restart changes no group but for a request that was dropped and for the
\* pins: of the groups that both have, owner, members and announcement are the
\* same, and the pins are those of the table that no restart has hidden.
CacheAgrees ==
    \A g \in Gids \ hist.cut :
        LET here == Living(cache.groups[g])
            there == table.groups[g]
            ids == {<<p.mid, p.by>> : p \in here.pins}
            rows == {<<p.mid, p.by>> : p \in there.pins}
        IN  /\ Exists(cache, g) => [here EXCEPT !.pins = {}] = [there EXCEPT !.pins = {}]
            /\ Exists(cache, g) => ids \subseteq rows
            /\ Exists(cache, g) /\ ~hist.failed => \A r \in rows \ ids : <<g, r[1]>> \in hist.lost
            /\ Exists(table, g) /\ ~Exists(cache, g) => there.owner \notin table.users

\* An app that has read its stream to the end shows its groups as the server
\* has them: every handler tells exactly those who must know, in an order that
\* adds up.  The known exceptions are for the apps that were open then, until
\* they reconnect: a public group made private; a private group made public, to
\* the guests who were not in it; a deleted guest, to the others in its groups.
MirrorAgrees ==
    \A u \in cache.users, g \in Gids :
        mirror[u].on /\ mirror[u].inbox = <<>> /\ <<u, g>> \notin hist.untold =>
            LET row == Related(u)[g] IN
            mirror[u].view[g] = [row EXCEPT !.members = IF row.st = "public" THEN mirror[u].view[g].members ELSE @]

\* Once the queue is served, the pin of a message shows its last edit, however
\* edits, pins and the task that copies them interleave.  (With a message that
\* was pinned by two groups, only the first is updated.)
PinsFresh ==
    queue = <<>> /\ worker = Idle =>
        \A g \in Gids : \A p \in cache.groups[g].pins :
            p.mid \notin hist.shared /\ merged[p.mid] # 0 => p.content = merged[p.mid]
=============================================================================
