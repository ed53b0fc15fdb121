------------------------------ MODULE Settings ------------------------------
(***************************************************************************)
(* What a user has set about other users and groups: mutes with their      *)
(* expiry, burn after reading, read indexes, pinned chats and contacts.    *)
(* Each setting is kept in SQLite ("table"), in State.cache and by every   *)
(* device with an open event stream ("mirror").  A device gets all of them *)
(* when it subscribes and each later change through the broadcast channel. *)
(*                                                                         *)
(* A handler holds the write guard, writes a transaction and then the      *)
(* cache; a request dropped at the await of its commit has changed the     *)
(* table only.  clean_mute, every 30 seconds, deletes expired mutes from   *)
(* the table before it waits for the guard to delete them from the cache.  *)
(* Clearing a group removes settings of every user and announces nothing.  *)
(***************************************************************************)
EXTENDS Integers, Sequences

CONSTANTS Users,      \* uids that change their settings
          Others,     \* uids that are only set something about
          Groups,     \* gids
          Owner,      \* the owner of each private group, Public for the others
          Public,
          Devices, UserOf,  \* the devices and the user of each
          \* bounds of the model
          MaxTime, MaxMid, MaxRequests,
          MaxTroubles  \* deletions, dropped requests, faults of SQLite and restarts

Targets == Users \cup Others \cup Groups

ASSUME SettingsAssumption ==
    /\ Users \cap Others = {} /\ Users \cap Groups = {} /\ Others \cap Groups = {}
    /\ Public \notin Targets
    /\ Owner \in [Groups -> Users \cup Others \cup {Public}]
    /\ UserOf \in [Devices -> Users]
    /\ MaxTime \in Nat /\ MaxMid \in Nat

VARIABLES now,       \* the clock
          table,     \* SQLite
          cache,     \* State.cache
          mirror,    \* what each device knows and what it has still to read; what
                     \* it knows and was not told to be gone (untold: history)
          cleaning,  \* the clock as clean_mute read it, Idle when it is not running
          \* history, read by the properties only
          cut,       \* settings that a dropped request changed in the table only
          wiped,     \* read indexes that the table lost when a group was cleared
          faulty,    \* SQLite has failed to delete the expired mutes
          used,      \* how much of each bound is spent
          focus      \* a bound: the kind of setting that the requests change

vars == <<now, table, cache, mirror, cleaning, cut, wiped, faulty, used, focus>>

\* The kinds of settings, and those that an event stream carries.
Kinds == {"mute", "burn", "read", "pin", "contact"}
Shown == Kinds \ {"contact"}

\* The kinds that go with the messages of a group.
Cleared == {"read", "burn", "pin"}

\* No entry is 0.  A mute is the time it expires, or Forever; a contact is
\* added (1) or blocked (2); a read index is a mid.
Idle == 0
Forever == MaxTime + 1
Value == 0..(MaxTime + MaxMid + 2)

Rows == [Users -> [Targets -> Value]]
Store == [alive : SUBSET Targets, rows : [Kinds -> Rows]]
Change == [kind : Shown, on : SUBSET Targets, value : Value]
Mirror == [on : BOOLEAN, view : [Shown -> [Targets -> Value]], inbox : Seq(Change),
           untold : SUBSET (Shown \X Targets)]

TypeOK ==
    /\ now \in Nat \ {0}
    /\ table \in Store
    /\ cache \in Store
    /\ mirror \in [Devices -> Mirror]
    /\ cleaning \in Nat
    /\ cut \subseteq Kinds \X Users \X Targets
    /\ wiped \subseteq Users \X Groups
    /\ used \in [requests : Nat, troubles : Nat]
    /\ faulty \in BOOLEAN
    /\ focus \in Kinds

----------------------------------------------------------------------------
Nothing == [t \in Targets |-> 0]

Off == [on |-> FALSE, view |-> [k \in Shown |-> Nothing], inbox |-> <<>>, untold |-> {}]

Trouble ==
    /\ used.troubles < MaxTroubles
    /\ used' = [used EXCEPT !.troubles = @ + 1]

Put(store, k, u, ts, v) ==
    [store EXCEPT !.rows[k][u] = [t \in Targets |-> IF t \in ts THEN v ELSE @[t]]]

\* Foreign keys: a row goes with its user and with its target.
Cascade(store, gone) ==
    [alive |-> store.alive \ gone,
     rows |-> [k \in Kinds |-> [u \in Users |-> [t \in Targets |->
                   IF u \in gone \/ t \in gone THEN 0 ELSE store.rows[k][u][t]]]]]

\* The rows without those of the given kinds about the targets ts, whoever's.
Forget(store, kinds, ts) ==
    [k \in Kinds |-> [u \in Users |-> [t \in Targets |->
        IF k \in kinds /\ t \in ts THEN 0 ELSE store.rows[k][u][t]]]]

Expired(mute, time) == mute > 0 /\ mute < time

Unexpired(k, v) == IF k = "mute" /\ Expired(v, now) THEN 0 ELSE v

\* Mutant of UserSettings: the pinned chats are not sent.
UserSettingsWithoutPins(u) ==
    [k \in Shown |-> [t \in Targets |-> IF k = "pin" THEN 0 ELSE Unexpired(k, cache.rows[k][u][t])]]

\* get_user_settings_msg.
UserSettings(u) == [k \in Shown |-> [t \in Targets |-> Unexpired(k, cache.rows[k][u][t])]]

\* event_sender.send: the change is on the way to every open stream of u.
Broadcast(u, k, ts, v) ==
    mirror' = [d \in Devices |->
                  IF mirror[d].on /\ UserOf[d] = u
                  THEN [mirror[d] EXCEPT !.inbox = Append(@, [kind |-> k, on |-> ts, value |-> v]),
                                         !.untold = @ \ ({k} \X ts)]
                  ELSE mirror[d]]

----------------------------------------------------------------------------
\* The handlers.  A request that is refused changes nothing.

\* Which changes are UserSettingsChanged events.
Announced(k) == k \in Shown

\* The setting k of u about ts becomes v, in the table about those of "stored".
Save(k, u, ts, stored, v) ==
    /\ k = focus /\ u \in cache.alive
    /\ used.requests < MaxRequests
    /\ table' = Put(table, k, u, stored, v)
    /\ \/ /\ cache' = Put(cache, k, u, ts, v)
          /\ IF Announced(k) THEN Broadcast(u, k, ts, v) ELSE UNCHANGED mirror
          /\ cut' = cut \ ({k} \X {u} \X (ts \cap stored))
          /\ used' = [used EXCEPT !.requests = @ + 1]
       \/ /\ used.troubles < MaxTroubles
          /\ cut' = cut \cup ({k} \X {u} \X (ts \cup stored))
          /\ used' = [used EXCEPT !.requests = @ + 1, !.troubles = @ + 1]
          /\ UNCHANGED <<cache, mirror>>
    /\ wiped' = IF k = "read" THEN wiped \ ({u} \X stored) ELSE wiped
    /\ UNCHANGED <<now, cleaning, faulty, focus>>

\* An upsert: the handler asks the cache whether the targets exist, the
\* foreign keys of the table ask again and fail the whole transaction.
Upsert(k, u, ts, v) ==
    /\ ts # {} /\ ts \subseteq cache.alive \ {u}
    /\ ts \cup {u} \subseteq table.alive
    /\ Save(k, u, ts, ts, v)

Remove(k, u, ts) == ts # {} /\ Save(k, u, ts, ts, 0)

Mute(u, ts, v) == v >= now /\ Upsert("mute", u, ts, v)
Unmute(u, ts) == ts \subseteq cache.alive /\ Remove("mute", u, ts)

PinChat(u, t) == Upsert("pin", u, {t}, 1)
UnpinChat(u, t) == Remove("pin", u, {t})

\* expires_in 0 deletes the entry, which asks nothing of the foreign keys.
UpdateBurnAfterReading(u, ts, v) ==
    IF v > 0 THEN Upsert("burn", u, ts, v)
    ELSE ts \subseteq cache.alive \ {u} /\ Remove("burn", u, ts)

\* Mutant of Newer: an index that was read before is written again.
NewerOrNot(u, ts, mid) == ts

\* The targets whose read index of u is behind mid.
Newer(u, ts, mid) == {t \in ts : cache.rows["read"][u][t] < mid}

UpdateReadIndex(u, ts, mid) ==
    /\ ts \subseteq cache.alive \ {u}
    /\ Upsert("read", u, Newer(u, ts, mid), mid)

AddContact(u, t, status) == t \notin Groups /\ Upsert("contact", u, {t}, status)
RemoveContact(u, t) == t \in cache.alive \ (Groups \cup {u}) /\ Remove("contact", u, {t})

\* "where status = 2", and the same condition on the cache.
Blocked(store, u, t) == {x \in {t} : store.rows["contact"][u][x] = 2}

UnblockContact(u, t) ==
    /\ t \in cache.alive \ (Groups \cup {u})
    /\ Save("contact", u, Blocked(cache, u, t), Blocked(table, u, t), 1)

----------------------------------------------------------------------------
\* What happens to everybody's settings about a group, or about a user.

\* ApiGroup::clear: the read indexes, burn after reading and pinned chats of
\* all users about the group go, and no UserSettingsChanged is sent.
ClearGroup(g) ==
    /\ g \in cache.alive
    /\ used.requests < MaxRequests
    /\ table' = [alive |-> table.alive, rows |-> Forget(table, Cleared, {g})]
    /\ wiped' = wiped \cup (Users \X {g})
    /\ \/ /\ cache' = [alive |-> cache.alive, rows |-> Forget(cache, Cleared, {g})]
          /\ mirror' = [d \in Devices |->
                           [mirror[d] EXCEPT !.untold = IF mirror[d].on THEN @ \cup (Cleared \X {g}) ELSE @]]
          /\ cut' = cut \ (Cleared \X Users \X {g})
          /\ used' = [used EXCEPT !.requests = @ + 1]
       \/ /\ used.troubles < MaxTroubles  \* dropped at its commit
          /\ cut' = cut \cup (Cleared \X Users \X {g})
          /\ used' = [used EXCEPT !.requests = @ + 1, !.troubles = @ + 1]
          /\ UNCHANGED <<cache, mirror>>
    /\ UNCHANGED <<now, cleaning, faulty, focus>>

\* The private groups of t go with it in the cache.  Nothing deletes their rows.
Orphans(t) == {g \in Groups \cap cache.alive : Owner[g] = t}

\* State::delete_user.  Mutes, burn after reading and contacts about the user
\* stay in the other users' caches; nothing about a user without a cache entry
\* is asked again.
DeleteUser(t) ==
    /\ t \in cache.alive \ Groups
    /\ Trouble
    /\ table' = Cascade(table, {t})
    /\ \/ /\ cache' = [alive |-> cache.alive \ ({t} \cup Orphans(t)),
                       rows |-> Forget(cache, {"read", "pin"}, {t} \cup Orphans(t))]
          /\ mirror' = [d \in Devices |-> IF UserOf[d] = t THEN Off ELSE mirror[d]]
       \/ UNCHANGED <<cache, mirror>>  \* dropped at its commit
    /\ UNCHANGED <<now, cleaning, cut, wiped, faulty, focus>>

\* ApiGroup::delete: only the read indexes are removed from the cache.
DeleteGroup(g) ==
    /\ g \in cache.alive
    /\ Trouble
    /\ table' = Cascade(table, {g})
    /\ \/ cache' = [alive |-> cache.alive \ {g}, rows |-> Forget(cache, {"read"}, {g})]
       \/ UNCHANGED cache  \* dropped at its statement
    /\ UNCHANGED <<now, mirror, cleaning, cut, wiped, faulty, focus>>

----------------------------------------------------------------------------
\* clean_mute, in its two steps.

WithoutExpired(store, time) ==
    [store EXCEPT !.rows["mute"] =
        [u \in Users |-> [t \in Targets |-> IF Expired(@[u][t], time) THEN 0 ELSE @[u][t]]]]

CleanTable ==
    /\ cleaning = Idle
    /\ cleaning' = now
    /\ \/ table' = WithoutExpired(table, now) /\ UNCHANGED <<faulty, used>>
       \/ Trouble /\ faulty' = TRUE /\ UNCHANGED table
    /\ UNCHANGED <<now, cache, mirror, cut, wiped, focus>>

\* Mutant of CleanCache: the clock is read again once the guard is held.
CleanCacheAgain ==
    /\ cleaning # Idle
    /\ cache' = WithoutExpired(cache, now)
    /\ cleaning' = Idle
    /\ UNCHANGED <<now, table, mirror, cut, wiped, faulty, used, focus>>

CleanCache ==
    /\ cleaning # Idle
    /\ cache' = WithoutExpired(cache, cleaning)
    /\ cleaning' = Idle
    /\ UNCHANGED <<now, table, mirror, cut, wiped, faulty, used, focus>>

----------------------------------------------------------------------------
\* The devices and the process.

\* events: the snapshot and the subscription are made under one write guard.
Subscribe(d) ==
    /\ UserOf[d] \in cache.alive
    /\ ~mirror[d].on
    /\ mirror' = [mirror EXCEPT ![d] = [on |-> TRUE, view |-> UserSettings(UserOf[d]),
                                         inbox |-> <<>>, untold |-> {}]]
    /\ UNCHANGED <<now, table, cache, cleaning, cut, wiped, faulty, used, focus>>

\* The device reads the next change of its stream.
Receive(d) ==
    /\ mirror[d].inbox # <<>>
    /\ LET c == Head(mirror[d].inbox) IN
       mirror' = [mirror EXCEPT ![d].inbox = Tail(@),
                                ![d].view[c.kind] = [t \in Targets |-> IF t \in c.on THEN c.value ELSE @[t]]]
    /\ UNCHANGED <<now, table, cache, cleaning, cut, wiped, faulty, used, focus>>

\* The stream ends: the client leaves, or it lagged behind the channel.
Leave(d) ==
    /\ mirror[d].on
    /\ mirror' = [mirror EXCEPT ![d] = Off]
    /\ UNCHANGED <<now, table, cache, cleaning, cut, wiped, faulty, used, focus>>

Tick ==
    /\ now < MaxTime
    /\ now' = now + 1
    /\ UNCHANGED <<table, cache, mirror, cleaning, cut, wiped, faulty, used, focus>>

\* load_users_cache.
Restart ==
    /\ Trouble
    /\ cache' = table
    /\ mirror' = [d \in Devices |-> Off]
    /\ cleaning' = Idle
    /\ cut' = {}
    /\ UNCHANGED <<now, table, wiped, faulty, focus>>

----------------------------------------------------------------------------
Init ==
    /\ now = 1
    /\ table = [alive |-> Targets, rows |-> [k \in Kinds |-> [u \in Users |-> Nothing]]]
    /\ cache = table
    /\ mirror = [d \in Devices |-> Off]
    /\ cleaning = Idle
    /\ cut = {} /\ wiped = {}
    /\ faulty = FALSE
    /\ used = [requests |-> 0, troubles |-> 0]
    /\ focus \in Kinds

Next ==
    \/ \E u \in Users, ts \in SUBSET Targets :
        \/ \E v \in 1..Forever : Mute(u, ts, v)
        \/ Unmute(u, ts)
        \/ \E v \in 0..1 : UpdateBurnAfterReading(u, ts, v)
        \/ \E mid \in 1..MaxMid : UpdateReadIndex(u, ts, mid)
    \/ \E u \in Users, t \in Targets :
        \/ PinChat(u, t) \/ UnpinChat(u, t)
        \/ \E status \in 1..2 : AddContact(u, t, status)
        \/ RemoveContact(u, t) \/ UnblockContact(u, t)
    \/ \E t \in Users \cup Others : DeleteUser(t)
    \/ \E g \in Groups : DeleteGroup(g) \/ ClearGroup(g)
    \/ CleanTable \/ CleanCache
    \/ \E d \in Devices : Subscribe(d) \/ Receive(d) \/ Leave(d)
    \/ Tick \/ Restart

Spec == Init /\ [][Next]_vars

----------------------------------------------------------------------------
\* Properties.

Known(u, t) == {u, t} \subseteq cache.alive \cap table.alive

\* A restart changes no setting: of the users and groups that exist, the cache
\* has what load_users_cache would read, but for a request that was dropped at
\* its commit, for expired mutes while clean_mute is between its two steps, and
\* for expired mutes that SQLite failed to delete.
CacheAgrees ==
    \A k \in Kinds, u \in Users, t \in Targets :
        Known(u, t) /\ <<k, u, t>> \notin cut =>
            \/ cache.rows[k][u][t] = table.rows[k][u][t]
            \/ k = "mute" /\ cleaning # Idle /\ Expired(cache.rows[k][u][t], cleaning)
            \/ k = "mute" /\ faulty /\ Expired(table.rows[k][u][t], now)

\* A device that has read its stream to the end shows what the server holds:
\* nothing falls between the snapshot and the subscription, and every handler
\* of a shown setting announces it but one.  Clearing a group tells nobody that
\* the settings about it are gone: the devices whose streams were open then go
\* on showing them (untold) until the setting is changed again or they
\* reconnect.  Mutes are compared as far as they last.
MirrorAgrees ==
    \A d \in Devices, k \in Shown, t \in Targets :
        /\ mirror[d].on /\ mirror[d].inbox = <<>>
        /\ t \in cache.alive /\ <<k, t>> \notin mirror[d].untold
        => Unexpired(k, mirror[d].view[k][t]) = Unexpired(k, cache.rows[k][UserOf[d]][t])

\* What a user has read of an existing chat never becomes unread, whatever
\* device reports in what order, and over a restart, but in one way: clearing a
\* group forgets what everyone has read of it, at once, or with the restart
\* after a request that was dropped at its commit.
ReadIndexNeverBack ==
    [][\A u \in Users, t \in Targets :
        {u, t} \subseteq cache.alive \cap cache'.alive =>
            \/ cache'.rows["read"][u][t] >= cache.rows["read"][u][t]
            \/ cache'.rows["read"][u][t] = 0 /\ <<u, t>> \in wiped']_vars
=============================================================================
