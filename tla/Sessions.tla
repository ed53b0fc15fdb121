------------------------------ MODULE Sessions ------------------------------
(***************************************************************************)
(* The devices of the users and their event streams: who is registered,    *)
(* which stream holds a device, how a stream is closed from outside (a     *)
(* second subscription, logout, deletion of the device or of the user,     *)
(* freezing) and from inside (events_loop ends by itself), and whether the *)
(* user is online and is said to be.                                       *)
(*                                                                         *)
(* A device in State.cache has at most one "sender", the sending end of    *)
(* the channel that events_loop reads its kicks from.  Dropping it is what *)
(* closes the stream: the loop reads what is queued, then None, and then   *)
(* waits for the write guard to give the device back.                      *)
(*                                                                         *)
(* Every handler holds the write guard of State.cache, writes SQLite and   *)
(* then the cache.  A request that is dropped at the await of its commit   *)
(* has changed the table and not the cache.                                *)
(***************************************************************************)
EXTENDS Integers, Sequences

CONSTANTS Users,    \* uids that exist at the start; none is a bot or a guest
          Devices,  \* a device of a user, the primary key of table device
          Owner,    \* the user of each device
          \* bounds of the model
          MaxStreams, MaxFaults, MaxCuts, MaxRestarts

ASSUME SessionsAssumption ==
    /\ Users \cap Devices = {}
    /\ Owner \in [Devices -> Users]
    /\ MaxStreams \in Nat

VARIABLES table,    \* SQLite: the users, the devices and the frozen users
          cache,    \* State.cache: the same
          sender,   \* CacheDevice.sender: the stream it belongs to, 0 for None
          streams,  \* the calls of GET /user/events, oldest first
          online,   \* what UserStateChanged said last of each user
          \* history, read by the properties only
          cut,      \* the users and devices a dropped request changed in the table only
          used      \* how much of each bound is spent

vars == <<table, cache, sender, streams, online, cut, used>>

Directory == [users : SUBSET Users, devices : SUBSET Devices, frozen : SUBSET Users]

\* "mail" is a Kick in the queue, "told" one that was sent to the client,
\* "why" what broke the loop.  A stream whose device another one's end gave
\* back is "robbed".  A stream that has ended is forgotten but for its device.
Stream == [device : Devices, st : {"subscribing", "failed", "running", "ending", "ended"},
           mail : BOOLEAN, told : BOOLEAN, gone : BOOLEAN,
           why : {"none", "closed", "gone", "lagged"}, robbed : BOOLEAN]

TypeOK ==
    /\ table \in Directory
    /\ cache \in Directory
    /\ sender \in [Devices -> 0..MaxStreams]
    /\ streams \in Seq(Stream) /\ Len(streams) <= MaxStreams
    /\ online \in [Users -> BOOLEAN]
    /\ cut \subseteq Users \cup Devices
    /\ used \in [faults : Nat, cuts : Nat, restarts : Nat]

----------------------------------------------------------------------------
Fresh(d, st) == [device |-> d, st |-> st, mail |-> FALSE, told |-> FALSE, gone |-> FALSE,
                 why |-> "none", robbed |-> FALSE]

Of(u) == {d \in Devices : Owner[d] = u}

StreamsOf(u) == {i \in DOMAIN streams : Owner[streams[i].device] = u}

\* is_online of a user that is not a bot, were the senders of ds dropped.
OnlineWithout(u, ds) == \E d \in (cache.devices \cap Of(u)) \ ds : sender[d] # 0

IsOnline(u) == OnlineWithout(u, {})

\* No one holds the write guard across an await.
Unlocked == \A i \in DOMAIN streams : streams[i].st # "subscribing"

Spend(what, max) ==
    /\ used[what] < max
    /\ used' = [used EXCEPT ![what] = @ + 1]

\* The streams once the senders of the devices ds were sent a Kick.
Kicked(ds) ==
    [i \in DOMAIN streams |->
        IF streams[i].st = "running" /\ \E d \in ds : sender[d] = i
        THEN [streams[i] EXCEPT !.mail = TRUE] ELSE streams[i]]

Released(ds) == [d \in Devices |-> IF d \in ds THEN 0 ELSE sender[d]]

\* Mutant of Close: the senders are dropped without a Kick.
Drop(ds) ==
    /\ sender' = Released(ds)
    /\ UNCHANGED streams

\* A Kick for the streams of the devices ds, whose senders are dropped.
Close(ds) ==
    /\ streams' = Kicked(ds)
    /\ sender' = Released(ds)

\* The handler reaches its end, or its request is dropped at the commit.
Done(names) ==
    /\ cut' = cut \ names
    /\ UNCHANGED used

CutShort(names) ==
    /\ Spend("cuts", MaxCuts)
    /\ cut' = cut \cup names
    /\ UNCHANGED <<cache, sender, streams, online>>

----------------------------------------------------------------------------
\* The devices.

\* The upsert of a device and its entry in the cache, whose sender stays.
\* The foreign key of table device refuses a user that is gone.
Register(d) ==
    /\ Unlocked
    /\ Owner[d] \in cache.users /\ Owner[d] \in table.users
    /\ table' = [table EXCEPT !.devices = @ \cup {d}]
    /\ \/ /\ cache' = [cache EXCEPT !.devices = @ \cup {d}]
          /\ Done({d})
          /\ UNCHANGED <<sender, streams, online>>
       \/ CutShort({d})

\* do_login.
Login(d) == Owner[d] \notin cache.frozen /\ Register(d)

\* update_fcm_token asks for a token, not for the status of the user.
UpdateFcmToken(d) == Register(d)

\* A handler that removes d ends well: its stream is kicked.
Unregister(d) ==
    /\ Close({d})
    /\ cache' = [cache EXCEPT !.devices = @ \ {d}]
    /\ Done({d})
    /\ UNCHANGED online

\* logout.
Logout(d) ==
    /\ Unlocked
    /\ Owner[d] \in cache.users
    /\ d \in cache.devices \cup table.devices
    /\ table' = [table EXCEPT !.devices = @ \ {d}]
    /\ Unregister(d) \/ CutShort({d})

\* Mutant of DeleteDevice: the row stays.
DeleteCachedDevice(d) ==
    /\ Unlocked
    /\ Owner[d] \in cache.users
    /\ d \in table.devices
    /\ Unregister(d)
    /\ UNCHANGED table

\* delete_device, which asks for a row.
DeleteDevice(d) ==
    /\ Unlocked
    /\ Owner[d] \in cache.users
    /\ d \in table.devices
    /\ table' = [table EXCEPT !.devices = @ \ {d}]
    /\ Unregister(d) \/ CutShort({d})

----------------------------------------------------------------------------
\* The users.

\* update with the status Frozen: the devices stay.
Freeze(u) ==
    /\ Unlocked
    /\ u \in cache.users
    /\ table' = [table EXCEPT !.frozen = (@ \cup {u}) \cap table.users]
    /\ \/ /\ cache' = [cache EXCEPT !.frozen = @ \cup {u}]
          /\ Close(cache.devices \cap Of(u))
          /\ Done({})
          /\ UNCHANGED online
       \/ CutShort({})

\* update with the status Normal.
Unfreeze(u) ==
    /\ Unlocked
    /\ u \in cache.users
    /\ table' = [table EXCEPT !.frozen = @ \ {u}]
    /\ \/ /\ cache' = [cache EXCEPT !.frozen = @ \ {u}]
          /\ Done({})
          /\ UNCHANGED <<sender, streams, online>>
       \/ CutShort({})

\* delete_user: the foreign key takes the devices along.
DeleteUser(u) ==
    /\ Unlocked
    /\ u \in cache.users
    /\ table' = [users |-> table.users \ {u}, devices |-> table.devices \ Of(u),
                 frozen |-> table.frozen \ {u}]
    /\ \/ /\ cache' = [users |-> cache.users \ {u}, devices |-> cache.devices \ Of(u),
                       frozen |-> cache.frozen \ {u}]
          /\ Close(cache.devices \cap Of(u))
          /\ Done({u} \cup Of(u))
          /\ UNCHANGED online
       \/ CutShort({u} \cup Of(u))

----------------------------------------------------------------------------
\* The streams.

\* The next stream begins: GET /user/events holds the write guard and has
\* called create_user_event_receiver.
Subscribe(d) ==
    /\ Unlocked
    /\ Len(streams) < MaxStreams
    /\ Owner[d] \in cache.users
    /\ d \in cache.devices
    /\ streams' = Append(Kicked({d}), Fresh(d, "subscribing"))
    /\ sender' = [sender EXCEPT ![d] = Len(streams) + 1]
    /\ online' = IF IsOnline(Owner[d]) THEN online ELSE [online EXCEPT ![Owner[d]] = TRUE]
    /\ UNCHANGED <<table, cache, cut, used>>

\* The snapshot is queued and events_loop is spawned.
Ready(i) ==
    /\ streams[i].st = "subscribing"
    /\ streams' = [streams EXCEPT ![i].st = "running"]
    /\ UNCHANGED <<table, cache, sender, online, cut, used>>

\* fetch_user_log fails, or the client goes away while it is awaited: no
\* events_loop will give the device back.
SubscribeFails(i) ==
    /\ streams[i].st = "subscribing"
    /\ Spend("faults", MaxFaults)
    /\ streams' = [streams EXCEPT ![i] = Fresh(@.device, "failed")]
    /\ UNCHANGED <<table, cache, sender, online, cut>>

\* The client of a running stream goes away.
Leave(i) ==
    /\ streams[i].st = "running" /\ ~streams[i].gone
    /\ streams' = [streams EXCEPT ![i].gone = TRUE]
    /\ UNCHANGED <<table, cache, sender, online, cut, used>>

\* The loop breaks, its teardown is still to come.
Break(i, why) ==
    /\ streams[i].st = "running"
    /\ streams' = [streams EXCEPT ![i].st = "ending", ![i].why = why, ![i].mail = FALSE]
    /\ UNCHANGED <<table, cache, sender, online, cut, used>>

\* rx_user_event yields a Kick.
Tell(i) ==
    /\ streams[i].st = "running" /\ streams[i].mail /\ ~streams[i].gone
    /\ streams' = [streams EXCEPT ![i].mail = FALSE, ![i].told = TRUE]
    /\ UNCHANGED <<table, cache, sender, online, cut, used>>

\* Mutant of Closed: None is taken for a turn without a Kick.
NoneIgnored(i) ==
    /\ streams[i].st = "running"
    /\ sender[streams[i].device] # i /\ ~streams[i].mail
    /\ UNCHANGED vars

\* rx_user_event yields None: the sender is dropped and the queue is empty.
Closed(i) ==
    /\ sender[streams[i].device] # i /\ ~streams[i].mail
    /\ Break(i, "closed")

\* An event, a Kick or the heartbeat cannot be sent to the client.
ClientGone(i) == streams[i].gone /\ Break(i, "gone")

\* The broadcast channel overtook the loop.
Lagged(i) == Break(i, "lagged")

\* Mutant of Teardown: only a stream that still holds its device says that
\* the user is offline.
TeardownOfHolder(i) ==
    LET d == streams[i].device
    IN /\ streams[i].st = "ending"
       /\ Unlocked
       /\ streams' = [streams EXCEPT ![i] = Fresh(d, "ended")]
       /\ IF sender[d] = i
          THEN /\ sender' = Released({d})
               /\ online' = IF OnlineWithout(Owner[d], {d}) THEN online
                            ELSE [online EXCEPT ![Owner[d]] = FALSE]
          ELSE UNCHANGED <<sender, online>>
       /\ UNCHANGED <<table, cache, cut, used>>

\* Mutant of Teardown: the device keeps its sender.
TeardownKeepsSender(i) ==
    /\ streams[i].st = "ending"
    /\ Unlocked
    /\ streams' = [streams EXCEPT ![i] = Fresh(@.device, "ended")]
    /\ UNCHANGED <<table, cache, sender, online, cut, used>>

\* The end of events_loop: the device is given back, whoever holds it.
Teardown(i) ==
    LET d == streams[i].device
        u == Owner[d]
    IN /\ streams[i].st = "ending"
       /\ Unlocked
       /\ streams' = [j \in DOMAIN streams |->
                        IF j = i THEN Fresh(d, "ended")
                        ELSE [streams[j] EXCEPT !.robbed = @ \/ sender[d] = j]]
       /\ sender' = Released({d})
       /\ online' = IF u \notin cache.users \/ OnlineWithout(u, {d}) THEN online
                    ELSE [online EXCEPT ![u] = FALSE]
       /\ UNCHANGED <<table, cache, cut, used>>

\* The process stops and starts: load_users_cache.
Restart ==
    /\ Spend("restarts", MaxRestarts)
    /\ cache' = table
    /\ sender' = Released(Devices)
    /\ streams' = [i \in DOMAIN streams |-> Fresh(streams[i].device, "ended")]
    /\ online' = [u \in Users |-> FALSE]
    /\ cut' = {}
    /\ UNCHANGED table

----------------------------------------------------------------------------
Init ==
    /\ table = [users |-> Users, devices |-> {}, frozen |-> {}]
    /\ cache = table
    /\ sender = [d \in Devices |-> 0]
    /\ streams = <<>>
    /\ online = [u \in Users |-> FALSE]
    /\ cut = {}
    /\ used = [faults |-> 0, cuts |-> 0, restarts |-> 0]

Loop(i) == Tell(i) \/ Closed(i) \/ ClientGone(i)

Next ==
    \/ \E d \in Devices :
          Login(d) \/ UpdateFcmToken(d) \/ Logout(d) \/ DeleteDevice(d) \/ Subscribe(d)
    \/ \E u \in Users : Freeze(u) \/ Unfreeze(u) \/ DeleteUser(u)
    \/ \E i \in DOMAIN streams :
          \/ Ready(i) \/ SubscribeFails(i) \/ Leave(i)
          \/ Tell(i) \/ Closed(i) \/ ClientGone(i) \/ Lagged(i) \/ Teardown(i)
    \/ Restart

Spec == Init /\ [][Next]_vars

\* The task of a stream is always scheduled and its heartbeat always comes
\* again; the await of a subscription ends; tokio's RwLock serves those that
\* wait for it in order, so a teardown gets the guard though others ask too.
FairSpec ==
    /\ Spec
    /\ \A i \in 1..MaxStreams :
          /\ WF_vars(i \in DOMAIN streams /\ (Ready(i) \/ SubscribeFails(i)))
          /\ WF_vars(i \in DOMAIN streams /\ Loop(i))
          /\ SF_vars(i \in DOMAIN streams /\ Teardown(i))

----------------------------------------------------------------------------
\* Properties.

\* A stream that has to end: its sender is dropped or its client gone.
MustEnd(i) ==
    \/ streams[i].st = "ending"
    \/ streams[i].st = "running" /\ (sender[streams[i].device] # i \/ streams[i].gone)

\* What the other users were told last of a user is what is_online says, once
\* the streams that have to end have ended; a subscription that failed half
\* way is the exception.  (create_user_event_receiver, events_loop, and every
\* handler that drops a sender and says nothing)
OnlineAsTold ==
    \A u \in cache.users :
        (\A i \in StreamsOf(u) : ~MustEnd(i) /\ streams[i].st # "failed")
            => online[u] = IsOnline(u)

\* A stream that the server closes was told why, unless the end of an older
\* stream of its device took its sender.  (Kick in events_loop)
ClosedAfterKick ==
    \A i \in DOMAIN streams :
        streams[i].why = "closed" => streams[i].told \/ streams[i].robbed

\* A device is in the cache when it is in the table, but for the requests
\* that were dropped at their commit.  (do_login, logout, delete_device,
\* update_fcm_token, delete_user)
DirectoryAgrees ==
    /\ \A d \in Devices \ cut : d \in cache.devices <=> d \in table.devices
    /\ \A u \in Users \ cut : u \in cache.users <=> u \in table.users

\* A stream that has to end ends.  (events_loop)
StreamsEnd ==
    \A i \in 1..MaxStreams :
        (i \in DOMAIN streams /\ MustEnd(i)) ~> (i \in DOMAIN streams /\ streams[i].st = "ended")

Attended(u) == \E i \in StreamsOf(u) : streams[i].st \in {"subscribing", "running"} /\ ~streams[i].gone

\* A user without a client goes offline or gets one, unless a subscription
\* failed half way.  (device.sender = None at the end of events_loop)
UnattendedGoesOffline ==
    \A u \in Users :
        ~Attended(u) ~>
            (Attended(u) \/ ~IsOnline(u) \/ \E i \in StreamsOf(u) : streams[i].st = "failed")

\* A user that is_online takes for online has an event stream or is about to
\* have one: the user is online "if any device has an active sender".
\* (is_online, events)
OnlineHasStream ==
    \A u \in cache.users : IsOnline(u) =>
        \E i \in StreamsOf(u) : streams[i].st \in {"subscribing", "running", "ending"}

\* A stream is closed by the server only after a Kick: who subscribes while an
\* older stream of the device is open has that one kicked and keeps the new
\* one.  (create_user_event_receiver, the end of events_loop)
ClosedOnlyByKick ==
    \A i \in DOMAIN streams : streams[i].why = "closed" => streams[i].told
=============================================================================
