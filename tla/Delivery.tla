------------------------------ MODULE Delivery ------------------------------
(***************************************************************************)
(* How a chat message gets from its sender to the event streams of its     *)
(* recipients: send_message and internal_send_message, the broadcast       *)
(* channel, the subscription (GET /user/events) with its snapshot of the   *)
(* message database, the per-session events_loop, and the group handlers   *)
(* that change who receives what.                                          *)
(*                                                                         *)
(* State.cache is a read-write lock.  A request that sends holds a read    *)
(* guard from its checks until its message is broadcast; the group         *)
(* handlers and the subscription hold the write guard.  The work of a send *)
(* runs in spawn_blocking: when the client goes away the request, and with *)
(* it the read guard, is dropped while the blocking task runs on.          *)
(***************************************************************************)
EXTENDS MsgDb

CONSTANTS Senders,      \* requests that send, at most one message each at a time
          ChannelSize,  \* capacity of the broadcast channel (128)
          NewestLimit,  \* MAX_NEWEST_MESSAGES
          PublicGroups, \* the groups whose type is GroupType::Public
          \* bounds of the model
          Posts,        \* who sends what where, of all that could be sent
          Listeners,    \* the users whose apps open event streams
          MaxSends, MaxAbandons, MaxFaults, MaxRestarts, MaxAdmin, MaxEvents

Kinds == {"normal", "like"}

ASSUME DeliveryAssumption ==
    /\ Posts \subseteq [from : Users, target : Targets, kind : Kinds]
    /\ Listeners \subseteq Users
    /\ ChannelSize \in Nat \ {0}
    /\ NewestLimit \in Nat \ {0}
    /\ PublicGroups \subseteq Groups

VARIABLES members,  \* cache.groups: the users of each group; {} once it is deleted
          task,     \* the send of each request
          events,   \* the events broadcast since the start
          sess,     \* the event stream of each user's device
          client,   \* what the user's app holds: it chooses after_mid
          \* history, read by the properties only
          odd,      \* mids whose send was abandoned or failed half way
          late,     \* mids overtaken by a larger one, cut by a stop, issued twice, or back again
          used      \* how much of each bound is spent

sendVars == <<members, task, events, sess, client, odd, late, used>>
vars == <<dbVars, sendVars>>

IdleTask == [pc |-> "idle", target |-> NoTarget, to |-> {}, kind |-> "normal", mid |-> 0,
             guard |-> FALSE]

BusyTask == [pc : {"accepted", "allocated", "stored", "merged"}, target : Targets,
             to : SUBSET Users, kind : Kinds, mid : Mid, guard : BOOLEAN]

\* A broadcast: a chat message, a notice that the users in "to" joined or
\* left the group "target", or some other notice.
Event == [kind : {"chat", "join", "kick", "other"}, target : Targets, to : SUBSET Users, mid : Mid]

Session == [st : {"closed", "subscribing", "open"}, cursor : Nat, after : Mid,
            start : Mid, cut : Mid, snap : SUBSET Mid, live : Seq(Mid)]

ClosedSession == [st |-> "closed", cursor |-> 0, after |-> 0, start |-> 0, cut |-> 0,
                  snap |-> {}, live |-> <<>>]

Client == [last : Mid, seen : SUBSET Mid, cut : Mid]

Bound == [sends : Nat, abandons : Nat, faults : Nat, restarts : Nat, admin : Nat]

TypeOK ==
    /\ DbTypeOK
    /\ members \in [Groups -> SUBSET Users]
    /\ task \in [Senders -> {IdleTask} \cup BusyTask]
    /\ events \in Seq(Event)
    /\ sess \in [Users -> Session]
    /\ client \in [Users -> Client]
    /\ odd \subseteq Mid
    /\ late \subseteq Mid
    /\ used \in Bound

----------------------------------------------------------------------------
\* The lock.

ReadLocked == \E s \in Senders : task[s].guard
WriteLocked == \E u \in Users : sess[u].st = "subscribing"

CanRead == ~WriteLocked

\* Mutant of CanWrite: the cache is changed without the lock.
CanWriteAnytime == TRUE

CanWrite == ~ReadLocked /\ ~WriteLocked

Spend(what, max) ==
    /\ used[what] < max
    /\ used' = [used EXCEPT ![what] = @ + 1]

----------------------------------------------------------------------------
\* Sending.

Recipients(from, target) ==
    IF target \in Users THEN {from, target} ELSE members[target]

BroadcastMids == {events[i].mid : i \in {j \in DOMAIN events : events[j].kind = "chat"}}

\* send_message up to the spawn of the blocking task: takes the read guard,
\* checks the target and collects the recipients.  Requests that the checks
\* refuse change nothing.
Accept(s, from, target, kind) ==
    /\ task[s].pc = "idle"
    /\ CanRead
    /\ target \in Groups => from \in members[target]
    /\ Spend("sends", MaxSends)
    /\ task' = [task EXCEPT ![s] =
                  [pc |-> "accepted", target |-> target, to |-> Recipients(from, target),
                   kind |-> kind, mid |-> 0, guard |-> TRUE]]
    /\ UNCHANGED <<dbVars, members, events, sess, client, odd, late>>

\* generate_msg_id in send_to_group and send_to_dm.
Allocate(s) ==
    /\ task[s].pc = "accepted"
    /\ GenerateId
    /\ task' = [task EXCEPT ![s].pc = "allocated", ![s].mid = FreshId]
    /\ odd' = IF task[s].guard THEN odd ELSE odd \cup {FreshId}
    /\ UNCHANGED <<members, events, sess, client, late, used>>

\* The batch of send_to_group and send_to_dm.
Store(s) ==
    /\ task[s].pc = "allocated"
    /\ SendTo(task[s].mid, task[s].target, task[s].to)
    /\ task' = [task EXCEPT ![s].pc = "stored"]
    /\ UNCHANGED <<members, events, sess, client, odd, late, used>>

\* insert_merged_msg; a reaction other than an edit has no merged copy.
Merge(s) ==
    /\ task[s].pc = "stored"
    /\ task[s].kind = "normal"
    /\ InsertMergedMsg(task[s].mid)
    /\ task' = [task EXCEPT ![s].pc = "merged"]
    /\ UNCHANGED <<members, events, sess, client, odd, late, used>>

Chat(s) == [kind |-> "chat", target |-> task[s].target, to |-> task[s].to, mid |-> task[s].mid]

\* Mutant of Broadcast: the read guard outlives the request.
BroadcastKeepsGuard(s) ==
    /\ \/ task[s].pc = "merged"
       \/ task[s].pc = "stored" /\ task[s].kind = "like"
    /\ events' = Append(events, Chat(s))
    /\ task' = [task EXCEPT ![s].pc = "idle"]
    /\ UNCHANGED <<dbVars, members, sess, client, odd, late, used>>

\* event_sender.send and the end of the request: the read guard goes.
Broadcast(s) ==
    /\ \/ task[s].pc = "merged"
       \/ task[s].pc = "stored" /\ task[s].kind = "like"
    /\ events' = Append(events, Chat(s))
    /\ late' = IF \E m \in BroadcastMids : m > task[s].mid THEN late \cup {task[s].mid} ELSE late
    /\ task' = [task EXCEPT ![s] = IdleTask]
    /\ UNCHANGED <<dbVars, members, sess, client, odd, used>>

\* The client of a send goes away: its request is dropped, its blocking task
\* is not.
Abandon(s) ==
    /\ task[s].guard
    /\ Spend("abandons", MaxAbandons)
    /\ task' = [task EXCEPT ![s].guard = FALSE]
    /\ odd' = odd \cup (IF task[s].mid = 0 THEN {} ELSE {task[s].mid})
    /\ UNCHANGED <<dbVars, members, events, sess, client, late>>

\* generate_msg_id, apply_batch or insert_merged_msg fails: the request ends with an error and
\* nothing is broadcast.  What was already written stays.
SendFails(s) ==
    /\ \/ task[s].pc \in {"accepted", "allocated"}
       \/ task[s].pc = "stored" /\ task[s].kind = "normal"
    /\ Spend("faults", MaxFaults)
    /\ odd' = odd \cup {task[s].mid}
    /\ task' = [task EXCEPT ![s] = IdleTask]
    /\ UNCHANGED <<dbVars, members, events, sess, client, late>>

----------------------------------------------------------------------------
\* The event stream of a user.

\* The largest member of S, 0 where there is none.
Newest(S) ==
    LET Largest(m) == \A n \in S : n <= m
    IN IF \E m \in S : Largest(m) THEN CHOOSE m \in S : Largest(m) ELSE 0

MidsOf(W) == {log[i].mid : i \in W}

\* Mutant of Subscribe: the guard does not exclude the requests that send.
SubscribeUnlocked(u) ==
    /\ sess[u].st = "closed"
    /\ ~WriteLocked
    /\ sess' = [sess EXCEPT ![u] =
                  [ClosedSession EXCEPT !.st = "subscribing", !.cursor = Len(events),
                                        !.after = client[u].last]]
    /\ UNCHANGED <<dbVars, members, task, events, client, odd, late, used>>

\* GET /user/events takes the write guard and subscribes to the channel.
Subscribe(u) ==
    /\ sess[u].st = "closed"
    /\ CanWrite
    /\ sess' = [sess EXCEPT ![u] =
                  [ClosedSession EXCEPT !.st = "subscribing", !.cursor = Len(events),
                                        !.after = client[u].last]]
    /\ UNCHANGED <<dbVars, members, task, events, client, odd, late, used>>

\* fetch_user_log fails, or the client goes away while it is awaited.
SubscribeFails(u) ==
    /\ sess[u].st = "subscribing"
    /\ Spend("faults", MaxFaults)
    /\ sess' = [sess EXCEPT ![u] = ClosedSession]
    /\ UNCHANGED <<dbVars, members, task, events, client, odd, late>>

\* fetch_newest_messages: the newest references after after_mid, without the
\* messages of groups that are gone.
NewestMessages(u) ==
    {i \in FetchUserMessagesAfter(log, u, sess[u].after, NewestLimit) :
        log[i].target \in Groups => members[log[i].target] # {}}

\* History: the references that MAX_NEWEST_MESSAGES or more newer ones hide.
Hidden(u) ==
    LET refs == UserMessages(log, u, sess[u].after)
    IN {i \in refs : Cardinality({j \in refs : log[j].mid > log[i].mid}) >= NewestLimit}

\* The rest of GET /user/events: the snapshot, push_start_id, the spawn of
\* events_loop and the release of the write guard.
Snapshot(u) ==
    /\ sess[u].st = "subscribing"
    /\ LET snap == MidsOf(NewestMessages(u))
           cut == Newest(MidsOf(Hidden(u)))
       IN /\ sess' = [sess EXCEPT ![u] =
                         [@ EXCEPT !.st = "open", !.start = Newest(snap), !.snap = snap, !.cut = cut]]
          /\ client' = [client EXCEPT ![u].cut = IF cut > @ THEN cut ELSE @]
    /\ UNCHANGED <<dbVars, members, task, events, odd, late, used>>

Lagged(u) == Len(events) - sess[u].cursor > ChannelSize

\* One turn of events_loop: a chat event for another user, or one that the
\* snapshot already covers, is skipped; push_start_id is dropped at the first
\* event past it.
Receive(u) ==
    /\ sess[u].st = "open"
    /\ sess[u].cursor < Len(events)
    /\ ~Lagged(u)
    /\ LET e == events[sess[u].cursor + 1]
           push == e.kind = "chat" /\ u \in e.to /\ e.mid > sess[u].start
           start == IF push THEN 0 ELSE sess[u].start
           live == IF push THEN Append(sess[u].live, e.mid) ELSE sess[u].live
           new == [sess[u] EXCEPT !.cursor = @ + 1, !.start = start, !.live = live]
       IN sess' = [sess EXCEPT ![u] = new]
    /\ UNCHANGED <<dbVars, members, task, events, client, odd, late, used>>

Pushed(u) == sess[u].snap \cup {sess[u].live[i] : i \in DOMAIN sess[u].live}

\* The stream of u ends, its app has received the mids in got, last of all
\* the mid "last" (0: nothing).
EndStream(u, got, last) ==
    /\ sess' = [sess EXCEPT ![u] = ClosedSession]
    /\ client' = [client EXCEPT ![u] =
                    [last |-> IF last = 0 THEN @.last ELSE last, seen |-> @.seen \cup got,
                     cut |-> @.cut]]
    /\ UNCHANGED <<dbVars, members, task, events, odd, late, used>>

\* What an app can have read of a stream: the snapshot in ascending order up
\* to some message, or all of it and the first n pushed messages.
ReadSnapshot(u, last) ==
    /\ last \in {0} \cup sess[u].snap
    /\ EndStream(u, {m \in sess[u].snap : m <= last}, last)

ReadLive(u, n) ==
    /\ n \in DOMAIN sess[u].live
    /\ EndStream(u, sess[u].snap \cup {sess[u].live[i] : i \in 1..n}, sess[u].live[n])

\* The client goes away, having read a part of the stream.
Disconnect(u) ==
    /\ sess[u].st = "open"
    /\ \/ \E last \in {0} \cup sess[u].snap : ReadSnapshot(u, last)
       \/ \E n \in DOMAIN sess[u].live : ReadLive(u, n)

\* The mid an app that read the whole stream of u has read last.
LastPushed(u) == IF sess[u].live # <<>> THEN sess[u].live[Len(sess[u].live)] ELSE Newest(sess[u].snap)

\* Mutant of LagBreak: recv's Lagged is taken for a turn without an event.
LagSkip(u) ==
    /\ sess[u].st = "open"
    /\ Lagged(u)
    /\ sess' = [sess EXCEPT ![u].cursor = Len(events) - ChannelSize]
    /\ UNCHANGED <<dbVars, members, task, events, client, odd, late, used>>

\* Mutant of LagBreak: Lagged is retried on the same receiver.
LagRetry(u) ==
    /\ sess[u].st = "open"
    /\ Lagged(u)
    /\ UNCHANGED vars

\* recv returns Lagged and events_loop breaks; all it pushed is still read.
LagBreak(u) ==
    /\ sess[u].st = "open"
    /\ Lagged(u)
    /\ EndStream(u, Pushed(u), LastPushed(u))

----------------------------------------------------------------------------
\* The group handlers: each holds the write guard from its checks to its
\* last broadcast.

Notice(kind, g, to) == [kind |-> kind, target |-> g, to |-> to, mid |-> 0]

Administer == CanWrite /\ Len(events) < MaxEvents /\ Spend("admin", MaxAdmin)

\* add_members: JoinedGroup and UserJoinedGroup.
AddMember(g, u) ==
    /\ Administer
    /\ g \notin PublicGroups
    /\ members[g] # {} /\ u \notin members[g]
    /\ members' = [members EXCEPT ![g] = @ \cup {u}]
    /\ events' = events \o <<Notice("join", g, {u}), Notice("other", g, members[g])>>
    /\ UNCHANGED <<dbVars, task, sess, client, odd, late>>

\* Mutant of RemoveMember: the check reads the cache under a guard that is
\* not the write guard.
RemoveMemberUnlocked(g, u) ==
    /\ ~WriteLocked /\ Len(events) < MaxEvents /\ Spend("admin", MaxAdmin)
    /\ g \notin PublicGroups
    /\ u \in members[g] /\ members[g] # {u}
    /\ members' = [members EXCEPT ![g] = @ \ {u}]
    /\ events' = events \o <<Notice("kick", g, {u}), Notice("other", g, members[g] \ {u})>>
    /\ UNCHANGED <<dbVars, task, sess, client, odd, late>>

\* remove_members: KickFromGroup and UserLeavedGroup.  Someone, the owner,
\* stays.
RemoveMember(g, u) ==
    /\ Administer
    /\ g \notin PublicGroups
    /\ u \in members[g] /\ members[g] # {u}
    /\ members' = [members EXCEPT ![g] = @ \ {u}]
    /\ events' = events \o <<Notice("kick", g, {u}), Notice("other", g, members[g] \ {u})>>
    /\ UNCHANGED <<dbVars, task, sess, client, odd, late>>

\* leave: UserLeavedGroup alone.
Leave(g, u) ==
    /\ Administer
    /\ g \notin PublicGroups
    /\ u \in members[g] /\ members[g] # {u}
    /\ members' = [members EXCEPT ![g] = @ \ {u}]
    /\ events' = Append(events, Notice("other", g, members[g]))
    /\ UNCHANGED <<dbVars, task, sess, client, odd, late>>

\* delete: KickFromGroup.  The messages stay in the message database.
DeleteGroup(g) ==
    /\ Administer
    /\ members[g] # {}
    /\ members' = [members EXCEPT ![g] = {}]
    /\ events' = Append(events, Notice("kick", g, members[g]))
    /\ UNCHANGED <<dbVars, task, sess, client, odd, late>>

\* clear: the messages go, then the rows of the group in SQLite; GroupChanged,
\* unless the transaction fails.
ClearGroup(g) ==
    /\ Administer
    /\ members[g] # {}
    /\ ClearGroupMessages(g)
    /\ \/ events' = Append(events, Notice("other", g, members[g]))
       \/ UNCHANGED events
    /\ UNCHANGED <<members, task, sess, client, odd, late>>

----------------------------------------------------------------------------
\* The process.

\* What a stop takes away: sends, the channel and the streams.  Every app has
\* read all that was pushed to it; one that had not is one that disconnected.
\* The ids from first to next - 1 will be handed out again; the messages of the
\* writes in "back" were cleared and are there again.
LoseMemory(first, back) ==
    /\ Spend("restarts", MaxRestarts)
    /\ late' = late \cup {task[s].mid : s \in {x \in Senders : task[x].mid # 0}}
                    \cup (first..(next - 1)) \cup MidsOf(back)
    /\ task' = [s \in Senders |-> IdleTask]
    /\ events' = <<>>
    /\ sess' = [u \in Users |-> ClosedSession]
    /\ client' = [u \in Users |->
                    [last |-> IF LastPushed(u) = 0 THEN client[u].last ELSE LastPushed(u),
                     seen |-> client[u].seen \cup Pushed(u),
                     cut |-> client[u].cut]]
    /\ UNCHANGED <<members, odd>>

\* The writes whose message is gone from the log and not from its first k writes:
\* the crash loses the clearing.
Returned(k) == {i \in Puts(log) : i \notin Stored(log) /\ i \in Stored(SubSeq(log, 1, k))}

\* A kill or a crash, and the restart.
Crash ==
    \E k \in flushed..Len(log) :
        /\ CrashAndOpen(k)
        /\ LoseMemory(SequenceKey(SubSeq(log, 1, k)), Returned(k))

\* The runtime ends in order: it waits for the blocking tasks, then MsgDb is
\* dropped.
Stop ==
    /\ \A s \in Senders : task[s].pc = "idle"
    /\ ReleaseAndOpen
    /\ LoseMemory(next, {})

\* What is on the disk matters only where a crash can still come.
FlushDb ==
    /\ used.restarts < MaxRestarts
    /\ Flush
    /\ UNCHANGED sendVars

----------------------------------------------------------------------------
Init ==
    /\ DbInit
    /\ members = [g \in Groups |-> Users]
    /\ task = [s \in Senders |-> IdleTask]
    /\ events = <<>>
    /\ sess = [u \in Users |-> ClosedSession]
    /\ client = [u \in Users |-> [last |-> 0, seen |-> {}, cut |-> 0]]
    /\ odd = {} /\ late = {}
    /\ used = [sends |-> 0, abandons |-> 0, faults |-> 0, restarts |-> 0, admin |-> 0]

Work(s) == Allocate(s) \/ Store(s) \/ Merge(s) \/ Broadcast(s)

Loop(u) == Snapshot(u) \/ Receive(u) \/ LagBreak(u)

Next ==
    \/ \E s \in Senders :
          \/ \E p \in Posts : Accept(s, p.from, p.target, p.kind)
          \/ Allocate(s) \/ Store(s) \/ Merge(s) \/ Broadcast(s)
          \/ Abandon(s) \/ SendFails(s)
    \/ \E u \in Listeners :
          \/ Subscribe(u) \/ SubscribeFails(u) \/ Snapshot(u)
          \/ Receive(u) \/ LagBreak(u) \/ Disconnect(u)
    \/ \E g \in Groups :
          \/ DeleteGroup(g) \/ ClearGroup(g)
          \/ \E u \in Users : AddMember(g, u) \/ RemoveMember(g, u) \/ Leave(g, u)
    \/ Crash \/ Stop \/ FlushDb

Spec == Init /\ [][Next]_vars

\* Blocking tasks and the tokio tasks of the streams are always scheduled;
\* requests, clients, administrators and the operating system owe nothing.
FairSpec ==
    /\ Spec
    /\ \A s \in Senders : WF_vars(Work(s))
    /\ \A u \in Listeners : WF_vars(Loop(u))

----------------------------------------------------------------------------
\* What the store is for its callers: the messages that are still in it.

Contents(l) == {[mid |-> l[i].mid, target |-> l[i].target, to |-> l[i].to] : i \in Stored(l)}

Promise == INSTANCE MessageStore WITH
    Chats <- Targets,
    messages <- Contents(log),
    survivors <- {Contents(SubSeq(log, 1, k)) : k \in flushed..Len(log)},
    drawn <- {task[s].mid : s \in {t \in Senders : task[t].pc = "allocated"}}

----------------------------------------------------------------------------
\* Properties.

\* While a request holds its read guard the recipients it collected are
\* those its target has: no one joins, leaves or is removed in between.
\* (send_message against add_members, remove_members, delete)
TargetsCurrent ==
    \A s \in Senders :
        task[s].guard /\ task[s].target \in Groups => task[s].to = members[task[s].target]

\* A stream carries a message once, in its snapshot or as a push, unless the
\* send was abandoned or failed half way.  (push_start_id in events_loop)
PushedOnce ==
    \A u \in Users : \A i \in DOMAIN sess[u].live :
        LET m == sess[u].live[i]
        IN (m \in sess[u].snap \/ \E j \in DOMAIN sess[u].live : j # i /\ sess[u].live[j] = m)
              => m \in odd

InFlight == {task[s].mid : s \in Senders}

\* The messages that an open stream, having read the whole channel, owes u.
Owed(u) ==
    {i \in Stored(log) :
        /\ u \in log[i].to
        /\ log[i].mid \notin InFlight
        /\ log[i].target \in Groups => members[log[i].target] # {}}

CaughtUp(u) == sess[u].st = "open" /\ sess[u].cursor = Len(events)

\* The snapshot and the pushes of a stream leave no gap: once it has read the
\* channel, every message after after_mid is in it, but those that
\* MAX_NEWEST_MESSAGES cut off and those of abandoned or failed sends.
\* (events, fetch_newest_messages, events_loop)
StreamHasNoGap ==
    \A u \in Users : CaughtUp(u) =>
        \A i \in Owed(u) :
            \/ log[i].mid <= sess[u].after \/ log[i].mid <= sess[u].cut
            \/ log[i].mid \in odd \cup Pushed(u)

\* An app that resumes with the mid it read last misses a message only for a
\* reason in the history: its send was abandoned or failed, a larger mid was
\* broadcast first, a crash cut it, reissued its mid or undid its clearing, or a
\* snapshot was cut at MAX_NEWEST_MESSAGES.  (after_mid of events)
MissedIsExplained ==
    \A u \in Users : CaughtUp(u) =>
        \A i \in Owed(u) :
            \/ log[i].mid <= client[u].cut
            \/ log[i].mid \in odd \cup late \cup client[u].seen \cup Pushed(u)

\* A fresh mid is larger than that of every message in the store, in flight or
\* broadcast since the start: readers that resume from the mid they read last,
\* and push_start_id, take larger for later.  (generate_id, release, open)
FreshMidIsLargest ==
    [][\A s \in Senders : task[s].pc = "accepted" /\ task'[s].pc = "allocated" =>
          \A m \in MidsOf(Puts(log)) \cup BroadcastMids \cup InFlight : task'[s].mid > m]_vars

\* An app that resumes with the mid it read last gets every message it has
\* not read, where nothing is abandoned, fails or stops and no snapshot is
\* cut: test_events_after_mid relies on it.  (after_mid of events)
ReconnectMissesNothing ==
    \A u \in Users : CaughtUp(u) =>
        \A i \in Owed(u) : log[i].mid \in client[u].seen \cup Pushed(u)

\* No message of a group follows the notice that the user was removed from
\* it, or that it was deleted, unless the user joined again or the send was
\* abandoned.  (send_message against remove_members and delete)
NothingAfterKick ==
    \A i, j \in DOMAIN events :
        i < j /\ events[i].kind = "kick" /\ events[j].kind = "chat"
              /\ events[j].target = events[i].target /\ events[j].mid \notin odd
        => \A u \in events[i].to \cap events[j].to :
              \E k \in i..j : events[k].kind = "join" /\ events[k].target = events[i].target
                                /\ u \in events[k].to

\* A message that was given a mid reaches every open stream of its
\* recipients, or that stream ends.  The exceptions are sends that are abandoned
\* or fail (odd), and those of a mid that a larger one overtakes, that a stop
\* cuts or that is given twice (late).  (internal_send_message, events_loop)
EverySendArrives ==
    \A u \in Users : \A m \in 1..(MaxSends + Bandwidth * (MaxRestarts + 1)) :
        (\E s \in Senders : task[s].mid = m /\ u \in task[s].to)
            ~> (sess[u].st # "open" \/ m \in Pushed(u) \cup odd \cup late)

\* An open stream catches up with the channel, or it ends.  (events_loop)
EveryStreamCatchesUp ==
    \A u \in Users : sess[u].st = "open" ~> (sess[u].st # "open" \/ sess[u].cursor = Len(events))

\* Sends, clearings, crashes and stops, with their leases and the order in which
\* writes reach the disk, keep what MessageStore promises: mids are drawn in
\* ascending order, each names one message, a message is in the store as a whole
\* or not at all, and a crash takes the store back to one moment.
\* (send_to_group, send_to_dm, clear_group_messages, generate_msg_id, open)
StoreKeepsPromise == Promise!StoreSpec
=============================================================================
