---------------------------- MODULE StreamProofs ----------------------------
(***************************************************************************)
(* Proofs about the event streams of Delivery and the apps that resume     *)
(* them.  SendsInv says what the requests and the channel keep of the mids *)
(* that were drawn; UserInv says of one user what the stream has received, *)
(* what is still ahead of it and what the app holds.  The last two parts   *)
(* are the conditions under which an app that resumes gets all, and that a *)
(* stream carries what was written and nothing else.                       *)
(***************************************************************************)
EXTENDS DeliveryProofs, FiniteSetTheorems, WellFoundedInduction

\* The request has drawn its mid and has not ended.
Drawing(s) == task[s].pc \in {"allocated", "stored", "merged"}

ChatEvents == {i \in DOMAIN events : events[i].kind = "chat"}

SendsApart ==
    \A s \in Senders : Drawing(s) =>
        /\ task[s].mid >= 1
        /\ ~task[s].guard => task[s].mid \in odd
        /\ \A t \in Senders \ {s} : Drawing(t) => task[t].mid # task[s].mid
        /\ \A i \in ChatEvents : events[i].mid # task[s].mid

ChatsApart ==
    \A i \in ChatEvents :
        /\ events[i].mid >= 1
        /\ \A j \in ChatEvents \ {i} : events[j].mid # events[i].mid

OvertakenLate ==
    \A i, j \in ChatEvents : i < j /\ events[j].mid < events[i].mid => events[j].mid \in late

\* What a request stored went to those it will be broadcast to.
PutsOfSends ==
    \A s \in Senders : task[s].pc \in {"stored", "merged"} =>
        \A i \in Puts(log) : log[i].mid = task[s].mid => log[i].to = task[s].to

\* u joined the group g between the events i and j.
Rejoined(g, u, i, j) ==
    \E k \in i..j : events[k].kind = "join" /\ events[k].target = g /\ u \in events[k].to

\* Who was removed from a group is out of it, or joined again.
KicksStand ==
    \A i \in DOMAIN events : events[i].kind = "kick" =>
        /\ events[i].target \in Groups
        /\ \A u \in events[i].to :
              u \in members[events[i].target] => Rejoined(events[i].target, u, i, Len(events))

KicksInv == KicksStand /\ NothingAfterKick

SendsInv == SendsApart /\ ChatsApart /\ OvertakenLate /\ PutsOfSends

----------------------------------------------------------------------------
\* One user.

StreamPlace(u) ==
    /\ sess[u].cursor <= Len(events)
    /\ sess[u].st = "closed" => sess[u] = ClosedSession
    /\ sess[u].st = "subscribing" =>
          /\ sess[u].snap = {} /\ sess[u].live = <<>> /\ sess[u].cut = 0 /\ sess[u].start = 0
          /\ ~ReadLocked
          /\ \A i \in ChatEvents : i > sess[u].cursor => events[i].mid \in odd

SnapshotOld(u) ==
    /\ \A n \in sess[u].snap : n < next
    /\ sess[u].start \in {0} \cup sess[u].snap

\* What the stream has not received yet is newer than its snapshot.
AheadAbove(u) ==
    \A n \in sess[u].snap :
        /\ \A s \in Senders : Drawing(s) /\ task[s].mid \notin odd => n < task[s].mid
        /\ \A i \in ChatEvents :
              i > sess[u].cursor /\ events[i].mid \notin odd => n < events[i].mid

LiveRead(u) ==
    \A a \in DOMAIN sess[u].live :
        \E i \in ChatEvents : i <= sess[u].cursor /\ events[i].mid = sess[u].live[a]

LiveOrder(u) ==
    \A a \in DOMAIN sess[u].live :
        /\ sess[u].live[a] \notin odd => \A n \in sess[u].snap : n < sess[u].live[a]
        /\ \A b \in DOMAIN sess[u].live :
              /\ a # b => sess[u].live[a] # sess[u].live[b]
              /\ a < b /\ sess[u].live[b] < sess[u].live[a] => sess[u].live[b] \in late

\* The messages in the store that u can still read.
Wanted(u) ==
    {i \in Stored(log) :
        u \in log[i].to /\ (log[i].target \in Groups => members[log[i].target] # {})}

\* The mid is that of a request under way.
OnItsWay(m) == \E s \in Senders : Drawing(s) /\ task[s].mid = m

\* The mid is in the channel, ahead of the stream of u, for u.
InChannel(u, m) ==
    \E j \in ChatEvents : j > sess[u].cursor /\ events[j].mid = m /\ u \in events[j].to

NoGap(u) ==
    sess[u].st = "open" =>
        \A i \in Wanted(u) :
            \/ log[i].mid <= sess[u].after \/ log[i].mid <= sess[u].cut
            \/ log[i].mid \in odd \cup Pushed(u)
            \/ OnItsWay(log[i].mid) \/ InChannel(u, log[i].mid)

ClientPlace(u) ==
    sess[u].st # "closed" => sess[u].after = client[u].last /\ sess[u].cut <= client[u].cut

AppKnows(u) ==
    \A i \in Wanted(u) : log[i].mid <= client[u].last =>
        \/ log[i].mid <= client[u].cut
        \/ log[i].mid \in odd \cup late \cup client[u].seen
        \/ OnItsWay(log[i].mid)

DrawnNew(u) ==
    \A s \in Senders : Drawing(s) =>
        \/ task[s].mid \in odd \cup late
        \/ task[s].mid > client[u].last
        \/ \E i \in ChatEvents : events[i].mid > task[s].mid

\* An id that a crash makes fresh again, and the app has read, counts as late.
NextNew(u) == \A m \in Nat : next <= m /\ m <= client[u].last => m \in late

StreamInv(u) ==
    /\ StreamPlace(u) /\ SnapshotOld(u) /\ AheadAbove(u)
    /\ LiveRead(u) /\ LiveOrder(u) /\ NoGap(u)

ClientInv(u) == ClientPlace(u) /\ AppKnows(u) /\ DrawnNew(u) /\ NextNew(u)

UserInv(u) == StreamInv(u) /\ ClientInv(u)

StreamsInv == Inv /\ SendsInv /\ KicksInv /\ \A u \in Users : UserInv(u)

----------------------------------------------------------------------------
\* Facts about the state that follow from its type.

\* The fields of a stream and of an app.
LEMMA StreamFields ==
    ASSUME TypeOK, NEW u \in Users
    PROVE  /\ sess[u].st \in {"closed", "subscribing", "open"}
           /\ sess[u].cursor \in Nat /\ sess[u].after \in Nat /\ sess[u].start \in Nat
           /\ sess[u].cut \in Nat /\ sess[u].snap \subseteq Nat /\ sess[u].live \in Seq(Nat)
           /\ DOMAIN sess[u].live = 1..Len(sess[u].live) /\ Len(sess[u].live) \in Nat
           /\ \A a \in DOMAIN sess[u].live : sess[u].live[a] \in Nat
           /\ client[u].last \in Nat /\ client[u].cut \in Nat /\ client[u].seen \subseteq Nat
<1>1. sess[u] \in Session /\ client[u] \in Client
  BY DEF TypeOK
<1>2. sess[u].live \in Seq(Nat)
  BY <1>1 DEF Session, Mid
<1>3. /\ DOMAIN sess[u].live = 1..Len(sess[u].live) /\ Len(sess[u].live) \in Nat
      /\ \A a \in DOMAIN sess[u].live : sess[u].live[a] \in Nat
  BY <1>2, LenProperties, ElementOfSeq
<1>4. /\ sess[u].st \in {"closed", "subscribing", "open"}
      /\ sess[u].cursor \in Nat /\ sess[u].after \in Nat /\ sess[u].start \in Nat
      /\ sess[u].cut \in Nat /\ sess[u].snap \subseteq Nat
  BY <1>1 DEF Session, Mid
<1>5. client[u].last \in Nat /\ client[u].cut \in Nat /\ client[u].seen \subseteq Nat
  BY <1>1 DEF Client, Mid
<1> QED BY <1>2, <1>3, <1>4, <1>5

\* A closed stream.
LEMMA ClosedFields ==
    /\ ClosedSession.st = "closed" /\ ClosedSession.cursor = 0 /\ ClosedSession.after = 0
    /\ ClosedSession.start = 0 /\ ClosedSession.cut = 0 /\ ClosedSession.snap = {}
    /\ ClosedSession.live = <<>> /\ DOMAIN ClosedSession.live = {}
  BY DEF ClosedSession

\* The chat messages of the channel.
LEMMA ChatFields ==
    ASSUME TypeOK
    PROVE  /\ Len(events) \in Nat /\ DOMAIN events = 1..Len(events)
           /\ ChatEvents \subseteq 1..Len(events)
           /\ \A i \in ChatEvents : /\ i \in Nat /\ events[i] \in Event
                                    /\ events[i].mid \in Nat
<1>1. Len(events) \in Nat /\ DOMAIN events = 1..Len(events) /\ \A i \in 1..Len(events) : events[i] \in Event
  BY LenProperties, ElementOfSeq DEF TypeOK
<1> QED BY <1>1 DEF ChatEvents, Event, Mid

\* What u can read is stored, and has a mid.
LEMMA WantedFields ==
    ASSUME TypeOK, NEW u \in Users
    PROVE  /\ Wanted(u) \subseteq Stored(log) /\ Stored(log) \subseteq Puts(log)
           /\ \A i \in Puts(log) : log[i].mid \in Nat
<1>1. log \in Seq(Write)
  BY DEF TypeOK, DbTypeOK
<1> QED BY <1>1, PutsInDomain DEF Wanted, Stored

----------------------------------------------------------------------------
\* A step that ends no request with a broadcast, moves no stream and loses
\* nothing: s is the request that may draw its mid in it.

Quiet(s) ==
    /\ UNCHANGED <<sess, client, late>>
    /\ odd \subseteq odd'
    /\ next <= next'
    /\ Len(events) <= Len(events') /\ ChatEvents' = ChatEvents
    /\ \A i \in ChatEvents : events'[i] = events[i]
    /\ \A t \in Senders : Drawing(t)' =>
          /\ ~task'[t].guard => task'[t].mid \in odd'
          /\ \/ Drawing(t) /\ task'[t].mid = task[t].mid
             \/ t = s /\ task'[t].mid = next /\ next' = next + 1
    /\ \A t \in Senders : Drawing(t) =>
          \/ Drawing(t)' /\ task'[t].mid = task[t].mid
          \/ task[t].mid \in odd'
    /\ \A v \in Users : \A i \in Wanted(v)' :
          \/ i \in Wanted(v) /\ log'[i] = log[i]
          \/ OnItsWay(log[i].mid)'
    /\ ReadLocked' => ReadLocked \/ ~WriteLocked

\* A quiet step keeps the mids of the requests and of the channel apart.
LEMMA QuietSends ==
    ASSUME TypeOK, MidInv, NEW s, Quiet(s), SendsApart, ChatsApart, OvertakenLate
    PROVE  SendsApart' /\ ChatsApart' /\ OvertakenLate'
<1>1. ChatsApart' /\ OvertakenLate'
  BY DEF Quiet, ChatsApart, OvertakenLate
<1>2. ASSUME NEW t \in Senders, Drawing(t)'
      PROVE  /\ task'[t].mid >= 1
             /\ ~task'[t].guard => task'[t].mid \in odd'
             /\ \A i \in ChatEvents : events'[i].mid # task'[t].mid
  <2>1. CASE Drawing(t) /\ task'[t].mid = task[t].mid
    BY <1>2, <2>1 DEF Quiet, SendsApart
  <2>2. CASE task'[t].mid = next
    <3>1. \A i \in ChatEvents : events[i].mid \in Nat /\ events[i].mid < next
      BY MidsSmall DEF ChatEvents
    <3>2. \A i \in ChatEvents : events'[i] = events[i]
      BY DEF Quiet
    <3> QED BY <1>2, <2>2, <3>1, <3>2, MidsSmall DEF Quiet
  <2> QED BY <1>2, <2>1, <2>2 DEF Quiet
<1>3. ASSUME NEW t \in Senders, Drawing(t)', NEW x \in Senders \ {t}, Drawing(x)'
      PROVE  task'[x].mid # task'[t].mid
  <2>1. CASE Drawing(t) /\ task'[t].mid = task[t].mid /\ Drawing(x) /\ task'[x].mid = task[x].mid
    BY <1>3, <2>1 DEF SendsApart
  <2>2. CASE t = s /\ task'[t].mid = next /\ Drawing(x) /\ task'[x].mid = task[x].mid
    BY <2>2, MidsSmall
  <2>3. CASE x = s /\ task'[x].mid = next /\ Drawing(t) /\ task'[t].mid = task[t].mid
    BY <2>3, MidsSmall
  <2> QED BY <1>3, <2>1, <2>2, <2>3 DEF Quiet
<1>4. ChatEvents' = ChatEvents
  BY DEF Quiet
<1>5. SendsApart'
  BY <1>2, <1>3, <1>4 DEF SendsApart
<1> QED BY <1>1, <1>5

\* A quiet step keeps what holds of each stream.
LEMMA QuietStream ==
    ASSUME TypeOK, MidInv, TypeOK', NEW s, Quiet(s), NEW u \in Users, StreamInv(u)
    PROVE  StreamInv(u)'
<1>1. UNCHANGED <<sess, late>> /\ Pushed(u)' = Pushed(u) /\ odd \subseteq odd'
  BY DEF Quiet, Pushed
<1>2. StreamPlace(u)'
  <2>1. sess[u].st = "subscribing" => ~ReadLocked'
    BY DEF Quiet, WriteLocked, StreamInv, StreamPlace
  <2>2. sess[u].cursor <= Len(events')
    <3>1. Len(events) <= Len(events') /\ sess[u].cursor <= Len(events)
      BY DEF Quiet, StreamInv, StreamPlace
    <3>2. Len(events) \in Nat /\ sess[u].cursor \in Nat
      BY ChatFields, StreamFields
    <3> QED BY <3>1, <3>2
  <2>3. \A i \in ChatEvents' : i > sess[u].cursor /\ sess[u].st = "subscribing" => events'[i].mid \in odd'
    BY DEF Quiet, StreamInv, StreamPlace
  <2> QED BY <1>1, <2>1, <2>2, <2>3 DEF StreamInv, StreamPlace
<1>3. SnapshotOld(u)'
  <2>1. \A n \in sess[u].snap : n < next'
    <3>1. next \in Nat /\ next' \in Nat /\ sess[u].snap \subseteq Nat
      BY StreamFields DEF TypeOK, DbTypeOK
    <3> QED BY <3>1 DEF Quiet, StreamInv, SnapshotOld
  <2> QED BY <1>1, <2>1 DEF StreamInv, SnapshotOld
<1>4. AheadAbove(u)'
  <2>1. ASSUME NEW n \in sess[u].snap, NEW t \in Senders, Drawing(t)', task'[t].mid \notin odd'
        PROVE  n < task'[t].mid
    <3>1. CASE Drawing(t) /\ task'[t].mid = task[t].mid
      BY <1>1, <2>1, <3>1 DEF StreamInv, AheadAbove
    <3>2. CASE task'[t].mid = next
      BY <3>2 DEF StreamInv, SnapshotOld
    <3> QED BY <2>1, <3>1, <3>2 DEF Quiet
  <2>2. \A n \in sess[u].snap : \A i \in ChatEvents' :
           i > sess[u].cursor /\ events'[i].mid \notin odd' => n < events'[i].mid
    BY DEF Quiet, StreamInv, AheadAbove
  <2> QED BY <1>1, <2>1, <2>2 DEF AheadAbove
<1>5. LiveRead(u)'
  BY DEF Quiet, StreamInv, LiveRead
<1>6. LiveOrder(u)'
  BY <1>1 DEF StreamInv, LiveOrder
<1>7. NoGap(u)'
  <2> SUFFICES ASSUME sess[u].st = "open", NEW i \in Wanted(u)'
               PROVE  \/ log'[i].mid <= sess[u].after \/ log'[i].mid <= sess[u].cut
                      \/ log'[i].mid \in odd' \cup Pushed(u)
                      \/ OnItsWay(log[i].mid)' \/ InChannel(u, log[i].mid)'
    BY <1>1 DEF NoGap
  <2>1. CASE i \in Wanted(u) /\ log'[i] = log[i]
    <3> PICK m : m = log[i].mid
      OBVIOUS
    <3>1. OnItsWay(m) => OnItsWay(m)' \/ m \in odd'
      BY DEF Quiet, OnItsWay
    <3>2. InChannel(u, m) => InChannel(u, m)'
      BY DEF Quiet, InChannel
    <3>3. \/ m <= sess[u].after \/ m <= sess[u].cut \/ m \in odd \cup Pushed(u)
          \/ OnItsWay(m) \/ InChannel(u, m)
      BY <2>1 DEF StreamInv, NoGap
    <3> QED BY <1>1, <2>1, <3>1, <3>2, <3>3
  <2> QED BY <2>1 DEF Quiet
<1> QED BY <1>2, <1>3, <1>4, <1>5, <1>6, <1>7 DEF StreamInv

\* A quiet step keeps what holds of each app.
LEMMA QuietClient ==
    ASSUME TypeOK, MidInv, TypeOK', NEW s, Quiet(s), NEW u \in Users, ClientInv(u)
    PROVE  ClientInv(u)'
<1>1. UNCHANGED <<sess, client, late>> /\ odd \subseteq odd'
  BY DEF Quiet
<1>2. ClientPlace(u)'
  BY <1>1 DEF ClientInv, ClientPlace
<1>3. AppKnows(u)'
  <2> SUFFICES ASSUME NEW i \in Wanted(u)', log'[i].mid <= client[u].last
               PROVE  \/ log'[i].mid <= client[u].cut
                      \/ log'[i].mid \in odd' \cup late \cup client[u].seen
                      \/ OnItsWay(log[i].mid)'
    BY <1>1 DEF AppKnows
  <2>1. CASE i \in Wanted(u) /\ log'[i] = log[i]
    <3> PICK m : m = log[i].mid
      OBVIOUS
    <3>1. OnItsWay(m) => OnItsWay(m)' \/ m \in odd'
      BY DEF Quiet, OnItsWay
    <3>2. m <= client[u].cut \/ m \in odd \cup late \cup client[u].seen \/ OnItsWay(m)
      BY <2>1 DEF ClientInv, AppKnows
    <3> QED BY <1>1, <2>1, <3>1, <3>2
  <2> QED BY <2>1 DEF Quiet
<1>4. DrawnNew(u)'
  <2> SUFFICES ASSUME NEW t \in Senders, Drawing(t)'
               PROVE  \/ task'[t].mid \in odd' \cup late
                      \/ task'[t].mid > client[u].last
                      \/ \E i \in ChatEvents' : events'[i].mid > task'[t].mid
    BY <1>1 DEF DrawnNew
  <2>1. CASE Drawing(t) /\ task'[t].mid = task[t].mid
    BY <1>1, <2>1 DEF ClientInv, DrawnNew, Quiet
  <2>2. CASE task'[t].mid = next
    <3>1. next \in Nat /\ client[u].last \in Nat
      BY MidsSmall, StreamFields
    <3> QED BY <2>2, <3>1 DEF ClientInv, NextNew
  <2> QED BY <2>1, <2>2 DEF Quiet
<1>5. NextNew(u)'
  <2>1. next \in Nat /\ next' \in Nat /\ next <= next'
    BY DEF Quiet, TypeOK, DbTypeOK
  <2> QED BY <1>1, <2>1 DEF ClientInv, NextNew
<1> QED BY <1>2, <1>3, <1>4, <1>5 DEF ClientInv

----------------------------------------------------------------------------
\* The quiet steps.

\* One more write brings at most its own message.
LEMMA StoredKept ==
    ASSUME TypeOK, NEW w \in Write, log' = Append(log, w)
    PROVE  /\ \A i \in Stored(log') : \/ i \in Stored(log) /\ log'[i] = log[i]
                                      \/ w.op = "put" /\ log'[i] = w
           /\ \A i \in Puts(log') : \/ i \in Puts(log) /\ log'[i] = log[i]
                                    \/ w.op = "put" /\ log'[i] = w
<1>1. log \in Seq(Write)
  BY DEF TypeOK, DbTypeOK
<1>2. /\ \A i \in 1..Len(log) : Append(log, w)[i] = log[i]
      /\ Append(log, w)[Len(log) + 1] = w
      /\ Puts(Append(log, w)) = Puts(log) \cup (IF w.op = "put" THEN {Len(log) + 1} ELSE {})
  BY <1>1, AppendWrite
<1>3. Stored(Append(log, w)) = {i \in Stored(log) : ~(w.op = "clear" /\ w.gid = log[i].target)}
                                 \cup (IF w.op = "put" THEN {Len(log) + 1} ELSE {})
  BY <1>1, StoredAppend
<1>4. Stored(log) \subseteq Puts(log) /\ Puts(log) \subseteq 1..Len(log)
  BY <1>1, PutsInDomain DEF Stored
<1> QED BY <1>2, <1>3, <1>4

\* Readers see no more of the store than before, but what a request on its way put there.
LEMMA WantedKept ==
    ASSUME NEW v \in Users,
           \A g \in Groups : members'[g] # {} => members[g] # {},
           \A i \in Stored(log') : \/ i \in Stored(log) /\ log'[i] = log[i]
                                   \/ OnItsWay(log[i].mid)'
    PROVE  \A i \in Wanted(v)' : \/ i \in Wanted(v) /\ log'[i] = log[i]
                                 \/ OnItsWay(log[i].mid)'
  BY DEF Wanted

\* A step of the request s that keeps the channel.
LEMMA QuietRequest ==
    ASSUME TypeOK, MidInv, TypeOK', SendsApart, NEW s \in Senders,
           UNCHANGED <<members, events, sess, client, late>>,
           odd \subseteq odd', next <= next',
           \A t \in Senders \ {s} : task'[t] = task[t],
           Drawing(s)' => /\ ~task'[s].guard => task'[s].mid \in odd'
                          /\ \/ Drawing(s) /\ task'[s].mid = task[s].mid
                             \/ task'[s].mid = next /\ next' = next + 1,
           Drawing(s) => (Drawing(s)' /\ task'[s].mid = task[s].mid) \/ task[s].mid \in odd',
           task'[s].guard => task[s].guard \/ ~WriteLocked,
           \A i \in Stored(log') : \/ i \in Stored(log) /\ log'[i] = log[i]
                                   \/ OnItsWay(log[i].mid)'
    PROVE  Quiet(s)
<1>1. \A v \in Users : \A i \in Wanted(v)' : \/ i \in Wanted(v) /\ log'[i] = log[i]
                                             \/ OnItsWay(log[i].mid)'
  BY WantedKept
<1>2. /\ UNCHANGED <<sess, client, late>> /\ odd \subseteq odd' /\ next <= next'
      /\ Len(events) <= Len(events') /\ ChatEvents' = ChatEvents
      /\ \A i \in ChatEvents : events'[i] = events[i]
  BY ChatFields DEF ChatEvents
<1>3. \A t \in Senders : Drawing(t)' =>
          /\ ~task'[t].guard => task'[t].mid \in odd'
          /\ \/ Drawing(t) /\ task'[t].mid = task[t].mid
             \/ t = s /\ task'[t].mid = next /\ next' = next + 1
  BY DEF SendsApart, Drawing
<1>4. \A t \in Senders : Drawing(t) =>
          \/ Drawing(t)' /\ task'[t].mid = task[t].mid
          \/ task[t].mid \in odd'
  BY DEF Drawing
<1>5. ReadLocked' => ReadLocked \/ ~WriteLocked
  BY DEF ReadLocked
<1> QED BY <1>1, <1>2, <1>3, <1>4, <1>5 DEF Quiet

\* A new request has drawn no mid, and no one subscribes while it is accepted.
LEMMA AcceptQuiet ==
    ASSUME TypeOK, MidInv, TypeOK', SendsInv, NEW s \in Senders, NEW p \in Posts,
           Accept(s, p.from, p.target, p.kind)
    PROVE  Quiet(s) /\ PutsOfSends'
<1>1. /\ UNCHANGED <<members, events, sess, client, odd, late, log, next>>
      /\ task[s].pc = "idle" /\ CanRead /\ task'[s].pc = "accepted"
      /\ \A t \in Senders \ {s} : task'[t] = task[t]
  BY DEF Accept, TypeOK, dbVars
<1>2. next <= next' /\ ~Drawing(s)' /\ ~Drawing(s) /\ ~WriteLocked
  BY <1>1, MidsSmall DEF Drawing, CanRead
<1>3. Quiet(s)
  BY <1>1, <1>2, QuietRequest DEF SendsInv
<1>4. PutsOfSends'
  BY <1>1 DEF SendsInv, PutsOfSends
<1> QED BY <1>3, <1>4

\* The mid that is drawn is the next one; a lease shows no message.
LEMMA AllocateQuiet ==
    ASSUME TypeOK, MidInv, TypeOK', SendsInv, NEW s \in Senders, Allocate(s)
    PROVE  Quiet(s) /\ PutsOfSends'
<1>1. /\ UNCHANGED <<members, events, sess, client, late>>
      /\ task[s].pc = "accepted" /\ task'[s].pc = "allocated"
      /\ task'[s].guard = task[s].guard
      /\ \A t \in Senders \ {s} : task'[t] = task[t]
  BY TaskFields DEF Allocate, TypeOK, BusyTask
<1>2. task'[s].mid = next /\ next' = next + 1 /\ FreshId = next /\ next \in Nat
  <2>1. task'[s].mid = next
    BY AllocateMids
  <2>2. next' = next + 1 /\ FreshId = next /\ next \in Nat
    BY GenerateIdOK, KeyIsLeased DEF Allocate, TypeOK, MidInv
  <2> QED BY <2>1, <2>2
<1>3. odd \subseteq odd' /\ (~task'[s].guard => next \in odd')
  BY <1>1, <1>2 DEF Allocate
<1>4. /\ \A i \in Stored(log') : i \in Stored(log) /\ log'[i] = log[i]
      /\ \A i \in Puts(log') : i \in Puts(log) /\ log'[i] = log[i]
  <2>1. CASE next >= leased
    <3> DEFINE w == [op |-> "lease", key |-> FreshId + Bandwidth]
    <3>1. log' = Append(log, w)
      BY <2>1 DEF Allocate, GenerateId
    <3>2. w \in Write /\ w.op = "lease"
      BY <1>2, BandwidthAssumption DEF Write, LeaseWrite
    <3> HIDE DEF w
    <3> QED BY <3>1, <3>2, StoredKept
  <2>2. CASE ~(next >= leased)
    BY <2>2 DEF Allocate, GenerateId
  <2> QED BY <2>1, <2>2
<1>5. ~Drawing(s) /\ next <= next'
  BY <1>1, <1>2 DEF Drawing
<1>6. Quiet(s)
  BY <1>1, <1>2, <1>3, <1>4, <1>5, QuietRequest DEF SendsInv
<1>7. PutsOfSends'
  BY <1>1, <1>4 DEF SendsInv, PutsOfSends
<1> QED BY <1>6, <1>7

\* The message that is stored is that of a request on its way.
LEMMA StoreQuiet ==
    ASSUME TypeOK, MidInv, TypeOK', SendsInv, NEW s \in Senders, Store(s)
    PROVE  Quiet(s) /\ PutsOfSends'
<1>1. /\ UNCHANGED <<members, events, sess, client, odd, late, next>>
      /\ task[s].pc = "allocated" /\ task'[s].pc = "stored"
      /\ task'[s].guard = task[s].guard /\ task'[s].mid = task[s].mid
      /\ task'[s].to = task[s].to
      /\ \A t \in Senders \ {s} : task'[t] = task[t]
  BY TaskFields DEF Store, SendTo, Commit, TypeOK, BusyTask
<1> DEFINE w == PutOf(s)
<1>2. w \in Write /\ w.op = "put" /\ w.mid = task[s].mid /\ w.to = task[s].to /\ log' = Append(log, w)
  <2>1. log' = Append(log, w) /\ w.to = task[s].to
    BY DEF Store, SendTo, Commit, PutOf
  <2> QED BY <1>1, <2>1, PutOfOK DEF MidInv
<1> HIDE DEF w
<1>3. /\ \A i \in Stored(log') : (i \in Stored(log) /\ log'[i] = log[i]) \/ log'[i] = w
      /\ \A i \in Puts(log') : (i \in Puts(log) /\ log'[i] = log[i]) \/ log'[i] = w
  BY <1>2, StoredKept
<1>4. Drawing(s) /\ Drawing(s)' /\ next <= next'
  BY <1>1, MidsSmall DEF Drawing
<1>5. \A i \in Stored(log') : (i \in Stored(log) /\ log'[i] = log[i]) \/ OnItsWay(log[i].mid)'
  BY <1>1, <1>2, <1>3, <1>4 DEF OnItsWay
<1>6. ~task[s].guard => task[s].mid \in odd
  BY <1>4 DEF SendsInv, SendsApart
<1>7. Quiet(s)
  BY <1>1, <1>4, <1>5, <1>6, QuietRequest DEF SendsInv
<1>8. PutsOfSends'
  <2> SUFFICES ASSUME NEW t \in Senders, task'[t].pc \in {"stored", "merged"},
                      NEW i \in Puts(log'), log'[i].mid = task'[t].mid
               PROVE  log'[i].to = task'[t].to
    BY DEF PutsOfSends
  <2>1. CASE t = s
    <3>1. \A j \in Puts(log) : log[j].mid # task[s].mid
      BY <1>1 DEF MidInv, TaskMids
    <3> QED BY <1>1, <1>2, <1>3, <2>1, <3>1
  <2>2. CASE t # s
    <3>1. task'[t] = task[t] /\ Drawing(t)
      BY <1>1, <2>2 DEF Drawing
    <3>2. task[t].mid # task[s].mid
      BY <1>4, <2>2, <3>1 DEF SendsInv, SendsApart
    <3> QED BY <1>2, <1>3, <3>1, <3>2 DEF SendsInv, PutsOfSends
  <2> QED BY <2>1, <2>2
<1> QED BY <1>7, <1>8

\* A merged copy shows no message.
LEMMA MergeQuiet ==
    ASSUME TypeOK, MidInv, TypeOK', SendsInv, NEW s \in Senders, Merge(s)
    PROVE  Quiet(s) /\ PutsOfSends'
<1>1. /\ UNCHANGED <<members, events, sess, client, odd, late, next>>
      /\ task[s].pc = "stored" /\ task'[s].pc = "merged"
      /\ task'[s].guard = task[s].guard /\ task'[s].mid = task[s].mid
      /\ task'[s].to = task[s].to
      /\ \A t \in Senders \ {s} : task'[t] = task[t]
  BY TaskFields DEF Merge, InsertMergedMsg, Commit, TypeOK, BusyTask
<1> DEFINE w == [op |-> "merge", mid |-> task[s].mid, key |-> SequenceKey(log)]
<1>2. w \in Write /\ w.op = "merge" /\ log' = Append(log, w)
  BY MergeWriteOK DEF Merge, InsertMergedMsg, Commit, MidInv
<1> HIDE DEF w
<1>3. /\ \A i \in Stored(log') : i \in Stored(log) /\ log'[i] = log[i]
      /\ \A i \in Puts(log') : i \in Puts(log) /\ log'[i] = log[i]
  BY <1>2, StoredKept
<1>4. Drawing(s) /\ Drawing(s)' /\ next <= next'
  BY <1>1, MidsSmall DEF Drawing
<1>5. ~task[s].guard => task[s].mid \in odd
  BY <1>4 DEF SendsInv, SendsApart
<1>6. Quiet(s)
  BY <1>1, <1>3, <1>4, <1>5, QuietRequest DEF SendsInv
<1>7. PutsOfSends'
  BY <1>1, <1>3 DEF SendsInv, PutsOfSends
<1> QED BY <1>6, <1>7

\* The mid of an abandoned request is odd.
LEMMA AbandonQuiet ==
    ASSUME TypeOK, MidInv, TypeOK', SendsInv, NEW s \in Senders, Abandon(s)
    PROVE  Quiet(s) /\ PutsOfSends'
<1>1. /\ UNCHANGED <<members, events, sess, client, late, next, log>>
      /\ task'[s].pc = task[s].pc /\ task'[s].guard = FALSE /\ task'[s].mid = task[s].mid
      /\ task'[s].to = task[s].to
      /\ \A t \in Senders \ {s} : task'[t] = task[t]
  BY TaskFields, IdleTaskFields DEF Abandon, TypeOK, BusyTask, dbVars
<1>2. odd \subseteq odd' /\ (task[s].mid # 0 => task[s].mid \in odd')
  BY DEF Abandon
<1>3. next <= next' /\ (Drawing(s) => task[s].mid # 0) /\ (Drawing(s)' <=> Drawing(s))
  BY <1>1, MidsSmall DEF Drawing, SendsInv, SendsApart
<1>4. Quiet(s)
  BY <1>1, <1>2, <1>3, QuietRequest DEF SendsInv
<1>5. PutsOfSends'
  BY <1>1 DEF SendsInv, PutsOfSends
<1> QED BY <1>4, <1>5

\* The mid of a failed request is odd.
LEMMA SendFailsQuiet ==
    ASSUME TypeOK, MidInv, TypeOK', SendsInv, NEW s \in Senders, SendFails(s)
    PROVE  Quiet(s) /\ PutsOfSends'
<1>1. /\ UNCHANGED <<members, events, sess, client, late, next, log>>
      /\ task'[s].pc = "idle" /\ task'[s].guard = FALSE
      /\ odd' = odd \cup {task[s].mid}
      /\ \A t \in Senders \ {s} : task'[t] = task[t]
  BY IdleTaskFields DEF SendFails, TypeOK, dbVars
<1>2. next <= next' /\ ~Drawing(s)'
  BY <1>1, MidsSmall DEF Drawing
<1>3. Quiet(s)
  BY <1>1, <1>2, QuietRequest DEF SendsInv
<1>4. PutsOfSends'
  BY <1>1 DEF SendsInv, PutsOfSends
<1> QED BY <1>3, <1>4

\* A step that leaves the requests alone and adds notices to the channel.
LEMMA QuietGroup ==
    ASSUME TypeOK, MidInv, TypeOK', SendsInv,
           UNCHANGED <<task, sess, client, odd, late, next>>,
           Len(events) <= Len(events'), ChatEvents' = ChatEvents,
           \A i \in ChatEvents : events'[i] = events[i],
           \A g \in Groups : members'[g] # {} => members[g] # {},
           \A i \in Stored(log') : i \in Stored(log) /\ log'[i] = log[i],
           \A i \in Puts(log') : i \in Puts(log) /\ log'[i] = log[i]
    PROVE  Quiet(NoTarget) /\ PutsOfSends'
<1>1. \A v \in Users : \A i \in Wanted(v)' : \/ i \in Wanted(v) /\ log'[i] = log[i]
                                             \/ OnItsWay(log[i].mid)'
  BY WantedKept
<1>2. \A t \in Senders : (Drawing(t)' <=> Drawing(t)) /\ task'[t].mid = task[t].mid
                         /\ (Drawing(t) /\ ~task'[t].guard => task[t].mid \in odd')
  BY DEF Drawing, SendsInv, SendsApart
<1>3. next <= next' /\ (ReadLocked' => ReadLocked)
  BY MidsSmall DEF ReadLocked
<1>4. Quiet(NoTarget)
  BY <1>1, <1>2, <1>3 DEF Quiet
<1>5. PutsOfSends'
  BY DEF SendsInv, PutsOfSends
<1> QED BY <1>4, <1>5

----------------------------------------------------------------------------
\* The group handlers.

\* What a handler does to the channel: one notice, and for some a second one
\* that is neither a chat message nor the notice of a join or a removal.
AddsNotice(n) ==
    /\ DOMAIN events' = 1..Len(events') /\ Len(events') \in Nat /\ Len(events) < Len(events')
    /\ \A i \in 1..Len(events) : events'[i] = events[i]
    /\ events'[Len(events) + 1] = n
    /\ \A i \in 1..Len(events') : i > Len(events) + 1 => events'[i].kind = "other"

\* A single notice.
LEMMA OneNotice ==
    ASSUME TypeOK, NEW n \in Event, events' = Append(events, n)
    PROVE  AddsNotice(n)
<1>1. /\ Len(events') = Len(events) + 1 /\ Len(events) \in Nat
      /\ DOMAIN events' = 1..(Len(events) + 1)
      /\ \A i \in 1..Len(events) : events'[i] = events[i]
      /\ events'[Len(events) + 1] = n
  BY AppendProperties, LenProperties DEF TypeOK
<1> QED BY <1>1 DEF AddsNotice

\* A notice and the second one.
LEMMA NoticePair ==
    ASSUME TypeOK, NEW n \in Event, NEW o \in Event, o.kind = "other",
           events' = events \o <<n, o>>
    PROVE  AddsNotice(n)
<1>1. <<n, o>> \in Seq(Event) /\ Len(<<n, o>>) = 2 /\ <<n, o>>[1] = n /\ <<n, o>>[2] = o
  OBVIOUS
<1>2. events \in Seq(Event) /\ Len(events) \in Nat
  BY LenProperties DEF TypeOK
<1>3. /\ Len(events') = Len(events) + 2
      /\ DOMAIN events' = 1..(Len(events) + 2)
      /\ \A i \in 1..(Len(events) + 2) :
            events'[i] = IF i <= Len(events) THEN events[i] ELSE <<n, o>>[i - Len(events)]
  BY <1>1, <1>2, ConcatProperties, LenProperties
<1>4. events'[Len(events) + 1] = n /\ events'[Len(events) + 2] = o
  BY <1>1, <1>2, <1>3
<1>5. \A i \in 1..Len(events') : i > Len(events) + 1 => i = Len(events) + 2
  BY <1>2, <1>3
<1>6. \A i \in 1..Len(events) : events'[i] = events[i]
  BY <1>2, <1>3
<1>7. \A i \in 1..Len(events') : i > Len(events) + 1 => events'[i].kind = "other"
  BY <1>4, <1>5
<1>8. DOMAIN events' = 1..Len(events') /\ Len(events') \in Nat /\ Len(events) < Len(events')
  BY <1>2, <1>3
<1> QED BY <1>4, <1>6, <1>7, <1>8 DEF AddsNotice

\* The fields of a notice.
LEMMA NoticeFields ==
    ASSUME NEW kind, NEW g, NEW to
    PROVE  /\ Notice(kind, g, to).kind = kind /\ Notice(kind, g, to).target = g
           /\ Notice(kind, g, to).to = to
  BY DEF Notice

\* No chat message comes with it.
LEMMA NoticeChats ==
    ASSUME TypeOK, NEW n, AddsNotice(n), n.kind # "chat"
    PROVE  ChatEvents' = ChatEvents /\ \A i \in ChatEvents : events'[i] = events[i]
<1>1. ChatEvents \subseteq 1..Len(events) /\ DOMAIN events = 1..Len(events) /\ Len(events) \in Nat
  BY ChatFields
<1>2. \A i \in 1..Len(events') : events'[i].kind = "chat" => i \in 1..Len(events)
  BY <1>1 DEF AddsNotice
<1>3. 1..Len(events) \subseteq 1..Len(events')
  BY <1>1 DEF AddsNotice
<1> QED BY <1>1, <1>2, <1>3 DEF AddsNotice, ChatEvents

\* Notices come after the chat messages that are there.
LEMMA NoticesAfter ==
    ASSUME TypeOK, NEW n, AddsNotice(n), n.kind # "chat", odd' = odd, NothingAfterKick
    PROVE  NothingAfterKick'
<1> SUFFICES ASSUME NEW i \in DOMAIN events', NEW j \in DOMAIN events', i < j,
                    events'[i].kind = "kick", events'[j].kind = "chat",
                    events'[j].target = events'[i].target, events'[j].mid \notin odd',
                    NEW u \in events'[i].to \cap events'[j].to
             PROVE  \E k \in i..j : /\ events'[k].kind = "join"
                                    /\ events'[k].target = events'[i].target
                                    /\ u \in events'[k].to
  BY DEF NothingAfterKick
<1>1. DOMAIN events' = 1..Len(events') /\ DOMAIN events = 1..Len(events) /\ Len(events) \in Nat
  BY ChatFields DEF AddsNotice
<1>2. j \in 1..Len(events) /\ i \in 1..Len(events)
  BY <1>1 DEF AddsNotice
<1>3. \A k \in i..j : k \in 1..Len(events) /\ events'[k] = events[k]
  BY <1>1, <1>2 DEF AddsNotice
<1>4. events'[i] = events[i] /\ events'[j] = events[j]
  BY <1>2 DEF AddsNotice
<1>5. \E k \in i..j : events[k].kind = "join" /\ events[k].target = events[i].target
                       /\ u \in events[k].to
  BY <1>1, <1>2, <1>4 DEF NothingAfterKick
<1> QED BY <1>3, <1>4, <1>5

\* A removal that stood still stands, or the user is back.
LEMMA KicksKept ==
    ASSUME TypeOK, NEW n, AddsNotice(n), KicksStand,
           NEW i \in DOMAIN events, events[i].kind = "kick",
           NEW u \in events[i].to, u \in members[events[i].target]
    PROVE  Rejoined(events[i].target, u, i, Len(events))'
<1>1. DOMAIN events = 1..Len(events) /\ Len(events) \in Nat /\ i \in 1..Len(events)
  BY ChatFields
<1>2. PICK k \in i..Len(events) :
         events[k].kind = "join" /\ events[k].target = events[i].target /\ u \in events[k].to
  BY DEF KicksStand, Rejoined
<1>3. k \in 1..Len(events) /\ k \in i..Len(events')
  BY <1>1 DEF AddsNotice
<1>4. events'[k] = events[k] /\ events'[i] = events[i]
  BY <1>1, <1>3 DEF AddsNotice
<1> QED BY <1>2, <1>3, <1>4 DEF Rejoined

\* The notice of the join comes with the membership.
LEMMA AddKicks ==
    ASSUME TypeOK, KicksStand, NEW g \in Groups, NEW u \in Users, NEW n,
           n.kind = "join", n.target = g, n.to = {u}, AddsNotice(n),
           members' = [members EXCEPT ![g] = @ \cup {u}]
    PROVE  KicksStand'
<1> SUFFICES ASSUME NEW i \in DOMAIN events', events'[i].kind = "kick"
             PROVE  /\ events'[i].target \in Groups
                    /\ \A v \in events'[i].to : v \in members'[events'[i].target]
                          => Rejoined(events[i].target, v, i, Len(events))'
  BY DEF KicksStand
<1>1. DOMAIN events = 1..Len(events) /\ Len(events) \in Nat
  BY ChatFields
<1>2. i \in DOMAIN events /\ events'[i] = events[i]
  BY <1>1 DEF AddsNotice
<1>3. events[i].target \in Groups /\ events[i].kind = "kick"
  BY <1>2 DEF KicksStand
<1>4. ASSUME NEW v \in events[i].to, v \in members'[events[i].target]
      PROVE  Rejoined(events[i].target, v, i, Len(events))'
  <2>1. CASE v \in members[events[i].target]
    BY <1>2, <1>3, <1>4, <2>1, KicksKept
  <2>2. CASE v \notin members[events[i].target]
    <3>1. events[i].target = g /\ v = u
      BY <1>3, <1>4, <2>2 DEF TypeOK
    <3>2. Len(events) + 1 \in i..Len(events') /\ events'[Len(events) + 1] = n
      BY <1>1, <1>2 DEF AddsNotice
    <3> QED BY <1>2, <3>1, <3>2 DEF Rejoined
  <2> QED BY <2>1, <2>2
<1> QED BY <1>2, <1>3, <1>4

\* The notice of a removal comes with the end of the membership.
LEMMA RemoveKicks ==
    ASSUME TypeOK, KicksStand, NEW g \in Groups, NEW n, AddsNotice(n),
           n.kind = "kick" => n.target = g /\ n.to \cap members'[g] = {},
           \A h \in Groups : members'[h] \subseteq members[h]
    PROVE  KicksStand'
<1> SUFFICES ASSUME NEW i \in DOMAIN events', events'[i].kind = "kick"
             PROVE  /\ events'[i].target \in Groups
                    /\ \A v \in events'[i].to : v \in members'[events'[i].target]
                          => Rejoined(events[i].target, v, i, Len(events))'
  BY DEF KicksStand
<1>1. DOMAIN events = 1..Len(events) /\ Len(events) \in Nat
  BY ChatFields
<1>2. CASE i \in DOMAIN events
  <2>1. events'[i] = events[i]
    BY <1>1, <1>2 DEF AddsNotice
  <2>2. events[i].target \in Groups
    BY <1>2, <2>1 DEF KicksStand
  <2>3. \A v \in events[i].to : v \in members'[events[i].target]
           => Rejoined(events[i].target, v, i, Len(events))'
    BY <1>2, <2>1, <2>2, KicksKept
  <2> QED BY <2>1, <2>2, <2>3
<1>3. CASE i \notin DOMAIN events
  <2>1. events'[i] = n
    BY <1>1, <1>3 DEF AddsNotice
  <2> QED BY <2>1
<1> QED BY <1>2, <1>3

\* What each handler does.
LEMMA GroupSteps ==
    ASSUME TypeOK, MidInv, TypeOK', SendsInv, KicksInv, NEW g \in Groups, NEW u \in Users,
           \/ AddMember(g, u) \/ RemoveMember(g, u) \/ Leave(g, u)
           \/ DeleteGroup(g) \/ ClearGroup(g)
    PROVE  Quiet(NoTarget) /\ PutsOfSends' /\ KicksInv'
<1>1. members[g] \subseteq Users /\ members[g] \ {u} \subseteq Users /\ {u} \subseteq Users
  BY DEF TypeOK
<1>2. \A k \in {"join", "kick", "other"} : \A to \in SUBSET Users : Notice(k, g, to) \in Event
  BY NoticeType
<1>3. UNCHANGED <<task, sess, client, odd, late, next>>
  BY DEF AddMember, RemoveMember, Leave, DeleteGroup, ClearGroup, ClearGroupMessages, Commit, dbVars
<1>4. Len(events) \in Nat
  BY ChatFields
<1>5. ASSUME NEW n, n.kind # "chat", AddsNotice(n),
             \A h \in Groups : members'[h] # {} => members[h] # {},
             \A i \in Stored(log') : i \in Stored(log) /\ log'[i] = log[i],
             \A i \in Puts(log') : i \in Puts(log) /\ log'[i] = log[i]
      PROVE  Quiet(NoTarget) /\ PutsOfSends' /\ NothingAfterKick'
  <2>1. ChatEvents' = ChatEvents /\ \A i \in ChatEvents : events'[i] = events[i]
    BY <1>5, NoticeChats
  <2>2. Len(events) <= Len(events')
    BY <1>4, <1>5 DEF AddsNotice
  <2>3. NothingAfterKick'
    BY <1>3, <1>5, NoticesAfter DEF KicksInv
  <2> QED BY <1>3, <1>5, <2>1, <2>2, <2>3, QuietGroup
<1>6. ASSUME log' = log
      PROVE  /\ \A i \in Stored(log') : i \in Stored(log) /\ log'[i] = log[i]
             /\ \A i \in Puts(log') : i \in Puts(log) /\ log'[i] = log[i]
  BY <1>6
<1>7. CASE AddMember(g, u)
  <2>1. events' = events \o <<Notice("join", g, {u}), Notice("other", g, members[g])>>
        /\ members' = [members EXCEPT ![g] = @ \cup {u}] /\ log' = log /\ members[g] # {}
    BY <1>7 DEF AddMember, dbVars
  <2>2. AddsNotice(Notice("join", g, {u}))
    <3>1. Notice("join", g, {u}) \in Event /\ Notice("other", g, members[g]) \in Event
      BY <1>1, <1>2
    <3>2. Notice("other", g, members[g]).kind = "other"
      BY NoticeFields
    <3> QED BY <2>1, <3>1, <3>2, NoticePair
  <2>3. \A h \in Groups : members'[h] # {} => members[h] # {}
    BY <2>1 DEF TypeOK
  <2>4. KicksStand'
    <3> PICK n : n = Notice("join", g, {u})
      OBVIOUS
    <3>1. n.kind = "join" /\ n.target = g /\ n.to = {u}
      BY NoticeFields
    <3> QED BY <2>1, <2>2, <3>1, AddKicks DEF KicksInv
  <2>5. Notice("join", g, {u}).kind # "chat"
    BY NoticeFields
  <2> QED BY <1>5, <1>6, <2>1, <2>2, <2>3, <2>4, <2>5 DEF KicksInv
<1>8. CASE RemoveMember(g, u)
  <2>1. events' = events \o <<Notice("kick", g, {u}), Notice("other", g, members[g] \ {u})>>
        /\ members' = [members EXCEPT ![g] = @ \ {u}] /\ log' = log
    BY <1>8 DEF RemoveMember, dbVars
  <2>2. AddsNotice(Notice("kick", g, {u}))
    <3>1. Notice("kick", g, {u}) \in Event /\ Notice("other", g, members[g] \ {u}) \in Event
      BY <1>1, <1>2
    <3>2. Notice("other", g, members[g] \ {u}).kind = "other"
      BY NoticeFields
    <3> QED BY <2>1, <3>1, <3>2, NoticePair
  <2>3. (\A h \in Groups : members'[h] \subseteq members[h]) /\ u \notin members'[g]
    BY <2>1 DEF TypeOK
  <2>4. KicksStand'
    BY <2>2, <2>3, NoticeFields, RemoveKicks DEF KicksInv
  <2>5. Notice("kick", g, {u}).kind # "chat"
    BY NoticeFields
  <2> QED BY <1>5, <1>6, <2>1, <2>2, <2>3, <2>4, <2>5 DEF KicksInv
<1>9. CASE Leave(g, u)
  <2>1. events' = Append(events, Notice("other", g, members[g]))
        /\ members' = [members EXCEPT ![g] = @ \ {u}] /\ log' = log
    BY <1>9 DEF Leave, dbVars
  <2>2. AddsNotice(Notice("other", g, members[g]))
    BY <1>1, <1>2, <2>1, OneNotice
  <2>3. \A h \in Groups : members'[h] \subseteq members[h]
    BY <2>1 DEF TypeOK
  <2>4. Notice("other", g, members[g]).kind = "other"
    BY NoticeFields
  <2>5. KicksStand'
    BY <2>2, <2>3, <2>4, RemoveKicks DEF KicksInv
  <2> QED BY <1>5, <1>6, <2>1, <2>2, <2>3, <2>4, <2>5 DEF KicksInv
<1>10. CASE DeleteGroup(g)
  <2>1. events' = Append(events, Notice("kick", g, members[g]))
        /\ members' = [members EXCEPT ![g] = {}] /\ log' = log
    BY <1>10 DEF DeleteGroup, dbVars
  <2>2. AddsNotice(Notice("kick", g, members[g]))
    BY <1>1, <1>2, <2>1, OneNotice
  <2>3. (\A h \in Groups : members'[h] \subseteq members[h]) /\ members'[g] = {}
    BY <2>1 DEF TypeOK
  <2>4. KicksStand'
    BY <2>2, <2>3, NoticeFields, RemoveKicks DEF KicksInv
  <2>5. Notice("kick", g, members[g]).kind # "chat"
    BY NoticeFields
  <2> QED BY <1>5, <1>6, <2>1, <2>2, <2>3, <2>4, <2>5 DEF KicksInv
<1>11. CASE ClearGroup(g)
  <2> DEFINE w == [op |-> "clear", gid |-> g, key |-> SequenceKey(log)]
  <2>1. members' = members /\ w \in Write /\ w.op = "clear" /\ log' = Append(log, w)
        /\ (events' = Append(events, Notice("other", g, members[g])) \/ events' = events)
    BY <1>11, ClearWriteOK DEF ClearGroup, ClearGroupMessages, Commit, MidInv
  <2> HIDE DEF w
  <2>2. /\ \A i \in Stored(log') : i \in Stored(log) /\ log'[i] = log[i]
        /\ \A i \in Puts(log') : i \in Puts(log) /\ log'[i] = log[i]
    BY <2>1, StoredKept
  <2>3. CASE events' = Append(events, Notice("other", g, members[g]))
    <3>1. AddsNotice(Notice("other", g, members[g]))
      BY <1>1, <1>2, <2>3, OneNotice
    <3>2. Notice("other", g, members[g]).kind = "other"
      BY NoticeFields
    <3>3. \A h \in Groups : members'[h] \subseteq members[h]
      BY <2>1
    <3>4. KicksStand'
      BY <3>1, <3>2, <3>3, RemoveKicks DEF KicksInv
    <3> QED BY <1>5, <2>1, <2>2, <3>1, <3>2, <3>4 DEF KicksInv
  <2>4. CASE events' = events
    <3>1. KicksInv'
      BY <1>3, <2>1, <2>4 DEF KicksInv, KicksStand, NothingAfterKick, Rejoined
    <3>2. ChatEvents' = ChatEvents
      BY <2>4 DEF ChatEvents
    <3>3. Len(events) <= Len(events') /\ \A i \in ChatEvents : events'[i] = events[i]
      BY <1>4, <2>4
    <3>4. \A h \in Groups : members'[h] # {} => members[h] # {}
      BY <2>1
    <3>5. Quiet(NoTarget) /\ PutsOfSends'
      BY <1>3, <2>2, <3>2, <3>3, <3>4, QuietGroup
    <3> QED BY <3>1, <3>5
  <2> QED BY <2>1, <2>3, <2>4
<1> QED BY <1>7, <1>8, <1>9, <1>10, <1>11

----------------------------------------------------------------------------
\* The broadcast of a request.

\* What the broadcast of s changes besides the channel.
LEMMA BroadcastStep ==
    ASSUME TypeOK, NEW s \in Senders, Broadcast(s)
    PROVE  /\ UNCHANGED <<log, next, members, sess, client, odd>>
           /\ task[s].pc \in {"stored", "merged"} /\ Drawing(s) /\ ~Drawing(s)'
           /\ task'[s].guard = FALSE /\ task'[s].pc = "idle"
           /\ \A t \in Senders \ {s} : task'[t] = task[t]
           /\ late \subseteq late'
           /\ (\E i \in ChatEvents : events[i].mid > task[s].mid) => task[s].mid \in late'
<1>1. /\ UNCHANGED <<log, next, members, sess, client, odd>>
      /\ task[s].pc \in {"stored", "merged"} /\ task'[s] = IdleTask
      /\ \A t \in Senders \ {s} : task'[t] = task[t]
      /\ late' = IF \E m \in BroadcastMids : m > task[s].mid THEN late \cup {task[s].mid} ELSE late
  BY DEF Broadcast, TypeOK, dbVars
<1>2. \A i \in ChatEvents : events[i].mid \in BroadcastMids
  BY DEF ChatEvents, BroadcastMids
<1> QED BY <1>1, <1>2, IdleTaskFields DEF Drawing

\* The channel after the broadcast of s.
LEMMA BroadcastEvents ==
    ASSUME TypeOK, NEW s \in Senders, Broadcast(s)
    PROVE  /\ Len(events) \in Nat /\ DOMAIN events = 1..Len(events)
           /\ Len(events') = Len(events) + 1 /\ DOMAIN events' = 1..(Len(events) + 1)
           /\ \A i \in 1..Len(events) : events'[i] = events[i]
           /\ events'[Len(events) + 1].kind = "chat"
           /\ events'[Len(events) + 1].mid = task[s].mid
           /\ events'[Len(events) + 1].to = task[s].to
           /\ events'[Len(events) + 1].target = task[s].target
           /\ ChatEvents' = ChatEvents \cup {Len(events) + 1}
           /\ ChatEvents \subseteq 1..Len(events)
<1>1. task[s] \in BusyTask
  BY TaskFields DEF Broadcast
<1>2. Chat(s) \in Event /\ events' = Append(events, Chat(s))
  BY <1>1 DEF Chat, Event, BusyTask, Mid, Broadcast
<1>3. /\ Len(events) \in Nat /\ DOMAIN events = 1..Len(events)
      /\ Len(events') = Len(events) + 1 /\ DOMAIN events' = 1..(Len(events) + 1)
      /\ \A i \in 1..Len(events) : events'[i] = events[i]
      /\ events'[Len(events) + 1] = Chat(s)
  BY <1>2, AppendProperties, LenProperties DEF TypeOK
<1>4. /\ Chat(s).kind = "chat" /\ Chat(s).mid = task[s].mid /\ Chat(s).to = task[s].to
      /\ Chat(s).target = task[s].target
  BY DEF Chat
<1>5. ChatEvents' = ChatEvents \cup {Len(events) + 1}
  BY <1>3, <1>4 DEF ChatEvents
<1>6. ChatEvents \subseteq 1..Len(events)
  BY <1>3 DEF ChatEvents
<1> QED BY <1>3, <1>4, <1>5, <1>6

\* The mid that leaves the requests is new to the channel.
LEMMA BroadcastSends ==
    ASSUME TypeOK, MidInv, SendsInv, NEW s \in Senders, Broadcast(s)
    PROVE  SendsInv'
<1> DEFINE L == Len(events) + 1
<1>1. /\ Len(events) \in Nat /\ \A i \in 1..Len(events) : events'[i] = events[i]
      /\ events'[L].mid = task[s].mid /\ ChatEvents' = ChatEvents \cup {L}
      /\ ChatEvents \subseteq 1..Len(events)
  BY BroadcastEvents
<1>2. \A i \in ChatEvents : events'[i] = events[i] /\ i # L /\ ~(L < i) /\ i \in Nat
  BY <1>1
<1>3. Drawing(s) /\ \A t \in Senders : Drawing(t)' => Drawing(t) /\ t # s /\ task'[t] = task[t]
  BY BroadcastStep DEF Drawing
<1>4. odd' = odd /\ log' = log
  BY BroadcastStep
<1> HIDE DEF L
<1>5. SendsApart'
  BY <1>1, <1>2, <1>3, <1>4 DEF SendsInv, SendsApart
<1>6. ChatsApart'
  BY <1>1, <1>2, <1>3 DEF SendsInv, SendsApart, ChatsApart
<1>7. OvertakenLate'
  <2> SUFFICES ASSUME NEW i \in ChatEvents', NEW j \in ChatEvents', i < j,
                      events'[j].mid < events'[i].mid
               PROVE  events'[j].mid \in late'
    BY DEF OvertakenLate
  <2>1. i \in ChatEvents
    BY <1>1, <1>2, L \in Nat DEF L
  <2>2. CASE j \in ChatEvents
    BY <1>2, <2>1, <2>2, BroadcastStep DEF SendsInv, OvertakenLate
  <2>3. CASE j = L
    <3>1. events[i].mid > task[s].mid
      <4>1. events[i].mid \in Nat /\ task[s].mid \in Nat
        BY <2>1, ChatFields, TaskFields
      <4> QED BY <1>1, <1>2, <2>1, <2>3, <4>1
    <3> QED BY <1>1, <2>1, <2>3, <3>1, BroadcastStep
  <2> QED BY <1>1, <2>2, <2>3
<1>8. PutsOfSends'
  <2>1. \A t \in Senders : task'[t].pc \in {"stored", "merged"} => task'[t] = task[t]
    BY <1>3 DEF Drawing
  <2> QED BY <1>4, <2>1 DEF SendsInv, PutsOfSends
<1> QED BY <1>5, <1>6, <1>7, <1>8 DEF SendsInv

\* A request that holds its guard sends to members only, so to nobody who was
\* removed and did not join again.
LEMMA BroadcastKicks ==
    ASSUME TypeOK, TargetsCurrent, SendsInv, KicksInv, NEW s \in Senders, Broadcast(s)
    PROVE  KicksInv'
<1> DEFINE L == Len(events) + 1
<1>1. /\ Len(events) \in Nat /\ DOMAIN events = 1..Len(events)
      /\ Len(events') = L /\ DOMAIN events' = 1..L
      /\ \A i \in 1..Len(events) : events'[i] = events[i]
      /\ events'[L].kind = "chat" /\ events'[L].mid = task[s].mid
      /\ events'[L].to = task[s].to /\ events'[L].target = task[s].target
  BY BroadcastEvents
<1>2. members' = members /\ odd' = odd /\ Drawing(s)
  BY BroadcastStep
<1>3. \A i \in 1..L : i \in 1..Len(events) \/ i = L
  BY <1>1
<1>4. \A i \in 1..Len(events) : i..Len(events) \subseteq i..L /\ i..Len(events) \subseteq 1..Len(events)
  BY <1>1
<1>5. \A i \in 1..Len(events) : \A g, u : Rejoined(g, u, i, Len(events)) =>
         \E k \in i..Len(events) : k \in i..L /\ k \in 1..Len(events) /\ events'[k] = events[k]
            /\ events[k].kind = "join" /\ events[k].target = g /\ u \in events[k].to
  BY <1>1, <1>4 DEF Rejoined
<1> HIDE DEF L
<1>6. KicksStand'
  <2> SUFFICES ASSUME NEW i \in 1..L, events'[i].kind = "kick"
               PROVE  /\ events'[i].target \in Groups
                      /\ \A u \in events'[i].to : u \in members'[events'[i].target] =>
                            Rejoined(events[i].target, u, i, Len(events))'
    BY <1>1 DEF KicksStand
  <2>1. i \in 1..Len(events) /\ events'[i] = events[i]
    BY <1>1, <1>3
  <2>2. events[i].target \in Groups
    BY <1>1, <2>1 DEF KicksInv, KicksStand
  <2>3. ASSUME NEW u \in events[i].to, u \in members[events[i].target]
        PROVE  Rejoined(events[i].target, u, i, Len(events))'
    <3>1. Rejoined(events[i].target, u, i, Len(events))
      BY <1>1, <2>1, <2>3 DEF KicksInv, KicksStand
    <3>2. PICK k \in i..Len(events) :
             /\ k \in i..L /\ events'[k] = events[k] /\ events[k].kind = "join"
             /\ events[k].target = events[i].target /\ u \in events[k].to
      BY <1>5, <2>1, <3>1
    <3>3. k \in i..Len(events')
      BY <1>1, <3>2
    <3> QED BY <2>1, <3>2, <3>3 DEF Rejoined
  <2> QED BY <1>2, <2>1, <2>2, <2>3
<1>7. NothingAfterKick'
  <2> SUFFICES ASSUME NEW i \in 1..L, NEW j \in 1..L, i < j,
                      events'[i].kind = "kick", events'[j].kind = "chat",
                      events'[j].target = events'[i].target, events'[j].mid \notin odd,
                      NEW u \in events'[i].to \cap events'[j].to
               PROVE  \E k \in i..j : /\ events'[k].kind = "join"
                                      /\ events'[k].target = events'[i].target
                                      /\ u \in events'[k].to
    BY <1>1, <1>2 DEF NothingAfterKick
  <2>1. i \in 1..Len(events) /\ events'[i] = events[i]
    BY <1>1, <1>3
  <2>2. CASE j \in 1..Len(events)
    <3>1. events'[j] = events[j] /\ \A k \in i..j : k \in 1..Len(events) /\ events'[k] = events[k]
      BY <1>1, <2>1, <2>2
    <3>2. \E k \in i..j : events[k].kind = "join" /\ events[k].target = events[i].target
                          /\ u \in events[k].to
      BY <1>1, <2>1, <2>2, <3>1 DEF KicksInv, NothingAfterKick
    <3> QED BY <2>1, <3>1, <3>2
  <2>3. CASE j = L
    <3>1. task[s].target = events[i].target /\ u \in task[s].to /\ u \in events[i].to
          /\ task[s].mid \notin odd
      BY <1>1, <2>1, <2>3
    <3>2. task[s].guard /\ events[i].target \in Groups
      BY <1>1, <1>2, <2>1, <3>1 DEF SendsInv, SendsApart, KicksInv, KicksStand
    <3>3. u \in members[events[i].target]
      BY <3>1, <3>2 DEF TargetsCurrent
    <3>4. Rejoined(events[i].target, u, i, Len(events))
      BY <1>1, <2>1, <3>1, <3>3 DEF KicksInv, KicksStand
    <3> QED BY <1>5, <2>1, <2>3, <3>4
  <2> QED BY <1>3, <2>2, <2>3
<1> QED BY <1>6, <1>7 DEF KicksInv

\* What was on its way is in the channel now, ahead of every stream.
LEMMA BroadcastStream ==
    ASSUME TypeOK, MidInv, SendsInv, NEW s \in Senders, Broadcast(s), NEW u \in Users, StreamInv(u)
    PROVE  StreamInv(u)'
<1> DEFINE L == Len(events) + 1
<1>1. /\ Len(events) \in Nat /\ Len(events') = L
      /\ \A i \in 1..Len(events) : events'[i] = events[i]
      /\ events'[L].mid = task[s].mid /\ events'[L].to = task[s].to
      /\ ChatEvents' = ChatEvents \cup {L} /\ ChatEvents \subseteq 1..Len(events)
  BY BroadcastEvents
<1>2. /\ UNCHANGED <<log, next, members, sess, odd>> /\ Drawing(s) /\ late \subseteq late'
      /\ task[s].pc \in {"stored", "merged"} /\ task'[s].guard = FALSE
      /\ \A t \in Senders \ {s} : task'[t] = task[t]
      /\ ~Drawing(s)'
  BY BroadcastStep
<1>3. \A i \in ChatEvents : events'[i] = events[i]
  BY <1>1
<1>4. Pushed(u)' = Pushed(u) /\ Wanted(u)' = Wanted(u)
  BY <1>2 DEF Pushed, Wanted
<1>5. L \in Nat /\ Len(events) <= L /\ sess[u].cursor \in Nat /\ sess[u].cursor <= Len(events)
  BY <1>1, StreamFields DEF StreamInv, StreamPlace
<1> HIDE DEF L
<1>6. \A t \in Senders : Drawing(t)' => Drawing(t) /\ task'[t].mid = task[t].mid
  BY <1>2 DEF Drawing
<1>7. StreamPlace(u)'
  <2>1. sess[u].cursor <= Len(events')
    BY <1>1, <1>5
  <2>2. ASSUME sess[u].st = "subscribing"
        PROVE  ~ReadLocked' /\ task[s].mid \in odd
    <3>1. ~ReadLocked
      BY <2>2 DEF StreamInv, StreamPlace
    <3> QED BY <1>2, <3>1 DEF ReadLocked, SendsInv, SendsApart
  <2>3. \A i \in ChatEvents' : sess[u].st = "subscribing" /\ i > sess[u].cursor => events'[i].mid \in odd
    BY <1>1, <1>3, <2>2 DEF StreamInv, StreamPlace
  <2> QED BY <1>2, <2>1, <2>2, <2>3 DEF StreamInv, StreamPlace
<1>8. SnapshotOld(u)'
  BY <1>2 DEF StreamInv, SnapshotOld
<1>9. AheadAbove(u)'
  BY <1>1, <1>2, <1>3, <1>6 DEF StreamInv, AheadAbove
<1>10. LiveRead(u)' /\ LiveOrder(u)'
  BY <1>1, <1>2, <1>3 DEF StreamInv, LiveRead, LiveOrder
<1>11. NoGap(u)'
  <2> SUFFICES ASSUME sess[u].st = "open", NEW i \in Wanted(u)
               PROVE  \/ log[i].mid <= sess[u].after \/ log[i].mid <= sess[u].cut
                      \/ log[i].mid \in odd \cup Pushed(u)
                      \/ OnItsWay(log[i].mid)' \/ InChannel(u, log[i].mid)'
    BY <1>2, <1>4 DEF NoGap
  <2> PICK m : m = log[i].mid
    OBVIOUS
  <2>1. \/ m <= sess[u].after \/ m <= sess[u].cut \/ m \in odd \cup Pushed(u)
        \/ OnItsWay(m) \/ InChannel(u, m)
    BY DEF StreamInv, NoGap
  <2>2. InChannel(u, m) => InChannel(u, m)'
    BY <1>1, <1>2, <1>3 DEF InChannel
  <2>3. ASSUME OnItsWay(m)
        PROVE  OnItsWay(m)' \/ InChannel(u, m)'
    <3>1. CASE m = task[s].mid
      <4>1. i \in Puts(log) /\ u \in log[i].to
        BY WantedFields DEF Wanted
      <4>2. u \in task[s].to
        BY <1>2, <3>1, <4>1 DEF SendsInv, PutsOfSends
      <4>3. L > sess[u].cursor
        BY <1>1, <1>5 DEF L
      <4> QED BY <1>1, <1>2, <3>1, <4>2, <4>3 DEF InChannel
    <3>2. CASE m # task[s].mid
      BY <1>2, <2>3, <3>2 DEF OnItsWay, Drawing
    <3> QED BY <3>1, <3>2
  <2>4. (OnItsWay(m)' <=> OnItsWay(log[i].mid)') /\ (InChannel(u, m)' <=> InChannel(u, log[i].mid)')
    BY <1>2
  <2> QED BY <2>1, <2>2, <2>3, <2>4
<1> QED BY <1>7, <1>8, <1>9, <1>10, <1>11 DEF StreamInv

\* A mid the app has passed is overtaken when it is broadcast.
LEMMA BroadcastClient ==
    ASSUME TypeOK, MidInv, SendsInv, NEW s \in Senders, Broadcast(s), NEW u \in Users, ClientInv(u)
    PROVE  ClientInv(u)'
<1>1. /\ \A i \in ChatEvents : events'[i] = events[i]
      /\ ChatEvents \subseteq ChatEvents'
  BY BroadcastEvents
<1>2. /\ UNCHANGED <<log, next, members, sess, client, odd>> /\ Drawing(s) /\ late \subseteq late'
      /\ \A t \in Senders \ {s} : task'[t] = task[t]
      /\ ~Drawing(s)'
      /\ (\E i \in ChatEvents : events[i].mid > task[s].mid) => task[s].mid \in late'
  BY BroadcastStep
<1>3. ClientPlace(u)' /\ NextNew(u)'
  BY <1>2 DEF ClientInv, ClientPlace, NextNew
<1>4. DrawnNew(u)'
  <2>1. \A t \in Senders : Drawing(t)' => Drawing(t) /\ task'[t].mid = task[t].mid
    BY <1>2 DEF Drawing
  <2> QED BY <1>1, <1>2, <2>1 DEF ClientInv, DrawnNew
<1>5. AppKnows(u)'
  <2>1. Wanted(u)' = Wanted(u)
    BY <1>2 DEF Wanted
  <2> SUFFICES ASSUME NEW i \in Wanted(u), log[i].mid <= client[u].last
               PROVE  \/ log[i].mid <= client[u].cut
                      \/ log[i].mid \in odd \cup late' \cup client[u].seen
                      \/ OnItsWay(log[i].mid)'
    BY <1>2, <2>1 DEF AppKnows
  <2> PICK m : m = log[i].mid
    OBVIOUS
  <2>2. m <= client[u].cut \/ m \in odd \cup late \cup client[u].seen \/ OnItsWay(m)
    BY DEF ClientInv, AppKnows
  <2>3. ASSUME OnItsWay(m), m \notin odd \cup late'
        PROVE  OnItsWay(m)'
    <3>1. CASE m = task[s].mid
      <4>1. m \in Nat /\ client[u].last \in Nat
        BY WantedFields, StreamFields
      <4> QED BY <1>2, <2>3, <3>1, <4>1 DEF ClientInv, DrawnNew
    <3>2. CASE m # task[s].mid
      BY <1>2, <2>3, <3>2 DEF OnItsWay, Drawing
    <3> QED BY <3>1, <3>2
  <2>4. OnItsWay(m)' <=> OnItsWay(log[i].mid)'
    BY <1>2
  <2> QED BY <1>2, <2>2, <2>3, <2>4
<1> QED BY <1>3, <1>4, <1>5 DEF ClientInv

\* A request that does not broadcast leaves the notices as they are.
LEMMA KicksUnchanged ==
    ASSUME KicksInv, UNCHANGED <<members, events>>, odd \subseteq odd'
    PROVE  KicksInv'
  BY DEF KicksInv, KicksStand, NothingAfterKick, Rejoined

----------------------------------------------------------------------------
\* The streams.

\* What a step of one stream leaves to the others.
LEMMA OthersStay ==
    ASSUME UNCHANGED <<log, next, members, task, events, odd, late>>, NEW v \in Users,
           sess'[v] = sess[v], client'[v] = client[v], UserInv(v),
           ReadLocked' = ReadLocked
    PROVE  UserInv(v)'
<1>1. StreamPlace(v)' /\ SnapshotOld(v)' /\ AheadAbove(v)' /\ LiveRead(v)' /\ LiveOrder(v)'
  BY DEF UserInv, StreamInv, StreamPlace, SnapshotOld, AheadAbove, LiveRead, LiveOrder,
         ChatEvents, Drawing, ReadLocked
<1>2. Wanted(v)' = Wanted(v) /\ Pushed(v)' = Pushed(v) /\ ChatEvents' = ChatEvents
  BY DEF Wanted, Pushed, ChatEvents
<1>3. \A m : (OnItsWay(m)' <=> OnItsWay(m)) /\ (InChannel(v, m)' <=> InChannel(v, m))
  BY <1>2 DEF OnItsWay, InChannel, Drawing
<1>4. NoGap(v)'
  <2> SUFFICES ASSUME sess[v].st = "open", NEW i \in Wanted(v)
               PROVE  \/ log[i].mid <= sess[v].after \/ log[i].mid <= sess[v].cut
                      \/ log[i].mid \in odd \cup Pushed(v)
                      \/ OnItsWay(log[i].mid)' \/ InChannel(v, log[i].mid)'
    BY <1>2 DEF NoGap
  <2> PICK m : m = log[i].mid
    OBVIOUS
  <2>1. \/ m <= sess[v].after \/ m <= sess[v].cut \/ m \in odd \cup Pushed(v)
        \/ OnItsWay(m) \/ InChannel(v, m)
    BY DEF UserInv, StreamInv, NoGap
  <2>2. OnItsWay(m)' \/ InChannel(v, m)' => OnItsWay(log[i].mid)' \/ InChannel(v, log[i].mid)'
    OBVIOUS
  <2> QED BY <1>3, <2>1, <2>2
<1>5. ClientPlace(v)' /\ NextNew(v)' /\ DrawnNew(v)'
  BY DEF UserInv, ClientInv, ClientPlace, NextNew, DrawnNew, Drawing, ChatEvents
<1>6. AppKnows(v)'
  <2> SUFFICES ASSUME NEW i \in Wanted(v), log[i].mid <= client[v].last
               PROVE  \/ log[i].mid <= client[v].cut
                      \/ log[i].mid \in odd \cup late \cup client[v].seen
                      \/ OnItsWay(log[i].mid)'
    BY <1>2 DEF AppKnows
  <2> PICK m : m = log[i].mid
    OBVIOUS
  <2>1. m <= client[v].cut \/ m \in odd \cup late \cup client[v].seen \/ OnItsWay(m)
    BY DEF UserInv, ClientInv, AppKnows
  <2>2. OnItsWay(m)' => OnItsWay(log[i].mid)'
    OBVIOUS
  <2> QED BY <1>3, <2>1, <2>2
<1> QED BY <1>1, <1>4, <1>5, <1>6 DEF UserInv, StreamInv, ClientInv

\* What does not depend on the streams.
LEMMA StreamKeepsSends ==
    ASSUME UNCHANGED <<log, next, members, task, events, odd, late>>, SendsInv, KicksInv
    PROVE  SendsInv' /\ KicksInv'
<1>1. SendsInv'
  BY DEF SendsInv, SendsApart, ChatsApart, OvertakenLate, PutsOfSends, ChatEvents, Drawing
<1> QED BY <1>1, KicksUnchanged

\* No request holds its guard at a subscription, and nothing is ahead of the stream.
LEMMA SubscribeUser ==
    ASSUME TypeOK, NEW u \in Users, Subscribe(u), UserInv(u)
    PROVE  UserInv(u)'
<1>1. UNCHANGED <<log, next, members, task, events, client, odd, late>> /\ ~ReadLocked
  BY DEF Subscribe, dbVars, CanWrite
<1>2. /\ sess'[u].st = "subscribing" /\ sess'[u].cursor = Len(events)
      /\ sess'[u].after = client[u].last /\ sess'[u].start = 0 /\ sess'[u].cut = 0
      /\ sess'[u].snap = {} /\ sess'[u].live = <<>> /\ DOMAIN sess'[u].live = {}
  BY ClosedFields DEF Subscribe, TypeOK, ClosedSession
<1>3. Len(events) \in Nat /\ ChatEvents' = ChatEvents
      /\ \A i \in ChatEvents : i \in Nat /\ ~(i > Len(events))
  BY <1>1, ChatFields DEF ChatEvents
<1>4. StreamPlace(u)'
  BY <1>1, <1>2, <1>3 DEF StreamPlace, ReadLocked
<1>5. SnapshotOld(u)' /\ AheadAbove(u)' /\ LiveRead(u)' /\ LiveOrder(u)' /\ NoGap(u)'
  BY <1>2 DEF SnapshotOld, AheadAbove, LiveRead, LiveOrder, NoGap
<1>6. ClientPlace(u)'
  <2>1. client[u].cut \in Nat
    BY StreamFields
  <2> QED BY <1>1, <1>2, <2>1 DEF ClientPlace
<1>7. NextNew(u)' /\ DrawnNew(u)' /\ AppKnows(u)'
  BY <1>1 DEF UserInv, ClientInv, NextNew, DrawnNew, AppKnows, Wanted, OnItsWay, Drawing, ChatEvents
<1> QED BY <1>4, <1>5, <1>6, <1>7 DEF UserInv, StreamInv, ClientInv

\* A closed stream has nothing to answer for.
LEMMA ClosedStream ==
    ASSUME NEW u \in Users, sess'[u] = ClosedSession, Len(events') \in Nat
    PROVE  StreamInv(u)' /\ ClientPlace(u)'
<1>1. StreamPlace(u)' /\ ClientPlace(u)'
  BY ClosedFields DEF StreamPlace, ClientPlace
<1>2. SnapshotOld(u)' /\ AheadAbove(u)' /\ LiveRead(u)' /\ LiveOrder(u)' /\ NoGap(u)'
  BY ClosedFields DEF SnapshotOld, AheadAbove, LiveRead, LiveOrder, NoGap
<1> QED BY <1>1, <1>2 DEF StreamInv

\* The stream is closed again, the app is as it was.
LEMMA SubscribeFailsUser ==
    ASSUME TypeOK, NEW u \in Users, SubscribeFails(u), UserInv(u)
    PROVE  UserInv(u)'
<1>1. UNCHANGED <<log, next, members, task, events, client, odd, late>> /\ sess'[u] = ClosedSession
  BY DEF SubscribeFails, dbVars, TypeOK
<1>2. StreamInv(u)' /\ ClientPlace(u)'
  BY <1>1, ChatFields, ClosedStream
<1>3. NextNew(u)' /\ DrawnNew(u)' /\ AppKnows(u)'
  BY <1>1 DEF UserInv, ClientInv, NextNew, DrawnNew, AppKnows, Wanted, OnItsWay, Drawing, ChatEvents
<1> QED BY <1>2, <1>3 DEF UserInv, ClientInv

----------------------------------------------------------------------------
\* The snapshot.

\* The least distance from the bound is that of the largest member.
LEMMA LargestBelow ==
    ASSUME NEW n \in Nat, NEW S, S \subseteq Nat, \A m \in S : m < n, S # {}
    PROVE  \E x \in S : \A y \in S : y <= x
<1> DEFINE T == {n - x : x \in S}
<1>1. T \subseteq Nat /\ T # {}
  <2>1. \A x \in S : n - x \in Nat /\ n - x \in T
    OBVIOUS
  <2>2. PICK x \in S : TRUE
    OBVIOUS
  <2> QED BY <2>1, <2>2
<1>2. PICK t \in T : \A r \in T : <<r, t>> \notin OpToRel(<, Nat)
  BY <1>1, NatLessThanWellFounded, WFMin
<1>3. \A r \in T : ~(r < t)
  BY <1>1, <1>2 DEF OpToRel
<1>4. PICK x \in S : t = n - x
  BY <1>2
<1>5. \A y \in S : y <= x
  <2> SUFFICES ASSUME NEW y \in S PROVE y <= x
    OBVIOUS
  <2>1. n - y \in T
    OBVIOUS
  <2>2. ~(n - y < n - x)
    BY <1>3, <1>4, <2>1
  <2>3. x \in Nat /\ y \in Nat
    BY <1>4
  <2> QED BY <2>2, <2>3
<1> QED BY <1>5

\* Newest finds the largest member where the members are bounded.
LEMMA NewestIsLargest ==
    ASSUME NEW n \in Nat, NEW S, S \subseteq Nat, \A m \in S : m < n
    PROVE  Newest(S) \in {0} \cup S /\ \A m \in S : m <= Newest(S)
<1>1. CASE S = {}
  BY <1>1 DEF Newest
<1>2. CASE S # {}
  <2>1. PICK x \in S : \A y \in S : y <= x
    BY <1>2, LargestBelow
  <2>2. Newest(S) \in S /\ \A y \in S : y <= Newest(S)
    BY <2>1 DEF Newest
  <2> QED BY <2>2
<1> QED BY <1>1, <1>2

\* What u can read after a mid is in the snapshot, or newer messages hide it.
LEMMA SnapshotOrHidden ==
    ASSUME TypeOK, NEW u \in Users, NEW i \in Wanted(u), log[i].mid > sess[u].after
    PROVE  i \in NewestMessages(u) \/ i \in Hidden(u)
<1> DEFINE refs == UserMessages(log, u, sess[u].after)
           above == {j \in refs : log[j].mid > log[i].mid}
<1>1. i \in refs
  BY DEF Wanted, UserMessages
<1>2. Cardinality(above) \in Nat
  <2>1. log \in Seq(Write) /\ Len(log) \in Nat
    BY LenProperties DEF TypeOK, DbTypeOK
  <2>2. above \subseteq 1..Len(log)
    BY <2>1, PutsInDomain DEF UserMessages, Stored
  <2>3. IsFiniteSet(1..Len(log))
    BY <2>1, FS_Interval, 1 \in Int, Len(log) \in Int
  <2>4. IsFiniteSet(above)
    BY <2>2, <2>3, FS_Subset
  <2> QED BY <2>4, FS_CardinalityType
<1>3. Cardinality(above) < NewestLimit \/ Cardinality(above) >= NewestLimit
  BY <1>2, DeliveryAssumption
<1>4. CASE Cardinality(above) < NewestLimit
  <2>1. i \in FetchUserMessagesAfter(log, u, sess[u].after, NewestLimit)
    BY <1>1, <1>4 DEF FetchUserMessagesAfter
  <2> QED BY <2>1 DEF NewestMessages, Wanted
<1>5. CASE Cardinality(above) >= NewestLimit
  BY <1>1, <1>5 DEF Hidden
<1> QED BY <1>3, <1>4, <1>5

\* Mids of stored messages, and the newest of them.
LEMMA SnapshotMids ==
    ASSUME TypeOK, MidInv, NEW W, W \subseteq Puts(log)
    PROVE  /\ MidsOf(W) \subseteq Nat /\ \A m \in MidsOf(W) : m < next
           /\ Newest(MidsOf(W)) \in Nat
           /\ Newest(MidsOf(W)) \in {0} \cup MidsOf(W)
           /\ \A i \in W : log[i].mid \in MidsOf(W) /\ log[i].mid <= Newest(MidsOf(W))
<1>1. MidsOf(W) \subseteq Nat /\ \A m \in MidsOf(W) : m < next
  BY MidsSmall DEF MidsOf
<1>2. \A i \in W : log[i].mid \in MidsOf(W)
  BY DEF MidsOf
<1> QED BY <1>1, <1>2, MidsSmall, NewestIsLargest

\* The snapshot carries what is stored, and all that is still ahead is newer or odd.
LEMMA SnapshotUser ==
    ASSUME TypeOK, MidInv, SendsInv, NEW u \in Users, Snapshot(u), UserInv(u)
    PROVE  UserInv(u)'
<1> DEFINE snap == MidsOf(NewestMessages(u))
           cut == Newest(MidsOf(Hidden(u)))
<1>1. NewestMessages(u) \subseteq Puts(log) /\ Hidden(u) \subseteq Puts(log)
  BY DEF NewestMessages, Hidden, FetchUserMessagesAfter, UserMessages, Stored
<1>2. /\ snap \subseteq Nat /\ \A n \in snap : n < next
      /\ Newest(snap) \in {0} \cup snap
      /\ \A i \in NewestMessages(u) : log[i].mid \in snap
  BY <1>1, SnapshotMids
<1>3. cut \in Nat /\ \A i \in Hidden(u) : log[i].mid <= cut
  BY <1>1, SnapshotMids
<1>4. /\ UNCHANGED <<log, next, members, task, events, odd, late>> /\ sess[u].st = "subscribing"
      /\ sess' = [sess EXCEPT ![u] =
                    [@ EXCEPT !.st = "open", !.start = Newest(snap), !.snap = snap, !.cut = cut]]
      /\ client' = [client EXCEPT ![u].cut = IF cut > @ THEN cut ELSE @]
  BY DEF Snapshot, dbVars
<1> HIDE DEF snap, cut
<1>5. /\ sess'[u].st = "open" /\ sess'[u].cursor = sess[u].cursor
      /\ sess'[u].after = sess[u].after /\ sess'[u].live = sess[u].live
      /\ sess'[u].snap = snap /\ sess'[u].cut = cut /\ sess'[u].start = Newest(snap)
  BY <1>4 DEF TypeOK, Session
<1>6. /\ client'[u].last = client[u].last /\ client'[u].seen = client[u].seen
      /\ client'[u].cut \in Nat /\ client[u].cut <= client'[u].cut /\ cut <= client'[u].cut
  BY <1>3, <1>4 DEF TypeOK, Client, Mid
<1>7. /\ sess[u].live = <<>> /\ DOMAIN sess[u].live = {} /\ ~ReadLocked
      /\ sess[u].cursor <= Len(events)
      /\ \A i \in ChatEvents : i > sess[u].cursor => events[i].mid \in odd
      /\ sess[u].after = client[u].last
  BY <1>4, StreamFields DEF UserInv, StreamInv, StreamPlace, ClientInv, ClientPlace
<1>8. StreamPlace(u)' /\ SnapshotOld(u)' /\ LiveRead(u)' /\ LiveOrder(u)'
  BY <1>2, <1>4, <1>5, <1>7 DEF StreamPlace, SnapshotOld, LiveRead, LiveOrder
<1>9. AheadAbove(u)'
  <2>1. \A s \in Senders : Drawing(s)' => task[s].mid \in odd
    BY <1>4, <1>7 DEF ReadLocked, SendsInv, SendsApart, Drawing
  <2>2. ChatEvents' = ChatEvents
    BY <1>4 DEF ChatEvents
  <2> QED BY <1>4, <1>5, <1>7, <2>1, <2>2 DEF AheadAbove
<1>10. NoGap(u)'
  <2> SUFFICES ASSUME NEW i \in Wanted(u)
               PROVE  \/ log[i].mid <= sess[u].after \/ log[i].mid <= cut
                      \/ log[i].mid \in Pushed(u)'
    BY <1>4, <1>5 DEF NoGap, Wanted
  <2>1. log[i].mid \in Nat /\ sess[u].after \in Nat
    BY WantedFields, StreamFields
  <2>2. CASE log[i].mid > sess[u].after
    <3>1. log[i].mid \in snap \/ log[i].mid <= cut
      BY <1>2, <1>3, <2>2, SnapshotOrHidden
    <3> QED BY <1>5, <3>1 DEF Pushed
  <2> QED BY <2>1, <2>2
<1>11. ClientPlace(u)'
  BY <1>5, <1>6, <1>7 DEF ClientPlace
<1>12. AppKnows(u)'
  <2>1. Wanted(u)' = Wanted(u)
    BY <1>4 DEF Wanted
  <2> SUFFICES ASSUME NEW i \in Wanted(u), log[i].mid <= client[u].last
               PROVE  \/ log[i].mid <= client'[u].cut
                      \/ log[i].mid \in odd \cup late \cup client[u].seen
                      \/ OnItsWay(log[i].mid)'
    BY <1>4, <1>6, <2>1 DEF AppKnows
  <2> PICK m : m = log[i].mid
    OBVIOUS
  <2>2. m <= client[u].cut \/ m \in odd \cup late \cup client[u].seen \/ OnItsWay(m)
    BY DEF UserInv, ClientInv, AppKnows
  <2>3. m \in Nat /\ client[u].cut \in Nat
    BY WantedFields, StreamFields
  <2>4. OnItsWay(m) => OnItsWay(m)'
    BY <1>4 DEF OnItsWay, Drawing
  <2>5. OnItsWay(m)' => OnItsWay(log[i].mid)'
    BY <1>4
  <2> QED BY <1>6, <2>2, <2>3, <2>4, <2>5
<1>13. NextNew(u)' /\ DrawnNew(u)'
  BY <1>4, <1>6 DEF UserInv, ClientInv, NextNew, DrawnNew, Drawing, ChatEvents
<1> QED BY <1>8, <1>9, <1>10, <1>11, <1>12, <1>13 DEF UserInv, StreamInv, ClientInv

----------------------------------------------------------------------------
\* A turn of events_loop.

\* The next event of the stream of u is pushed.
Pushes(u, e) == e.kind = "chat" /\ u \in e.to /\ e.mid > sess[u].start

\* What a turn of events_loop changes.
LEMMA ReceiveStep ==
    ASSUME TypeOK, NEW u \in Users, Receive(u)
    PROVE  LET e == events[sess[u].cursor + 1]
           IN /\ UNCHANGED <<log, next, members, task, events, client, odd, late>>
              /\ sess[u].st = "open" /\ sess[u].cursor + 1 \in 1..Len(events)
              /\ sess'[u].st = "open" /\ sess'[u].cursor = sess[u].cursor + 1
              /\ sess'[u].after = sess[u].after /\ sess'[u].cut = sess[u].cut
              /\ sess'[u].snap = sess[u].snap
              /\ Pushes(u, e) => sess'[u].start = 0 /\ sess'[u].live = Append(sess[u].live, e.mid)
              /\ ~Pushes(u, e) => sess'[u].start = sess[u].start /\ sess'[u].live = sess[u].live
<1> DEFINE e == events[sess[u].cursor + 1]
           start == IF Pushes(u, e) THEN 0 ELSE sess[u].start
           live == IF Pushes(u, e) THEN Append(sess[u].live, e.mid) ELSE sess[u].live
           new == [sess[u] EXCEPT !.cursor = @ + 1, !.start = start, !.live = live]
<1>1. /\ UNCHANGED <<log, next, members, task, events, client, odd, late>>
      /\ sess[u].st = "open" /\ sess[u].cursor < Len(events)
      /\ sess' = [sess EXCEPT ![u] = new]
  BY DEF Receive, Pushes, dbVars
<1>2. sess[u] \in Session /\ sess[u].cursor \in Nat /\ Len(events) \in Nat
  BY StreamFields, ChatFields DEF TypeOK
<1> HIDE DEF e, start, live
<1>3. /\ new.st = sess[u].st /\ new.cursor = sess[u].cursor + 1 /\ new.after = sess[u].after
      /\ new.cut = sess[u].cut /\ new.snap = sess[u].snap /\ new.start = start /\ new.live = live
  BY <1>2 DEF Session
<1> HIDE DEF new
<1>4. sess'[u] = new
  BY <1>1 DEF TypeOK
<1>5. sess[u].cursor + 1 \in 1..Len(events)
  BY <1>1, <1>2
<1> QED BY <1>1, <1>3, <1>4, <1>5 DEF e, start, live

\* A turn pushes what the snapshot does not cover, and only that.
LEMMA ReceiveUser ==
    ASSUME TypeOK, MidInv, SendsInv, NEW u \in Users, Receive(u), UserInv(u)
    PROVE  UserInv(u)'
<1> PICK c : c = sess[u].cursor
  OBVIOUS
<1> PICK e : e = events[c + 1]
  OBVIOUS
<1> PICK old : old = sess[u].live
  OBVIOUS
<1>1. /\ UNCHANGED <<log, next, members, task, events, client, odd, late>>
      /\ sess[u].st = "open" /\ c + 1 \in 1..Len(events)
      /\ sess'[u].st = "open" /\ sess'[u].cursor = c + 1
      /\ sess'[u].after = sess[u].after /\ sess'[u].cut = sess[u].cut
      /\ sess'[u].snap = sess[u].snap
      /\ Pushes(u, e) => sess'[u].start = 0 /\ sess'[u].live = Append(old, e.mid)
      /\ ~Pushes(u, e) => sess'[u].start = sess[u].start /\ sess'[u].live = old
  BY ReceiveStep
<1>2. /\ c \in Nat /\ Len(events) \in Nat /\ DOMAIN events = 1..Len(events)
      /\ ChatEvents \subseteq 1..Len(events) /\ ChatEvents' = ChatEvents
      /\ \A i \in ChatEvents : events[i].mid \in Nat
  BY <1>1, StreamFields, ChatFields DEF ChatEvents
<1>3. Pushes(u, e) => c + 1 \in ChatEvents /\ e.mid \in Nat
  BY <1>1, <1>2 DEF Pushes, ChatEvents
<1>4. /\ old \in Seq(Nat) /\ Len(old) \in Nat /\ DOMAIN old = 1..Len(old)
      /\ \A a \in 1..Len(old) : old[a] \in Nat
      /\ sess[u].snap \subseteq Nat /\ sess[u].start \in Nat
  BY StreamFields
<1>5. Pushes(u, e) => /\ DOMAIN sess'[u].live = 1..(Len(old) + 1)
                      /\ \A a \in 1..Len(old) : sess'[u].live[a] = old[a]
                      /\ sess'[u].live[Len(old) + 1] = e.mid
  <2>1. ASSUME Pushes(u, e)
        PROVE  /\ Append(old, e.mid) \in Seq(Nat)
               /\ Len(Append(old, e.mid)) = Len(old) + 1
               /\ \A a \in 1..Len(old) : Append(old, e.mid)[a] = old[a]
               /\ Append(old, e.mid)[Len(old) + 1] = e.mid
    BY <1>3, <1>4, <2>1, AppendProperties
  <2> QED BY <1>1, <2>1, LenProperties
<1>6. StreamPlace(u)' /\ SnapshotOld(u)' /\ AheadAbove(u)'
  <2>1. StreamPlace(u)'
    BY <1>1, <1>2 DEF StreamPlace
  <2>2. SnapshotOld(u)'
    BY <1>1 DEF UserInv, StreamInv, SnapshotOld
  <2>3. \A i \in ChatEvents : i > c + 1 => i > c
    BY <1>2
  <2>4. AheadAbove(u)'
    BY <1>1, <1>2, <2>3 DEF UserInv, StreamInv, AheadAbove, Drawing
  <2> QED BY <2>1, <2>2, <2>4
<1>7. \A a \in DOMAIN old : \E i \in ChatEvents : i <= c /\ events[i].mid = old[a]
  BY DEF UserInv, StreamInv, LiveRead
<1>8. LiveRead(u)'
  <2> SUFFICES ASSUME NEW a \in DOMAIN sess'[u].live
               PROVE  \E i \in ChatEvents : i <= c + 1 /\ events[i].mid = sess'[u].live[a]
    BY <1>1, <1>2 DEF LiveRead
  <2>1. CASE a \in DOMAIN old
    <3>1. sess'[u].live[a] = old[a]
      BY <1>1, <1>4, <1>5, <2>1
    <3>2. \A i \in ChatEvents : i <= c => i <= c + 1
      BY <1>2
    <3> QED BY <1>7, <2>1, <3>1, <3>2
  <2>2. CASE a \notin DOMAIN old
    <3>1. Pushes(u, e)
      BY <1>1, <2>2
    <3>2. a \in 1..(Len(old) + 1)
      BY <1>5, <3>1
    <3>3. a = Len(old) + 1
      BY <1>4, <2>2, <3>2
    <3>4. sess'[u].live[a] = events[c + 1].mid /\ c + 1 \in ChatEvents /\ c + 1 <= c + 1
      BY <1>2, <1>3, <1>5, <3>1, <3>3
    <3> QED BY <3>4
  <2> QED BY <2>1, <2>2
<1>9. LiveOrder(u)'
  <2>1. CASE ~Pushes(u, e)
    BY <1>1, <2>1 DEF UserInv, StreamInv, LiveOrder
  <2>2. CASE Pushes(u, e)
    <3>1. c + 1 > c /\ e.mid \in Nat /\ c + 1 \in ChatEvents
      BY <1>2, <1>3, <2>2
    <3>2. e.mid \notin odd => \A n \in sess[u].snap : n < e.mid
      BY <3>1 DEF UserInv, StreamInv, AheadAbove
    <3>3. ASSUME NEW a \in DOMAIN old
          PROVE  /\ e.mid # old[a] /\ (e.mid < old[a] => e.mid \in late)
                 /\ sess'[u].live[a] = old[a]
                 /\ old[a] \notin odd => \A n \in sess[u].snap : n < old[a]
                 /\ \A b \in DOMAIN old : /\ a # b => old[a] # old[b]
                                          /\ a < b /\ old[b] < old[a] => old[b] \in late
      <4>1. PICK i \in ChatEvents : i <= c /\ events[i].mid = old[a]
        BY <1>7, <3>3
      <4>2. i < c + 1 /\ i # c + 1
        BY <1>2, <4>1
      <4>3. e.mid # old[a]
        BY <3>1, <4>1, <4>2 DEF SendsInv, ChatsApart
      <4>4. e.mid < old[a] => e.mid \in late
        BY <3>1, <4>1, <4>2 DEF SendsInv, OvertakenLate
      <4>5. sess'[u].live[a] = old[a]
        BY <1>4, <1>5, <2>2, <3>3
      <4> QED BY <3>3, <4>3, <4>4, <4>5 DEF UserInv, StreamInv, LiveOrder
    <3>4. \A a \in DOMAIN sess'[u].live : a \in DOMAIN old \/ a = Len(old) + 1
      BY <1>4, <1>5, <2>2
    <3>5. \A a \in DOMAIN old : a # Len(old) + 1 /\ ~(Len(old) + 1 < a)
      BY <1>4
    <3>6. ~(Len(old) + 1 < Len(old) + 1) /\ sess'[u].live[Len(old) + 1] = e.mid
      BY <1>4, <1>5, <2>2
    <3>7. odd' = odd /\ late' = late /\ sess'[u].snap = sess[u].snap
      BY <1>1
    <3>8. ASSUME NEW a \in DOMAIN sess'[u].live
          PROVE  sess'[u].live[a] \notin odd => \A n \in sess[u].snap : n < sess'[u].live[a]
      BY <3>2, <3>3, <3>4, <3>6
    <3>9. ASSUME NEW a \in DOMAIN sess'[u].live, NEW b \in DOMAIN sess'[u].live
          PROVE  /\ a # b => sess'[u].live[a] # sess'[u].live[b]
                 /\ a < b /\ sess'[u].live[b] < sess'[u].live[a] => sess'[u].live[b] \in late
      <4>1. CASE a \in DOMAIN old /\ b \in DOMAIN old
        BY <3>3, <4>1
      <4>2. CASE a \in DOMAIN old /\ b = Len(old) + 1
        BY <3>3, <3>6, <4>2
      <4>3. CASE a = Len(old) + 1 /\ b \in DOMAIN old
        BY <3>3, <3>5, <3>6, <4>3
      <4>4. CASE a = Len(old) + 1 /\ b = Len(old) + 1
        BY <3>6, <4>4
      <4> QED BY <3>4, <4>1, <4>2, <4>3, <4>4
    <3> QED BY <3>7, <3>8, <3>9 DEF LiveOrder
  <2> QED BY <2>1, <2>2
<1>10. Pushed(u) \subseteq Pushed(u)' /\ (Pushes(u, e) => e.mid \in Pushed(u)')
  <2>1. CASE Pushes(u, e)
    <3>1. DOMAIN sess'[u].live = 1..(Len(old) + 1)
      BY <1>5, <2>1
    <3>2. Len(old) + 1 \in DOMAIN sess'[u].live /\ DOMAIN old \subseteq DOMAIN sess'[u].live
      BY <1>4, <3>1
    <3>3. /\ \A a \in DOMAIN old : sess'[u].live[a] = old[a]
          /\ sess'[u].live[Len(old) + 1] = e.mid
      BY <1>4, <1>5, <2>1
    <3>4. sess'[u].snap = sess[u].snap
      BY <1>1
    <3> QED BY <3>2, <3>3, <3>4 DEF Pushed
  <2>2. CASE ~Pushes(u, e)
    BY <1>1, <2>2 DEF Pushed
  <2> QED BY <2>1, <2>2
<1>11. NoGap(u)'
  <2> SUFFICES ASSUME NEW i \in Wanted(u)
               PROVE  \/ log[i].mid <= sess[u].after \/ log[i].mid <= sess[u].cut
                      \/ log[i].mid \in odd \cup Pushed(u)'
                      \/ OnItsWay(log[i].mid)' \/ InChannel(u, log[i].mid)'
    BY <1>1 DEF NoGap, Wanted
  <2> PICK m : m = log[i].mid
    OBVIOUS
  <2>1. \/ m <= sess[u].after \/ m <= sess[u].cut \/ m \in odd \cup Pushed(u)
        \/ OnItsWay(m) \/ InChannel(u, m)
    BY <1>1 DEF UserInv, StreamInv, NoGap
  <2>2. OnItsWay(m) => OnItsWay(m)'
    BY <1>1 DEF OnItsWay, Drawing
  <2>3. ASSUME InChannel(u, m), m \notin odd
        PROVE  InChannel(u, m)' \/ m \in Pushed(u)'
    <3>1. PICK j \in ChatEvents : j > c /\ events[j].mid = m /\ u \in events[j].to
      BY <2>3 DEF InChannel
    <3>2. CASE j = c + 1
      <4>1. e.kind = "chat" /\ u \in e.to /\ e.mid = m
        BY <3>1, <3>2 DEF ChatEvents
      <4>2. \A n \in sess[u].snap : n < e.mid
        BY <2>3, <3>1, <3>2 DEF UserInv, StreamInv, AheadAbove
      <4>3. e.mid >= 1 /\ e.mid \in Nat
        BY <1>2, <3>1, <3>2 DEF SendsInv, ChatsApart
      <4>4. sess[u].start \in {0} \cup sess[u].snap
        BY DEF UserInv, StreamInv, SnapshotOld
      <4>5. Pushes(u, e)
        BY <1>4, <4>1, <4>2, <4>3, <4>4 DEF Pushes
      <4> QED BY <1>10, <4>1, <4>5
    <3>3. CASE j # c + 1
      <4>1. j > c + 1
        BY <1>2, <3>1, <3>3
      <4> QED BY <1>1, <1>2, <3>1, <4>1 DEF InChannel
    <3> QED BY <3>2, <3>3
  <2>4. (OnItsWay(m)' => OnItsWay(log[i].mid)') /\ (InChannel(u, m)' => InChannel(u, log[i].mid)')
    BY <1>1
  <2> QED BY <1>10, <2>1, <2>2, <2>3, <2>4
<1>12. ClientPlace(u)'
  BY <1>1 DEF UserInv, ClientInv, ClientPlace
<1>13. NextNew(u)' /\ DrawnNew(u)' /\ AppKnows(u)'
  <2>1. NextNew(u)'
    BY <1>1 DEF UserInv, ClientInv, NextNew
  <2>2. DrawnNew(u)'
    <3>1. DrawnNew(u)
      BY DEF UserInv, ClientInv
    <3> QED BY <1>1, <1>2, <3>1 DEF DrawnNew, Drawing
  <2>3. AppKnows(u)'
    <3>1. AppKnows(u)
      BY DEF UserInv, ClientInv
    <3>2. Wanted(u)' = Wanted(u)
      BY <1>1 DEF Wanted
    <3>3. \A i \in Wanted(u) : OnItsWay(log[i].mid) => OnItsWay(log[i].mid)'
      BY <1>1 DEF OnItsWay, Drawing
    <3> QED BY <1>1, <3>1, <3>2, <3>3 DEF AppKnows
  <2> QED BY <2>1, <2>2, <2>3
<1> QED BY <1>6, <1>8, <1>9, <1>11, <1>12, <1>13 DEF UserInv, StreamInv, ClientInv

----------------------------------------------------------------------------
\* The end of a stream.

\* An app that has read the stream of u up to the mid "last" has got what
\* the stream carried before it.
Reads(u, got, last) ==
    \/ last = 0
    \/ last \in sess[u].snap /\ \A m \in sess[u].snap : m <= last => m \in got
    \/ \E n \in DOMAIN sess[u].live :
          /\ last = sess[u].live[n] /\ sess[u].snap \subseteq got
          /\ \A k \in DOMAIN sess[u].live : k <= n => sess[u].live[k] \in got

NewLast(u, last) == IF last = 0 THEN client[u].last ELSE last

\* Only an open stream has anything to read.
LEMMA OnlyOpenRead ==
    ASSUME TypeOK, NEW u \in Users, StreamInv(u), NEW got, NEW last, Reads(u, got, last), last # 0
    PROVE  sess[u].st = "open"
<1>1. sess[u].snap # {} \/ sess[u].live # <<>>
  BY DEF Reads
<1> QED BY <1>1, StreamFields, ClosedFields DEF StreamInv, StreamPlace

\* What an app has not got of a stream when it reads up to a mid is behind it for
\* one of the reasons in the history.
LEMMA ReadKnows ==
    ASSUME TypeOK, MidInv, SendsInv, NEW u \in Users, UserInv(u), NEW got, NEW last \in Nat,
           Reads(u, got, last), NEW i \in Wanted(u), log[i].mid <= NewLast(u, last)
    PROVE  \/ log[i].mid <= client[u].cut
           \/ log[i].mid \in odd \cup late \cup client[u].seen \cup got
           \/ OnItsWay(log[i].mid)
<1> PICK m : m = log[i].mid
  OBVIOUS
<1> SUFFICES ASSUME m \notin odd \cup late, ~OnItsWay(m)
             PROVE  m <= client[u].cut \/ m \in client[u].seen \cup got
  OBVIOUS
<1>1. m \in Nat /\ client[u].last \in Nat
  BY WantedFields, StreamFields
<1>2. CASE m <= client[u].last
  BY <1>2 DEF UserInv, ClientInv, AppKnows
<1>3. CASE ~(m <= client[u].last)
  <2>1. last # 0 /\ m <= last
    BY <1>3 DEF NewLast
  <2>2. sess[u].st = "open"
    BY <2>1, OnlyOpenRead DEF UserInv
  <2>3. m <= sess[u].cut \/ m \in Pushed(u) \/ InChannel(u, m)
    BY <1>3, <2>2 DEF UserInv, StreamInv, NoGap, ClientInv, ClientPlace
  <2>4. CASE m <= sess[u].cut
    <3>1. sess[u].cut <= client[u].cut
      BY <2>2 DEF UserInv, ClientInv, ClientPlace
    <3> QED BY <1>1, <2>4, <3>1, StreamFields
  <2>5. CASE m \in sess[u].snap
    <3>1. CASE last \in sess[u].snap /\ \A n \in sess[u].snap : n <= last => n \in got
      BY <2>1, <2>5, <3>1
    <3> QED BY <2>1, <2>5, <3>1 DEF Reads
  <2>6. CASE \E k \in DOMAIN sess[u].live : m = sess[u].live[k]
    <3> PICK k \in DOMAIN sess[u].live : m = sess[u].live[k]
      BY <2>6
    <3>1. \A n \in sess[u].snap : n < m
      BY DEF UserInv, StreamInv, LiveOrder
    <3>2. CASE last \in sess[u].snap
      BY <1>1, <2>1, <3>1, <3>2
    <3>3. CASE last \notin sess[u].snap
      <4>1. PICK n \in DOMAIN sess[u].live :
               last = sess[u].live[n] /\ \A b \in DOMAIN sess[u].live : b <= n => sess[u].live[b] \in got
        BY <2>1, <3>3 DEF Reads
      <4>2. CASE k <= n
        BY <4>1, <4>2
      <4>3. CASE n < k
        <5>1. sess[u].live[n] # sess[u].live[k]
          BY <4>3, StreamFields DEF UserInv, StreamInv, LiveOrder
        <5>2. sess[u].live[k] < sess[u].live[n]
          BY <1>1, <2>1, <4>1, <5>1
        <5> QED BY <4>3, <5>2 DEF UserInv, StreamInv, LiveOrder
      <4> QED BY <4>2, <4>3, StreamFields
    <3> QED BY <3>2, <3>3
  <2>7. CASE InChannel(u, m)
    <3>1. PICK j \in ChatEvents : j > sess[u].cursor /\ events[j].mid = m
      BY <2>7 DEF InChannel
    <3>2. \A n \in sess[u].snap : n < m
      BY <3>1 DEF UserInv, StreamInv, AheadAbove
    <3>3. CASE last \in sess[u].snap
      BY <1>1, <2>1, <3>2, <3>3
    <3>4. CASE last \notin sess[u].snap
      <4>1. PICK n \in DOMAIN sess[u].live : last = sess[u].live[n]
        BY <2>1, <3>4 DEF Reads
      <4>2. PICK k \in ChatEvents : k <= sess[u].cursor /\ events[k].mid = last
        BY <4>1 DEF UserInv, StreamInv, LiveRead
      <4>3. k < j
        BY <3>1, <4>2, StreamFields, ChatFields
      <4>4. events[j].mid < events[k].mid
        <5>1. events[j].mid # events[k].mid
          BY <4>3, ChatFields DEF SendsInv, ChatsApart
        <5> QED BY <1>1, <2>1, <3>1, <4>2, <5>1
      <4> QED BY <3>1, <4>3, <4>4 DEF SendsInv, OvertakenLate
    <3> QED BY <3>3, <3>4
  <2> QED BY <2>3, <2>4, <2>5, <2>6, <2>7 DEF Pushed
<1> QED BY <1>2, <1>3

\* The mids drawn now and later are new to the app.
LEMMA ReadNew ==
    ASSUME TypeOK, MidInv, SendsInv, NEW u \in Users, UserInv(u), NEW got, NEW last \in Nat,
           Reads(u, got, last)
    PROVE  /\ \A s \in Senders : Drawing(s) =>
                 \/ task[s].mid \in odd \cup late
                 \/ task[s].mid > NewLast(u, last)
                 \/ \E i \in ChatEvents : events[i].mid > task[s].mid
           /\ \A m \in Nat : next <= m /\ m <= NewLast(u, last) => m \in late
<1>1. CASE last = 0
  BY <1>1 DEF NewLast, UserInv, ClientInv, DrawnNew, NextNew
<1>2. CASE last \in sess[u].snap /\ last # 0
  <2>1. last < next /\ NewLast(u, last) = last /\ next \in Nat
    BY <1>2, MidsSmall DEF NewLast, UserInv, StreamInv, SnapshotOld
  <2>2. \A s \in Senders : Drawing(s) /\ task[s].mid \notin odd => last < task[s].mid
    BY <1>2 DEF UserInv, StreamInv, AheadAbove
  <2>3. \A s \in Senders : task[s].mid \in Nat
    BY MidsSmall
  <2>4. \A m \in Nat : ~(next <= m /\ m <= last)
    BY <2>1
  <2> QED BY <2>1, <2>2, <2>3, <2>4
<1>3. CASE last \notin sess[u].snap /\ last # 0
  <2>1. PICK n \in DOMAIN sess[u].live : last = sess[u].live[n]
    BY <1>3 DEF Reads
  <2>2. PICK k \in ChatEvents : events[k].mid = last
    BY <2>1 DEF UserInv, StreamInv, LiveRead
  <2>3. last < next /\ NewLast(u, last) = last /\ next \in Nat
    BY <1>3, <2>2, MidsSmall DEF NewLast, ChatEvents
  <2>4. \A s \in Senders : Drawing(s) => task[s].mid # last
    BY <2>2 DEF SendsInv, SendsApart
  <2>5. \A s \in Senders : task[s].mid \in Nat
    BY MidsSmall
  <2>6. \A m \in Nat : ~(next <= m /\ m <= last)
    BY <2>3
  <2> QED BY <2>2, <2>3, <2>4, <2>5, <2>6
<1> QED BY <1>1, <1>2, <1>3

\* The stream ends, the app holds what it read.
LEMMA EndUser ==
    ASSUME TypeOK, MidInv, SendsInv, NEW u \in Users, UserInv(u), NEW got, got \subseteq Nat,
           NEW last \in Nat, Reads(u, got, last), EndStream(u, got, last)
    PROVE  UserInv(u)'
<1>1. /\ UNCHANGED <<log, next, members, task, events, odd, late>>
      /\ sess'[u] = ClosedSession
      /\ client'[u].last = NewLast(u, last) /\ client'[u].cut = client[u].cut
      /\ client'[u].seen = client[u].seen \cup got
  BY DEF EndStream, NewLast, dbVars, TypeOK, Client
<1>2. StreamInv(u)' /\ ClientPlace(u)'
  BY <1>1, ChatFields, ClosedStream
<1>3. NextNew(u)' /\ DrawnNew(u)'
  BY <1>1, ReadNew DEF NextNew, DrawnNew, Drawing, ChatEvents
<1>4. AppKnows(u)'
  <2>1. Wanted(u)' = Wanted(u)
    BY <1>1 DEF Wanted
  <2> SUFFICES ASSUME NEW i \in Wanted(u), log[i].mid <= NewLast(u, last)
               PROVE  \/ log[i].mid <= client[u].cut
                      \/ log[i].mid \in odd \cup late \cup client[u].seen \cup got
                      \/ OnItsWay(log[i].mid)'
    BY <1>1, <2>1 DEF AppKnows
  <2> PICK m : m = log[i].mid
    OBVIOUS
  <2>2. OnItsWay(m) => OnItsWay(m)'
    BY <1>1 DEF OnItsWay, Drawing
  <2>3. OnItsWay(m)' => OnItsWay(log[i].mid)'
    BY <1>1
  <2> QED BY <2>2, <2>3, ReadKnows
<1> QED BY <1>2, <1>3, <1>4 DEF UserInv, ClientInv

\* The client goes away.
LEMMA DisconnectUser ==
    ASSUME TypeOK, MidInv, SendsInv, NEW u \in Users, UserInv(u), Disconnect(u)
    PROVE  UserInv(u)'
<1>1. /\ sess[u].snap \subseteq Nat /\ DOMAIN sess[u].live = 1..Len(sess[u].live)
      /\ Len(sess[u].live) \in Nat /\ \A a \in DOMAIN sess[u].live : sess[u].live[a] \in Nat
  BY StreamFields
<1>2. ASSUME NEW last \in {0} \cup sess[u].snap, ReadSnapshot(u, last)
      PROVE  UserInv(u)'
  <2> DEFINE got == {m \in sess[u].snap : m <= last}
  <2>1. got \subseteq Nat /\ last \in Nat /\ EndStream(u, got, last)
    BY <1>1, <1>2 DEF ReadSnapshot
  <2>2. Reads(u, got, last)
    BY DEF Reads
  <2> HIDE DEF got
  <2> QED BY <2>1, <2>2, EndUser
<1>3. ASSUME NEW n \in DOMAIN sess[u].live, ReadLive(u, n)
      PROVE  UserInv(u)'
  <2> DEFINE got == sess[u].snap \cup {sess[u].live[i] : i \in 1..n}
  <2>1. got \subseteq Nat /\ sess[u].live[n] \in Nat /\ EndStream(u, got, sess[u].live[n])
    BY <1>1, <1>3 DEF ReadLive
  <2>2. Reads(u, got, sess[u].live[n])
    <3>1. \A k \in DOMAIN sess[u].live : k <= n => k \in 1..n
      BY <1>1
    <3> QED BY <3>1 DEF Reads
  <2> HIDE DEF got
  <2> QED BY <2>1, <2>2, EndUser
<1> QED BY <1>2, <1>3 DEF Disconnect

\* An app that has read the whole stream.
LEMMA ReadsAll ==
    ASSUME TypeOK, MidInv, NEW u \in Users, StreamInv(u)
    PROVE  /\ LastPushed(u) \in Nat /\ Pushed(u) \subseteq Nat
           /\ Reads(u, Pushed(u), LastPushed(u))
<1>1. LastPushed(u) \in Nat /\ Pushed(u) \subseteq Nat
  BY LastPushedInNat
<1>2. /\ sess[u].live \in Seq(Nat) /\ DOMAIN sess[u].live = 1..Len(sess[u].live)
      /\ Len(sess[u].live) \in Nat
  BY StreamFields
<1>3. CASE sess[u].live # <<>>
  <2>1. Len(sess[u].live) \in DOMAIN sess[u].live
    BY <1>2, <1>3, EmptySeq
  <2> QED BY <1>1, <1>3, <2>1 DEF LastPushed, Reads, Pushed
<1>4. CASE sess[u].live = <<>>
  <2>1. sess[u].snap \subseteq Nat /\ \A n \in sess[u].snap : n < next
    BY StreamFields DEF StreamInv, SnapshotOld
  <2>2. Newest(sess[u].snap) \in {0} \cup sess[u].snap
    BY <2>1, NewestIsLargest, MidsSmall
  <2> QED BY <1>1, <1>4, <2>2 DEF LastPushed, Reads, Pushed
<1> QED BY <1>3, <1>4

\* The stream ends at Lagged.
LEMMA LagBreakUser ==
    ASSUME TypeOK, MidInv, SendsInv, NEW u \in Users, UserInv(u), LagBreak(u)
    PROVE  UserInv(u)'
  BY ReadsAll, EndUser DEF LagBreak, UserInv

\* One step of one stream.
LEMMA StreamSteps ==
    ASSUME StreamsInv, NEW u \in Users,
           \/ Subscribe(u) \/ SubscribeFails(u) \/ Snapshot(u)
           \/ Receive(u) \/ LagBreak(u) \/ Disconnect(u)
    PROVE  SendsInv' /\ KicksInv' /\ \A v \in Users : UserInv(v)'
<1>1. TypeOK /\ MidInv /\ SendsInv /\ KicksInv /\ \A v \in Users : UserInv(v)
  BY DEF StreamsInv, Inv
<1>2. UNCHANGED <<log, next, members, task, events, odd, late>>
  BY DEF Subscribe, SubscribeFails, Snapshot, Receive, LagBreak, Disconnect,
         ReadSnapshot, ReadLive, EndStream, dbVars
<1>3. \A v \in Users \ {u} : sess'[v] = sess[v] /\ client'[v] = client[v]
  BY <1>1 DEF TypeOK, Subscribe, SubscribeFails, Snapshot, Receive, LagBreak, Disconnect,
              ReadSnapshot, ReadLive, EndStream
<1>4. UserInv(u)'
  BY <1>1, SubscribeUser, SubscribeFailsUser, SnapshotUser, ReceiveUser, LagBreakUser, DisconnectUser
<1>5. ReadLocked' = ReadLocked
  BY <1>2 DEF ReadLocked
<1>6. \A v \in Users \ {u} : UserInv(v)'
  BY <1>1, <1>2, <1>3, <1>5, OthersStay
<1> QED BY <1>1, <1>2, <1>4, <1>6, StreamKeepsSends

----------------------------------------------------------------------------
\* Restarts.

\* Of the store l a start shows what l holds.
LEMMA StoredOpen ==
    ASSUME NEW l \in Seq(Write), Open(l), SequenceKey(l) \in Nat
    PROVE  \A i \in Stored(log') : i \in Stored(l) /\ i \in 1..Len(l) /\ log'[i] = l[i]
<1> DEFINE w == [op |-> "lease", key |-> SequenceKey(l) + Bandwidth]
<1>1. log' = Append(l, w)
  BY DEF Open
<1>2. w \in Write /\ w.op = "lease"
  BY BandwidthAssumption DEF Write, LeaseWrite
<1> HIDE DEF w
<1>3. Stored(log') = Stored(l)
  <2>1. Stored(log') = {i \in Stored(l) : ~(w.op = "clear" /\ w.gid = l[i].target)}
                         \cup (IF w.op = "put" THEN {Len(l) + 1} ELSE {})
    BY <1>1, <1>2, StoredAppend
  <2> QED BY <1>2, <2>1
<1>4. Stored(l) \subseteq 1..Len(l)
  BY PutsInDomain DEF Stored
<1>5. \A i \in 1..Len(l) : log'[i] = l[i]
  BY <1>1, <1>2, AppendWrite
<1> QED BY <1>3, <1>4, <1>5

\* A restart: the mids that were on their way, are fresh again or came back are late.
LEMMA RestartUser ==
    ASSUME TypeOK, TypeOK', MidInv, SendsInv, NEW u \in Users, UserInv(u),
           NEW back, LoseMemory(next', back),
           \A i \in Stored(log') : \/ i \in Stored(log) /\ log'[i] = log[i]
                                   \/ log'[i].mid \in late'
    PROVE  UserInv(u)'
<1>1. /\ task' = [s \in Senders |-> IdleTask] /\ events' = <<>> /\ sess'[u] = ClosedSession
      /\ client'[u].last = NewLast(u, LastPushed(u)) /\ client'[u].cut = client[u].cut
      /\ client'[u].seen = client[u].seen \cup Pushed(u)
      /\ UNCHANGED <<members, odd>>
  BY DEF LoseMemory, NewLast
<1>2. /\ late \subseteq late' /\ next'..(next - 1) \subseteq late'
      /\ \A s \in Senders : task[s].mid # 0 => task[s].mid \in late'
  BY DEF LoseMemory
<1>3. StreamInv(u)' /\ ClientPlace(u)'
  BY <1>1, ClosedStream, Len(<<>>) = 0
<1>4. LastPushed(u) \in Nat /\ Reads(u, Pushed(u), LastPushed(u))
  BY ReadsAll DEF UserInv
<1>5. \A s \in Senders : ~Drawing(s)'
  BY <1>1, IdleTaskFields DEF Drawing
<1>6. DrawnNew(u)'
  BY <1>5 DEF DrawnNew
<1>7. NextNew(u)'
  <2> SUFFICES ASSUME NEW m \in Nat, next' <= m, m <= NewLast(u, LastPushed(u))
               PROVE  m \in late'
    BY <1>1 DEF NextNew
  <2>1. next \in Nat /\ next' \in Nat
    BY DEF TypeOK, DbTypeOK
  <2>2. CASE next <= m
    BY <1>2, <1>4, <2>2, ReadNew
  <2>3. CASE m < next
    <3>1. m \in next'..(next - 1)
      BY <2>1, <2>3
    <3> QED BY <1>2, <3>1
  <2> QED BY <2>1, <2>2, <2>3
<1>8. AppKnows(u)'
  <2> SUFFICES ASSUME NEW i \in Wanted(u)', log'[i].mid <= NewLast(u, LastPushed(u)),
                      log'[i].mid \notin late'
               PROVE  \/ log'[i].mid <= client[u].cut
                      \/ log'[i].mid \in odd \cup client[u].seen \cup Pushed(u)
    BY <1>1 DEF AppKnows
  <2>1. i \in Stored(log') /\ i \in Stored(log) /\ log'[i] = log[i]
    BY DEF Wanted
  <2>2. i \in Wanted(u)
    BY <1>1, <2>1 DEF Wanted
  <2>3. ~OnItsWay(log[i].mid)
    BY <1>2, <2>1 DEF OnItsWay, SendsInv, SendsApart
  <2>4. \/ log[i].mid <= client[u].cut
        \/ log[i].mid \in odd \cup late \cup client[u].seen \cup Pushed(u)
        \/ OnItsWay(log[i].mid)
    BY <1>4, <2>1, <2>2, ReadKnows
  <2> QED BY <1>2, <2>1, <2>3, <2>4
<1> QED BY <1>3, <1>6, <1>7, <1>8 DEF UserInv, ClientInv

\* After a crash the store shows what it showed, or what came back.
LEMMA CrashStore ==
    ASSUME TypeOK, MidInv, NEW k \in flushed..Len(log), CrashAndOpen(k),
           LoseMemory(SequenceKey(SubSeq(log, 1, k)), Returned(k))
    PROVE  /\ next' = SequenceKey(SubSeq(log, 1, k))
           /\ \A i \in Stored(log') : \/ i \in Stored(log) /\ log'[i] = log[i]
                                      \/ log'[i].mid \in late'
<1> DEFINE l == SubSeq(log, 1, k)
<1>1. /\ log \in Seq(Write) /\ LogOK(log) /\ Len(log) \in Nat /\ k \in 0..Len(log)
      /\ DOMAIN log = 1..Len(log)
  BY LenProperties DEF TypeOK, DbTypeOK, MidInv, IdInv
<1>2. l \in Seq(Write) /\ Len(l) = k /\ SequenceKey(l) \in Nat
  BY <1>1, PrefixLogOK
<1>3. \A i \in 1..k : l[i] = log[i] /\ i \in DOMAIN log
  <2>1. \A i \in 1..k : log[i] \in Write
    BY <1>1, ElementOfSeq
  <2>2. 1 \in Int /\ k \in Int /\ k - 1 + 1 = k
    BY <1>1
  <2>3. \A i \in 1..(k - 1 + 1) : l[i] = log[1 + i - 1]
    BY <2>1, <2>2, SubSeqProperties
  <2> QED BY <1>1, <2>2, <2>3
<1>4. next' = SequenceKey(l)
  BY CrashAndOpenOK DEF TypeOK, MidInv
<1>5. \A i \in Stored(log') : i \in Stored(l) /\ i \in 1..k /\ log'[i] = l[i]
  BY <1>2, StoredOpen DEF CrashAndOpen
<1>6. \A i \in Returned(k) : log[i].mid \in late'
  BY DEF LoseMemory, MidsOf
<1>7. \A i \in Stored(l) : i \in 1..k => i \in Puts(log) /\ (i \in Stored(log) \/ i \in Returned(k))
  BY <1>3 DEF Stored, Puts, Returned
<1> HIDE DEF l
<1>8. \A i \in Stored(log') : \/ i \in Stored(log) /\ log'[i] = log[i]
                              \/ log'[i].mid \in late'
  BY <1>3, <1>5, <1>6, <1>7
<1> QED BY <1>4, <1>8 DEF l

\* After an orderly stop the store shows what it showed.
LEMMA StopStore ==
    ASSUME TypeOK, MidInv, Stop
    PROVE  /\ next' = next
           /\ \A i \in Stored(log') : i \in Stored(log) /\ log'[i] = log[i]
<1> DEFINE w == [op |-> "lease", key |-> next]
           l == Append(log, w)
<1>1. log \in Seq(Write) /\ next \in Nat
  BY DEF TypeOK, DbTypeOK
<1>2. w \in Write /\ w.op = "lease" /\ w.key = next
  BY <1>1 DEF Write, LeaseWrite
<1>3. Open(l) /\ next' = next
  BY ReleaseAndOpenOK DEF Stop, ReleaseAndOpen, TypeOK, MidInv
<1> HIDE DEF w
<1>4. /\ l \in Seq(Write) /\ SequenceKey(l) \in Nat
      /\ \A i \in 1..Len(log) : l[i] = log[i]
      /\ Stored(l) = Stored(log) /\ Stored(log) \subseteq 1..Len(log)
  <2>1. /\ l \in Seq(Write) /\ SequenceKey(l) = w.key
        /\ \A i \in 1..Len(log) : l[i] = log[i]
    BY <1>1, <1>2, AppendWrite
  <2>2. Stored(l) = Stored(log)
    <3>1. Stored(l) = {i \in Stored(log) : ~(w.op = "clear" /\ w.gid = log[i].target)}
                        \cup (IF w.op = "put" THEN {Len(log) + 1} ELSE {})
      BY <1>1, <1>2, StoredAppend
    <3> QED BY <1>2, <3>1
  <2>3. Stored(log) \subseteq 1..Len(log)
    BY <1>1, PutsInDomain DEF Stored
  <2> QED BY <1>1, <1>2, <2>1, <2>2, <2>3
<1> HIDE DEF l
<1>5. \A i \in Stored(log') : i \in Stored(l) /\ log'[i] = l[i]
  BY <1>3, <1>4, StoredOpen
<1> QED BY <1>3, <1>4, <1>5

\* Crashes and orderly stops.
LEMMA RestartSteps ==
    ASSUME StreamsInv, TypeOK', Crash \/ Stop
    PROVE  SendsInv' /\ KicksInv' /\ \A u \in Users : UserInv(u)'
<1>1. TypeOK /\ MidInv /\ SendsInv /\ \A u \in Users : UserInv(u)
  BY DEF StreamsInv, Inv
<1>2. \E back : /\ LoseMemory(next', back)
                /\ \A i \in Stored(log') : \/ i \in Stored(log) /\ log'[i] = log[i]
                                           \/ log'[i].mid \in late'
  <2>1. CASE Crash
    BY <1>1, <2>1, CrashStore DEF Crash
  <2>2. CASE Stop
    <3>1. LoseMemory(next, {})
      BY <2>2 DEF Stop
    <3> QED BY <1>1, <2>2, <3>1, StopStore
  <2> QED BY <2>1, <2>2
<1>3. \A u \in Users : UserInv(u)'
  BY <1>1, <1>2, RestartUser
<1>4. task' = [s \in Senders |-> IdleTask] /\ events' = <<>>
  BY <1>2 DEF LoseMemory
<1>5. ChatEvents' = {} /\ DOMAIN events' = {} /\ \A s \in Senders : task'[s].pc = "idle"
  BY <1>4, IdleTaskFields DEF ChatEvents
<1>6. SendsInv'
  BY <1>5 DEF SendsInv, SendsApart, ChatsApart, OvertakenLate, PutsOfSends, Drawing
<1>7. KicksInv'
  BY <1>5 DEF KicksInv, KicksStand, NothingAfterKick
<1> QED BY <1>3, <1>6, <1>7

----------------------------------------------------------------------------
\* Every step.

\* The first state.
LEMMA StreamsInit == Init => StreamsInv
<1> SUFFICES ASSUME Init PROVE StreamsInv
  OBVIOUS
<1>1. Inv
  BY InitInv
<1>2. /\ task = [s \in Senders |-> IdleTask] /\ events = <<>>
      /\ sess = [u \in Users |-> ClosedSession] /\ next = 1
      /\ client = [u \in Users |-> [last |-> 0, seen |-> {}, cut |-> 0]]
  BY DEF Init, DbInit
<1>3. ChatEvents = {} /\ DOMAIN events = {} /\ Len(events) = 0
      /\ \A s \in Senders : task[s].pc = "idle"
  BY <1>2, IdleTaskFields DEF ChatEvents
<1>4. SendsInv
  BY <1>3 DEF SendsInv, SendsApart, ChatsApart, OvertakenLate, PutsOfSends, Drawing
<1>5. KicksInv
  BY <1>3 DEF KicksInv, KicksStand, NothingAfterKick
<1>6. ASSUME NEW u \in Users
      PROVE  UserInv(u)
  <2>1. sess[u] = ClosedSession /\ client[u].last = 0
    BY <1>2
  <2>2. StreamPlace(u) /\ ClientPlace(u)
    BY <1>3, <2>1, ClosedFields DEF StreamPlace, ClientPlace
  <2>3. SnapshotOld(u) /\ AheadAbove(u) /\ LiveRead(u) /\ LiveOrder(u) /\ NoGap(u)
    BY <2>1, ClosedFields DEF SnapshotOld, AheadAbove, LiveRead, LiveOrder, NoGap
  <2>4. NextNew(u) /\ DrawnNew(u)
    BY <1>2, <1>3, <2>1 DEF NextNew, DrawnNew, Drawing
  <2>5. AppKnows(u)
    <3>1. Puts(log) = {}
      BY DEF Init, DbInit, Puts
    <3>2. Wanted(u) = {}
      BY <3>1 DEF Wanted, Stored
    <3> QED BY <3>2 DEF AppKnows
  <2> QED BY <2>2, <2>3, <2>4, <2>5 DEF UserInv, StreamInv, ClientInv
<1> QED BY <1>1, <1>4, <1>5, <1>6 DEF StreamsInv

\* Quiet steps, for all users.
LEMMA QuietSteps ==
    ASSUME StreamsInv, Inv', NEW s, Quiet(s), PutsOfSends'
    PROVE  SendsInv' /\ \A u \in Users : UserInv(u)'
<1>1. TypeOK /\ MidInv /\ TypeOK' /\ SendsInv /\ \A u \in Users : StreamInv(u) /\ ClientInv(u)
  BY DEF StreamsInv, Inv, UserInv
<1>2. SendsInv'
  BY <1>1, QuietSends DEF SendsInv
<1>3. ASSUME NEW u \in Users
      PROVE  UserInv(u)'
  <2>1. StreamInv(u)'
    BY <1>1, QuietStream
  <2>2. ClientInv(u)'
    BY <1>1, QuietClient
  <2> QED BY <2>1, <2>2 DEF UserInv
<1> QED BY <1>2, <1>3

\* The steps of a request up to its broadcast.
LEMMA RequestSteps ==
    ASSUME StreamsInv, Inv', NEW s \in Senders,
           \/ \E p \in Posts : Accept(s, p.from, p.target, p.kind)
           \/ Allocate(s) \/ Store(s) \/ Merge(s) \/ Abandon(s) \/ SendFails(s)
    PROVE  SendsInv' /\ KicksInv' /\ \A u \in Users : UserInv(u)'
<1>1. TypeOK /\ MidInv /\ TypeOK' /\ SendsInv /\ KicksInv
  BY DEF StreamsInv, Inv
<1>2. Quiet(s) /\ PutsOfSends'
  BY <1>1, AcceptQuiet, AllocateQuiet, StoreQuiet, MergeQuiet, AbandonQuiet, SendFailsQuiet
<1>3. UNCHANGED <<members, events>>
  BY DEF Accept, Allocate, Store, Merge, Abandon, SendFails
<1>4. odd \subseteq odd'
  BY <1>2 DEF Quiet
<1> QED BY <1>1, <1>2, <1>3, <1>4, QuietSteps, KicksUnchanged

\* The broadcast, for all users.
LEMMA BroadcastSteps ==
    ASSUME StreamsInv, NEW s \in Senders, Broadcast(s)
    PROVE  SendsInv' /\ KicksInv' /\ \A u \in Users : UserInv(u)'
<1>1. /\ TypeOK /\ MidInv /\ TargetsCurrent /\ SendsInv /\ KicksInv
      /\ \A u \in Users : StreamInv(u) /\ ClientInv(u)
  BY DEF StreamsInv, Inv, UserInv
<1>2. SendsInv' /\ KicksInv'
  BY <1>1, BroadcastSends, BroadcastKicks
<1>3. ASSUME NEW u \in Users
      PROVE  UserInv(u)'
  <2>1. StreamInv(u)'
    BY <1>1, BroadcastStream
  <2>2. ClientInv(u)'
    BY <1>1, BroadcastClient
  <2> QED BY <2>1, <2>2 DEF UserInv
<1> QED BY <1>2, <1>3

\* Steps that change nothing of this.
LEMMA IdleSteps ==
    ASSUME StreamsInv, Inv', UNCHANGED <<log, next, members, task, events, sess, client, odd, late>>
    PROVE  SendsInv' /\ KicksInv' /\ \A u \in Users : UserInv(u)'
<1>1. TypeOK /\ SendsInv /\ KicksInv /\ \A u \in Users : UserInv(u)
  BY DEF StreamsInv, Inv
<1>2. SendsInv' /\ KicksInv'
  BY <1>1, StreamKeepsSends
<1>3. \A u \in Users : UserInv(u)'
  <2>1. ReadLocked' = ReadLocked
    BY DEF ReadLocked
  <2>2. \A u \in Users : sess'[u] = sess[u] /\ client'[u] = client[u]
    OBVIOUS
  <2> QED BY <1>1, <2>1, <2>2, OthersStay
<1> QED BY <1>2, <1>3

\* Every step keeps the invariant.
LEMMA StreamsNext == StreamsInv /\ [Next]_vars => StreamsInv'
<1> SUFFICES ASSUME StreamsInv, [Next]_vars PROVE StreamsInv'
  OBVIOUS
<1>1. Inv'
  BY TypeInvariant, MidInvariant, TargetsInvariant DEF StreamsInv, Inv
<1> DEFINE Good == SendsInv' /\ KicksInv' /\ \A u \in Users : UserInv(u)'
<1>2. ASSUME NEW s \in Senders,
             \/ \E p \in Posts : Accept(s, p.from, p.target, p.kind)
             \/ Allocate(s) \/ Store(s) \/ Merge(s) \/ Broadcast(s) \/ Abandon(s) \/ SendFails(s)
      PROVE  Good
  BY <1>1, <1>2, RequestSteps, BroadcastSteps
<1>3. ASSUME NEW u \in Users,
             \/ Subscribe(u) \/ SubscribeFails(u) \/ Snapshot(u)
             \/ Receive(u) \/ LagBreak(u) \/ Disconnect(u)
      PROVE  Good
  BY <1>3, StreamSteps
<1>4. ASSUME NEW g \in Groups, NEW u \in Users,
             \/ AddMember(g, u) \/ RemoveMember(g, u) \/ Leave(g, u)
             \/ DeleteGroup(g) \/ ClearGroup(g)
      PROVE  Good
  <2>1. TypeOK /\ MidInv /\ TypeOK' /\ SendsInv /\ KicksInv
    BY <1>1 DEF StreamsInv, Inv
  <2>2. Quiet(NoTarget) /\ PutsOfSends' /\ KicksInv'
    BY <1>4, <2>1, GroupSteps
  <2> QED BY <1>1, <2>2, QuietSteps
<1>5. ASSUME Crash \/ Stop PROVE Good
  BY <1>1, <1>5, RestartSteps DEF Inv
<1>6. ASSUME FlushDb \/ UNCHANGED vars PROVE Good
  <2>1. UNCHANGED <<log, next, members, task, events, sess, client, odd, late>>
    BY <1>6 DEF FlushDb, Flush, vars, sendVars, dbVars
  <2> QED BY <1>1, <2>1, IdleSteps
<1>7. Listeners \subseteq Users
  BY DeliveryAssumption
<1>8. \A g \in Groups : DeleteGroup(g) \/ ClearGroup(g) => \E u \in Users : TRUE
  BY DEF StreamsInv, Inv, DeleteGroup, ClearGroup, TypeOK
<1>9. Good
  BY <1>2, <1>3, <1>4, <1>5, <1>6, <1>7, <1>8 DEF Next
<1> QED BY <1>1, <1>9 DEF StreamsInv

----------------------------------------------------------------------------
\* The theorems.

\* StreamsInv is inductive, so it holds of every state.
THEOREM StreamInvariance == Spec => []StreamsInv
  BY StreamsInit, StreamsNext, PTL DEF Spec

\* A stream carries a message once, whatever snapshots, pushes, lags, removals
\* and restarts there are, unless its send was abandoned or failed half way:
\* push_start_id is all events_loop needs.
THEOREM CarriedOnce == Spec => []PushedOnce
<1>1. StreamsInv => PushedOnce
  <2> SUFFICES ASSUME StreamsInv, NEW u \in Users, NEW i \in DOMAIN sess[u].live,
                      \/ sess[u].live[i] \in sess[u].snap
                      \/ \E j \in DOMAIN sess[u].live : j # i /\ sess[u].live[j] = sess[u].live[i]
               PROVE  sess[u].live[i] \in odd
    BY DEF PushedOnce
  <2>1. LiveOrder(u) /\ TypeOK
    BY DEF StreamsInv, UserInv, StreamInv, Inv
  <2>2. sess[u].live[i] \in sess[u].snap
    BY <2>1 DEF LiveOrder
  <2>3. sess[u].live[i] \in Nat /\ ~(sess[u].live[i] < sess[u].live[i])
    BY <2>1, StreamFields
  <2> QED BY <2>1, <2>2, <2>3 DEF LiveOrder
<1> QED BY <1>1, StreamInvariance, PTL

\* Between the snapshot and the pushes no message is lost: the write guard of
\* the subscription and push_start_id leave no gap, for any capacity of the
\* channel and any MAX_NEWEST_MESSAGES.
THEOREM StreamIsWhole == Spec => []StreamHasNoGap
<1>1. ASSUME StreamsInv, NEW u \in Users, CaughtUp(u), NEW i \in Owed(u)
      PROVE  /\ i \in Wanted(u) /\ ~OnItsWay(log[i].mid)
             /\ \/ log[i].mid <= sess[u].after \/ log[i].mid <= sess[u].cut
                \/ log[i].mid \in odd \cup Pushed(u)
  <2>1. i \in Wanted(u) /\ ~OnItsWay(log[i].mid)
    BY <1>1 DEF Owed, Wanted, OnItsWay, InFlight
  <2>2. ~InChannel(u, log[i].mid)
    BY <1>1, ChatFields DEF CaughtUp, InChannel, StreamsInv, Inv
  <2>3. NoGap(u) /\ sess[u].st = "open"
    BY <1>1 DEF StreamsInv, UserInv, StreamInv, CaughtUp
  <2> QED BY <2>1, <2>2, <2>3 DEF NoGap
<1>2. StreamsInv => StreamHasNoGap
  BY <1>1 DEF StreamHasNoGap
<1> QED BY <1>2, StreamInvariance, PTL

\* An app that resumes with the mid it read last misses a message only where
\* a send was abandoned or failed, was overtaken, a crash cut, reissued or
\* undid something, or a snapshot was cut at MAX_NEWEST_MESSAGES; after any
\* number of disconnects, lags, crashes and stops.
THEOREM MissesExplained == Spec => []MissedIsExplained
<1>1. ASSUME StreamsInv, NEW u \in Users, CaughtUp(u), NEW i \in Owed(u)
      PROVE  \/ log[i].mid <= client[u].cut
             \/ log[i].mid \in odd \cup late \cup client[u].seen \cup Pushed(u)
  <2>1. i \in Wanted(u) /\ ~OnItsWay(log[i].mid)
    BY <1>1 DEF Owed, Wanted, OnItsWay, InFlight
  <2>2. ~InChannel(u, log[i].mid)
    BY <1>1, ChatFields DEF CaughtUp, InChannel, StreamsInv, Inv
  <2>3. /\ NoGap(u) /\ AppKnows(u) /\ sess[u].st = "open"
        /\ sess[u].after = client[u].last /\ sess[u].cut <= client[u].cut
    BY <1>1 DEF StreamsInv, UserInv, StreamInv, ClientInv, ClientPlace, CaughtUp
  <2>4. \/ log[i].mid <= sess[u].after \/ log[i].mid <= sess[u].cut
        \/ log[i].mid \in odd \cup Pushed(u)
    BY <2>1, <2>2, <2>3 DEF NoGap
  <2>5. CASE log[i].mid <= sess[u].after
    BY <2>1, <2>3, <2>5 DEF AppKnows
  <2>6. CASE log[i].mid <= sess[u].cut
    <3>1. log[i].mid \in Nat /\ sess[u].cut \in Nat /\ client[u].cut \in Nat
      BY <1>1, <2>1, WantedFields, StreamFields DEF StreamsInv, Inv
    <3> QED BY <2>3, <2>6, <3>1
  <2> QED BY <2>4, <2>5, <2>6
<1>2. StreamsInv => MissedIsExplained
  BY <1>1 DEF MissedIsExplained
<1> QED BY <1>2, StreamInvariance, PTL

\* No message of a group follows the notice that removed its reader, unless
\* the reader joined again or the send was abandoned, however sends, removals
\* and deletions interleave.
THEOREM KickIsLast == Spec => []NothingAfterKick
<1>1. StreamsInv => NothingAfterKick
  BY DEF StreamsInv, KicksInv
<1> QED BY <1>1, StreamInvariance, PTL

----------------------------------------------------------------------------
\* Where the promise of after_mid holds after all.

\* One request at a time is between generate_msg_id and its broadcast, as if
\* a lock were held from the one to the other.
TurnByTurn == \A s, t \in Senders : s # t => ~(Drawing(s) /\ Drawing(t))

\* An app that resumes gets every message it has not read, but for those that
\* MAX_NEWEST_MESSAGES cut off and those of sends that failed half way.
ResumeIsComplete ==
    \A u \in Users : CaughtUp(u) =>
        \A i \in Owed(u) :
            \/ log[i].mid <= client[u].cut
            \/ log[i].mid \in odd \cup client[u].seen \cup Pushed(u)

\* Mids are broadcast in the order in which they were drawn.
InOrder ==
    /\ late = {}
    /\ \A s \in Senders : Drawing(s) => \A i \in ChatEvents : events[i].mid < task[s].mid

\* A fresh mid is above those in the channel; nothing else disturbs the order.
LEMMA QuietInOrder ==
    ASSUME TypeOK, MidInv, InOrder, NEW s, Quiet(s)
    PROVE  InOrder'
<1>1. \A i \in ChatEvents : events[i].mid < next
  BY MidsSmall DEF ChatEvents
<1>2. late' = {}
  BY DEF InOrder, Quiet
<1>3. ASSUME NEW t \in Senders, Drawing(t)', NEW i \in ChatEvents'
      PROVE  events'[i].mid < task'[t].mid
  <2>1. i \in ChatEvents /\ events'[i] = events[i]
    BY <1>3 DEF Quiet
  <2>2. \/ Drawing(t) /\ task'[t].mid = task[t].mid
        \/ task'[t].mid = next
    BY <1>3 DEF Quiet
  <2> QED BY <1>1, <2>1, <2>2 DEF InOrder
<1> QED BY <1>2, <1>3 DEF InOrder

\* A broadcast is overtaken by none, and no other request has drawn a mid.
LEMMA BroadcastInOrder ==
    ASSUME TypeOK, InOrder, TurnByTurn, NEW s \in Senders, Broadcast(s)
    PROVE  InOrder'
<1>1. /\ task[s].pc \in {"stored", "merged"} /\ task'[s].pc = "idle"
      /\ \A t \in Senders \ {s} : task'[t] = task[t]
      /\ late' = IF \E m \in BroadcastMids : m > task[s].mid THEN late \cup {task[s].mid} ELSE late
  BY IdleTaskFields DEF Broadcast, TypeOK
<1>2. \A t \in Senders : ~Drawing(t)'
  BY <1>1 DEF TurnByTurn, Drawing
<1>3. ASSUME NEW m \in BroadcastMids
      PROVE  ~(m > task[s].mid)
  <2>1. PICK i \in ChatEvents : m = events[i].mid
    BY DEF BroadcastMids, ChatEvents
  <2>2. m < task[s].mid /\ m \in Nat /\ task[s].mid \in Nat
    BY <1>1, <2>1, TaskFields, ChatFields DEF InOrder, Drawing
  <2> QED BY <2>2
<1>4. late' = {}
  BY <1>1, <1>3 DEF InOrder
<1> QED BY <1>2, <1>4 DEF InOrder

\* A stop in order cuts no send, and the channel is empty after it.
LEMMA StopInOrder ==
    ASSUME TypeOK, InOrder, Stop
    PROVE  InOrder'
<1>0. \A s \in Senders : task[s] = IdleTask
  BY TaskFields, IdleTaskFields DEF Stop, BusyTask
<1>1. /\ \A s \in Senders : task[s] = IdleTask /\ task'[s] = IdleTask
      /\ late' = late \cup {task[s].mid : s \in {x \in Senders : task[x].mid # 0}}
                    \cup (next..(next - 1)) \cup MidsOf({})
  BY <1>0 DEF Stop, LoseMemory
<1>2. next \in Nat /\ next..(next - 1) = {}
  BY DEF TypeOK, DbTypeOK
<1>3. {x \in Senders : task[x].mid # 0} = {} /\ MidsOf({}) = {}
  BY <1>1, IdleTaskFields DEF MidsOf
<1>4. late' = {}
  BY <1>1, <1>2, <1>3 DEF InOrder
<1>5. \A s \in Senders : ~Drawing(s)'
  BY <1>1, IdleTaskFields DEF Drawing
<1> QED BY <1>4, <1>5 DEF InOrder

\* Every step but a crash keeps the order.
LEMMA InOrderNext ==
    ASSUME StreamsInv, InOrder, TurnByTurn, [Next]_vars, ~Crash
    PROVE  InOrder'
<1>1. TypeOK /\ MidInv /\ TargetsCurrent /\ SendsInv /\ KicksInv /\ TypeOK'
  BY TypeInvariant DEF StreamsInv, Inv
<1>2. ASSUME NEW s \in Senders,
             \/ \E p \in Posts : Accept(s, p.from, p.target, p.kind)
             \/ Allocate(s) \/ Store(s) \/ Merge(s) \/ Abandon(s) \/ SendFails(s)
      PROVE  InOrder'
  <2>1. Quiet(s)
    BY <1>1, <1>2, AcceptQuiet, AllocateQuiet, StoreQuiet, MergeQuiet, AbandonQuiet, SendFailsQuiet
  <2> QED BY <1>1, <2>1, QuietInOrder
<1>3. ASSUME NEW s \in Senders, Broadcast(s)
      PROVE  InOrder'
  BY <1>1, <1>3, BroadcastInOrder
<1>4. ASSUME UNCHANGED <<task, events, late>>
      PROVE  InOrder'
  BY <1>4 DEF InOrder, Drawing, ChatEvents
<1>5. ASSUME NEW u \in Users,
             \/ Subscribe(u) \/ SubscribeFails(u) \/ Snapshot(u)
             \/ Receive(u) \/ LagBreak(u) \/ Disconnect(u)
      PROVE  InOrder'
  <2>1. UNCHANGED <<task, events, late>>
    BY <1>5 DEF Subscribe, SubscribeFails, Snapshot, Receive, LagBreak, Disconnect,
                ReadSnapshot, ReadLive, EndStream
  <2> QED BY <1>4, <2>1
<1>6. ASSUME NEW g \in Groups, NEW u \in Users,
             \/ AddMember(g, u) \/ RemoveMember(g, u) \/ Leave(g, u)
             \/ DeleteGroup(g) \/ ClearGroup(g)
      PROVE  InOrder'
  <2>1. Quiet(NoTarget)
    BY <1>1, <1>6, GroupSteps
  <2> QED BY <1>1, <2>1, QuietInOrder
<1>7. CASE Stop
  BY <1>1, <1>7, StopInOrder
<1>8. CASE FlushDb \/ UNCHANGED vars
  <2>1. UNCHANGED <<task, events, late>>
    BY <1>8 DEF FlushDb, vars, sendVars
  <2> QED BY <1>4, <2>1
<1>9. Listeners \subseteq Users
  BY DeliveryAssumption
<1>10. \A g \in Groups : DeleteGroup(g) \/ ClearGroup(g) => \E u \in Users : TRUE
  BY <1>1 DEF DeleteGroup, ClearGroup, TypeOK
<1> QED BY <1>2, <1>3, <1>5, <1>6, <1>7, <1>8, <1>9, <1>10 DEF Next

\* The same app misses nothing, abandoned and failed sends and the cut at
\* MAX_NEWEST_MESSAGES apart, when one request at a time is between
\* generate_msg_id and its broadcast and no crash loses what was written: what
\* the run "reconnect" refutes is true of a server that serializes the two, and
\* of every history in which they happen not to overlap.
THEOREM ResumeInTurn == Spec /\ []TurnByTurn /\ [][~Crash]_vars => []ResumeIsComplete
<1>1. Init => InOrder
  BY IdleTaskFields DEF Init, InOrder, Drawing
<1>2. StreamsInv /\ InOrder /\ TurnByTurn /\ [Next]_vars /\ [~Crash]_vars => InOrder'
  <2>1. UNCHANGED vars /\ InOrder => InOrder'
    BY DEF vars, sendVars, InOrder, Drawing, ChatEvents
  <2> QED BY <2>1, InOrderNext
<1>3. InOrder /\ MissedIsExplained => ResumeIsComplete
  BY DEF InOrder, MissedIsExplained, ResumeIsComplete
<1> QED BY <1>1, <1>2, <1>3, StreamInvariance, MissesExplained, PTL DEF Spec

----------------------------------------------------------------------------
\* What a stream carries was written first, for its reader.

HasPut(m, to) == \E i \in Puts(log) : log[i].mid = m /\ log[i].to = to

IsFor(m, u) == \E i \in Puts(log) : log[i].mid = m /\ u \in log[i].to

\* What a request stored is in the log, and so is what was broadcast.
SendsWritten ==
    /\ \A s \in Senders :
          task[s].pc \in {"stored", "merged"} => HasPut(task[s].mid, task[s].to)
    /\ \A i \in ChatEvents : HasPut(events[i].mid, events[i].to)

StreamWritten(u) == \A m \in Pushed(u) : IsFor(m, u)

\* A stream carries only messages that were written to the message database,
\* its user among the recipients they were written for.
PushedWasWritten == \A u \in Users : StreamWritten(u)

\* No write of the log is taken back.
LogKept == \A i \in Puts(log) : i \in Puts(log') /\ log'[i] = log[i]

\* An append takes none back.
LEMMA AppendKeeps ==
    ASSUME TypeOK, NEW w \in Write, log' = Append(log, w)
    PROVE  /\ LogKept
           /\ w.op = "put" => Len(log) + 1 \in Puts(log') /\ log'[Len(log) + 1] = w
<1>1. log \in Seq(Write)
  BY DEF TypeOK, DbTypeOK
<1>2. /\ \A i \in 1..Len(log) : log'[i] = log[i]
      /\ log'[Len(log) + 1] = w
      /\ Puts(log') = Puts(log) \cup (IF w.op = "put" THEN {Len(log) + 1} ELSE {})
  BY <1>1, AppendWrite
<1>3. Puts(log) \subseteq 1..Len(log)
  BY <1>1, PutsInDomain
<1> QED BY <1>2, <1>3 DEF LogKept

\* Nor does generate_msg_id, which may append a lease.
LEMMA AllocateKeeps ==
    ASSUME TypeOK, MidInv, NEW s \in Senders, Allocate(s)
    PROVE  LogKept
<1>1. CASE next >= leased
  <2> DEFINE w == [op |-> "lease", key |-> FreshId + Bandwidth]
  <2>1. log' = Append(log, w)
    BY <1>1 DEF Allocate, GenerateId
  <2>2. FreshId \in Nat
    BY GenerateIdOK, KeyIsLeased DEF Allocate, TypeOK, DbTypeOK, MidInv
  <2>3. w \in Write
    BY <2>2, BandwidthAssumption DEF Write, LeaseWrite
  <2> HIDE DEF w
  <2> QED BY <2>1, <2>3, AppendKeeps
<1>2. CASE ~(next >= leased)
  BY <1>2 DEF Allocate, GenerateId, LogKept
<1> QED BY <1>1, <1>2

\* Only a crash takes writes back; a store adds the message of its request.
LEMMA RequestKeepsLog ==
    ASSUME TypeOK, MidInv, NEW s \in Senders,
           \/ \E p \in Posts : Accept(s, p.from, p.target, p.kind)
           \/ Allocate(s) \/ Store(s) \/ Merge(s) \/ Abandon(s) \/ SendFails(s)
    PROVE  /\ LogKept /\ UNCHANGED <<events, sess>>
           /\ \A t \in Senders : task'[t].pc \in {"stored", "merged"} =>
                 /\ task'[t].mid = task[t].mid /\ task'[t].to = task[t].to
                 /\ task[t].pc \in {"stored", "merged"} \/ HasPut(task[t].mid, task[t].to)'
<1>1. /\ UNCHANGED <<events, sess>>
      /\ \A t \in Senders \ {s} : task'[t] = task[t]
  BY DEF Accept, Allocate, Store, Merge, Abandon, SendFails, TypeOK
<1>2. log' = log => LogKept
  BY DEF LogKept
<1>3. CASE \E p \in Posts : Accept(s, p.from, p.target, p.kind)
  <2>1. task'[s].pc = "accepted" /\ log' = log
    BY <1>3 DEF Accept, TypeOK, dbVars
  <2> QED BY <1>1, <1>2, <2>1
<1>4. CASE Allocate(s)
  <2>1. LogKept
    BY <1>4, AllocateKeeps
  <2>2. task'[s].pc = "allocated"
    BY <1>4, TaskFields DEF Allocate, TypeOK, BusyTask
  <2> QED BY <1>1, <2>1, <2>2
<1>5. CASE Store(s)
  <2> DEFINE w == PutOf(s)
  <2>1. log' = Append(log, w) /\ w.to = task[s].to /\ task[s].pc # "idle"
    BY <1>5 DEF Store, SendTo, Commit, PutOf
  <2>2. w \in Write /\ w.op = "put" /\ w.mid = task[s].mid
    BY <2>1, PutOfOK DEF MidInv
  <2> HIDE DEF w
  <2>3. /\ LogKept /\ Len(log) + 1 \in Puts(log') /\ log'[Len(log) + 1] = w
    BY <2>1, <2>2, AppendKeeps
  <2>4. task'[s].mid = task[s].mid /\ task'[s].to = task[s].to
    BY <1>5, TaskFields DEF Store, TypeOK, BusyTask
  <2>5. log'[Len(log) + 1].mid = task[s].mid /\ log'[Len(log) + 1].to = task[s].to
    BY <2>1, <2>2, <2>3
  <2>6. HasPut(task[s].mid, task[s].to)'
    BY <2>3, <2>4, <2>5 DEF HasPut
  <2> QED BY <1>1, <2>3, <2>4, <2>6
<1>6. CASE Merge(s)
  <2>1. LogKept
    BY <1>6, MergeWriteOK, AppendKeeps DEF Merge, InsertMergedMsg, Commit, MidInv
  <2>2. task'[s].mid = task[s].mid /\ task'[s].to = task[s].to /\ task[s].pc = "stored"
    BY <1>6, TaskFields DEF Merge, TypeOK, BusyTask
  <2> QED BY <1>1, <2>1, <2>2
<1>7. CASE Abandon(s)
  <2>1. /\ log' = log /\ task'[s].mid = task[s].mid /\ task'[s].pc = task[s].pc
        /\ task'[s].to = task[s].to
    BY <1>7, TaskFields, IdleTaskFields DEF Abandon, TypeOK, dbVars, BusyTask
  <2> QED BY <1>1, <1>2, <2>1
<1>8. CASE SendFails(s)
  <2>1. log' = log /\ task'[s].pc = "idle"
    BY <1>8, IdleTaskFields DEF SendFails, TypeOK, dbVars
  <2> QED BY <1>1, <1>2, <2>1
<1> QED BY <1>3, <1>4, <1>5, <1>6, <1>7, <1>8

\* What is written stays written for the streams, the requests and the channel.
LEMMA WrittenStays ==
    ASSUME SendsWritten, PushedWasWritten, LogKept,
           \A t \in Senders : task'[t].pc \in {"stored", "merged"} =>
               /\ task'[t].mid = task[t].mid /\ task'[t].to = task[t].to
               /\ task[t].pc \in {"stored", "merged"} \/ HasPut(task[t].mid, task[t].to)',
           ChatEvents' = ChatEvents, \A i \in ChatEvents : events'[i] = events[i],
           UNCHANGED sess
    PROVE  SendsWritten' /\ PushedWasWritten'
<1>1. \A m, to : HasPut(m, to) => HasPut(m, to)'
  BY DEF HasPut, LogKept
<1>2. \A m, u : IsFor(m, u) => IsFor(m, u)'
  BY DEF IsFor, LogKept
<1>3. SendsWritten'
  BY <1>1 DEF SendsWritten
<1>4. \A u \in Users : Pushed(u)' = Pushed(u)
  BY DEF Pushed
<1> QED BY <1>2, <1>3, <1>4 DEF PushedWasWritten, StreamWritten

\* A request broadcasts what it stored.
LEMMA BroadcastWritten ==
    ASSUME TypeOK, SendsWritten, PushedWasWritten, NEW s \in Senders, Broadcast(s)
    PROVE  SendsWritten' /\ PushedWasWritten'
<1>1. /\ UNCHANGED <<log, sess>> /\ task[s].pc \in {"stored", "merged"} /\ task'[s].pc = "idle"
      /\ \A t \in Senders \ {s} : task'[t] = task[t]
  BY BroadcastStep
<1>2. HasPut(task[s].mid, task[s].to)
  BY <1>1 DEF SendsWritten
<1>3. \A i \in ChatEvents' : HasPut(events'[i].mid, events'[i].to)
  BY <1>2, BroadcastEvents DEF SendsWritten
<1>4. SendsWritten'
  BY <1>1, <1>3 DEF SendsWritten, HasPut
<1> QED BY <1>1, <1>4 DEF PushedWasWritten, StreamWritten, Pushed, IsFor

\* A stream pushes what is in the channel for its user, and its snapshot reads
\* the references of its user.
LEMMA StreamKeepsWritten ==
    ASSUME TypeOK, MidInv, SendsWritten, PushedWasWritten, NEW u \in Users,
           \/ Subscribe(u) \/ SubscribeFails(u) \/ Snapshot(u)
           \/ Receive(u) \/ LagBreak(u) \/ Disconnect(u),
           UserInv(u)
    PROVE  SendsWritten' /\ PushedWasWritten'
<1>1. UNCHANGED <<log, task, events>>
  BY DEF Subscribe, SubscribeFails, Snapshot, Receive, LagBreak, Disconnect,
         ReadSnapshot, ReadLive, EndStream, dbVars
<1>2. \A v \in Users \ {u} : sess'[v] = sess[v]
  BY DEF TypeOK, Subscribe, SubscribeFails, Snapshot, Receive, LagBreak, Disconnect,
         ReadSnapshot, ReadLive, EndStream
<1>3. SendsWritten'
  BY <1>1 DEF SendsWritten, HasPut, ChatEvents
<1>4. \A m : IsFor(m, u)' <=> IsFor(m, u)
  BY <1>1 DEF IsFor
<1>5. ASSUME sess'[u].snap = {}, sess'[u].live = <<>>
      PROVE  StreamWritten(u)'
  BY <1>5 DEF StreamWritten, Pushed
<1>6. ASSUME StreamWritten(u)'
      PROVE  PushedWasWritten'
  <2>1. \A v \in Users \ {u} : Pushed(v)' = Pushed(v) /\ \A m : IsFor(m, v)' <=> IsFor(m, v)
    BY <1>1, <1>2 DEF Pushed, IsFor
  <2>2. \A v \in Users \ {u} : StreamWritten(v)'
    BY <2>1 DEF PushedWasWritten, StreamWritten
  <2> QED BY <1>6, <2>2 DEF PushedWasWritten
<1>7. CASE Subscribe(u)
  <2>1. sess'[u].snap = {} /\ sess'[u].live = <<>>
    BY <1>7 DEF Subscribe, TypeOK, ClosedSession
  <2> QED BY <1>3, <1>5, <1>6, <2>1
<1>8. CASE SubscribeFails(u) \/ LagBreak(u) \/ Disconnect(u)
  <2>1. sess'[u] = ClosedSession
    BY <1>8 DEF SubscribeFails, LagBreak, Disconnect, ReadSnapshot, ReadLive, EndStream, TypeOK
  <2>2. StreamWritten(u)'
    BY <1>5, <2>1, ClosedFields
  <2> QED BY <1>3, <1>6, <2>2
<1>9. CASE Snapshot(u)
  <2> DEFINE snap == MidsOf(NewestMessages(u))
             cut == Newest(MidsOf(Hidden(u)))
  <2>1. \A m \in snap : IsFor(m, u)
    BY DEF MidsOf, NewestMessages, FetchUserMessagesAfter, UserMessages, Stored, IsFor
  <2>2. /\ sess' = [sess EXCEPT ![u] =
                    [@ EXCEPT !.st = "open", !.start = Newest(snap), !.snap = snap, !.cut = cut]]
    BY <1>9 DEF Snapshot
  <2> HIDE DEF snap, cut
  <2>3. sess'[u].snap = snap /\ sess'[u].live = sess[u].live
    BY <2>2 DEF TypeOK, Session
  <2>4. StreamWritten(u)'
    BY <1>4, <2>1, <2>3 DEF PushedWasWritten, StreamWritten, Pushed
  <2> QED BY <1>3, <1>6, <2>4
<1>10. CASE Receive(u)
  <2> PICK e : e = events[sess[u].cursor + 1]
    OBVIOUS
  <2>1. /\ sess[u].cursor + 1 \in 1..Len(events) /\ sess'[u].snap = sess[u].snap
        /\ \/ Pushes(u, e) /\ sess'[u].live = Append(sess[u].live, e.mid)
           \/ sess'[u].live = sess[u].live
    BY <1>10, ReceiveStep
  <2>2. CASE sess'[u].live = sess[u].live
    <3>1. StreamWritten(u)'
      BY <1>4, <2>1, <2>2 DEF PushedWasWritten, StreamWritten, Pushed
    <3> QED BY <1>3, <1>6, <3>1
  <2>3. CASE Pushes(u, e) /\ sess'[u].live = Append(sess[u].live, e.mid)
    <3>1. sess[u].cursor + 1 \in ChatEvents /\ u \in e.to
      BY <2>1, <2>3, ChatFields DEF Pushes, ChatEvents
    <3>2. IsFor(e.mid, u)
      BY <3>1 DEF SendsWritten, HasPut, IsFor
    <3>3. e.mid \in Nat /\ sess[u].live \in Seq(Nat)
      BY <3>1, ChatFields, StreamFields
    <3>4. \A a \in DOMAIN sess'[u].live :
             sess'[u].live[a] = e.mid \/ (a \in DOMAIN sess[u].live /\ sess'[u].live[a] = sess[u].live[a])
      BY <2>3, <3>3, AppendProperties
    <3>5. StreamWritten(u)'
      BY <1>4, <2>1, <3>2, <3>4 DEF PushedWasWritten, StreamWritten, Pushed
    <3> QED BY <1>3, <1>6, <3>5
  <2> QED BY <2>1, <2>2, <2>3
<1> QED BY <1>7, <1>8, <1>9, <1>10

\* Every step keeps what is written.
LEMMA WrittenNext ==
    ASSUME StreamsInv, SendsWritten, PushedWasWritten, [Next]_vars
    PROVE  SendsWritten' /\ PushedWasWritten'
<1>1. TypeOK /\ MidInv /\ SendsInv /\ KicksInv /\ TypeOK' /\ \A u \in Users : UserInv(u)
  BY TypeInvariant DEF StreamsInv, Inv
<1> DEFINE Good == SendsWritten' /\ PushedWasWritten'
<1>2. ASSUME NEW s \in Senders,
             \/ \E p \in Posts : Accept(s, p.from, p.target, p.kind)
             \/ Allocate(s) \/ Store(s) \/ Merge(s) \/ Abandon(s) \/ SendFails(s)
      PROVE  Good
  <2>1. ChatEvents' = ChatEvents /\ \A i \in ChatEvents : events'[i] = events[i]
    BY <1>1, <1>2, RequestKeepsLog DEF ChatEvents
  <2> QED BY <1>1, <1>2, <2>1, RequestKeepsLog, WrittenStays
<1>3. ASSUME NEW s \in Senders, Broadcast(s)
      PROVE  Good
  BY <1>1, <1>3, BroadcastWritten
<1>4. ASSUME NEW u \in Users,
             \/ Subscribe(u) \/ SubscribeFails(u) \/ Snapshot(u)
             \/ Receive(u) \/ LagBreak(u) \/ Disconnect(u)
      PROVE  Good
  BY <1>1, <1>4, StreamKeepsWritten
<1>5. ASSUME NEW g \in Groups, NEW u \in Users,
             \/ AddMember(g, u) \/ RemoveMember(g, u) \/ Leave(g, u)
             \/ DeleteGroup(g) \/ ClearGroup(g)
      PROVE  Good
  <2>1. Quiet(NoTarget)
    BY <1>1, <1>5, GroupSteps
  <2>2. UNCHANGED <<task, sess>>
    BY <1>5 DEF AddMember, RemoveMember, Leave, DeleteGroup, ClearGroup
  <2>3. LogKept
    <3>1. CASE ClearGroup(g)
      BY <1>1, <3>1, ClearWriteOK, AppendKeeps DEF ClearGroup, ClearGroupMessages, Commit, MidInv
    <3>2. CASE log' = log
      BY <3>2 DEF LogKept
    <3> QED BY <1>5, <3>1, <3>2 DEF AddMember, RemoveMember, Leave, DeleteGroup, dbVars
  <2> QED BY <2>1, <2>2, <2>3, WrittenStays DEF Quiet
<1>6. CASE Crash \/ Stop
  <2>1. PICK first, back : LoseMemory(first, back)
    BY <1>6 DEF Crash, Stop
  <2>2. /\ \A s \in Senders : task'[s].pc = "idle"
        /\ ChatEvents' = {}
        /\ \A u \in Users : sess'[u] = ClosedSession
    BY <2>1, IdleTaskFields DEF LoseMemory, ChatEvents
  <2>3. \A u \in Users : Pushed(u)' = {}
    BY <2>2, ClosedFields DEF Pushed
  <2> QED BY <2>2, <2>3 DEF SendsWritten, PushedWasWritten, StreamWritten
<1>7. CASE FlushDb \/ UNCHANGED vars
  <2>1. UNCHANGED <<log, task, events, sess>>
    BY <1>7 DEF FlushDb, Flush, vars, sendVars, dbVars
  <2>2. LogKept /\ ChatEvents' = ChatEvents
    BY <2>1 DEF LogKept, ChatEvents
  <2> QED BY <2>1, <2>2, WrittenStays
<1>8. Listeners \subseteq Users
  BY DeliveryAssumption
<1>9. \A g \in Groups : DeleteGroup(g) \/ ClearGroup(g) => \E u \in Users : TRUE
  BY <1>1 DEF DeleteGroup, ClearGroup, TypeOK
<1> QED BY <1>2, <1>3, <1>4, <1>5, <1>6, <1>7, <1>8, <1>9 DEF Next

\* What a stream carries to an app, in its snapshot or as a push, was written
\* to the message database before, and for that user: at every moment, also
\* between the steps of a send, after clearings and when mids are issued twice.
THEOREM CarriesOwnWrites == Spec => []PushedWasWritten
<1>1. Init => SendsWritten /\ PushedWasWritten
  <2> SUFFICES ASSUME Init PROVE SendsWritten /\ PushedWasWritten
    OBVIOUS
  <2>1. /\ \A s \in Senders : task[s].pc = "idle"
        /\ ChatEvents = {}
        /\ \A u \in Users : sess[u] = ClosedSession
    BY IdleTaskFields DEF Init, ChatEvents
  <2>2. \A u \in Users : Pushed(u) = {}
    BY <2>1, ClosedFields DEF Pushed
  <2> QED BY <2>1, <2>2 DEF SendsWritten, PushedWasWritten, StreamWritten
<1>2. StreamsInv /\ SendsWritten /\ PushedWasWritten /\ [Next]_vars
        => SendsWritten' /\ PushedWasWritten'
  BY WrittenNext
<1> QED BY <1>1, <1>2, StreamInvariance, PTL DEF Spec
=============================================================================
