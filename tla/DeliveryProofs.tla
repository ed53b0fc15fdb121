--------------------------- MODULE DeliveryProofs ---------------------------
(***************************************************************************)
(* Proofs about Delivery, for every number of users, groups, requests and  *)
(* steps.  Inv is the inductive invariant: types, the identifiers of the   *)
(* message database (IdInv of MsgDbProofs) and their part in the requests  *)
(* and the channel, and what the lock protects.  The last part is the      *)
(* refinement of MessageStore.                                             *)
(***************************************************************************)
EXTENDS Delivery, MsgDbProofs

TaskMids ==
    \A s \in Senders :
        /\ task[s].mid < next
        /\ task[s].pc = "allocated" => \A i \in Puts(log) : log[i].mid # task[s].mid

TasksApart ==
    \A s, t \in Senders :
        s # t /\ task[s].pc = "allocated" /\ task[t].pc = "allocated" => task[s].mid # task[t].mid

EventMids == \A i \in DOMAIN events : events[i].mid < next

MidInv == IdInv /\ TaskMids /\ TasksApart /\ EventMids

Inv == TypeOK /\ MidInv /\ TargetsCurrent

----------------------------------------------------------------------------
\* Facts about the state that follow from its type.

LEMMA IdleTaskFields ==
    /\ IdleTask.pc = "idle" /\ IdleTask.mid = 0 /\ IdleTask.guard = FALSE
    /\ IdleTask \notin BusyTask
  BY DEF IdleTask, BusyTask

LEMMA TaskFields ==
    ASSUME TypeOK, NEW s \in Senders
    PROVE  /\ task[s] \in {IdleTask} \cup BusyTask
           /\ task[s].mid \in Nat
           /\ task[s].guard \in BOOLEAN
           /\ task[s].pc # "idle" => task[s] \in BusyTask
<1>1. task[s] \in {IdleTask} \cup BusyTask
  BY DEF TypeOK
<1>2. CASE task[s] = IdleTask
  BY <1>2 DEF IdleTask
<1>3. CASE task[s] \in BusyTask
  BY <1>1, <1>3 DEF BusyTask, Mid
<1>4. QED
  BY <1>1, <1>2, <1>3

LEMMA NewestInNat ==
    ASSUME NEW S \in SUBSET Nat
    PROVE  Newest(S) \in Nat
  BY DEF Newest

LEMMA MidsOfPuts ==
    ASSUME DbTypeOK, NEW W, W \subseteq Puts(log)
    PROVE  MidsOf(W) \subseteq Nat
<1>1. log \in Seq(Write)
  BY DEF DbTypeOK
<1>2. \A i \in Puts(log) : log[i].mid \in Nat
  BY <1>1, PutsInDomain
<1>3. QED
  BY <1>2 DEF MidsOf

LEMMA LastPushedInNat ==
    ASSUME TypeOK, NEW u \in Users
    PROVE  LastPushed(u) \in Nat /\ Pushed(u) \subseteq Nat
<1>1. sess[u].live \in Seq(Nat) /\ sess[u].snap \subseteq Nat
  BY DEF TypeOK, Session, Mid
<1>2. \A i \in DOMAIN sess[u].live : sess[u].live[i] \in Nat
  BY <1>1, LenProperties, ElementOfSeq
<1>3. Pushed(u) \subseteq Nat
  BY <1>1, <1>2 DEF Pushed
<1>4. sess[u].live # <<>> => sess[u].live[Len(sess[u].live)] \in Nat
  BY <1>1, EmptySeq, LenProperties, ElementOfSeq
<1>5. Newest(sess[u].snap) \in Nat
  BY <1>1, NewestInNat
<1>6. QED
  BY <1>3, <1>4, <1>5 DEF LastPushed

LEMMA ClosedSessionType == ClosedSession \in Session
<1>1. <<>> \in Seq(Nat)
  OBVIOUS
<1>2. QED
  BY <1>1 DEF ClosedSession, Session, Mid

LEMMA SpendType ==
    ASSUME TypeOK, NEW what \in {"sends", "abandons", "faults", "restarts", "admin"}, NEW max,
           Spend(what, max)
    PROVE  used' \in Bound
  BY SMTT(30) DEF TypeOK, Bound, Spend

----------------------------------------------------------------------------
\* Each action keeps the types.

LEMMA InitType == Init => TypeOK
<1> SUFFICES ASSUME Init PROVE TypeOK
  OBVIOUS
<1>1. DbTypeOK
  BY DbInitOK DEF Init
<1>2. events \in Seq(Event)
  BY DEF Init
<1>3. sess \in [Users -> Session]
  BY ClosedSessionType DEF Init
<1>4. client \in [Users -> Client] /\ used \in Bound
  BY DEF Init, Client, Mid, Bound
<1>5. QED
  BY <1>1, <1>2, <1>3, <1>4 DEF TypeOK, Init

LEMMA AcceptType ==
    ASSUME TypeOK, NEW s \in Senders, NEW p \in Posts, Accept(s, p.from, p.target, p.kind)
    PROVE  TypeOK'
<1>1. p.from \in Users /\ p.target \in Targets /\ p.kind \in Kinds
  BY DeliveryAssumption
<1>2. Recipients(p.from, p.target) \subseteq Users
  BY <1>1 DEF TypeOK, Recipients, Targets
<1>3. task' \in [Senders -> {IdleTask} \cup BusyTask]
  BY <1>1, <1>2 DEF TypeOK, Accept, BusyTask, Mid
<1>4. used' \in Bound
  BY SpendType DEF Accept
<1>5. QED
  BY <1>3, <1>4 DEF TypeOK, Accept, DbTypeOK, dbVars

LEMMA AllocateType ==
    ASSUME TypeOK, IdInv, NEW s \in Senders, Allocate(s)
    PROVE  TypeOK'
<1>1. DbTypeOK'
  BY GenerateIdOK DEF TypeOK, Allocate
<1>2. FreshId \in Nat
  BY KeyIsLeased DEF TypeOK
<1>3. task[s] \in BusyTask
  BY TaskFields DEF Allocate
<1>4. task' \in [Senders -> {IdleTask} \cup BusyTask]
  BY <1>2, <1>3 DEF TypeOK, Allocate, BusyTask, Mid
<1>5. odd' \subseteq Mid
  BY <1>2 DEF TypeOK, Allocate, Mid
<1>6. QED
  BY <1>1, <1>4, <1>5 DEF TypeOK, Allocate

\* The batch of a send, as a write of the store.
PutOf(s) == [op |-> "put", mid |-> task[s].mid, target |-> task[s].target, to |-> task[s].to,
             key |-> SequenceKey(log)]

LEMMA PutOfOK ==
    ASSUME TypeOK, IdInv, NEW s \in Senders, task[s].pc # "idle"
    PROVE  /\ PutOf(s) \in Write
           /\ PutOf(s).op = "put" /\ PutOf(s).mid = task[s].mid /\ PutOf(s).key = SequenceKey(log)
<1>1. task[s] \in BusyTask /\ SequenceKey(log) \in Nat
  BY TaskFields, KeyIsLeased DEF TypeOK
<1>2. QED
  BY <1>1 DEF PutOf, Write, PutWrite, BusyTask, Mid

LEMMA MergeWriteOK ==
    ASSUME TypeOK, IdInv, NEW s \in Senders
    PROVE  [op |-> "merge", mid |-> task[s].mid, key |-> SequenceKey(log)] \in Write
<1>1. task[s].mid \in Nat /\ SequenceKey(log) \in Nat
  BY TaskFields, KeyIsLeased DEF TypeOK
<1>2. QED
  BY <1>1 DEF Write, MergeWrite, Mid

LEMMA ClearWriteOK ==
    ASSUME TypeOK, IdInv, NEW g \in Groups
    PROVE  [op |-> "clear", gid |-> g, key |-> SequenceKey(log)] \in Write
<1>1. SequenceKey(log) \in Nat
  BY KeyIsLeased DEF TypeOK
<1>2. QED
  BY <1>1 DEF Write, ClearWrite

\* What a send writes keeps the identifiers in order.
LEMMA StoreDb ==
    ASSUME TypeOK, MidInv, NEW s \in Senders, Store(s)
    PROVE  /\ DbTypeOK' /\ IdInv' /\ next' = next
           /\ \A i \in Puts(log') : \/ i \in Puts(log) /\ log'[i] = log[i]
                                   \/ log'[i].mid = task[s].mid
<1> DEFINE w == PutOf(s)
<1>1. /\ w \in Write /\ w.op = "put" /\ w.mid = task[s].mid /\ w.key = SequenceKey(log)
      /\ Commit(w)
  <2>1. task[s].pc # "idle" /\ Commit(w)
    BY DEF Store, SendTo, PutOf
  <2>2. QED
    BY <2>1, PutOfOK DEF MidInv
<1>2. w.mid < next /\ \A i \in Puts(log) : log[i].mid # w.mid
  BY <1>1 DEF MidInv, TaskMids, Store
<1> HIDE DEF w
<1>3. QED
  BY <1>1, <1>2, CommitOK DEF MidInv, TypeOK

LEMMA MergeDb ==
    ASSUME TypeOK, IdInv, NEW s \in Senders, Merge(s)
    PROVE  /\ DbTypeOK' /\ IdInv' /\ next' = next
           /\ \A i \in Puts(log') : i \in Puts(log) /\ log'[i] = log[i]
<1> DEFINE w == [op |-> "merge", mid |-> task[s].mid, key |-> SequenceKey(log)]
<1>1. w \in Write /\ w.op # "put" /\ w.key = SequenceKey(log) /\ Commit(w)
  BY MergeWriteOK DEF Merge, InsertMergedMsg
<1> HIDE DEF w
<1>2. QED
  BY <1>1, CommitOK DEF TypeOK

LEMMA ClearDb ==
    ASSUME TypeOK, IdInv, NEW g \in Groups, ClearGroup(g)
    PROVE  /\ DbTypeOK' /\ IdInv' /\ next' = next
           /\ \A i \in Puts(log') : i \in Puts(log) /\ log'[i] = log[i]
<1> DEFINE w == [op |-> "clear", gid |-> g, key |-> SequenceKey(log)]
<1>1. w \in Write /\ w.op # "put" /\ w.key = SequenceKey(log) /\ Commit(w)
  BY ClearWriteOK DEF ClearGroup, ClearGroupMessages
<1> HIDE DEF w
<1>2. QED
  BY <1>1, CommitOK DEF TypeOK

LEMMA StoreType ==
    ASSUME TypeOK, MidInv, NEW s \in Senders, Store(s)
    PROVE  TypeOK'
<1>1. DbTypeOK'
  BY StoreDb
<1>2. task[s] \in BusyTask
  BY TaskFields DEF Store
<1>3. task' \in [Senders -> {IdleTask} \cup BusyTask]
  BY <1>2 DEF TypeOK, Store, BusyTask
<1>4. QED
  BY <1>1, <1>3 DEF TypeOK, Store

LEMMA MergeType ==
    ASSUME TypeOK, MidInv, NEW s \in Senders, Merge(s)
    PROVE  TypeOK'
<1>1. DbTypeOK'
  BY MergeDb DEF MidInv
<1>2. task[s] \in BusyTask
  BY TaskFields DEF Merge
<1>3. task' \in [Senders -> {IdleTask} \cup BusyTask]
  BY <1>2 DEF TypeOK, Merge, BusyTask
<1>4. QED
  BY <1>1, <1>3 DEF TypeOK, Merge

LEMMA BroadcastType ==
    ASSUME TypeOK, NEW s \in Senders, Broadcast(s)
    PROVE  TypeOK'
<1>1. task[s] \in BusyTask /\ task[s].mid \in Nat
  BY TaskFields DEF Broadcast
<1>2. Chat(s) \in Event
  BY <1>1 DEF Chat, Event, BusyTask, Mid
<1>3. events' \in Seq(Event)
  BY <1>2, AppendProperties DEF TypeOK, Broadcast
<1>4. late' \subseteq Mid /\ task' \in [Senders -> {IdleTask} \cup BusyTask]
  BY <1>1 DEF TypeOK, Broadcast, Mid
<1>5. QED
  BY <1>3, <1>4 DEF TypeOK, Broadcast, DbTypeOK, dbVars

LEMMA AbandonType ==
    ASSUME TypeOK, NEW s \in Senders, Abandon(s)
    PROVE  TypeOK'
<1>1. task[s] \in BusyTask /\ task[s].mid \in Nat
  BY TaskFields, IdleTaskFields DEF Abandon
<1>2. task' \in [Senders -> {IdleTask} \cup BusyTask] /\ odd' \subseteq Mid
  BY <1>1 DEF TypeOK, Abandon, BusyTask, Mid
<1>3. used' \in Bound
  BY SpendType DEF Abandon
<1>4. QED
  BY <1>2, <1>3 DEF TypeOK, Abandon, DbTypeOK, dbVars

LEMMA SendFailsType ==
    ASSUME TypeOK, NEW s \in Senders, SendFails(s)
    PROVE  TypeOK'
<1>1. task' \in [Senders -> {IdleTask} \cup BusyTask] /\ odd' \subseteq Mid
  BY TaskFields DEF TypeOK, SendFails, Mid
<1>2. used' \in Bound
  BY SpendType DEF SendFails
<1>3. QED
  BY <1>1, <1>2 DEF TypeOK, SendFails, DbTypeOK, dbVars

LEMMA SubscribeType ==
    ASSUME TypeOK, NEW u \in Users, Subscribe(u)
    PROVE  TypeOK'
<1>1. Len(events) \in Nat /\ client[u].last \in Nat
  BY LenProperties DEF TypeOK, Client, Mid
<1>2. [ClosedSession EXCEPT !.st = "subscribing", !.cursor = Len(events), !.after = client[u].last]
         \in Session
  BY <1>1, ClosedSessionType DEF Session, Mid
<1>3. sess' \in [Users -> Session]
  BY <1>2 DEF TypeOK, Subscribe
<1>4. QED
  BY <1>3 DEF TypeOK, Subscribe, DbTypeOK, dbVars

LEMMA SubscribeFailsType ==
    ASSUME TypeOK, NEW u \in Users, SubscribeFails(u)
    PROVE  TypeOK'
<1>1. sess' \in [Users -> Session]
  BY ClosedSessionType DEF TypeOK, SubscribeFails
<1>2. used' \in Bound
  BY SpendType DEF SubscribeFails
<1>3. QED
  BY <1>1, <1>2 DEF TypeOK, SubscribeFails, DbTypeOK, dbVars

LEMMA SnapshotType ==
    ASSUME TypeOK, NEW u \in Users, Snapshot(u)
    PROVE  TypeOK'
<1> DEFINE snap == MidsOf(NewestMessages(u))
           cut == Newest(MidsOf(Hidden(u)))
<1>1. NewestMessages(u) \subseteq Puts(log) /\ Hidden(u) \subseteq Puts(log)
  BY DEF NewestMessages, Hidden, FetchUserMessagesAfter, UserMessages, Stored
<1>2. snap \subseteq Nat /\ MidsOf(Hidden(u)) \subseteq Nat
  BY <1>1, MidsOfPuts DEF TypeOK
<1>3. Newest(snap) \in Nat /\ cut \in Nat
  BY <1>2, NewestInNat
<1>4. /\ sess' = [sess EXCEPT ![u] =
                    [@ EXCEPT !.st = "open", !.start = Newest(snap), !.snap = snap, !.cut = cut]]
      /\ client' = [client EXCEPT ![u].cut = IF cut > @ THEN cut ELSE @]
  BY DEF Snapshot
<1> HIDE DEF snap, cut
<1>5. sess' \in [Users -> Session]
  BY ZenonT(30), <1>2, <1>3, <1>4 DEF TypeOK, Session, Mid
<1>6. client' \in [Users -> Client]
  BY <1>3, <1>4 DEF TypeOK, Client, Mid
<1>7. QED
  BY <1>5, <1>6 DEF TypeOK, Snapshot, DbTypeOK, dbVars

LEMMA SessionMoves ==
    ASSUME NEW r \in Session, NEW start \in Nat, NEW live \in Seq(Nat)
    PROVE  [r EXCEPT !.cursor = @ + 1, !.start = start, !.live = live] \in Session
<1>1. r.cursor + 1 \in Nat
  BY DEF Session
<1> DEFINE n == r.cursor + 1
<1> HIDE DEF n
<1>2. [r EXCEPT !.cursor = n, !.start = start, !.live = live] \in Session
  BY <1>1 DEF Session, Mid, n
<1>3. QED
  BY <1>2 DEF n

LEMMA ReceiveType ==
    ASSUME TypeOK, NEW u \in Users, Receive(u)
    PROVE  TypeOK'
<1> DEFINE e == events[sess[u].cursor + 1]
           push == e.kind = "chat" /\ u \in e.to /\ e.mid > sess[u].start
           start == IF push THEN 0 ELSE sess[u].start
           live == IF push THEN Append(sess[u].live, e.mid) ELSE sess[u].live
           new == [sess[u] EXCEPT !.cursor = @ + 1, !.start = start, !.live = live]
<1>1. /\ sess[u] \in Session /\ sess[u].cursor \in Nat /\ sess[u].start \in Nat
      /\ sess[u].live \in Seq(Nat)
  BY DEF TypeOK, Session, Mid
<1>2. e \in Event
  BY <1>1, ElementOfSeq, LenProperties DEF TypeOK, Receive
<1>3. e.mid \in Nat
  BY <1>2 DEF Event, Mid
<1>4. Append(sess[u].live, e.mid) \in Seq(Nat)
  BY <1>1, <1>3, AppendProperties
<1>5. sess' = [sess EXCEPT ![u] = new]
  BY DEF Receive
<1> HIDE DEF e, push
<1>6. start \in Nat /\ live \in Seq(Nat)
  BY <1>1, <1>4
<1> HIDE DEF start, live
<1>7. new \in Session
  BY <1>1, <1>6, SessionMoves
<1> HIDE DEF new
<1>8. sess' \in [Users -> Session]
  BY <1>5, <1>7 DEF TypeOK
<1>9. QED
  BY <1>8 DEF TypeOK, Receive, DbTypeOK, dbVars

LEMMA EndStreamType ==
    ASSUME TypeOK, NEW u \in Users, NEW got \in SUBSET Nat, NEW last \in Nat,
           EndStream(u, got, last)
    PROVE  TypeOK'
<1>1. sess' \in [Users -> Session]
  BY ClosedSessionType DEF TypeOK, EndStream
<1>2. client' \in [Users -> Client]
  BY DEF TypeOK, EndStream, Client, Mid
<1>3. QED
  BY <1>1, <1>2 DEF TypeOK, EndStream, DbTypeOK, dbVars

LEMMA DisconnectType ==
    ASSUME TypeOK, NEW u \in Users, Disconnect(u)
    PROVE  TypeOK'
<1>1. sess[u].live \in Seq(Nat) /\ sess[u].snap \subseteq Nat
  BY DEF TypeOK, Session, Mid
<1>2. DOMAIN sess[u].live = 1..Len(sess[u].live)
      /\ \A i \in 1..Len(sess[u].live) : sess[u].live[i] \in Nat
  BY <1>1, LenProperties, ElementOfSeq
<1>3. ASSUME NEW last \in {0} \cup sess[u].snap, ReadSnapshot(u, last)
      PROVE  TypeOK'
  <2>1. {m \in sess[u].snap : m <= last} \in SUBSET Nat /\ last \in Nat
    BY <1>1
  <2>2. QED
    BY <2>1, <1>3, EndStreamType DEF ReadSnapshot
<1>4. ASSUME NEW n \in DOMAIN sess[u].live, ReadLive(u, n)
      PROVE  TypeOK'
  <2>1. sess[u].snap \cup {sess[u].live[i] : i \in 1..n} \in SUBSET Nat
    BY <1>1, <1>2
  <2>2. sess[u].live[n] \in Nat
    BY <1>2
  <2>3. QED
    BY <2>1, <2>2, <1>4, EndStreamType DEF ReadLive
<1>5. QED
  BY <1>3, <1>4 DEF Disconnect

LEMMA LagBreakType ==
    ASSUME TypeOK, NEW u \in Users, LagBreak(u)
    PROVE  TypeOK'
<1>1. LastPushed(u) \in Nat /\ Pushed(u) \in SUBSET Nat
  BY LastPushedInNat
<1>2. QED
  BY <1>1, EndStreamType DEF LagBreak

LEMMA NoticeType ==
    ASSUME NEW kind \in {"join", "kick", "other"}, NEW g \in Groups, NEW to \in SUBSET Users
    PROVE  Notice(kind, g, to) \in Event
  BY DEF Notice, Event, Targets, Mid

LEMMA TwoNotices ==
    ASSUME NEW l \in Seq(Event), NEW a \in Event, NEW b \in Event
    PROVE  /\ l \o <<a, b>> \in Seq(Event)
           /\ \A i \in DOMAIN (l \o <<a, b>>) :
                 \/ i \in DOMAIN l /\ (l \o <<a, b>>)[i] = l[i]
                 \/ (l \o <<a, b>>)[i] \in {a, b}
<1>1. <<a, b>> \in Seq(Event) /\ Len(<<a, b>>) = 2
  OBVIOUS
<1>2. /\ l \o <<a, b>> \in Seq(Event) /\ Len(l \o <<a, b>>) = Len(l) + 2 /\ Len(l) \in Nat
      /\ \A i \in 1..(Len(l) + 2) :
            (l \o <<a, b>>)[i] = IF i <= Len(l) THEN l[i] ELSE <<a, b>>[i - Len(l)]
      /\ DOMAIN (l \o <<a, b>>) = 1..(Len(l) + 2) /\ DOMAIN l = 1..Len(l)
  BY <1>1, ConcatProperties, LenProperties
<1>3. QED
  BY <1>2

LEMMA MembershipType ==
    ASSUME TypeOK, NEW g \in Groups, NEW u \in Users,
           AddMember(g, u) \/ RemoveMember(g, u) \/ Leave(g, u)
    PROVE  TypeOK'
<1>1. members' \in [Groups -> SUBSET Users]
  BY ZenonT(30) DEF TypeOK, AddMember, RemoveMember, Leave
<1>2. {u} \subseteq Users /\ members[g] \subseteq Users /\ members[g] \ {u} \subseteq Users
  BY DEF TypeOK
<1>3. events' \in Seq(Event)
  <2>1. CASE AddMember(g, u)
    <3>1. Notice("join", g, {u}) \in Event /\ Notice("other", g, members[g]) \in Event
      BY <1>2, NoticeType
    <3>2. QED
      BY <2>1, <3>1, TwoNotices DEF AddMember, TypeOK
  <2>2. CASE RemoveMember(g, u)
    <3>1. Notice("kick", g, {u}) \in Event /\ Notice("other", g, members[g] \ {u}) \in Event
      BY <1>2, NoticeType
    <3>2. QED
      BY <2>2, <3>1, TwoNotices DEF RemoveMember, TypeOK
  <2>3. CASE Leave(g, u)
    <3>1. Notice("other", g, members[g]) \in Event
      BY <1>2, NoticeType
    <3>2. QED
      BY <2>3, <3>1, AppendProperties DEF Leave, TypeOK
  <2>4. QED
    BY <2>1, <2>2, <2>3
<1>4. used' \in Bound
  BY SpendType DEF AddMember, RemoveMember, Leave, Administer
<1>5. QED
  BY <1>1, <1>3, <1>4 DEF TypeOK, AddMember, RemoveMember, Leave, DbTypeOK, dbVars

LEMMA DeleteGroupType ==
    ASSUME TypeOK, NEW g \in Groups, DeleteGroup(g)
    PROVE  TypeOK'
<1>1. members' \in [Groups -> SUBSET Users] /\ members[g] \subseteq Users
  BY DEF TypeOK, DeleteGroup
<1>2. Notice("kick", g, members[g]) \in Event
  BY <1>1, NoticeType
<1>3. events' \in Seq(Event)
  BY <1>2, AppendProperties DEF TypeOK, DeleteGroup
<1>4. used' \in Bound
  BY SpendType DEF DeleteGroup, Administer
<1>5. QED
  BY <1>1, <1>3, <1>4 DEF TypeOK, DeleteGroup, DbTypeOK, dbVars

LEMMA ClearGroupType ==
    ASSUME TypeOK, MidInv, NEW g \in Groups, ClearGroup(g)
    PROVE  TypeOK'
<1>1. DbTypeOK'
  BY ClearDb DEF MidInv
<1>2. members[g] \subseteq Users
  BY DEF TypeOK
<1>3. Notice("other", g, members[g]) \in Event
  BY <1>2, NoticeType
<1>4. events' \in Seq(Event)
  BY <1>3, AppendProperties DEF TypeOK, ClearGroup
<1>5. used' \in Bound
  BY SpendType DEF ClearGroup, Administer
<1>6. QED
  BY <1>1, <1>4, <1>5 DEF TypeOK, ClearGroup

LEMMA LoseMemoryType ==
    ASSUME TypeOK, DbTypeOK', NEW first \in Nat, NEW back, back \subseteq Puts(log),
           LoseMemory(first, back)
    PROVE  TypeOK'
<1>1. \A u \in Users : LastPushed(u) \in Nat /\ Pushed(u) \subseteq Nat
  BY LastPushedInNat
<1>2. client' \in [Users -> Client]
  BY <1>1 DEF TypeOK, LoseMemory, Client, Mid
<1>3. sess' \in [Users -> Session]
  BY ClosedSessionType DEF LoseMemory
<1>4. late' \subseteq Mid
  <2>1. {task[s].mid : s \in {x \in Senders : task[x].mid # 0}} \subseteq Nat
    BY TaskFields
  <2>2. first..(next - 1) \subseteq Nat
    BY DEF TypeOK, DbTypeOK
  <2>3. MidsOf(back) \subseteq Nat
    BY MidsOfPuts DEF TypeOK
  <2>4. QED
    BY <2>1, <2>2, <2>3 DEF TypeOK, LoseMemory, Mid
<1>5. used' \in Bound
  BY SpendType DEF LoseMemory
<1>6. events' \in Seq(Event) /\ task' \in [Senders -> {IdleTask} \cup BusyTask]
  BY DEF LoseMemory
<1>7. QED
  BY <1>2, <1>3, <1>4, <1>5, <1>6 DEF TypeOK, LoseMemory

LEMMA CrashType ==
    ASSUME TypeOK, IdInv, Crash
    PROVE  TypeOK' /\ IdInv'
<1>1. PICK k \in flushed..Len(log) :
         CrashAndOpen(k) /\ LoseMemory(SequenceKey(SubSeq(log, 1, k)), Returned(k))
  BY DEF Crash
<1>2. /\ DbTypeOK' /\ IdInv'
      /\ next' = SequenceKey(SubSeq(log, 1, k))
  BY <1>1, CrashAndOpenOK DEF TypeOK
<1>3. SequenceKey(SubSeq(log, 1, k)) \in Nat
  BY <1>2 DEF DbTypeOK
<1>4. Returned(k) \subseteq Puts(log)
  BY DEF Returned
<1>5. QED
  BY <1>1, <1>2, <1>3, <1>4, LoseMemoryType

LEMMA StopType ==
    ASSUME TypeOK, IdInv, Stop
    PROVE  TypeOK' /\ IdInv'
<1>1. DbTypeOK' /\ IdInv'
  BY ReleaseAndOpenOK DEF Stop, TypeOK
<1>2. next \in Nat /\ LoseMemory(next, {})
  BY DEF TypeOK, DbTypeOK, Stop
<1>3. QED
  BY <1>1, <1>2, LoseMemoryType

LEMMA TypeInvariant == TypeOK /\ MidInv /\ [Next]_vars => TypeOK'
<1> SUFFICES ASSUME TypeOK, MidInv, [Next]_vars PROVE TypeOK'
  OBVIOUS
<1>1. ASSUME NEW s \in Senders, NEW p \in Posts, Accept(s, p.from, p.target, p.kind)
      PROVE  TypeOK'
  BY <1>1, AcceptType
<1>2. ASSUME NEW s \in Senders,
             Allocate(s) \/ Store(s) \/ Merge(s) \/ Broadcast(s) \/ Abandon(s) \/ SendFails(s)
      PROVE  TypeOK'
  BY <1>2, AllocateType, StoreType, MergeType, BroadcastType, AbandonType, SendFailsType
     DEF MidInv
<1>3. ASSUME NEW u \in Users,
             \/ Subscribe(u) \/ SubscribeFails(u) \/ Snapshot(u)
             \/ Receive(u) \/ LagBreak(u) \/ Disconnect(u)
      PROVE  TypeOK'
  BY <1>3, SubscribeType, SubscribeFailsType, SnapshotType, ReceiveType, LagBreakType,
     DisconnectType
<1>4. ASSUME NEW g \in Groups, DeleteGroup(g) \/ ClearGroup(g)
      PROVE  TypeOK'
  BY <1>4, DeleteGroupType, ClearGroupType
<1>5. ASSUME NEW g \in Groups, NEW u \in Users, AddMember(g, u) \/ RemoveMember(g, u) \/ Leave(g, u)
      PROVE  TypeOK'
  BY <1>5, MembershipType
<1>6. ASSUME Crash \/ Stop PROVE TypeOK'
  BY <1>6, CrashType, StopType DEF MidInv
<1>7. CASE FlushDb
  BY <1>7, FlushOK DEF FlushDb, sendVars, TypeOK, MidInv
<1>8. CASE UNCHANGED vars
  BY <1>8 DEF vars, sendVars, dbVars, TypeOK, DbTypeOK
<1>9. Listeners \subseteq Users
  BY DeliveryAssumption
<1>10. QED
  BY <1>1, <1>2, <1>3, <1>4, <1>5, <1>6, <1>7, <1>8, <1>9 DEF Next

----------------------------------------------------------------------------
\* Each action keeps the identifiers in order.

LEMMA MidsSmall ==
    ASSUME TypeOK, MidInv
    PROVE  /\ next \in Nat /\ next >= 1
           /\ \A i \in Puts(log) : log[i].mid \in Nat /\ log[i].mid < next
           /\ \A s \in Senders : task[s].mid \in Nat /\ task[s].mid < next
           /\ DOMAIN events = 1..Len(events) /\ Len(events) \in Nat
           /\ \A i \in DOMAIN events : events[i].mid \in Nat /\ events[i].mid < next
<1>1. next \in Nat /\ next >= 1 /\ log \in Seq(Write)
  BY DEF TypeOK, DbTypeOK, MidInv, IdInv
<1>2. \A i \in Puts(log) : log[i].mid \in Nat /\ log[i].mid < next
  BY <1>1, PutsInDomain DEF MidInv, IdInv, Below
<1>3. \A s \in Senders : task[s].mid \in Nat /\ task[s].mid < next
  BY TaskFields DEF MidInv, TaskMids
<1>4. DOMAIN events = 1..Len(events) /\ Len(events) \in Nat
      /\ \A i \in DOMAIN events : events[i] \in Event
  BY LenProperties, ElementOfSeq DEF TypeOK
<1>5. \A i \in DOMAIN events : events[i].mid \in Nat /\ events[i].mid < next
  BY <1>4 DEF MidInv, EventMids, Event, Mid
<1>6. QED
  BY <1>1, <1>2, <1>3, <1>4, <1>5

\* A step of the streams touches neither the requests nor the identifiers.
LEMMA StreamMids ==
    ASSUME MidInv, UNCHANGED <<dbVars, task, events>>
    PROVE  MidInv'
  BY DEF MidInv, IdInv, TaskMids, TasksApart, EventMids, dbVars

LEMMA AcceptMids ==
    ASSUME TypeOK, MidInv, NEW s \in Senders, NEW p \in Posts,
           Accept(s, p.from, p.target, p.kind)
    PROVE  MidInv'
<1>1. /\ UNCHANGED <<log, flushed, next, leased, events>>
      /\ \A t \in Senders : IF t = s THEN task'[t].mid = 0 /\ task'[t].pc = "accepted"
                                        ELSE task'[t] = task[t]
  BY DEF Accept, TypeOK, dbVars
<1>2. IdInv' /\ EventMids'
  BY <1>1 DEF MidInv, IdInv, EventMids
<1>3. TaskMids' /\ TasksApart'
  BY <1>1, MidsSmall DEF MidInv, TaskMids, TasksApart
<1>4. QED
  BY <1>2, <1>3 DEF MidInv

LEMMA AllocateMids ==
    ASSUME TypeOK, MidInv, NEW s \in Senders, Allocate(s)
    PROVE  MidInv' /\ task'[s].mid = next
<1>1. /\ IdInv' /\ next' = next + 1 /\ FreshId = next
      /\ \A i \in Puts(log') : i \in Puts(log) /\ log'[i] = log[i]
  BY GenerateIdOK, KeyIsLeased DEF Allocate, TypeOK, MidInv
<1>2. /\ task'[s].mid = next
      /\ \A t \in Senders : t # s => task'[t] = task[t]
      /\ events' = events
  BY <1>1, TaskFields DEF Allocate, TypeOK, BusyTask
<1>3. TaskMids'
  BY <1>1, <1>2, MidsSmall DEF MidInv, TaskMids
<1>4. TasksApart'
  BY <1>2, MidsSmall DEF MidInv, TasksApart
<1>5. EventMids'
  BY <1>1, <1>2, MidsSmall DEF EventMids
<1>6. QED
  BY <1>1, <1>2, <1>3, <1>4, <1>5 DEF MidInv

LEMMA StoreMids ==
    ASSUME TypeOK, MidInv, NEW s \in Senders, Store(s)
    PROVE  MidInv'
<1>1. /\ IdInv' /\ next' = next
      /\ \A i \in Puts(log') : (i \in Puts(log) /\ log'[i] = log[i])
                               \/ log'[i].mid = task[s].mid
  BY StoreDb
<1>2. /\ task[s].pc = "allocated"
      /\ task'[s].pc = "stored" /\ task'[s].mid = task[s].mid
      /\ \A t \in Senders : t # s => task'[t] = task[t]
      /\ events' = events
  BY TaskFields DEF Store, TypeOK, BusyTask
<1>3. TaskMids'
  BY <1>1, <1>2 DEF MidInv, TaskMids, TasksApart
<1>4. TasksApart'
  BY <1>2 DEF MidInv, TasksApart
<1>5. EventMids'
  BY <1>1, <1>2 DEF MidInv, EventMids
<1>6. QED
  BY <1>1, <1>3, <1>4, <1>5 DEF MidInv

LEMMA MergeMids ==
    ASSUME TypeOK, MidInv, NEW s \in Senders, Merge(s)
    PROVE  MidInv'
<1>1. /\ IdInv' /\ next' = next
      /\ \A i \in Puts(log') : i \in Puts(log) /\ log'[i] = log[i]
  BY MergeDb DEF MidInv
<1>2. /\ task'[s].pc = "merged" /\ task'[s].mid = task[s].mid
      /\ \A t \in Senders : t # s => task'[t] = task[t]
      /\ events' = events
  BY TaskFields DEF Merge, TypeOK, BusyTask
<1>3. TaskMids' /\ TasksApart' /\ EventMids'
  BY <1>1, <1>2 DEF MidInv, TaskMids, TasksApart, EventMids
<1>4. QED
  BY <1>1, <1>3 DEF MidInv

\* A request that ends or loses its guard.
LEMMA EndMids ==
    ASSUME TypeOK, MidInv, NEW s \in Senders, UNCHANGED dbVars,
           \/ task' = [task EXCEPT ![s] = IdleTask]
           \/ task[s] \in BusyTask /\ task' = [task EXCEPT ![s].guard = FALSE]
    PROVE  IdInv' /\ TaskMids' /\ TasksApart'
<1>1. /\ UNCHANGED <<log, flushed, next, leased>>
      /\ \A t \in Senders : t # s => task'[t] = task[t]
      /\ \/ task'[s].pc = "idle" /\ task'[s].mid = 0
         \/ task'[s].pc = task[s].pc /\ task'[s].mid = task[s].mid
  BY IdleTaskFields DEF TypeOK, dbVars, BusyTask
<1>2. IdInv'
  BY <1>1 DEF MidInv, IdInv
<1>3. TaskMids' /\ TasksApart'
  BY <1>1, MidsSmall DEF MidInv, TaskMids, TasksApart
<1>4. QED
  BY <1>2, <1>3

LEMMA BroadcastMidsOK ==
    ASSUME TypeOK, MidInv, NEW s \in Senders, Broadcast(s)
    PROVE  MidInv'
<1>1. IdInv' /\ TaskMids' /\ TasksApart' /\ next' = next
  BY EndMids DEF Broadcast, dbVars
<1>2. task[s] \in BusyTask /\ task[s].mid \in Nat
  BY TaskFields DEF Broadcast
<1>3. Chat(s) \in Event /\ Chat(s).mid = task[s].mid
  BY <1>2 DEF Chat, Event, BusyTask, Mid
<1>4. /\ Len(events') = Len(events) + 1
      /\ DOMAIN events' = 1..(Len(events) + 1)
      /\ \A i \in 1..Len(events) : events'[i] = events[i]
      /\ events'[Len(events) + 1] = Chat(s)
  BY <1>3, AppendProperties, LenProperties DEF TypeOK, Broadcast
<1>5. EventMids'
  BY <1>1, <1>3, <1>4, MidsSmall DEF EventMids
<1>6. QED
  BY <1>1, <1>5 DEF MidInv

LEMMA AbandonMids ==
    ASSUME TypeOK, MidInv, NEW s \in Senders, Abandon(s)
    PROVE  MidInv'
<1>1. task[s] \in BusyTask
  BY TaskFields, IdleTaskFields DEF Abandon
<1>2. IdInv' /\ TaskMids' /\ TasksApart' /\ UNCHANGED <<next, events>>
  BY <1>1, EndMids DEF Abandon, dbVars
<1>3. QED
  BY <1>2 DEF MidInv, EventMids

LEMMA SendFailsMids ==
    ASSUME TypeOK, MidInv, NEW s \in Senders, SendFails(s)
    PROVE  MidInv'
<1>1. IdInv' /\ TaskMids' /\ TasksApart' /\ UNCHANGED <<next, events>>
  BY EndMids DEF SendFails, dbVars
<1>2. QED
  BY <1>1 DEF MidInv, EventMids

\* A group handler adds notices, which have no mid.
LEMMA NoticeMids ==
    ASSUME TypeOK, MidInv, IdInv', UNCHANGED <<next, task>>,
           \A i \in Puts(log') : i \in Puts(log) /\ log'[i] = log[i],
           \A i \in DOMAIN events' :
              (i \in DOMAIN events /\ events'[i] = events[i]) \/ events'[i].mid = 0
    PROVE  MidInv'
<1>1. EventMids'
  BY MidsSmall DEF MidInv, EventMids
<1>2. TaskMids' /\ TasksApart'
  BY DEF MidInv, TaskMids, TasksApart
<1>3. QED
  BY <1>1, <1>2 DEF MidInv

LEMMA AppendNotice ==
    ASSUME TypeOK, NEW n \in Event, n.mid = 0, events' = Append(events, n)
    PROVE  \A i \in DOMAIN events' :
              (i \in DOMAIN events /\ events'[i] = events[i]) \/ events'[i].mid = 0
<1>1. /\ Len(events') = Len(events) + 1 /\ Len(events) \in Nat
      /\ DOMAIN events' = 1..(Len(events) + 1) /\ DOMAIN events = 1..Len(events)
      /\ \A i \in 1..Len(events) : events'[i] = events[i]
      /\ events'[Len(events) + 1] = n
  BY AppendProperties, LenProperties DEF TypeOK
<1>2. QED
  BY <1>1

LEMMA NoticeMid ==
    ASSUME NEW kind, NEW g, NEW to
    PROVE  Notice(kind, g, to).mid = 0
  BY DEF Notice

LEMMA GroupMids ==
    ASSUME TypeOK, MidInv, NEW g \in Groups, NEW u \in Users,
           \/ AddMember(g, u) \/ RemoveMember(g, u) \/ Leave(g, u)
           \/ DeleteGroup(g) \/ ClearGroup(g)
    PROVE  MidInv'
<1>1. members[g] \subseteq Users /\ members[g] \ {u} \subseteq Users /\ {u} \subseteq Users
  BY DEF TypeOK
<1>2. CASE AddMember(g, u) \/ RemoveMember(g, u) \/ Leave(g, u) \/ DeleteGroup(g)
  <2>1. /\ IdInv' /\ UNCHANGED <<next, task, log>>
        /\ \A i \in Puts(log') : i \in Puts(log) /\ log'[i] = log[i]
    BY <1>2 DEF AddMember, RemoveMember, Leave, DeleteGroup, MidInv, IdInv, dbVars
  <2>2. CASE AddMember(g, u)
    <3>1. Notice("join", g, {u}) \in Event /\ Notice("other", g, members[g]) \in Event
      BY <1>1, NoticeType
    <3>2. \A i \in DOMAIN events' :
             (i \in DOMAIN events /\ events'[i] = events[i]) \/ events'[i].mid = 0
      BY <2>2, <3>1, TwoNotices, NoticeMid DEF AddMember, TypeOK
    <3>3. QED
      BY <2>1, <3>2, NoticeMids
  <2>3. CASE RemoveMember(g, u)
    <3>1. Notice("kick", g, {u}) \in Event /\ Notice("other", g, members[g] \ {u}) \in Event
      BY <1>1, NoticeType
    <3>2. \A i \in DOMAIN events' :
             (i \in DOMAIN events /\ events'[i] = events[i]) \/ events'[i].mid = 0
      BY <2>3, <3>1, TwoNotices, NoticeMid DEF RemoveMember, TypeOK
    <3>3. QED
      BY <2>1, <3>2, NoticeMids
  <2>4. CASE Leave(g, u)
    <3>1. Notice("other", g, members[g]) \in Event
      BY <1>1, NoticeType
    <3>2. QED
      BY <2>1, <2>4, <3>1, AppendNotice, NoticeMid, NoticeMids DEF Leave
  <2>5. CASE DeleteGroup(g)
    <3>1. Notice("kick", g, members[g]) \in Event
      BY <1>1, NoticeType
    <3>2. QED
      BY <2>1, <2>5, <3>1, AppendNotice, NoticeMid, NoticeMids DEF DeleteGroup
  <2>6. QED
    BY <1>2, <2>2, <2>3, <2>4, <2>5
<1>3. CASE ClearGroup(g)
  <2>1. /\ IdInv' /\ UNCHANGED <<next, task>>
        /\ \A i \in Puts(log') : i \in Puts(log) /\ log'[i] = log[i]
    BY <1>3, ClearDb DEF MidInv, ClearGroup
  <2>2. Notice("other", g, members[g]) \in Event
    BY <1>1, NoticeType
  <2>3. \A i \in DOMAIN events' :
           (i \in DOMAIN events /\ events'[i] = events[i]) \/ events'[i].mid = 0
    BY <1>3, <2>2, AppendNotice, NoticeMid DEF ClearGroup
  <2>4. QED
    BY <2>1, <2>3, NoticeMids
<1>4. QED
  BY <1>2, <1>3

LEMMA RestartMids ==
    ASSUME TypeOK, MidInv, Crash \/ Stop
    PROVE  MidInv'
<1>1. TypeOK' /\ IdInv'
  BY CrashType, StopType DEF MidInv
<1>2. task' = [s \in Senders |-> IdleTask] /\ events' = <<>>
  BY DEF Crash, Stop, LoseMemory
<1>3. next' >= 1 /\ next' \in Nat
  BY <1>1 DEF IdInv, TypeOK, DbTypeOK
<1>4. TaskMids' /\ TasksApart'
  BY <1>2, <1>3, IdleTaskFields DEF TaskMids, TasksApart
<1>5. EventMids'
  BY <1>2 DEF EventMids
<1>6. QED
  BY <1>1, <1>4, <1>5 DEF MidInv

LEMMA MidInvariant == TypeOK /\ MidInv /\ [Next]_vars => MidInv'
<1> SUFFICES ASSUME TypeOK, MidInv, [Next]_vars PROVE MidInv'
  OBVIOUS
<1>1. ASSUME NEW s \in Senders, NEW p \in Posts, Accept(s, p.from, p.target, p.kind)
      PROVE  MidInv'
  BY <1>1, AcceptMids
<1>2. ASSUME NEW s \in Senders,
             Allocate(s) \/ Store(s) \/ Merge(s) \/ Broadcast(s) \/ Abandon(s) \/ SendFails(s)
      PROVE  MidInv'
  BY <1>2, AllocateMids, StoreMids, MergeMids, BroadcastMidsOK, AbandonMids, SendFailsMids
<1>3. ASSUME NEW u \in Users,
             \/ Subscribe(u) \/ SubscribeFails(u) \/ Snapshot(u)
             \/ Receive(u) \/ LagBreak(u) \/ Disconnect(u)
      PROVE  MidInv'
  <2>1. UNCHANGED <<dbVars, task, events>>
    BY <1>3 DEF Subscribe, SubscribeFails, Snapshot, Receive, LagBreak, Disconnect,
                ReadSnapshot, ReadLive, EndStream
  <2>2. QED
    BY <2>1, StreamMids
<1>4. ASSUME NEW g \in Groups, DeleteGroup(g) \/ ClearGroup(g), NEW u \in Users
      PROVE  MidInv'
  BY <1>4, GroupMids
<1>5. ASSUME NEW g \in Groups, NEW u \in Users, AddMember(g, u) \/ RemoveMember(g, u) \/ Leave(g, u)
      PROVE  MidInv'
  BY <1>5, GroupMids
<1>6. ASSUME Crash \/ Stop PROVE MidInv'
  BY <1>6, RestartMids
<1>7. CASE FlushDb
  <2>1. IdInv' /\ log' = log /\ next' = next /\ task' = task /\ events' = events
    BY <1>7, FlushOK DEF FlushDb, sendVars, TypeOK, MidInv
  <2>2. QED
    BY <2>1 DEF MidInv, TaskMids, TasksApart, EventMids
<1>8. CASE UNCHANGED vars
  BY <1>8, StreamMids DEF vars, sendVars
<1>9. Listeners \subseteq Users
  BY DeliveryAssumption
<1>10. \A g \in Groups : DeleteGroup(g) \/ ClearGroup(g) => \E u \in Users : TRUE
  BY DEF DeleteGroup, ClearGroup, TypeOK
<1>11. QED
  BY <1>1, <1>2, <1>3, <1>4, <1>5, <1>6, <1>7, <1>8, <1>9, <1>10 DEF Next

----------------------------------------------------------------------------
\* The lock: a request that holds its guard keeps its target as it was.

LEMMA InitInv == Init => Inv
<1> SUFFICES ASSUME Init PROVE Inv
  OBVIOUS
<1>1. TypeOK
  BY InitType
<1>2. IdInv
  BY DbInitOK DEF Init
<1>3. task = [s \in Senders |-> IdleTask] /\ events = <<>> /\ next = 1
  BY DEF Init, DbInit
<1>4. TaskMids /\ TasksApart /\ EventMids /\ TargetsCurrent
  BY <1>3, IdleTaskFields DEF TaskMids, TasksApart, EventMids, TargetsCurrent
<1>5. QED
  BY <1>1, <1>2, <1>4 DEF Inv, MidInv

LEMMA TargetsInvariant == TypeOK /\ TargetsCurrent /\ [Next]_vars => TargetsCurrent'
<1> SUFFICES ASSUME TypeOK, TargetsCurrent, [Next]_vars PROVE TargetsCurrent'
  OBVIOUS
<1>1. ASSUME NEW s \in Senders, NEW p \in Posts, Accept(s, p.from, p.target, p.kind)
      PROVE  TargetsCurrent'
  <2>1. /\ members' = members
        /\ task'[s].target = p.target /\ task'[s].to = Recipients(p.from, p.target)
        /\ \A t \in Senders : t # s => task'[t] = task[t]
    BY <1>1 DEF Accept, TypeOK
  <2>2. p.target \in Groups => Recipients(p.from, p.target) = members[p.target]
    BY ConversationAssumption DEF Recipients
  <2>3. QED
    BY <2>1, <2>2 DEF TargetsCurrent
<1>2. ASSUME NEW s \in Senders,
             Allocate(s) \/ Store(s) \/ Merge(s) \/ Broadcast(s) \/ Abandon(s) \/ SendFails(s)
      PROVE  TargetsCurrent'
  <2>1. members' = members /\ \A t \in Senders : t # s => task'[t] = task[t]
    BY <1>2 DEF Allocate, Store, Merge, Broadcast, Abandon, SendFails, TypeOK
  <2>2. \/ task'[s].guard = FALSE
        \/ /\ task'[s].guard = task[s].guard
           /\ task'[s].target = task[s].target /\ task'[s].to = task[s].to
    <3>1. CASE Allocate(s) \/ Store(s) \/ Merge(s)
      BY <3>1, TaskFields DEF Allocate, Store, Merge, TypeOK, BusyTask
    <3>2. CASE Broadcast(s) \/ SendFails(s)
      BY <3>2, IdleTaskFields DEF Broadcast, SendFails, TypeOK
    <3>3. CASE Abandon(s)
      BY <3>3, TaskFields, IdleTaskFields DEF Abandon, TypeOK, BusyTask
    <3>4. QED
      BY <1>2, <3>1, <3>2, <3>3
  <2>3. QED
    BY <2>1, <2>2 DEF TargetsCurrent
<1>3. ASSUME NEW u \in Users,
             \/ Subscribe(u) \/ SubscribeFails(u) \/ Snapshot(u)
             \/ Receive(u) \/ LagBreak(u) \/ Disconnect(u)
      PROVE  TargetsCurrent'
  <2>1. UNCHANGED <<members, task>>
    BY <1>3 DEF Subscribe, SubscribeFails, Snapshot, Receive, LagBreak, Disconnect,
                ReadSnapshot, ReadLive, EndStream
  <2>2. QED
    BY <2>1 DEF TargetsCurrent
<1>4. ASSUME NEW g \in Groups,
             \/ DeleteGroup(g) \/ ClearGroup(g)
             \/ \E u \in Users : AddMember(g, u) \/ RemoveMember(g, u) \/ Leave(g, u)
      PROVE  TargetsCurrent'
  <2>1. CanWrite /\ task' = task
    BY <1>4 DEF DeleteGroup, ClearGroup, AddMember, RemoveMember, Leave, Administer
  <2>2. QED
    BY <2>1 DEF CanWrite, ReadLocked, TargetsCurrent
<1>5. ASSUME Crash \/ Stop PROVE TargetsCurrent'
  <2>1. task' = [s \in Senders |-> IdleTask]
    BY <1>5 DEF Crash, Stop, LoseMemory
  <2>2. QED
    BY <2>1, IdleTaskFields DEF TargetsCurrent
<1>6. CASE FlushDb \/ UNCHANGED vars
  BY <1>6 DEF FlushDb, vars, sendVars, TargetsCurrent
<1>7. Listeners \subseteq Users
  BY DeliveryAssumption
<1>8. QED
  BY <1>1, <1>2, <1>3, <1>4, <1>5, <1>6, <1>7 DEF Next

----------------------------------------------------------------------------
\* The theorems.

\* Inv is inductive, so it holds of every state.
THEOREM Invariance == Spec => []Inv
<1>1. Init => Inv
  BY InitInv
<1>2. Inv /\ [Next]_vars => Inv'
  BY TypeInvariant, MidInvariant, TargetsInvariant DEF Inv
<1>3. QED
  BY <1>1, <1>2, PTL DEF Spec

\* Every state has the types of TypeOK, whatever the code of the requests,
\* the streams and the group handlers does.
THEOREM TypeCorrect == Spec => []TypeOK
<1>1. Inv => TypeOK
  BY DEF Inv
<1>2. QED
  BY <1>1, Invariance, PTL

\* No mid names two stored messages, for any number of crashes at any point
\* of the flushing, any number of orderly stops and any SEQUENCE_BANDWIDTH.
THEOREM MidsUnique == Spec => []StoreIdsUnique
<1>1. Inv => StoreIdsUnique
  BY DEF Inv, MidInv, IdInv, LogOK, StoreIdsUnique
<1>2. QED
  BY <1>1, Invariance, PTL

\* The read guard of send_message keeps the recipients current, for any
\* number of requests and group handlers.
THEOREM RecipientsCurrent == Spec => []TargetsCurrent
<1>1. Inv => TargetsCurrent
  BY DEF Inv
<1>2. QED
  BY <1>1, Invariance, PTL

LEMMA OnlyAllocate ==
    ASSUME TypeOK, [Next]_vars, NEW s \in Senders,
           task[s].pc = "accepted", task'[s].pc = "allocated"
    PROVE  Allocate(s)
<1>1. ASSUME NEW t \in Senders, NEW p \in Posts, Accept(t, p.from, p.target, p.kind)
      PROVE  FALSE
  BY <1>1 DEF Accept, TypeOK
<1>2. ASSUME NEW t \in Senders,
             Store(t) \/ Merge(t) \/ Broadcast(t) \/ Abandon(t) \/ SendFails(t)
      PROVE  FALSE
  <2>1. CASE Store(t) \/ Merge(t) \/ Abandon(t)
    BY <2>1, TaskFields, IdleTaskFields DEF Store, Merge, Abandon, TypeOK, BusyTask
  <2>2. CASE Broadcast(t) \/ SendFails(t)
    BY <2>2, IdleTaskFields DEF Broadcast, SendFails, TypeOK
  <2>3. QED
    BY <1>2, <2>1, <2>2
<1>3. ASSUME NEW t \in Senders, Allocate(t)
      PROVE  Allocate(s)
  BY <1>3 DEF Allocate, TypeOK
<1>4. ASSUME NEW u \in Users,
             \/ Subscribe(u) \/ SubscribeFails(u) \/ Snapshot(u)
             \/ Receive(u) \/ LagBreak(u) \/ Disconnect(u)
      PROVE  FALSE
  BY <1>4 DEF Subscribe, SubscribeFails, Snapshot, Receive, LagBreak, Disconnect,
              ReadSnapshot, ReadLive, EndStream
<1>5. ASSUME NEW g \in Groups,
             \/ DeleteGroup(g) \/ ClearGroup(g)
             \/ \E u \in Users : AddMember(g, u) \/ RemoveMember(g, u) \/ Leave(g, u)
      PROVE  FALSE
  BY <1>5 DEF DeleteGroup, ClearGroup, AddMember, RemoveMember, Leave
<1>6. ASSUME Crash \/ Stop PROVE FALSE
  BY <1>6, IdleTaskFields DEF Crash, Stop, LoseMemory
<1>7. CASE FlushDb \/ UNCHANGED vars
  BY <1>7 DEF FlushDb, vars, sendVars
<1>8. Listeners \subseteq Users
  BY DeliveryAssumption
<1>9. QED
  BY <1>1, <1>2, <1>3, <1>4, <1>5, <1>6, <1>7, <1>8 DEF Next

\* A fresh mid is above everything stored, in flight or broadcast: the order
\* of mids is the order in which they were handed out between two crashes.
THEOREM FreshIsLargest == Spec => FreshMidIsLargest
<1> DEFINE Step == \A s \in Senders : task[s].pc = "accepted" /\ task'[s].pc = "allocated" =>
                      \A m \in MidsOf(Puts(log)) \cup BroadcastMids \cup InFlight : task'[s].mid > m
<1>1. Inv /\ [Next]_vars => Step
  <2> SUFFICES ASSUME Inv, [Next]_vars, NEW s \in Senders,
                      task[s].pc = "accepted", task'[s].pc = "allocated",
                      NEW m \in MidsOf(Puts(log)) \cup BroadcastMids \cup InFlight
               PROVE  task'[s].mid > m
    OBVIOUS
  <2>1. TypeOK /\ MidInv
    BY DEF Inv
  <2>2. task'[s].mid = next
    BY <2>1, OnlyAllocate, AllocateMids
  <2>3. m \in Nat /\ m < next
    BY <2>1, MidsSmall DEF MidsOf, BroadcastMids, InFlight
  <2>4. QED
    BY <2>1, <2>2, <2>3, MidsSmall
<1>2. Inv /\ [Next]_vars => [Step]_vars
  BY <1>1
<1>3. Spec => [][Step]_vars
  BY <1>2, Invariance, PTL DEF Spec
<1>4. QED
  BY <1>3 DEF FreshMidIsLargest

----------------------------------------------------------------------------
\* The refinement: Delivery with its message database implements MessageStore.
\* The leases, the copies of merged messages, the flushes and the order of the
\* log are invisible to the callers of the database.  The mapping, in Delivery,
\* takes the messages of the log for the store, those of each prefix that a
\* crash may leave for what survives, and the mids of the sends that have drawn
\* theirs and not stored it for the mids given out.

MessageOf(w) == [mid |-> w.mid, target |-> w.target, to |-> w.to]

\* What a crash may leave of the log l of which f writes are on the disk.
Survivors(l, f) == {Contents(SubSeq(l, 1, k)) : k \in f..Len(l)}

\* The mids given out.
Drawn == {task[s].mid : s \in {t \in Senders : task[t].pc = "allocated"}}

\* The variables of MessageStore under the mapping.
storeView == <<Contents(log), Survivors(log, flushed), Drawn>>

----------------------------------------------------------------------------
\* What a write does to the contents of a log and of its prefixes.

LEMMA StoredInPuts ==
    ASSUME NEW l \in Seq(Write)
    PROVE  /\ Stored(l) \subseteq Puts(l)
           /\ \A i \in Stored(l) : /\ i \in 1..Len(l)
                                   /\ MessageOf(l[i]) \in [mid : Nat, target : Targets, to : SUBSET Users]
<1>1. Stored(l) \subseteq Puts(l)
  BY DEF Stored
<1>2. \A i \in Puts(l) : i \in 1..Len(l) /\ l[i].op = "put" /\ l[i] \in Write
  BY PutsInDomain, ElementOfSeq
<1>3. \A w \in Write : w.op = "put" => MessageOf(w) \in [mid : Nat, target : Targets, to : SUBSET Users]
  BY DEF Write, LeaseWrite, PutWrite, MergeWrite, ClearWrite, MessageOf, Mid
<1> QED BY <1>1, <1>2, <1>3

LEMMA StoredAppend ==
    ASSUME NEW l \in Seq(Write), NEW w \in Write
    PROVE  Stored(Append(l, w)) =
             {i \in Stored(l) : ~(w.op = "clear" /\ w.gid = l[i].target)}
               \cup (IF w.op = "put" THEN {Len(l) + 1} ELSE {})
<1> DEFINE m == Append(l, w)
<1>1. /\ m \in Seq(Write) /\ Len(m) = Len(l) + 1 /\ Len(l) \in Nat
      /\ \A i \in 1..Len(l) : m[i] = l[i]
      /\ m[Len(l) + 1] = w
      /\ Puts(m) = Puts(l) \cup (IF w.op = "put" THEN {Len(l) + 1} ELSE {})
  BY AppendWrite, LenProperties
<1>2. DOMAIN m = 1..(Len(l) + 1) /\ DOMAIN l = 1..Len(l) /\ Puts(l) \subseteq 1..Len(l)
  BY <1>1, LenProperties, PutsInDomain
<1>3. ASSUME NEW i \in Puts(l)
      PROVE  i \in Stored(m) <=> i \in Stored(l) /\ ~(w.op = "clear" /\ w.gid = l[i].target)
  <2>1. m[i] = l[i] /\ i \in Puts(m) /\ i < Len(l) + 1 /\ i \in 1..Len(l)
    BY <1>1, <1>2, <1>3
  <2> HIDE DEF m
  <2>2. i \in Stored(m) <=> \A j \in 1..(Len(l) + 1) : j > i => ~(m[j].op = "clear" /\ m[j].gid = l[i].target)
    BY <1>2, <2>1 DEF Stored
  <2>3. i \in Stored(l) <=> \A j \in 1..Len(l) : j > i => ~(l[j].op = "clear" /\ l[j].gid = l[i].target)
    BY <1>2, <1>3 DEF Stored
  <2> QED BY <1>1, <2>1, <2>2, <2>3
<1>4. ASSUME w.op = "put"
      PROVE  Len(l) + 1 \in Stored(m)
  <2>1. Len(l) + 1 \in Puts(m)
    BY <1>1, <1>4
  <2>2. \A j \in DOMAIN m : ~(j > Len(l) + 1)
    BY <1>1, <1>2
  <2> QED BY <2>1, <2>2 DEF Stored
<1>5. Stored(m) \subseteq Puts(m) /\ Stored(l) \subseteq Puts(l)
  BY DEF Stored
<1> HIDE DEF m
<1>6. Stored(m) = {i \in Stored(l) : ~(w.op = "clear" /\ w.gid = l[i].target)}
                    \cup (IF w.op = "put" THEN {Len(l) + 1} ELSE {})
  BY <1>1, <1>3, <1>4, <1>5
<1> QED BY <1>6 DEF m

LEMMA ContentsAppend ==
    ASSUME NEW l \in Seq(Write), NEW w \in Write
    PROVE  /\ w.op = "put" => Contents(Append(l, w)) = Contents(l) \cup {MessageOf(w)}
           /\ w.op \in {"lease", "merge"} => Contents(Append(l, w)) = Contents(l)
           /\ w.op = "clear" => Contents(Append(l, w)) = {m \in Contents(l) : m.target # w.gid}
<1> DEFINE a == Append(l, w)
<1>1. /\ Stored(a) = {i \in Stored(l) : ~(w.op = "clear" /\ w.gid = l[i].target)}
                       \cup (IF w.op = "put" THEN {Len(l) + 1} ELSE {})
      /\ \A i \in Stored(l) : a[i] = l[i]
      /\ a[Len(l) + 1] = w
  BY StoredAppend, AppendWrite, StoredInPuts
<1>2. /\ Contents(a) = {MessageOf(a[i]) : i \in Stored(a)}
      /\ Contents(l) = {MessageOf(l[i]) : i \in Stored(l)}
  BY DEF Contents, MessageOf
<1> HIDE DEF a
<1>3. ASSUME w.op = "put"
      PROVE  Contents(a) = Contents(l) \cup {MessageOf(w)}
  <2>1. Stored(a) = Stored(l) \cup {Len(l) + 1}
    BY <1>1, <1>3
  <2> QED BY <1>1, <1>2, <2>1
<1>4. ASSUME w.op \in {"lease", "merge"}
      PROVE  Contents(a) = Contents(l)
  <2>1. Stored(a) = Stored(l)
    BY <1>1, <1>4
  <2> QED BY <1>1, <1>2, <2>1
<1>5. ASSUME w.op = "clear"
      PROVE  Contents(a) = {m \in Contents(l) : m.target # w.gid}
  <2>1. Stored(a) = {i \in Stored(l) : l[i].target # w.gid}
    BY <1>1, <1>5
  <2>2. \A i \in Stored(l) : MessageOf(l[i]).target = l[i].target
    BY DEF MessageOf
  <2> QED BY <1>1, <1>2, <2>1, <2>2
<1> QED BY <1>3, <1>4, <1>5 DEF a

LEMMA SurvivorsAppend ==
    ASSUME NEW l \in Seq(Write), NEW w \in Write, NEW f \in 0..Len(l)
    PROVE  Survivors(Append(l, w), f) = Survivors(l, f) \cup {Contents(Append(l, w))}
<1> DEFINE a == Append(l, w)
<1>1. /\ a \in Seq(Write) /\ Len(a) = Len(l) + 1 /\ Len(l) \in Nat
      /\ \A i \in 1..Len(l) : a[i] = l[i]
  BY AppendWrite, LenProperties
<1>2. SubSeq(a, 1, Len(a)) = a
  BY <1>1, SubSeqFull
<1>3. ASSUME NEW k \in 0..Len(l)
      PROVE  SubSeq(a, 1, k) = SubSeq(l, 1, k)
  <2>1. /\ \A i \in 1..k : a[i] \in Write /\ l[i] \in Write
        /\ k \in Int /\ 1 \in Int
    BY <1>1, ElementOfSeq
  <2>2. /\ SubSeq(a, 1, k) \in Seq(Write) /\ SubSeq(l, 1, k) \in Seq(Write)
        /\ Len(SubSeq(a, 1, k)) = Len(SubSeq(l, 1, k))
        /\ Len(SubSeq(a, 1, k)) = k
        /\ \A i \in 1..k : SubSeq(a, 1, k)[i] = a[i] /\ SubSeq(l, 1, k)[i] = l[i]
    <3>1. /\ SubSeq(a, 1, k) \in Seq(Write)
          /\ Len(SubSeq(a, 1, k)) = IF 1 <= k THEN k - 1 + 1 ELSE 0
          /\ \A i \in 1..(k - 1 + 1) : SubSeq(a, 1, k)[i] = a[1 + i - 1]
      BY <2>1, SubSeqProperties
    <3>2. /\ SubSeq(l, 1, k) \in Seq(Write)
          /\ Len(SubSeq(l, 1, k)) = IF 1 <= k THEN k - 1 + 1 ELSE 0
          /\ \A i \in 1..(k - 1 + 1) : SubSeq(l, 1, k)[i] = l[1 + i - 1]
      BY <2>1, SubSeqProperties
    <3> QED BY <3>1, <3>2
  <2> QED BY <1>1, <2>2, SeqEqual
<1> HIDE DEF a
<1>4. f..Len(a) = (f..Len(l)) \cup {Len(a)} /\ f..Len(l) \subseteq 0..Len(l)
  BY <1>1
<1>5. Survivors(a, f) = Survivors(l, f) \cup {Contents(a)}
  BY <1>2, <1>3, <1>4 DEF Survivors
<1> QED BY <1>5 DEF a

LEMMA SurvivorsOfFlushed ==
    ASSUME NEW l \in Seq(Write)
    PROVE  /\ Survivors(l, Len(l)) = {Contents(l)}
           /\ \A f \in 0..Len(l) : Contents(l) \in Survivors(l, f)
<1>1. SubSeq(l, 1, Len(l)) = l /\ Len(l) \in Nat
  BY SubSeqFull, LenProperties
<1>2. Len(l)..Len(l) = {Len(l)} /\ \A f \in 0..Len(l) : Len(l) \in f..Len(l)
  BY <1>1
<1> QED BY <1>1, <1>2 DEF Survivors

\* A lease and a merged copy are not seen.
LEMMA UnseenAppend ==
    ASSUME NEW l \in Seq(Write), NEW w \in Write, w.op \in {"lease", "merge"}, NEW f \in 0..Len(l)
    PROVE  /\ Contents(Append(l, w)) = Contents(l)
           /\ Survivors(Append(l, w), f) = Survivors(l, f)
<1>1. Contents(Append(l, w)) = Contents(l)
  BY ContentsAppend
<1>2. Survivors(Append(l, w), f) = Survivors(l, f) \cup {Contents(Append(l, w))}
  BY SurvivorsAppend
<1>3. Contents(l) \in Survivors(l, f)
  BY SurvivorsOfFlushed
<1> QED BY <1>1, <1>2, <1>3

----------------------------------------------------------------------------
\* The mids given out, after a step of one send.

LEMMA DrawnAfter ==
    ASSUME TypeOK, NEW s \in Senders, \A t \in Senders \ {s} : task'[t] = task[t]
    PROVE  /\ (task[s].pc = "allocated") = (task'[s].pc = "allocated") /\ task'[s].mid = task[s].mid
              => Drawn' = Drawn
           /\ task[s].pc # "allocated" /\ task'[s].pc # "allocated" => Drawn' = Drawn
           /\ task[s].pc # "allocated" /\ task'[s].pc = "allocated" => Drawn' = Drawn \cup {task'[s].mid}
           /\ TasksApart /\ task[s].pc = "allocated" /\ task'[s].pc # "allocated"
              => task[s].mid \in Drawn /\ Drawn' = Drawn \ {task[s].mid}
<1> DEFINE others == {task[t].mid : t \in {x \in Senders \ {s} : task[x].pc = "allocated"}}
<1>1. Drawn = others \cup (IF task[s].pc = "allocated" THEN {task[s].mid} ELSE {})
  BY DEF Drawn
<1>2. Drawn' = others \cup (IF task'[s].pc = "allocated" THEN {task'[s].mid} ELSE {})
  BY DEF Drawn
<1>3. TasksApart /\ task[s].pc = "allocated" => task[s].mid \notin others
  BY DEF TasksApart
<1> HIDE DEF others
<1> QED BY <1>1, <1>2, <1>3

\* What the store shows depends on the log, its flushed prefix and the sends.
LEMMA ViewUnchanged ==
    ASSUME UNCHANGED <<log, flushed, Drawn>>
    PROVE  UNCHANGED storeView
  BY DEF storeView, Survivors

----------------------------------------------------------------------------
\* Each step of Delivery is a step of MessageStore or leaves it as it is.

LEMMA AllocateDraws ==
    ASSUME TypeOK, MidInv, NEW s \in Senders, Allocate(s)
    PROVE  Promise!Draw
<1>1. /\ log \in Seq(Write) /\ flushed \in 0..Len(log) /\ flushed' = flushed
      /\ next \in Nat /\ FreshId = next
  BY KeyIsLeased DEF TypeOK, DbTypeOK, MidInv, Allocate, GenerateId
<1>2. Contents(log') = Contents(log) /\ Survivors(log', flushed') = Survivors(log, flushed)
  <2>1. CASE next >= leased
    <3> DEFINE w == [op |-> "lease", key |-> FreshId + Bandwidth]
    <3>1. log' = Append(log, w)
      BY <2>1 DEF Allocate, GenerateId
    <3>2. w \in Write /\ w.op = "lease"
      BY <1>1, BandwidthAssumption DEF Write, LeaseWrite
    <3> HIDE DEF w
    <3> QED BY <1>1, <3>1, <3>2, UnseenAppend
  <2>2. CASE ~(next >= leased)
    BY <1>1, <2>2 DEF Allocate, GenerateId
  <2> QED BY <2>1, <2>2
<1>3. task'[s].pc = "allocated" /\ task'[s].mid = next /\ task[s].pc = "accepted"
      /\ \A t \in Senders \ {s} : task'[t] = task[t]
  BY AllocateMids, TaskFields DEF Allocate, TypeOK, BusyTask
<1>4. Drawn' = Drawn \cup {next}
  BY <1>3, DrawnAfter
<1>5. \A n \in Drawn \cup {m.mid : m \in Contents(log)} : n \in Nat /\ next > n
  <2>1. \A n \in Drawn : n \in Nat /\ next > n
    BY MidsSmall DEF Drawn
  <2>2. \A m \in Contents(log) : m.mid \in Nat /\ next > m.mid
    BY <1>1, StoredInPuts, MidsSmall DEF Contents
  <2> QED BY <2>1, <2>2
<1> QED BY <1>1, <1>2, <1>4, <1>5 DEF Promise!Draw, Drawn, Survivors

LEMMA StorePuts ==
    ASSUME TypeOK, MidInv, NEW s \in Senders, Store(s)
    PROVE  Promise!Put
<1> DEFINE w == PutOf(s)
           m == MessageOf(w)
<1>1. /\ log \in Seq(Write) /\ flushed \in 0..Len(log)
      /\ w \in Write /\ w.op = "put" /\ w.mid = task[s].mid
      /\ log' = Append(log, w) /\ flushed' = flushed
  <2>1. task[s].pc # "idle" /\ Commit(w)
    BY DEF Store, SendTo, PutOf
  <2> QED BY <2>1, PutOfOK DEF MidInv, TypeOK, DbTypeOK, Commit
<1>2. m \in [mid : Nat, target : Targets, to : SUBSET Users] /\ m.mid = task[s].mid
  BY <1>1 DEF Write, LeaseWrite, PutWrite, MergeWrite, ClearWrite, MessageOf, Mid
<1> HIDE DEF w
<1>3. Contents(log') = Contents(log) \cup {m}
  BY <1>1, ContentsAppend
<1>4. Survivors(log', flushed') = Survivors(log, flushed) \cup {Contents(log')}
  BY <1>1, SurvivorsAppend
<1>5. task[s].pc = "allocated" /\ task'[s].pc = "stored" /\ \A t \in Senders \ {s} : task'[t] = task[t]
  BY TaskFields DEF Store, TypeOK, BusyTask
<1>6. task[s].mid \in Drawn /\ Drawn' = Drawn \ {task[s].mid}
  BY <1>5, DrawnAfter DEF MidInv
<1> HIDE DEF m
<1> QED BY <1>2, <1>3, <1>4, <1>6 DEF Promise!Put, Promise!Message, Drawn, Survivors

LEMMA MergeUnseen ==
    ASSUME TypeOK, MidInv, NEW s \in Senders, Merge(s)
    PROVE  UNCHANGED storeView
<1> DEFINE w == [op |-> "merge", mid |-> task[s].mid, key |-> SequenceKey(log)]
<1>1. /\ log \in Seq(Write) /\ flushed \in 0..Len(log)
      /\ w \in Write /\ w.op = "merge"
      /\ log' = Append(log, w) /\ flushed' = flushed
  BY MergeWriteOK DEF MidInv, TypeOK, DbTypeOK, Merge, InsertMergedMsg, Commit
<1> HIDE DEF w
<1>2. Contents(log') = Contents(log)
  BY <1>1, UnseenAppend
<1>3. Survivors(log', flushed') = Survivors(log, flushed)
  BY <1>1, UnseenAppend
<1>4. task[s].pc = "stored" /\ task'[s].pc = "merged" /\ \A t \in Senders \ {s} : task'[t] = task[t]
  BY TaskFields DEF Merge, TypeOK, BusyTask
<1>5. Drawn' = Drawn
  BY <1>4, DrawnAfter
<1> QED BY <1>2, <1>3, <1>5 DEF storeView

LEMMA SendFailsGivesUp ==
    ASSUME TypeOK, MidInv, NEW s \in Senders, SendFails(s)
    PROVE  Promise!GiveUp \/ UNCHANGED storeView
<1>1. /\ UNCHANGED <<log, flushed>> /\ task'[s].pc = "idle"
      /\ \A t \in Senders \ {s} : task'[t] = task[t]
  BY IdleTaskFields DEF SendFails, TypeOK, dbVars
<1>2. CASE task[s].pc = "allocated"
  <2>1. task[s].mid \in Drawn /\ Drawn' = Drawn \ {task[s].mid}
    BY <1>1, <1>2, DrawnAfter DEF MidInv
  <2>2. Contents(log') = Contents(log) /\ Survivors(log', flushed') = Survivors(log, flushed)
    BY <1>1
  <2> QED BY <2>1, <2>2 DEF Promise!GiveUp, Drawn, Survivors
<1>3. CASE task[s].pc # "allocated"
  BY <1>1, <1>3, DrawnAfter, ViewUnchanged
<1> QED BY <1>2, <1>3

LEMMA OtherSendsUnseen ==
    ASSUME TypeOK, NEW s \in Senders, Broadcast(s) \/ Abandon(s)
    PROVE  UNCHANGED storeView
<1>1. UNCHANGED <<log, flushed>> /\ \A t \in Senders \ {s} : task'[t] = task[t]
  BY DEF Broadcast, Abandon, TypeOK, dbVars
<1>2. CASE Broadcast(s)
  <2>1. task[s].pc # "allocated" /\ task'[s].pc # "allocated"
    BY <1>2, IdleTaskFields DEF Broadcast, TypeOK
  <2> QED BY <1>1, <2>1, DrawnAfter, ViewUnchanged
<1>3. CASE Abandon(s)
  <2>1. task'[s].pc = task[s].pc /\ task'[s].mid = task[s].mid
    BY <1>3, TaskFields, IdleTaskFields DEF Abandon, TypeOK, BusyTask
  <2> QED BY <1>1, <2>1, DrawnAfter, ViewUnchanged
<1> QED BY <1>2, <1>3

LEMMA AcceptUnseen ==
    ASSUME TypeOK, NEW s \in Senders, NEW p \in Posts, Accept(s, p.from, p.target, p.kind)
    PROVE  UNCHANGED storeView
<1>1. /\ UNCHANGED <<log, flushed>> /\ \A t \in Senders \ {s} : task'[t] = task[t]
      /\ task[s].pc = "idle" /\ task'[s].pc = "accepted"
  BY DEF Accept, TypeOK, dbVars
<1> QED BY <1>1, DrawnAfter, ViewUnchanged

LEMMA ClearClears ==
    ASSUME TypeOK, MidInv, NEW g \in Groups, ClearGroup(g)
    PROVE  Promise!Clear(g)
<1> DEFINE w == [op |-> "clear", gid |-> g, key |-> SequenceKey(log)]
<1>1. /\ log \in Seq(Write) /\ flushed \in 0..Len(log)
      /\ w \in Write /\ w.op = "clear" /\ w.gid = g
      /\ log' = Append(log, w) /\ flushed' = flushed /\ task' = task
  BY ClearWriteOK DEF MidInv, TypeOK, DbTypeOK, ClearGroup, ClearGroupMessages, Commit
<1> HIDE DEF w
<1>2. Contents(log') = {m \in Contents(log) : m.target # g}
  BY <1>1, ContentsAppend
<1>3. Survivors(log', flushed') = Survivors(log, flushed) \cup {Contents(log')}
  BY <1>1, SurvivorsAppend
<1>4. Drawn' = Drawn
  BY <1>1 DEF Drawn
<1> QED BY <1>2, <1>3, <1>4 DEF Promise!Clear, Drawn, Survivors

\* After a start on the log l, all of which is on the disk but the new lease.
LEMMA OpenShows ==
    ASSUME NEW l \in Seq(Write), SequenceKey(l) \in Nat, Open(l), flushed' = Len(l)
    PROVE  /\ Contents(log') = Contents(l)
           /\ Survivors(log', flushed') = {Contents(l)}
<1> DEFINE w == [op |-> "lease", key |-> SequenceKey(l) + Bandwidth]
<1>1. log' = Append(l, w) /\ w \in Write /\ w.op = "lease" /\ Len(l) \in 0..Len(l)
  BY BandwidthAssumption, LenProperties DEF Open, Write, LeaseWrite
<1> HIDE DEF w
<1>2. Contents(log') = Contents(l) /\ Survivors(log', flushed') = Survivors(l, Len(l))
  BY <1>1, UnseenAppend
<1> QED BY <1>2, SurvivorsOfFlushed

LEMMA NoneDrawn ==
    ASSUME \A s \in Senders : task[s].pc # "allocated"
    PROVE  Drawn = {}
  BY DEF Drawn

LEMMA RestartDrawn ==
    ASSUME NEW first, NEW back, LoseMemory(first, back)
    PROVE  Drawn' = {}
<1>1. \A s \in Senders : task'[s].pc = "idle"
  BY IdleTaskFields DEF LoseMemory
<1> QED BY <1>1 DEF Drawn

LEMMA CrashCrashes ==
    ASSUME TypeOK, MidInv, Crash
    PROVE  \E left \in Survivors(log, flushed) :
              /\ Contents(log)' = left /\ Survivors(log, flushed)' = {left}
              /\ Drawn' = {}
<1>1. PICK k \in flushed..Len(log) : CrashAndOpen(k) /\ LoseMemory(SequenceKey(SubSeq(log, 1, k)), Returned(k))
  BY DEF Crash
<1> DEFINE l == SubSeq(log, 1, k)
<1>2. log \in Seq(Write) /\ flushed \in 0..Len(log) /\ LogOK(log) /\ k \in 0..Len(log)
  BY <1>1, LenProperties DEF TypeOK, DbTypeOK, MidInv, IdInv
<1>3. l \in Seq(Write) /\ Len(l) = k /\ SequenceKey(l) \in Nat
  BY <1>2, PrefixLogOK
<1>4. Open(l) /\ flushed' = k
  BY <1>1 DEF CrashAndOpen
<1>5. Contents(l) \in Survivors(log, flushed)
  BY <1>1 DEF Survivors
<1> HIDE DEF l
<1>6. /\ Contents(log') = Contents(l) /\ Survivors(log', flushed') = {Contents(l)}
      /\ Drawn' = {}
  BY <1>1, <1>3, <1>4, OpenShows, RestartDrawn
<1> QED BY <1>5, <1>6

LEMMA StopReachesDisk ==
    ASSUME TypeOK, MidInv, Stop
    PROVE  Promise!ReachDisk
<1> DEFINE w == [op |-> "lease", key |-> next]
           l == Append(log, w)
<1>1. log \in Seq(Write) /\ w \in Write /\ w.op = "lease" /\ w.key = next /\ next \in Nat
  BY DEF TypeOK, DbTypeOK, Write, LeaseWrite
<1>2. Open(l) /\ flushed' = Len(log) + 1
  BY DEF Stop, ReleaseAndOpen
<1> HIDE DEF w
<1>3. l \in Seq(Write) /\ Len(l) = Len(log) + 1 /\ SequenceKey(l) = next /\ Contents(l) = Contents(log)
  BY <1>1, AppendWrite, ContentsAppend
<1> HIDE DEF l
<1>4. Contents(log') = Contents(log) /\ Survivors(log', flushed') = {Contents(log)}
  BY <1>1, <1>2, <1>3, OpenShows
<1>5. Drawn = {} /\ Drawn' = {}
  <2>1. \A s \in Senders : task[s].pc # "allocated"
    BY DEF Stop
  <2>2. LoseMemory(next, {})
    BY DEF Stop
  <2> QED BY <2>1, <2>2, NoneDrawn, RestartDrawn
<1> QED BY <1>4, <1>5 DEF Promise!ReachDisk, Drawn, Survivors

LEMMA FlushReachesDisk ==
    ASSUME TypeOK, FlushDb
    PROVE  Promise!ReachDisk
<1>1. log \in Seq(Write) /\ log' = log /\ flushed' = Len(log) /\ task' = task
  BY DEF TypeOK, DbTypeOK, FlushDb, Flush, sendVars
<1>2. Contents(log') = Contents(log) /\ Survivors(log', flushed') = {Contents(log)}
  BY <1>1, SurvivorsOfFlushed
<1>3. Drawn' = Drawn
  BY <1>1 DEF Drawn
<1> QED BY <1>2, <1>3 DEF Promise!ReachDisk, Drawn, Survivors

\* The streams, and the handlers that change who is a member.
LEMMA OthersUnseen ==
    ASSUME UNCHANGED <<dbVars, task>>
    PROVE  UNCHANGED storeView
<1>1. UNCHANGED <<log, flushed, Drawn>>
  BY DEF dbVars, Drawn
<1> QED BY <1>1, ViewUnchanged

LEMMA StepImplements ==
    ASSUME TypeOK, MidInv, [Next]_vars
    PROVE  Promise!StoreNext \/ UNCHANGED storeView
<1>1. ASSUME NEW s \in Senders,
             \/ \E p \in Posts : Accept(s, p.from, p.target, p.kind)
             \/ Allocate(s) \/ Store(s) \/ Merge(s) \/ Broadcast(s)
             \/ Abandon(s) \/ SendFails(s)
      PROVE  Promise!StoreNext \/ UNCHANGED storeView
  BY <1>1, AcceptUnseen, AllocateDraws, StorePuts, MergeUnseen, OtherSendsUnseen, SendFailsGivesUp
     DEF Promise!StoreNext
<1>2. ASSUME NEW u \in Users,
             \/ Subscribe(u) \/ SubscribeFails(u) \/ Snapshot(u)
             \/ Receive(u) \/ LagBreak(u) \/ Disconnect(u)
      PROVE  UNCHANGED storeView
  <2>1. UNCHANGED <<dbVars, task>>
    BY <1>2 DEF Subscribe, SubscribeFails, Snapshot, Receive, LagBreak, Disconnect,
                ReadSnapshot, ReadLive, EndStream
  <2> QED BY <2>1, OthersUnseen
<1>3. ASSUME NEW g \in Groups,
             \/ DeleteGroup(g)
             \/ \E u \in Users : AddMember(g, u) \/ RemoveMember(g, u) \/ Leave(g, u)
      PROVE  UNCHANGED storeView
  <2>1. UNCHANGED <<dbVars, task>>
    BY <1>3 DEF DeleteGroup, AddMember, RemoveMember, Leave
  <2> QED BY <2>1, OthersUnseen
<1>4. ASSUME NEW g \in Groups, ClearGroup(g)
      PROVE  Promise!StoreNext
  BY <1>4, ClearClears DEF Promise!StoreNext
<1>5. CASE Crash
  <2>1. \E left \in Survivors(log, flushed) :
           /\ Contents(log)' = left /\ Survivors(log, flushed)' = {left}
           /\ Drawn' = {}
    BY <1>5, CrashCrashes
  <2> QED BY <2>1 DEF Promise!StoreNext, Promise!Crash, Survivors, Drawn
<1>6. CASE Stop \/ FlushDb
  BY <1>6, StopReachesDisk, FlushReachesDisk DEF Promise!StoreNext
<1>7. CASE UNCHANGED vars
  <2>1. UNCHANGED <<dbVars, task>>
    BY <1>7 DEF vars, sendVars
  <2> QED BY <2>1, OthersUnseen
<1>8. Listeners \subseteq Users
  BY DeliveryAssumption
<1> QED BY <1>1, <1>2, <1>3, <1>4, <1>5, <1>6, <1>7, <1>8 DEF Next

LEMMA InitImplements ==
    ASSUME Init
    PROVE  Promise!StoreInit
<1> DEFINE w == [op |-> "lease", key |-> 1 + Bandwidth]
<1>1. /\ log = Append(<<>>, w) /\ flushed = 0 /\ w \in Write /\ w.op = "lease"
      /\ <<>> \in Seq(Write) /\ Len(<<>>) = 0
  BY BandwidthAssumption DEF Init, DbInit, Write, LeaseWrite
<1> HIDE DEF w
<1>2. Contents(<<>>) = {}
  BY DEF Contents, Stored, Puts
<1>3. 0 \in 0..Len(<<>>)
  BY <1>1
<1>4. Contents(log) = {} /\ Survivors(log, flushed) = Survivors(<<>>, 0)
  BY <1>1, <1>2, <1>3, UnseenAppend
<1>5. Survivors(<<>>, 0) = {{}}
  BY <1>1, <1>2, SurvivorsOfFlushed
<1>6. Drawn = {}
  BY IdleTaskFields DEF Init, Drawn
<1> QED BY <1>4, <1>5, <1>6 DEF Promise!StoreInit, Drawn, Survivors

\* Delivery implements MessageStore: whatever is sent, cleared, abandoned or
\* lost in a crash, for any SEQUENCE_BANDWIDTH, any users and any requests, the
\* message database keeps what the abstract store promises.
THEOREM DeliveryKeepsPromise == Spec => StoreKeepsPromise
<1>1. Init => Promise!StoreInit
  BY InitImplements
<1>2. Inv /\ [Next]_vars => [Promise!StoreNext]_storeView
  BY StepImplements DEF Inv
<1>3. Inv /\ [Next]_vars => [Promise!StoreNext]_(Promise!storeVars)
  BY <1>2 DEF Promise!storeVars, storeView, Survivors, Drawn
<1>4. QED
  BY <1>1, <1>3, Invariance, PTL DEF Spec, StoreKeepsPromise, Promise!StoreSpec
=============================================================================
