---------------------------- MODULE SettingsProofs ----------------------------
(***************************************************************************)
(* The properties of the users' settings for any number of users, targets, *)
(* devices, requests and troubles.  CacheAgrees needs what clean_mute      *)
(* leaves between its two steps, MirrorAgrees what a device will show once *)
(* it has read the changes that are on the way, and ReadIndexNeverBack     *)
(* that the table is never behind the cache but after a group was cleared. *)
(***************************************************************************)
EXTENDS Settings, SequenceTheorems, TLAPS

----------------------------------------------------------------------------
\* The inductive invariant.

\* clean_mute works with a time of the past, and leaves none of the mutes that
\* had expired by then in the table, unless SQLite failed.
CleaningBehind ==
    /\ cleaning <= now
    /\ \A u \in Users, t \in Targets :
          cleaning # Idle /\ Expired(table.rows["mute"][u][t], cleaning) => faulty

\* A setting is the same in both, or it is a mute that has expired and is gone
\* from one of them.
Agreed(k, u, t) ==
    LET here == cache.rows[k][u][t]
        there == table.rows[k][u][t]
    IN  \/ here = there
        \/ k = "mute" /\ cleaning # Idle /\ Expired(here, cleaning) /\ there = 0
        \/ k = "mute" /\ faulty /\ Expired(there, now) /\ here = 0

AllAgreed ==
    \A k \in Kinds, u \in Users, t \in Targets :
        Known(u, t) /\ <<k, u, t>> \notin cut => Agreed(k, u, t)

\* No read index of the table is behind the cache, cut short or not, but one
\* that went when its group was cleared.
Stored(u, t) ==
    \/ table.rows["read"][u][t] >= cache.rows["read"][u][t]
    \/ table.rows["read"][u][t] = 0 /\ <<u, t>> \in wiped

ReadStored == \A u \in Users, t \in Targets : Known(u, t) => Stored(u, t)

About(c, k, t) == c.kind = k /\ t \in c.on

\* The last of the changes in box about t makes the setting v, or there is none
\* and it was v already.
Latest(box, k, t, shown, v) ==
    \/ \E i \in DOMAIN box :
          /\ About(box[i], k, t) /\ box[i].value = v
          /\ \A j \in DOMAIN box : j > i => ~About(box[j], k, t)
    \/ (\A i \in DOMAIN box : ~About(box[i], k, t)) /\ shown = v

\* What d will show is what the server holds.
Following(d, k, t) ==
    \E v \in Value :
        /\ Latest(mirror[d].inbox, k, t, mirror[d].view[k][t], v)
        /\ Unexpired(k, v) = Unexpired(k, cache.rows[k][UserOf[d]][t])

MirrorFollows ==
    \A d \in Devices, k \in Shown, t \in Targets :
        mirror[d].on /\ t \in cache.alive /\ <<k, t>> \notin mirror[d].untold => Following(d, k, t)

SettingsIInv == TypeOK /\ CleaningBehind /\ AllAgreed /\ ReadStored /\ MirrorFollows

----------------------------------------------------------------------------
\* The operators on stores.

\* Put changes the setting k of u about ts, and nothing else.
LEMMA PutRows ==
  ASSUME NEW store \in Store, NEW k \in Kinds, NEW u \in Users, NEW ts \in SUBSET Targets,
         NEW v \in Value
  PROVE  /\ Put(store, k, u, ts, v) \in Store
         /\ Put(store, k, u, ts, v).alive = store.alive
         /\ \A l \in Kinds, w \in Users, t \in Targets :
               Put(store, k, u, ts, v).rows[l][w][t] =
                   IF l = k /\ w = u /\ t \in ts THEN v ELSE store.rows[l][w][t]
<1> DEFINE new == [t \in Targets |-> IF t \in ts THEN v ELSE store.rows[k][u][t]]
<1>1. Put(store, k, u, ts, v) = [store EXCEPT !.rows[k][u] = new]
  BY DEF Put
<1>2. store.rows \in [Kinds -> Rows] /\ store.alive \in SUBSET Targets
  BY DEF Store
<1>3. new \in [Targets -> Value]
  BY <1>2 DEF Rows
<1>4. /\ Put(store, k, u, ts, v).rows = [store.rows EXCEPT ![k][u] = new]
      /\ Put(store, k, u, ts, v).alive = store.alive
      /\ Put(store, k, u, ts, v) = [alive |-> store.alive, rows |-> [store.rows EXCEPT ![k][u] = new]]
  BY <1>1 DEF Store
<1>5. [store.rows EXCEPT ![k][u] = new] \in [Kinds -> Rows]
  BY <1>2, <1>3 DEF Rows
<1>6. ASSUME NEW l \in Kinds, NEW w \in Users, NEW t \in Targets
      PROVE  [store.rows EXCEPT ![k][u] = new][l][w][t]
                = IF l = k /\ w = u /\ t \in ts THEN v ELSE store.rows[l][w][t]
  BY <1>2 DEF Rows
<1> QED BY <1>2, <1>4, <1>5, <1>6 DEF Store

\* Cascade takes away every row about the gone, and nothing else.
LEMMA CascadeRows ==
  ASSUME NEW store \in Store, NEW gone \in SUBSET Targets
  PROVE  /\ Cascade(store, gone) \in Store
         /\ Cascade(store, gone).alive = store.alive \ gone
         /\ \A k \in Kinds, u \in Users, t \in Targets :
               Cascade(store, gone).rows[k][u][t] =
                   IF u \in gone \/ t \in gone THEN 0 ELSE store.rows[k][u][t]
  BY SettingsAssumption DEF Cascade, Store, Rows, Value

\* Forget takes away what a store has of some kinds about ts.
LEMMA ForgetRows ==
  ASSUME NEW store \in Store, NEW kinds \in SUBSET Kinds, NEW ts \in SUBSET Targets
  PROVE  /\ Forget(store, kinds, ts) \in [Kinds -> Rows]
         /\ \A k \in Kinds, u \in Users, t \in Targets :
               Forget(store, kinds, ts)[k][u][t] =
                   IF k \in kinds /\ t \in ts THEN 0 ELSE store.rows[k][u][t]
  BY SettingsAssumption DEF Forget, Store, Rows, Value

\* WithoutExpired takes away the mutes that had expired.
LEMMA WithoutExpiredRows ==
  ASSUME NEW store \in Store, NEW time \in Nat
  PROVE  /\ WithoutExpired(store, time) \in Store
         /\ WithoutExpired(store, time).alive = store.alive
         /\ \A k \in Kinds, u \in Users, t \in Targets :
               WithoutExpired(store, time).rows[k][u][t] =
                   IF k = "mute" /\ Expired(store.rows[k][u][t], time) THEN 0 ELSE store.rows[k][u][t]
<1> DEFINE new == [u \in Users |-> [t \in Targets |->
                      IF Expired(store.rows["mute"][u][t], time) THEN 0 ELSE store.rows["mute"][u][t]]]
<1>1. store.rows \in [Kinds -> Rows] /\ store.alive \in SUBSET Targets /\ "mute" \in Kinds
  BY DEF Store, Kinds
<1>2. WithoutExpired(store, time) = [store EXCEPT !.rows["mute"] = new]
  BY DEF WithoutExpired
<1>3. new \in Rows
  BY <1>1, SettingsAssumption DEF Rows, Value
<1>4. WithoutExpired(store, time) = [alive |-> store.alive, rows |-> [store.rows EXCEPT !["mute"] = new]]
  BY <1>2 DEF Store
<1>5. ASSUME NEW k \in Kinds, NEW u \in Users, NEW t \in Targets
      PROVE  [store.rows EXCEPT !["mute"] = new][k][u][t] =
                IF k = "mute" /\ Expired(store.rows[k][u][t], time) THEN 0 ELSE store.rows[k][u][t]
  BY <1>1 DEF Rows
<1> QED BY <1>1, <1>3, <1>4, <1>5 DEF Store

----------------------------------------------------------------------------
\* What the requests do.

\* A handler saves a setting: the same in table and cache but for a contact
\* that is unblocked, a mute that has not expired, a read index that is newer.
Handled(k, u, ts, stored, v) ==
    /\ Save(k, u, ts, stored, v)
    /\ \/ ts = stored
       \/ k = "contact" /\ \E t \in Targets : ts = Blocked(cache, u, t) /\ stored = Blocked(table, u, t)
    /\ k = "mute" => v = 0 \/ v >= now
    /\ k = "read" => \A t \in ts : cache.rows["read"][u][t] < v

\* Every request is handled so.
LEMMA RequestsSave ==
  ASSUME TypeOK,
         \/ \E u \in Users, ts \in SUBSET Targets :
              \/ \E v \in 1..Forever : Mute(u, ts, v)
              \/ Unmute(u, ts)
              \/ \E v \in 0..1 : UpdateBurnAfterReading(u, ts, v)
              \/ \E mid \in 1..MaxMid : UpdateReadIndex(u, ts, mid)
         \/ \E u \in Users, t \in Targets :
              \/ PinChat(u, t) \/ UnpinChat(u, t)
              \/ \E status \in 1..2 : AddContact(u, t, status)
              \/ RemoveContact(u, t) \/ UnblockContact(u, t)
  PROVE  \E k \in Kinds, u \in Users, ts \in SUBSET Targets, stored \in SUBSET Targets, v \in Value :
            Handled(k, u, ts, stored, v)
<1> DEFINE Goal == \E k \in Kinds, u \in Users, ts \in SUBSET Targets, stored \in SUBSET Targets, v \in Value :
                      Handled(k, u, ts, stored, v)
<1> HIDE DEF Goal
<1> SUFFICES Goal
  BY DEF Goal
<1>0. 0 \in Value /\ 1 \in Value /\ 2 \in Value /\ 1..Forever \subseteq Value /\ 1..MaxMid \subseteq Value
  BY SettingsAssumption DEF Value, Forever
<1>1. ASSUME NEW u \in Users, NEW ts \in SUBSET Targets, NEW v \in 1..Forever, Mute(u, ts, v)
      PROVE  Goal
  <2>1. Handled("mute", u, ts, ts, v)
    BY <1>1 DEF Mute, Upsert, Handled
  <2> QED BY <1>0, <2>1 DEF Goal, Kinds
<1>2. ASSUME NEW u \in Users, NEW ts \in SUBSET Targets, Unmute(u, ts) PROVE Goal
  <2>1. Handled("mute", u, ts, ts, 0)
    BY <1>2 DEF Unmute, Remove, Handled
  <2> QED BY <1>0, <2>1 DEF Goal, Kinds
<1>3. ASSUME NEW u \in Users, NEW ts \in SUBSET Targets, NEW v \in 0..1, UpdateBurnAfterReading(u, ts, v)
      PROVE  Goal
  <2>1. v = 0 \/ v = 1
    OBVIOUS
  <2>2. Handled("burn", u, ts, ts, v)
    BY <1>3, <2>1 DEF UpdateBurnAfterReading, Upsert, Remove, Handled
  <2> QED BY <1>0, <2>1, <2>2 DEF Goal, Kinds
<1>4. ASSUME NEW u \in Users, NEW ts \in SUBSET Targets, NEW mid \in 1..MaxMid, UpdateReadIndex(u, ts, mid)
      PROVE  Goal
  <2>1. Newer(u, ts, mid) \in SUBSET Targets
    BY DEF Newer
  <2>2. Handled("read", u, Newer(u, ts, mid), Newer(u, ts, mid), mid)
    BY <1>4 DEF UpdateReadIndex, Upsert, Handled, Newer
  <2> QED BY <1>0, <2>1, <2>2 DEF Goal, Kinds
<1>5. ASSUME NEW u \in Users, NEW t \in Targets, PinChat(u, t) PROVE Goal
  <2>1. Handled("pin", u, {t}, {t}, 1)
    BY <1>5 DEF PinChat, Upsert, Handled
  <2>2. {t} \in SUBSET Targets
    OBVIOUS
  <2> QED BY <1>0, <2>1, <2>2 DEF Goal, Kinds
<1>6. ASSUME NEW u \in Users, NEW t \in Targets, UnpinChat(u, t) PROVE Goal
  <2>1. Handled("pin", u, {t}, {t}, 0)
    BY <1>6 DEF UnpinChat, Remove, Handled
  <2>2. {t} \in SUBSET Targets
    OBVIOUS
  <2> QED BY <1>0, <2>1, <2>2 DEF Goal, Kinds
<1>7. ASSUME NEW u \in Users, NEW t \in Targets, NEW status \in 1..2, AddContact(u, t, status) PROVE Goal
  <2>1. Handled("contact", u, {t}, {t}, status)
    BY <1>7 DEF AddContact, Upsert, Handled
  <2>2. {t} \in SUBSET Targets /\ status \in {1, 2}
    OBVIOUS
  <2> QED BY <1>0, <2>1, <2>2 DEF Goal, Kinds
<1>8. ASSUME NEW u \in Users, NEW t \in Targets, RemoveContact(u, t) PROVE Goal
  <2>1. Handled("contact", u, {t}, {t}, 0)
    BY <1>8 DEF RemoveContact, Remove, Handled
  <2>2. {t} \in SUBSET Targets
    OBVIOUS
  <2> QED BY <1>0, <2>1, <2>2 DEF Goal, Kinds
<1>9. ASSUME NEW u \in Users, NEW t \in Targets, UnblockContact(u, t) PROVE Goal
  <2>1. Handled("contact", u, Blocked(cache, u, t), Blocked(table, u, t), 1)
    BY <1>9 DEF UnblockContact, Handled
  <2>2. Blocked(cache, u, t) \in SUBSET Targets /\ Blocked(table, u, t) \in SUBSET Targets
    BY DEF Blocked
  <2> QED BY <1>0, <2>1, <2>2 DEF Goal, Kinds
<1> QED BY <1>1, <1>2, <1>3, <1>4, <1>5, <1>6, <1>7, <1>8, <1>9

----------------------------------------------------------------------------
\* The types.

\* A change that is sent to the devices of u fits into their queues.
LEMMA BroadcastTypes ==
  ASSUME TypeOK, NEW u \in Users, NEW k \in Shown, NEW ts \in SUBSET Targets, NEW v \in Value,
         Broadcast(u, k, ts, v)
  PROVE  /\ mirror' \in [Devices -> Mirror]
         /\ \A d \in Devices : mirror'[d].on <=> mirror[d].on
         /\ \A d \in Devices :
              IF mirror[d].on /\ UserOf[d] = u
              THEN /\ mirror'[d].inbox = Append(mirror[d].inbox, [kind |-> k, on |-> ts, value |-> v])
                   /\ mirror'[d].view = mirror[d].view
                   /\ mirror'[d].untold = mirror[d].untold \ ({k} \X ts)
              ELSE mirror'[d] = mirror[d]
<1> DEFINE c == [kind |-> k, on |-> ts, value |-> v]
           told(d) == [mirror[d] EXCEPT !.inbox = Append(@, c), !.untold = @ \ ({k} \X ts)]
<1>1. c \in Change
  BY DEF Change
<1> HIDE DEF c
<1>2. ASSUME NEW d \in Devices
      PROVE  /\ mirror[d] \in Mirror /\ mirror[d].inbox \in Seq(Change)
             /\ Append(mirror[d].inbox, c) \in Seq(Change)
             /\ told(d) \in Mirror /\ told(d).on = mirror[d].on /\ told(d).view = mirror[d].view
             /\ told(d).inbox = Append(mirror[d].inbox, c)
             /\ told(d).untold = mirror[d].untold \ ({k} \X ts)
  <2>1. /\ mirror[d] \in Mirror /\ mirror[d].inbox \in Seq(Change)
        /\ mirror[d].untold \ ({k} \X ts) \in SUBSET (Shown \X Targets)
    BY DEF TypeOK, Mirror
  <2>2. Append(mirror[d].inbox, c) \in Seq(Change)
    BY <1>1, <2>1, AppendProperties
  <2> QED BY <2>1, <2>2 DEF Mirror
<1>3. mirror' = [d \in Devices |-> IF mirror[d].on /\ UserOf[d] = u
                                    THEN told(d) ELSE mirror[d]]
  BY DEF Broadcast, c
<1> QED BY <1>2, <1>3 DEF c

\* A record of what a device knows.
LEMMA MirrorOf ==
  ASSUME TypeOK, NEW d \in Devices
  PROVE  /\ mirror[d].on \in BOOLEAN
         /\ mirror[d].untold \in SUBSET (Shown \X Targets)
         /\ mirror[d].view \in [Shown -> [Targets -> Value]]
         /\ mirror[d].inbox \in Seq(Change)
         /\ Len(mirror[d].inbox) \in Nat
         /\ DOMAIN mirror[d].inbox = 1..Len(mirror[d].inbox)
         /\ \A i \in 1..Len(mirror[d].inbox) : mirror[d].inbox[i] \in Change
  BY LenProperties, ElementOfSeq DEF TypeOK, Mirror

\* A device without a stream knows nothing.
LEMMA OffTypes == Off \in Mirror
<1>1. 0 \in Value
  BY SettingsAssumption DEF Value
<1> QED BY <1>1, EmptySeq DEF Off, Nothing, Mirror

\* A request's step keeps the types.
LEMMA SavedTypes ==
  ASSUME TypeOK, NEW k \in Kinds, NEW u \in Users, NEW ts \in SUBSET Targets,
         NEW stored \in SUBSET Targets, NEW v \in Value, Save(k, u, ts, stored, v)
  PROVE  TypeOK'
<1>1. table' \in Store
  BY PutRows DEF Save, TypeOK
<1>2. cache' \in Store
  <2>1. Put(cache, k, u, ts, v) \in Store /\ cache \in Store
    BY PutRows DEF TypeOK
  <2> QED BY <2>1 DEF Save
<1>3. mirror' \in [Devices -> Mirror]
  BY BroadcastTypes DEF Save, TypeOK, Announced
<1>4. cut' \subseteq Kinds \X Users \X Targets
  <2>1. {k} \X {u} \X (ts \cup stored) \subseteq Kinds \X Users \X Targets
    OBVIOUS
  <2> QED BY <2>1 DEF Save, TypeOK
<1>5. used' \in [requests : Nat, troubles : Nat]
  <2>1. used \in [requests : Nat, troubles : Nat]
    BY DEF TypeOK
  <2>2. CASE used' = [used EXCEPT !.requests = @ + 1]
    BY <2>1, <2>2
  <2>3. CASE used' = [used EXCEPT !.requests = @ + 1, !.troubles = @ + 1]
    <3>1. used' = [requests |-> used.requests + 1, troubles |-> used.troubles + 1]
      BY <2>1, <2>3
    <3> QED BY <2>1, <3>1
  <2> QED BY <2>2, <2>3 DEF Save
<1>6. wiped' \subseteq Users \X Groups
  BY DEF Save, TypeOK
<1> QED BY <1>1, <1>2, <1>3, <1>4, <1>5, <1>6 DEF Save, TypeOK

\* What a device gets when it subscribes is of the right type.
LEMMA UserSettingsTypes ==
  ASSUME TypeOK, NEW u \in Users
  PROVE  /\ UserSettings(u) \in [Shown -> [Targets -> Value]]
         /\ \A k \in Shown, t \in Targets : UserSettings(u)[k][t] = Unexpired(k, cache.rows[k][u][t])
<1>1. \A k \in Shown, t \in Targets : cache.rows[k][u][t] \in Value /\ 0 \in Value
  BY SettingsAssumption DEF TypeOK, Store, Rows, Shown, Value
<1> QED BY <1>1 DEF UserSettings, Unexpired

\* Every step keeps the types.
LEMMA TypesKept == TypeOK /\ [Next]_vars => TypeOK'
<1> SUFFICES ASSUME TypeOK, [Next]_vars PROVE TypeOK'
  OBVIOUS
<1>1. ASSUME NEW t \in Users \cup Others, DeleteUser(t) PROVE TypeOK'
  <2>1. {t} \in SUBSET Targets /\ {t} \cup Orphans(t) \in SUBSET Targets /\ {"read", "pin"} \in SUBSET Kinds
    BY DEF Targets, Orphans, Kinds
  <2>2. table' \in Store
    BY <1>1, <2>1, CascadeRows DEF DeleteUser, TypeOK
  <2>3. cache' \in Store
    <3>1. [alive |-> cache.alive \ ({t} \cup Orphans(t)),
           rows |-> Forget(cache, {"read", "pin"}, {t} \cup Orphans(t))] \in Store
      <4>1. Forget(cache, {"read", "pin"}, {t} \cup Orphans(t)) \in [Kinds -> Rows]
        <5>1. cache \in Store
          BY DEF TypeOK
        <5>2. \A kinds \in SUBSET Kinds, ts \in SUBSET Targets : Forget(cache, kinds, ts) \in [Kinds -> Rows]
          BY <5>1, ForgetRows
        <5> QED BY <2>1, <5>2, Zenon
      <4> QED BY <4>1 DEF TypeOK, Store
    <3> QED BY <1>1, <3>1 DEF DeleteUser, TypeOK
  <2>4. mirror' \in [Devices -> Mirror]
    BY <1>1, OffTypes DEF DeleteUser, TypeOK
  <2> QED BY <1>1, <2>2, <2>3, <2>4 DEF DeleteUser, Trouble, TypeOK
<1>2. ASSUME NEW g \in Groups, DeleteGroup(g) PROVE TypeOK'
  <2>1. {g} \in SUBSET Targets /\ {"read"} \in SUBSET Kinds
    BY DEF Targets, Kinds
  <2>2. table' \in Store
    BY <1>2, <2>1, CascadeRows DEF DeleteGroup, TypeOK
  <2>3. cache' \in Store
    <3>1. [alive |-> cache.alive \ {g}, rows |-> Forget(cache, {"read"}, {g})] \in Store
      <4>1. Forget(cache, {"read"}, {g}) \in [Kinds -> Rows]
        <5>1. cache \in Store
          BY DEF TypeOK
        <5>2. \A kinds \in SUBSET Kinds, ts \in SUBSET Targets : Forget(cache, kinds, ts) \in [Kinds -> Rows]
          BY <5>1, ForgetRows
        <5> QED BY <2>1, <5>2, Zenon
      <4> QED BY <4>1 DEF TypeOK, Store
    <3> QED BY <1>2, <3>1 DEF DeleteGroup, TypeOK
  <2> QED BY <1>2, <2>2, <2>3 DEF DeleteGroup, Trouble, TypeOK
<1>11. ASSUME NEW g \in Groups, ClearGroup(g) PROVE TypeOK'
  <2>1. {g} \in SUBSET Targets /\ Cleared \in SUBSET Kinds /\ Cleared \in SUBSET Shown
    BY DEF Targets, Kinds, Cleared, Shown
  <2>2. \A store \in Store : [alive |-> store.alive, rows |-> Forget(store, Cleared, {g})] \in Store
    <3> SUFFICES ASSUME NEW store \in Store
                 PROVE  [alive |-> store.alive, rows |-> Forget(store, Cleared, {g})] \in Store
      OBVIOUS
    <3>1. \A kinds \in SUBSET Kinds, ts \in SUBSET Targets : Forget(store, kinds, ts) \in [Kinds -> Rows]
      BY ForgetRows
    <3>2. Forget(store, Cleared, {g}) \in [Kinds -> Rows]
      BY <2>1, <3>1, Zenon
    <3> QED BY <3>2 DEF Store
  <2>3. table' \in Store /\ cache' \in Store
    BY <1>11, <2>2 DEF ClearGroup, TypeOK
  <2>4. mirror' \in [Devices -> Mirror]
    <3> DEFINE told(d) == [mirror[d] EXCEPT !.untold = IF mirror[d].on THEN @ \cup (Cleared \X {g}) ELSE @]
    <3>1. ASSUME NEW d \in Devices PROVE told(d) \in Mirror
      <4>1. mirror[d] \in Mirror /\ mirror[d].untold \cup (Cleared \X {g}) \in SUBSET (Shown \X Targets)
        BY <2>1 DEF TypeOK, Mirror
      <4> QED BY <4>1 DEF Mirror
    <3>2. mirror' = [d \in Devices |-> told(d)] \/ mirror' = mirror
      BY <1>11 DEF ClearGroup
    <3> QED BY <3>1, <3>2 DEF TypeOK
  <2>5. cut' \subseteq Kinds \X Users \X Targets /\ wiped' \subseteq Users \X Groups
    BY <1>11, <2>1 DEF ClearGroup, TypeOK
  <2>6. used' \in [requests : Nat, troubles : Nat]
    <3>1. used \in [requests : Nat, troubles : Nat]
      BY DEF TypeOK
    <3>2. \/ used' = [used EXCEPT !.requests = @ + 1]
          \/ used' = [used EXCEPT !.requests = @ + 1, !.troubles = @ + 1]
      BY <1>11 DEF ClearGroup
    <3>3. CASE used' = [used EXCEPT !.requests = @ + 1]
      BY <3>1, <3>3
    <3>4. CASE used' = [used EXCEPT !.requests = @ + 1, !.troubles = @ + 1]
      <4>1. used' = [requests |-> used.requests + 1, troubles |-> used.troubles + 1]
        BY <3>1, <3>4
      <4> QED BY <3>1, <4>1
    <3> QED BY <3>2, <3>3, <3>4
  <2> QED BY <1>11, <2>3, <2>4, <2>5, <2>6 DEF ClearGroup, TypeOK
<1>3. CASE CleanTable
  <2>1. WithoutExpired(table, now) \in Store
    BY WithoutExpiredRows DEF TypeOK
  <2>2. used' \in [requests : Nat, troubles : Nat]
    BY <1>3 DEF CleanTable, Trouble, TypeOK
  <2> QED BY <1>3, <2>1, <2>2 DEF CleanTable, TypeOK
<1>4. CASE CleanCache
  BY <1>4, WithoutExpiredRows DEF CleanCache, Idle, TypeOK
<1>5. ASSUME NEW d \in Devices, Subscribe(d) PROVE TypeOK'
  <2>1. UserOf[d] \in Users /\ <<>> \in Seq(Change)
    BY SettingsAssumption, EmptySeq
  <2> QED BY <1>5, <2>1, UserSettingsTypes DEF Subscribe, TypeOK, Mirror
<1>6. ASSUME NEW d \in Devices, Receive(d) PROVE TypeOK'
  <2> DEFINE c == Head(mirror[d].inbox)
             view == [mirror[d].view EXCEPT ![c.kind] = [t \in Targets |-> IF t \in c.on THEN c.value ELSE @[t]]]
  <2>1. c \in Change /\ Tail(mirror[d].inbox) \in Seq(Change)
    BY <1>6, MirrorOf, HeadTailProperties DEF Receive
  <2>2. view \in [Shown -> [Targets -> Value]]
    BY <2>1, MirrorOf DEF Change
  <2>3. mirror' = [mirror EXCEPT ![d].inbox = Tail(@), ![d].view = view]
    BY <1>6 DEF Receive
  <2> HIDE DEF c, view
  <2>4. [mirror[d] EXCEPT !.inbox = Tail(mirror[d].inbox), !.view = view]
           \in Mirror
    <3>1. mirror[d] \in Mirror
      BY DEF TypeOK
    <3> QED BY <2>1, <2>2, <3>1 DEF Mirror
  <2>5. mirror' \in [Devices -> Mirror]
    <3>1. mirror' = [mirror EXCEPT ![d] = [mirror[d] EXCEPT !.inbox = Tail(mirror[d].inbox), !.view = view]]
      BY <2>3 DEF TypeOK
    <3> QED BY <2>4, <3>1 DEF TypeOK
  <2> QED BY <1>6, <2>5 DEF Receive, TypeOK
<1>7. ASSUME NEW d \in Devices, Leave(d) PROVE TypeOK'
  BY <1>7, OffTypes DEF Leave, TypeOK
<1>8. CASE Tick
  BY <1>8 DEF Tick, TypeOK
<1>9. CASE Restart
  BY <1>9, OffTypes DEF Restart, Trouble, Idle, TypeOK
<1>10. CASE UNCHANGED vars
  BY <1>10 DEF vars, TypeOK
<1> QED
  BY <1>1, <1>2, <1>3, <1>4, <1>5, <1>6, <1>7, <1>8, <1>9, <1>10, <1>11, RequestsSave, SavedTypes
  DEF Next, Handled

----------------------------------------------------------------------------
\* Table and cache.

\* Every row holds a number.
LEMMA RowNumbers ==
  ASSUME TypeOK, NEW k \in Kinds, NEW u \in Users, NEW t \in Targets
  PROVE  table.rows[k][u][t] \in Nat /\ cache.rows[k][u][t] \in Nat
<1>1. table.rows[k][u][t] \in Value /\ cache.rows[k][u][t] \in Value
  BY DEF TypeOK, Store, Rows
<1> QED BY <1>1, SettingsAssumption DEF Value

\* What a request that is saved does to the rows.
SaveEffect(k, u, ts, stored, v) ==
    /\ table'.alive = table.alive /\ cache'.alive = cache.alive
    /\ UNCHANGED <<now, cleaning, faulty>>
    /\ wiped' = IF k = "read" THEN wiped \ ({u} \X stored) ELSE wiped
    /\ \A l \in Kinds, w \in Users, t \in Targets :
          table'.rows[l][w][t] = IF l = k /\ w = u /\ t \in stored THEN v ELSE table.rows[l][w][t]
    /\ \/ /\ \A l \in Kinds, w \in Users, t \in Targets :
                cache'.rows[l][w][t] = IF l = k /\ w = u /\ t \in ts THEN v ELSE cache.rows[l][w][t]
          /\ cut' = cut \ ({k} \X {u} \X (ts \cap stored))
          /\ IF Announced(k) THEN Broadcast(u, k, ts, v) ELSE UNCHANGED mirror
       \/ /\ cache' = cache /\ cut' = cut \cup ({k} \X {u} \X (ts \cup stored))
          /\ UNCHANGED mirror

\* Saving has that effect.
LEMMA SavedRows ==
  ASSUME TypeOK, NEW k \in Kinds, NEW u \in Users, NEW ts \in SUBSET Targets,
         NEW stored \in SUBSET Targets, NEW v \in Value, Save(k, u, ts, stored, v)
  PROVE  SaveEffect(k, u, ts, stored, v)
<1>1. table \in Store /\ cache \in Store
  BY DEF TypeOK
<1>2. /\ table' = Put(table, k, u, stored, v)
      /\ UNCHANGED <<now, cleaning, faulty>>
      /\ wiped' = IF k = "read" THEN wiped \ ({u} \X stored) ELSE wiped
      /\ \/ /\ cache' = Put(cache, k, u, ts, v)
            /\ cut' = cut \ ({k} \X {u} \X (ts \cap stored))
            /\ IF Announced(k) THEN Broadcast(u, k, ts, v) ELSE UNCHANGED mirror
         \/ /\ cache' = cache /\ cut' = cut \cup ({k} \X {u} \X (ts \cup stored))
            /\ UNCHANGED mirror
  BY DEF Save
<1>3. /\ Put(table, k, u, stored, v).alive = table.alive
      /\ \A l \in Kinds, w \in Users, t \in Targets :
            Put(table, k, u, stored, v).rows[l][w][t] =
                IF l = k /\ w = u /\ t \in stored THEN v ELSE table.rows[l][w][t]
  BY <1>1, PutRows
<1>4. /\ Put(cache, k, u, ts, v).alive = cache.alive
      /\ \A l \in Kinds, w \in Users, t \in Targets :
            Put(cache, k, u, ts, v).rows[l][w][t] =
                IF l = k /\ w = u /\ t \in ts THEN v ELSE cache.rows[l][w][t]
  BY <1>1, PutRows
<1> QED BY <1>2, <1>3, <1>4 DEF SaveEffect

\* What the deletion of a user or group leaves to those that exist.
LEMMA DeletedRows ==
  ASSUME TypeOK,
         \/ \E t \in Users \cup Others : DeleteUser(t)
         \/ \E g \in Groups : DeleteGroup(g)
  PROVE  /\ table'.alive \subseteq table.alive /\ cache'.alive \subseteq cache.alive
         /\ UNCHANGED <<now, cleaning, faulty, cut, wiped>>
         /\ \A k \in Kinds, u \in Users, t \in Targets :
              /\ table'.rows[k][u][t] \in {0, table.rows[k][u][t]}
              /\ {u, t} \subseteq table'.alive => table'.rows[k][u][t] = table.rows[k][u][t]
              /\ t \in cache'.alive => cache'.rows[k][u][t] = cache.rows[k][u][t]
<1>0. table \in Store /\ cache \in Store
  BY DEF TypeOK
<1>1. ASSUME NEW gone \in SUBSET Targets, table' = Cascade(table, gone)
      PROVE  /\ table'.alive \subseteq table.alive
             /\ \A k \in Kinds, u \in Users, t \in Targets :
                  /\ table'.rows[k][u][t] \in {0, table.rows[k][u][t]}
                  /\ {u, t} \subseteq table'.alive => table'.rows[k][u][t] = table.rows[k][u][t]
  BY <1>0, <1>1, CascadeRows
<1>2. ASSUME NEW kinds \in SUBSET Kinds, NEW ts \in SUBSET Targets,
             cache' = [alive |-> cache.alive \ ts, rows |-> Forget(cache, kinds, ts)]
      PROVE  /\ cache'.alive \subseteq cache.alive
             /\ \A k \in Kinds, u \in Users, t \in Targets :
                  t \in cache'.alive => cache'.rows[k][u][t] = cache.rows[k][u][t]
  BY <1>0, <1>2, ForgetRows
<1>3. ASSUME NEW t \in Users \cup Others, DeleteUser(t)
      PROVE  /\ UNCHANGED <<now, cleaning, faulty, cut, wiped>> /\ table' = Cascade(table, {t})
             /\ \/ cache' = [alive |-> cache.alive \ ({t} \cup Orphans(t)),
                             rows |-> Forget(cache, {"read", "pin"}, {t} \cup Orphans(t))]
                \/ cache' = cache
  BY <1>3 DEF DeleteUser
<1>4. ASSUME NEW g \in Groups, DeleteGroup(g)
      PROVE  /\ UNCHANGED <<now, cleaning, faulty, cut, wiped>> /\ table' = Cascade(table, {g})
             /\ \/ cache' = [alive |-> cache.alive \ {g}, rows |-> Forget(cache, {"read"}, {g})]
                \/ cache' = cache
  BY <1>4 DEF DeleteGroup
<1>5. /\ \A t \in Users \cup Others : {t} \in SUBSET Targets /\ {t} \cup Orphans(t) \in SUBSET Targets
      /\ \A g \in Groups : {g} \in SUBSET Targets
      /\ {"read", "pin"} \in SUBSET Kinds /\ {"read"} \in SUBSET Kinds
  BY DEF Targets, Orphans, Kinds
<1>6. CASE \E t \in Users \cup Others : DeleteUser(t)
  <2>1. PICK t \in Users \cup Others : DeleteUser(t)
    BY <1>6
  <2>2. table' = Cascade(table, {t}) /\ UNCHANGED <<now, cleaning, faulty, cut, wiped>> /\ {t} \in SUBSET Targets
    BY <1>3, <1>5, <2>1
  <2>3. /\ cache'.alive \subseteq cache.alive
        /\ \A k \in Kinds, u \in Users, x \in Targets :
              x \in cache'.alive => cache'.rows[k][u][x] = cache.rows[k][u][x]
    <3>1. CASE cache' = cache
      BY <3>1
    <3>2. CASE cache' = [alive |-> cache.alive \ ({t} \cup Orphans(t)),
                         rows |-> Forget(cache, {"read", "pin"}, {t} \cup Orphans(t))]
      BY <1>2, <1>5, <3>2
    <3> QED BY <1>3, <2>1, <3>1, <3>2
  <2> QED BY ZenonT(30), <1>1, <2>2, <2>3
<1>7. CASE \E g \in Groups : DeleteGroup(g)
  <2>1. PICK g \in Groups : DeleteGroup(g)
    BY <1>7
  <2>2. table' = Cascade(table, {g}) /\ UNCHANGED <<now, cleaning, faulty, cut, wiped>> /\ {g} \in SUBSET Targets
    BY <1>4, <1>5, <2>1
  <2>3. /\ cache'.alive \subseteq cache.alive
        /\ \A k \in Kinds, u \in Users, x \in Targets :
              x \in cache'.alive => cache'.rows[k][u][x] = cache.rows[k][u][x]
    <3>1. CASE cache' = cache
      BY <3>1
    <3>2. CASE cache' = [alive |-> cache.alive \ {g}, rows |-> Forget(cache, {"read"}, {g})]
      BY <1>2, <1>5, <3>2
    <3> QED BY <1>4, <2>1, <3>1, <3>2
  <2>4. /\ table'.alive \subseteq table.alive
        /\ \A k \in Kinds, u \in Users, t \in Targets :
             /\ table'.rows[k][u][t] \in {0, table.rows[k][u][t]}
             /\ {u, t} \subseteq table'.alive => table'.rows[k][u][t] = table.rows[k][u][t]
    BY <1>1, <2>2
  <2> QED BY ZenonT(30), <2>2, <2>3, <2>4
<1> QED BY <1>6, <1>7

\* What clearing a group takes away, and what it leaves.
LEMMA ClearedRows ==
  ASSUME TypeOK, NEW g \in Groups, ClearGroup(g)
  PROVE  /\ table'.alive = table.alive /\ cache'.alive = cache.alive
         /\ UNCHANGED <<now, cleaning, faulty>> /\ wiped' = wiped \cup (Users \X {g})
         /\ \A k \in Kinds, u \in Users, t \in Targets :
              table'.rows[k][u][t] = IF k \in Cleared /\ t = g THEN 0 ELSE table.rows[k][u][t]
         /\ \/ /\ \A k \in Kinds, u \in Users, t \in Targets :
                    cache'.rows[k][u][t] = IF k \in Cleared /\ t = g THEN 0 ELSE cache.rows[k][u][t]
               /\ cut' = cut \ (Cleared \X Users \X {g})
               /\ \A d \in Devices :
                    /\ mirror'[d].on = mirror[d].on /\ mirror'[d].inbox = mirror[d].inbox
                    /\ mirror'[d].view = mirror[d].view
                    /\ mirror'[d].untold = IF mirror[d].on THEN mirror[d].untold \cup (Cleared \X {g})
                                           ELSE mirror[d].untold
            \/ /\ cache' = cache /\ mirror' = mirror
               /\ cut' = cut \cup (Cleared \X Users \X {g})
<1>1. table \in Store /\ cache \in Store /\ {g} \in SUBSET Targets /\ Cleared \in SUBSET Kinds
  BY DEF TypeOK, Targets, Kinds, Cleared
<1>2. \A k \in Kinds, u \in Users, t \in Targets :
         /\ Forget(table, Cleared, {g})[k][u][t] = IF k \in Cleared /\ t \in {g} THEN 0 ELSE table.rows[k][u][t]
         /\ Forget(cache, Cleared, {g})[k][u][t] = IF k \in Cleared /\ t \in {g} THEN 0 ELSE cache.rows[k][u][t]
  BY DEF Forget
<1>3. /\ table'.alive = table.alive
      /\ \A k \in Kinds, u \in Users, t \in Targets :
            table'.rows[k][u][t] = IF k \in Cleared /\ t = g THEN 0 ELSE table.rows[k][u][t]
  <2>1. table' = [alive |-> table.alive, rows |-> Forget(table, Cleared, {g})]
    BY DEF ClearGroup
  <2> QED BY <1>2, <2>1
<1>4. UNCHANGED <<now, cleaning, faulty>> /\ wiped' = wiped \cup (Users \X {g})
  BY DEF ClearGroup
<1>5. CASE UNCHANGED <<cache, mirror>> /\ cut' = cut \cup (Cleared \X Users \X {g})
  BY <1>3, <1>4, <1>5
<1>6. CASE /\ cache' = [alive |-> cache.alive, rows |-> Forget(cache, Cleared, {g})]
           /\ mirror' = [d \in Devices |->
                            [mirror[d] EXCEPT !.untold = IF mirror[d].on THEN @ \cup (Cleared \X {g}) ELSE @]]
           /\ cut' = cut \ (Cleared \X Users \X {g})
  <2>1. /\ cache'.alive = cache.alive
        /\ \A k \in Kinds, u \in Users, t \in Targets :
              cache'.rows[k][u][t] = IF k \in Cleared /\ t = g THEN 0 ELSE cache.rows[k][u][t]
    BY <1>2, <1>6
  <2>2. \A d \in Devices :
           /\ mirror'[d].on = mirror[d].on /\ mirror'[d].inbox = mirror[d].inbox
           /\ mirror'[d].view = mirror[d].view
           /\ mirror'[d].untold = IF mirror[d].on THEN mirror[d].untold \cup (Cleared \X {g})
                                  ELSE mirror[d].untold
    <3>1. \A d \in Devices : mirror[d] \in Mirror
      BY DEF TypeOK
    <3> QED BY <1>6, <3>1 DEF Mirror
  <2> QED BY <1>3, <1>4, <1>6, <2>1, <2>2
<1> QED BY <1>5, <1>6 DEF ClearGroup

\* Every step keeps what clean_mute relies on.
LEMMA CleaningKept ==
  ASSUME TypeOK, CleaningBehind, [Next]_vars
  PROVE  CleaningBehind'
<1>0. now \in Nat /\ cleaning \in Nat
  BY DEF TypeOK
<1>1. ASSUME NEW k \in Kinds, NEW u \in Users, NEW ts \in SUBSET Targets, NEW stored \in SUBSET Targets,
             NEW v \in Value, Handled(k, u, ts, stored, v)
      PROVE  CleaningBehind'
  <2>1. /\ UNCHANGED <<now, cleaning, faulty>>
        /\ \A w \in Users, t \in Targets :
             table'.rows["mute"][w][t] = IF "mute" = k /\ w = u /\ t \in stored THEN v
                                         ELSE table.rows["mute"][w][t]
    <3>1. Save(k, u, ts, stored, v)
      BY <1>1 DEF Handled
    <3>2. SaveEffect(k, u, ts, stored, v)
      BY <3>1, SavedRows
    <3> QED BY <3>2 DEF SaveEffect, Kinds
  <2>2. k = "mute" => ~Expired(v, cleaning)
    \* No one mutes for a time that is past.
    BY <1>0, <1>1, SettingsAssumption DEF Handled, Expired, CleaningBehind, Value
  <2> QED BY <2>1, <2>2 DEF CleaningBehind
<1>2. CASE (\E t \in Users \cup Others : DeleteUser(t)) \/ (\E g \in Groups : DeleteGroup(g))
  <2>1. /\ UNCHANGED <<now, cleaning, faulty>>
        /\ \A u \in Users, t \in Targets :
             table'.rows["mute"][u][t] \in {0, table.rows["mute"][u][t]}
    BY <1>2, DeletedRows DEF Kinds
  <2>2. ~Expired(0, cleaning)
    BY <1>0 DEF Expired
  <2> QED BY <2>1, <2>2 DEF CleaningBehind
<1>3. CASE CleanTable
  <2>1. CASE table' = WithoutExpired(table, now)
    <3>1. \A u \in Users, t \in Targets :
             table'.rows["mute"][u][t] = IF Expired(table.rows["mute"][u][t], now) THEN 0
                                         ELSE table.rows["mute"][u][t]
      <4>1. table \in Store
        BY DEF TypeOK
      <4>2. \A k \in Kinds, u \in Users, t \in Targets :
               WithoutExpired(table, now).rows[k][u][t] =
                   IF k = "mute" /\ Expired(table.rows[k][u][t], now) THEN 0 ELSE table.rows[k][u][t]
        BY <1>0, <4>1, WithoutExpiredRows
      <4> QED BY <2>1, <4>2 DEF Kinds
    <3>2. ~Expired(0, now)
      BY <1>0 DEF Expired
    <3> QED BY <1>0, <1>3, <3>1, <3>2 DEF CleanTable, CleaningBehind
  <2>2. CASE faulty' = TRUE
    BY <1>0, <1>3, <2>2 DEF CleanTable, CleaningBehind
  <2> QED BY <1>3, <2>1, <2>2 DEF CleanTable
<1>4. CASE CleanCache
  BY <1>0, <1>4 DEF CleanCache, CleaningBehind, Idle
<1>5. ASSUME NEW d \in Devices, Subscribe(d) \/ Receive(d) \/ Leave(d) PROVE CleaningBehind'
  <2>1. UNCHANGED <<now, cleaning, table, faulty>>
    BY <1>5 DEF Subscribe, Receive, Leave
  <2> QED BY <2>1 DEF CleaningBehind
<1>6. CASE Tick
  BY <1>0, <1>6 DEF Tick, CleaningBehind
<1>7. CASE Restart
  BY <1>0, <1>7 DEF Restart, CleaningBehind, Idle
<1>8. CASE UNCHANGED vars
  BY <1>8 DEF vars, CleaningBehind
<1>9. ASSUME NEW g \in Groups, ClearGroup(g) PROVE CleaningBehind'
  <2>1. "mute" \in Kinds /\ "mute" \notin Cleared
    BY DEF Kinds, Cleared
  <2>2. /\ UNCHANGED <<now, cleaning, faulty>>
        /\ \A u \in Users, t \in Targets : table'.rows["mute"][u][t] = table.rows["mute"][u][t]
    BY <1>9, <2>1, ClearedRows
  <2> QED BY <2>2 DEF CleaningBehind
<1> QED BY <1>1, <1>2, <1>3, <1>4, <1>5, <1>6, <1>7, <1>8, <1>9, RequestsSave DEF Next

\* Every step keeps table and cache as close as a restart needs them.
LEMMA AgreedKept ==
  ASSUME TypeOK, CleaningBehind, AllAgreed, ReadStored, [Next]_vars
  PROVE  AllAgreed' /\ ReadStored'
<1>0. now \in Nat /\ cleaning \in Nat /\ cleaning <= now
  BY DEF TypeOK, CleaningBehind
<1>1. ASSUME NEW k \in Kinds, NEW u \in Users, NEW ts \in SUBSET Targets, NEW stored \in SUBSET Targets,
             NEW v \in Value, Handled(k, u, ts, stored, v)
      PROVE  AllAgreed' /\ ReadStored'
  <2>1. Save(k, u, ts, stored, v)
    BY <1>1 DEF Handled
  <2>2. SaveEffect(k, u, ts, stored, v)
    BY <2>1, SavedRows
  <2>3. ASSUME NEW l \in Kinds, NEW w \in Users, NEW t \in Targets, Known(w, t), <<l, w, t>> \notin cut'
        PROVE  Agreed(l, w, t)'
    <3>1. table'.rows[l][w][t] = IF l = k /\ w = u /\ t \in stored THEN v ELSE table.rows[l][w][t]
      BY <2>2 DEF SaveEffect
    <3>2. CASE /\ cache'.rows[l][w][t] = IF l = k /\ w = u /\ t \in ts THEN v ELSE cache.rows[l][w][t]
               /\ cut' = cut \ ({k} \X {u} \X (ts \cap stored))
      <4>1. CASE l = k /\ w = u /\ t \in ts \cap stored
        BY <3>1, <3>2, <4>1 DEF Agreed
      <4>2. CASE ~(l = k /\ w = u /\ t \in ts \cap stored)
        <5>1. <<l, w, t>> \notin cut
          BY <2>3, <3>2, <4>2
        <5>2. Agreed(l, w, t)
          BY <2>3, <5>1 DEF AllAgreed
        <5>3. ~(l = k /\ w = u /\ (t \in ts \/ t \in stored))
          \* A contact is blocked in both or in neither.
          BY <1>1, <4>2, <5>2 DEF Handled, Agreed, Blocked
        <5> QED BY <2>2, <3>1, <3>2, <5>2, <5>3 DEF SaveEffect, Agreed
      <4> QED BY <4>1, <4>2
    <3>3. CASE cache' = cache /\ cut' = cut \cup ({k} \X {u} \X (ts \cup stored))
      <4>1. <<l, w, t>> \notin cut /\ ~(l = k /\ w = u /\ t \in stored)
        BY <2>3, <3>3
      <4> QED BY <2>2, <2>3, <3>1, <3>3, <4>1 DEF SaveEffect, AllAgreed, Agreed
    <3> QED BY <2>2, <3>2, <3>3 DEF SaveEffect
  <2>4. ASSUME NEW w \in Users, NEW t \in Targets, Known(w, t)
        PROVE  Stored(w, t)'
    <3>1. table'.rows["read"][w][t] = IF "read" = k /\ w = u /\ t \in stored THEN v
                                      ELSE table.rows["read"][w][t]
      BY <2>2 DEF SaveEffect, Kinds
    <3>2. \/ cache'.rows["read"][w][t] = IF "read" = k /\ w = u /\ t \in ts THEN v
                                         ELSE cache.rows["read"][w][t]
          \/ cache' = cache
      BY ZenonT(30), <2>2 DEF SaveEffect, Kinds
    <3>3. k = "read" => ts = stored /\ \A x \in ts : cache.rows["read"][u][x] < v
      BY <1>1 DEF Handled
    <3>4. Stored(w, t)
      BY <2>4 DEF ReadStored
    <3>5. v \in Nat /\ cache.rows["read"][w][t] \in Nat
      BY RowNumbers, SettingsAssumption DEF Value, Kinds
    <3>6. ~("read" = k /\ w = u /\ t \in stored) /\ <<w, t>> \in wiped => <<w, t>> \in wiped'
      BY <2>2 DEF SaveEffect
    <3> QED BY <3>1, <3>2, <3>3, <3>4, <3>5, <3>6 DEF Stored
  <2>5. \A w \in Users, t \in Targets : Known(w, t)' <=> Known(w, t)
    BY <2>2 DEF SaveEffect, Known
  <2> QED BY <2>3, <2>4, <2>5 DEF AllAgreed, ReadStored
<1>2. CASE (\E t \in Users \cup Others : DeleteUser(t)) \/ (\E g \in Groups : DeleteGroup(g))
  <2>1. UNCHANGED <<now, cleaning, faulty, cut, wiped>>
    BY <1>2, DeletedRows
  <2>2. ASSUME NEW k \in Kinds, NEW u \in Users, NEW t \in Targets, Known(u, t)'
        PROVE  /\ Known(u, t)
               /\ table'.rows[k][u][t] = table.rows[k][u][t]
               /\ cache'.rows[k][u][t] = cache.rows[k][u][t]
    BY <1>2, <2>2, DeletedRows DEF Known
  <2>3. AllAgreed'
    BY <2>1, <2>2 DEF AllAgreed, Agreed
  <2>4. ReadStored'
    BY <2>1, <2>2 DEF ReadStored, Stored, Kinds
  <2> QED BY <2>3, <2>4
<1>3. CASE CleanTable
  <2>1. /\ cleaning = Idle /\ cleaning' = now /\ UNCHANGED <<now, cache, cut, wiped>>
        /\ \/ table' = WithoutExpired(table, now) /\ faulty' = faulty
           \/ faulty' = TRUE /\ table' = table
    BY <1>3 DEF CleanTable
  <2>2. CASE table' = table
    <3>1. \A u \in Users, t \in Targets : Known(u, t)' <=> Known(u, t)
      BY <2>1, <2>2 DEF Known
    <3> QED BY <2>1, <2>2, <3>1 DEF AllAgreed, Agreed, ReadStored, Stored
  <2>3. CASE table' = WithoutExpired(table, now) /\ faulty' = faulty
    <3>1. /\ table'.alive = table.alive
          /\ \A k \in Kinds, u \in Users, t \in Targets :
               table'.rows[k][u][t] = IF k = "mute" /\ Expired(table.rows[k][u][t], now) THEN 0
                                      ELSE table.rows[k][u][t]
      <4>1. table \in Store
        BY DEF TypeOK
      <4>2. /\ WithoutExpired(table, now).alive = table.alive
            /\ \A k \in Kinds, u \in Users, t \in Targets :
                 WithoutExpired(table, now).rows[k][u][t] =
                     IF k = "mute" /\ Expired(table.rows[k][u][t], now) THEN 0 ELSE table.rows[k][u][t]
        BY <1>0, <4>1, WithoutExpiredRows
      <4> QED BY <2>3, <4>2
    <3>2. \A u \in Users, t \in Targets : Known(u, t)' <=> Known(u, t)
      BY <2>1, <3>1 DEF Known
    <3>3. ASSUME NEW k \in Kinds, NEW u \in Users, NEW t \in Targets, Agreed(k, u, t)
          PROVE  Agreed(k, u, t)'
      <4>1. CASE k = "mute" /\ Expired(table.rows[k][u][t], now)
        <5>1. table'.rows[k][u][t] = 0
          BY <3>1, <4>1
        <5>2. now # Idle
          BY <1>0 DEF TypeOK, Idle
        <5> QED BY <2>1, <3>3, <4>1, <5>1, <5>2 DEF Agreed
      <4>2. CASE ~(k = "mute" /\ Expired(table.rows[k][u][t], now))
        BY <2>1, <3>1, <3>3, <4>2 DEF Agreed
      <4> QED BY <4>1, <4>2
    <3>4. ReadStored'
      BY <2>1, <3>1, <3>2 DEF ReadStored, Stored, Kinds
    <3> QED BY <2>1, <3>2, <3>3, <3>4 DEF AllAgreed
  <2> QED BY <2>1, <2>2, <2>3
<1>4. CASE CleanCache
  <2>1. /\ cleaning # Idle /\ cleaning' = Idle /\ UNCHANGED <<now, table, faulty, cut, wiped>>
        /\ cache' = WithoutExpired(cache, cleaning)
    BY <1>4 DEF CleanCache
  <2>2. /\ cache'.alive = cache.alive
        /\ \A k \in Kinds, u \in Users, t \in Targets :
             cache'.rows[k][u][t] = IF k = "mute" /\ Expired(cache.rows[k][u][t], cleaning) THEN 0
                                    ELSE cache.rows[k][u][t]
    <3>1. cache \in Store
      BY DEF TypeOK
    <3>2. /\ WithoutExpired(cache, cleaning).alive = cache.alive
          /\ \A k \in Kinds, u \in Users, t \in Targets :
               WithoutExpired(cache, cleaning).rows[k][u][t] =
                   IF k = "mute" /\ Expired(cache.rows[k][u][t], cleaning) THEN 0 ELSE cache.rows[k][u][t]
      BY <1>0, <3>1, WithoutExpiredRows
    <3> QED BY <2>1, <3>2
  <2>3. \A u \in Users, t \in Targets : Known(u, t)' <=> Known(u, t)
    BY <2>1, <2>2 DEF Known
  <2>4. ASSUME NEW k \in Kinds, NEW u \in Users, NEW t \in Targets, Agreed(k, u, t)
        PROVE  Agreed(k, u, t)'
    <3>1. CASE k = "mute" /\ Expired(cache.rows[k][u][t], cleaning)
      <4>1. cache'.rows[k][u][t] = 0 /\ table'.rows[k][u][t] = table.rows[k][u][t]
        BY <2>1, <2>2, <3>1
      <4>2. CASE cache.rows[k][u][t] = table.rows[k][u][t]
        \* The table would have lost it, but for a fault.
        <5>1. faulty
          BY <2>1, <3>1, <4>2 DEF CleaningBehind
        <5>2. Expired(table.rows[k][u][t], now)
          BY <1>0, <3>1, <4>2, RowNumbers DEF Expired
        <5> QED BY <2>1, <3>1, <4>1, <5>1, <5>2 DEF Agreed
      <4>3. CASE cache.rows[k][u][t] # table.rows[k][u][t]
        BY <2>1, <2>4, <3>1, <4>1, <4>3 DEF Agreed, Expired
      <4> QED BY <4>2, <4>3
    <3>2. CASE ~(k = "mute" /\ Expired(cache.rows[k][u][t], cleaning))
      BY <2>1, <2>2, <2>4, <3>2 DEF Agreed
    <3> QED BY <3>1, <3>2
  <2>5. ReadStored'
    BY <2>1, <2>2, <2>3 DEF ReadStored, Stored, Kinds
  <2> QED BY <2>1, <2>3, <2>4, <2>5 DEF AllAgreed
<1>5. ASSUME NEW d \in Devices, Subscribe(d) \/ Receive(d) \/ Leave(d) PROVE AllAgreed' /\ ReadStored'
  <2>1. UNCHANGED <<now, table, cache, cleaning, cut, wiped, faulty>>
    BY <1>5 DEF Subscribe, Receive, Leave
  <2> QED BY <2>1 DEF AllAgreed, Agreed, Known, ReadStored, Stored
<1>6. CASE Tick
  <2>1. now' = now + 1 /\ UNCHANGED <<table, cache, cleaning, cut, wiped, faulty>>
    BY <1>6 DEF Tick
  <2>2. \A k \in Kinds, u \in Users, t \in Targets :
           Expired(table.rows[k][u][t], now) => Expired(table.rows[k][u][t], now')
    BY <1>0, <2>1, RowNumbers DEF Expired
  <2> QED BY <2>1, <2>2 DEF AllAgreed, Agreed, Known, ReadStored, Stored
<1>7. CASE Restart
  <2>1. cache' = table /\ table' = table
    BY <1>7 DEF Restart
  <2>2. \A u \in Users, t \in Targets : table.rows["read"][u][t] >= table.rows["read"][u][t]
    BY RowNumbers DEF Kinds
  <2> QED BY <2>1, <2>2 DEF AllAgreed, Agreed, ReadStored, Stored
<1>8. CASE UNCHANGED vars
  BY <1>8 DEF vars, AllAgreed, Agreed, Known, ReadStored, Stored
<1>9. ASSUME NEW g \in Groups, ClearGroup(g) PROVE AllAgreed' /\ ReadStored'
  <2>1. /\ UNCHANGED <<now, cleaning, faulty>> /\ wiped' = wiped \cup (Users \X {g})
        /\ \A u \in Users, t \in Targets : Known(u, t)' <=> Known(u, t)
        /\ \A k \in Kinds, u \in Users, t \in Targets :
             table'.rows[k][u][t] = IF k \in Cleared /\ t = g THEN 0 ELSE table.rows[k][u][t]
    BY <1>9, ClearedRows DEF Known
  <2>2. \/ /\ \A k \in Kinds, u \in Users, t \in Targets :
                 cache'.rows[k][u][t] = IF k \in Cleared /\ t = g THEN 0 ELSE cache.rows[k][u][t]
           /\ cut' = cut \ (Cleared \X Users \X {g})
        \/ cache' = cache /\ cut' = cut \cup (Cleared \X Users \X {g})
    BY <1>9, ClearedRows
  <2>3. ASSUME NEW k \in Kinds, NEW u \in Users, NEW t \in Targets, Known(u, t), <<k, u, t>> \notin cut'
        PROVE  Agreed(k, u, t)'
    <3>1. CASE k \in Cleared /\ t = g
      BY <2>1, <2>2, <2>3, <3>1 DEF Agreed
    <3>2. CASE ~(k \in Cleared /\ t = g)
      <4>1. table'.rows[k][u][t] = table.rows[k][u][t] /\ cache'.rows[k][u][t] = cache.rows[k][u][t]
        BY <2>1, <2>2, <3>2
      <4>2. <<k, u, t>> \notin cut
        BY <2>2, <2>3, <3>2
      <4> QED BY <2>1, <2>3, <4>1, <4>2 DEF AllAgreed, Agreed
    <3> QED BY <3>1, <3>2
  <2>4. ASSUME NEW u \in Users, NEW t \in Targets, Known(u, t)
        PROVE  Stored(u, t)'
    <3>1. "read" \in Kinds /\ "read" \in Cleared
      BY DEF Kinds, Cleared
    <3>2. CASE t = g
      BY <2>1, <3>1, <3>2 DEF Stored
    <3>3. CASE t # g
      <4>1. table'.rows["read"][u][t] = table.rows["read"][u][t]
        BY <2>1, <3>1, <3>3
      <4>2. cache'.rows["read"][u][t] = cache.rows["read"][u][t]
        BY <2>2, <3>1, <3>3
      <4> QED BY <2>1, <2>4, <4>1, <4>2 DEF ReadStored, Stored
    <3> QED BY <3>2, <3>3
  <2> QED BY <2>1, <2>3, <2>4 DEF AllAgreed, ReadStored
<1> QED BY <1>1, <1>2, <1>3, <1>4, <1>5, <1>6, <1>7, <1>8, <1>9, RequestsSave DEF Next

----------------------------------------------------------------------------
\* The devices.

\* Nothing is on the way in an empty queue.
LEMMA LatestOfNone ==
  ASSUME NEW k, NEW t, NEW shown, NEW v
  PROVE  Latest(<<>>, k, t, shown, v) <=> shown = v
<1>1. DOMAIN <<>> = {}
  OBVIOUS
<1> QED BY <1>1 DEF Latest

\* A change that joins the queue is the last about its own targets only.
LEMMA LatestAppended ==
  ASSUME NEW box \in Seq(Change), NEW c \in Change, NEW k, NEW t, NEW shown
  PROVE  /\ About(c, k, t) => Latest(Append(box, c), k, t, shown, c.value)
         /\ \A v : ~About(c, k, t) /\ Latest(box, k, t, shown, v) => Latest(Append(box, c), k, t, shown, v)
<1> DEFINE n == Len(box)
           new == Append(box, c)
<1>1. /\ n \in Nat /\ DOMAIN box = 1..n /\ DOMAIN new = 1..(n + 1)
      /\ new[n + 1] = c
      /\ \A i \in 1..n : new[i] = box[i]
  <2>1. /\ new \in Seq(Change) /\ Len(new) = n + 1 /\ new[n + 1] = c
        /\ \A i \in 1..n : new[i] = box[i]
    BY AppendProperties
  <2> QED BY <2>1, LenProperties
<1> HIDE DEF n, new
<1>2. ASSUME About(c, k, t) PROVE Latest(new, k, t, shown, c.value)
  <2>1. n + 1 \in DOMAIN new /\ \A j \in DOMAIN new : ~(j > n + 1)
    BY <1>1
  <2> QED BY <1>1, <1>2, <2>1 DEF Latest
<1>3. ASSUME NEW v, ~About(c, k, t), Latest(box, k, t, shown, v)
      PROVE  Latest(new, k, t, shown, v)
  <2>1. CASE \E i \in DOMAIN box :
                /\ About(box[i], k, t) /\ box[i].value = v
                /\ \A j \in DOMAIN box : j > i => ~About(box[j], k, t)
    <3>1. PICK i \in 1..n : /\ About(box[i], k, t) /\ box[i].value = v
                            /\ \A j \in 1..n : j > i => ~About(box[j], k, t)
      BY <1>1, <2>1
    <3>2. i \in DOMAIN new /\ new[i] = box[i]
      BY <1>1, <3>1
    <3>3. \A j \in DOMAIN new : j > i => ~About(new[j], k, t)
      <4> SUFFICES ASSUME NEW j \in 1..(n + 1), j > i PROVE ~About(new[j], k, t)
        BY <1>1
      <4>1. CASE j = n + 1
        BY <1>1, <1>3, <4>1
      <4>2. CASE j # n + 1
        BY <1>1, <3>1, <4>2
      <4> QED BY <4>1, <4>2
    <3> QED BY <3>1, <3>2, <3>3 DEF Latest
  <2>2. CASE (\A i \in DOMAIN box : ~About(box[i], k, t)) /\ shown = v
    <3>1. \A i \in 1..(n + 1) : i \in 1..n \/ i = n + 1
      BY <1>1
    <3> QED BY <1>1, <1>3, <2>2, <3>1 DEF Latest
  <2> QED BY <1>3, <2>1, <2>2 DEF Latest
<1> QED BY <1>2, <1>3 DEF new

\* A device that reads a change will still show the same in the end.
LEMMA LatestRead ==
  ASSUME NEW box \in Seq(Change), box # <<>>, NEW k, NEW t, NEW shown, NEW v,
         Latest(box, k, t, shown, v)
  PROVE  Latest(Tail(box), k, t, IF About(Head(box), k, t) THEN Head(box).value ELSE shown, v)
<1> DEFINE n == Len(box)
           rest == Tail(box)
<1>1. /\ n \in Nat /\ n > 0 /\ DOMAIN box = 1..n /\ DOMAIN rest = 1..(n - 1)
      /\ Head(box) = box[1]
      /\ \A i \in 1..(n - 1) : rest[i] = box[i + 1]
  <2>1. n \in Nat /\ n > 0 /\ DOMAIN box = 1..n
    BY EmptySeq, LenProperties
  <2>2. /\ rest \in Seq(Change) /\ Len(rest) = n - 1
        /\ \A i \in 1..Len(rest) : rest[i] = box[i + 1]
    BY HeadTailProperties
  <2>3. DOMAIN rest = 1..(n - 1)
    BY <2>2, LenProperties
  <2> QED BY <2>1, <2>2, <2>3
<1> HIDE DEF n, rest
<1>2. CASE \E i \in DOMAIN box :
              /\ About(box[i], k, t) /\ box[i].value = v
              /\ \A j \in DOMAIN box : j > i => ~About(box[j], k, t)
  <2>1. PICK i \in 1..n : /\ About(box[i], k, t) /\ box[i].value = v
                          /\ \A j \in 1..n : j > i => ~About(box[j], k, t)
    BY <1>1, <1>2
  <2>2. \A j \in 1..(n - 1) : j + 1 \in 1..n /\ j + 1 > 1
    BY <1>1
  <2>3. CASE i = 1
    <3>1. \A j \in 1..(n - 1) : ~About(rest[j], k, t)
      BY <1>1, <2>1, <2>2, <2>3
    <3> QED BY <1>1, <2>1, <2>3, <3>1 DEF Latest, rest
  <2>4. CASE i # 1
    <3>1. i - 1 \in 1..(n - 1) /\ rest[i - 1] = box[i]
      BY <1>1, <2>1, <2>4
    <3>2. \A j \in 1..(n - 1) : j > i - 1 => ~About(rest[j], k, t)
      BY <1>1, <2>1, <2>2
    <3> QED BY <1>1, <2>1, <3>1, <3>2 DEF Latest, rest
  <2> QED BY <2>3, <2>4
<1>3. CASE (\A i \in DOMAIN box : ~About(box[i], k, t)) /\ shown = v
  <2>1. ~About(Head(box), k, t) /\ \A j \in 1..(n - 1) : ~About(rest[j], k, t)
    BY SMTT(30), <1>1, <1>3
  <2> QED BY <1>1, <1>3, <2>1 DEF Latest, rest
<1> QED BY <1>2, <1>3 DEF Latest

\* A setting that stays the same from now to later does so to a device.
LEMMA UnexpiredLater ==
  ASSUME NEW k, NEW v \in Nat, NEW w \in Nat, now \in Nat, now' \in Nat, now <= now',
         Unexpired(k, v) = Unexpired(k, w)
  PROVE  Unexpired(k, v)' = Unexpired(k, w)'
  BY DEF Unexpired, Expired

\* A device follows on as long as neither it nor the server changes.
LEMMA FollowingStays ==
  ASSUME NEW d \in Devices, NEW k \in Shown, NEW t \in Targets, Following(d, k, t),
         mirror'[d].inbox = mirror[d].inbox, mirror'[d].view = mirror[d].view, now' = now,
         cache'.rows[k][UserOf[d]][t] = cache.rows[k][UserOf[d]][t]
  PROVE  Following(d, k, t)'
<1>1. \A v : Unexpired(k, v)' = Unexpired(k, v)
  BY DEF Unexpired
<1>2. Unexpired(k, cache.rows[k][UserOf[d]][t])' = Unexpired(k, cache.rows[k][UserOf[d]][t])
  BY DEF Unexpired
<1> QED BY <1>1, <1>2 DEF Following

\* Every step keeps what the devices will show.
LEMMA MirrorKept ==
  ASSUME TypeOK, TypeOK', CleaningBehind, MirrorFollows, [Next]_vars
  PROVE  MirrorFollows'
<1>0. now \in Nat /\ cleaning \in Nat /\ cleaning <= now /\ Value \subseteq Nat
  BY SettingsAssumption DEF TypeOK, CleaningBehind, Value
<1>k. \A k \in Shown : k \in Kinds /\ k # "contact"
  BY DEF Shown, Kinds
<1>d. \A d \in Devices : UserOf[d] \in Users
  BY SettingsAssumption
<1>1. ASSUME NEW k \in Kinds, NEW u \in Users, NEW ts \in SUBSET Targets, NEW stored \in SUBSET Targets,
             NEW v \in Value, Handled(k, u, ts, stored, v)
      PROVE  MirrorFollows'
  <2>1. Save(k, u, ts, stored, v) /\ SaveEffect(k, u, ts, stored, v)
    BY <1>1, SavedRows DEF Handled
  <2>2. cache'.alive = cache.alive /\ now' = now
    BY <2>1 DEF SaveEffect
  <2>3. CASE cache' = cache /\ mirror' = mirror
    BY <2>2, <2>3, FollowingStays DEF MirrorFollows
  <2>4. CASE /\ \A l \in Kinds, w \in Users, t \in Targets :
                  cache'.rows[l][w][t] = IF l = k /\ w = u /\ t \in ts THEN v ELSE cache.rows[l][w][t]
             /\ IF Announced(k) THEN Broadcast(u, k, ts, v) ELSE UNCHANGED mirror
    <3> SUFFICES ASSUME NEW d \in Devices, NEW l \in Shown, NEW t \in Targets,
                        mirror'[d].on, t \in cache.alive, <<l, t>> \notin mirror'[d].untold
                 PROVE  Following(d, l, t)'
      BY <2>2 DEF MirrorFollows
    <3>1. CASE ~Announced(k)
      <4>1. mirror' = mirror /\ l # k
        BY <2>4, <3>1 DEF Announced
      <4>2. cache'.rows[l][UserOf[d]][t] = cache.rows[l][UserOf[d]][t]
        BY <1>k, <1>d, <2>4, <4>1
      <4> QED BY <2>2, <4>1, <4>2, FollowingStays DEF MirrorFollows
    <3>2. CASE Announced(k)
      <4> DEFINE c == [kind |-> k, on |-> ts, value |-> v]
      <4>1. c \in Change /\ k \in Shown
        BY <3>2 DEF Change, Announced
      <4>2. /\ mirror'[d].on <=> mirror[d].on
            /\ IF mirror[d].on /\ UserOf[d] = u
               THEN /\ mirror'[d].inbox = Append(mirror[d].inbox, c) /\ mirror'[d].view = mirror[d].view
                    /\ mirror'[d].untold = mirror[d].untold \ ({k} \X ts)
               ELSE mirror'[d] = mirror[d]
        <5>1. Broadcast(u, k, ts, v)
          BY <2>4, <3>2
        <5>2. \A e \in Devices : mirror'[e].on <=> mirror[e].on
          BY ZenonT(30), <4>1, <5>1, BroadcastTypes
        <5>3. \A e \in Devices :
                 IF mirror[e].on /\ UserOf[e] = u
                 THEN /\ mirror'[e].inbox = Append(mirror[e].inbox, c)
                      /\ mirror'[e].view = mirror[e].view
                      /\ mirror'[e].untold = mirror[e].untold \ ({k} \X ts)
                 ELSE mirror'[e] = mirror[e]
          BY ZenonT(30), <4>1, <5>1, BroadcastTypes
        <5> QED BY <5>2, <5>3
      <4>3. (UserOf[d] = u /\ l = k /\ t \in ts) \/ Following(d, l, t)
        \* What is announced is no longer untold.
        <5>1. <<l, t>> \notin mirror[d].untold \/ (UserOf[d] = u /\ l = k /\ t \in ts)
          BY <4>2
        <5> QED BY <4>2, <5>1 DEF MirrorFollows
      <4>4. About(c, l, t) <=> l = k /\ t \in ts
        BY DEF About
      <4>5. c.value = v
        OBVIOUS
      <4> HIDE DEF c
      <4>6. CASE UserOf[d] # u
        BY <1>k, <1>d, <2>2, <2>4, <4>2, <4>3, <4>6, FollowingStays
      <4>7. CASE UserOf[d] = u
        <5>1. mirror'[d].inbox = Append(mirror[d].inbox, c) /\ mirror'[d].view = mirror[d].view
          BY <4>2, <4>7
        <5>2. mirror[d].inbox \in Seq(Change)
          BY MirrorOf
        <5>3. CASE l = k /\ t \in ts
          <6>1. Latest(Append(mirror[d].inbox, c), l, t, mirror[d].view[l][t], v)
            BY <4>1, <4>4, <4>5, <5>2, <5>3, LatestAppended
          <6>2. cache'.rows[l][UserOf[d]][t] = v
            BY <2>4, <4>7, <5>3
          <6> QED BY <5>1, <6>1, <6>2 DEF Following
        <5>4. CASE ~(l = k /\ t \in ts)
          <6>1. PICK w \in Value : /\ Latest(mirror[d].inbox, l, t, mirror[d].view[l][t], w)
                                   /\ Unexpired(l, w) = Unexpired(l, cache.rows[l][UserOf[d]][t])
            BY <4>3, <5>4 DEF Following
          <6>2. Latest(Append(mirror[d].inbox, c), l, t, mirror[d].view[l][t], w)
            BY <4>1, <4>4, <5>2, <5>4, <6>1, LatestAppended
          <6>3. cache'.rows[l][UserOf[d]][t] = cache.rows[l][UserOf[d]][t]
            BY <1>k, <1>d, <2>4, <5>4, <4>7
          <6>4. Unexpired(l, w)' = Unexpired(l, cache.rows[l][UserOf[d]][t])'
            BY <2>2, <6>1, <6>3 DEF Unexpired
          <6> QED BY <5>1, <6>2, <6>4 DEF Following
        <5> QED BY <5>3, <5>4
      <4> QED BY <4>6, <4>7
    <3> QED BY <3>1, <3>2
  <2> QED BY <2>1, <2>3, <2>4 DEF SaveEffect
<1>2. CASE (\E t \in Users \cup Others : DeleteUser(t)) \/ (\E g \in Groups : DeleteGroup(g))
  <2>1. /\ cache'.alive \subseteq cache.alive /\ now' = now
        /\ \A k \in Kinds, u \in Users, t \in Targets :
             t \in cache'.alive => cache'.rows[k][u][t] = cache.rows[k][u][t]
    BY <1>2, DeletedRows
  <2>2. \A d \in Devices : mirror'[d] = mirror[d] \/ mirror'[d] = Off
    BY <1>2 DEF DeleteUser, DeleteGroup, TypeOK
  <2>3. Off.on = FALSE
    BY DEF Off
  <2> QED BY <1>k, <1>d, <2>1, <2>2, <2>3, FollowingStays DEF MirrorFollows
<1>4. CASE CleanCache
  <2>1. UNCHANGED <<now, mirror>> /\ cache' = WithoutExpired(cache, cleaning) /\ cache \in Store
    BY <1>4 DEF CleanCache, TypeOK
  <2>2. /\ WithoutExpired(cache, cleaning).alive = cache.alive
        /\ \A k \in Kinds, u \in Users, t \in Targets :
             WithoutExpired(cache, cleaning).rows[k][u][t] =
                 IF k = "mute" /\ Expired(cache.rows[k][u][t], cleaning) THEN 0 ELSE cache.rows[k][u][t]
    BY <1>0, <2>1, WithoutExpiredRows
  <2> SUFFICES ASSUME NEW d \in Devices, NEW k \in Shown, NEW t \in Targets,
                      mirror[d].on, t \in cache.alive, <<k, t>> \notin mirror[d].untold
               PROVE  Following(d, k, t)'
    BY <2>1, <2>2 DEF MirrorFollows
  <2> DEFINE old == cache.rows[k][UserOf[d]][t]
             new == cache'.rows[k][UserOf[d]][t]
  <2>3. old \in Nat /\ new = IF k = "mute" /\ Expired(old, cleaning) THEN 0 ELSE old
    BY <1>k, <1>d, <2>1, <2>2, RowNumbers
  <2>4. Unexpired(k, new) = Unexpired(k, old)
    \* What had expired when clean_mute read the clock still has.
    BY <1>0, <2>3 DEF Unexpired, Expired
  <2>5. PICK v \in Value : /\ Latest(mirror[d].inbox, k, t, mirror[d].view[k][t], v)
                           /\ Unexpired(k, v) = Unexpired(k, old)
    BY DEF MirrorFollows, Following
  <2>6. Unexpired(k, v)' = Unexpired(k, v) /\ Unexpired(k, new) = Unexpired(k, cache.rows[k][UserOf[d]][t])'
    BY <2>1 DEF Unexpired
  <2>7. Unexpired(k, v)' = Unexpired(k, cache.rows[k][UserOf[d]][t])'
    BY <2>4, <2>5, <2>6
  <2> QED BY <2>1, <2>5, <2>7 DEF Following
<1>5. ASSUME NEW d \in Devices, Subscribe(d) PROVE MirrorFollows'
  <2> SUFFICES ASSUME NEW e \in Devices, NEW k \in Shown, NEW t \in Targets,
                      mirror'[e].on, t \in cache'.alive, <<k, t>> \notin mirror'[e].untold
               PROVE  Following(e, k, t)'
    BY DEF MirrorFollows
  <2>1. /\ UNCHANGED <<now, cache>>
        /\ mirror' = [mirror EXCEPT ![d] = [on |-> TRUE, view |-> UserSettings(UserOf[d]),
                                         inbox |-> <<>>, untold |-> {}]]
    BY <1>5 DEF Subscribe
  <2>2. CASE e # d
    <3>1. mirror'[e] = mirror[e]
      BY <2>1, <2>2 DEF TypeOK
    <3> QED BY <2>1, <3>1, FollowingStays DEF MirrorFollows
  <2>3. CASE e = d
    <3> DEFINE held == cache.rows[k][UserOf[d]][t]
               v == Unexpired(k, held)
    <3>1. mirror'[d].inbox = <<>> /\ mirror'[d].view = UserSettings(UserOf[d])
      BY <2>1 DEF TypeOK
    <3>2. mirror'[d].view[k][t] = v
      BY <1>d, <3>1, UserSettingsTypes
    <3>3. held \in Value /\ v \in Value
      <4>1. cache.rows \in [Kinds -> Rows]
        BY DEF TypeOK, Store
      <4>2. held \in Value
        BY <1>k, <1>d, <4>1 DEF Rows
      <4>3. 0 \in Value
        BY SettingsAssumption DEF Value
      <4> QED BY <4>2, <4>3 DEF Unexpired
    <3>4. Unexpired(k, v) = Unexpired(k, held)
      BY <1>0, <3>3 DEF Unexpired, Expired
    <3>5. PICK w \in Value : w = v
      BY <3>3
    <3>6. Unexpired(k, w)' = Unexpired(k, cache.rows[k][UserOf[d]][t])'
      BY <2>1, <3>4, <3>5 DEF Unexpired
    <3>7. Latest(mirror'[d].inbox, k, t, mirror'[d].view[k][t], w)
      BY <3>1, <3>2, <3>5, LatestOfNone
    <3> QED BY <2>3, <3>6, <3>7 DEF Following
  <2> QED BY <2>2, <2>3
<1>6. ASSUME NEW d \in Devices, Receive(d) PROVE MirrorFollows'
  <2> SUFFICES ASSUME NEW e \in Devices, NEW k \in Shown, NEW t \in Targets,
                      mirror'[e].on, t \in cache'.alive, <<k, t>> \notin mirror'[e].untold
               PROVE  Following(e, k, t)'
    BY DEF MirrorFollows
  <2> DEFINE c == Head(mirror[d].inbox)
             read == [x \in Targets |-> IF x \in c.on THEN c.value ELSE mirror[d].view[c.kind][x]]
  <2>1. /\ UNCHANGED <<now, cache>> /\ mirror[d].inbox # <<>>
        /\ mirror' = [mirror EXCEPT ![d] = [mirror[d] EXCEPT !.inbox = Tail(@),
                                                             !.view = [@ EXCEPT ![c.kind] = read]]]
    BY <1>6 DEF Receive, TypeOK, Mirror
  <2>2. CASE e # d
    <3>1. mirror'[e] = mirror[e]
      BY <2>1, <2>2 DEF TypeOK
    <3> QED BY <2>1, <3>1, FollowingStays DEF MirrorFollows
  <2>3. CASE e = d
    <3>1. /\ mirror[d] \in Mirror
          /\ c \in Change
      BY <2>1, HeadTailProperties DEF TypeOK, Mirror
    <3>2. /\ mirror'[d].inbox = Tail(mirror[d].inbox)
          /\ mirror'[d].view = [mirror[d].view EXCEPT ![c.kind] = read]
          /\ mirror'[d].on = mirror[d].on /\ mirror'[d].untold = mirror[d].untold
      BY <2>1, <3>1 DEF TypeOK, Mirror
    <3>3. mirror'[d].view[k][t] = IF About(c, k, t) THEN c.value ELSE mirror[d].view[k][t]
      <4>1. c.kind \in Shown /\ mirror[d].view \in [Shown -> [Targets -> Value]]
        BY <3>1 DEF Change, Mirror
      <4> HIDE DEF c
      <4>2. CASE c.kind = k
        <5>1. mirror'[d].view[k] = read
          BY <3>2, <4>1, <4>2
        <5> QED BY <4>2, <5>1 DEF About
      <4>3. CASE c.kind # k
        <5>1. mirror'[d].view[k] = mirror[d].view[k]
          BY <3>2, <4>1, <4>3
        <5> QED BY <4>3, <5>1 DEF About
      <4> QED BY <4>2, <4>3
    <3>f. Following(d, k, t)
      BY <2>1, <2>3, <3>2 DEF MirrorFollows
    <3>4. PICK v \in Value : /\ Latest(mirror[d].inbox, k, t, mirror[d].view[k][t], v)
                             /\ Unexpired(k, v) = Unexpired(k, cache.rows[k][UserOf[d]][t])
      BY <3>f DEF Following
    <3>5. Latest(mirror'[d].inbox, k, t, mirror'[d].view[k][t], v)
      <4>1. mirror[d].inbox \in Seq(Change) /\ mirror[d].inbox # <<>>
        BY <2>1, <3>1 DEF Mirror
      <4>2. Latest(Tail(mirror[d].inbox), k, t,
                   IF About(Head(mirror[d].inbox), k, t) THEN Head(mirror[d].inbox).value
                   ELSE mirror[d].view[k][t], v)
        BY <3>4, <4>1, LatestRead
      <4> QED BY <3>2, <3>3, <4>2
    <3>6. Unexpired(k, v)' = Unexpired(k, cache.rows[k][UserOf[d]][t])'
      BY <2>1, <3>4 DEF Unexpired
    <3> QED BY <2>3, <3>5, <3>6 DEF Following
  <2> QED BY <2>2, <2>3
<1>7. ASSUME NEW d \in Devices, Leave(d) PROVE MirrorFollows'
  <2>1. UNCHANGED <<now, cache>> /\ \A e \in Devices : mirror'[e] = mirror[e] \/ mirror'[e] = Off
    BY <1>7 DEF Leave, TypeOK
  <2>2. Off.on = FALSE
    BY DEF Off
  <2> QED BY <2>1, <2>2, FollowingStays DEF MirrorFollows
<1>8. CASE Tick
  <2>1. now' = now + 1 /\ UNCHANGED <<cache, mirror>>
    BY <1>8 DEF Tick
  <2> SUFFICES ASSUME NEW d \in Devices, NEW k \in Shown, NEW t \in Targets,
                      mirror[d].on, t \in cache.alive, <<k, t>> \notin mirror[d].untold
               PROVE  Following(d, k, t)'
    BY <2>1 DEF MirrorFollows
  <2>2. PICK v \in Value : /\ Latest(mirror[d].inbox, k, t, mirror[d].view[k][t], v)
                           /\ Unexpired(k, v) = Unexpired(k, cache.rows[k][UserOf[d]][t])
    BY DEF MirrorFollows, Following
  <2>3. PICK w \in Nat : w = cache.rows[k][UserOf[d]][t]
    BY <1>k, <1>d, RowNumbers
  <2>4. Unexpired(k, v)' = Unexpired(k, w)'
    BY <1>0, <2>1, <2>2, <2>3, UnexpiredLater
  <2>5. Unexpired(k, v)' = Unexpired(k, cache.rows[k][UserOf[d]][t])'
    BY <2>1, <2>3, <2>4
  <2> QED BY <2>1, <2>2, <2>5 DEF Following
<1>9. CASE Restart
  <2>1. \A d \in Devices : ~mirror'[d].on
    BY <1>9 DEF Restart, Off
  <2> QED BY <2>1 DEF MirrorFollows
<1>10. CASE CleanTable \/ UNCHANGED vars
  <2>1. UNCHANGED <<now, cache, mirror>>
    BY <1>10 DEF CleanTable, vars
  <2> QED BY <2>1, FollowingStays DEF MirrorFollows
<1>11. ASSUME NEW g \in Groups, ClearGroup(g) PROVE MirrorFollows'
  <2> SUFFICES ASSUME NEW d \in Devices, NEW k \in Shown, NEW t \in Targets,
                      mirror'[d].on, t \in cache'.alive, <<k, t>> \notin mirror'[d].untold
               PROVE  Following(d, k, t)'
    BY DEF MirrorFollows
  <2>1. /\ now' = now /\ cache'.alive = cache.alive
        /\ mirror'[d].on = mirror[d].on /\ mirror'[d].inbox = mirror[d].inbox
        /\ mirror'[d].view = mirror[d].view
        /\ <<k, t>> \notin mirror[d].untold
        /\ cache'.rows[k][UserOf[d]][t] = cache.rows[k][UserOf[d]][t]
    \* What is cleared is untold to the devices that are on.
    <3>1. \/ cache' = cache /\ mirror' = mirror
          \/ /\ mirror'[d].on = mirror[d].on /\ mirror'[d].inbox = mirror[d].inbox
             /\ mirror'[d].view = mirror[d].view
             /\ mirror'[d].untold = IF mirror[d].on THEN mirror[d].untold \cup (Cleared \X {g})
                                    ELSE mirror[d].untold
             /\ cache'.rows[k][UserOf[d]][t] =
                   IF k \in Cleared /\ t = g THEN 0 ELSE cache.rows[k][UserOf[d]][t]
      <4>1. k \in Kinds /\ UserOf[d] \in Users
        BY <1>k, <1>d
      <4>2. \/ /\ \A l \in Kinds, u \in Users, x \in Targets :
                    cache'.rows[l][u][x] = IF l \in Cleared /\ x = g THEN 0 ELSE cache.rows[l][u][x]
               /\ \A e \in Devices :
                    /\ mirror'[e].on = mirror[e].on /\ mirror'[e].inbox = mirror[e].inbox
                    /\ mirror'[e].view = mirror[e].view
                    /\ mirror'[e].untold = IF mirror[e].on THEN mirror[e].untold \cup (Cleared \X {g})
                                           ELSE mirror[e].untold
            \/ cache' = cache /\ mirror' = mirror
        BY <1>11, ClearedRows, Zenon
      <4> QED BY <4>1, <4>2
    <3>2. now' = now /\ cache'.alive = cache.alive
      BY <1>11, ClearedRows
    <3> QED BY <3>1, <3>2
  <2> QED BY <2>1, FollowingStays DEF MirrorFollows
<1> QED BY <1>1, <1>2, <1>4, <1>5, <1>6, <1>7, <1>8, <1>9, <1>10, <1>11, RequestsSave DEF Next

----------------------------------------------------------------------------
\* The theorems.

\* At the start nothing is set and no device has a stream.
LEMMA Initially == Init => SettingsIInv
<1> SUFFICES ASSUME Init PROVE SettingsIInv
  OBVIOUS
<1>1. 0 \in Value /\ Targets \in SUBSET Targets
  BY SettingsAssumption DEF Value
<1>2. table \in Store /\ cache \in Store
  BY <1>1 DEF Init, Store, Rows, Nothing
<1>3. TypeOK
  <2>1. mirror \in [Devices -> Mirror]
    BY OffTypes DEF Init
  <2>2. used \in [requests : Nat, troubles : Nat] /\ now \in Nat \ {0}
    BY DEF Init
  <2> QED BY <1>2, <2>1, <2>2 DEF Init, TypeOK, Idle
<1>4. CleaningBehind
  BY DEF Init, CleaningBehind, Idle
<1>5. AllAgreed /\ ReadStored
  BY <1>3, RowNumbers DEF Init, AllAgreed, Agreed, ReadStored, Stored, Kinds
<1>6. MirrorFollows
  BY DEF Init, MirrorFollows, Off
<1> QED BY <1>3, <1>4, <1>5, <1>6 DEF SettingsIInv

\* The invariant holds throughout.
LEMMA SettingsInvariance == Spec => []SettingsIInv
<1>1. SettingsIInv /\ [Next]_vars => SettingsIInv'
  BY TypesKept, CleaningKept, AgreedKept, MirrorKept DEF SettingsIInv
<1> QED BY Initially, <1>1, PTL DEF Spec

\* A restart changes no setting: table and cache agree on every setting that
\* no dropped request touched, but for the mutes that clean_mute has on hand or
\* SQLite failed to delete.
THEOREM SettingsSurviveRestart == Spec => []CacheAgrees
<1>1. SettingsIInv => CacheAgrees
  BY DEF SettingsIInv, AllAgreed, Agreed, CacheAgrees
<1> QED BY SettingsInvariance, <1>1, PTL

\* A device that has read its stream to the end shows what the server holds,
\* whatever the other devices change and whenever it subscribed, but for what
\* went while it was on because a group was cleared.
THEOREM DevicesFollow == Spec => []MirrorAgrees
<1>1. SettingsIInv => MirrorAgrees
  <2> SUFFICES ASSUME SettingsIInv, NEW d \in Devices, NEW k \in Shown, NEW t \in Targets,
                      mirror[d].on, mirror[d].inbox = <<>>, t \in cache.alive,
                      <<k, t>> \notin mirror[d].untold
               PROVE  Unexpired(k, mirror[d].view[k][t]) = Unexpired(k, cache.rows[k][UserOf[d]][t])
    BY DEF MirrorAgrees
  <2> QED BY LatestOfNone DEF SettingsIInv, MirrorFollows, Following
<1> QED BY SettingsInvariance, <1>1, PTL

\* A step writes no older read index, unless it takes the index away.
LEMMA ReadKept ==
  ASSUME TypeOK, ReadStored, Next,
         NEW u \in Users, NEW t \in Targets, {u, t} \subseteq cache.alive \cap cache'.alive
  PROVE  \/ cache'.rows["read"][u][t] >= cache.rows["read"][u][t]
         \/ cache'.rows["read"][u][t] = 0 /\ <<u, t>> \in wiped'
<1>0. "read" \in Kinds /\ cache.rows["read"][u][t] \in Nat /\ table.rows["read"][u][t] \in Nat
  BY RowNumbers DEF Kinds
<1>1. ASSUME NEW k \in Kinds, NEW w \in Users, NEW ts \in SUBSET Targets, NEW stored \in SUBSET Targets,
             NEW v \in Value, Handled(k, w, ts, stored, v)
      PROVE  cache'.rows["read"][u][t] >= cache.rows["read"][u][t]
  <2>1. Save(k, w, ts, stored, v)
    BY <1>1 DEF Handled
  <2>2. SaveEffect(k, w, ts, stored, v)
    BY <2>1, SavedRows
  <2>3. \/ cache' = cache
        \/ cache'.rows["read"][u][t] =
              IF "read" = k /\ u = w /\ t \in ts THEN v ELSE cache.rows["read"][u][t]
    BY <1>0, <2>2 DEF SaveEffect
  <2>4. "read" = k /\ u = w /\ t \in ts => cache.rows["read"][u][t] < v
    BY <1>1 DEF Handled
  <2>5. v \in Nat
    BY SettingsAssumption DEF Value
  <2> QED BY <1>0, <2>3, <2>4, <2>5
<1>2. CASE (\E x \in Users \cup Others : DeleteUser(x)) \/ (\E g \in Groups : DeleteGroup(g))
  <2>1. cache'.rows["read"][u][t] = cache.rows["read"][u][t]
    BY <1>0, <1>2, DeletedRows
  <2> QED BY <1>0, <2>1
<1>3. CASE CleanCache
  <2>1. cache \in Store /\ cleaning \in Nat /\ cache' = WithoutExpired(cache, cleaning)
    BY <1>3 DEF CleanCache, TypeOK
  <2>2. \A k \in Kinds, w \in Users, x \in Targets :
           WithoutExpired(cache, cleaning).rows[k][w][x] =
               IF k = "mute" /\ Expired(cache.rows[k][w][x], cleaning) THEN 0 ELSE cache.rows[k][w][x]
    BY <2>1, WithoutExpiredRows
  <2>3. cache'.rows["read"][u][t] = cache.rows["read"][u][t]
    BY <1>0, <2>1, <2>2
  <2> QED BY <1>0, <2>3
<1>4. CASE Restart
  <2>1. cache' = table /\ wiped' = wiped
    BY <1>4 DEF Restart
  <2> QED BY <2>1 DEF ReadStored, Stored, Known
<1>5. CASE CleanTable \/ (\E d \in Devices : Subscribe(d) \/ Receive(d) \/ Leave(d)) \/ Tick
  <2>1. cache' = cache
    BY <1>5 DEF CleanTable, Subscribe, Receive, Leave, Tick
  <2> QED BY <1>0, <2>1
<1>6. ASSUME NEW g \in Groups, ClearGroup(g)
      PROVE  \/ cache'.rows["read"][u][t] >= cache.rows["read"][u][t]
             \/ cache'.rows["read"][u][t] = 0 /\ <<u, t>> \in wiped'
  <2>1. /\ wiped' = wiped \cup (Users \X {g})
        /\ \/ cache' = cache
           \/ cache'.rows["read"][u][t] =
                 IF "read" \in Cleared /\ t = g THEN 0 ELSE cache.rows["read"][u][t]
    BY <1>0, <1>6, ClearedRows
  <2> QED BY <1>0, <2>1
<1> QED BY <1>1, <1>2, <1>3, <1>4, <1>5, <1>6, RequestsSave DEF Next

\* What a user has read of an existing chat never becomes unread, but by the
\* clearing of a group: no request writes an older index, and no restart finds
\* one in the table.
THEOREM ReadIndexForward == Spec => ReadIndexNeverBack
<1>1. SettingsIInv /\ [Next]_vars =>
        [\A u \in Users, t \in Targets :
            {u, t} \subseteq cache.alive \cap cache'.alive =>
                \/ cache'.rows["read"][u][t] >= cache.rows["read"][u][t]
                \/ cache'.rows["read"][u][t] = 0 /\ <<u, t>> \in wiped']_vars
  BY ReadKept DEF SettingsIInv
<1> QED BY SettingsInvariance, <1>1, PTL DEF Spec, ReadIndexNeverBack
=============================================================================
