---------------------------- MODULE SessionsProofs ----------------------------
(***************************************************************************)
(* The properties of the event streams for any number of users, devices,   *)
(* streams, faults and restarts.  None of them is inductive: they rest on  *)
(* who may hold a device, on the kicks that are still on their way, and on *)
(* the streams whose end will tell that a user is offline.  The last two   *)
(* parts are the conditions under which nobody is a ghost and no stream is *)
(* robbed.                                                                 *)
(***************************************************************************)
EXTENDS Sessions, SequenceTheorems, TLAPS

----------------------------------------------------------------------------
\* The inductive invariant.

\* Who holds a device is a stream of that device that has not ended, and the
\* device is registered.
HoldersStand ==
    \A d \in Devices : sender[d] # 0 =>
        /\ sender[d] \in DOMAIN streams
        /\ streams[sender[d]].device = d
        /\ streams[sender[d]].st # "ended"
        /\ d \in cache.devices

\* The write guard keeps a subscription's device from others.
SubscribersHold ==
    \A i \in DOMAIN streams : streams[i].st = "subscribing" => sender[streams[i].device] = i

\* A running stream that lost its device has a Kick, had one, or was robbed.
KickOnItsWay ==
    \A i \in DOMAIN streams :
        streams[i].st = "running" /\ sender[streams[i].device] # i
            => streams[i].mail \/ streams[i].told \/ streams[i].robbed

\* No one who is online was said to be offline.
OnlineTold == \A u \in cache.users : IsOnline(u) => online[u]

\* A stream of u whose end may still be told, or that will never end.
Unsettled(u) == \E i \in StreamsOf(u) : MustEnd(i) \/ streams[i].st = "failed"

\* Who is offline and not said to be has a stream whose end will tell.
OfflineToBeTold == \A u \in cache.users : online[u] /\ ~IsOnline(u) => Unsettled(u)

Holding == TypeOK /\ HoldersStand /\ SubscribersHold
Kicking == KickOnItsWay /\ ClosedAfterKick
Telling == OnlineTold /\ OfflineToBeTold

SessionsIInv == Holding /\ Kicking /\ Telling

----------------------------------------------------------------------------
\* Streams as a function of their numbers.

\* A function on an interval from 1 is a sequence of that length.
LEMMA IntervalSeq ==
  ASSUME NEW S, NEW n \in Nat, NEW f \in [1..n -> S]
  PROVE  f \in Seq(S) /\ Len(f) = n
<1>1. f \in Seq(S)
  BY SeqDef
<1>2. f \in [1..Len(f) -> S] /\ Len(f) \in Nat
  BY <1>1, LenProperties
<1>3. 1..Len(f) = 1..n
  BY <1>2
<1> QED BY <1>1, <1>2, <1>3

\* The streams are numbered from 1.
LEMMA StreamsAre ==
  ASSUME TypeOK
  PROVE  /\ Len(streams) \in Nat
         /\ DOMAIN streams = 1..Len(streams)
         /\ streams \in [1..Len(streams) -> Stream]
  BY LenProperties DEF TypeOK

\* What a change of streams that keeps their number has to show.
LEMMA StreamsStay ==
  ASSUME TypeOK, streams' \in [1..Len(streams) -> Stream]
  PROVE  streams' \in Seq(Stream) /\ Len(streams') <= MaxStreams
  BY StreamsAre, IntervalSeq DEF TypeOK

\* A Kick puts mail into the streams that hold a device of ds.
LEMMA KickedStreams ==
  ASSUME TypeOK, NEW ds \in SUBSET Devices
  PROVE  /\ Kicked(ds) \in [1..Len(streams) -> Stream]
         /\ \A i \in 1..Len(streams) :
              /\ Kicked(ds)[i].device = streams[i].device
              /\ Kicked(ds)[i].st = streams[i].st
              /\ Kicked(ds)[i].told = streams[i].told
              /\ Kicked(ds)[i].gone = streams[i].gone
              /\ Kicked(ds)[i].why = streams[i].why
              /\ Kicked(ds)[i].robbed = streams[i].robbed
              /\ streams[i].mail => Kicked(ds)[i].mail
              /\ streams[i].st = "running" /\ (\E d \in ds : sender[d] = i) => Kicked(ds)[i].mail
<1>1. Kicked(ds) = [i \in 1..Len(streams) |->
          IF streams[i].st = "running" /\ \E d \in ds : sender[d] = i
          THEN [streams[i] EXCEPT !.mail = TRUE] ELSE streams[i]]
  BY StreamsAre DEF Kicked
<1>2. ASSUME NEW i \in 1..Len(streams)
      PROVE  /\ streams[i] \in Stream
             /\ [streams[i] EXCEPT !.mail = TRUE] \in Stream
  BY StreamsAre DEF Stream
<1>3. Kicked(ds) \in [1..Len(streams) -> Stream]
  BY <1>1, <1>2
<1>4. ASSUME NEW i \in 1..Len(streams)
      PROVE  \/ /\ Kicked(ds)[i] = [streams[i] EXCEPT !.mail = TRUE]
                /\ Kicked(ds)[i].mail
             \/ /\ Kicked(ds)[i] = streams[i]
                /\ ~(streams[i].st = "running" /\ \E d \in ds : sender[d] = i)
  BY <1>1, <1>2 DEF Stream
<1> QED BY <1>2, <1>3, <1>4 DEF Stream

----------------------------------------------------------------------------
\* What the handlers of devices and users do to the streams.

\* Nothing that a stream notices.
Quiet ==
    /\ UNCHANGED <<sender, streams, online>>
    /\ cache'.users = cache.users
    /\ cache.devices \subseteq cache'.devices

\* The devices ds are taken from the streams that hold them.
Closing(ds) ==
    /\ Unlocked
    /\ Close(ds)
    /\ UNCHANGED online
    /\ cache'.users \subseteq cache.users
    /\ cache.devices \ ds \subseteq cache'.devices

\* A handler is quiet or closes the streams of some devices.
LEMMA HandlersClose ==
  ASSUME TypeOK,
         \/ \E d \in Devices : Login(d) \/ UpdateFcmToken(d) \/ Logout(d) \/ DeleteDevice(d)
         \/ \E u \in Users : Freeze(u) \/ Unfreeze(u) \/ DeleteUser(u)
  PROVE  Quiet \/ \E ds \in SUBSET Devices : Closing(ds)
<1>1. ASSUME NEW d \in Devices, Login(d) \/ UpdateFcmToken(d) PROVE Quiet
  <2>1. Register(d)
    BY <1>1 DEF Login, UpdateFcmToken
  <2> QED BY <2>1 DEF Register, CutShort, Quiet, TypeOK, Directory
<1>2. ASSUME NEW d \in Devices, Logout(d) \/ DeleteDevice(d) PROVE Quiet \/ Closing({d})
  <2>1. Unlocked /\ (Unregister(d) \/ CutShort({d}))
    BY <1>2 DEF Logout, DeleteDevice
  <2> QED BY <2>1 DEF Unregister, CutShort, Quiet, Closing, TypeOK, Directory
<1>3. ASSUME NEW u \in Users, Freeze(u) PROVE Quiet \/ Closing(cache.devices \cap Of(u))
  <2>1. CASE CutShort({})
    BY <2>1 DEF CutShort, Quiet, TypeOK, Directory
  <2>2. CASE ~CutShort({})
    <3>1. cache'.users = cache.users /\ cache'.devices = cache.devices
      BY <1>3, <2>2 DEF Freeze, TypeOK, Directory
    <3> QED BY <1>3, <2>2, <3>1 DEF Freeze, Closing
  <2> QED BY <2>1, <2>2
<1>4. ASSUME NEW u \in Users, Unfreeze(u) PROVE Quiet
  BY <1>4 DEF Unfreeze, CutShort, Quiet, TypeOK, Directory
<1>5. ASSUME NEW u \in Users, DeleteUser(u) PROVE Quiet \/ Closing(cache.devices \cap Of(u))
  <2>1. CASE CutShort({u} \cup Of(u))
    BY <2>1 DEF CutShort, Quiet, TypeOK, Directory
  <2>2. CASE ~CutShort({u} \cup Of(u))
    <3>1. /\ cache'.users = cache.users \ {u}
          /\ cache'.devices = cache.devices \ (cache.devices \cap Of(u))
      BY <1>5, <2>2 DEF DeleteUser
    <3> QED BY <1>5, <2>2, <3>1 DEF DeleteUser, Closing
  <2> QED BY <2>1, <2>2
<1>6. \A u \in Users : cache.devices \cap Of(u) \in SUBSET Devices
  BY DEF TypeOK, Directory
<1> QED BY <1>1, <1>2, <1>3, <1>4, <1>5, <1>6

----------------------------------------------------------------------------
\* The types.

\* A handler's steps keep the types.
LEMMA HandlersKeepTypes ==
  ASSUME TypeOK,
         \/ \E d \in Devices : Login(d) \/ UpdateFcmToken(d) \/ Logout(d) \/ DeleteDevice(d)
         \/ \E u \in Users : Freeze(u) \/ Unfreeze(u) \/ DeleteUser(u)
  PROVE  TypeOK'
<1>1. table' \in Directory /\ cache' \in Directory
  <2>1. ASSUME NEW d \in Devices, Login(d) \/ UpdateFcmToken(d) \/ Logout(d) \/ DeleteDevice(d)
        PROVE  table' \in Directory /\ cache' \in Directory
    BY <2>1 DEF Login, UpdateFcmToken, Register, Logout, DeleteDevice, Unregister, CutShort,
                TypeOK, Directory
  <2>2. ASSUME NEW u \in Users, Freeze(u) \/ Unfreeze(u) \/ DeleteUser(u)
        PROVE  table' \in Directory /\ cache' \in Directory
    BY SMTT(30), <2>2 DEF Freeze, Unfreeze, DeleteUser, CutShort, TypeOK, Directory
  <2> QED BY <2>1, <2>2
<1>2. /\ sender' \in [Devices -> 0..MaxStreams]
      /\ streams' \in Seq(Stream) /\ Len(streams') <= MaxStreams
      /\ online' \in [Users -> BOOLEAN]
  <2>1. CASE Quiet
    BY <2>1 DEF Quiet, TypeOK
  <2>2. ASSUME NEW ds \in SUBSET Devices, Closing(ds)
        PROVE  /\ sender' \in [Devices -> 0..MaxStreams]
               /\ streams' \in Seq(Stream) /\ Len(streams') <= MaxStreams
               /\ online' \in [Users -> BOOLEAN]
    <3>1. streams' \in [1..Len(streams) -> Stream]
      BY <2>2, KickedStreams DEF Closing, Close
    <3> QED BY <2>2, <3>1, StreamsStay, SessionsAssumption DEF Closing, Close, Released, TypeOK
  <2> QED BY <2>1, <2>2, HandlersClose
<1>3. cut' \subseteq Users \cup Devices /\ used' \in [faults : Nat, cuts : Nat, restarts : Nat]
  <2> USE DEF TypeOK, Done, CutShort, Spend
  <2>1. ASSUME NEW d \in Devices, Login(d) \/ UpdateFcmToken(d) PROVE Done({d}) \/ CutShort({d})
    BY <2>1 DEF Login, UpdateFcmToken, Register
  <2>2. ASSUME NEW d \in Devices, Logout(d) \/ DeleteDevice(d) PROVE Done({d}) \/ CutShort({d})
    BY <2>2 DEF Logout, DeleteDevice, Unregister
  <2>3. ASSUME NEW u \in Users, Freeze(u) \/ Unfreeze(u) PROVE Done({}) \/ CutShort({})
    BY <2>3 DEF Freeze, Unfreeze
  <2>4. ASSUME NEW u \in Users, DeleteUser(u)
        PROVE  Done({u} \cup Of(u)) \/ CutShort({u} \cup Of(u))
    BY <2>4 DEF DeleteUser
  <2>5. ASSUME NEW names \in SUBSET (Users \cup Devices), Done(names) \/ CutShort(names)
        PROVE  cut' \subseteq Users \cup Devices /\ used' \in [faults : Nat, cuts : Nat, restarts : Nat]
    BY SMTT(30), <2>5
  <2>6. /\ \A u \in Users : {u} \cup Of(u) \in SUBSET (Users \cup Devices)
        /\ \A d \in Devices : {d} \in SUBSET (Users \cup Devices)
        /\ {} \in SUBSET (Users \cup Devices)
    BY DEF Of
  <2>7. \E names \in SUBSET (Users \cup Devices) : Done(names) \/ CutShort(names)
    <3> HIDE DEF TypeOK, Done, CutShort, Spend
    <3> QED BY <2>1, <2>2, <2>3, <2>4, <2>6
  <2> QED BY <2>5, <2>7
<1> QED BY <1>1, <1>2, <1>3 DEF TypeOK

\* A step of one stream, which leaves all but the stream alone.
OneStream(i, r) ==
    /\ streams' = [streams EXCEPT ![i] = r]
    /\ UNCHANGED <<table, cache, sender, online, cut>>

\* A stream changes by itself in one of these ways, without the guard.
LEMMA StreamSteps ==
  ASSUME TypeOK, NEW i \in DOMAIN streams,
         Ready(i) \/ SubscribeFails(i) \/ Leave(i) \/ Tell(i) \/ Closed(i) \/ ClientGone(i) \/ Lagged(i)
  PROVE  /\ OneStream(i, streams'[i])
         /\ streams'[i] \in Stream
         /\ used' \in [faults : Nat, cuts : Nat, restarts : Nat]
         /\ streams'[i].device = streams[i].device
         /\ \/ streams[i].st = "subscribing" /\ streams'[i] = [streams[i] EXCEPT !.st = "running"]
            \/ streams[i].st = "subscribing" /\ streams'[i] = Fresh(streams[i].device, "failed")
            \/ streams[i].st = "running" /\ streams'[i] = [streams[i] EXCEPT !.gone = TRUE]
            \/ streams[i].st = "running" /\ streams'[i] = [streams[i] EXCEPT !.mail = FALSE, !.told = TRUE]
            \/ /\ streams[i].st = "running"
               /\ \E why \in {"closed", "gone", "lagged"} :
                    /\ streams'[i] = [streams[i] EXCEPT !.st = "ending", !.why = why, !.mail = FALSE]
                    /\ why = "closed" => sender[streams[i].device] # i /\ ~streams[i].mail
<1>1. i \in 1..Len(streams) /\ streams[i] \in Stream /\ streams \in [1..Len(streams) -> Stream]
  BY StreamsAre
<1>2. CASE Ready(i)
  BY <1>1, <1>2 DEF Ready, OneStream, Stream, TypeOK
<1>3. CASE SubscribeFails(i)
  <2>1. streams' = [streams EXCEPT ![i] = Fresh(streams[i].device, "failed")]
    BY <1>1, <1>3 DEF SubscribeFails
  <2>2. /\ streams'[i] = Fresh(streams[i].device, "failed")
        /\ Fresh(streams[i].device, "failed").device = streams[i].device
        /\ Fresh(streams[i].device, "failed") \in Stream
    BY <1>1, <2>1 DEF Fresh, Stream
  <2>3. used' \in [faults : Nat, cuts : Nat, restarts : Nat]
    <3>1. used' = [used EXCEPT !.faults = @ + 1]
      BY <1>3 DEF SubscribeFails, Spend
    <3> QED BY SMTT(30), <3>1 DEF TypeOK
  <2> QED BY <1>3, <2>1, <2>2, <2>3 DEF SubscribeFails, OneStream
<1>4. CASE Leave(i)
  BY <1>1, <1>4 DEF Leave, OneStream, Stream, TypeOK
<1>5. CASE Tell(i)
  BY <1>1, <1>5 DEF Tell, OneStream, Stream, TypeOK
<1>6. ASSUME NEW why \in {"closed", "gone", "lagged"}, Break(i, why)
      PROVE  /\ OneStream(i, streams'[i])
             /\ streams'[i] \in Stream
             /\ used' \in [faults : Nat, cuts : Nat, restarts : Nat]
             /\ streams'[i].device = streams[i].device
             /\ streams[i].st = "running"
             /\ streams'[i] = [streams[i] EXCEPT !.st = "ending", !.why = why, !.mail = FALSE]
  BY <1>1, <1>6 DEF Break, OneStream, Stream, TypeOK
<1>7. CASE Closed(i)
  BY <1>6, <1>7 DEF Closed
<1>8. CASE ClientGone(i)
  BY <1>6, <1>8 DEF ClientGone
<1>9. CASE Lagged(i)
  BY <1>6, <1>9 DEF Lagged
<1> QED BY <1>2, <1>3, <1>4, <1>5, <1>7, <1>8, <1>9

\* The same, field by field.
LEMMA StreamFields ==
  ASSUME TypeOK, NEW i \in DOMAIN streams,
         Ready(i) \/ SubscribeFails(i) \/ Leave(i) \/ Tell(i) \/ Closed(i) \/ ClientGone(i) \/ Lagged(i)
  PROVE  LET s == streams[i]
             t == streams'[i]
         IN  /\ t.device = s.device
             /\ \/ /\ s.st = "subscribing" /\ t.st = "running"
                   /\ t.told = s.told /\ t.robbed = s.robbed /\ t.why = s.why
                \/ s.st = "subscribing" /\ t.st = "failed" /\ t.why = "none" /\ ~t.robbed
                \/ /\ s.st = "running" /\ t.st = "running"
                   /\ s.told \/ s.mail => t.told \/ t.mail
                   /\ s.told => t.told
                   /\ s.gone => t.gone
                   /\ t.robbed = s.robbed /\ t.why = s.why
                \/ /\ s.st = "running" /\ t.st = "ending"
                   /\ t.told = s.told /\ t.robbed = s.robbed
                   /\ t.why = "closed" => sender[s.device] # i /\ ~s.mail
<1>1. streams[i] \in Stream
  BY StreamsAre
<1>2. CASE streams'[i] = [streams[i] EXCEPT !.st = "running"] /\ streams[i].st = "subscribing"
  BY <1>1, <1>2 DEF Stream
<1>3. CASE streams'[i] = Fresh(streams[i].device, "failed") /\ streams[i].st = "subscribing"
  BY <1>3 DEF Fresh
<1>4. CASE streams'[i] = [streams[i] EXCEPT !.gone = TRUE] /\ streams[i].st = "running"
  BY <1>1, <1>4 DEF Stream
<1>5. CASE streams'[i] = [streams[i] EXCEPT !.mail = FALSE, !.told = TRUE] /\ streams[i].st = "running"
  BY <1>1, <1>5 DEF Stream
<1>6. ASSUME NEW why \in {"closed", "gone", "lagged"}, streams[i].st = "running",
             streams'[i] = [streams[i] EXCEPT !.st = "ending", !.why = why, !.mail = FALSE],
             why = "closed" => sender[streams[i].device] # i /\ ~streams[i].mail
      PROVE  LET s == streams[i]
                 t == streams'[i]
             IN  /\ t.device = s.device
                 /\ s.st = "running" /\ t.st = "ending"
                 /\ t.told = s.told /\ t.robbed = s.robbed
                 /\ t.why = "closed" => sender[s.device] # i /\ ~s.mail
  BY <1>1, <1>6 DEF Stream
<1>7. \/ streams[i].st = "subscribing" /\ streams'[i] = [streams[i] EXCEPT !.st = "running"]
      \/ streams[i].st = "subscribing" /\ streams'[i] = Fresh(streams[i].device, "failed")
      \/ streams[i].st = "running" /\ streams'[i] = [streams[i] EXCEPT !.gone = TRUE]
      \/ streams[i].st = "running" /\ streams'[i] = [streams[i] EXCEPT !.mail = FALSE, !.told = TRUE]
      \/ /\ streams[i].st = "running"
         /\ \E why \in {"closed", "gone", "lagged"} :
              /\ streams'[i] = [streams[i] EXCEPT !.st = "ending", !.why = why, !.mail = FALSE]
              /\ why = "closed" => sender[streams[i].device] # i /\ ~streams[i].mail
  BY StreamSteps
<1> QED BY <1>2, <1>3, <1>4, <1>5, <1>6, <1>7

\* Every step keeps the types.
LEMMA TypesKept == TypeOK /\ [Next]_vars => TypeOK'
<1> SUFFICES ASSUME TypeOK, [Next]_vars PROVE TypeOK'
  OBVIOUS
<1>1. ASSUME NEW d \in Devices, Subscribe(d) PROVE TypeOK'
  <2>1. Kicked({d}) \in Seq(Stream) /\ Len(Kicked({d})) = Len(streams)
    BY KickedStreams, StreamsAre, IntervalSeq
  <2>2. Fresh(d, "subscribing") \in Stream
    BY DEF Fresh, Stream
  <2>3. streams' \in Seq(Stream) /\ Len(streams') = Len(streams) + 1
    BY <1>1, <2>1, <2>2, AppendProperties DEF Subscribe
  <2>4. Len(streams) + 1 \in 0..MaxStreams
    BY <1>1, StreamsAre, SessionsAssumption DEF Subscribe
  <2>5. online' \in [Users -> BOOLEAN]
    BY <1>1 DEF Subscribe, TypeOK
  <2> QED BY <1>1, <2>3, <2>4, <2>5 DEF Subscribe, TypeOK
<1>2. ASSUME NEW i \in DOMAIN streams,
             Ready(i) \/ SubscribeFails(i) \/ Leave(i) \/ Tell(i) \/ Closed(i) \/ ClientGone(i) \/ Lagged(i)
      PROVE  TypeOK'
  <2>1. streams' \in [1..Len(streams) -> Stream]
    BY <1>2, StreamSteps, StreamsAre DEF OneStream
  <2> QED BY ZenonT(30), <1>2, <2>1, StreamSteps, StreamsStay DEF OneStream, TypeOK
<1>3. ASSUME NEW i \in DOMAIN streams, Teardown(i) PROVE TypeOK'
  <2>1. \A j \in 1..Len(streams) :
           /\ streams[j] \in Stream
           /\ [streams[j] EXCEPT !.robbed = @ \/ sender[streams[i].device] = j] \in Stream
           /\ Fresh(streams[i].device, "ended") \in Stream
    BY ZenonT(30), StreamsAre DEF Stream, Fresh
  <2>2. streams' \in [1..Len(streams) -> Stream]
    BY <1>3, <2>1, StreamsAre DEF Teardown
  <2>3. online' \in [Users -> BOOLEAN]
    BY <1>3 DEF Teardown, TypeOK
  <2> QED BY <1>3, <2>2, <2>3, StreamsStay, SessionsAssumption DEF Teardown, Released, TypeOK
<1>4. CASE Restart
  <2>1. \A j \in 1..Len(streams) : Fresh(streams[j].device, "ended") \in Stream
    BY StreamsAre DEF Stream, Fresh
  <2>2. streams' \in [1..Len(streams) -> Stream]
    BY <1>4, <2>1, StreamsAre DEF Restart
  <2> QED BY <1>4, <2>2, StreamsStay, SessionsAssumption DEF Restart, Released, Spend, TypeOK
<1>5. CASE UNCHANGED vars
  BY <1>5 DEF TypeOK, vars
<1> QED BY <1>1, <1>2, <1>3, <1>4, <1>5, HandlersKeepTypes DEF Next

----------------------------------------------------------------------------
\* Who holds a device.

\* The device of every stream is a device.
LEMMA StreamDevice ==
  ASSUME TypeOK, NEW i \in DOMAIN streams
  PROVE  /\ streams[i].device \in Devices /\ streams[i] \in Stream
         /\ i \in 1..Len(streams) /\ i # 0
  BY StreamsAre DEF Stream

\* The facts about every stream after a subscription.
LEMMA SubscribedStreams ==
  ASSUME TypeOK, NEW d \in Devices, Subscribe(d)
  PROVE  /\ DOMAIN streams' = 1..(Len(streams) + 1)
         /\ DOMAIN streams = 1..Len(streams) /\ Len(streams) \in Nat
         /\ \A i \in 1..Len(streams) : streams'[i] = Kicked({d})[i]
         /\ streams'[Len(streams) + 1] = Fresh(d, "subscribing")
<1>1. Kicked({d}) \in Seq(Stream) /\ Len(Kicked({d})) = Len(streams)
  BY KickedStreams, StreamsAre, IntervalSeq
<1>2. Fresh(d, "subscribing") \in Stream
  BY DEF Fresh, Stream
<1>3. streams' = Append(Kicked({d}), Fresh(d, "subscribing"))
  BY DEF Subscribe
<1>4. /\ Len(streams') = Len(streams) + 1 /\ streams' \in Seq(Stream)
      /\ \A i \in 1..Len(streams) : streams'[i] = Kicked({d})[i]
      /\ streams'[Len(streams) + 1] = Fresh(d, "subscribing")
  <2> DEFINE ks == Kicked({d})
             new == Fresh(d, "subscribing")
  <2> HIDE DEF ks, new
  <2>1. /\ Len(Append(ks, new)) = Len(ks) + 1 /\ Append(ks, new) \in Seq(Stream)
        /\ \A i \in 1..Len(ks) : Append(ks, new)[i] = ks[i]
        /\ Append(ks, new)[Len(ks) + 1] = new
    BY <1>1, <1>2, AppendProperties DEF ks, new
  <2> QED BY <1>1, <1>3, <2>1 DEF ks, new
<1> QED BY <1>4, StreamsAre, LenProperties

\* The facts about every stream after the teardown of one.
LEMMA TornDownStreams ==
  ASSUME TypeOK, NEW i \in DOMAIN streams, Teardown(i)
  PROVE  /\ DOMAIN streams' = DOMAIN streams
         /\ streams'[i].device = streams[i].device
         /\ streams'[i].st = "ended" /\ streams'[i].why = "none"
         /\ \A j \in DOMAIN streams \ {i} :
              /\ streams'[j].device = streams[j].device
              /\ streams'[j].st = streams[j].st
              /\ streams'[j].mail = streams[j].mail
              /\ streams'[j].told = streams[j].told
              /\ streams'[j].gone = streams[j].gone
              /\ streams'[j].why = streams[j].why
              /\ streams[j].robbed \/ sender[streams[i].device] = j => streams'[j].robbed
              /\ streams'[j].robbed => streams[j].robbed \/ sender[streams[i].device] = j
<1> DEFINE d == streams[i].device
<1>1. DOMAIN streams' = DOMAIN streams
  BY DEF Teardown
<1>2. streams'[i] = Fresh(d, "ended")
  BY DEF Teardown
<1>3. ASSUME NEW j \in DOMAIN streams \ {i}
      PROVE  /\ streams[j] \in Stream
             /\ streams'[j] = [streams[j] EXCEPT !.robbed = @ \/ sender[d] = j]
  BY StreamsAre DEF Teardown
<1>4. Fresh(d, "ended").device = d /\ Fresh(d, "ended").st = "ended" /\ Fresh(d, "ended").why = "none"
  BY DEF Fresh
<1>5. ASSUME NEW j \in DOMAIN streams \ {i}
      PROVE  /\ streams'[j].device = streams[j].device
             /\ streams'[j].st = streams[j].st
             /\ streams'[j].mail = streams[j].mail
             /\ streams'[j].told = streams[j].told
             /\ streams'[j].gone = streams[j].gone
             /\ streams'[j].why = streams[j].why
             /\ streams[j].robbed \/ sender[streams[i].device] = j => streams'[j].robbed
             /\ streams'[j].robbed => streams[j].robbed \/ sender[streams[i].device] = j
  <2> DEFINE taken == streams[j].robbed \/ sender[d] = j
  <2> HIDE DEF taken
  <2>1. streams[j] \in Stream /\ streams'[j] = [streams[j] EXCEPT !.robbed = taken]
    BY <1>3, <1>5 DEF taken
  <2>2. streams'[j].robbed = taken
    BY <2>1 DEF Stream
  <2>3. /\ streams'[j].device = streams[j].device
        /\ streams'[j].st = streams[j].st
        /\ streams'[j].mail = streams[j].mail
        /\ streams'[j].told = streams[j].told
        /\ streams'[j].gone = streams[j].gone
        /\ streams'[j].why = streams[j].why
    BY <2>1 DEF Stream
  <2>4. streams[j].robbed \/ sender[d] = j => streams'[j].robbed
    BY <2>2, Zenon DEF taken
  <2>5. streams'[j].robbed => streams[j].robbed \/ sender[d] = j
    BY <2>2, Zenon DEF taken
  <2> QED BY <2>3, <2>4, <2>5
<1> QED BY <1>1, <1>2, <1>4, <1>5

\* Every step keeps who may hold a device.
LEMMA HoldersKept ==
  ASSUME Holding, TypeOK', [Next]_vars
  PROVE  HoldersStand' /\ SubscribersHold'
<1> USE DEF Holding
<1>0. DOMAIN streams = 1..Len(streams) /\ Len(streams) \in Nat
  BY StreamsAre
<1>1. CASE Quiet
  BY <1>1 DEF Quiet, HoldersStand, SubscribersHold
<1>2. ASSUME NEW ds \in SUBSET Devices, Closing(ds) PROVE HoldersStand' /\ SubscribersHold'
  <2>1. /\ DOMAIN streams' = DOMAIN streams
        /\ \A i \in DOMAIN streams : /\ streams'[i].device = streams[i].device
                                     /\ streams'[i].st = streams[i].st
    BY <1>0, <1>2, KickedStreams DEF Closing, Close
  <2>2. \A d \in Devices : sender'[d] = IF d \in ds THEN 0 ELSE sender[d]
    BY <1>2 DEF Closing, Close, Released
  <2>3. HoldersStand'
    BY <1>2, <2>1, <2>2 DEF HoldersStand, Closing
  <2>4. SubscribersHold'
    BY <1>2, <2>1 DEF SubscribersHold, Closing, Unlocked
  <2> QED BY <2>3, <2>4
<1>3. ASSUME NEW d \in Devices, Subscribe(d) PROVE HoldersStand' /\ SubscribersHold'
  <2> DEFINE n == Len(streams)
  <2>1. \A e \in Devices : sender'[e] = IF e = d THEN n + 1 ELSE sender[e]
    BY <1>3 DEF Subscribe, TypeOK
  <2>2. /\ DOMAIN streams' = 1..(n + 1)
        /\ streams'[n + 1].device = d /\ streams'[n + 1].st = "subscribing"
        /\ \A i \in 1..n : /\ streams'[i].device = streams[i].device
                           /\ streams'[i].st = streams[i].st
    <3>1. /\ DOMAIN streams' = 1..(n + 1)
          /\ streams'[n + 1] = Fresh(d, "subscribing")
          /\ \A i \in 1..n : streams'[i] = Kicked({d})[i]
      BY <1>3, SubscribedStreams
    <3>2. {d} \in SUBSET Devices
      OBVIOUS
    <3>3. \A i \in 1..n : /\ Kicked({d})[i].device = streams[i].device
                          /\ Kicked({d})[i].st = streams[i].st
      BY <3>2, KickedStreams
    <3>4. Fresh(d, "subscribing").device = d /\ Fresh(d, "subscribing").st = "subscribing"
      BY DEF Fresh
    <3> QED BY <3>1, <3>3, <3>4
  <2>3. d \in cache'.devices /\ cache' = cache
    BY <1>3 DEF Subscribe
  <2>4. HoldersStand'
    <3> SUFFICES ASSUME NEW e \in Devices, sender'[e] # 0
                 PROVE  /\ sender'[e] \in DOMAIN streams'
                        /\ streams'[sender'[e]].device = e
                        /\ streams'[sender'[e]].st # "ended"
                        /\ e \in cache'.devices
      BY DEF HoldersStand
    <3>1. CASE e = d
      BY <1>0, <2>1, <2>2, <2>3, <3>1
    <3>2. CASE e # d
      BY <1>0, <2>1, <2>2, <2>3, <3>2 DEF HoldersStand
    <3> QED BY <3>1, <3>2
  <2>5. SubscribersHold'
    <3> SUFFICES ASSUME NEW i \in 1..(n + 1), streams'[i].st = "subscribing"
                 PROVE  sender'[streams'[i].device] = i
      BY <2>2 DEF SubscribersHold
    <3>1. i = n + 1
      <4>1. \A j \in 1..n : streams[j].st # "subscribing"
        BY <1>0, <1>3 DEF Subscribe, Unlocked
      <4> QED BY <1>0, <2>2, <4>1
    <3> QED BY <2>1, <2>2, <3>1
  <2> QED BY <2>4, <2>5
<1>4. ASSUME NEW i \in DOMAIN streams,
             Ready(i) \/ SubscribeFails(i) \/ Leave(i) \/ Tell(i) \/ Closed(i) \/ ClientGone(i) \/ Lagged(i)
      PROVE  HoldersStand' /\ SubscribersHold'
  <2>1. /\ UNCHANGED <<sender, cache>>
        /\ DOMAIN streams' = DOMAIN streams
        /\ \A j \in DOMAIN streams : j # i => streams'[j] = streams[j]
    <3>1. OneStream(i, streams'[i])
      BY <1>4, StreamSteps
    <3> QED BY <1>0, <3>1, StreamsAre DEF OneStream
  <2>2. /\ streams'[i].device = streams[i].device
        /\ streams'[i].st \in {"running", "failed", "ending"}
    BY <1>4, StreamFields
  <2> QED BY <2>1, <2>2 DEF HoldersStand, SubscribersHold
<1>5. ASSUME NEW i \in DOMAIN streams, Teardown(i) PROVE HoldersStand' /\ SubscribersHold'
  <2> DEFINE d == streams[i].device
  <2>1. d \in Devices /\ \A e \in Devices : sender'[e] = IF e = d THEN 0 ELSE sender[e]
    BY <1>5, StreamDevice DEF Teardown, Released
  <2>2. /\ DOMAIN streams' = DOMAIN streams
        /\ \A j \in DOMAIN streams : /\ streams'[j].device = streams[j].device
                                     /\ j # i => streams'[j].st = streams[j].st
        /\ streams'[i].st = "ended"
    BY <1>5, TornDownStreams
  <2>3. HoldersStand'
    BY <1>5, <2>1, <2>2 DEF HoldersStand, Teardown
  <2>4. SubscribersHold'
    BY <1>5, <2>2 DEF SubscribersHold, Teardown, Unlocked
  <2> QED BY <2>3, <2>4
<1>6. CASE Restart
  <2>1. \A d \in Devices : sender'[d] = 0
    BY <1>6 DEF Restart, Released
  <2>2. \A i \in DOMAIN streams' : streams'[i].st = "ended"
    BY <1>6 DEF Restart, Fresh
  <2> QED BY <2>1, <2>2 DEF HoldersStand, SubscribersHold
<1>7. CASE UNCHANGED vars
  BY <1>7 DEF vars, HoldersStand, SubscribersHold
<1> QED BY <1>1, <1>2, <1>3, <1>4, <1>5, <1>6, <1>7, HandlersClose DEF Next

----------------------------------------------------------------------------
\* Kicks.

\* Every step keeps what a stream is told.
LEMMA KicksKept ==
  ASSUME Holding, Kicking, [Next]_vars
  PROVE  Kicking'
<1> USE DEF Holding, Kicking
<1>0. DOMAIN streams = 1..Len(streams) /\ Len(streams) \in Nat
  BY StreamsAre
<1>1. CASE Quiet
  BY <1>1 DEF Quiet, KickOnItsWay, ClosedAfterKick
<1>2. ASSUME NEW ds \in SUBSET Devices, Closing(ds) PROVE Kicking'
  <2>1. \A d \in Devices : sender'[d] = IF d \in ds THEN 0 ELSE sender[d]
    BY <1>2 DEF Closing, Close, Released
  <2>2. DOMAIN streams' = DOMAIN streams /\ \A i \in DOMAIN streams : streams'[i] = Kicked(ds)[i]
    BY <1>0, <1>2, KickedStreams DEF Closing, Close
  <2>3. ASSUME NEW i \in DOMAIN streams, streams'[i].st = "running", sender'[streams'[i].device] # i
        PROVE  streams'[i].mail \/ streams'[i].told \/ streams'[i].robbed
    <3>1. CASE sender[streams[i].device] = i
      BY <1>0, <2>1, <2>2, <2>3, <3>1, KickedStreams, StreamDevice
    <3>2. CASE sender[streams[i].device] # i
      BY <1>0, <2>1, <2>2, <2>3, <3>2, KickedStreams, StreamDevice DEF KickOnItsWay
    <3> QED BY <3>1, <3>2
  <2>4. ClosedAfterKick'
    BY <1>0, <2>2, KickedStreams DEF ClosedAfterKick
  <2> QED BY <2>2, <2>3, <2>4 DEF KickOnItsWay
<1>3. ASSUME NEW d \in Devices, Subscribe(d) PROVE Kicking'
  <2> DEFINE n == Len(streams)
  <2>1. \A e \in Devices : sender'[e] = IF e = d THEN n + 1 ELSE sender[e]
    BY <1>3 DEF Subscribe, TypeOK
  <2>2. /\ DOMAIN streams' = 1..(n + 1)
        /\ streams'[n + 1] = Fresh(d, "subscribing")
        /\ \A i \in 1..n : streams'[i] = Kicked({d})[i]
    BY <1>3, SubscribedStreams
  <2>3. Fresh(d, "subscribing").st = "subscribing" /\ Fresh(d, "subscribing").why = "none"
    BY DEF Fresh
  <2>4. ASSUME NEW i \in 1..n, streams'[i].st = "running", sender'[streams'[i].device] # i
        PROVE  streams'[i].mail \/ streams'[i].told \/ streams'[i].robbed
    <3>1. CASE sender[streams[i].device] = i
      <4>1. streams[i].device = d
        BY <1>0, <2>1, <2>2, <2>4, <3>1, KickedStreams, StreamDevice
      <4> QED BY <1>0, <2>2, <2>4, <3>1, <4>1, KickedStreams
    <3>2. CASE sender[streams[i].device] # i
      BY <1>0, <2>2, <2>4, <3>2, KickedStreams DEF KickOnItsWay
    <3> QED BY <3>1, <3>2
  <2>5. ASSUME NEW i \in 1..n, streams'[i].why = "closed"
        PROVE  streams'[i].told \/ streams'[i].robbed
    BY <1>0, <2>2, <2>5, KickedStreams DEF ClosedAfterKick
  <2>6. \A i \in DOMAIN streams' : i \in 1..n \/ i = n + 1
    BY <1>0, <2>2
  <2> QED BY <2>2, <2>3, <2>4, <2>5, <2>6 DEF KickOnItsWay, ClosedAfterKick
<1>4. ASSUME NEW i \in DOMAIN streams,
             Ready(i) \/ SubscribeFails(i) \/ Leave(i) \/ Tell(i) \/ Closed(i) \/ ClientGone(i) \/ Lagged(i)
      PROVE  Kicking'
  <2>1. OneStream(i, streams'[i])
    BY <1>4, StreamSteps
  <2>2. /\ sender' = sender /\ DOMAIN streams' = DOMAIN streams
        /\ \A j \in DOMAIN streams : j # i => streams'[j] = streams[j]
    BY <2>1, StreamsAre DEF OneStream
  <2>3. streams'[i].st = "running" /\ sender[streams'[i].device] # i
            => streams'[i].mail \/ streams'[i].told \/ streams'[i].robbed
    BY <1>4, StreamFields DEF KickOnItsWay, SubscribersHold
  <2>4. streams'[i].why = "closed" => streams'[i].told \/ streams'[i].robbed
    \* A loop that reads None had its Kick, for the queue is empty.
    BY <1>4, StreamFields DEF KickOnItsWay, ClosedAfterKick
  <2> QED BY <2>2, <2>3, <2>4 DEF KickOnItsWay, ClosedAfterKick
<1>5. ASSUME NEW i \in DOMAIN streams, Teardown(i) PROVE Kicking'
  <2> DEFINE d == streams[i].device
  <2>1. d \in Devices /\ \A e \in Devices : sender'[e] = IF e = d THEN 0 ELSE sender[e]
    BY <1>5, StreamDevice DEF Teardown, Released
  <2>2. ASSUME NEW j \in DOMAIN streams \ {i}, streams'[j].st = "running", sender'[streams'[j].device] # j
        PROVE  streams'[j].mail \/ streams'[j].told \/ streams'[j].robbed
    \* Who is not robbed now had lost the device before.
    BY <1>5, <2>1, <2>2, TornDownStreams, StreamDevice DEF KickOnItsWay
  <2>3. ClosedAfterKick'
    BY <1>5, TornDownStreams DEF ClosedAfterKick
  <2> QED BY <1>5, <2>2, <2>3, TornDownStreams DEF KickOnItsWay
<1>6. CASE Restart
  <2>1. \A i \in DOMAIN streams' : streams'[i].st = "ended" /\ streams'[i].why = "none"
    BY <1>6 DEF Restart, Fresh
  <2> QED BY <2>1 DEF KickOnItsWay, ClosedAfterKick
<1>7. CASE UNCHANGED vars
  BY <1>7 DEF vars, KickOnItsWay, ClosedAfterKick
<1> QED BY <1>1, <1>2, <1>3, <1>4, <1>5, <1>6, <1>7, HandlersClose DEF Next

----------------------------------------------------------------------------
\* Who is online.

\* The streams of a user whose end is still to be told, as long as nothing ends.
LEMMA StillUnsettled ==
  ASSUME NEW u \in Users, Unsettled(u),
         DOMAIN streams \subseteq DOMAIN streams',
         \A i \in StreamsOf(u) : /\ streams'[i].device = streams[i].device
                                 /\ MustEnd(i) => MustEnd(i)'
                                 /\ streams[i].st = "failed" => streams'[i].st = "failed"
  PROVE  Unsettled(u)'
  BY DEF Unsettled, StreamsOf

\* Every step keeps what is said of the users, or a stream's end will correct it.
LEMMA TellingKept ==
  ASSUME Holding, Holding', Telling, [Next]_vars
  PROVE  Telling'
<1> USE DEF Holding, Telling
<1>0. DOMAIN streams = 1..Len(streams) /\ Len(streams) \in Nat
  BY StreamsAre
<1>u. \A u \in cache.users : u \in Users
  BY DEF TypeOK, Directory
<1>1. CASE Quiet
  <2>1. ASSUME NEW u \in Users PROVE IsOnline(u)' <=> IsOnline(u)
    \* A device that is only now registered is held by no one.
    BY <1>1 DEF Quiet, IsOnline, OnlineWithout, HoldersStand, Of
  <2>2. ASSUME NEW u \in Users PROVE Unsettled(u)' <=> Unsettled(u)
    BY <1>1 DEF Quiet, Unsettled, StreamsOf, MustEnd
  <2> QED BY <1>1, <1>u, <2>1, <2>2 DEF Quiet, OnlineTold, OfflineToBeTold
<1>2. ASSUME NEW ds \in SUBSET Devices, Closing(ds) PROVE Telling'
  <2>1. \A d \in Devices : sender'[d] = IF d \in ds THEN 0 ELSE sender[d]
    BY <1>2 DEF Closing, Close, Released
  <2>2. /\ DOMAIN streams' = DOMAIN streams
        /\ \A i \in DOMAIN streams : /\ streams'[i].device = streams[i].device
                                     /\ streams'[i].st = streams[i].st
                                     /\ streams'[i].gone = streams[i].gone
    BY <1>0, <1>2, KickedStreams DEF Closing, Close
  <2>3. cache'.users \subseteq cache.users /\ online' = online
    BY <1>2 DEF Closing
  <2>4. ASSUME NEW u \in Users, IsOnline(u)' PROVE IsOnline(u)
    BY <2>1, <2>4 DEF IsOnline, OnlineWithout, HoldersStand, Of
  <2>5. \A i \in DOMAIN streams : MustEnd(i) => MustEnd(i)'
    BY <2>1, <2>2, StreamDevice DEF MustEnd
  <2>6. ASSUME NEW u \in Users, IsOnline(u), ~IsOnline(u)' PROVE Unsettled(u)'
    <3>1. PICK d \in cache.devices \cap Of(u) : sender[d] # 0
      BY <2>6 DEF IsOnline, OnlineWithout
    <3>2. d \in Devices /\ Owner[d] = u
      BY <3>1 DEF Of
    <3>3. d \in ds
      BY <1>2, <2>1, <2>6, <3>1, <3>2 DEF IsOnline, OnlineWithout, Closing
    <3>4. PICK i \in DOMAIN streams : i = sender[d]
      BY <3>1, <3>2 DEF HoldersStand
    <3>5. streams[i].device = d /\ streams[i].st \in {"failed", "running", "ending"}
      BY <1>2, <3>1, <3>2, <3>4, StreamDevice DEF HoldersStand, Closing, Unlocked, Stream
    <3>6. sender'[d] # i
      BY <2>1, <3>1, <3>2, <3>3, <3>4
    <3>7. MustEnd(i)' \/ streams'[i].st = "failed"
      BY <2>2, <3>4, <3>5, <3>6 DEF MustEnd
    <3>8. i \in StreamsOf(u)'
      BY <2>2, <3>2, <3>4, <3>5 DEF StreamsOf
    <3> QED BY <3>7, <3>8 DEF Unsettled
  <2>7. \A u \in Users : Unsettled(u) => Unsettled(u)'
    BY <2>2, <2>5, StillUnsettled DEF StreamsOf
  <2> QED BY <1>u, <2>3, <2>4, <2>6, <2>7 DEF OnlineTold, OfflineToBeTold
<1>3. ASSUME NEW d \in Devices, Subscribe(d) PROVE Telling'
  <2> DEFINE n == Len(streams)
             v == Owner[d]
  <2>1. /\ \A e \in Devices : sender'[e] = IF e = d THEN n + 1 ELSE sender[e]
        /\ cache' = cache /\ v \in Users /\ d \in cache.devices \cap Of(v)
    BY <1>3, SessionsAssumption DEF Subscribe, TypeOK, Of
  <2>2. /\ DOMAIN streams' = 1..(n + 1)
        /\ \A i \in 1..n : streams'[i] = Kicked({d})[i]
    BY <1>3, SubscribedStreams
  <2>3. IsOnline(v)' /\ n + 1 # 0
    BY <1>0, <2>1 DEF IsOnline, OnlineWithout, Of
  <2>4. ASSUME NEW u \in Users, u # v PROVE IsOnline(u)' <=> IsOnline(u)
    BY <2>1, <2>4 DEF IsOnline, OnlineWithout, Of
  <2>5. online' = IF IsOnline(v) THEN online ELSE [online EXCEPT ![v] = TRUE]
    BY <1>3 DEF Subscribe
  <2>6. ASSUME NEW u \in cache.users, u # v PROVE online'[u] <=> online[u]
    BY <2>5, <2>6 DEF TypeOK
  <2>7. v \in cache.users => online'[v]
    <3>1. CASE IsOnline(v)
      BY <2>5, <3>1 DEF OnlineTold
    <3>2. CASE ~IsOnline(v)
      BY <2>1, <2>5, <3>2 DEF TypeOK
    <3> QED BY <3>1, <3>2
  <2>8. ASSUME NEW i \in DOMAIN streams
        PROVE  /\ streams'[i].device = streams[i].device
               /\ streams'[i].st = streams[i].st
               /\ MustEnd(i) => MustEnd(i)'
    <3>1. /\ streams'[i].device = streams[i].device
          /\ streams'[i].st = streams[i].st
          /\ streams'[i].gone = streams[i].gone
      BY <1>0, <2>2, KickedStreams
    <3>2. streams[i].device \in Devices /\ i # n + 1
      BY <1>0, StreamDevice
    <3> QED BY <2>1, <3>1, <3>2 DEF MustEnd
  <2>9. ASSUME NEW u \in Users, Unsettled(u) PROVE Unsettled(u)'
    BY <1>0, <2>2, <2>8, <2>9, StillUnsettled DEF StreamsOf
  <2> QED BY <1>u, <2>1, <2>3, <2>4, <2>6, <2>7, <2>9 DEF OnlineTold, OfflineToBeTold
<1>4. ASSUME NEW i \in DOMAIN streams,
             Ready(i) \/ SubscribeFails(i) \/ Leave(i) \/ Tell(i) \/ Closed(i) \/ ClientGone(i) \/ Lagged(i)
      PROVE  Telling'
  <2>1. OneStream(i, streams'[i])
    BY <1>4, StreamSteps
  <2>2. /\ UNCHANGED <<sender, cache, online>> /\ DOMAIN streams' = DOMAIN streams
        /\ \A j \in DOMAIN streams : j # i => streams'[j] = streams[j]
    BY <2>1, StreamsAre DEF OneStream
  <2>3. /\ streams'[i].device = streams[i].device
        /\ MustEnd(i) => MustEnd(i)'
        /\ streams[i].st # "failed"
    BY <1>4, <2>2, StreamFields DEF MustEnd
  <2>4. ASSUME NEW j \in DOMAIN streams, j # i PROVE MustEnd(j) => MustEnd(j)'
    BY <2>2, <2>4 DEF MustEnd
  <2>5. ASSUME NEW u \in Users, Unsettled(u) PROVE Unsettled(u)'
    BY <2>2, <2>3, <2>4, <2>5, StillUnsettled DEF StreamsOf
  <2>6. ASSUME NEW u \in Users PROVE IsOnline(u)' <=> IsOnline(u)
    BY <2>2 DEF IsOnline, OnlineWithout
  <2> QED BY <1>u, <2>2, <2>5, <2>6 DEF OnlineTold, OfflineToBeTold
<1>5. ASSUME NEW i \in DOMAIN streams, Teardown(i) PROVE Telling'
  <2>d. PICK d \in Devices : d = streams[i].device
    BY StreamDevice
  <2>v. PICK v \in Users : v = Owner[d]
    BY SessionsAssumption
  <2>1. /\ cache' = cache
        /\ \A e \in Devices : sender'[e] = IF e = d THEN 0 ELSE sender[e]
    BY <1>5, <2>d DEF Teardown, Released
  <2>2. ASSUME NEW u \in Users PROVE IsOnline(u)' <=> OnlineWithout(u, {d})
    BY <2>1 DEF IsOnline, OnlineWithout, Of
  <2>3. ASSUME NEW u \in Users, u # v PROVE OnlineWithout(u, {d}) <=> IsOnline(u)
    BY <2>1, <2>3, <2>v DEF IsOnline, OnlineWithout, Of
  <2>4. online' = IF v \notin cache.users \/ OnlineWithout(v, {d}) THEN online
                  ELSE [online EXCEPT ![v] = FALSE]
    BY <1>5, <2>d, <2>v DEF Teardown
  <2>5. ASSUME NEW u \in Users, u # v PROVE online'[u] <=> online[u]
    BY <2>4, <2>5 DEF TypeOK
  <2>6. ASSUME v \in cache.users PROVE online'[v] <=> IsOnline(v)'
    <3>1. CASE OnlineWithout(v, {d})
      <4>1. IsOnline(v)
        BY <3>1 DEF IsOnline, OnlineWithout
      <4>2. online' = online
        BY <2>4, <3>1
      <4>3. online[v]
        BY <2>6, <4>1 DEF OnlineTold
      <4>4. IsOnline(v)'
        BY <2>1, <2>2, <3>1
      <4> QED BY <4>2, <4>3, <4>4, Zenon
    <3>2. CASE ~OnlineWithout(v, {d})
      <4>1. online' = [online EXCEPT ![v] = FALSE]
        BY <2>4, <2>6, <3>2
      <4>2. ~online'[v]
        BY <2>1, <4>1 DEF TypeOK
      <4>3. ~IsOnline(v)'
        BY <2>1, <2>2, <3>2
      <4> QED BY <4>2, <4>3, Zenon
    <3> QED BY <3>1, <3>2
  <2>7. ASSUME NEW u \in Users, u # v, Unsettled(u) PROVE Unsettled(u)'
    <3>1. PICK j \in StreamsOf(u) : MustEnd(j) \/ streams[j].st = "failed"
      BY <2>7 DEF Unsettled
    <3>2. j \in DOMAIN streams /\ Owner[streams[j].device] = u /\ j # i
      BY <2>7, <2>d, <2>v, <3>1 DEF StreamsOf
    <3>3. /\ streams'[j].device = streams[j].device /\ streams'[j].st = streams[j].st
          /\ streams'[j].gone = streams[j].gone /\ DOMAIN streams' = DOMAIN streams
      BY <1>5, <3>2, TornDownStreams
    <3>4. MustEnd(j)' \/ streams'[j].st = "failed"
      BY <2>1, <2>d, <2>v, <3>1, <3>2, <3>3, StreamDevice DEF MustEnd
    <3>5. j \in StreamsOf(u)'
      BY <3>2, <3>3 DEF StreamsOf
    <3> QED BY <3>4, <3>5 DEF Unsettled
  <2>8. ASSUME NEW u \in cache.users, u # v
        PROVE  /\ IsOnline(u)' => online'[u]
               /\ online'[u] /\ ~IsOnline(u)' => Unsettled(u)'
    <3>1. /\ u \in Users
          /\ IsOnline(u) => online[u]
          /\ online[u] /\ ~IsOnline(u) => Unsettled(u)
      BY <1>u, <2>8 DEF OnlineTold, OfflineToBeTold
    <3>2. IsOnline(u)' <=> IsOnline(u)
      BY <2>2, <2>3, <2>8, <3>1
    <3> QED BY <2>5, <2>7, <2>8, <3>1, <3>2
  <2> QED BY <2>1, <2>6, <2>8 DEF OnlineTold, OfflineToBeTold
<1>6. CASE Restart
  <2>1. \A d \in Devices : sender'[d] = 0
    BY <1>6 DEF Restart, Released
  <2>2. \A u \in Users : online'[u] = FALSE
    BY <1>6 DEF Restart
  <2>3. \A u \in Users : ~IsOnline(u)'
    BY <2>1 DEF IsOnline, OnlineWithout, Of
  <2>4. \A u \in cache'.users : u \in Users
    BY DEF TypeOK, Directory
  <2> QED BY <2>2, <2>3, <2>4 DEF OnlineTold, OfflineToBeTold
<1>7. CASE UNCHANGED vars
  BY <1>7 DEF vars, OnlineTold, OfflineToBeTold, IsOnline, OnlineWithout, Unsettled, StreamsOf, MustEnd
<1> QED BY <1>1, <1>2, <1>3, <1>4, <1>5, <1>6, <1>7, HandlersClose DEF Next

----------------------------------------------------------------------------
\* The directory.

\* Every step keeps table and cache together, but for what was cut short.
LEMMA DirectoryKept ==
  ASSUME TypeOK, DirectoryAgrees, [Next]_vars
  PROVE  DirectoryAgrees'
<1> USE DEF TypeOK, Directory
<1>1. ASSUME NEW d \in Devices, Login(d) \/ UpdateFcmToken(d) PROVE DirectoryAgrees'
  <2>1. Register(d)
    BY <1>1 DEF Login, UpdateFcmToken
  <2>2. /\ table'.users = table.users /\ table'.devices = table.devices \cup {d}
        /\ cache'.users = cache.users
        /\ \/ cache'.devices = cache.devices \cup {d} /\ cut' = cut \ {d}
           \/ cache'.devices = cache.devices /\ cut' = cut \cup {d}
    BY <2>1 DEF Register, Done, CutShort
  <2> QED BY <2>2, SessionsAssumption DEF DirectoryAgrees
<1>2. ASSUME NEW d \in Devices, Logout(d) \/ DeleteDevice(d) PROVE DirectoryAgrees'
  <2>1. table' = [table EXCEPT !.devices = @ \ {d}] /\ (Unregister(d) \/ CutShort({d}))
    BY <1>2 DEF Logout, DeleteDevice
  <2>2. /\ table'.users = table.users /\ table'.devices = table.devices \ {d}
        /\ cache'.users = cache.users
        /\ \/ cache'.devices = cache.devices \ {d} /\ cut' = cut \ {d}
           \/ cache'.devices = cache.devices /\ cut' = cut \cup {d}
    BY <2>1 DEF Unregister, Done, CutShort
  <2> QED BY <2>2, SessionsAssumption DEF DirectoryAgrees
<1>3. ASSUME NEW u \in Users, Freeze(u) \/ Unfreeze(u) PROVE DirectoryAgrees'
  <2>1. /\ table'.users = table.users /\ table'.devices = table.devices
        /\ cache'.users = cache.users /\ cache'.devices = cache.devices /\ cut' = cut
    BY <1>3 DEF Freeze, Unfreeze, Done, CutShort
  <2> QED BY <2>1 DEF DirectoryAgrees
<1>4. ASSUME NEW u \in Users, DeleteUser(u) PROVE DirectoryAgrees'
  <2>1. table'.users = table.users \ {u} /\ table'.devices = table.devices \ Of(u)
    BY <1>4 DEF DeleteUser
  <2>2. \/ /\ cache'.users = cache.users \ {u} /\ cache'.devices = cache.devices \ Of(u)
           /\ cut' = cut \ ({u} \cup Of(u))
        \/ cache' = cache /\ cut' = cut \cup ({u} \cup Of(u))
    BY <1>4 DEF DeleteUser, Done, CutShort
  <2>3. Of(u) \in SUBSET Devices
    BY DEF Of
  <2> QED BY <2>1, <2>2, <2>3, SessionsAssumption DEF DirectoryAgrees
<1>5. ASSUME NEW d \in Devices, Subscribe(d) PROVE DirectoryAgrees'
  BY <1>5 DEF Subscribe, DirectoryAgrees
<1>6. ASSUME NEW i \in DOMAIN streams,
             \/ Ready(i) \/ SubscribeFails(i) \/ Leave(i)
             \/ Tell(i) \/ Closed(i) \/ ClientGone(i) \/ Lagged(i) \/ Teardown(i)
      PROVE  DirectoryAgrees'
  <2>1. UNCHANGED <<table, cache, cut>>
    BY <1>6, StreamSteps DEF OneStream, Teardown
  <2> QED BY <2>1 DEF DirectoryAgrees
<1>7. CASE Restart
  BY <1>7 DEF Restart, DirectoryAgrees
<1>8. CASE UNCHANGED vars
  BY <1>8 DEF vars, DirectoryAgrees
<1> QED BY <1>1, <1>2, <1>3, <1>4, <1>5, <1>6, <1>7, <1>8 DEF Next

----------------------------------------------------------------------------
\* The theorems.

\* At the start there is no stream and no device.
LEMMA Initially == Init => SessionsIInv /\ DirectoryAgrees
<1> SUFFICES ASSUME Init PROVE SessionsIInv /\ DirectoryAgrees
  OBVIOUS
<1>1. DOMAIN streams = {} /\ streams \in Seq(Stream) /\ Len(streams) = 0
  BY EmptySeq DEF Init
<1>2. TypeOK
  BY <1>1, SessionsAssumption DEF Init, TypeOK, Directory
<1>3. \A u \in Users : ~IsOnline(u) /\ online[u] = FALSE
  BY DEF Init, IsOnline, OnlineWithout
<1>4. Telling
  BY <1>3 DEF Init, Telling, OnlineTold, OfflineToBeTold
<1>5. HoldersStand /\ SubscribersHold /\ Kicking
  BY <1>1 DEF Init, HoldersStand, SubscribersHold, Kicking, KickOnItsWay, ClosedAfterKick
<1>6. DirectoryAgrees
  BY DEF Init, DirectoryAgrees
<1> QED BY <1>2, <1>4, <1>5, <1>6 DEF SessionsIInv, Holding

\* The invariant holds throughout.
LEMMA SessionsInvariance == Spec => [](SessionsIInv /\ DirectoryAgrees)
<1>1. SessionsIInv /\ DirectoryAgrees /\ [Next]_vars => (SessionsIInv /\ DirectoryAgrees)'
  <2> SUFFICES ASSUME SessionsIInv, DirectoryAgrees, [Next]_vars
               PROVE  (SessionsIInv /\ DirectoryAgrees)'
    OBVIOUS
  <2>1. Holding'
    BY TypesKept, HoldersKept DEF SessionsIInv, Holding
  <2>2. Kicking' /\ Telling' /\ DirectoryAgrees'
    BY <2>1, KicksKept, TellingKept, DirectoryKept DEF SessionsIInv, Holding
  <2> QED BY <2>1, <2>2 DEF SessionsIInv
<1> QED BY Initially, <1>1, PTL DEF Spec

\* A stream that the server closes was told why, unless the end of an older
\* stream of its device took its sender: whoever drops a sender leaves a Kick in
\* the queue, and the loop reads None only behind it.
THEOREM ClosedKicked == Spec => []ClosedAfterKick
<1>1. SessionsIInv => ClosedAfterKick
  BY DEF SessionsIInv, Kicking
<1> QED BY SessionsInvariance, <1>1, PTL

\* What was told last of a user is what is_online says, once the streams that
\* have to end have ended.
THEOREM OnlineHeld == Spec => []OnlineAsTold
<1>1. SessionsIInv => OnlineAsTold
  <2> SUFFICES ASSUME SessionsIInv, NEW u \in cache.users,
                      \A i \in StreamsOf(u) : ~MustEnd(i) /\ streams[i].st # "failed"
               PROVE  online[u] = IsOnline(u)
    BY DEF OnlineAsTold
  <2>1. u \in Users /\ online[u] \in BOOLEAN
    BY DEF SessionsIInv, Holding, TypeOK, Directory
  <2>2. online[u] <=> IsOnline(u)
    BY DEF SessionsIInv, Telling, OnlineTold, OfflineToBeTold, Unsettled
  <2>3. IsOnline(u) \in BOOLEAN
    BY DEF IsOnline, OnlineWithout
  <2> QED BY <2>1, <2>2, <2>3
<1> QED BY SessionsInvariance, <1>1, PTL

\* Users and devices are the same in the table and in the cache, but for the
\* requests that were dropped at their commit.
THEOREM DirectoryHeld == Spec => []DirectoryAgrees
BY SessionsInvariance, PTL

----------------------------------------------------------------------------
\* Where the refuted claims hold.

\* The stream occupies its device: it has not ended, and its end will be seen.
Live(i) == streams[i].st \in {"subscribing", "running", "ending"}

\* A user without a stream who passes for online owes it to a subscription that
\* failed half way and holds one of the user's devices: nothing else leaves a
\* sender behind.
GhostIsFailed ==
    \A u \in cache.users : IsOnline(u) =>
        \/ \E i \in StreamsOf(u) : Live(i)
        \/ \E i \in StreamsOf(u) : streams[i].st = "failed" /\ sender[streams[i].device] = i

\* The devices of the users who pass for online are held by streams of theirs.
LEMMA OnlineHolder ==
  ASSUME Holding, NEW u \in cache.users, IsOnline(u)
  PROVE  \E i \in StreamsOf(u) : sender[streams[i].device] = i /\ streams[i].st # "ended"
<1>1. PICK d \in Devices : d \in Of(u) /\ sender[d] # 0
  BY DEF IsOnline, OnlineWithout, Of
<1>2. /\ sender[d] \in DOMAIN streams /\ streams[sender[d]].device = d
      /\ streams[sender[d]].st # "ended"
  BY <1>1 DEF Holding, HoldersStand
<1>3. sender[d] \in StreamsOf(u)
  BY <1>1, <1>2 DEF StreamsOf, Of
<1> QED BY <1>2, <1>3

\* A user who passes for online has a stream, or one whose subscription failed:
\* after any kicks, ends, deletions, dropped requests and restarts the failed
\* await of events is the only way to a ghost.
THEOREM GhostsExplained == Spec => []GhostIsFailed
<1>1. Holding => GhostIsFailed
  <2> SUFFICES ASSUME Holding, NEW u \in cache.users, IsOnline(u)
               PROVE  \/ \E i \in StreamsOf(u) : Live(i)
                      \/ \E i \in StreamsOf(u) :
                            streams[i].st = "failed" /\ sender[streams[i].device] = i
    BY DEF GhostIsFailed
  <2>1. PICK i \in StreamsOf(u) : sender[streams[i].device] = i /\ streams[i].st # "ended"
    BY OnlineHolder
  <2>2. streams[i] \in Stream
    BY <2>1, StreamDevice DEF Holding, StreamsOf
  <2>3. streams[i].st \in {"subscribing", "failed", "running", "ending", "ended"}
    BY <2>2 DEF Stream
  <2> QED BY <2>1, <2>3 DEF Live
<1> QED BY <1>1, SessionsInvariance, PTL DEF SessionsIInv

\* No subscription ends between its await and its events_loop.
NoSubscriptionFails == \A i \in DOMAIN streams : ~SubscribeFails(i)

NoneFailed == \A i \in DOMAIN streams : streams[i].st # "failed"

\* Only a subscription that fails leaves a failed stream.
LEMMA NoneFailedKept ==
  ASSUME Holding, NoneFailed, [Next]_vars, NoSubscriptionFails
  PROVE  NoneFailed'
<1>0. TypeOK /\ DOMAIN streams = 1..Len(streams)
  BY StreamsAre DEF Holding
<1>1. CASE Quiet
  BY <1>1 DEF Quiet, NoneFailed
<1>2. ASSUME NEW ds \in SUBSET Devices, Closing(ds) PROVE NoneFailed'
  <2>1. DOMAIN streams' = DOMAIN streams /\ \A i \in DOMAIN streams : streams'[i].st = streams[i].st
    BY <1>0, <1>2, KickedStreams DEF Closing, Close
  <2> QED BY <2>1 DEF NoneFailed
<1>3. ASSUME NEW d \in Devices, Subscribe(d) PROVE NoneFailed'
  <2> DEFINE n == Len(streams)
  <2>1. /\ DOMAIN streams' = 1..(n + 1) /\ n \in Nat
        /\ streams'[n + 1] = Fresh(d, "subscribing")
        /\ \A i \in 1..n : streams'[i] = Kicked({d})[i]
    BY <1>0, <1>3, SubscribedStreams
  <2>2. {d} \in SUBSET Devices /\ Fresh(d, "subscribing").st = "subscribing"
    BY DEF Fresh
  <2>3. \A i \in 1..n : streams'[i].st = streams[i].st
    BY <1>0, <2>1, <2>2, KickedStreams
  <2>4. \A i \in 1..(n + 1) : i \in 1..n \/ i = n + 1
    BY <2>1
  <2> QED BY <1>0, <2>1, <2>2, <2>3, <2>4 DEF NoneFailed
<1>4. ASSUME NEW i \in DOMAIN streams,
             Ready(i) \/ Leave(i) \/ Tell(i) \/ Closed(i) \/ ClientGone(i) \/ Lagged(i)
      PROVE  NoneFailed'
  <2>1. OneStream(i, streams'[i])
    BY <1>0, <1>4, StreamSteps
  <2>2. DOMAIN streams' = DOMAIN streams /\ \A j \in DOMAIN streams \ {i} : streams'[j] = streams[j]
    BY <1>0, <2>1, StreamsAre DEF OneStream
  <2>3. streams'[i].st # "failed"
    <3>1. i \in 1..Len(streams) /\ streams[i] \in Stream
      BY <1>0, <1>4, StreamsAre
    <3>2. \A why : Break(i, why) => streams'[i].st = "ending"
      BY <1>0, <3>1 DEF Break, Stream
    <3>3. Ready(i) \/ Leave(i) \/ Tell(i) => streams'[i].st = "running"
      BY <1>0, <3>1 DEF Ready, Leave, Tell, Stream
    <3> QED BY <1>4, <3>2, <3>3 DEF Closed, ClientGone, Lagged
  <2> QED BY <2>2, <2>3 DEF NoneFailed
<1>5. ASSUME NEW i \in DOMAIN streams, Teardown(i) PROVE NoneFailed'
  <2>1. /\ DOMAIN streams' = DOMAIN streams /\ streams'[i].st = "ended"
        /\ \A j \in DOMAIN streams \ {i} : streams'[j].st = streams[j].st
    BY <1>0, <1>5, TornDownStreams
  <2> QED BY <2>1 DEF NoneFailed
<1>6. CASE Restart
  BY <1>6 DEF Restart, Fresh, NoneFailed
<1>7. CASE UNCHANGED vars
  BY <1>7 DEF vars, NoneFailed
<1>8. ASSUME NEW i \in DOMAIN streams, SubscribeFails(i) PROVE NoneFailed'
  BY <1>8 DEF NoSubscriptionFails
<1> QED BY <1>0, <1>1, <1>2, <1>3, <1>4, <1>5, <1>6, <1>7, <1>8, HandlersClose DEF Next

\* Where no subscription fails half way, who passes for online has a stream: the
\* claim that the run "ghost" refutes breaks there and nowhere else.
THEOREM NoGhost == Spec /\ [][NoSubscriptionFails]_vars => []OnlineHasStream
<1>1. Init => NoneFailed
  <2>1. DOMAIN <<>> = {}
    OBVIOUS
  <2> QED BY <2>1 DEF Init, NoneFailed
<1>2. SessionsIInv /\ NoneFailed /\ [Next]_vars /\ [NoSubscriptionFails]_vars => NoneFailed'
  <2>1. NoneFailed /\ UNCHANGED vars => NoneFailed'
    BY DEF vars, NoneFailed
  <2> QED BY <2>1, NoneFailedKept DEF SessionsIInv
<1>3. NoneFailed /\ GhostIsFailed => OnlineHasStream
  BY DEF NoneFailed, GhostIsFailed, OnlineHasStream, Live, StreamsOf
<1> QED BY <1>1, <1>2, <1>3, SessionsInvariance, GhostsExplained, PTL DEF Spec

\* A device gets a stream only when no other stream of it is open.
OneStreamAtATime ==
    \A d \in Devices : Subscribe(d) =>
        \A i \in DOMAIN streams : Live(i) => streams[i].device # d

\* A live stream shares its device with no other, and no stream was robbed.
SoleStreams ==
    \A i \in DOMAIN streams :
        /\ Live(i) => sender[streams[i].device] \in {0, i}
        /\ ~streams[i].robbed

\* A kick leaves the stream its device and its place.
LEMMA KickedSole ==
  ASSUME TypeOK, NEW ds \in SUBSET Devices, NEW i \in 1..Len(streams),
         streams'[i] = Kicked(ds)[i]
  PROVE  /\ streams'[i].device = streams[i].device /\ (Live(i)' => Live(i))
         /\ (streams'[i].robbed => streams[i].robbed)
<1>1. /\ streams'[i].device = streams[i].device /\ streams'[i].st = streams[i].st
      /\ streams'[i].robbed = streams[i].robbed
  BY KickedStreams
<1> QED BY <1>1 DEF Live

\* Every step keeps it, where streams of a device do not overlap.
LEMMA SoleKept ==
  ASSUME Holding, SoleStreams, [Next]_vars, OneStreamAtATime
  PROVE  SoleStreams'
<1>0. TypeOK /\ DOMAIN streams = 1..Len(streams) /\ HoldersStand
  BY StreamsAre DEF Holding
<1>1. CASE Quiet
  BY <1>1 DEF Quiet, SoleStreams, Live
<1>2. ASSUME NEW ds \in SUBSET Devices, Closing(ds) PROVE SoleStreams'
  <2>1. DOMAIN streams' = DOMAIN streams /\ \A i \in DOMAIN streams : streams'[i] = Kicked(ds)[i]
    BY <1>0, <1>2, KickedStreams DEF Closing, Close
  <2>2. \A d \in Devices : sender'[d] \in {0, sender[d]}
    BY <1>2 DEF Closing, Close, Released
  <2>3. \A i \in DOMAIN streams : streams[i].device \in Devices
    BY <1>0, StreamDevice
  <2>4. \A i \in DOMAIN streams : /\ streams'[i].device = streams[i].device /\ (Live(i)' => Live(i))
                                  /\ (streams'[i].robbed => streams[i].robbed)
    BY <1>0, <2>1, KickedSole
  <2> QED BY <2>1, <2>2, <2>3, <2>4 DEF SoleStreams
<1>3. ASSUME NEW d \in Devices, Subscribe(d) PROVE SoleStreams'
  <2> DEFINE n == Len(streams)
  <2>1. /\ DOMAIN streams' = 1..(n + 1) /\ n \in Nat
        /\ streams'[n + 1] = Fresh(d, "subscribing")
        /\ \A i \in 1..n : streams'[i] = Kicked({d})[i]
    BY <1>0, <1>3, SubscribedStreams
  <2>2. Fresh(d, "subscribing").device = d /\ Fresh(d, "subscribing").robbed = FALSE
    BY DEF Fresh
  <2>3. \A e \in Devices : sender'[e] = IF e = d THEN n + 1 ELSE sender[e]
    BY <1>0, <1>3 DEF Subscribe, TypeOK
  <2>4. ASSUME NEW i \in 1..n
        PROVE  /\ Live(i)' => sender'[streams'[i].device] \in {0, i}
               /\ ~streams'[i].robbed
    <3>1. /\ streams'[i].device = streams[i].device /\ (Live(i)' => Live(i))
          /\ (streams'[i].robbed => streams[i].robbed)
      BY <1>0, <2>1, KickedSole
    <3>2. streams[i].device \in Devices /\ (Live(i) => streams[i].device # d)
      BY <1>0, <1>3, StreamDevice DEF OneStreamAtATime
    <3> QED BY <1>0, <2>3, <3>1, <3>2 DEF SoleStreams
  <2>5. /\ sender'[streams'[n + 1].device] \in {0, n + 1}
        /\ ~streams'[n + 1].robbed
    BY <2>1, <2>2, <2>3
  <2>6. \A i \in 1..(n + 1) : i \in 1..n \/ i = n + 1
    BY <2>1
  <2> QED BY <2>1, <2>4, <2>5, <2>6 DEF SoleStreams
<1>4. ASSUME NEW i \in DOMAIN streams,
             Ready(i) \/ SubscribeFails(i) \/ Leave(i) \/ Tell(i) \/ Closed(i) \/ ClientGone(i) \/ Lagged(i)
      PROVE  SoleStreams'
  <2>1. OneStream(i, streams'[i]) /\ streams'[i].device = streams[i].device
    BY <1>0, <1>4, StreamSteps
  <2>2. /\ DOMAIN streams' = DOMAIN streams /\ sender' = sender
        /\ \A j \in DOMAIN streams \ {i} : streams'[j] = streams[j]
    BY <1>0, <2>1, StreamsAre DEF OneStream
  <2>3. Live(i)
    BY <1>4 DEF Ready, SubscribeFails, Leave, Tell, Closed, ClientGone, Lagged, Break, Live
  <2>4. ~streams'[i].robbed
    <3>1. streams[i] \in Stream /\ ~streams[i].robbed
      BY <1>0, StreamsAre DEF SoleStreams
    <3>2. streams'[i].robbed = streams[i].robbed \/ ~streams'[i].robbed
      BY <1>0, <1>4, StreamFields
    <3> QED BY <3>1, <3>2
  <2> QED BY <2>1, <2>2, <2>3, <2>4 DEF SoleStreams, Live
<1>5. ASSUME NEW i \in DOMAIN streams, Teardown(i) PROVE SoleStreams'
  <2> DEFINE d == streams[i].device
  <2>1. d \in Devices /\ \A e \in Devices : sender'[e] \in {0, sender[e]}
    BY <1>0, <1>5, StreamDevice DEF Teardown, Released
  <2>2. sender[d] \in {0, i} /\ ~streams[i].robbed
    BY <1>5 DEF SoleStreams, Live, Teardown
  <2>3. /\ DOMAIN streams' = DOMAIN streams /\ streams'[i].st = "ended"
        /\ streams'[i] = Fresh(d, "ended")
        /\ \A j \in DOMAIN streams \ {i} :
              /\ streams'[j].device = streams[j].device /\ streams'[j].st = streams[j].st
              /\ streams'[j].robbed => streams[j].robbed \/ sender[d] = j
    BY <1>0, <1>5, TornDownStreams DEF Teardown
  <2>4. \A j \in DOMAIN streams : j # 0 /\ streams[j].device \in Devices
    BY <1>0, StreamDevice
  <2>5. ~streams'[i].robbed /\ ~Live(i)'
    BY <2>3 DEF Fresh, Live
  <2>6. ASSUME NEW j \in DOMAIN streams \ {i}
        PROVE  /\ Live(j)' => sender'[streams'[j].device] \in {0, j}
               /\ ~streams'[j].robbed
    <3>1. ~streams[j].robbed /\ (Live(j) => sender[streams[j].device] \in {0, j})
      BY DEF SoleStreams
    <3>2. Live(j)' => Live(j)
      BY <2>3 DEF Live
    <3>3. ~streams'[j].robbed
      BY <2>2, <2>3, <2>4, <3>1
    <3> QED BY <2>1, <2>3, <2>4, <3>1, <3>2, <3>3
  <2> QED BY <2>3, <2>5, <2>6 DEF SoleStreams
<1>6. CASE Restart
  BY <1>6 DEF Restart, Fresh, SoleStreams, Live
<1>7. CASE UNCHANGED vars
  BY <1>7 DEF vars, SoleStreams, Live
<1> QED BY <1>0, <1>1, <1>2, <1>3, <1>4, <1>5, <1>6, <1>7, HandlersClose DEF Next

\* Where a device subscribes only after its older streams have ended, a stream
\* is closed by the server only after a Kick: the claim that the run "robbed"
\* refutes breaks with the overlap of two streams of one device, and only there.
THEOREM NoRobbery == Spec /\ [][OneStreamAtATime]_vars => []ClosedOnlyByKick
<1>1. Init => SoleStreams
  <2>1. DOMAIN <<>> = {}
    OBVIOUS
  <2> QED BY <2>1 DEF Init, SoleStreams
<1>2. SessionsIInv /\ SoleStreams /\ [Next]_vars /\ [OneStreamAtATime]_vars => SoleStreams'
  <2>1. SoleStreams /\ UNCHANGED vars => SoleStreams'
    BY DEF vars, SoleStreams, Live
  <2> QED BY <2>1, SoleKept DEF SessionsIInv
<1>3. SoleStreams /\ ClosedAfterKick => ClosedOnlyByKick
  BY DEF SoleStreams, ClosedAfterKick, ClosedOnlyByKick
<1> QED BY <1>1, <1>2, <1>3, SessionsInvariance, ClosedKicked, PTL DEF Spec
=============================================================================
