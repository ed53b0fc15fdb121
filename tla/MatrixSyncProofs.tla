-------------------------- MODULE MatrixSyncProofs --------------------------
(***************************************************************************)
(* The sync requests of Matrix bots, for any number of bridges,            *)
(* administrators, messages, lost answers and restarts, and the presence of*)
(* bots.                                                                   *)
(*                                                                         *)
(* None of the three properties of the requests is inductive.  What a bridge*)
(* will read rests on what its request has found (RequestInv) and where it *)
(* started, which rests on max_mid (CacheInv).  A mid is Reached when a    *)
(* message is stored at or after it: what is stored behind it from then on *)
(* is late, and this is why a gap in what a bridge has read cannot open    *)
(* afterwards.                                                             *)
(***************************************************************************)
EXTENDS MatrixSync, BotPresence, FiniteSetTheorems, WellFoundedInduction, TLAPS

----------------------------------------------------------------------------
\* Sync requests.

----------------------------------------------------------------------------
\* Largest elements.

\* A set of naturals below n that is not empty has a largest element: what is
\* left from it to n is least.
LEMMA LargestExists ==
  ASSUME NEW n \in Nat, NEW S \in SUBSET (0..n), S # {}
  PROVE  \E x \in S : \A y \in S : x >= y
<1> DEFINE T == {n - x : x \in S}
<1>1. T \subseteq Nat /\ T # {}
  <2>1. \A x \in S : n - x \in Nat /\ n - x \in T
    OBVIOUS
  <2>2. PICK x \in S : TRUE
    OBVIOUS
  <2> QED BY <2>1, <2>2
<1>2. PICK t \in T : \A u \in T : <<u, t>> \notin OpToRel(<, Nat)
  BY <1>1, NatLessThanWellFounded, WFMin
<1>3. \A u \in T : ~(u < t)
  BY <1>1, <1>2 DEF OpToRel
<1>4. PICK x \in S : t = n - x
  BY <1>2
<1>5. \A y \in S : x >= y
  <2> SUFFICES ASSUME NEW y \in S PROVE x >= y
    OBVIOUS
  <2>1. n - y \in T
    OBVIOUS
  <2>2. ~(n - y < n - x)
    BY <1>3, <1>4, <2>1
  <2>3. x \in Nat /\ y \in Nat
    BY <1>4
  <2> QED BY <2>2, <2>3
<1> QED BY <1>4, <1>5

\* SetMax takes it, or 0 where there is none.
LEMMA SetMaxIs ==
  ASSUME NEW S, S \subseteq 0..MaxMid
  PROVE  /\ SetMax(S) \in S \cup {0} /\ SetMax(S) \in 0..MaxMid
         /\ \A y \in S : y <= SetMax(S)
<1>1. MaxMid \in Nat /\ S \cup {0} \in SUBSET (0..MaxMid)
  BY SyncAssumption
<1>2. PICK x \in S \cup {0} : \A y \in S \cup {0} : x >= y
  BY <1>1, LargestExists
<1>3. \E z \in S \cup {0} : \A y \in S : z >= y
  BY <1>2
<1>4. SetMax(S) \in S \cup {0} /\ \A y \in S : SetMax(S) >= y
  BY <1>3 DEF SetMax
<1> QED BY <1>1, <1>4

----------------------------------------------------------------------------
\* The inductive invariant.

SyncRecord == [pc : {"idle", "lock", "build", "snap", "poll", "record"},
               since : 0..MaxMid, cached : 0..MaxMid, uids : SUBSET Uids, batch : SUBSET Mids]
ClientRecord == [known : BOOLEAN, token : 0..MaxMid, first : 0..MaxMid, got : SUBSET Mids]
HistRecord == [late : SUBSET Mids, aged : SUBSET Mids, fickle : SUBSET Uids, gone : BOOLEAN, unsaid : BOOLEAN]
CacheRecord == [fresh : BOOLEAN, uids : SUBSET Uids, maxMid : 0..MaxMid]
MidRecord == [from : Uids \cup {Person}, to : Uids, group : BOOLEAN, at : {"none", "stored", "lost"}]

\* A mid up to which something is stored: what is stored below it from now on
\* is late.
Reached(n) == n = 0 \/ \E x \in Stored : n <= x

Polling(c) == sync[c].pc \in {"poll", "record"}

\* A set of bots names those that are bots throughout, unless it was cleared.
Names(uids) == uids = {} \/ Uids \ hist.fickle \subseteq uids

Excused(m) == m \in hist.late \cup hist.aged \/ mids[m].to \in hist.fickle

\* The bots in State.cache and BOT_CACHE.
CacheInv ==
    /\ Reached(botCache.maxMid)
    /\ Uids \ hist.fickle \subseteq bots
    /\ Names(botCache.uids)
    /\ ~hist.gone => botCache.uids \subseteq bots

\* A request goes on from the client's token or from before it, names the bots,
\* and has found all messages between where it starts and what it found.
RequestInv(c) ==
    /\ Reached(sync[c].since)
    /\ Polling(c) /\ client[c].known => sync[c].since <= client[c].token
    /\ Names(sync[c].uids)
    /\ sync[c].batch \subseteq Stored
    /\ sync[c].pc = "record" <=> sync[c].batch # {}
    /\ \A m \in sync[c].batch : sync[c].since < m /\ mids[m].to \in sync[c].uids
    /\ \A n \in sync[c].batch, m \in Stored :
          sync[c].since < m /\ m <= n => m \in sync[c].batch \/ Excused(m)
    /\ ~hist.gone => sync[c].uids \subseteq bots

\* What a client got is complete up to its token, and neither its token nor
\* max_mid goes back behind a direct message that it got.
ReadInv(c) ==
    /\ Reached(client[c].token)
    /\ client[c].got \subseteq Stored
    /\ ~client[c].known => client[c].got = {}
    /\ \A m \in Stored :
          client[c].known /\ client[c].first < m /\ m <= client[c].token =>
              m \in client[c].got \/ Excused(m)
    /\ ~hist.gone => \A m \in client[c].got :
          /\ mids[m].to \in bots
          /\ ~mids[m].group =>
                m <= client[c].token /\ m <= botCache.maxMid /\ (Polling(c) => m <= sync[c].since)

SyncIInv ==
    /\ TypeOK
    /\ CacheInv
    /\ \A c \in Clients : RequestInv(c) /\ ReadInv(c)
    /\ BotsKnown

----------------------------------------------------------------------------
\* What a step may do to the messages and the bots, as far as the invariant
\* looks at them.
WorldMoves ==
    /\ Stored \subseteq Stored'
    /\ \A m \in Stored : mids'[m].to = mids[m].to /\ mids'[m].group = mids[m].group
    /\ \A m \in Stored' \ Stored : (\E x \in Stored : x > m) => m \in hist'.late
    /\ hist.late \subseteq hist'.late /\ hist.aged \subseteq hist'.aged /\ hist.fickle \subseteq hist'.fickle
    /\ ~hist'.gone => ~hist.gone /\ bots \subseteq bots'

\* What a step may do to max_mid.
MaxMoves ==
    ~hist'.gone => \A m \in Stored :
        mids[m].to \in bots /\ ~mids[m].group /\ m <= botCache.maxMid => m <= botCache'.maxMid

\* What is reached stays so.
LEMMA ReachedStays == WorldMoves => \A n : Reached(n) => Reached(n)'
BY DEF WorldMoves, Reached

\* A message that is new below something stored is excused, and so is one that
\* was excused before.
LEMMA ExcusedStays ==
  ASSUME TypeOK, WorldMoves
  PROVE  /\ \A m \in Stored : Excused(m) => Excused(m)'
         /\ \A m \in Stored' \ Stored : \A n : Reached(n) /\ m <= n /\ n \in 0..MaxMid => Excused(m)'
<1>1. \A m \in Stored : Excused(m) => Excused(m)'
  BY DEF WorldMoves, Excused
<1>2. ASSUME NEW m \in Stored' \ Stored, NEW n \in 0..MaxMid, Reached(n), m <= n
      PROVE  Excused(m)'
  <2>1. m \in Mids /\ Stored \subseteq Mids
    BY DEF Stored
  <2>2. PICK x \in Stored : n <= x
    BY <1>2, <2>1, SyncAssumption DEF Reached, Mids
  <2>3. x > m
    BY <1>2, <2>1, <2>2, SyncAssumption DEF Mids
  <2> QED BY <2>2, <2>3 DEF WorldMoves, Excused
<1> QED BY <1>1, <1>2

\* The names that a set of bots has stay there.
LEMMA NamesStay == WorldMoves => \A uids : Names(uids) => Names(uids)'
BY DEF WorldMoves, Names

\* A request that a step leaves alone, or ends.
LEMMA RequestStays ==
  ASSUME TypeOK, WorldMoves, NEW c \in Clients, RequestInv(c),
         sync'[c] = sync[c], client'[c] = client[c]
  PROVE  RequestInv(c)'
<1>1. sync[c] \in SyncRecord /\ SyncRecord = SyncRecord
  BY DEF TypeOK, SyncRecord
<1>2. sync[c].since \in 0..MaxMid /\ sync[c].batch \subseteq 0..MaxMid
  BY <1>1 DEF SyncRecord, Mids
<1>3. Reached(sync[c].since)' /\ Names(sync[c].uids)'
  BY ReachedStays, NamesStay DEF RequestInv
<1>4. ASSUME NEW n \in sync[c].batch, NEW m \in Stored', sync[c].since < m, m <= n
      PROVE  m \in sync[c].batch \/ Excused(m)'
  <2>1. Reached(n) /\ n \in 0..MaxMid
    BY <1>2, SyncAssumption DEF RequestInv, Reached
  <2>2. CASE m \in Stored
    BY <1>4, <2>2, ExcusedStays DEF RequestInv
  <2>3. CASE m \notin Stored
    BY <1>4, <2>1, <2>3, ExcusedStays
  <2> QED BY <2>2, <2>3
<1>5. /\ sync[c].batch \subseteq Stored'
      /\ \A m \in sync[c].batch : mids'[m].to = mids[m].to
      /\ ~hist'.gone => sync[c].uids \subseteq bots'
  BY DEF WorldMoves, RequestInv
<1> QED BY <1>3, <1>4, <1>5 DEF RequestInv, Polling

\* What a client has read stays complete.
LEMMA ReadStays ==
  ASSUME TypeOK, WorldMoves, MaxMoves, NEW c \in Clients, ReadInv(c), client'[c] = client[c],
         sync'[c] = sync[c] \/ ~Polling(c)'
  PROVE  ReadInv(c)'
<1>1. client[c].token \in 0..MaxMid
  BY DEF TypeOK
<1>2. Reached(client[c].token)'
  BY ReachedStays DEF ReadInv
<1>3. ASSUME NEW m \in Stored', client[c].known, client[c].first < m, m <= client[c].token
      PROVE  m \in client[c].got \/ Excused(m)'
  <2>1. CASE m \in Stored
    BY <1>3, <2>1, ExcusedStays DEF ReadInv
  <2>2. CASE m \notin Stored
    BY <1>1, <1>3, <2>2, ExcusedStays DEF ReadInv
  <2> QED BY <2>1, <2>2
<1>4. client[c].got \subseteq Stored'
  BY DEF WorldMoves, ReadInv
<1>5. ASSUME ~hist'.gone, NEW m \in client[c].got
      PROVE  /\ mids'[m].to \in bots'
             /\ ~mids'[m].group =>
                   m <= client[c].token /\ m <= botCache'.maxMid /\ (Polling(c)' => m <= sync'[c].since)
  BY <1>5 DEF WorldMoves, MaxMoves, ReadInv, Polling
<1> QED BY <1>2, <1>3, <1>4, <1>5 DEF ReadInv

\* A request that waits, or ends.
LEMMA RequestWaits ==
  ASSUME TypeOK, WorldMoves, NEW c \in Clients, RequestInv(c), ~Polling(c)', sync'[c].batch = {},
         sync'[c].since \in {0, sync[c].since}, sync'[c].uids \in {{}, sync[c].uids}
  PROVE  RequestInv(c)'
<1>1. PICK n, us : n = sync'[c].since /\ us = sync'[c].uids
  OBVIOUS
<1>3. Reached(0)' /\ Names({})'
  BY DEF Reached, Names
<1>4. Reached(n)'
  <2>1. CASE n = 0
    BY <1>3, <2>1
  <2>2. CASE n = sync[c].since
    BY <2>2, ReachedStays DEF RequestInv
  <2> QED BY <1>1, <2>1, <2>2
<1>5. Names(us)'
  <2>1. CASE us = {}
    BY <1>3, <2>1
  <2>2. CASE us = sync[c].uids
    BY <2>2, NamesStay DEF RequestInv
  <2> QED BY <1>1, <2>1, <2>2
<1>6. Reached(sync[c].since)' /\ Names(sync[c].uids)'
  BY <1>1, <1>4, <1>5
<1>7. sync'[c].pc # "record"
  BY DEF Polling
<1>2. ~hist'.gone => sync'[c].uids \subseteq bots'
  BY DEF WorldMoves, RequestInv
<1> QED BY <1>2, <1>6, <1>7 DEF RequestInv, Polling

\* The steps of one client are nothing to the others.
LEMMA OthersStay ==
  ASSUME SyncIInv, WorldMoves, MaxMoves, NEW c,
         \A e \in Clients \ {c} : sync'[e] = sync[e] /\ client'[e] = client[e]
  PROVE  \A e \in Clients \ {c} : RequestInv(e)' /\ ReadInv(e)'
BY RequestStays, ReadStays DEF SyncIInv

\* Messages and bots stay as they are.
LEMMA WorldStill == UNCHANGED <<mids, hist, bots>> => WorldMoves
BY DEF WorldMoves, Stored

\* A step that leaves BOT_CACHE alone leaves max_mid alone.
LEMMA MaxStill == UNCHANGED botCache => MaxMoves
BY DEF MaxMoves

\* What holds of BOT_CACHE goes on to hold while nobody writes it.
LEMMA CacheStays == SyncIInv /\ WorldMoves /\ UNCHANGED botCache /\ CacheInv /\ Uids \ hist'.fickle \subseteq bots' => CacheInv'
BY ReachedStays, NamesStay DEF CacheInv, WorldMoves

\* A request moves on to another stage, or ends.
LEMMA ToMoves ==
  ASSUME TypeOK, NEW c \in Clients, NEW p \in {"idle", "lock", "build", "snap", "poll", "record"},
         sync' = To(c, p)
  PROVE  /\ sync' \in [Clients -> SyncRecord]
         /\ sync'[c].pc = p /\ sync'[c].since = sync[c].since /\ sync'[c].uids = sync[c].uids
         /\ sync'[c].batch = sync[c].batch
         /\ \A e \in Clients \ {c} : sync'[e] = sync[e]
<1> DEFINE r == [sync[c] EXCEPT !.pc = p]
<1>1. sync \in [Clients -> SyncRecord] /\ sync' = [sync EXCEPT ![c] = r]
  BY DEF TypeOK, SyncRecord, To
<1>2. /\ r \in SyncRecord
      /\ r.pc = p /\ r.since = sync[c].since /\ r.uids = sync[c].uids /\ r.batch = sync[c].batch
  BY <1>1 DEF SyncRecord
<1> HIDE DEF r
<1> QED BY <1>1, <1>2

\* A request ends.
LEMMA ReturnMoves ==
  ASSUME TypeOK, NEW c \in Clients, sync' = Return(c)
  PROVE  /\ sync' \in [Clients -> SyncRecord]
         /\ sync'[c].pc = "idle" /\ sync'[c].since = 0 /\ sync'[c].uids = {} /\ sync'[c].batch = {}
         /\ ~Polling(c)'
         /\ \A e \in Clients \ {c} : sync'[e] = sync[e]
<1>1. IdleSync \in SyncRecord
  BY SyncAssumption DEF IdleSync, SyncRecord
<1>2. sync \in [Clients -> SyncRecord] /\ sync' = [sync EXCEPT ![c] = IdleSync]
  BY DEF TypeOK, SyncRecord, Return
<1> QED BY <1>1, <1>2 DEF IdleSync, Polling

----------------------------------------------------------------------------
\* The messages.

\* Messages are stored under mids, and 0 is none.
LEMMA StoredTypes == Stored \subseteq Mids /\ Mids \subseteq 0..MaxMid /\ 0 \notin Mids
BY SyncAssumption DEF Stored, Mids

\* The largest mid that is stored.
LEMMA MaxMsgIdIs ==
  /\ Reached(MaxMsgId) /\ MaxMsgId \in 0..MaxMid
  /\ \A m \in Stored : m <= MaxMsgId
<1>1. Stored \subseteq 0..MaxMid
  BY StoredTypes
<1>2. MaxMsgId \in Stored \cup {0} /\ MaxMsgId \in 0..MaxMid /\ \A m \in Stored : m <= MaxMsgId
  BY <1>1, SetMaxIs DEF MaxMsgId
<1> QED BY <1>2 DEF Reached

\* The newest direct message to some of the bots.
LEMMA NewestIs ==
  ASSUME NEW uids
  PROVE  /\ Reached(NewestOf(uids)) /\ NewestOf(uids) \in 0..MaxMid
         /\ \A m \in Stored : mids[m].to \in uids /\ ~mids[m].group => m <= NewestOf(uids)
<1> DEFINE S == {m \in Stored : ~mids[m].group /\ (mids[m].to \in uids \/ mids[m].from \in uids)}
<1>1. S \subseteq 0..MaxMid /\ S \subseteq Stored /\ Stored \subseteq 0..MaxMid
  BY StoredTypes
<1>2. NewestOf(uids) = SetMax(S)
  BY DEF NewestOf
<1>3. SetMax(S) \in S \cup {0} /\ SetMax(S) \in 0..MaxMid /\ \A m \in S : m <= SetMax(S)
  BY <1>1, SetMaxIs
<1>4. Reached(SetMax(S))
  BY <1>1, <1>3 DEF Reached
<1> QED BY <1>2, <1>3, <1>4

\* A message is stored.
LEMMA SendKept ==
  ASSUME SyncIInv, NEW m \in Mids, NEW from \in Uids \cup {Person}, NEW to \in Uids, NEW group \in BOOLEAN,
         Send(m, from, to, group)
  PROVE  SyncIInv'
<1> DEFINE r == [from |-> from, to |-> to, group |-> group, at |-> "stored"]
           h == [hist EXCEPT !.late = IF MaxMsgId > m THEN @ \cup {m} ELSE @]
<1>1. /\ TypeOK /\ CacheInv /\ BotsKnown
      /\ mids[m].at = "none" /\ mids' = [mids EXCEPT ![m] = r]
      /\ hist' = h
      /\ UNCHANGED <<bots, botCache, stateGuard, botGuard, sync, admin, client, used>>
  BY DEF SyncIInv, Send
<1>2. mids \in [Mids -> MidRecord] /\ hist \in HistRecord
  BY <1>1 DEF TypeOK, MidRecord, HistRecord
<1>3. r \in MidRecord /\ r.at = "stored"
  BY DEF MidRecord
<1>4. /\ h \in HistRecord /\ h.aged = hist.aged /\ h.fickle = hist.fickle /\ h.gone = hist.gone
      /\ h.unsaid = hist.unsaid /\ h.late = IF MaxMsgId > m THEN hist.late \cup {m} ELSE hist.late
  BY <1>2 DEF HistRecord
<1> HIDE DEF r, h
<1>5. /\ mids' \in [Mids -> MidRecord] /\ mids'[m] = r
      /\ \A x \in Mids \ {m} : mids'[x] = mids[x]
  BY <1>1, <1>2, <1>3
<1>6. TypeOK'
  BY <1>1, <1>4, <1>5 DEF TypeOK, MidRecord, HistRecord
<1>7. Stored' = Stored \cup {m} /\ m \notin Stored
  BY <1>1, <1>3, <1>5 DEF Stored
<1>8. (\E x \in Stored : x > m) => m \in h.late
  BY <1>4, MaxMsgIdIs, StoredTypes, SyncAssumption DEF Mids
<1>9. WorldMoves
  BY <1>1, <1>4, <1>5, <1>7, <1>8, StoredTypes DEF WorldMoves
<1>10. CacheInv'
  BY <1>1, <1>4, <1>9, CacheStays DEF SyncIInv, CacheInv
<1>11. \A e \in Clients : RequestInv(e)' /\ ReadInv(e)'
  BY <1>1, <1>9, MaxStill, RequestStays, ReadStays DEF SyncIInv
<1>12. BotsKnown'
  BY <1>1, <1>4 DEF BotsKnown
<1> QED BY <1>6, <1>10, <1>11, <1>12 DEF SyncIInv

----------------------------------------------------------------------------
\* The steps of a sync request.

UsedRecord == [syncs : Nat, admin : Nat, troubles : Nat]

\* Trouble is counted.
LEMMA TroubleTypes == TypeOK /\ Trouble => used' \in UsedRecord
BY DEF TypeOK, Trouble, UsedRecord

\* The type invariant, when only a sync request moved.
LEMMA SyncTypes ==
  ASSUME TypeOK, UNCHANGED <<mids, hist, bots, stateGuard, admin>>,
         sync' \in [Clients -> SyncRecord], botCache' \in CacheRecord,
         client' \in [Clients -> ClientRecord],
         botGuard' \in Clients \cup {Free}, used' \in UsedRecord,
         \A c \in Clients : botGuard' = c <=> sync'[c].pc = "build"
  PROVE  TypeOK'
BY DEF TypeOK, SyncRecord, CacheRecord, ClientRecord, UsedRecord

\* A request moves to a stage where it does not read the messages yet, or ends.
LEMMA WaitKept ==
  ASSUME SyncIInv, TypeOK', UNCHANGED <<mids, hist, bots, botCache, admin, client>>,
         NEW c \in Clients, ~Polling(c)', sync'[c].batch = {},
         sync'[c].since \in {0, sync[c].since}, sync'[c].uids \in {{}, sync[c].uids},
         \A e \in Clients \ {c} : sync'[e] = sync[e]
  PROVE  SyncIInv'
<1>1. TypeOK /\ CacheInv /\ BotsKnown /\ RequestInv(c) /\ ReadInv(c) /\ WorldMoves /\ MaxMoves
  BY WorldStill, MaxStill DEF SyncIInv
<1>2. RequestInv(c)'
  BY <1>1, RequestWaits
<1>3. ReadInv(c)'
  BY <1>1, ReadStays
<1>4. \A e \in Clients \ {c} : RequestInv(e)' /\ ReadInv(e)'
  BY <1>1, OthersStay
<1>5. CacheInv'
  BY <1>1, CacheStays DEF CacheInv
<1>6. BotsKnown'
  BY <1>1 DEF BotsKnown
<1> QED BY <1>2, <1>3, <1>4, <1>5, <1>6 DEF SyncIInv

\* init_bot_cache finds the cache fresh, or goes to wait for its lock.
LEMMA BeginKept ==
  ASSUME SyncIInv, NEW c \in Clients, Begin(c)
  PROVE  SyncIInv'
<1> DEFINE p == IF botCache.fresh THEN "snap" ELSE "lock"
<1>1. /\ TypeOK /\ RequestInv(c) /\ sync[c].pc = "idle" /\ botGuard = Free /\ sync' = To(c, p)
      /\ used' = [used EXCEPT !.syncs = @ + 1]
      /\ UNCHANGED <<bots, botCache, stateGuard, botGuard, mids, admin, client, hist>>
  BY DEF SyncIInv, Begin
<1>2. p \in {"snap", "lock"}
  OBVIOUS
<1> HIDE DEF p
<1>3. /\ sync' \in [Clients -> SyncRecord] /\ sync'[c].pc = p
      /\ sync'[c].since = sync[c].since /\ sync'[c].uids = sync[c].uids /\ sync'[c].batch = sync[c].batch
      /\ \A e \in Clients \ {c} : sync'[e] = sync[e]
  BY <1>1, <1>2, ToMoves
<1>4. \A e \in Clients : botGuard' = e <=> sync'[e].pc = "build"
  BY <1>1, <1>2, <1>3, SyncAssumption DEF TypeOK
<1>5. used' \in UsedRecord
  BY <1>1 DEF TypeOK, UsedRecord
<1>6. TypeOK'
  BY <1>1, <1>3, <1>4, <1>5, SyncTypes DEF TypeOK, CacheRecord, ClientRecord
<1>7. ~Polling(c)' /\ sync'[c].batch = {}
  BY <1>1, <1>2, <1>3 DEF Polling, RequestInv
<1> QED BY <1>1, <1>3, <1>6, <1>7, WaitKept

\* The request that has the write guard of BOT_CACHE goes to wait for State.cache.
LEMMA LockKept ==
  ASSUME SyncIInv, NEW c \in Clients, Lock(c)
  PROVE  SyncIInv'
<1>1. /\ TypeOK /\ RequestInv(c) /\ sync[c].pc = "lock" /\ botGuard = Free /\ botGuard' = c
      /\ sync' = To(c, "build")
      /\ UNCHANGED <<bots, botCache, stateGuard, mids, admin, client, hist, used>>
  BY DEF SyncIInv, Lock
<1>3. /\ sync' \in [Clients -> SyncRecord] /\ sync'[c].pc = "build"
      /\ sync'[c].since = sync[c].since /\ sync'[c].uids = sync[c].uids /\ sync'[c].batch = sync[c].batch
      /\ \A e \in Clients \ {c} : sync'[e] = sync[e]
  BY <1>1, ToMoves
<1>4. \A e \in Clients : botGuard' = e <=> sync'[e].pc = "build"
  BY <1>1, <1>3, SyncAssumption DEF TypeOK
<1>6. TypeOK'
  BY <1>1, <1>3, <1>4, SyncTypes DEF TypeOK, CacheRecord, ClientRecord, UsedRecord
<1>7. ~Polling(c)' /\ sync'[c].batch = {}
  BY <1>1, <1>3 DEF Polling, RequestInv
<1> QED BY <1>1, <1>3, <1>6, <1>7, WaitKept

\* A dropped request gives its guard back.
LEMMA DropSyncKept ==
  ASSUME SyncIInv, NEW c \in Clients, DropSync(c)
  PROVE  SyncIInv'
<1>1. /\ TypeOK /\ Trouble /\ sync' = Return(c) /\ botGuard' = Released(c)
      /\ UNCHANGED <<bots, botCache, stateGuard, mids, admin, client, hist>>
  BY DEF SyncIInv, DropSync
<1>2. /\ sync' \in [Clients -> SyncRecord] /\ sync'[c].pc = "idle"
      /\ sync'[c].since = 0 /\ sync'[c].uids = {} /\ sync'[c].batch = {}
      /\ ~Polling(c)'
      /\ \A e \in Clients \ {c} : sync'[e] = sync[e]
  BY <1>1, ReturnMoves
<1>3. \A e \in Clients : botGuard' = e <=> sync'[e].pc = "build"
  BY <1>1, <1>2, SyncAssumption DEF TypeOK, Released
<1>4. TypeOK'
  BY <1>1, <1>2, <1>3, TroubleTypes, SyncTypes DEF TypeOK, CacheRecord, ClientRecord, Released
<1> QED BY <1>1, <1>2, <1>4, WaitKept

\* The cache as it is built from the bots.
LEMMA BuiltIs ==
  ASSUME SyncIInv, WorldMoves, Stored' = Stored, UNCHANGED bots, hist'.fickle = hist.fickle,
         botCache' = [fresh |-> TRUE, uids |-> bots, maxMid |-> NewestOf(bots)]
  PROVE  botCache' \in CacheRecord /\ MaxMoves /\ CacheInv' /\ BotsKnown'
<1>1. TypeOK /\ CacheInv
  BY DEF SyncIInv
<1>2. /\ NewestOf(bots) \in 0..MaxMid /\ Reached(NewestOf(bots))
      /\ \A m \in Stored : mids[m].to \in bots /\ ~mids[m].group => m <= NewestOf(bots)
  BY NewestIs
<1>3. PICK n : n = NewestOf(bots)
  OBVIOUS
<1>4. botCache'.fresh /\ botCache'.uids = bots /\ botCache'.maxMid = n /\ botCache' \in CacheRecord
  BY <1>1, <1>2, <1>3 DEF TypeOK, CacheRecord
<1>5. MaxMoves
  BY <1>2, <1>3, <1>4 DEF MaxMoves
<1>6. Reached(n)'
  BY <1>2, <1>3, ReachedStays
<1>7. CacheInv'
  BY <1>1, <1>4, <1>6 DEF CacheInv, Names
<1>8. BotsKnown'
  BY <1>4 DEF BotsKnown
<1> QED BY <1>4, <1>5, <1>7, <1>8

\* init_bot_cache builds the cache again: max_mid goes back to the newest direct
\* message, which is not before any that was answered.
LEMMA BuildKept ==
  ASSUME SyncIInv, NEW c \in Clients, Build(c)
  PROVE  SyncIInv'
<1>1. /\ TypeOK /\ RequestInv(c) /\ ReadInv(c)
      /\ sync[c].pc = "build" /\ botGuard' = Free /\ sync' = To(c, "snap")
      /\ botCache' = [fresh |-> TRUE, uids |-> bots, maxMid |-> NewestOf(bots)]
      /\ UNCHANGED <<bots, stateGuard, mids, admin, client, hist, used>>
  BY DEF SyncIInv, Build
<1>2. WorldMoves /\ Stored' = Stored
  BY <1>1, WorldStill DEF Stored
<1>3. botCache' \in CacheRecord /\ MaxMoves /\ CacheInv' /\ BotsKnown'
  BY <1>1, <1>2, BuiltIs
<1>4. /\ sync' \in [Clients -> SyncRecord] /\ sync'[c].pc = "snap"
      /\ sync'[c].since = sync[c].since /\ sync'[c].uids = sync[c].uids /\ sync'[c].batch = sync[c].batch
      /\ \A e \in Clients \ {c} : sync'[e] = sync[e]
  BY <1>1, ToMoves
<1>5. botGuard = c
  BY <1>1 DEF TypeOK
<1>6. \A e \in Clients : botGuard' = e <=> sync'[e].pc = "build"
  BY <1>1, <1>4, <1>5, SyncAssumption DEF TypeOK
<1>7. TypeOK'
  BY <1>1, <1>3, <1>4, <1>6, SyncTypes DEF TypeOK, ClientRecord, UsedRecord
<1>8. ~Polling(c)' /\ sync'[c].batch = {}
  BY <1>1, <1>4 DEF Polling, RequestInv
<1>9. RequestInv(c)'
  BY <1>1, <1>2, <1>4, <1>8, RequestWaits
<1>10. ReadInv(c)'
  BY <1>1, <1>2, <1>3, <1>8, ReadStays
<1>11. \A e \in Clients \ {c} : RequestInv(e)' /\ ReadInv(e)'
  BY <1>1, <1>2, <1>3, <1>4, OthersStay
<1> QED BY <1>3, <1>7, <1>9, <1>10, <1>11 DEF SyncIInv

\* Where a request starts: not behind what its client got, and not before
\* its token.
LEMMA SinceIs ==
  ASSUME SyncIInv, NEW c \in Clients
  PROVE  /\ Since(c) \in 0..MaxMid /\ Reached(Since(c))
         /\ client[c].known => Since(c) <= client[c].token
         /\ ~hist.gone => \A m \in client[c].got : ~mids[m].group => m <= Since(c)
<1>1. CacheInv /\ ReadInv(c) /\ client[c].token \in 0..MaxMid /\ botCache.maxMid \in 0..MaxMid
  BY DEF SyncIInv, TypeOK
<1>2. CASE client[c].known /\ client[c].token < botCache.maxMid
  BY <1>1, <1>2 DEF Since, ReadInv
<1>3. CASE ~(client[c].known /\ client[c].token < botCache.maxMid)
  BY <1>1, <1>3, SyncAssumption DEF Since, ReadInv, CacheInv
<1> QED BY <1>2, <1>3

\* The snapshot: the request starts at SinceIs.
LEMMA SnapKept ==
  ASSUME SyncIInv, NEW c \in Clients, Snap(c)
  PROVE  SyncIInv'
<1> DEFINE r == [pc |-> "poll", since |-> Since(c), cached |-> botCache.maxMid,
                 uids |-> botCache.uids, batch |-> {}]
<1>1. /\ TypeOK /\ CacheInv /\ BotsKnown /\ RequestInv(c) /\ ReadInv(c)
      /\ sync[c].pc = "snap" /\ botGuard = Free /\ sync' = [sync EXCEPT ![c] = r]
      /\ UNCHANGED <<bots, botCache, stateGuard, botGuard, mids, admin, client, hist, used>>
  BY DEF SyncIInv, Snap
<1>2. PICK n : n = Since(c)
  OBVIOUS
<1>3. /\ n \in 0..MaxMid /\ Reached(n)
      /\ client[c].known => n <= client[c].token
      /\ ~hist.gone => \A m \in client[c].got : ~mids[m].group => m <= n
  BY <1>2, SinceIs
<1>4. /\ r \in SyncRecord /\ r.pc = "poll" /\ r.since = n /\ r.uids = botCache.uids /\ r.batch = {}
  BY <1>1, <1>2, <1>3 DEF TypeOK, SyncRecord
<1> HIDE DEF r
<1>5. /\ sync' \in [Clients -> SyncRecord] /\ sync'[c] = r
      /\ \A e \in Clients \ {c} : sync'[e] = sync[e]
  BY <1>1, <1>4 DEF TypeOK, SyncRecord
<1>6. \A e \in Clients : botGuard' = e <=> sync'[e].pc = "build"
  BY <1>1, <1>4, <1>5, SyncAssumption DEF TypeOK
<1>7. TypeOK'
  BY <1>1, <1>5, <1>6, SyncTypes DEF TypeOK, CacheRecord, ClientRecord, UsedRecord
<1>8. WorldMoves /\ MaxMoves
  BY <1>1, WorldStill, MaxStill
<1>9. CacheInv' /\ BotsKnown'
  BY <1>1, <1>8, CacheStays DEF CacheInv, BotsKnown
<1>10. Reached(n)' /\ Stored' = Stored
  BY <1>1, <1>3, <1>8, ReachedStays DEF Stored
<1>11. RequestInv(c)'
  BY <1>1, <1>3, <1>4, <1>5, <1>9, <1>10 DEF RequestInv, CacheInv
<1>12. ReadInv(c)'
  <2>1. Reached(client[c].token)'
    BY <1>1, <1>8, ReachedStays DEF ReadInv
  <2>2. \A m : Excused(m)' <=> Excused(m)
    BY <1>1 DEF Excused
  <2> QED BY <1>1, <1>3, <1>4, <1>5, <1>10, <2>1, <2>2 DEF ReadInv
<1>13. \A e \in Clients \ {c} : RequestInv(e)' /\ ReadInv(e)'
  BY <1>1, <1>5, <1>8, OthersStay
<1> QED BY <1>7, <1>9, <1>11, <1>12, <1>13 DEF SyncIInv

\* With a message, the fetch finds those before it.
LEMMA AfterClosed ==
  ASSUME NEW since \in 0..MaxMid, NEW n \in After(since), NEW m \in Stored, since < m, m <= n
  PROVE  m \in After(since)
<1> DEFINE later == {x \in Stored : x > since}
           Below(k) == {x \in later : x < k}
<1>1. later \subseteq 1..MaxMid /\ IsFiniteSet(1..MaxMid) /\ MaxMid \in Nat
  <2>1. MaxMid \in Int /\ 1 \in Int /\ MaxMid \in Nat
    BY SyncAssumption
  <2>2. IsFiniteSet(1..MaxMid)
    BY <2>1, FS_Interval
  <2>3. later \subseteq 1..MaxMid
    BY DEF Stored, Mids
  <2> QED BY <2>1, <2>2, <2>3
<1>2. IsFiniteSet(later)
  BY <1>1, FS_Subset
<1>3. n \in later /\ m \in later /\ Cardinality(Below(n)) < FetchLimit
  BY <1>1, SyncAssumption DEF After
<1>4. Below(m) \subseteq Below(n) /\ Below(n) \subseteq later
  BY <1>1, <1>3, SyncAssumption
<1>5. IsFiniteSet(Below(n))
  BY <1>2, <1>4, FS_Subset
<1>6. Cardinality(Below(m)) <= Cardinality(Below(n)) /\ IsFiniteSet(Below(m))
  BY <1>4, <1>5, FS_Subset
<1>7. Cardinality(Below(m)) \in Nat /\ Cardinality(Below(n)) \in Nat
  BY <1>5, <1>6, FS_CardinalityType
<1>8. Cardinality(Below(m)) < FetchLimit
  BY <1>3, <1>6, <1>7, SyncAssumption
<1> QED BY <1>3, <1>8 DEF After

\* The messages are found in order, so what is passed over is too old or to nobody
\* that is a bot throughout.
LEMMA FetchKept ==
  ASSUME SyncIInv, NEW c \in Clients, NEW oldest \in 0..MaxMid, Fetch(c, oldest)
  PROVE  SyncIInv'
<1> DEFINE toBots == {m \in After(sync[c].since) : mids[m].to \in sync[c].uids}
           events == {m \in toBots : m > oldest}
           r == [sync[c] EXCEPT !.pc = "record", !.batch = events]
           h == [hist EXCEPT !.aged = @ \cup (toBots \ events)]
<1>1. /\ TypeOK /\ CacheInv /\ BotsKnown /\ RequestInv(c) /\ ReadInv(c)
      /\ sync \in [Clients -> SyncRecord] /\ hist \in HistRecord
  BY DEF SyncIInv, TypeOK, SyncRecord, HistRecord
<1>2. /\ sync[c].pc = "poll" /\ sync[c].uids # {} /\ events # {}
      /\ sync' = [sync EXCEPT ![c].pc = "record", ![c].batch = events]
      /\ hist' = h
      /\ UNCHANGED <<bots, botCache, stateGuard, botGuard, mids, admin, client, used>>
  BY DEF Fetch
<1>3. sync' = [sync EXCEPT ![c] = r]
  BY <1>1, <1>2
<1>4. sync[c].since \in 0..MaxMid /\ After(sync[c].since) \subseteq Stored
  BY <1>1 DEF SyncRecord, After
<1>5. \A m \in After(sync[c].since) : sync[c].since < m
  BY <1>4, StoredTypes, SyncAssumption DEF After
<1>6. /\ toBots \subseteq Stored /\ events \subseteq toBots
      /\ \A m \in events : sync[c].since < m /\ mids[m].to \in sync[c].uids
  BY <1>4, <1>5
<1>7. \A n \in events, m \in Stored : sync[c].since < m /\ m <= n =>
          m \in events \/ m \in toBots \ events \/ mids[m].to \in hist.fickle
  <2> SUFFICES ASSUME NEW n \in events, NEW m \in Stored, sync[c].since < m, m <= n
               PROVE  m \in toBots \/ mids[m].to \in hist.fickle
    OBVIOUS
  <2>1. m \in After(sync[c].since)
    BY <1>4, AfterClosed
  <2>2. mids[m].to \in Uids
    BY <1>1 DEF TypeOK, Stored
  <2>3. mids[m].to \in sync[c].uids \/ mids[m].to \in hist.fickle
    BY <1>1, <1>2, <2>2 DEF RequestInv, Names
  <2> QED BY <2>1, <2>3
<1>8. toBots \subseteq Mids /\ events \subseteq Mids
  BY <1>6, StoredTypes
<1>9. /\ r \in SyncRecord /\ r.pc = "record" /\ r.batch = events
      /\ r.since = sync[c].since /\ r.uids = sync[c].uids
  BY <1>1, <1>8 DEF SyncRecord
<1>10. /\ h \in HistRecord /\ h.aged = hist.aged \cup (toBots \ events) /\ h.late = hist.late
       /\ h.fickle = hist.fickle /\ h.gone = hist.gone /\ h.unsaid = hist.unsaid
  BY <1>1, <1>8 DEF HistRecord
<1> HIDE DEF toBots, events, r, h
<1>11. /\ sync' \in [Clients -> SyncRecord] /\ sync'[c] = r
       /\ \A e \in Clients \ {c} : sync'[e] = sync[e]
  BY <1>1, <1>3, <1>9
<1>12. \A e \in Clients : botGuard' = e <=> sync'[e].pc = "build"
  BY <1>1, <1>2, <1>9, <1>11 DEF TypeOK
<1>13. TypeOK'
  BY <1>1, <1>2, <1>10, <1>11, <1>12 DEF TypeOK, SyncRecord, HistRecord
<1>14. Stored' = Stored
  BY <1>2 DEF Stored
<1>15. WorldMoves /\ MaxMoves
  BY <1>2, <1>10, <1>14, MaxStill DEF WorldMoves
<1>16. CacheInv' /\ BotsKnown'
  BY <1>1, <1>2, <1>10, <1>15, CacheStays DEF CacheInv, BotsKnown
<1>17. RequestInv(c)'
  <2>1. Reached(sync[c].since)' /\ Names(sync[c].uids)'
    <3>1. PICK n, us : n = sync[c].since /\ us = sync[c].uids
      OBVIOUS
    <3>2. Reached(n)' /\ Names(us)'
      BY <1>1, <1>15, <3>1, ReachedStays, NamesStay DEF RequestInv
    <3> QED BY <1>9, <1>11, <3>1, <3>2
  <2>2. \A m : m \in toBots \ events \/ mids[m].to \in hist.fickle => Excused(m)'
    BY <1>2, <1>10 DEF Excused
  <2> QED BY <1>1, <1>2, <1>6, <1>7, <1>9, <1>10, <1>11, <1>14, <2>1, <2>2 DEF RequestInv, Polling
<1>18. ReadInv(c)'
  <2>1. Reached(client[c].token)'
    BY <1>1, <1>2, <1>15, ReachedStays DEF ReadInv
  <2>2. \A m \in Stored : Excused(m) => Excused(m)'
    BY <1>1, <1>15, ExcusedStays
  <2> QED BY <1>1, <1>2, <1>9, <1>10, <1>11, <1>14, <2>1, <2>2 DEF ReadInv, Polling
<1>19. \A e \in Clients \ {c} : RequestInv(e)' /\ ReadInv(e)'
  BY <1>2, <1>11, <1>15, OthersStay
<1> QED BY <1>13, <1>16, <1>17, <1>18, <1>19 DEF SyncIInv

\* What a client is after an answer.
LEMMA AnsweredIs ==
  ASSUME TypeOK, NEW c \in Clients, NEW next \in 0..MaxMid, NEW ms, ms \subseteq Mids,
         client' = Answered(c, next, ms)
  PROVE  /\ client' \in [Clients -> ClientRecord]
         /\ client'[c].known /\ client'[c].token = next /\ client'[c].got = client[c].got \cup ms
         /\ client'[c].first = IF client[c].known THEN client[c].first ELSE sync[c].since
         /\ \A e \in Clients \ {c} : client'[e] = client[e]
<1> DEFINE first == IF client[c].known THEN client[c].first ELSE sync[c].since
           r == [known |-> TRUE, token |-> next, got |-> client[c].got \cup ms, first |-> first]
<1>1. client \in [Clients -> ClientRecord] /\ sync[c].since \in 0..MaxMid
  BY DEF TypeOK, ClientRecord
<1>2. client' = [client EXCEPT ![c] = r]
  BY <1>1 DEF Answered
<1>3. first \in 0..MaxMid
  BY <1>1 DEF ClientRecord
<1>4. r \in ClientRecord /\ r.known /\ r.token = next /\ r.got = client[c].got \cup ms /\ r.first = first
  BY <1>1, <1>3 DEF ClientRecord
<1> HIDE DEF r
<1> QED BY <1>1, <1>2, <1>4

\* A client that reads an answer has read all messages up to its new token.
LEMMA AnswerRead ==
  ASSUME SyncIInv, UNCHANGED <<mids, hist, bots>>, MaxMoves, NEW c \in Clients, Polling(c), ~Polling(c)',
         NEW next \in 0..MaxMid, Reached(next), sync[c].since <= next,
         client' = Answered(c, next, sync[c].batch),
         \A m \in Stored : sync[c].since < m /\ m <= next => m \in sync[c].batch \/ Excused(m),
         \A m \in sync[c].batch : m <= next /\ m <= botCache'.maxMid
  PROVE  ReadInv(c)'
<1>1. TypeOK /\ RequestInv(c) /\ ReadInv(c)
  BY DEF SyncIInv
<1>2. /\ sync[c].since \in 0..MaxMid /\ sync[c].batch \subseteq Mids /\ client[c].token \in 0..MaxMid
      /\ client[c].got \subseteq Mids
  BY <1>1 DEF TypeOK
<1>3. /\ client'[c].known /\ client'[c].token = next /\ client'[c].got = client[c].got \cup sync[c].batch
      /\ client'[c].first = IF client[c].known THEN client[c].first ELSE sync[c].since
  BY <1>1, <1>2, AnsweredIs
<1>4. WorldMoves /\ Stored' = Stored
  BY WorldStill DEF Stored
<1>5. \A m : Excused(m)' <=> Excused(m)
  BY DEF Excused
<1>6. Reached(next)'
  BY <1>4, ReachedStays
<1>7. ASSUME NEW m \in Stored, client'[c].first < m, m <= next
      PROVE  m \in client'[c].got \/ Excused(m)
  <2>1. m \in 0..MaxMid
    BY StoredTypes
  <2>2. CASE sync[c].since < m
    BY <1>3, <1>7, <2>2
  <2>3. CASE ~(sync[c].since < m)
    <3>1. client[c].known
      BY <1>3, <1>7, <2>3
    <3>2. m <= client[c].token
      BY <1>1, <1>2, <2>1, <2>3, <3>1, SyncAssumption DEF RequestInv
    <3> QED BY <1>1, <1>3, <1>7, <3>1, <3>2 DEF ReadInv
  <2> QED BY <2>2, <2>3
<1>8. ASSUME ~hist.gone, NEW m \in client'[c].got
      PROVE  mids[m].to \in bots /\ (~mids[m].group => m <= next /\ m <= botCache'.maxMid)
  <2>1. CASE m \in sync[c].batch
    BY <1>1, <1>8, <2>1 DEF RequestInv
  <2>2. CASE m \in client[c].got
    <3>1. /\ mids[m].to \in bots /\ m \in Stored
          /\ ~mids[m].group => m <= sync[c].since /\ m <= botCache.maxMid
      BY <1>1, <1>8, <2>2 DEF ReadInv
    <3>2. m \in 0..MaxMid
      BY <1>2, <2>2, StoredTypes
    <3>3. ~mids[m].group => m <= next
      BY <1>2, <3>1, <3>2, SyncAssumption
    <3> QED BY <1>8, <3>1, <3>3 DEF MaxMoves
  <2> QED BY <1>3, <2>1, <2>2
<1>9. client'[c].got \subseteq Stored
  BY <1>1, <1>3 DEF RequestInv, ReadInv
<1> QED BY <1>3, <1>4, <1>5, <1>6, <1>7, <1>8, <1>9 DEF ReadInv

\* max_mid is raised and the answer goes out, or is lost.
LEMMA RecordKept ==
  ASSUME SyncIInv, NEW c \in Clients, Record(c)
  PROVE  SyncIInv'
<1> DEFINE next == NextBatch(c)
           top == Raised(next)
<1>1. TypeOK /\ CacheInv /\ BotsKnown /\ RequestInv(c) /\ ReadInv(c)
  BY DEF SyncIInv
<1>20. /\ sync[c].pc = "record" /\ botGuard = Free /\ sync' = Return(c)
       /\ UNCHANGED <<bots, stateGuard, botGuard, mids, admin, hist>>
  BY Zenon DEF Record
<1>21. \/ client' = Answered(c, next, sync[c].batch) /\ UNCHANGED used
       \/ Trouble /\ UNCHANGED client
  BY Zenon DEF Record
<1>19. botCache' = [botCache EXCEPT !.maxMid = top]
  BY Zenon DEF Record
<1>2. /\ sync[c].batch # {} /\ sync[c].batch \subseteq Stored /\ sync[c].batch \subseteq Mids
      /\ sync[c].since \in 0..MaxMid /\ botCache.maxMid \in 0..MaxMid
      /\ botCache \in CacheRecord
      /\ sync[c].batch \subseteq 0..MaxMid
  BY <1>1, <1>20, <1>21, StoredTypes DEF TypeOK, RequestInv, CacheRecord
<1>3. next \in sync[c].batch /\ next \in 0..MaxMid /\ \A m \in sync[c].batch : m <= next
  <2>1. next = SetMax(sync[c].batch)
    BY DEF NextBatch
  <2>2. next \in sync[c].batch \cup {0} /\ next \in 0..MaxMid /\ \A m \in sync[c].batch : m <= next
    BY <1>2, <2>1, SetMaxIs
  <2>3. next # 0
    BY <1>2, <2>2, SyncAssumption DEF Mids
  <2> QED BY <2>2, <2>3
<1>4. top \in {botCache.maxMid, next} /\ top \in 0..MaxMid /\ botCache.maxMid <= top /\ next <= top
  <2>1. top = SetMax({botCache.maxMid, next}) /\ {botCache.maxMid, next} \subseteq 0..MaxMid
    BY <1>2, <1>3 DEF Raised
  <2>2. /\ top \in {botCache.maxMid, next, 0} /\ top \in 0..MaxMid
        /\ botCache.maxMid <= top /\ next <= top
    BY <2>1, SetMaxIs
  <2> QED BY <1>2, <1>3, <2>2, SyncAssumption
<1> HIDE DEF next, top
<1>5. /\ botCache' \in CacheRecord /\ botCache'.maxMid = top /\ botCache'.fresh = botCache.fresh
      /\ botCache'.uids = botCache.uids
  BY <1>2, <1>4, <1>19 DEF CacheRecord
<1>6. /\ sync' \in [Clients -> SyncRecord] /\ sync'[c].pc = "idle" /\ sync'[c].since = 0
      /\ sync'[c].uids = {} /\ sync'[c].batch = {} /\ ~Polling(c)'
      /\ \A e \in Clients \ {c} : sync'[e] = sync[e]
  BY <1>1, <1>20, <1>21, ReturnMoves
<1>7. \A e \in Clients : botGuard' = e <=> sync'[e].pc = "build"
  BY <1>1, <1>20, <1>21, <1>6, SyncAssumption DEF TypeOK
<1>8. /\ client' \in [Clients -> ClientRecord]
      /\ \A e \in Clients \ {c} : client'[e] = client[e]
  <2>1. CASE client' = Answered(c, next, sync[c].batch)
    BY <1>1, <1>20, <1>21, <1>2, <1>3, <2>1, AnsweredIs
  <2>2. CASE UNCHANGED client
    BY <1>1, <1>20, <1>21, <2>2 DEF TypeOK, ClientRecord
  <2> QED BY <1>1, <1>20, <1>21, <2>1, <2>2
<1>9. used' \in UsedRecord
  BY <1>1, <1>20, <1>21, TroubleTypes DEF TypeOK, UsedRecord
<1>10. TypeOK'
  BY <1>1, <1>20, <1>21, <1>5, <1>6, <1>7, <1>8, <1>9, SyncTypes DEF TypeOK
<1>11. WorldMoves
  BY <1>1, <1>20, <1>21, WorldStill
<1>12. MaxMoves
  <2>1. \A m \in Stored : m <= botCache.maxMid => m <= top
    BY <1>2, <1>4, StoredTypes, SyncAssumption
  <2> QED BY <1>5, <2>1 DEF MaxMoves
<1>13. Reached(next) /\ Reached(top)
  <2>1. Reached(next)
    BY <1>2, <1>3, SyncAssumption DEF Reached, Mids
  <2> QED BY <1>1, <1>20, <1>21, <1>4, <2>1 DEF CacheInv
<1>14. CacheInv'
  <2>1. PICK n : n = top
    OBVIOUS
  <2>2. Reached(n)'
    BY <1>11, <1>13, <2>1, ReachedStays
  <2> QED BY <1>1, <1>20, <1>21, <1>5, <2>1, <2>2 DEF CacheInv, Names
<1>15. BotsKnown'
  BY <1>1, <1>20, <1>21, <1>5 DEF BotsKnown
<1>16. RequestInv(c)'
  BY <1>1, <1>20, <1>21, <1>6, <1>11, RequestWaits
<1>17. ReadInv(c)'
  <2>1. CASE client' = Answered(c, next, sync[c].batch)
    <3>1. \A m \in Stored : sync[c].since < m /\ m <= next => m \in sync[c].batch \/ Excused(m)
      BY <1>1, <1>20, <1>21, <1>3 DEF RequestInv
    <3>2. sync[c].since <= next
      BY <1>1, <1>20, <1>21, <1>2, <1>3, SyncAssumption DEF RequestInv
    <3>3. \A m \in sync[c].batch : m <= next /\ m <= botCache'.maxMid
      BY <1>2, <1>3, <1>4, <1>5, SyncAssumption
    <3>4. Polling(c)
      BY <1>20 DEF Polling
    <3> QED BY <1>1, <1>20, <1>21, <1>3, <1>6, <1>12, <1>13, <2>1, <3>1, <3>2, <3>3, <3>4, AnswerRead
  <2>2. CASE UNCHANGED client
    BY <1>1, <1>20, <1>21, <1>6, <1>11, <1>12, <2>2, ReadStays
  <2> QED BY <1>1, <1>20, <1>21, <2>1, <2>2
<1>18. \A e \in Clients \ {c} : RequestInv(e)' /\ ReadInv(e)'
  BY <1>20, <1>6, <1>8, <1>11, <1>12, OthersStay
<1> QED BY <1>10, <1>14, <1>15, <1>16, <1>17, <1>18 DEF SyncIInv

\* An empty answer: the client stays where the request started.
LEMMA TimeoutKept ==
  ASSUME SyncIInv, NEW c \in Clients, Timeout(c)
  PROVE  SyncIInv'
<1>1. /\ TypeOK /\ CacheInv /\ BotsKnown /\ RequestInv(c) /\ ReadInv(c)
      /\ sync[c].pc = "poll" /\ sync' = Return(c) /\ client' = Answered(c, sync[c].since, {})
      /\ UNCHANGED <<bots, botCache, stateGuard, botGuard, mids, admin, hist, used>>
  BY DEF SyncIInv, Timeout
<1>2. PICK n : n = sync[c].since
  OBVIOUS
<1>3. n \in 0..MaxMid /\ Reached(n) /\ sync[c].batch = {}
  BY <1>1, <1>2 DEF TypeOK, RequestInv
<1>4. client' = Answered(c, n, sync[c].batch)
  BY <1>1, <1>2, <1>3
<1>5. /\ client' \in [Clients -> ClientRecord]
      /\ \A e \in Clients \ {c} : client'[e] = client[e]
  BY <1>1, <1>3, <1>4, AnsweredIs
<1>6. /\ sync' \in [Clients -> SyncRecord] /\ sync'[c].pc = "idle" /\ sync'[c].since = 0
      /\ sync'[c].uids = {} /\ sync'[c].batch = {} /\ ~Polling(c)'
      /\ \A e \in Clients \ {c} : sync'[e] = sync[e]
  BY <1>1, ReturnMoves
<1>7. \A e \in Clients : botGuard' = e <=> sync'[e].pc = "build"
  BY <1>1, <1>6, SyncAssumption DEF TypeOK
<1>8. TypeOK'
  BY <1>1, <1>5, <1>6, <1>7, SyncTypes DEF TypeOK, CacheRecord, UsedRecord
<1>9. WorldMoves /\ MaxMoves
  BY <1>1, WorldStill, MaxStill
<1>10. CacheInv' /\ BotsKnown'
  BY <1>1, <1>9, CacheStays DEF CacheInv, BotsKnown
<1>11. RequestInv(c)'
  BY <1>1, <1>6, <1>9, RequestWaits
<1>12. ReadInv(c)'
  <2>1. Polling(c)
    BY <1>1 DEF Polling
  <2>2. \A m \in Stored : sync[c].since < m /\ m <= n => m \in sync[c].batch \/ Excused(m)
    <3>1. \A m \in Stored : m \in 0..MaxMid
      BY StoredTypes
    <3>2. \A m \in Stored : ~(n < m /\ m <= n)
      BY <1>3, <3>1, SyncAssumption
    <3> QED BY <1>2, <3>2
  <2>3. sync[c].since <= n
    BY <1>2, <1>3, SyncAssumption
  <2> QED BY <1>1, <1>3, <1>4, <1>6, <1>9, <2>1, <2>2, <2>3, AnswerRead
<1>13. \A e \in Clients \ {c} : RequestInv(e)' /\ ReadInv(e)'
  BY <1>5, <1>6, <1>9, OthersStay
<1> QED BY <1>8, <1>10, <1>11, <1>12, <1>13 DEF SyncIInv

----------------------------------------------------------------------------
\* The steps of the administrators.

\* The type invariant, when an administrator moved.
LEMMA AdminTypes ==
  ASSUME TypeOK, UNCHANGED <<mids, botGuard, sync, client>>,
         bots' \subseteq Uids, botCache' \in CacheRecord, stateGuard' \in Admins \cup {Free},
         admin' \in [Admins -> {"idle", "invalidate"}], hist' \in HistRecord, used' \in UsedRecord
  PROVE  TypeOK'
BY DEF TypeOK, CacheRecord, HistRecord, UsedRecord

\* The requests, when an administrator moved.
LEMMA RequestsStay ==
  ASSUME SyncIInv, WorldMoves, MaxMoves, UNCHANGED <<sync, client>>
  PROVE  \A e \in Clients : RequestInv(e)' /\ ReadInv(e)'
BY RequestStays, ReadStays DEF SyncIInv

\* A request of an administrator is counted.
LEMMA AdministerIs ==
  ASSUME TypeOK, NEW a \in Admins, Administer(a)
  PROVE  used' \in UsedRecord
BY DEF TypeOK, Administer, UsedRecord

\* An invalidation is on its way.
LEMMA InvalidateComes ==
  ASSUME TypeOK, NEW a \in Admins, admin' = [admin EXCEPT ![a] = "invalidate"]
  PROVE  admin' \in [Admins -> {"idle", "invalidate"}] /\ BotsKnown'
<1>1. admin' \in [Admins -> {"idle", "invalidate"}] /\ admin'[a] = "invalidate"
  BY DEF TypeOK
<1> QED BY <1>1 DEF BotsKnown

\* A bot more: nothing that was named is missing.
LEMMA CreateBotKept ==
  ASSUME SyncIInv, NEW a \in Admins, NEW u \in Uids, CreateBot(a, u)
  PROVE  SyncIInv'
<1>1. /\ TypeOK /\ CacheInv
      /\ Administer(a) /\ bots' = bots \cup {u} /\ stateGuard' = a
      /\ admin' = [admin EXCEPT ![a] = "invalidate"]
      /\ UNCHANGED <<botCache, botGuard, mids, sync, client, hist>>
  BY DEF SyncIInv, CreateBot
<1>2. admin' \in [Admins -> {"idle", "invalidate"}] /\ BotsKnown' /\ used' \in UsedRecord
  BY <1>1, InvalidateComes, AdministerIs
<1>3. TypeOK'
  BY <1>1, <1>2, AdminTypes DEF TypeOK, CacheRecord, HistRecord
<1>4. WorldMoves /\ MaxMoves
  BY <1>1, MaxStill DEF WorldMoves, Stored
<1>5. CacheInv'
  BY <1>1, <1>4, CacheStays DEF CacheInv
<1> QED BY <1>1, <1>2, <1>3, <1>4, <1>5, RequestsStay DEF SyncIInv

\* A key of a bot changes.
LEMMA ChangeKeyKept ==
  ASSUME SyncIInv, NEW a \in Admins, ChangeKey(a)
  PROVE  SyncIInv'
<1>1. /\ TypeOK /\ CacheInv
      /\ Administer(a) /\ stateGuard' = a
      /\ admin' = [admin EXCEPT ![a] = "invalidate"]
      /\ UNCHANGED <<bots, botCache, botGuard, mids, sync, client, hist>>
  BY DEF SyncIInv, ChangeKey
<1>2. admin' \in [Admins -> {"idle", "invalidate"}] /\ BotsKnown' /\ used' \in UsedRecord
  BY <1>1, InvalidateComes, AdministerIs
<1>3. TypeOK'
  BY <1>1, <1>2, AdminTypes DEF TypeOK, CacheRecord, HistRecord
<1>4. WorldMoves /\ MaxMoves
  BY <1>1, WorldStill, MaxStill
<1>5. CacheInv'
  BY <1>1, <1>4, CacheStays DEF CacheInv
<1> QED BY <1>1, <1>2, <1>3, <1>4, <1>5, RequestsStay DEF SyncIInv

\* A bot less: its messages are excused from now on.
LEMMA DeleteBotKept ==
  ASSUME SyncIInv, NEW a \in Admins, NEW u \in Uids, DeleteBot(a, u)
  PROVE  SyncIInv'
<1> DEFINE h == [hist EXCEPT !.fickle = @ \cup {u}, !.gone = TRUE]
<1>1. TypeOK /\ CacheInv /\ hist \in HistRecord
  BY DEF SyncIInv, TypeOK, HistRecord
<1>2. /\ Administer(a) /\ bots' = bots \ {u}
      /\ admin' = [admin EXCEPT ![a] = "invalidate"]
      /\ hist' = h
      /\ UNCHANGED <<botCache, stateGuard, botGuard, mids, sync, client>>
  BY DEF DeleteBot
<1>3. /\ h \in HistRecord /\ h.late = hist.late /\ h.aged = hist.aged
      /\ h.fickle = hist.fickle \cup {u} /\ h.gone
  BY <1>1 DEF HistRecord
<1> HIDE DEF h
<1>4. admin' \in [Admins -> {"idle", "invalidate"}] /\ BotsKnown' /\ used' \in UsedRecord
  BY <1>1, <1>2, InvalidateComes, AdministerIs
<1>5. TypeOK'
  BY <1>1, <1>2, <1>3, <1>4, AdminTypes DEF TypeOK, CacheRecord
<1>6. WorldMoves /\ MaxMoves
  BY <1>2, <1>3, MaxStill DEF WorldMoves, Stored
<1>7. CacheInv'
  BY <1>1, <1>2, <1>3, <1>6, CacheStays DEF CacheInv
<1> QED BY <1>2, <1>4, <1>5, <1>6, <1>7, RequestsStay DEF SyncIInv

\* A user becomes a bot or is one no more, and nobody invalidates the cache.
LEMMA RetypeKept ==
  ASSUME SyncIInv, NEW a \in Admins, NEW u \in Uids, Retype(a, u)
  PROVE  SyncIInv'
<1> DEFINE h == [hist EXCEPT !.fickle = @ \cup {u}, !.gone = @ \/ u \in bots, !.unsaid = TRUE]
<1>1. TypeOK /\ CacheInv /\ hist \in HistRecord
  BY DEF SyncIInv, TypeOK, HistRecord
<1>2. /\ Administer(a) /\ bots' = (bots \ {u}) \cup ({u} \ bots)
      /\ hist' = h
      /\ UNCHANGED <<botCache, stateGuard, botGuard, mids, sync, admin, client>>
  BY DEF Retype
<1>3. /\ h \in HistRecord /\ h.late = hist.late /\ h.aged = hist.aged
      /\ h.fickle = hist.fickle \cup {u} /\ h.unsaid
      /\ h.gone <=> hist.gone \/ u \in bots
  BY <1>1 DEF HistRecord
<1> HIDE DEF h
<1>4. used' \in UsedRecord /\ BotsKnown'
  BY <1>1, <1>2, <1>3, AdministerIs DEF BotsKnown
<1>5. TypeOK'
  BY <1>1, <1>2, <1>3, <1>4, AdminTypes DEF TypeOK, CacheRecord
<1>6. WorldMoves /\ MaxMoves
  BY <1>2, <1>3, MaxStill DEF WorldMoves, Stored
<1>7. CacheInv'
  BY <1>1, <1>2, <1>3, <1>6, CacheStays DEF CacheInv
<1> QED BY <1>2, <1>4, <1>5, <1>6, <1>7, RequestsStay DEF SyncIInv

\* The cache is cleared, and max_mid stays.
LEMMA InvalidateKept ==
  ASSUME SyncIInv, NEW a \in Admins, Invalidate(a)
  PROVE  SyncIInv'
<1> DEFINE r == [botCache EXCEPT !.fresh = FALSE, !.uids = {}]
<1>1. TypeOK /\ CacheInv /\ botCache \in CacheRecord
  BY DEF SyncIInv, TypeOK, CacheRecord
<1>2. /\ botCache' = r
      /\ admin' = [admin EXCEPT ![a] = "idle"]
      /\ stateGuard' = IF stateGuard = a THEN Free ELSE stateGuard
      /\ UNCHANGED <<bots, botGuard, mids, sync, client, hist, used>>
  BY DEF Invalidate, Cleared
<1>3. r \in CacheRecord /\ ~r.fresh /\ r.uids = {} /\ r.maxMid = botCache.maxMid
  BY <1>1 DEF CacheRecord
<1> HIDE DEF r
<1>4. TypeOK'
  BY <1>1, <1>2, <1>3, AdminTypes DEF TypeOK, HistRecord, UsedRecord
<1>5. WorldMoves /\ MaxMoves
  BY <1>2, <1>3, WorldStill DEF MaxMoves
<1>6. CacheInv'
  <2>1. Reached(botCache.maxMid)'
    <3>1. PICK n : n = botCache.maxMid
      OBVIOUS
    <3>2. Reached(n)'
      BY <1>1, <1>5, <3>1, ReachedStays DEF CacheInv
    <3> QED BY <1>2, <1>3, <3>1, <3>2
  <2> QED BY <1>1, <1>2, <1>3, <2>1 DEF CacheInv, Names
<1>7. BotsKnown'
  BY <1>2, <1>3 DEF BotsKnown
<1> QED BY <1>2, <1>4, <1>5, <1>6, <1>7, RequestsStay DEF SyncIInv

\* An invalidation that does not come is known.
LEMMA DropAdminKept ==
  ASSUME SyncIInv, NEW a \in Admins, DropAdmin(a)
  PROVE  SyncIInv'
<1> DEFINE h == [hist EXCEPT !.unsaid = TRUE]
<1>1. TypeOK /\ CacheInv /\ hist \in HistRecord
  BY DEF SyncIInv, TypeOK, HistRecord
<1>2. /\ Trouble
      /\ admin' = [admin EXCEPT ![a] = "idle"]
      /\ stateGuard' = IF stateGuard = a THEN Free ELSE stateGuard
      /\ hist' = h
      /\ UNCHANGED <<bots, botCache, botGuard, mids, sync, client>>
  BY DEF DropAdmin
<1>3. /\ h \in HistRecord /\ h.late = hist.late /\ h.aged = hist.aged
      /\ h.fickle = hist.fickle /\ h.unsaid /\ h.gone = hist.gone
  BY <1>1 DEF HistRecord
<1> HIDE DEF h
<1>4. TypeOK'
  BY <1>1, <1>2, <1>3, TroubleTypes, AdminTypes DEF TypeOK, CacheRecord
<1>5. WorldMoves /\ MaxMoves
  BY <1>2, <1>3, MaxStill DEF WorldMoves, Stored
<1>6. CacheInv' /\ BotsKnown'
  BY <1>1, <1>2, <1>3, <1>5, CacheStays DEF CacheInv, BotsKnown
<1> QED BY <1>2, <1>4, <1>5, <1>6, RequestsStay DEF SyncIInv

----------------------------------------------------------------------------
\* The process starts again: mids that were drawn are lost, and no message is.
LEMMA SyncRestartKept ==
  ASSUME SyncIInv, Restart
  PROVE  SyncIInv'
<1> DEFINE h == [hist EXCEPT !.unsaid = FALSE]
<1>1. TypeOK /\ hist \in HistRecord /\ mids \in [Mids -> MidRecord]
  BY DEF SyncIInv, TypeOK, HistRecord, MidRecord
<1>2. /\ Trouble
      /\ botCache' = [fresh |-> TRUE, uids |-> bots, maxMid |-> NewestOf(bots)]
      /\ stateGuard' = Free /\ botGuard' = Free
      /\ sync' = [c \in Clients |-> IdleSync]
      /\ admin' = [a \in Admins |-> "idle"]
      /\ hist' = h
      /\ UNCHANGED <<bots, client>>
  BY DEF Restart
<1>3. mids' = [m \in Mids |-> IF mids[m].at = "none" /\ m < MaxMsgId THEN [mids[m] EXCEPT !.at = "lost"]
                              ELSE mids[m]]
  BY DEF Restart
<1>4. /\ h \in HistRecord /\ h.late = hist.late /\ h.aged = hist.aged
      /\ h.fickle = hist.fickle /\ h.gone = hist.gone
  BY <1>1 DEF HistRecord
<1> HIDE DEF h
<1>5. /\ mids' \in [Mids -> MidRecord]
      /\ \A m \in Mids : /\ mids'[m].to = mids[m].to /\ mids'[m].group = mids[m].group
                         /\ mids'[m].at = "stored" <=> mids[m].at = "stored"
  <2>1. ASSUME NEW m \in Mids
        PROVE  /\ mids'[m] \in MidRecord
               /\ mids'[m].to = mids[m].to /\ mids'[m].group = mids[m].group
               /\ mids'[m].at = "stored" <=> mids[m].at = "stored"
    <3>1. mids[m] \in MidRecord
      BY <1>1
    <3>2. CASE mids[m].at = "none" /\ m < MaxMsgId
      <4>1. mids'[m] = [mids[m] EXCEPT !.at = "lost"]
        BY <1>3, <3>2
      <4> QED BY <3>1, <3>2, <4>1 DEF MidRecord
    <3>3. CASE ~(mids[m].at = "none" /\ m < MaxMsgId)
      <4>1. mids'[m] = mids[m]
        BY <1>3, <3>3
      <4> QED BY <3>1, <4>1
    <3> QED BY <3>2, <3>3
  <2>2. mids' = [m \in Mids |-> mids'[m]]
    BY <1>3
  <2> QED BY <2>1, <2>2
<1>6. Stored' = Stored
  BY <1>5 DEF Stored
<1>7. WorldMoves
  BY <1>2, <1>4, <1>5, <1>6, StoredTypes DEF WorldMoves
<1>8. botCache' \in CacheRecord /\ MaxMoves /\ CacheInv' /\ BotsKnown'
  BY <1>2, <1>4, <1>6, <1>7, BuiltIs
<1>9. IdleSync \in SyncRecord /\ IdleSync.pc = "idle" /\ IdleSync.since = 0 /\ IdleSync.uids = {} /\ IdleSync.batch = {}
  BY SyncAssumption DEF IdleSync, SyncRecord
<1>10. sync' \in [Clients -> SyncRecord] /\ \A e \in Clients : sync'[e] = IdleSync
  BY <1>2, <1>9
<1>11. TypeOK'
  BY <1>1, <1>2, <1>4, <1>5, <1>8, <1>9, <1>10, TroubleTypes, SyncAssumption
  DEF TypeOK, SyncRecord, CacheRecord, HistRecord, UsedRecord, MidRecord
<1>12. \A e \in Clients : RequestInv(e)' /\ ReadInv(e)'
  <2> SUFFICES ASSUME NEW e \in Clients PROVE RequestInv(e)' /\ ReadInv(e)'
    OBVIOUS
  <2>1. ~Polling(e)' /\ sync'[e].batch = {} /\ sync'[e].since = 0 /\ sync'[e].uids = {}
    BY <1>9, <1>10 DEF Polling
  <2> QED BY <1>1, <1>2, <1>7, <1>8, <2>1, RequestWaits, ReadStays DEF SyncIInv
<1> QED BY <1>8, <1>11, <1>12 DEF SyncIInv

\* The cache names the bots at the start, and nothing is stored.
LEMMA SyncInitHolds == Init => SyncIInv
<1> SUFFICES ASSUME Init PROVE SyncIInv
  OBVIOUS
<1>1. /\ bots = FirstBots
      /\ botCache = [fresh |-> TRUE, uids |-> FirstBots, maxMid |-> 0]
      /\ stateGuard = Free /\ botGuard = Free
      /\ sync = [c \in Clients |-> IdleSync]
      /\ admin = [a \in Admins |-> "idle"]
      /\ client = [c \in Clients |-> [known |-> FALSE, token |-> 0, first |-> 0, got |-> {}]]
      /\ hist = [late |-> {}, aged |-> {}, fickle |-> Uids \ FirstBots, gone |-> FALSE, unsaid |-> FALSE]
      /\ used = [syncs |-> 0, admin |-> 0, troubles |-> 0]
  BY DEF Init
<1>2. mids \in [Mids -> MidRecord] /\ \A m \in Mids : mids[m].at = "none"
  <2>1. PICK u \in Uids : u = CHOOSE w \in Uids : TRUE
    BY SyncAssumption
  <2>2. mids = [m \in Mids |-> [from |-> Person, to |-> u, group |-> FALSE, at |-> "none"]]
    BY <2>1 DEF Init
  <2> QED BY <2>2 DEF MidRecord
<1>3. Stored = {}
  BY <1>2 DEF Stored
<1>4. IdleSync \in SyncRecord /\ IdleSync.pc = "idle" /\ IdleSync.since = 0 /\ IdleSync.uids = {} /\ IdleSync.batch = {}
  BY SyncAssumption DEF IdleSync, SyncRecord
<1>5. sync \in [Clients -> SyncRecord] /\ \A c \in Clients : sync[c] = IdleSync
  BY <1>1, <1>4
<1>6. TypeOK
  BY <1>1, <1>2, <1>4, <1>5, SyncAssumption DEF TypeOK, SyncRecord, MidRecord
<1>7. CacheInv
  BY <1>1, SyncAssumption DEF CacheInv, Reached, Names
<1>8. \A c \in Clients : RequestInv(c) /\ ReadInv(c)
  BY <1>1, <1>3, <1>4, <1>5 DEF RequestInv, ReadInv, Reached, Names, Polling
<1>9. BotsKnown
  BY <1>1 DEF BotsKnown
<1> QED BY <1>6, <1>7, <1>8, <1>9 DEF SyncIInv

\* The invariant is inductive.
LEMMA SyncStepKept == SyncIInv /\ [Next]_vars => SyncIInv'
<1> SUFFICES ASSUME SyncIInv, [Next]_vars PROVE SyncIInv'
  OBVIOUS
<1>1. ASSUME NEW m \in Mids, NEW from \in Uids \cup {Person}, NEW to \in Uids, NEW group \in BOOLEAN,
         Send(m, from, to, group)
      PROVE  SyncIInv'
  BY <1>1, SendKept
<1>2. ASSUME NEW c \in Clients, Begin(c) \/ SyncStep(c) \/ DropSync(c)
      PROVE  SyncIInv'
  <2>1. CASE Begin(c)
    BY <2>1, BeginKept
  <2>2. CASE SyncStep(c)
    BY <2>2, LockKept, BuildKept, SnapKept, FetchKept, RecordKept, TimeoutKept DEF SyncStep
  <2>3. CASE DropSync(c)
    BY <2>3, DropSyncKept
  <2> QED BY <1>2, <2>1, <2>2, <2>3
<1>3. ASSUME NEW a \in Admins,
             \/ \E u \in Uids : CreateBot(a, u) \/ DeleteBot(a, u) \/ Retype(a, u)
             \/ ChangeKey(a) \/ Invalidate(a) \/ DropAdmin(a)
      PROVE  SyncIInv'
  BY <1>3, CreateBotKept, DeleteBotKept, RetypeKept, ChangeKeyKept, InvalidateKept, DropAdminKept
<1>4. CASE Restart
  BY <1>4, SyncRestartKept
<1>5. CASE UNCHANGED vars
  <2>1. UNCHANGED <<bots, botCache, stateGuard, botGuard, mids, sync, admin, client, hist, used>>
    BY <1>5 DEF vars
  <2>2. WorldMoves /\ MaxMoves /\ TypeOK /\ CacheInv /\ BotsKnown
    BY <2>1, WorldStill, MaxStill DEF SyncIInv
  <2>3. TypeOK' /\ BotsKnown'
    BY <2>1, <2>2 DEF TypeOK, BotsKnown
  <2>4. CacheInv'
    BY <2>1, <2>2, CacheStays DEF CacheInv
  <2> QED BY <2>1, <2>2, <2>3, <2>4, RequestsStay DEF SyncIInv
<1> QED BY <1>1, <1>2, <1>3, <1>4, <1>5 DEF Next

\* It holds throughout.
LEMMA SyncHolds == Spec => []SyncIInv
BY SyncInitHolds, SyncStepKept, PTL DEF Spec

----------------------------------------------------------------------------
\* Between the start of a bridge and its token no message to a bot is missing,
\* whatever the other bridges, lost answers, restarts and rebuilds of BOT_CACHE
\* do: the messages that were stored late, got too old or went to a bot that
\* came or went are the only ones.
THEOREM NoGap == Spec => []SyncHasNoGap
<1>1. SyncIInv => SyncHasNoGap
  BY DEF SyncIInv, ReadInv, Excused, SyncHasNoGap
<1> QED BY <1>1, SyncHolds, PTL

\* No bridge gets a direct message a second time, whatever happens to max_mid.
THEOREM NotTwice == Spec => []NoneTwice
<1>1. SyncIInv => NoneTwice
  <2> SUFFICES ASSUME SyncIInv, NEW c \in Clients, NEW m \in sync[c].batch \cap client[c].got,
                      ~mids[m].group, ~hist.gone
               PROVE  FALSE
    BY DEF NoneTwice
  <2>1. RequestInv(c) /\ ReadInv(c) /\ sync[c].since \in 0..MaxMid /\ m \in 0..MaxMid
    BY StoredTypes DEF SyncIInv, TypeOK
  <2>2. Polling(c) /\ sync[c].since < m
    BY <2>1 DEF RequestInv, Polling
  <2>3. m <= sync[c].since
    BY <2>1, <2>2 DEF ReadInv
  <2> QED BY <2>1, <2>2, <2>3, SyncAssumption
<1> QED BY <1>1, SyncHolds, PTL

\* A fresh BOT_CACHE names the bots there are, unless its invalidation is on its
\* way, was dropped with its request, or was left out by update.
THEOREM CacheKnows == Spec => []BotsKnown
<1>1. SyncIInv => BotsKnown
  BY DEF SyncIInv
<1> QED BY <1>1, SyncHolds, PTL

----------------------------------------------------------------------------
\* The deadlock of the two locks.

\* A sync that builds BOT_CACHE holds its guard, and an administrator that of
\* State.cache.
Deadlocked == botGuard # Free /\ stateGuard # Free

\* A client goes away with its request, or the process with all.
Rescue ==
    \/ \E c \in Clients : DropSync(c)
    \/ \E a \in Admins : DropAdmin(a)
    \/ Restart

\* The syncs that need a lock to go on.
Waiting == {c \in Clients : sync[c].pc \in {"lock", "build", "snap", "record"}}

StandStill ==
    /\ UNCHANGED <<bots, botCache, botGuard, stateGuard, admin>>
    /\ \A c \in Waiting : sync'[c] = sync[c]

\* No step gets past the two guards but a message, the timeout of a poll and a
\* rescue.
LEMMA GuardsBlock ==
  ASSUME TypeOK, Deadlocked, Next
  PROVE  Rescue \/ StandStill
<1>1. botGuard # Free /\ stateGuard # Free /\ DOMAIN sync = Clients
  BY DEF Deadlocked, TypeOK
<1>2. ASSUME NEW m \in Mids, NEW from \in Uids \cup {Person}, NEW to \in Uids, NEW group \in BOOLEAN,
         Send(m, from, to, group)
      PROVE  StandStill
  BY <1>2 DEF Send, StandStill
<1>3. ASSUME NEW c \in Clients, Begin(c) \/ SyncStep(c)
      PROVE  StandStill
  <2>1. Timeout(c)
    BY <1>1, <1>3 DEF Begin, SyncStep, Lock, Build, Snap, Fetch, Record
  <2>2. /\ sync' = [sync EXCEPT ![c] = IdleSync] /\ c \notin Waiting
        /\ UNCHANGED <<bots, botCache, botGuard, stateGuard, admin>>
    BY <2>1 DEF Timeout, Return, Waiting
  <2>3. ASSUME NEW d \in Waiting
        PROVE  sync'[d] = sync[d]
    BY <1>1, <2>2 DEF Waiting
  <2> QED BY <2>2, <2>3 DEF StandStill
<1>4. ASSUME NEW a \in Admins, NEW u \in Uids,
             CreateBot(a, u) \/ DeleteBot(a, u) \/ Retype(a, u) \/ ChangeKey(a) \/ Invalidate(a)
      PROVE  FALSE
  BY <1>1, <1>4 DEF CreateBot, DeleteBot, Retype, ChangeKey, Invalidate, Administer
<1>5. \E u : u \in Uids
  BY SyncAssumption
<1> QED BY <1>2, <1>3, <1>4, <1>5 DEF Next, Rescue

\* Once a rebuild of BOT_CACHE and an administrator wait for each other, no
\* lock is given back, no administrator is answered and no sync that waits goes
\* on, for as long as none of their clients goes away and the process runs.
THEOREM DeadlockIsFinal == Spec => [][Deadlocked => Rescue \/ StandStill]_vars
<1>1. TypeOK /\ [Next]_vars => [Deadlocked => Rescue \/ StandStill]_vars
  BY GuardsBlock
<1>2. SyncIInv => TypeOK
  BY DEF SyncIInv
<1> QED BY <1>1, <1>2, SyncHolds, PTL DEF Spec

----------------------------------------------------------------------------
\* The presence of bots: no bot is left online without a timer.  The property is
\* inductive with the types.

\* The types that the property rests on; the bounds are left out.
Kinds ==
    /\ botOnline \in [Callers -> BOOLEAN]
    /\ calls \in Seq(Callers)
    /\ starting = {} \/ \E u \in Callers : starting = {u}
    /\ timer \in [Callers -> {"off", "running", "expired"}]
    /\ expiring \subseteq Callers
    /\ Present \subseteq Callers
    /\ isBot \in [Present -> BOOLEAN]

PresenceIInv == Kinds /\ OnlineHasTimer

\* All bots are offline at the start.
LEMMA PresenceInitially == PresenceInit => PresenceIInv
  BY DEF PresenceInit, PresenceIInv, Kinds, OnlineHasTimer, Present

\* The main task sets a bot online before it starts the timer, which is its own
\* until then.
LEMMA OnlineKept == PresenceIInv /\ SetOnline => PresenceIInv'
<1> SUFFICES ASSUME PresenceIInv, SetOnline PROVE PresenceIInv'
  OBVIOUS
<1> DEFINE h == Head(calls)
<1>1. h \in Callers /\ calls' \in Seq(Callers)
  BY DEF PresenceIInv, Kinds, SetOnline
<1>2. /\ starting = {} /\ starting' = {h}
      /\ botOnline' = IF Known(h) THEN [botOnline EXCEPT ![h] = TRUE] ELSE botOnline
      /\ stuck' = IF Known(h) THEN stuck \ {h} ELSE stuck
      /\ UNCHANGED <<isBot, timer, expiring>>
  BY DEF SetOnline, Set
<1>3. Kinds'
  BY <1>1, <1>2 DEF PresenceIInv, Kinds, Present
<1>4. OnlineHasTimer'
  <2> SUFFICES ASSUME NEW u \in Present, u \notin stuck', botOnline'[u], u # h
               PROVE  timer[u] # "off"
    BY <1>2 DEF OnlineHasTimer, Present
  <2>1. u \notin stuck /\ botOnline[u]
    BY <1>1, <1>2 DEF PresenceIInv, Kinds
  <2> QED BY <2>1, <1>2 DEF PresenceIInv, OnlineHasTimer
<1> QED BY <1>3, <1>4 DEF PresenceIInv

\* The checking task drops a timer together with the presence it stood for.
LEMMA OfflineKept == ASSUME NEW u \in Callers, PresenceIInv, SetOffline(u) PROVE PresenceIInv'
<1>1. /\ expiring' = expiring \ {u}
      /\ botOnline' = IF Known(u) THEN [botOnline EXCEPT ![u] = FALSE] ELSE botOnline
      /\ timer' = [timer EXCEPT ![u] = "off"]
      /\ stuck' = IF u \in Present /\ ~isBot[u] THEN stuck \cup {u} ELSE stuck
      /\ UNCHANGED <<isBot, calls, starting>>
  BY DEF SetOffline, Offline, Set
<1>2. Kinds'
  BY <1>1 DEF PresenceIInv, Kinds, Present
<1>3. OnlineHasTimer'
  <2> SUFFICES ASSUME NEW v \in Present, v \notin stuck', botOnline'[v], timer'[v] = "off",
                      v \notin starting
               PROVE  FALSE
    BY <1>1 DEF OnlineHasTimer, Present
  <2>1. CASE v = u
    <3>1. isBot[u]
      BY <1>1, <2>1
    <3> QED BY <1>1, <2>1, <3>1 DEF Known, PresenceIInv, Kinds
  <2>2. CASE v # u
    BY <1>1, <2>2 DEF PresenceIInv, Kinds, OnlineHasTimer
  <2> QED BY <2>1, <2>2
<1> QED BY <1>2, <1>3 DEF PresenceIInv

\* Every other step.
LEMMA PresenceKept == PresenceIInv /\ [PresenceNext]_presenceVars => PresenceIInv'
<1> SUFFICES ASSUME PresenceIInv, [PresenceNext]_presenceVars PROVE PresenceIInv'
  OBVIOUS
<1>1. ASSUME NEW u \in Callers, Call(u) PROVE PresenceIInv'
  BY <1>1 DEF Call, PresenceIInv, Kinds, OnlineHasTimer, Present
<1>2. CASE StartTimer
  <2>1. PICK u \in starting : /\ starting' = {}
                              /\ timer' = [timer EXCEPT ![u] = "running"]
                              /\ UNCHANGED <<isBot, botOnline, calls, expiring, stuck>>
    BY <1>2 DEF StartTimer
  <2>2. starting = {u} /\ u \in Callers
    BY <2>1 DEF PresenceIInv, Kinds
  <2> QED BY <2>1, <2>2 DEF PresenceIInv, Kinds, OnlineHasTimer, Present
<1>3. ASSUME NEW u \in Callers, Expire(u) PROVE PresenceIInv'
  BY <1>3 DEF Expire, PresenceIInv, Kinds, OnlineHasTimer, Present
<1>4. CASE Check
  BY <1>4 DEF Check, PresenceIInv, Kinds, OnlineHasTimer, Present
<1>5. ASSUME NEW u \in Callers, Turn(u) PROVE PresenceIInv'
  BY <1>5 DEF Turn, PresenceIInv, Kinds, OnlineHasTimer, Present
<1>6. ASSUME NEW u \in Callers, Remove(u) PROVE PresenceIInv'
  BY <1>6 DEF Remove, PresenceIInv, Kinds, OnlineHasTimer, Present
<1>7. CASE UNCHANGED presenceVars
  BY <1>7 DEF presenceVars, PresenceIInv, Kinds, OnlineHasTimer, Present
<1> QED
  BY <1>1, <1>2, <1>3, <1>4, <1>5, <1>6, <1>7, OnlineKept, OfflineKept DEF PresenceNext

\* A bot that is online has a timer that will end it, or is about to get it,
\* unless it was no bot while its timer ran out.
THEOREM OnlineTimed == PresenceSpec => []OnlineHasTimer
<1>1. PresenceIInv => OnlineHasTimer
  BY DEF PresenceIInv
<1> QED BY PresenceInitially, PresenceKept, <1>1, PTL DEF PresenceSpec
=============================================================================
