----------------------------- MODULE MatrixSync -----------------------------
(***************************************************************************)
(* The long polling of Matrix bots: sync requests that share BOT_CACHE     *)
(* (the uids of the bots and one max_mid for all of them), the messages    *)
(* that are stored meanwhile, and the administration of bots.              *)
(*                                                                         *)
(* Two locks meet here.  init_bot_cache holds the write guard of BOT_CACHE *)
(* while it waits for State.cache; a handler that creates a bot or changes *)
(* its keys holds the write guard of State.cache while it waits for        *)
(* BOT_CACHE.  All other uses of the locks are within a step.              *)
(***************************************************************************)
EXTENDS Integers, FiniteSets

CONSTANTS Clients,      \* bridges, each with one sync request at a time
          Admins,       \* administrators, each with one request at a time
          Uids,         \* users that are bots or may become bots
          FirstBots,    \* those that are bots at the start
          Grouped,      \* those that get messages by a group, too
          FetchLimit,   \* the 1000 of fetch_bot_messages
          \* bounds of the model
          MaxMid, MaxSyncs, MaxAdmin,
          MaxTroubles   \* dropped requests, lost answers and restarts

Free == "free"
Person == "person"     \* whoever is never a bot

ASSUME SyncAssumption ==
    /\ FirstBots \subseteq Uids /\ Grouped \subseteq Uids
    /\ Free \notin Clients \cup Admins
    /\ FetchLimit \in Nat \ {0} /\ MaxMid \in Nat /\ Uids # {}

VARIABLES bots,        \* State.cache: the users that are bots
          botCache,    \* BOT_CACHE
          stateGuard,  \* the administrator that holds State.cache over an await
          botGuard,    \* the sync that holds BOT_CACHE over an await
          mids,        \* the messages: from whom to whom, whether by a group, and where
          sync,        \* the sync requests
          admin,       \* the requests of administrators
          client,      \* the bridges
          \* history, read by the properties only
          hist,
          used         \* how much of each bound is spent

vars == <<bots, botCache, stateGuard, botGuard, mids, sync, admin, client, hist, used>>

Mids == 1..MaxMid
None == 0

IdleSync == [pc |-> "idle", since |-> 0, cached |-> 0, uids |-> {}, batch |-> {}]

TypeOK ==
    /\ bots \subseteq Uids
    /\ botCache \in [fresh : BOOLEAN, uids : SUBSET Uids, maxMid : 0..MaxMid]
    /\ stateGuard \in Admins \cup {Free}
    /\ botGuard \in Clients \cup {Free}
    /\ mids \in [Mids -> [from : Uids \cup {Person}, to : Uids, group : BOOLEAN, at : {"none", "stored", "lost"}]]
    /\ sync \in [Clients -> [pc : {"idle", "lock", "build", "snap", "poll", "record"},
                             since : 0..MaxMid, cached : 0..MaxMid, uids : SUBSET Uids, batch : SUBSET Mids]]
    /\ \A c \in Clients : botGuard = c <=> sync[c].pc = "build"
    /\ admin \in [Admins -> {"idle", "invalidate"}]
    /\ client \in [Clients -> [known : BOOLEAN, token : 0..MaxMid, first : 0..MaxMid, got : SUBSET Mids]]
    /\ hist \in [late : SUBSET Mids, aged : SUBSET Mids, fickle : SUBSET Uids, gone : BOOLEAN, unsaid : BOOLEAN]
    /\ used \in [syncs : Nat, admin : Nat, troubles : Nat]

----------------------------------------------------------------------------
SetMax(S) == CHOOSE x \in S \cup {0} : \A y \in S : x >= y

Stored == {m \in Mids : mids[m].at = "stored"}

\* get_max_msg_id.
MaxMsgId == SetMax(Stored)

\* fetch_user_messages_after(uid, None, 1) of every bot, which finds direct
\* messages only, those it sent among them.
NewestOf(uids) == SetMax({m \in Stored : ~mids[m].group /\ (mids[m].to \in uids \/ mids[m].from \in uids)})

Trouble ==
    /\ used.troubles < MaxTroubles
    /\ used' = [used EXCEPT !.troubles = @ + 1]

To(c, pc) == [sync EXCEPT ![c].pc = pc]
Return(c) == [sync EXCEPT ![c] = IdleSync]

----------------------------------------------------------------------------
\* A send stores its message, in any order with sends that drew other mids.
Send(m, from, to, group) ==
    /\ mids[m].at = "none" /\ from # to /\ (group => to \in Grouped)
    /\ mids' = [mids EXCEPT ![m] = [from |-> from, to |-> to, group |-> group, at |-> "stored"]]
    /\ hist' = [hist EXCEPT !.late = IF MaxMsgId > m THEN @ \cup {m} ELSE @]
    /\ UNCHANGED <<bots, botCache, stateGuard, botGuard, sync, admin, client, used>>

----------------------------------------------------------------------------
\* A sync request.

\* init_bot_cache looks whether there is anything to do.
Begin(c) ==
    /\ sync[c].pc = "idle" /\ used.syncs < MaxSyncs
    /\ botGuard = Free
    /\ sync' = To(c, IF botCache.fresh THEN "snap" ELSE "lock")
    /\ used' = [used EXCEPT !.syncs = @ + 1]
    /\ UNCHANGED <<bots, botCache, stateGuard, botGuard, mids, admin, client, hist>>

Lock(c) ==
    /\ sync[c].pc = "lock" /\ botGuard = Free
    /\ botGuard' = c
    /\ sync' = To(c, "build")
    /\ UNCHANGED <<bots, botCache, stateGuard, mids, admin, client, hist, used>>

\* init_bot_cache from its read of State.cache.
Build(c) ==
    /\ sync[c].pc = "build" /\ stateGuard = Free
    /\ botCache' = [fresh |-> TRUE, uids |-> bots, maxMid |-> NewestOf(bots)]
    /\ botGuard' = Free
    /\ sync' = To(c, "snap")
    /\ UNCHANGED <<bots, stateGuard, mids, admin, client, hist, used>>

\* A client without a token starts at max_mid; one with a token, at the lesser.
Since(c) ==
    IF client[c].known /\ client[c].token < botCache.maxMid THEN client[c].token ELSE botCache.maxMid

\* The snapshot of BOT_CACHE; build_changed_users and the count of one-time
\* keys then wait for State.cache.
Snap(c) ==
    /\ sync[c].pc = "snap" /\ botGuard = Free /\ stateGuard = Free
    /\ sync' = [sync EXCEPT ![c] = [pc |-> "poll", since |-> Since(c), cached |-> botCache.maxMid,
                                    uids |-> botCache.uids, batch |-> {}]]
    /\ UNCHANGED <<bots, botCache, stateGuard, botGuard, mids, admin, client, hist, used>>

\* fetch_messages_after.
After(since) ==
    LET later == {m \in Stored : m > since}
    IN  {m \in later : Cardinality({x \in later : x < m}) < FetchLimit}

\* A turn of the loop that finds messages; any other turn sleeps.
\* process_message passes those to bots, but for the oldest.
Fetch(c, oldest) ==
    LET toBots == {m \in After(sync[c].since) : mids[m].to \in sync[c].uids}
        events == {m \in toBots : m > oldest}
    IN  /\ sync[c].pc = "poll" /\ sync[c].uids # {}
        /\ MaxMsgId > sync[c].cached
        /\ stateGuard = Free
        /\ events # {}
        /\ sync' = [sync EXCEPT ![c].pc = "record", ![c].batch = events]
        /\ hist' = [hist EXCEPT !.aged = @ \cup (toBots \ events)]
        /\ UNCHANGED <<bots, botCache, stateGuard, botGuard, mids, admin, client, used>>

\* The client reads an answer with next_batch next.
Answered(c, next, ms) ==
    [client EXCEPT ![c] = [known |-> TRUE, token |-> next, got |-> @.got \cup ms,
                           first |-> IF @.known THEN @.first ELSE sync[c].since]]

\* Mutant of NextBatch: the newest message there is, found or not.
NewestBatch(c) == MaxMsgId

NextBatch(c) == SetMax(sync[c].batch)

\* Mutant of Raised: whoever comes last sets max_mid.
SetLast(next) == next

Raised(next) == SetMax({botCache.maxMid, next})

Record(c) ==
    LET next == NextBatch(c) IN
    /\ sync[c].pc = "record" /\ botGuard = Free
    /\ botCache' = [botCache EXCEPT !.maxMid = Raised(next)]
    /\ sync' = Return(c)
    /\ \/ client' = Answered(c, next, sync[c].batch) /\ UNCHANGED used
       \/ Trouble /\ UNCHANGED client  \* the answer is lost
    /\ UNCHANGED <<bots, stateGuard, botGuard, mids, admin, hist>>

Timeout(c) ==
    /\ sync[c].pc = "poll"
    /\ sync' = Return(c)
    /\ client' = Answered(c, sync[c].since, {})
    /\ UNCHANGED <<bots, botCache, stateGuard, botGuard, mids, admin, hist, used>>

Released(c) == IF botGuard = c THEN Free ELSE botGuard

\* The client goes away: the request is dropped with its guard.
DropSync(c) ==
    /\ sync[c].pc # "idle"
    /\ Trouble
    /\ sync' = Return(c)
    /\ botGuard' = Released(c)
    /\ UNCHANGED <<bots, botCache, stateGuard, mids, admin, client, hist>>

----------------------------------------------------------------------------
\* The administration of bots.

Administer(a) ==
    /\ admin[a] = "idle" /\ stateGuard = Free
    /\ used.admin < MaxAdmin
    /\ used' = [used EXCEPT !.admin = @ + 1]

\* create, with the guard that create_user returns.
CreateBot(a, u) ==
    /\ Administer(a) /\ u \notin bots
    /\ bots' = bots \cup {u}
    /\ stateGuard' = a
    /\ admin' = [admin EXCEPT ![a] = "invalidate"]
    /\ UNCHANGED <<botCache, botGuard, mids, sync, client, hist>>

\* create_bot_api_key and delete_bot_api_key.
ChangeKey(a) ==
    /\ Administer(a) /\ bots # {}
    /\ stateGuard' = a
    /\ admin' = [admin EXCEPT ![a] = "invalidate"]
    /\ UNCHANGED <<bots, botCache, botGuard, mids, sync, client, hist>>

\* delete: the guard is given back before invalidate_bot_cache.
DeleteBot(a, u) ==
    /\ Administer(a) /\ u \in bots
    /\ bots' = bots \ {u}
    /\ admin' = [admin EXCEPT ![a] = "invalidate"]
    /\ hist' = [hist EXCEPT !.fickle = @ \cup {u}, !.gone = TRUE]
    /\ UNCHANGED <<botCache, stateGuard, botGuard, mids, sync, client>>

\* update of is_bot, which invalidates nothing.
Retype(a, u) ==
    /\ Administer(a)
    /\ bots' = (bots \ {u}) \cup ({u} \ bots)
    /\ hist' = [hist EXCEPT !.fickle = @ \cup {u}, !.gone = @ \/ u \in bots, !.unsaid = TRUE]
    /\ UNCHANGED <<botCache, stateGuard, botGuard, mids, sync, admin, client>>

\* Mutant of Cleared: the time of the last refresh is kept.
ClearedOnly == [botCache EXCEPT !.uids = {}]

Cleared == [botCache EXCEPT !.fresh = FALSE, !.uids = {}]

\* invalidate_bot_cache and the end of the request.
Invalidate(a) ==
    /\ admin[a] = "invalidate" /\ botGuard = Free
    /\ botCache' = Cleared
    /\ admin' = [admin EXCEPT ![a] = "idle"]
    /\ stateGuard' = IF stateGuard = a THEN Free ELSE stateGuard
    /\ UNCHANGED <<bots, botGuard, mids, sync, client, hist, used>>

DropAdmin(a) ==
    /\ admin[a] = "invalidate"
    /\ Trouble
    /\ admin' = [admin EXCEPT ![a] = "idle"]
    /\ stateGuard' = IF stateGuard = a THEN Free ELSE stateGuard
    /\ hist' = [hist EXCEPT !.unsaid = TRUE]
    /\ UNCHANGED <<bots, botCache, botGuard, mids, sync, client>>

----------------------------------------------------------------------------
\* The process starts again and builds the cache before it serves.  A mid below
\* a stored one was drawn, and its message is lost.
Restart ==
    /\ Trouble
    /\ botCache' = [fresh |-> TRUE, uids |-> bots, maxMid |-> NewestOf(bots)]
    /\ stateGuard' = Free /\ botGuard' = Free
    /\ mids' = [m \in Mids |-> IF mids[m].at = "none" /\ m < MaxMsgId THEN [mids[m] EXCEPT !.at = "lost"]
                               ELSE mids[m]]
    /\ sync' = [c \in Clients |-> IdleSync]
    /\ admin' = [a \in Admins |-> "idle"]
    /\ hist' = [hist EXCEPT !.unsaid = FALSE]
    /\ UNCHANGED <<bots, client>>

Init ==
    /\ bots = FirstBots
    /\ botCache = [fresh |-> TRUE, uids |-> FirstBots, maxMid |-> 0]
    /\ stateGuard = Free /\ botGuard = Free
    /\ mids = [m \in Mids |-> [from |-> Person, to |-> CHOOSE u \in Uids : TRUE, group |-> FALSE, at |-> "none"]]
    /\ sync = [c \in Clients |-> IdleSync]
    /\ admin = [a \in Admins |-> "idle"]
    /\ client = [c \in Clients |-> [known |-> FALSE, token |-> 0, first |-> 0, got |-> {}]]
    /\ hist = [late |-> {}, aged |-> {}, fickle |-> Uids \ FirstBots, gone |-> FALSE, unsaid |-> FALSE]
    /\ used = [syncs |-> 0, admin |-> 0, troubles |-> 0]

SyncStep(c) == Lock(c) \/ Build(c) \/ Snap(c) \/ (\E m \in 0..MaxMid : Fetch(c, m)) \/ Record(c) \/ Timeout(c)

Next ==
    \/ \E m \in Mids, from \in Uids \cup {Person}, to \in Uids, group \in BOOLEAN : Send(m, from, to, group)
    \/ \E c \in Clients : Begin(c) \/ SyncStep(c) \/ DropSync(c)
    \/ \E a \in Admins :
        \/ \E u \in Uids : CreateBot(a, u) \/ DeleteBot(a, u) \/ Retype(a, u)
        \/ ChangeKey(a) \/ Invalidate(a) \/ DropAdmin(a)
    \/ Restart

Spec == Init /\ [][Next]_vars

\* Both locks are fair and serve their waiters in order.
FairSpec ==
    /\ Spec
    /\ \A c \in Clients : SF_vars(SyncStep(c))
    /\ \A a \in Admins : SF_vars(Invalidate(a))

----------------------------------------------------------------------------
\* Properties.

\* Between the start of a bridge and its token, no message to a bot is missing,
\* whatever syncs of other bridges, lost answers, restarts and rebuilds of the
\* cache come between.  The exceptions: a message that was stored after one of
\* a larger mid, one that got too old, and one to a bot that came or went.
SyncHasNoGap ==
    \A c \in Clients, m \in Stored :
        client[c].known /\ client[c].first < m /\ m <= client[c].token =>
            \/ m \in client[c].got
            \/ m \in hist.late \cup hist.aged
            \/ mids[m].to \in hist.fickle

\* A bridge gets no direct message twice, whoever else syncs and however often
\* the cache is built again.  (A message of a group it may get again: the new
\* max_mid does not count those.)
NoneTwice ==
    \A c \in Clients : \A m \in sync[c].batch \cap client[c].got :
        mids[m].group \/ hist.gone

\* A sync never works with bots of the past: unless an invalidation is on its
\* way, was dropped, or was left out by update, the cache names the bots.
BotsKnown ==
    botCache.fresh /\ (\A a \in Admins : admin[a] = "idle") /\ ~hist.unsaid => botCache.uids = bots

\* Every sync request is answered, after its timeout at the latest.  It fails:
\* a rebuild of the cache and the creation of a bot wait for each other.
SyncsReturn == \A c \in Clients : sync[c].pc # "idle" ~> sync[c].pc = "idle"
=============================================================================
