---------------------------- MODULE BotPresence -----------------------------
(***************************************************************************)
(* Whether a bot is online.  A Matrix sync posts its uid to bot_online_tx; *)
(* process_bot_online_state takes it, sets bot_online under the guard of   *)
(* State.cache and then, the guard given back, starts the bot's timer of   *)
(* sixty seconds.  A second task takes a snapshot of the timers that have  *)
(* run out and sets those bots offline one by one, each under the guard.   *)
(***************************************************************************)
EXTENDS Integers, Sequences

CONSTANTS Callers,       \* users that sync with a key of theirs
          \* bounds of the model
          MaxCalls, MaxRetypes

VARIABLES isBot,     \* CacheUser.is_bot; a user that is deleted has no entry
          botOnline, \* CacheUser.bot_online
          calls,     \* bot_online_tx
          starting,  \* the main task: the uids, at most one, whose timer it is to start
          timer,     \* bot_timers
          expiring,  \* the checking task: what is left of its snapshot
          \* history, read by the properties only
          stuck,     \* those that were no bot when their timer was dropped
          spent      \* how much of each bound is spent

presenceVars == <<isBot, botOnline, calls, starting, timer, expiring, stuck, spent>>

Present == DOMAIN isBot

PresenceTypeOK ==
    /\ Present \subseteq Callers /\ isBot \in [Present -> BOOLEAN]
    /\ botOnline \in [Callers -> BOOLEAN]
    /\ calls \in Seq(Callers)
    /\ \E u \in Callers : starting \in {{}, {u}}
    /\ timer \in [Callers -> {"off", "running", "expired"}]
    /\ expiring \subseteq Callers
    /\ stuck \subseteq Callers
    /\ spent \in [calls : 0..MaxCalls, retypes : 0..MaxRetypes]

Known(u) == u \in Present /\ isBot[u]

\* A sync of u: its token was checked before.
Call(u) ==
    /\ u \in Present /\ spent.calls < MaxCalls
    /\ calls' = Append(calls, u)
    /\ spent' = [spent EXCEPT !.calls = @ + 1]
    /\ UNCHANGED <<isBot, botOnline, starting, timer, expiring, stuck>>

\* Under the guard.  (UserStateChanged goes out with it.)
Set(u, online) == botOnline' = IF Known(u) THEN [botOnline EXCEPT ![u] = online] ELSE botOnline

SetOnline ==
    /\ calls # <<>> /\ starting = {}
    /\ calls' = Tail(calls)
    /\ starting' = {Head(calls)}
    /\ Set(Head(calls), TRUE)
    /\ stuck' = IF Known(Head(calls)) THEN stuck \ {Head(calls)} ELSE stuck
    /\ UNCHANGED <<isBot, timer, expiring, spent>>

StartTimer ==
    \E u \in starting :
        /\ starting' = {}
        /\ timer' = [timer EXCEPT ![u] = "running"]
        /\ UNCHANGED <<isBot, botOnline, calls, expiring, stuck, spent>>

Expire(u) ==
    /\ timer[u] = "running"
    /\ timer' = [timer EXCEPT ![u] = "expired"]
    /\ UNCHANGED <<isBot, botOnline, calls, starting, expiring, stuck, spent>>

\* The snapshot of the timers that have run out, every ten seconds.
Check ==
    /\ expiring = {}
    /\ expiring' = {u \in Callers : timer[u] = "expired"}
    /\ UNCHANGED <<isBot, botOnline, calls, starting, timer, stuck, spent>>

\* Mutant of Offline: a bot whose timer was started again is left online.
OfflineIfQuiet(u) == IF timer[u] = "running" THEN UNCHANGED botOnline ELSE Set(u, FALSE)

Offline(u) == Set(u, FALSE)

\* The guard is held to the end: a timer that was started since the snapshot
\* is dropped with the one that had run out.
SetOffline(u) ==
    /\ u \in expiring
    /\ expiring' = expiring \ {u}
    /\ Offline(u)
    /\ timer' = [timer EXCEPT ![u] = "off"]
    /\ stuck' = IF u \in Present /\ ~isBot[u] THEN stuck \cup {u} ELSE stuck
    /\ UNCHANGED <<isBot, calls, starting, spent>>

\* Administration: update of is_bot, and delete.
Turn(u) ==
    /\ u \in Present /\ spent.retypes < MaxRetypes
    /\ isBot' = [isBot EXCEPT ![u] = ~@]
    /\ spent' = [spent EXCEPT !.retypes = @ + 1]
    /\ UNCHANGED <<botOnline, calls, starting, timer, expiring, stuck>>

Remove(u) ==
    /\ u \in Present /\ spent.retypes < MaxRetypes
    /\ isBot' = [v \in Present \ {u} |-> isBot[v]]
    /\ spent' = [spent EXCEPT !.retypes = @ + 1]
    /\ UNCHANGED <<botOnline, calls, starting, timer, expiring, stuck>>

PresenceInit ==
    /\ isBot \in [Callers -> BOOLEAN]
    /\ botOnline = [u \in Callers |-> FALSE]
    /\ calls = <<>> /\ starting = {}
    /\ timer = [u \in Callers |-> "off"]
    /\ expiring = {} /\ stuck = {}
    /\ spent = [calls |-> 0, retypes |-> 0]

PresenceNext ==
    \/ \E u \in Callers : Call(u) \/ Expire(u) \/ SetOffline(u) \/ Turn(u) \/ Remove(u)
    \/ SetOnline \/ StartTimer \/ Check

PresenceSpec == PresenceInit /\ [][PresenceNext]_presenceVars

----------------------------------------------------------------------------
\* Properties.

\* No bot stays online without a timer that will end it, although the two are
\* set under different locks and by two tasks.  One that was no bot while its
\* timer ran out keeps bot_online for good, should it become a bot again.
OnlineHasTimer ==
    \A u \in Present \ stuck : botOnline[u] => timer[u] # "off" \/ u \in starting
=============================================================================
