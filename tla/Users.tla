------------------------------- MODULE Users --------------------------------
(***************************************************************************)
(* The list of users: in SQLite, in State.cache and in the apps.           *)
(*                                                                         *)
(* A handler holds the write guard of State.cache, writes the user and a   *)
(* row of user_log in one transaction, then the cache, and broadcasts the  *)
(* row.  An app begins with a snapshot of the list and its version, the    *)
(* last id of user_log, and follows the rows; when it connects again it    *)
(* gets those after its version.                                           *)
(***************************************************************************)
EXTENDS Integers, Sequences

CONSTANTS Apps,         \* clients that show the list
          UserNames,
          \* bounds of the model
          MaxUsers, MaxUserRequests,
          MaxUserTroubles  \* dropped requests and restarts

ASSUME UsersAssumption == MaxUsers \in Nat /\ MaxUserRequests \in Nat

VARIABLES userTable,   \* SQLite: the users
          userLog,     \* SQLite: user_log; the id of a row is its position
          userCache,   \* State.cache
          lastUid,     \* sqlite_sequence
          app,         \* the apps
          \* history, read by the properties only
          blurred,     \* users whose log and list differ for a known reason
          userUsed     \* how much of each bound is spent

usersVars == <<userTable, userLog, userCache, lastUid, app, blurred, userUsed>>

Uids == 1..MaxUsers

\* What the list says of a user: the name, and whatever else is shown (gender,
\* language, avatar, whether an administrator or a bot).  An update carries some.
Profile == [name : UserNames, looks : 0..1]
Updates == {[name |-> n] : n \in UserNames} \cup {[looks |-> l] : l \in 0..1} \cup Profile

User == [guest : BOOLEAN, profile : Profile]

\* UserUpdateLog.
LogRows == [uid : Uids, action : {"create"}, set : Profile] \cup [uid : Uids, action : {"update"}, set : Updates]
           \cup [uid : Uids, action : {"delete"}, set : {<<>>}]

\* The maps of some of keys to values.
Directory(keys, values) == UNION {[D -> values] : D \in SUBSET keys}

UsersTypeOK ==
    /\ lastUid \in 0..MaxUsers
    /\ userTable \in Directory(1..lastUid, User)
    /\ userCache \in Directory(1..lastUid, User)
    /\ userLog \in Seq(LogRows)
    /\ app \in [Apps -> [on : BOOLEAN, version : 0..Len(userLog), inbox : Seq(1..Len(userLog)),
                        list : Directory(Uids, Profile)]]
    /\ blurred \subseteq Uids
    /\ userUsed \in [requests : Nat, troubles : Nat]

----------------------------------------------------------------------------
With(dir, u, x) == [v \in DOMAIN dir \cup {u} |-> IF v = u THEN x ELSE dir[v]]
Without(dir, u) == [v \in DOMAIN dir \ {u} |-> dir[v]]

\* profile with the values that an update carries.
Updated(profile, set) == [f \in DOMAIN profile |-> IF f \in DOMAIN set THEN set[f] ELSE profile[f]]

LogRow(u, action, set) == [uid |-> u, action |-> action, set |-> set]

\* A user in dir gets the values of set; a user that is not there, nothing.
Changed(dir, u, set) == [v \in DOMAIN dir |-> IF v = u THEN [dir[v] EXCEPT !.profile = Updated(@, set)] ELSE dir[v]]

\* What an app makes of a row.
Applied(list, row) ==
    CASE row.action = "create" -> With(list, row.uid, row.set)
      [] row.action = "update" -> [v \in DOMAIN list |-> IF v = row.uid THEN Updated(list[v], row.set) ELSE list[v]]
      [] row.action = "delete" -> Without(list, row.uid)

\* Mutant of Tell: rows go only to apps that have read all before.
TellIdle(id) ==
    app' = [a \in Apps |-> IF app[a].on /\ app[a].inbox = <<>> THEN [app[a] EXCEPT !.inbox = <<id>>] ELSE app[a]]

Tell(id) ==
    app' = [a \in Apps |-> IF app[a].on THEN [app[a] EXCEPT !.inbox = Append(@, id)] ELSE app[a]]

\* The transaction of a handler with the rows it logs, at most one; then its
\* cache and its broadcast, unless the request is dropped at the commit.
Commit(u, newTable, newCache, rows) ==
    /\ userUsed.requests < MaxUserRequests
    /\ userTable' = newTable
    /\ userLog' = userLog \o rows
    /\ \/ /\ userCache' = newCache
          /\ IF rows = <<>> THEN UNCHANGED app ELSE Tell(Len(userLog) + 1)
          /\ userUsed' = [userUsed EXCEPT !.requests = @ + 1]
          /\ UNCHANGED blurred
       \/ /\ userUsed.troubles < MaxUserTroubles
          /\ userUsed' = [userUsed EXCEPT !.requests = @ + 1, !.troubles = @ + 1]
          /\ blurred' = blurred \cup {u}
          /\ UNCHANGED <<userCache, app>>

\* check_name_conflict, and the unique index of the table.
NameFree(n) == \A u \in DOMAIN userCache : userCache[u].profile.name # n
NameStorable(u, n) == \A v \in DOMAIN userTable \ {u} : userTable[v].profile.name # n

----------------------------------------------------------------------------
\* create_user: of registration, administrators and guests.
CreateUser(guest, n) ==
    LET u == lastUid + 1
        user == [guest |-> guest, profile |-> [name |-> n, looks |-> 0]]
    IN  /\ u \in Uids /\ NameFree(n) /\ NameStorable(u, n)
        /\ lastUid' = u
        /\ Commit(u, With(userTable, u, user), With(userCache, u, user),
                  IF guest THEN <<>> ELSE <<LogRow(u, "create", user.profile)>>)

\* update_user, by the user.  It refuses the user's own name, too.
UpdateUser(u, set) ==
    /\ u \in DOMAIN userCache /\ ~userCache[u].guest
    /\ "name" \in DOMAIN set => NameFree(set.name) /\ NameStorable(u, set.name)
    /\ Commit(u, Changed(userTable, u, set), Changed(userCache, u, set), <<LogRow(u, "update", set)>>)
    /\ UNCHANGED lastUid

\* update_user of the gender alone, or of the language alone: it is not logged.
UpdateUnlogged(u, looks) ==
    /\ u \in DOMAIN userCache /\ ~userCache[u].guest
    /\ userUsed.requests < MaxUserRequests
    /\ userTable' = Changed(userTable, u, [looks |-> looks])
    /\ userCache' = Changed(userCache, u, [looks |-> looks])
    /\ userUsed' = [userUsed EXCEPT !.requests = @ + 1]
    /\ blurred' = blurred \cup {u}
    /\ UNCHANGED <<userLog, lastUid, app>>

\* update, by an administrator, and upload_avatar.
AdminUpdate(u, set) ==
    /\ u \in DOMAIN userCache
    /\ "name" \in DOMAIN set =>
          /\ set.name = userCache[u].profile.name \/ NameFree(set.name)
          /\ NameStorable(u, set.name)
    /\ Commit(u, Changed(userTable, u, set), Changed(userCache, u, set), <<LogRow(u, "update", set)>>)
    /\ UNCHANGED lastUid

\* delete_user: of the user, an administrator and clean_guest.
RemoveUser(u) ==
    /\ u \in DOMAIN userCache
    /\ Commit(u, Without(userTable, u), Without(userCache, u),
              IF userCache[u].guest THEN <<>> ELSE <<LogRow(u, "delete", <<>>)>>)
    /\ UNCHANGED lastUid

----------------------------------------------------------------------------
\* The apps.

Listed == {u \in DOMAIN userCache : ~userCache[u].guest}

\* fetch_user_log, under the guard: a snapshot, or the rows after the version.
Connect(a) ==
    LET version == app[a].version
        snapshot == [on |-> TRUE, version |-> Len(userLog), inbox |-> <<>>,
                     list |-> [u \in Listed |-> userCache[u].profile]]
        rest == [on |-> TRUE, version |-> version, list |-> app[a].list,
                 inbox |-> [i \in 1..(Len(userLog) - version) |-> version + i]]
    IN  /\ ~app[a].on
        /\ app' = [app EXCEPT ![a] = IF version = 0 THEN snapshot ELSE rest]
        /\ UNCHANGED <<userTable, userLog, userCache, lastUid, blurred, userUsed>>

ReadRow(a) ==
    /\ app[a].inbox # <<>>
    /\ LET id == Head(app[a].inbox) IN
       app' = [app EXCEPT ![a] = [on |-> TRUE, version |-> id, inbox |-> Tail(app[a].inbox),
                                  list |-> Applied(app[a].list, userLog[id])]]
    /\ UNCHANGED <<userTable, userLog, userCache, lastUid, blurred, userUsed>>

Disconnect(a) ==
    /\ app[a].on
    /\ app' = [app EXCEPT ![a] = [@ EXCEPT !.on = FALSE, !.inbox = <<>>]]
    /\ UNCHANGED <<userTable, userLog, userCache, lastUid, blurred, userUsed>>

\* load_users_cache.
RestartUsers ==
    /\ userUsed.troubles < MaxUserTroubles
    /\ userUsed' = [userUsed EXCEPT !.troubles = @ + 1]
    /\ userCache' = userTable
    /\ app' = [a \in Apps |-> [app[a] EXCEPT !.on = FALSE, !.inbox = <<>>]]
    /\ UNCHANGED <<userTable, userLog, lastUid, blurred>>

UsersInit ==
    /\ userTable = <<>> /\ userCache = <<>> /\ userLog = <<>>
    /\ lastUid = 0
    /\ app = [a \in Apps |-> [on |-> FALSE, version |-> 0, inbox |-> <<>>, list |-> <<>>]]
    /\ blurred = {}
    /\ userUsed = [requests |-> 0, troubles |-> 0]

UsersNext ==
    \/ \E n \in UserNames, guest \in BOOLEAN : CreateUser(guest, n)
    \/ \E u \in Uids :
        \/ \E set \in Updates : UpdateUser(u, set) \/ AdminUpdate(u, set)
        \/ \E looks \in 0..1 : UpdateUnlogged(u, looks)
        \/ RemoveUser(u)
    \/ \E a \in Apps : Connect(a) \/ ReadRow(a) \/ Disconnect(a)
    \/ RestartUsers

UsersSpec == UsersInit /\ [][UsersNext]_usersVars

----------------------------------------------------------------------------
\* Properties.

\* An app that has read all shows the users as the server has them, however it
\* came by them: the snapshot, the rows it was sent and those it caught up with
\* add up.  The exceptions: a user whose request was dropped after its commit,
\* whose row no app is sent while a later one raises the version past it, and
\* one that changed only gender or only language, which is not logged.
ListAgrees ==
    \A a \in Apps : app[a].on /\ app[a].inbox = <<>> =>
        \A u \in Uids \ blurred :
            /\ u \in DOMAIN app[a].list <=> u \in Listed
            /\ u \in Listed => app[a].list[u] = userCache[u].profile
=============================================================================
