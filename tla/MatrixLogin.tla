---------------------------- MODULE MatrixLogin -----------------------------
(***************************************************************************)
(* The logins of Matrix bridges as one bot.  A device of the bot is a row  *)
(* of bot_key (one for each name, by a unique index) with its copy in      *)
(* State.cache, and an Olm account with published keys.  A login looks for *)
(* the device under the read guard of State.cache, gives it up, and then   *)
(* replaces the key of the device or makes a new device under the write    *)
(* guard.  The account of a new device is made after that guard is given   *)
(* up, by statements of their own.  A client that goes away drops its      *)
(* request at an await: the statement that it waits for is still run.      *)
(***************************************************************************)
EXTENDS Integers

CONSTANTS Bridges, Devices,
          \* bounds of the model
          MaxApiKeys, MaxLoginTroubles

ASSUME LoginAssumption == Devices # {} /\ MaxApiKeys \in Nat

VARIABLES botHere,     \* the bot has not been deleted
          keyCache,    \* the key of each device in State.cache; 0 for none
          keyTable,    \* and in bot_key
          olm,         \* what each device has of its Olm account
          bridge,      \* the login of each bridge
          lastApiKey,  \* keys made so far
          \* history, read by the properties only
          told,        \* the newest key of each device that a login was answered with
          newest,      \* the newest key made for each device, unless it was deleted
          blurredRows, \* devices with a request dropped between bot_key and the cache
          cut,         \* devices whose account was not finished, or never begun
          loginTroubles

loginVars == <<botHere, keyCache, keyTable, olm, bridge, lastApiKey, told, newest, blurredRows, cut, loginTroubles>>

\* The tables of an account, in the order they are written.
Parts == {"account", "device", "otks"}

IdleBridge == [pc |-> "idle", device |-> CHOOSE d \in Devices : TRUE, key |-> 0]

LoginTypeOK ==
    /\ botHere \in BOOLEAN
    /\ lastApiKey \in 0..MaxApiKeys
    /\ {keyCache, keyTable, told, newest} \subseteq [Devices -> 0..lastApiKey]
    /\ olm \in [Devices -> SUBSET Parts]
    /\ bridge \in [Bridges -> [pc : {"idle", "update", "create", "count"} \cup Parts,
                               device : Devices, key : 0..lastApiKey]]
    /\ blurredRows \cup cut \subseteq Devices

LoginTrouble == loginTroubles < MaxLoginTroubles /\ loginTroubles' = loginTroubles + 1

Ends(b) == bridge' = [bridge EXCEPT ![b] = IdleBridge]

\* The answer 200 with key k.
Told(d, k) == told' = [told EXCEPT ![d] = IF k > @ THEN k ELSE @]

\* login, up to the end of its read guard.
StartLogin(b, d) ==
    /\ bridge[b].pc = "idle" /\ botHere
    /\ bridge' = [bridge EXCEPT ![b] = [pc |-> IF keyCache[d] # 0 THEN "update" ELSE "create",
                                        device |-> d, key |-> 0]]
    /\ UNCHANGED <<botHere, keyCache, keyTable, olm, lastApiKey, told, newest, blurredRows, cut, loginTroubles>>

\* What a new key k of device d does to the row and the cache, and the same
\* for a request dropped between the two.
MakeKey(d, row) ==
    LET k == lastApiKey + 1 IN
    /\ k <= MaxApiKeys
    /\ lastApiKey' = k
    /\ newest' = [newest EXCEPT ![d] = k]
    /\ keyTable' = [keyTable EXCEPT ![d] = IF row THEN k ELSE 0]

\* update_device_api_key.  The update affects no row where there is none.
UpdateDevice(b) ==
    LET d == bridge[b].device
        k == lastApiKey + 1 IN
    /\ bridge[b].pc = "update"
    /\ botHere /\ keyCache[d] # 0
    /\ MakeKey(d, keyTable[d] # 0)
    /\ \/ /\ keyCache' = [keyCache EXCEPT ![d] = k]
          /\ blurredRows' = IF keyTable[d] # 0 THEN blurredRows \ {d} ELSE blurredRows
          /\ \/ Told(d, k) /\ UNCHANGED loginTroubles
             \/ LoginTrouble /\ UNCHANGED told
       \/ /\ LoginTrouble
          /\ blurredRows' = blurredRows \cup {d}
          /\ UNCHANGED <<keyCache, told>>
    /\ Ends(b)
    /\ UNCHANGED <<botHere, olm, cut>>

\* create_new_device, up to the end of its write guard.
CreateDevice(b) ==
    LET d == bridge[b].device
        k == lastApiKey + 1 IN
    /\ bridge[b].pc = "create"
    /\ botHere /\ keyCache[d] = 0 /\ keyTable[d] = 0
    /\ MakeKey(d, TRUE)
    /\ \/ /\ keyCache' = [keyCache EXCEPT ![d] = k]
          /\ bridge' = [bridge EXCEPT ![b].pc = "count", ![b].key = k]
          /\ blurredRows' = blurredRows \ {d}
          /\ UNCHANGED <<cut, loginTroubles>>
       \/ /\ LoginTrouble
          /\ blurredRows' = blurredRows \cup {d}
          /\ cut' = cut \cup {d}
          /\ Ends(b)
          /\ UNCHANGED keyCache
    /\ UNCHANGED <<botHere, olm, told>>

\* The device is no longer what the login found: 404, 409, or 500 by the unique
\* index where a dropped request has left a row.
Refuse(b) ==
    LET d == bridge[b].device IN
    /\ \/ bridge[b].pc = "update" /\ (~botHere \/ keyCache[d] = 0)
       \/ bridge[b].pc = "create" /\ (~botHere \/ keyCache[d] # 0 \/ keyTable[d] # 0)
    /\ Ends(b)
    /\ UNCHANGED <<botHere, keyCache, keyTable, olm, lastApiKey, told, newest, blurredRows, cut, loginTroubles>>

\* create_device_account: an account that is there is only loaded.
Count(b) ==
    LET d == bridge[b].device IN
    /\ bridge[b].pc = "count"
    /\ IF "account" \in olm[d]
       THEN Told(d, bridge[b].key) /\ Ends(b)
       ELSE bridge' = [bridge EXCEPT ![b].pc = "account"] /\ UNCHANGED told
    /\ UNCHANGED <<botHere, keyCache, keyTable, olm, lastApiKey, newest, blurredRows, cut, loginTroubles>>

\* Mutant of After: the keys of the device are not published.
AfterAccount(part) == "otks"

After(part) == IF part = "account" THEN "device" ELSE "otks"

\* The rows need the bot; the primary key refuses a second account, while the
\* rows of the device and its keys are written over.
Writable(d, part) == botHere /\ (part = "account" => part \notin olm[d])

\* The inserts of create_device_account, and the answer after the last.
StorePart(b, part) ==
    LET d == bridge[b].device IN
    /\ bridge[b].pc = part
    /\ Writable(d, part)
    /\ olm' = [olm EXCEPT ![d] = @ \cup {part}]
    /\ IF part = "otks"
       THEN Told(d, bridge[b].key) /\ Ends(b)
       ELSE bridge' = [bridge EXCEPT ![b].pc = After(part)] /\ UNCHANGED told
    /\ UNCHANGED <<botHere, keyCache, keyTable, lastApiKey, newest, blurredRows, cut, loginTroubles>>

\* An insert fails: 500, and the key of the device stays.
StoreFails(b, part) ==
    /\ bridge[b].pc = part
    /\ ~Writable(bridge[b].device, part)
    /\ Ends(b)
    /\ UNCHANGED <<botHere, keyCache, keyTable, olm, lastApiKey, told, newest, blurredRows, cut, loginTroubles>>

\* The client goes away, or SQLite refuses a statement, while a login is under way.
DropLogin(b) ==
    /\ bridge[b].pc # "idle" /\ LoginTrouble
    /\ cut' = IF bridge[b].pc \in {"update", "create"} THEN cut ELSE cut \cup {bridge[b].device}
    /\ Ends(b)
    /\ UNCHANGED <<botHere, keyCache, keyTable, olm, lastApiKey, told, newest, blurredRows>>

----------------------------------------------------------------------------
\* The administration of bots.

\* create_bot_api_key: a device without an account.
CreateBotApiKey(d) ==
    /\ botHere /\ keyCache[d] = 0 /\ keyTable[d] = 0
    /\ MakeKey(d, TRUE)
    /\ \/ keyCache' = [keyCache EXCEPT ![d] = lastApiKey + 1] /\ blurredRows' = blurredRows \ {d} /\ UNCHANGED loginTroubles
       \/ LoginTrouble /\ blurredRows' = blurredRows \cup {d} /\ UNCHANGED keyCache
    /\ cut' = IF "account" \in olm[d] THEN cut ELSE cut \cup {d}
    /\ UNCHANGED <<botHere, olm, bridge, told>>

\* delete_bot_api_key: nothing of the account hangs on bot_key.
DeleteBotApiKey(d) ==
    /\ botHere /\ keyCache[d] # 0
    /\ keyTable' = [keyTable EXCEPT ![d] = 0]
    /\ told' = [told EXCEPT ![d] = 0] /\ newest' = [newest EXCEPT ![d] = 0]
    /\ \/ keyCache' = [keyCache EXCEPT ![d] = 0] /\ blurredRows' = blurredRows \ {d} /\ UNCHANGED loginTroubles
       \/ LoginTrouble /\ blurredRows' = blurredRows \cup {d} /\ UNCHANGED keyCache
    /\ UNCHANGED <<botHere, olm, bridge, lastApiKey, cut>>

\* delete_user: on delete cascade.
DeleteBot ==
    /\ botHere
    /\ botHere' = FALSE
    /\ keyCache' = [d \in Devices |-> 0] /\ keyTable' = keyCache'
    /\ told' = keyCache' /\ newest' = keyCache'
    /\ olm' = [d \in Devices |-> {}]
    /\ UNCHANGED <<bridge, lastApiKey, blurredRows, cut, loginTroubles>>

\* The process stops and starts: the keys are read from bot_key.
RestartLogins ==
    /\ LoginTrouble
    /\ keyCache' = keyTable
    /\ cut' = cut \cup {bridge[b].device : b \in {a \in Bridges : bridge[a].pc \in Parts \cup {"count"}}}
    /\ blurredRows' = {}
    /\ told' = [d \in Devices |-> IF told[d] = keyTable[d] THEN told[d] ELSE 0]
    /\ bridge' = [b \in Bridges |-> IdleBridge]
    /\ UNCHANGED <<botHere, keyTable, olm, lastApiKey, newest>>

LoginInit ==
    /\ botHere = TRUE
    /\ keyCache = [d \in Devices |-> 0] /\ keyTable = keyCache
    /\ told = keyCache /\ newest = keyCache
    /\ olm = [d \in Devices |-> {}]
    /\ bridge = [b \in Bridges |-> IdleBridge]
    /\ lastApiKey = 0 /\ blurredRows = {} /\ cut = {} /\ loginTroubles = 0

LoginNext ==
    \/ \E b \in Bridges :
        \/ \E d \in Devices : StartLogin(b, d)
        \/ UpdateDevice(b) \/ CreateDevice(b) \/ Refuse(b) \/ Count(b) \/ DropLogin(b)
        \/ \E part \in Parts : StorePart(b, part) \/ StoreFails(b, part)
    \/ \E d \in Devices : CreateBotApiKey(d) \/ DeleteBotApiKey(d)
    \/ DeleteBot \/ RestartLogins

LoginSpec == LoginInit /\ [][LoginNext]_loginVars

----------------------------------------------------------------------------
\* Properties.

\* Bridges whose login makes the account of device d.
BeingMade(d) == {b \in Bridges : bridge[b].device = d /\ bridge[b].pc \in Parts \cup {"count"}}

\* A device works once a login was answered for it, however logins, deletions of
\* its key and restarts cross: the newest key is the valid one, in the cache and
\* after a restart, and its account has published keys.  Not so while a request
\* was dropped between bot_key and the cache, and for a device whose account was
\* cut short or that an administrator made: no later login completes those.
DeviceWorks ==
    \A d \in Devices : told[d] # 0 =>
        /\ told[d] = newest[d] /\ d \notin blurredRows => told[d] = keyCache[d] /\ told[d] = keyTable[d]
        /\ d \in cut \/ BeingMade(d) # {} \/ olm[d] = Parts
=============================================================================
