----------------------------- MODULE MatrixKeys -----------------------------
(***************************************************************************)
(* The one-time keys of one Matrix device of a bot, and the Olm messages   *)
(* they are spent on.  The device is either the server's own, whose        *)
(* account the server makes at its start and keeps in matrix_olm_account,  *)
(* or a bridge's, which uploads its keys.  Bridges claim a key: the server *)
(* selects an unused one and then marks it used.  With it they write a     *)
(* first message to the server's device, which loads the account, takes    *)
(* the key out and saves the account.  Each step is a statement of its     *)
(* own; no lock or transaction spans two of them.                          *)
(***************************************************************************)
EXTENDS Integers

CONSTANTS Peers,      \* bridges that claim a key and write a message
          BatchSize,  \* keys generated at once (50)
          \* bounds of the model
          MaxKeys, MaxKeyTroubles

ASSUME BatchAssumption == BatchSize \in Nat \ {0}
ASSUME MaxKeysAssumption == MaxKeys \in Nat

VARIABLES owner,     \* whose device it is
          account,   \* the keys in the saved account of the server's device
          otks,      \* matrix_device_otk: each key there, with its column used
          making,    \* what ensure_account or the bridge has yet to store
          lastKey,   \* keys generated so far
          peer,      \* where each bridge is
          \* history, read by the properties only
          handed,    \* how often each key was handed out
          blurredKeys, \* keys handed out again for a known reason
          spoilt,    \* keys whose message was not the first one with it
          refused,   \* keys whose message could not be read
          keyTroubles

keysVars == <<owner, account, otks, making, lastKey, peer, handed, blurredKeys, spoilt, refused, keyTroubles>>

Otk == 1..MaxKeys

IdlePeer == [pc |-> "idle", key |-> 0, loaded |-> {}]

\* ensure_account: "account" and "keys" are still to be stored; a bridge has keys
\* that it has not been answered for.
Making == [pc : {"idle", "account", "device", "keys"}, keys : SUBSET Otk]

KeysTypeOK ==
    /\ owner \in {"server", "bridge"}
    /\ account \subseteq 1..lastKey
    /\ DOMAIN otks \subseteq 1..lastKey /\ \A k \in DOMAIN otks : otks[k] \in BOOLEAN
    /\ making \in Making
    /\ lastKey \in 0..MaxKeys
    /\ peer \in [Peers -> [pc : {"idle", "selected", "holding", "loaded"}, key : 0..MaxKeys, loaded : SUBSET Otk]]
    /\ handed \in [Otk -> Nat]
    /\ blurredKeys \cup spoilt \cup refused \subseteq Otk

Batch == lastKey + 1..lastKey + BatchSize

KeyTrouble == keyTroubles < MaxKeyTroubles /\ keyTroubles' = keyTroubles + 1

----------------------------------------------------------------------------
\* The server's device.

\* There is no row in matrix_olm_account.
Missing == lastKey = 0

\* ensure_account at the start: an account that is there is only loaded.
Ensure ==
    /\ owner = "server" /\ making.pc = "idle"
    /\ Missing /\ Batch \subseteq Otk
    /\ lastKey' = lastKey + BatchSize
    /\ account' = Batch
    /\ making' = [pc |-> "device", keys |-> Batch]
    /\ UNCHANGED <<owner, otks, peer, handed, blurredKeys, spoilt, refused, keyTroubles>>

StoreDevice ==
    /\ making.pc = "device"
    /\ making' = [making EXCEPT !.pc = "keys"]
    /\ UNCHANGED <<owner, account, otks, lastKey, peer, handed, blurredKeys, spoilt, refused, keyTroubles>>

\* store_signed_otks: one insert for each key.
StoreOtk(k) ==
    /\ owner = "server" /\ making.pc = "keys" /\ k \in making.keys
    /\ otks' = [j \in DOMAIN otks \cup {k} |-> j # k /\ otks[j]]
    /\ making' = IF making.keys = {k} THEN [pc |-> "idle", keys |-> {}] ELSE [making EXCEPT !.keys = @ \ {k}]
    /\ UNCHANGED <<owner, account, lastKey, peer, handed, blurredKeys, spoilt, refused, keyTroubles>>

----------------------------------------------------------------------------
\* A bridge's device.

Generate ==
    /\ owner = "bridge" /\ making.pc = "idle" /\ Batch \subseteq Otk
    /\ lastKey' = lastKey + BatchSize
    /\ making' = [pc |-> "keys", keys |-> Batch]
    /\ UNCHANGED <<owner, account, otks, peer, handed, blurredKeys, spoilt, refused, keyTroubles>>

\* keys_upload: one transaction drops the used keys and stores the new ones as
\* unused, those that are there as well.  A bridge that gets no answer uploads
\* the same keys again.
Upload ==
    /\ owner = "bridge" /\ making.pc = "keys"
    /\ otks' = [k \in making.keys \cup {j \in DOMAIN otks : ~otks[j]} |-> FALSE]
    /\ blurredKeys' = blurredKeys \cup {k \in making.keys : handed[k] > 0 \/ \E p \in Peers : peer[p].key = k}
    /\ \/ making' = [pc |-> "idle", keys |-> {}] /\ UNCHANGED keyTroubles
       \/ KeyTrouble /\ UNCHANGED making
    /\ UNCHANGED <<owner, account, lastKey, peer, handed, spoilt, refused>>

----------------------------------------------------------------------------
\* keys_claim.

\* get_unused_one_time_keys.
Select(p, k) ==
    /\ peer[p].pc = "idle"
    /\ k \in DOMAIN otks /\ ~otks[k]
    /\ peer' = [peer EXCEPT ![p] = [pc |-> "selected", key |-> k, loaded |-> {}]]
    /\ blurredKeys' = IF \E q \in Peers : peer[q].pc = "selected" /\ peer[q].key = k
                      THEN blurredKeys \cup {k} ELSE blurredKeys
    /\ UNCHANGED <<owner, account, otks, making, lastKey, handed, spoilt, refused, keyTroubles>>

\* Mutant of MarkUsed: the key is not marked.
LeaveUnused(k) == otks

\* mark_one_time_keys_used, of a row that is there.
MarkUsed(k) == [j \in DOMAIN otks |-> otks[j] \/ j = k]

\* The answer goes out whether or not the key could be marked, unless the
\* bridge is gone; a request dropped before the update leaves the key unused.
Claim(p) ==
    LET k == peer[p].key IN
    /\ peer[p].pc = "selected"
    /\ \/ /\ otks' = MarkUsed(k)
          /\ UNCHANGED <<blurredKeys, keyTroubles>>
       \/ /\ KeyTrouble
          /\ blurredKeys' = blurredKeys \cup {k}
          /\ UNCHANGED otks
    /\ handed' = [handed EXCEPT ![k] = @ + 1]
    /\ spoilt' = IF handed[k] > 0 THEN spoilt \cup {k} ELSE spoilt
    /\ peer' = [peer EXCEPT ![p].pc = "holding"]
    /\ UNCHANGED <<owner, account, making, lastKey, refused>>

----------------------------------------------------------------------------
\* process_olm_to_device_message, of a first message with the claimed key.

\* load_account and create_inbound_session: a message that cannot be read is
\* logged and answered 200.
Load(p) ==
    LET k == peer[p].key IN
    /\ owner = "server" /\ peer[p].pc = "holding"
    /\ IF k \in account
       THEN /\ peer' = [peer EXCEPT ![p] = [pc |-> "loaded", key |-> k, loaded |-> account]]
            /\ UNCHANGED refused
       ELSE /\ refused' = refused \cup {k}
            /\ peer' = [peer EXCEPT ![p] = IdlePeer]
    /\ UNCHANGED <<owner, account, otks, making, lastKey, handed, blurredKeys, spoilt, keyTroubles>>

\* Mutant of SaveAccount: only the keys are kept that are still to be claimed.
SaveUnclaimed(p) == {k \in peer[p].loaded : k \in DOMAIN otks /\ ~otks[k]}

\* save_account writes what was loaded, less the key: those that other messages
\* have taken out since then are back.
SaveAccount(p) == peer[p].loaded \ {peer[p].key}

\* save_account and store_inbound_session; the request may be dropped before.
Save(p) ==
    /\ peer[p].pc = "loaded"
    /\ account' = SaveAccount(p)
    /\ peer' = [peer EXCEPT ![p] = IdlePeer]
    /\ UNCHANGED <<owner, otks, making, lastKey, handed, blurredKeys, spoilt, refused, keyTroubles>>

\* The bridge gets no answer and sends the message again.
SendAgain(p) ==
    /\ peer[p].pc = "loaded" /\ KeyTrouble
    /\ peer' = [peer EXCEPT ![p] = [pc |-> "holding", key |-> @.key, loaded |-> {}]]
    /\ spoilt' = spoilt \cup {peer[p].key}
    /\ \/ account' = SaveAccount(p)
       \/ UNCHANGED account
    /\ UNCHANGED <<owner, otks, making, lastKey, handed, blurredKeys, refused>>

\* A bridge, or its request, goes away.
GiveUp(p) ==
    /\ peer[p].pc # "idle" /\ KeyTrouble
    /\ peer' = [peer EXCEPT ![p] = IdlePeer]
    /\ UNCHANGED <<owner, account, otks, making, lastKey, handed, blurredKeys, spoilt, refused>>

\* The process stops and starts: ensure_account begins anew, the requests are gone.
RestartKeys ==
    /\ KeyTrouble
    /\ making' = IF owner = "server" THEN [pc |-> "idle", keys |-> {}] ELSE making
    /\ peer' = [p \in Peers |-> IF peer[p].pc = "holding" THEN peer[p] ELSE IdlePeer]
    /\ UNCHANGED <<owner, account, otks, lastKey, handed, blurredKeys, spoilt, refused>>

KeysInit ==
    /\ owner \in {"server", "bridge"}
    /\ account = {} /\ otks = <<>>
    /\ making = [pc |-> "idle", keys |-> {}]
    /\ lastKey = 0
    /\ peer = [p \in Peers |-> IdlePeer]
    /\ handed = [k \in Otk |-> 0]
    /\ blurredKeys = {} /\ spoilt = {} /\ refused = {}
    /\ keyTroubles = 0

KeysNext ==
    \/ Ensure \/ StoreDevice \/ Generate \/ Upload \/ RestartKeys
    \/ \E k \in Otk : StoreOtk(k)
    \/ \E p \in Peers :
        \/ \E k \in Otk : Select(p, k)
        \/ Claim(p) \/ Load(p) \/ Save(p) \/ SendAgain(p) \/ GiveUp(p)

KeysSpec == KeysInit /\ [][KeysNext]_keysVars

----------------------------------------------------------------------------
\* Properties.

\* "Claims and marks one-time keys as used": no key is handed out twice, across
\* restarts, uploads and requests that end half way.  Not so for a key that two
\* claims selected at the same time, that could not be marked, or that a bridge
\* without an answer uploaded again after it was claimed.
ClaimedOnce == \A k \in Otk \ blurredKeys : handed[k] <= 1

\* A first message with a key handed out once can be read, although the account
\* and the table of its keys are written apart, the account is overwritten by
\* messages side by side, and a start may have stopped between the two.
FirstMessageIsRead == refused \subseteq spoilt
=============================================================================
