------------------------------- MODULE MsgDb -------------------------------
(***************************************************************************)
(* The message database of crates/msgdb: a sled key-value store holding    *)
(* the messages and the durable half of the id sequence, and the in-memory *)
(* half of that sequence (struct Sequence).                                *)
(*                                                                         *)
(* sled is an append-only log whose writes reach the disk later and in     *)
(* order, so the store is modelled as the sequence "log" of its writes and *)
(* the length "flushed" of the prefix that is on the disk.  A crash keeps  *)
(* some prefix that contains the flushed one.  Each write carries "key",   *)
(* the value of the SEQUENCE/ entry after it; reading that entry back from *)
(* any prefix is then one lookup.                                          *)
(***************************************************************************)
EXTENDS Integers, Sequences, FiniteSets

CONSTANTS Users,      \* uids
          Groups,     \* gids
          NoTarget,   \* neither
          Bandwidth   \* SEQUENCE_BANDWIDTH: ids reserved by one lease write

ASSUME BandwidthAssumption == Bandwidth \in Nat \ {0}
ASSUME ConversationAssumption == Users \cap Groups = {} /\ NoTarget \notin Users \cup Groups

VARIABLES log,      \* the writes of the sled database, oldest first
          flushed,  \* length of the prefix of log that is on the disk
          next,     \* Sequence.next
          leased    \* Sequence.leased

dbVars == <<log, flushed, next, leased>>

Mid == Nat

Targets == Users \cup Groups

\* One write of the store: an apply_batch or an insert.
LeaseWrite == [op : {"lease"}, key : Nat]
PutWrite   == [op : {"put"}, mid : Mid, target : Targets, to : SUBSET Users, key : Nat]
MergeWrite == [op : {"merge"}, mid : Mid, key : Nat]
ClearWrite == [op : {"clear"}, gid : Groups, key : Nat]
Write == LeaseWrite \cup PutWrite \cup MergeWrite \cup ClearWrite

DbTypeOK ==
    /\ log \in Seq(Write)
    /\ flushed \in 0..Len(log)
    /\ next \in Nat
    /\ leased \in Nat

----------------------------------------------------------------------------
\* The sequence.

\* The SEQUENCE/ entry of store l; 1 where the entry is missing.
SequenceKey(l) == IF l = <<>> THEN 1 ELSE l[Len(l)].key

\* Mutant of FreshId: the entry is taken for the last id of the lease before.
FreshIdOfLastLease == IF next >= leased THEN SequenceKey(log) - 1 ELSE next

\* The id that generate_id hands out next: a spent lease is read back from
\* the store first.
FreshId == IF next >= leased THEN SequenceKey(log) ELSE next

\* generate_id, under the mutex of MsgDb; the caller gets FreshId.
GenerateId ==
    /\ next' = FreshId + 1
    /\ IF next >= leased
       THEN /\ leased' = FreshId + Bandwidth
            /\ log' = Append(log, [op |-> "lease", key |-> FreshId + Bandwidth])
       ELSE UNCHANGED <<leased, log>>
    /\ UNCHANGED flushed

\* Mutant of Open: the lease is taken in memory and never written.
OpenUnwritten(l) ==
    /\ next' = SequenceKey(l)
    /\ leased' = SequenceKey(l) + Bandwidth
    /\ log' = l

\* MsgDb::open on the store l: Sequence::new takes a lease at once.
Open(l) ==
    /\ next' = SequenceKey(l)
    /\ leased' = SequenceKey(l) + Bandwidth
    /\ log' = Append(l, [op |-> "lease", key |-> SequenceKey(l) + Bandwidth])

\* Mutant of ReleaseAndOpen: the last id that was given is written, not the next.
ReleaseLastAndOpen ==
    /\ Open(Append(log, [op |-> "lease", key |-> next - 1]))
    /\ flushed' = Len(log) + 1

\* Drop of MsgDb (Sequence::release) followed by the next start.
ReleaseAndOpen ==
    /\ Open(Append(log, [op |-> "lease", key |-> next]))
    /\ flushed' = Len(log) + 1

\* The process dies; the first k writes survive; the next start.
CrashAndOpen(k) ==
    /\ k \in flushed..Len(log)
    /\ Open(SubSeq(log, 1, k))
    /\ flushed' = k

\* sled's background flusher.
Flush ==
    /\ flushed # Len(log)
    /\ flushed' = Len(log)
    /\ UNCHANGED <<log, next, leased>>

----------------------------------------------------------------------------
\* The messages.

Commit(w) ==
    /\ log' = Append(log, w)
    /\ UNCHANGED <<flushed, next, leased>>

\* send_to_group and send_to_dm after the id was drawn: one batch with the
\* message (MSG/), a reference per recipient (UMSG/) and one in the index of
\* the conversation (GMSG/ or DM/).
SendTo(mid, target, to) ==
    Commit([op |-> "put", mid |-> mid, target |-> target, to |-> to, key |-> SequenceKey(log)])

\* insert_merged_msg.
InsertMergedMsg(mid) == Commit([op |-> "merge", mid |-> mid, key |-> SequenceKey(log)])

\* clear_group_messages: one batch with every message of the group.
ClearGroupMessages(gid) == Commit([op |-> "clear", gid |-> gid, key |-> SequenceKey(log)])

Puts(l) == {i \in DOMAIN l : l[i].op = "put"}

\* The writes whose message is still in the store.
Stored(l) ==
    {i \in Puts(l) : \A j \in DOMAIN l : j > i => ~(l[j].op = "clear" /\ l[j].gid = l[i].target)}

\* Mutant of UserMessages: the range starts one mid too far.
UserMessagesPast(l, uid, after) ==
    {i \in Stored(l) : uid \in l[i].to /\ l[i].mid > after + 1}

\* The references that the range UMSG/uid/after+1.. holds.
UserMessages(l, uid, after) ==
    {i \in Stored(l) : uid \in l[i].to /\ l[i].mid > after}

\* Mutant of FetchUserMessagesAfter: the range is read forwards.
FetchUserMessagesOldest(l, uid, after, limit) ==
    {i \in UserMessages(l, uid, after) :
        Cardinality({j \in UserMessages(l, uid, after) : l[j].mid < l[i].mid}) < limit}

\* fetch_user_messages_after: the range is read backwards and cut at limit.
FetchUserMessagesAfter(l, uid, after, limit) ==
    {i \in UserMessages(l, uid, after) :
        Cardinality({j \in UserMessages(l, uid, after) : l[j].mid > l[i].mid}) < limit}

----------------------------------------------------------------------------
DbInit ==
    /\ log = <<[op |-> "lease", key |-> 1 + Bandwidth]>>
    /\ flushed = 0
    /\ next = 1
    /\ leased = 1 + Bandwidth

\* Each message of a store has a mid of its own.
UniquePuts(l) == \A i, j \in Puts(l) : l[i].mid = l[j].mid => i = j

\* No mid ever names two messages of the store, whatever leases were taken,
\* released or lost in a crash.  (Sequence::generate_id, update_sequence_lease)
StoreIdsUnique == UniquePuts(log)
=============================================================================
