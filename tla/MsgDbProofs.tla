---------------------------- MODULE MsgDbProofs ----------------------------
(***************************************************************************)
(* What the operations of MsgDb preserve.  The strengthening that makes    *)
(* the uniqueness of mids inductive is LogOK: each message is smaller than *)
(* the SEQUENCE/ entry of every later prefix of the store, so whatever     *)
(* prefix a crash leaves, the ids that the next start hands out are new.   *)
(***************************************************************************)
EXTENDS MsgDb, SequenceTheorems, TLAPS

LogOK(l) ==
    /\ \A i \in DOMAIN l : l[i].key >= 1
    /\ \A i \in Puts(l) : \A j \in DOMAIN l : i <= j => l[i].mid < l[j].key
    /\ UniquePuts(l)

\* Every message of l is smaller than n.
Below(l, n) == \A i \in Puts(l) : l[i].mid < n

IdInv ==
    /\ log # <<>>
    /\ SequenceKey(log) = leased
    /\ 1 <= next /\ next <= leased
    /\ LogOK(log)
    /\ Below(log, next)

----------------------------------------------------------------------------
\* The fields of a write.
LEMMA WriteFields ==
    ASSUME NEW w \in Write
    PROVE  /\ w.key \in Nat
           /\ w.op \in {"lease", "put", "merge", "clear"}
           /\ w.op = "put" => w.mid \in Nat
  BY DEF Write, LeaseWrite, PutWrite, MergeWrite, ClearWrite, Mid

LEMMA PutsInDomain ==
    ASSUME NEW l \in Seq(Write)
    PROVE  /\ Puts(l) \subseteq 1..Len(l)
           /\ \A i \in Puts(l) : l[i].op = "put" /\ l[i].mid \in Nat
           /\ \A i \in 1..Len(l) : l[i].key \in Nat
<1>1. DOMAIN l = 1..Len(l)
  OBVIOUS
<1>2. \A i \in 1..Len(l) : l[i] \in Write
  BY ElementOfSeq
<1>3. QED
  BY <1>1, <1>2, WriteFields DEF Puts

\* A store after one more write.
LEMMA AppendWrite ==
    ASSUME NEW l \in Seq(Write), NEW w \in Write
    PROVE  /\ Append(l, w) \in Seq(Write)
           /\ Append(l, w) # <<>>
           /\ Len(Append(l, w)) = Len(l) + 1
           /\ SequenceKey(Append(l, w)) = w.key
           /\ \A i \in 1..Len(l) : Append(l, w)[i] = l[i]
           /\ Append(l, w)[Len(l) + 1] = w
           /\ Puts(Append(l, w)) = Puts(l) \cup (IF w.op = "put" THEN {Len(l) + 1} ELSE {})
           /\ w.op # "put" => Puts(Append(l, w)) = Puts(l)
<1> DEFINE m == Append(l, w)
<1>1. /\ m \in Seq(Write) /\ Len(m) = Len(l) + 1
      /\ \A i \in 1..Len(l) : m[i] = l[i]
      /\ m[Len(l) + 1] = w
  BY AppendProperties
<1>2. m # <<>>
  BY <1>1, EmptySeq
<1>3. SequenceKey(m) = w.key
  BY <1>1, <1>2 DEF SequenceKey
<1>4. DOMAIN m = 1..(Len(l) + 1) /\ DOMAIN l = 1..Len(l) /\ Len(l) \in Nat
  BY <1>1, LenProperties
<1>5. Puts(m) = Puts(l) \cup (IF w.op = "put" THEN {Len(l) + 1} ELSE {})
  <2>1. ASSUME NEW i \in Puts(m) PROVE i \in Puts(l) \/ (w.op = "put" /\ i = Len(l) + 1)
    BY <1>1, <1>4 DEF Puts
  <2>2. Puts(l) \subseteq Puts(m)
    BY <1>1, <1>4 DEF Puts
  <2>3. w.op = "put" => Len(l) + 1 \in Puts(m)
    BY <1>1, <1>4 DEF Puts
  <2>4. QED
    BY <2>1, <2>2, <2>3
<1>6. w.op # "put" => Puts(m) = Puts(l)
  BY <1>5
<1>7. QED
  BY <1>1, <1>2, <1>3, <1>5, <1>6

\* One more write keeps LogOK when its SEQUENCE/ entry is above every message,
\* the new one included, and the new message has a new mid.
LEMMA AppendLogOK ==
    ASSUME NEW l \in Seq(Write), NEW w \in Write, LogOK(l),
           w.key >= 1, Below(l, w.key),
           w.op = "put" => w.mid < w.key /\ \A i \in Puts(l) : l[i].mid # w.mid
    PROVE  LogOK(Append(l, w))
<1> DEFINE m == Append(l, w)
<1>1. /\ m \in Seq(Write) /\ Len(m) = Len(l) + 1
      /\ \A i \in 1..Len(l) : m[i] = l[i]
      /\ m[Len(l) + 1] = w
      /\ Puts(m) = Puts(l) \cup (IF w.op = "put" THEN {Len(l) + 1} ELSE {})
  BY AppendWrite
<1>2. DOMAIN m = 1..(Len(l) + 1) /\ DOMAIN l = 1..Len(l) /\ Len(l) \in Nat
  BY <1>1, LenProperties
<1>3. Puts(l) \subseteq 1..Len(l)
  BY PutsInDomain
<1>4. \A i \in DOMAIN m : m[i].key >= 1
  BY <1>1, <1>2 DEF LogOK
<1>5. ASSUME NEW i \in Puts(m), NEW j \in DOMAIN m, i <= j
      PROVE  m[i].mid < m[j].key
  <2>1. CASE i \in Puts(l) /\ j \in DOMAIN l
    BY <2>1, <1>1, <1>2, <1>3, <1>5 DEF LogOK
  <2>2. CASE i \in Puts(l) /\ j = Len(l) + 1
    BY <2>2, <1>1, <1>3 DEF Below
  <2>3. CASE i = Len(l) + 1 /\ w.op = "put"
    BY <2>3, <1>1, <1>2, <1>5
  <2>4. i \in Puts(l) \/ (i = Len(l) + 1 /\ w.op = "put")
    BY <1>1
  <2>5. j \in DOMAIN l \/ j = Len(l) + 1
    BY <1>2
  <2>6. QED
    BY <2>1, <2>2, <2>3, <2>4, <2>5
<1>6. UniquePuts(m)
  <2> SUFFICES ASSUME NEW i \in Puts(m), NEW j \in Puts(m), m[i].mid = m[j].mid
               PROVE  i = j
    BY DEF UniquePuts
  <2>1. CASE i \in Puts(l) /\ j \in Puts(l)
    BY <2>1, <1>1, <1>3 DEF LogOK, UniquePuts
  <2>2. CASE i = Len(l) + 1 /\ w.op = "put" /\ j \in Puts(l)
    BY <2>2, <1>1, <1>3
  <2>3. CASE j = Len(l) + 1 /\ w.op = "put" /\ i \in Puts(l)
    BY <2>3, <1>1, <1>3
  <2>4. QED
    BY <2>1, <2>2, <2>3, <1>1
<1>7. QED
  BY <1>4, <1>5, <1>6 DEF LogOK

\* What a crash leaves: the SEQUENCE/ entry is above every message.
LEMMA PrefixLogOK ==
    ASSUME NEW l \in Seq(Write), LogOK(l), NEW k \in 0..Len(l)
    PROVE  /\ SubSeq(l, 1, k) \in Seq(Write)
           /\ Len(SubSeq(l, 1, k)) = k
           /\ LogOK(SubSeq(l, 1, k))
           /\ SequenceKey(SubSeq(l, 1, k)) \in Nat
           /\ SequenceKey(SubSeq(l, 1, k)) >= 1
           /\ Below(SubSeq(l, 1, k), SequenceKey(SubSeq(l, 1, k)))
<1> DEFINE p == SubSeq(l, 1, k)
<1>0. Len(l) \in Nat /\ DOMAIN l = 1..Len(l) /\ \A i \in 1..Len(l) : l[i] \in Write
  BY LenProperties, ElementOfSeq
<1>1. p \in Seq(Write) /\ Len(p) = k /\ \A i \in 1..k : p[i] = l[i]
  <2>1. \A i \in 1..k : l[i] \in Write
    BY <1>0
  <2>2. /\ p \in Seq(Write)
        /\ Len(p) = IF 1 <= k THEN k - 1 + 1 ELSE 0
        /\ \A i \in 1..(k - 1 + 1) : p[i] = l[1 + i - 1]
    BY <2>1, SubSeqProperties
  <2>3. QED
    BY <2>2, <1>0
<1>2. DOMAIN p = 1..k
  BY <1>1, LenProperties
<1>3. Puts(p) \subseteq Puts(l) /\ Puts(p) \subseteq 1..k
  BY <1>0, <1>1, <1>2 DEF Puts
<1>4. LogOK(p)
  <2>1. \A i \in DOMAIN p : p[i].key >= 1
    BY <1>0, <1>1, <1>2 DEF LogOK
  <2>2. \A i \in Puts(p) : \A j \in DOMAIN p : i <= j => p[i].mid < p[j].key
    BY <1>0, <1>1, <1>2, <1>3 DEF LogOK
  <2>3. UniquePuts(p)
    BY <1>1, <1>3 DEF LogOK, UniquePuts
  <2>4. QED
    BY <2>1, <2>2, <2>3 DEF LogOK
<1>5. CASE k = 0
  <2>1. p = <<>>
    BY <1>1, <1>5, EmptySeq
  <2>2. Puts(p) = {}
    BY <1>3, <1>5
  <2>3. QED
    BY <2>1, <2>2, <1>1, <1>4 DEF SequenceKey, Below
<1>6. CASE k # 0
  <2>1. p # <<>> /\ SequenceKey(p) = p[k].key
    BY <1>1, <1>6, EmptySeq DEF SequenceKey
  <2>2. p[k].key \in Nat /\ p[k].key >= 1
    BY <1>0, <1>1, <1>2, <1>4, <1>6, WriteFields DEF LogOK
  <2>3. Below(p, p[k].key)
    BY <1>2, <1>3, <1>4, <1>6 DEF LogOK, Below
  <2>4. QED
    BY <2>1, <2>2, <2>3, <1>1, <1>4
<1>7. QED
  BY <1>5, <1>6

----------------------------------------------------------------------------
\* Each operation keeps DbTypeOK and IdInv.

LEMMA KeyIsLeased ==
    ASSUME DbTypeOK, IdInv
    PROVE  /\ FreshId = next
           /\ SequenceKey(log) = leased /\ leased \in Nat /\ next \in Nat
           /\ Below(log, leased)
<1>1. log \in Seq(Write) /\ next \in Nat /\ leased \in Nat
  BY DEF DbTypeOK
<1>2. \A i \in Puts(log) : log[i].mid \in Nat
  BY <1>1, PutsInDomain
<1>3. FreshId = next
  BY <1>1 DEF FreshId, IdInv
<1>4. QED
  BY <1>1, <1>2, <1>3 DEF IdInv, Below

LEMMA GenerateIdOK ==
    ASSUME DbTypeOK, IdInv, GenerateId
    PROVE  /\ DbTypeOK' /\ IdInv'
           /\ next' = next + 1
           /\ \A i \in Puts(log') : i \in Puts(log) /\ log'[i] = log[i]
<1> DEFINE w == [op |-> "lease", key |-> next + Bandwidth]
<1>1. /\ log \in Seq(Write) /\ flushed \in 0..Len(log) /\ flushed' = flushed
      /\ next \in Nat /\ leased \in Nat /\ Bandwidth \in Nat /\ Bandwidth >= 1
      /\ Len(log) \in Nat
  BY BandwidthAssumption, LenProperties DEF DbTypeOK, GenerateId
<1>2. FreshId = next /\ next' = next + 1
  BY <1>1, KeyIsLeased DEF GenerateId
<1>3. CASE next >= leased
  <2>1. leased' = next + Bandwidth /\ log' = Append(log, w)
    BY <1>2, <1>3 DEF GenerateId
  <2>2. w \in Write /\ w.op # "put" /\ w.key = next + Bandwidth
    BY <1>1 DEF Write, LeaseWrite
  <2> HIDE DEF w
  <2>3. /\ log' \in Seq(Write) /\ log' # <<>> /\ Len(log') = Len(log) + 1
        /\ SequenceKey(log') = next + Bandwidth
        /\ \A i \in 1..Len(log) : log'[i] = log[i]
        /\ Puts(log') = Puts(log)
    BY <1>1, <2>1, <2>2, AppendWrite
  <2>4. Puts(log) \subseteq 1..Len(log) /\ \A i \in Puts(log) : log[i].mid \in Nat
    BY <1>1, PutsInDomain
  <2>5. Below(log, next) /\ next >= 1 /\ LogOK(log)
    BY DEF IdInv
  <2>6. Below(log, w.key)
    BY <1>1, <2>2, <2>4, <2>5 DEF Below
  <2>7. LogOK(log')
    BY <1>1, <2>1, <2>2, <2>5, <2>6, AppendLogOK
  <2>8. \A i \in Puts(log') : log'[i].mid < next'
    BY <1>1, <1>2, <2>3, <2>4, <2>5 DEF Below
  <2>9. DbTypeOK'
    BY <1>1, <1>2, <2>1, <2>3 DEF DbTypeOK
  <2>10. IdInv'
    <3>1. log' # <<>> /\ SequenceKey(log') = leased'
      BY <2>1, <2>3
    <3>2. 1 <= next' /\ next' <= leased'
      BY <1>1, <1>2, <2>1, <2>5
    <3>3. Below(log', next')
      BY <2>8 DEF Below
    <3>4. QED
      BY <3>1, <3>2, <3>3, <2>7 DEF IdInv
  <2>11. QED
    BY <1>2, <2>3, <2>4, <2>9, <2>10
<1>4. CASE ~(next >= leased)
  <2>1. leased' = leased /\ log' = log
    BY <1>4 DEF GenerateId
  <2>2. DbTypeOK'
    BY <1>1, <1>2, <2>1 DEF DbTypeOK
  <2>3. \A i \in Puts(log) : log[i].mid \in Nat
    BY <1>1, PutsInDomain
  <2>4. IdInv'
    BY <1>1, <1>2, <1>4, <2>1, <2>3 DEF IdInv, Below
  <2>5. QED
    BY <1>2, <2>1, <2>2, <2>4
<1>5. QED
  BY <1>3, <1>4

\* A write that is not a lease: it repeats the SEQUENCE/ entry.
LEMMA CommitOK ==
    ASSUME DbTypeOK, IdInv, NEW w \in Write, Commit(w), w.key = SequenceKey(log),
           w.op = "put" => w.mid < next /\ \A i \in Puts(log) : log[i].mid # w.mid
    PROVE  /\ DbTypeOK' /\ IdInv'
           /\ next' = next
           /\ \A i \in Puts(log') :
                 \/ i \in Puts(log) /\ log'[i] = log[i]
                 \/ w.op = "put" /\ log'[i] = w
<1>1. /\ log \in Seq(Write) /\ flushed \in 0..Len(log) /\ Len(log) \in Nat
      /\ next \in Nat /\ leased \in Nat
      /\ log' = Append(log, w) /\ UNCHANGED <<flushed, next, leased>>
  BY LenProperties DEF DbTypeOK, Commit
<1>2. /\ log' \in Seq(Write) /\ log' # <<>> /\ Len(log') = Len(log) + 1
      /\ SequenceKey(log') = w.key
      /\ \A i \in 1..Len(log) : log'[i] = log[i]
      /\ log'[Len(log) + 1] = w
      /\ Puts(log') = Puts(log) \cup (IF w.op = "put" THEN {Len(log) + 1} ELSE {})
  BY <1>1, AppendWrite
<1>3. /\ Puts(log) \subseteq 1..Len(log)
      /\ w.key = leased /\ Below(log, w.key)
      /\ LogOK(log) /\ Below(log, next) /\ 1 <= next /\ next <= leased
  BY <1>1, PutsInDomain, KeyIsLeased DEF IdInv
<1>4. w.op = "put" => w.mid \in Nat
  BY WriteFields
<1>5. LogOK(log')
  <2>1. w.key >= 1
    BY <1>1, <1>3
  <2>2. w.op = "put" => w.mid < w.key /\ \A i \in Puts(log) : log[i].mid # w.mid
    BY <1>1, <1>3, <1>4
  <2>3. QED
    BY <1>1, <1>3, <2>1, <2>2, AppendLogOK
<1>6. \A i \in Puts(log') :
         \/ i \in Puts(log) /\ log'[i] = log[i]
         \/ w.op = "put" /\ log'[i] = w
  BY <1>2, <1>3
<1>7. \A i \in Puts(log') : log'[i].mid < next'
  BY <1>1, <1>3, <1>6 DEF Below
<1>8. DbTypeOK'
  BY <1>1, <1>2 DEF DbTypeOK
<1>9. IdInv'
  BY <1>1, <1>2, <1>3, <1>5, <1>7 DEF IdInv, Below
<1>10. QED
  BY <1>1, <1>6, <1>8, <1>9

\* A start on a store whose SEQUENCE/ entry is above every message.
LEMMA OpenOK ==
    ASSUME NEW l \in Seq(Write), LogOK(l), SequenceKey(l) \in Nat, SequenceKey(l) >= 1,
           Below(l, SequenceKey(l)), Open(l), flushed' \in 0..Len(l)
    PROVE  /\ DbTypeOK' /\ IdInv'
           /\ next' = SequenceKey(l)
<1> DEFINE w == [op |-> "lease", key |-> SequenceKey(l) + Bandwidth]
<1>1. /\ log' = Append(l, w) /\ next' = SequenceKey(l) /\ leased' = SequenceKey(l) + Bandwidth
      /\ Bandwidth \in Nat /\ Bandwidth >= 1 /\ Len(l) \in Nat
  BY BandwidthAssumption, LenProperties DEF Open
<1>2. w \in Write /\ w.op # "put" /\ w.key = SequenceKey(l) + Bandwidth
  BY <1>1 DEF Write, LeaseWrite
<1> HIDE DEF w
<1>3. /\ log' \in Seq(Write) /\ log' # <<>> /\ Len(log') = Len(l) + 1
      /\ SequenceKey(log') = w.key
      /\ \A i \in 1..Len(l) : log'[i] = l[i]
      /\ Puts(log') = Puts(l)
  BY <1>1, <1>2, AppendWrite
<1>4. Puts(l) \subseteq 1..Len(l) /\ \A i \in Puts(l) : l[i].mid \in Nat
  BY PutsInDomain
<1>5. Below(l, w.key)
  BY <1>1, <1>2, <1>4 DEF Below
<1>6. LogOK(log')
  <2>1. w.key >= 1
    BY <1>1, <1>2
  <2>2. QED
    BY <1>1, <1>2, <1>5, <2>1, AppendLogOK
<1>7. \A i \in Puts(log') : log'[i].mid < next'
  BY <1>1, <1>3, <1>4 DEF Below
<1>8. DbTypeOK'
  BY <1>1, <1>3 DEF DbTypeOK
<1>9. IdInv'
  <2>1. log' # <<>> /\ SequenceKey(log') = leased'
    BY <1>1, <1>2, <1>3
  <2>2. 1 <= next' /\ next' <= leased'
    BY <1>1
  <2>3. Below(log', next')
    BY <1>7 DEF Below
  <2>4. QED
    BY <2>1, <2>2, <2>3, <1>6 DEF IdInv
<1>10. QED
  BY <1>1, <1>8, <1>9

LEMMA CrashAndOpenOK ==
    ASSUME DbTypeOK, IdInv, NEW k, CrashAndOpen(k)
    PROVE  /\ DbTypeOK' /\ IdInv'
           /\ next' = SequenceKey(SubSeq(log, 1, k))
<1> DEFINE p == SubSeq(log, 1, k)
<1>1. log \in Seq(Write) /\ LogOK(log) /\ flushed \in 0..Len(log) /\ Len(log) \in Nat
  BY LenProperties DEF DbTypeOK, IdInv
<1>2. k \in 0..Len(log) /\ Open(p) /\ flushed' = k
  BY <1>1 DEF CrashAndOpen
<1>3. /\ p \in Seq(Write) /\ Len(p) = k /\ LogOK(p)
      /\ SequenceKey(p) \in Nat /\ SequenceKey(p) >= 1 /\ Below(p, SequenceKey(p))
  BY <1>1, <1>2, PrefixLogOK
<1>4. flushed' \in 0..Len(p)
  BY <1>2, <1>3
<1>5. QED
  BY <1>2, <1>3, <1>4, OpenOK

LEMMA ReleaseAndOpenOK ==
    ASSUME DbTypeOK, IdInv, ReleaseAndOpen
    PROVE  /\ DbTypeOK' /\ IdInv' /\ next' = next
<1> DEFINE w == [op |-> "lease", key |-> next]
           l == Append(log, w)
<1>1. /\ log \in Seq(Write) /\ LogOK(log) /\ Below(log, next) /\ next \in Nat /\ next >= 1
      /\ Len(log) \in Nat
  BY LenProperties DEF DbTypeOK, IdInv
<1>2. w \in Write /\ w.op # "put" /\ w.key = next
  BY <1>1 DEF Write, LeaseWrite
<1>3. Open(l) /\ flushed' = Len(log) + 1
  BY DEF ReleaseAndOpen
<1> HIDE DEF w
<1>4. /\ l \in Seq(Write) /\ Len(l) = Len(log) + 1 /\ SequenceKey(l) = next
      /\ \A i \in 1..Len(log) : l[i] = log[i]
      /\ Puts(l) = Puts(log) /\ Puts(log) \subseteq 1..Len(log)
  BY <1>1, <1>2, AppendWrite, PutsInDomain
<1>5. Below(l, next)
  BY <1>1, <1>4 DEF Below
<1>6. LogOK(l)
  BY <1>1, <1>2, AppendLogOK
<1>7. flushed' \in 0..Len(l)
  BY <1>1, <1>3, <1>4
<1> HIDE DEF l
<1>8. QED
  BY <1>1, <1>3, <1>4, <1>5, <1>6, <1>7, OpenOK

LEMMA FlushOK ==
    ASSUME DbTypeOK, IdInv, Flush
    PROVE  DbTypeOK' /\ IdInv' /\ next' = next /\ log' = log
<1>1. Len(log) \in Nat
  BY LenProperties DEF DbTypeOK
<1>2. QED
  BY <1>1 DEF DbTypeOK, IdInv, Flush

LEMMA DbInitOK == DbInit => DbTypeOK /\ IdInv
<1> SUFFICES ASSUME DbInit PROVE DbTypeOK /\ IdInv
  OBVIOUS
<1> DEFINE w == [op |-> "lease", key |-> 1 + Bandwidth]
<1>1. /\ Bandwidth \in Nat /\ Bandwidth >= 1 /\ next = 1 /\ leased = 1 + Bandwidth
      /\ flushed = 0 /\ log = <<w>>
  BY BandwidthAssumption DEF DbInit
<1>2. w \in Write /\ w.op # "put" /\ w.key = 1 + Bandwidth
  BY <1>1 DEF Write, LeaseWrite
<1>3. log \in Seq(Write) /\ Len(log) = 1 /\ log[1] = w /\ log # <<>> /\ DOMAIN log = 1..1
  BY <1>1, <1>2
<1>4. Puts(log) = {}
  BY <1>2, <1>3 DEF Puts
<1>5. DbTypeOK
  BY <1>1, <1>3 DEF DbTypeOK
<1>6. IdInv
  BY <1>1, <1>2, <1>3, <1>4 DEF IdInv, SequenceKey, LogOK, UniquePuts, Below
<1>7. QED
  BY <1>5, <1>6
=============================================================================
