---------------------------- MODULE GroupsProofs ----------------------------
(***************************************************************************)
(* Groups, their pins and announcements, and the apps that show them, for  *)
(* any number of users, groups, messages, edits, requests and troubles.    *)
(*                                                                         *)
(* None of the three properties is inductive.  CacheAgrees compares rows up*)
(* to the users that are gone, which rests on what the foreign keys of     *)
(* SQLite leave (RowStands), and is kept field by field (RowAgrees).       *)
(* PinsFresh needs that the copy of an edit to its pin is still on its way *)
(* when the two differ, and that what process_msg_updated has read is the  *)
(* last edit or another one is in the queue (PinsStand).  MirrorAgrees     *)
(* speaks only of apps that have read all that they were sent: before that,*)
(* there is a path of rows from what the app shows, or from a join that it *)
(* will read, along the posts in its inbox to the row of the cache (Leads),*)
(* or the last that it will read of a group that it is not in is that it is*)
(* out of it (Forgets).  No path is claimed for an app that a handler left *)
(* out while its stream was open (hist.untold).                            *)
(*                                                                         *)
(* Most requests change one group and tell its readers: ServeKeeps says    *)
(* what they have to show for the invariant to be kept (Tells).            *)
(***************************************************************************)
EXTENDS Groups, SequenceTheorems, NaturalsInduction, WellFoundedInduction, FiniteSetTheorems, TLAPS

----------------------------------------------------------------------------
\* Stores, posts and broadcasts.

\* What a store is after a row of it was written.
LEMMA StoreWrite ==
  ASSUME NEW s \in Store, NEW g \in Gids, NEW r \in Row
  PROVE  LET t == [s EXCEPT !.groups[g] = r] IN
         /\ t \in Store /\ t.users = s.users /\ t.groups[g] = r
         /\ \A h \in Gids \ {g} : t.groups[h] = s.groups[h]
  BY DEF Store

\* The bounds that a step spends.
LEMMA CountTypes ==
  ASSUME NEW n \in [requests : Nat, troubles : Nat]
  PROVE  /\ [n EXCEPT !.requests = @ + 1] \in [requests : Nat, troubles : Nat]
         /\ [n EXCEPT !.troubles = @ + 1] \in [requests : Nat, troubles : Nat]
         /\ [n EXCEPT !.requests = @ + 1, !.troubles = @ + 1] \in [requests : Nat, troubles : Nat]
<1>1. n.requests + 1 \in Nat /\ n.troubles + 1 \in Nat
  OBVIOUS
<1>2. ASSUME NEW k \in Nat, NEW l \in Nat
      PROVE  /\ [n EXCEPT !.requests = k] \in [requests : Nat, troubles : Nat]
             /\ [n EXCEPT !.troubles = l] \in [requests : Nat, troubles : Nat]
             /\ [n EXCEPT !.requests = k, !.troubles = l] \in [requests : Nat, troubles : Nat]
  OBVIOUS
<1> QED BY <1>1, <1>2, Zenon

\* The stores and their rows.
LEMMA StoreTypes ==
  ASSUME TypeOK
  PROVE  /\ table.users \subseteq Users /\ cache.users \subseteq Users
         /\ \A g \in Gids : table.groups[g] \in Row /\ cache.groups[g] \in Row
  BY DEF TypeOK, Store

\* There is a row for a group that is not there.
LEMMA NoGroupRow == NoGroup \in Row
  BY DEF NoGroup, Row

\* The posts of the handlers are events.
LEMMA PostTypes ==
  ASSUME NEW kind \in {"joined", "kicked", "userJoined", "userLeft", "changed", "pin", "announcement"},
         NEW to, to \subseteq Users, NEW g \in Gids
  PROVE  /\ Post(kind, to, g) \in Event
         /\ \A row \in Row : PostRow(kind, to, g, row) \in Event
         /\ \A us : us \subseteq Users => PostUsers(kind, to, g, us) \in Event
         /\ \A m \in Mids : \A pins : pins \subseteq Pin => PostPin(to, g, m, pins) \in Event
<1>1. Post(kind, to, g) \in Event
  BY NoGroupRow DEF Post, Event
<1>2. ASSUME NEW row \in Row PROVE PostRow(kind, to, g, row) \in Event
  BY NoGroupRow DEF Post, PostRow, Event
<1>3. ASSUME NEW us, us \subseteq Users PROVE PostUsers(kind, to, g, us) \in Event
  BY <1>3, NoGroupRow DEF Post, PostUsers, Event
<1>4. ASSUME NEW m \in Mids, NEW pins, pins \subseteq Pin PROVE PostPin(to, g, m, pins) \in Event
  <2> DEFINE r == [NoGroup EXCEPT !.pins = pins]
  <2>1. r \in Row
    BY <1>4, NoGroupRow DEF NoGroup, Row
  <2>2. PostPin(to, g, m, pins) = [Post("pin", to, g) EXCEPT !.mid = m, !.row = r]
    BY DEF PostPin
  <2> HIDE DEF r
  <2> QED BY <2>1, <2>2, NoGroupRow DEF Post, Event
<1> QED BY <1>1, <1>2, <1>3, <1>4

\* A broadcast reaches the streams that are open, and nothing else of the apps.
LEMMA BroadcastMirror ==
  ASSUME TypeOK, NEW posts \in Seq(Event), Broadcast(posts)
  PROVE  /\ mirror' \in [Users -> [on : BOOLEAN, view : [Gids -> Row], inbox : Seq(Event)]]
         /\ \A u \in Users :
               /\ mirror'[u].on = mirror[u].on /\ mirror'[u].view = mirror[u].view
               /\ mirror'[u].inbox = IF mirror[u].on THEN mirror[u].inbox \o posts ELSE mirror[u].inbox
<1> DEFINE M == [on : BOOLEAN, view : [Gids -> Row], inbox : Seq(Event)]
<1>1. ASSUME NEW u \in Users
      PROVE  /\ mirror'[u] \in M
             /\ mirror'[u].on = mirror[u].on /\ mirror'[u].view = mirror[u].view
             /\ mirror'[u].inbox = IF mirror[u].on THEN mirror[u].inbox \o posts ELSE mirror[u].inbox
  <2>1. mirror[u] \in M /\ mirror[u].inbox \o posts \in Seq(Event)
    BY ConcatProperties DEF TypeOK
  <2>2. mirror'[u] = IF mirror[u].on THEN [mirror[u] EXCEPT !.inbox = mirror[u].inbox \o posts] ELSE mirror[u]
    BY DEF Broadcast
  <2> QED BY <2>1, <2>2
<1>2. DOMAIN mirror' = Users /\ mirror' = [u \in Users |-> mirror'[u]]
  BY DEF Broadcast
<1> QED BY <1>1, <1>2

----------------------------------------------------------------------------
\* Types.

PinsWritten(row) == \A p \in row.pins : p.content # 0

History == [cut : SUBSET Gids, lost : SUBSET (Gids \X Mids), untold : SUBSET (Users \X Gids),
            shared : SUBSET Mids, failed : BOOLEAN]

\* What a handler of one group keeps.
LEMMA ServeType ==
  ASSUME TypeOK, NEW g \in Gids, NEW t \in Row, NEW c \in Row, PinsWritten(c),
         NEW posts \in Seq(Event), NEW after \in History, Serve(g, t, c, posts, after), born' \in 0..MaxGroups
  PROVE  TypeOK'
<1>1. table' = [table EXCEPT !.groups[g] = t] /\ cache' \in {cache, [cache EXCEPT !.groups[g] = c]}
      /\ UNCHANGED <<merged, queue, worker>>
  BY DEF Serve
<1>2. table' \in Store
  BY <1>1, StoreWrite DEF TypeOK
<1>3. cache' \in Store /\ \A h \in Gids : PinsWritten(cache'.groups[h])
  <2>1. CASE cache' = cache
    BY <2>1 DEF TypeOK, PinsWritten
  <2>2. CASE cache' = [cache EXCEPT !.groups[g] = c]
    <3>1. /\ cache' \in Store /\ cache'.groups[g] = c
          /\ \A h \in Gids \ {g} : cache'.groups[h] = cache.groups[h]
      <4>1. cache \in Store
        BY DEF TypeOK
      <4> QED BY <2>2, <4>1, StoreWrite
    <3> QED BY <3>1 DEF TypeOK, PinsWritten
  <2> QED BY <1>1, <2>1, <2>2
<1>4. mirror' \in [Users -> [on : BOOLEAN, view : [Gids -> Row], inbox : Seq(Event)]]
  <2>1. CASE Broadcast(posts)
    BY <2>1, BroadcastMirror
  <2>2. CASE mirror' = mirror
    BY <2>2 DEF TypeOK
  <2> QED BY <2>1, <2>2 DEF Serve
<1>5. used' \in [requests : Nat, troubles : Nat]
  <2>1. used \in [requests : Nat, troubles : Nat]
    BY DEF TypeOK
  <2>2. \/ used' = [used EXCEPT !.requests = @ + 1]
        \/ used' = [used EXCEPT !.requests = @ + 1, !.troubles = @ + 1]
    BY DEF Serve
  <2> QED BY <2>1, <2>2, CountTypes
<1>6. hist' \in History
  <2>1. CASE hist' = after
    BY <2>1
  <2>2. CASE hist' = [hist EXCEPT !.cut = IF t = table.groups[g] THEN @ ELSE @ \cup {g}]
    BY <2>2 DEF TypeOK, History
  <2> QED BY <2>1, <2>2 DEF Serve
<1> QED BY <1>1, <1>2, <1>3, <1>4, <1>5, <1>6 DEF TypeOK, PinsWritten, History

----------------------------------------------------------------------------
\* What an app makes of what it is sent.

\* The post is for u and about g; what u then shows of g.
For(u, g, e) == u \in e.to /\ e.gid = g
ShownAfter(row, u, g, e) == IF For(u, g, e) THEN Shown(row, u, e) ELSE row

Joins(u, g, e) == For(u, g, e) /\ e.kind = "joined"
Leaves(u, g, e) == For(u, g, e) /\ (e.kind = "kicked" \/ (e.kind = "userLeft" /\ u \in e.uids))

\* What an app shows of the members of a public group is not compared.
Similar(y, row) ==
    /\ y.st = row.st /\ y.owner = row.owner /\ y.pins = row.pins
    /\ y.ann = row.ann /\ y.annBy = row.annBy
    /\ row.st # "public" => y.members = row.members

\* h is what u shows of g after the posts of es from the j-th, which is a join
\* unless it starts from what u showed before.
Path(u, g, es, j, h) ==
    /\ j \in 0..Len(es) /\ h \in [j..Len(es) -> Row]
    /\ j > 0 => Joins(u, g, es[j]) /\ h[j] = es[j].row
    /\ \A i \in (j + 1)..Len(es) : h[i] = ShownAfter(h[i - 1], u, g, es[i])

Leads(u, g, x, es, row) ==
    \E j \in 0..Len(es) : \E h \in [j..Len(es) -> Row] :
        Path(u, g, es, j, h) /\ (j = 0 => h[0] = x) /\ Similar(h[Len(es)], row)

Rejoins(u, g, es, row) ==
    \E j \in 1..Len(es) : \E h \in [j..Len(es) -> Row] :
        Path(u, g, es, j, h) /\ Similar(h[Len(es)], row)

\* After the posts of es u shows nothing of g.
Forgets(u, g, x, es) ==
    /\ x.st = "none" \/ \E j \in DOMAIN es : Leaves(u, g, es[j])
    /\ \A i \in DOMAIN es : Joins(u, g, es[i]) => \E j \in DOMAIN es : j > i /\ Leaves(u, g, es[j])

\* What an app shows is a row.
LEMMA ShownType ==
  ASSUME NEW x \in Row, NEW u \in Users, NEW g \in Gids, NEW e \in Event
  PROVE  Shown(x, u, e) \in Row /\ ShownAfter(x, u, g, e) \in Row
<1>1. e.row \in Row /\ e.uids \subseteq Users /\ NoGroup \in Row
  BY NoGroupRow DEF Event
<1>2. /\ x.members \cup e.uids \subseteq Users /\ x.members \ e.uids \subseteq Users
      /\ {p \in x.pins : p.mid # e.mid} \cup e.row.pins \subseteq Pin
  BY <1>1 DEF Row
<1>3. /\ [x EXCEPT !.members = @ \cup e.uids] \in Row
      /\ [x EXCEPT !.members = @ \ e.uids] \in Row
      /\ [x EXCEPT !.pins = {p \in @ : p.mid # e.mid} \cup e.row.pins] \in Row
  BY <1>2 DEF Row
<1>4. [x EXCEPT !.st = "private"] \in Row /\ [x EXCEPT !.owner = e.row.owner] \in Row
  BY <1>1 DEF Row
<1>5. [x EXCEPT !.st = "public", !.owner = Nobody] \in Row
  BY DEF Row
<1>6. [x EXCEPT !.ann = e.row.ann, !.annBy = e.row.annBy] \in Row
  BY <1>1 DEF Row
<1>7. e.kind \in {"joined", "kicked", "userJoined", "userLeft", "changed", "pin", "announcement"}
  BY DEF Event
<1>8. Shown(x, u, e) \in Row
  BY <1>1, <1>3, <1>4, <1>5, <1>6, <1>7, Zenon DEF Shown
<1> QED BY <1>8 DEF ShownAfter

\* A join leads where it and the posts after it lead, whatever came before.
LEMMA RejoinsOn ==
  ASSUME NEW u \in Users, NEW g \in Gids, NEW x, NEW es \in Seq(Event), NEW posts \in Seq(Event),
         NEW new, Rejoins(u, g, posts, new)
  PROVE  Leads(u, g, x, es \o posts, new)
<1> PICK n : n = Len(es)
  OBVIOUS
<1> PICK m : m = Len(posts)
  OBVIOUS
<1> PICK all : all = es \o posts
  OBVIOUS
<1>1. /\ n \in Nat /\ m \in Nat /\ all \in Seq(Event) /\ Len(all) = n + m
      /\ \A i \in 1..m : all[n + i] = posts[i]
  BY ConcatProperties, LenProperties
<1>2. PICK j \in 1..m : \E h \in [j..m -> Row] : Path(u, g, posts, j, h) /\ Similar(h[m], new)
  BY DEF Rejoins
<1>3. PICK h \in [j..m -> Row] : Path(u, g, posts, j, h) /\ Similar(h[m], new)
  BY <1>2
<1> DEFINE r == [i \in (n + j)..(n + m) |-> h[i - n]]
<1>4. r \in [(n + j)..(n + m) -> Row]
  BY <1>1
<1>5. Path(u, g, all, n + j, r)
  <2>1. Joins(u, g, all[n + j]) /\ r[n + j] = all[n + j].row
    BY <1>1, <1>3 DEF Path
  <2>2. ASSUME NEW i \in (n + j + 1)..(n + m)
        PROVE  r[i] = ShownAfter(r[i - 1], u, g, all[i])
    <3>1. i - n \in (j + 1)..m /\ i - n \in 1..m /\ i - 1 \in (n + j)..(n + m) /\ (i - 1) - n = (i - n) - 1
      BY <1>1
    <3>2. all[i] = posts[i - n]
      BY <1>1, <3>1
    <3>3. h[i - n] = ShownAfter(h[(i - n) - 1], u, g, posts[i - n])
      BY <1>3, <3>1 DEF Path
    <3> QED BY <3>1, <3>2, <3>3
  <2> HIDE DEF r
  <2>3. /\ n + j \in 0..Len(all) /\ r \in [(n + j)..Len(all) -> Row]
        /\ \A i \in (n + j + 1)..Len(all) : r[i] = ShownAfter(r[i - 1], u, g, all[i])
    <3>1. Len(all) = n + m /\ n + j \in 0..(n + m)
      BY <1>1
    <3> QED BY <1>4, <2>2, <3>1
  <2> QED BY <2>1, <2>3 DEF Path
<1>6. r[n + m] = h[m]
  BY <1>1
<1> HIDE DEF r
<1>7. n + j \in 0..Len(all) /\ n + j # 0
  BY <1>1
<1> QED BY <1>1, <1>3, <1>4, <1>5, <1>6, <1>7 DEF Leads

\* Posts that follow lead on from where those before them led.
LEMMA LeadsOn ==
  ASSUME NEW u \in Users, NEW g \in Gids, NEW x, NEW es \in Seq(Event), NEW posts \in Seq(Event),
         NEW old, NEW new, Leads(u, g, x, es, old),
         \A y \in Row : Similar(y, old) => Leads(u, g, y, posts, new)
  PROVE  Leads(u, g, x, es \o posts, new)
<1> PICK n : n = Len(es)
  OBVIOUS
<1> PICK m : m = Len(posts)
  OBVIOUS
<1> PICK all : all = es \o posts
  OBVIOUS
<1>1. /\ n \in Nat /\ m \in Nat /\ all \in Seq(Event) /\ Len(all) = n + m
      /\ \A i \in 1..n : all[i] = es[i]
      /\ \A i \in 1..m : all[n + i] = posts[i]
  BY ConcatProperties, LenProperties
<1>2. PICK k \in 0..n : \E f \in [k..n -> Row] :
         Path(u, g, es, k, f) /\ (k = 0 => f[0] = x) /\ Similar(f[n], old)
  BY DEF Leads
<1>3. PICK f \in [k..n -> Row] : Path(u, g, es, k, f) /\ (k = 0 => f[0] = x) /\ Similar(f[n], old)
  BY <1>2
<1>4. f[n] \in Row
  BY <1>1
<1>5. Leads(u, g, f[n], posts, new)
  BY <1>3, <1>4
<1>6. PICK j \in 0..m : \E h \in [j..m -> Row] :
         Path(u, g, posts, j, h) /\ (j = 0 => h[0] = f[n]) /\ Similar(h[m], new)
  BY <1>5 DEF Leads
<1>7. PICK h \in [j..m -> Row] : Path(u, g, posts, j, h) /\ (j = 0 => h[0] = f[n]) /\ Similar(h[m], new)
  BY <1>6
<1>8. CASE j > 0
  <2>1. Rejoins(u, g, posts, new)
    <3>1. m = Len(posts) /\ j \in 1..m
      BY <1>1, <1>8
    <3> QED BY <1>7, <3>1 DEF Rejoins
  <2> QED BY <2>1, RejoinsOn
<1>9. CASE j = 0
  <2> DEFINE r == [i \in k..(n + m) |-> IF i <= n THEN f[i] ELSE h[i - n]]
  <2>1. r \in [k..(n + m) -> Row]
    BY <1>1, <1>9
  <2>2. Path(u, g, all, k, r)
    <3>1. k > 0 => Joins(u, g, all[k]) /\ r[k] = all[k].row
      BY <1>1, <1>3 DEF Path
    <3>2. ASSUME NEW i \in (k + 1)..(n + m)
          PROVE  r[i] = ShownAfter(r[i - 1], u, g, all[i])
      <4>1. CASE i <= n
        <5>1. i \in (k + 1)..n /\ i \in 1..n /\ i - 1 \in k..(n + m) /\ i - 1 <= n
          BY <1>1, <4>1
        <5>2. f[i] = ShownAfter(f[i - 1], u, g, es[i])
          BY <1>3, <5>1 DEF Path
        <5> QED BY <1>1, <5>1, <5>2
      <4>2. CASE i > n
        <5>1. i - n \in 1..m /\ i - n \in (j + 1)..m /\ all[i] = posts[i - n] /\ (i - 1) - n = (i - n) - 1
          BY <1>1, <1>9, <4>2
        <5>2. h[i - n] = ShownAfter(h[(i - n) - 1], u, g, posts[i - n])
          BY <1>7, <5>1 DEF Path
        <5>3. i - 1 \in k..(n + m) /\ r[i] = h[i - n]
          BY <1>1, <4>2
        <5>4. r[i - 1] = h[(i - n) - 1]
          <6>1. CASE i - 1 = n
            <7>1. r[i - 1] = f[n] /\ (i - n) - 1 = 0
              BY <1>1, <5>3, <6>1
            <7> QED BY <1>7, <1>9, <7>1
          <6>2. CASE i - 1 # n
            <7>1. i - 1 > n
              BY <1>1, <4>2, <6>2
            <7> QED BY <1>1, <5>1, <5>3, <7>1
          <6> QED BY <6>1, <6>2
        <5> QED BY <5>1, <5>2, <5>3, <5>4
      <4> QED BY <1>1, <4>1, <4>2
    <3> HIDE DEF r
    <3>3. Len(all) = n + m /\ k \in 0..(n + m)
      BY <1>1
    <3>4. /\ k \in 0..Len(all) /\ r \in [k..Len(all) -> Row]
          /\ \A i \in (k + 1)..Len(all) : r[i] = ShownAfter(r[i - 1], u, g, all[i])
      BY <2>1, <3>2, <3>3
    <3> QED BY <3>1, <3>4 DEF Path
  <2>3. r[n + m] = h[m]
    BY <1>1, <1>7, <1>9
  <2>4. k = 0 => r[0] = x
    BY <1>1, <1>3
  <2> HIDE DEF r
  <2>5. k \in 0..Len(all)
    BY <1>1
  <2> QED BY <1>1, <1>7, <2>1, <2>2, <2>3, <2>4, <2>5 DEF Leads
<1> QED BY <1>8, <1>9

\* Posts that are not for u or not about g lead nowhere else.
LEMMA LeadsSame ==
  ASSUME NEW u \in Users, NEW g \in Gids, NEW y \in Row, NEW row, Similar(y, row),
         NEW posts \in Seq(Event), \A i \in DOMAIN posts : ~For(u, g, posts[i])
  PROVE  Leads(u, g, y, posts, row)
<1> PICK n : n = Len(posts)
  OBVIOUS
<1>1. n \in Nat /\ DOMAIN posts = 1..n
  BY LenProperties
<1> DEFINE h == [i \in 0..n |-> y]
<1>2. h \in [0..n -> Row] /\ h[0] = y /\ h[n] = y
  BY <1>1
<1>3. Path(u, g, posts, 0, h)
  <2>1. ASSUME NEW i \in 1..n PROVE h[i] = ShownAfter(h[i - 1], u, g, posts[i])
    <3>1. i - 1 \in 0..n /\ i \in 0..n /\ i \in DOMAIN posts
      BY <1>1
    <3> QED BY <3>1 DEF ShownAfter
  <2> HIDE DEF h
  <2> QED BY <1>1, <1>2, <2>1 DEF Path
<1> HIDE DEF h
<1>4. 0 \in 0..n
  BY <1>1
<1> QED BY <1>2, <1>3, <1>4 DEF Leads

\* Where up to three posts lead.
LEMMA LeadsThrough ==
  ASSUME NEW u \in Users, NEW g \in Gids, NEW y \in Row, NEW row,
         NEW a \in Event, NEW b \in Event, NEW c \in Event
  PROVE  /\ Similar(ShownAfter(y, u, g, a), row) => Leads(u, g, y, <<a>>, row)
         /\ Similar(ShownAfter(ShownAfter(y, u, g, a), u, g, b), row) => Leads(u, g, y, <<a, b>>, row)
         /\ Similar(ShownAfter(ShownAfter(ShownAfter(y, u, g, a), u, g, b), u, g, c), row) => Leads(u, g, y, <<a, b, c>>, row)
<1> PICK ya \in Row : ya = ShownAfter(y, u, g, a)
  BY ShownType
<1> PICK yb \in Row : yb = ShownAfter(ya, u, g, b)
  BY ShownType
<1> PICK yc \in Row : yc = ShownAfter(yb, u, g, c)
  BY ShownType
<1>1. ASSUME Similar(ya, row) PROVE Leads(u, g, y, <<a>>, row)
  <2> DEFINE h == [i \in 0..1 |-> IF i = 0 THEN y ELSE ya]
  <2>1. /\ h \in [0..Len(<<a>>) -> Row] /\ h[0] = y /\ h[Len(<<a>>)] = ya
        /\ \A i \in 1..Len(<<a>>) : h[i] = ShownAfter(h[i - 1], u, g, <<a>>[i])
    OBVIOUS
  <2>2. 0 \in 0..Len(<<a>>) /\ 0 + 1 = 1 /\ ~(0 > 0)
    OBVIOUS
  <2> HIDE DEF h
  <2> QED BY <1>1, <2>1, <2>2 DEF Leads, Path
<1>2. ASSUME Similar(yb, row) PROVE Leads(u, g, y, <<a, b>>, row)
  <2> DEFINE h == [i \in 0..2 |-> IF i = 0 THEN y ELSE IF i = 1 THEN ya ELSE yb]
  <2>1. /\ h \in [0..Len(<<a, b>>) -> Row] /\ h[0] = y /\ h[Len(<<a, b>>)] = yb
        /\ \A i \in 1..Len(<<a, b>>) : h[i] = ShownAfter(h[i - 1], u, g, <<a, b>>[i])
    OBVIOUS
  <2>2. 0 \in 0..Len(<<a, b>>) /\ 0 + 1 = 1 /\ ~(0 > 0)
    OBVIOUS
  <2> HIDE DEF h
  <2> QED BY <1>2, <2>1, <2>2 DEF Leads, Path
<1>3. ASSUME Similar(yc, row) PROVE Leads(u, g, y, <<a, b, c>>, row)
  <2> DEFINE h == [i \in 0..3 |-> IF i = 0 THEN y ELSE IF i = 1 THEN ya ELSE IF i = 2 THEN yb ELSE yc]
  <2>1. /\ h \in [0..Len(<<a, b, c>>) -> Row] /\ h[0] = y /\ h[Len(<<a, b, c>>)] = yc
        /\ \A i \in 1..Len(<<a, b, c>>) : h[i] = ShownAfter(h[i - 1], u, g, <<a, b, c>>[i])
    OBVIOUS
  <2>2. 0 \in 0..Len(<<a, b, c>>) /\ 0 + 1 = 1 /\ ~(0 > 0)
    OBVIOUS
  <2> HIDE DEF h
  <2> QED BY <1>3, <2>1, <2>2 DEF Leads, Path
<1> QED BY <1>1, <1>2, <1>3

\* A join, with posts behind it that are not for u, leads to the row it carries.
LEMMA RejoinsAt ==
  ASSUME NEW u \in Users, NEW g \in Gids, NEW posts \in Seq(Event), NEW j \in DOMAIN posts,
         Joins(u, g, posts[j]), NEW row, Similar(posts[j].row, row),
         \A i \in DOMAIN posts : i > j => ~For(u, g, posts[i])
  PROVE  Rejoins(u, g, posts, row)
<1> PICK n : n = Len(posts)
  OBVIOUS
<1>1. n \in Nat /\ DOMAIN posts = 1..n /\ j \in 1..n /\ posts[j] \in Event
  BY LenProperties, ElementOfSeq
<1>2. posts[j].row \in Row
  BY <1>1 DEF Event
<1> PICK y \in Row : y = posts[j].row
  BY <1>2
<1> DEFINE h == [i \in j..n |-> y]
<1>3. h \in [j..n -> Row] /\ h[j] = y /\ h[n] = y
  BY <1>1
<1>4. Path(u, g, posts, j, h)
  <2>1. ASSUME NEW i \in (j + 1)..n PROVE h[i] = ShownAfter(h[i - 1], u, g, posts[i])
    <3>1. i - 1 \in j..n /\ i \in j..n /\ i \in DOMAIN posts /\ i > j
      BY <1>1
    <3> QED BY <3>1 DEF ShownAfter
  <2> HIDE DEF h
  <2>2. j \in 0..n
    BY <1>1
  <2> QED BY <1>1, <1>3, <2>1, <2>2 DEF Path
<1> HIDE DEF h
<1> QED BY <1>1, <1>3, <1>4 DEF Rejoins

\* Reading a post leads on.
LEMMA LeadsTail ==
  ASSUME NEW u \in Users, NEW g \in Gids, NEW x \in Row, NEW es \in Seq(Event), es # <<>>, NEW row,
         Leads(u, g, x, es, row)
  PROVE  Leads(u, g, ShownAfter(x, u, g, Head(es)), Tail(es), row)
<1> PICK n : n = Len(es)
  OBVIOUS
<1> PICK rest : rest = Tail(es)
  OBVIOUS
<1>1. /\ n \in Nat \ {0} /\ rest \in Seq(Event) /\ Len(rest) = n - 1 /\ Head(es) = es[1]
      /\ \A i \in 1..(n - 1) : rest[i] = es[i + 1]
  BY HeadTailProperties, LenProperties, EmptySeq
<1>2. PICK j \in 0..n : \E f \in [j..n -> Row] :
         Path(u, g, es, j, f) /\ (j = 0 => f[0] = x) /\ Similar(f[n], row)
  BY DEF Leads
<1>3. PICK f \in [j..n -> Row] : Path(u, g, es, j, f) /\ (j = 0 => f[0] = x) /\ Similar(f[n], row)
  BY <1>2
<1> PICK k : k = IF j <= 1 THEN 0 ELSE j - 1
  OBVIOUS
<1>4. k \in 0..(n - 1) /\ k + 1 >= j
  BY <1>1
<1> DEFINE r == [i \in k..(n - 1) |-> f[i + 1]]
<1>5. r \in [k..(n - 1) -> Row] /\ r[n - 1] = f[n]
  BY <1>1, <1>4
<1>6. ASSUME NEW i \in (k + 1)..(n - 1) PROVE r[i] = ShownAfter(r[i - 1], u, g, rest[i])
  <2>1. /\ i \in k..(n - 1) /\ i - 1 \in k..(n - 1) /\ (i - 1) + 1 = i /\ (i + 1) - 1 = i
        /\ i \in 1..(n - 1) /\ i + 1 \in (j + 1)..n
    BY <1>1, <1>4
  <2>2. f[i + 1] = ShownAfter(f[(i + 1) - 1], u, g, es[i + 1])
    BY <1>3, <2>1 DEF Path
  <2> QED BY <1>1, <2>1, <2>2
<1>7. ASSUME k > 0 PROVE Joins(u, g, rest[k]) /\ r[k] = rest[k].row
  <2>1. j > 0 /\ k \in 1..(n - 1) /\ k + 1 = j /\ k \in k..(n - 1)
    BY <1>1, <1>7
  <2> QED BY <1>1, <1>3, <2>1 DEF Path
<1>8. ASSUME k = 0 PROVE r[0] = ShownAfter(x, u, g, es[1])
  <2>1. r[0] = f[1]
    BY <1>1, <1>4, <1>8
  <2>2. CASE j = 0
    <3>1. f[1] = ShownAfter(f[1 - 1], u, g, es[1])
      BY <1>1, <1>3, <2>2 DEF Path
    <3> QED BY <1>3, <2>1, <2>2, <3>1
  <2>3. CASE j = 1
    <3>1. Joins(u, g, es[1]) /\ f[1] = es[1].row
      BY <1>3, <2>3 DEF Path
    <3>2. ShownAfter(x, u, g, es[1]) = Shown(x, u, es[1]) /\ Shown(x, u, es[1]) = es[1].row
      BY <3>1 DEF Joins, ShownAfter, Shown
    <3> QED BY <2>1, <3>1, <3>2
  <2> QED BY <1>1, <1>8, <2>2, <2>3
<1> HIDE DEF r
<1>9. Path(u, g, rest, k, r)
  <2>1. k \in 0..Len(rest) /\ r \in [k..Len(rest) -> Row]
    BY <1>1, <1>4, <1>5
  <2>2. \A i \in (k + 1)..Len(rest) : r[i] = ShownAfter(r[i - 1], u, g, rest[i])
    BY <1>1, <1>6
  <2> QED BY <1>7, <2>1, <2>2 DEF Path
<1>10. k \in 0..Len(rest) /\ r \in [k..Len(rest) -> Row] /\ Similar(r[Len(rest)], row)
  BY <1>1, <1>3, <1>4, <1>5
<1> QED BY <1>1, <1>8, <1>9, <1>10 DEF Leads

\* Posts that do not bring g back leave it forgotten.
LEMMA ForgetsOn ==
  ASSUME NEW u \in Users, NEW g \in Gids, NEW x, NEW es \in Seq(Event), NEW posts \in Seq(Event),
         Forgets(u, g, x, es) \/ \E j \in DOMAIN posts : Leaves(u, g, posts[j]),
         \A i \in DOMAIN posts : ~Joins(u, g, posts[i])
  PROVE  Forgets(u, g, x, es \o posts)
<1> PICK n : n = Len(es)
  OBVIOUS
<1> PICK m : m = Len(posts)
  OBVIOUS
<1> PICK all : all = es \o posts
  OBVIOUS
<1>1. /\ n \in Nat /\ m \in Nat /\ DOMAIN all = 1..(n + m) /\ DOMAIN es = 1..n /\ DOMAIN posts = 1..m
      /\ \A i \in 1..n : all[i] = es[i]
      /\ \A i \in 1..m : all[n + i] = posts[i]
  BY ConcatProperties, LenProperties
<1>2. \A i \in 1..(n + m) : i \in 1..n \/ (i - n \in 1..m /\ all[i] = posts[i - n])
  <2> TAKE i \in 1..(n + m)
  <2>1. CASE i > n
    <3>1. i - n \in 1..m /\ n + (i - n) = i
      BY <1>1, <2>1
    <3> QED BY <1>1, <3>1
  <2> QED BY <1>1, <2>1
<1>3. \A i \in 1..(n + m) : Joins(u, g, all[i]) => i \in 1..n /\ Joins(u, g, es[i])
  <2> SUFFICES ASSUME NEW i \in 1..(n + m), Joins(u, g, all[i]) PROVE i \in 1..n /\ Joins(u, g, es[i])
    OBVIOUS
  <2>1. ~(i - n \in 1..m /\ all[i] = posts[i - n])
    BY <1>1
  <2> QED BY <1>1, <1>2, <2>1
<1>4. CASE Forgets(u, g, x, es)
  <2>1. \A j \in 1..n : j \in 1..(n + m) /\ all[j] = es[j]
    BY <1>1
  <2> QED BY <1>1, <1>3, <1>4, <2>1 DEF Forgets
<1>5. CASE \E j \in DOMAIN posts : Leaves(u, g, posts[j])
  <2>1. PICK j \in 1..m : Leaves(u, g, posts[j])
    BY <1>1, <1>5
  <2>2. n + j \in 1..(n + m) /\ Leaves(u, g, all[n + j]) /\ \A i \in 1..n : n + j > i
    BY <1>1, <2>1
  <2> QED BY <1>1, <1>3, <2>2 DEF Forgets
<1> QED BY <1>4, <1>5

\* Reading a post leaves it so, whether an announcement is passed on or not.
LEMMA ForgetsTail ==
  ASSUME NEW u \in Users, NEW g \in Gids, NEW x \in Row, x.st = "none" => x = NoGroup,
         NEW es \in Seq(Event), es # <<>>, Forgets(u, g, x, es),
         NEW y, y = ShownAfter(x, u, g, Head(es)) \/ (y = x /\ (Head(es).kind = "announcement" \/ ~For(u, g, Head(es))))
  PROVE  Forgets(u, g, y, Tail(es))
<1> PICK n : n = Len(es)
  OBVIOUS
<1> PICK rest : rest = Tail(es)
  OBVIOUS
<1> PICK e : e = Head(es)
  OBVIOUS
<1>1. /\ n \in Nat \ {0} /\ DOMAIN rest = 1..(n - 1) /\ DOMAIN es = 1..n /\ e = es[1]
      /\ \A i \in 1..(n - 1) : rest[i] = es[i + 1]
  BY HeadTailProperties, LenProperties, EmptySeq
<1>2. \A j \in 2..n : j - 1 \in 1..(n - 1) /\ rest[j - 1] = es[j]
  BY <1>1
<1>3. ASSUME NEW i \in DOMAIN rest, Joins(u, g, rest[i])
      PROVE  \E j \in DOMAIN rest : j > i /\ Leaves(u, g, rest[j])
  <2>1. i + 1 \in DOMAIN es /\ Joins(u, g, es[i + 1])
    BY <1>1, <1>3
  <2>2. PICK j \in DOMAIN es : j > i + 1 /\ Leaves(u, g, es[j])
    BY <2>1 DEF Forgets
  <2>3. j \in 2..n /\ j - 1 > i
    BY <1>1, <1>3, <2>2
  <2> QED BY <1>1, <1>2, <2>2, <2>3
<1>4. y.st = "none" \/ \E j \in DOMAIN rest : Leaves(u, g, rest[j])
  <2>1. CASE \E j \in 2..n : Leaves(u, g, es[j])
    BY <1>1, <1>2, <2>1
  <2>2. CASE \A j \in 2..n : ~Leaves(u, g, es[j])
    <3>1. \A j \in DOMAIN es : Leaves(u, g, es[j]) => j = 1
      BY <1>1, <2>2
    <3>2. ~Joins(u, g, e)
      BY <1>1, <3>1 DEF Forgets
    <3>3. CASE Leaves(u, g, e)
      <4>1. For(u, g, e) /\ e.kind \in {"kicked", "userLeft"} /\ (e.kind = "userLeft" => u \in e.uids)
        BY <3>3 DEF Leaves
      <4>2. Shown(x, u, e).st = "none"
        BY <4>1 DEF Shown, NoGroup
      <4> QED BY <4>1, <4>2 DEF ShownAfter
    <3>4. CASE ~Leaves(u, g, e)
      <4>1. x = NoGroup /\ NoGroup.st = "none"
        BY <1>1, <3>1, <3>4 DEF Forgets, NoGroup
      <4>2. For(u, g, e) => e.kind # "joined"
        BY <3>2 DEF Joins
      <4>3. e.kind # "joined" => Shown(NoGroup, u, e) = NoGroup
        BY <4>1 DEF Shown
      <4> QED BY <4>1, <4>2, <4>3 DEF ShownAfter
    <3> QED BY <3>3, <3>4
  <2> QED BY <2>1, <2>2
<1> QED BY <1>3, <1>4 DEF Forgets

----------------------------------------------------------------------------
\* The invariant.

\* The rows of one group in the table, t, and in the cache, c: those of the table
\* have the users they refer to, an announcement has an author, the same in both, and
\* a group that is gone from the cache has no pins there.
RowStands(t, c, users) ==
    /\ t.members \subseteq users /\ \A p \in t.pins : p.by \in users
    /\ t.annBy \in users \cup {Nobody}
    /\ t.ann = 0 <=> t.annBy = Nobody
    /\ c.ann = 0 <=> c.annBy = Nobody
    /\ t.ann # 0 /\ c.ann # 0 => t.annBy = c.annBy
    /\ c.st = "none" => c.pins = {}

StoresStand ==
    /\ table.users \subseteq cache.users
    /\ \A g \in Gids : RowStands(table.groups[g], cache.groups[g], table.users)
    /\ \A g \in Gids : g > born => table.groups[g].st = "none" /\ cache.groups[g].st = "none"

\* CacheAgrees, of one group and field by field.
SameFields(t, c, users) ==
    /\ t.st = c.st /\ t.owner = c.owner
    /\ t.members = IF c.st = "public" THEN c.members \cap users ELSE c.members
    /\ t.ann = IF c.annBy \in users THEN c.ann ELSE 0
    /\ t.annBy = IF c.annBy \in users THEN c.annBy ELSE Nobody

SamePins(g, t, c, users, lost, failed) ==
    /\ \A p \in c.pins : p.by \in users => \E q \in t.pins : q.mid = p.mid /\ q.by = p.by
    /\ ~failed => \A q \in t.pins :
          <<g, q.mid>> \in lost \/ \E p \in c.pins : p.mid = q.mid /\ p.by = q.by

RowAgrees(g, t, c, users, lost, failed) ==
    /\ c.st # "none" => SameFields(t, c, users) /\ SamePins(g, t, c, users, lost, failed)
    /\ t.st # "none" /\ c.st = "none" => t.owner \notin users

RowsAgree ==
    \A g \in Gids \ hist.cut :
        RowAgrees(g, table.groups[g], cache.groups[g], table.users, hist.lost, hist.failed)

\* A pin is up to date, or the copy that will make it so is on its way.
OnItsWay(m) ==
    \/ \E i \in DOMAIN queue : queue[i] = m
    \/ worker.mid = m /\ worker.content = merged[m]

PinsStand ==
    /\ \A g \in Gids : \A p, q \in cache.groups[g].pins : p.mid = q.mid => p = q
    /\ \A g, h \in Gids : \A p \in cache.groups[g].pins, q \in cache.groups[h].pins :
          g # h /\ p.mid = q.mid => p.mid \in hist.shared
    /\ \A g \in Gids : \A p \in cache.groups[g].pins :
          p.mid \notin hist.shared /\ merged[p.mid] # 0 => p.content = merged[p.mid] \/ OnItsWay(p.mid)
    /\ worker # Idle /\ merged[worker.mid] \notin {0, worker.content} =>
          \E i \in DOMAIN queue : queue[i] = worker.mid

\* A post of a group that an app is to show carries one.
Whole(e) == e.kind = "joined" => e.row.st # "none"

\* What u shows of g, and what it is still sent, lead to the row of the cache if
\* u is in the group, and else to nothing.
Follows(u, g) ==
    IF Contains(cache.groups[g], u)
    THEN Leads(u, g, mirror[u].view[g], mirror[u].inbox, cache.groups[g])
    ELSE Forgets(u, g, mirror[u].view[g], mirror[u].inbox)

AppFollows(u) ==
    mirror[u].on =>
        /\ u \in cache.users
        /\ \A i \in DOMAIN mirror[u].inbox : Whole(mirror[u].inbox[i])
        /\ \A g \in Gids : mirror[u].view[g].st = "none" => mirror[u].view[g] = NoGroup
        /\ \A g \in Gids : <<u, g>> \notin hist.untold => Follows(u, g)

AppsFollow == \A u \in Users : AppFollows(u)

GroupsInv == TypeOK /\ StoresStand /\ RowsAgree /\ PinsStand /\ AppsFollow

----------------------------------------------------------------------------
\* Steps that change one group.

\* posts tell u all that changed, of g, from the row old to the row new.
Tells(u, g, posts, old, new) ==
    IF Contains(new, u)
    THEN IF Contains(old, u) THEN \A y \in Row : Similar(y, old) => Leads(u, g, y, posts, new)
         ELSE Rejoins(u, g, posts, new)
    ELSE /\ Contains(old, u) => \E j \in DOMAIN posts : Leaves(u, g, posts[j])
         /\ \A i \in DOMAIN posts : ~Joins(u, g, posts[i])

\* A post of a handler of g.
About(g, e) == e.gid = g /\ Whole(e)

\* Only the rows of g change.
OnlyGroup(g) ==
    /\ table'.users = table.users /\ cache'.users = cache.users
    /\ \A h \in Gids \ {g} : table'.groups[h] = table.groups[h] /\ cache'.groups[h] = cache.groups[h]

\* A handler that touches one group keeps the stores apart from what it leaves there.
LEMMA StoresKept ==
  ASSUME StoresStand, RowsAgree, NEW g \in Gids, OnlyGroup(g),
         RowStands(table.groups[g], cache.groups[g], table.users)',
         g \notin hist'.cut =>
             RowAgrees(g, table.groups[g], cache.groups[g], table.users, hist.lost, hist.failed)',
         hist'.lost = hist.lost, hist.cut \subseteq hist'.cut, hist.failed => hist'.failed,
         born \in Nat, born' \in Nat, born <= born', g <= born'
  PROVE  StoresStand' /\ RowsAgree'
<1>1. ASSUME NEW h \in Gids \ {g}
      PROVE  /\ RowStands(table.groups[h], cache.groups[h], table.users)'
             /\ h \notin hist'.cut =>
                    RowAgrees(h, table.groups[h], cache.groups[h], table.users, hist.lost, hist.failed)'
  <2>1. table'.groups[h] = table.groups[h] /\ cache'.groups[h] = cache.groups[h] /\ table'.users = table.users
    BY DEF OnlyGroup
  <2>2. RowStands(table.groups[h], cache.groups[h], table.users)'
    BY <2>1 DEF StoresStand, RowStands
  <2>3. ASSUME h \notin hist'.cut
        PROVE  RowAgrees(h, table.groups[h], cache.groups[h], table.users, hist.lost, hist.failed)'
    <3>1. RowAgrees(h, table.groups[h], cache.groups[h], table.users, hist.lost, hist.failed)
      BY <2>3 DEF RowsAgree
    <3> QED BY <2>1, <3>1 DEF RowAgrees, SameFields, SamePins
  <2> QED BY <2>2, <2>3
<1>2. \A h \in Gids : h > born' => h > born /\ h # g
  BY GroupsAssumption DEF Gids
<1>3. StoresStand'
  BY <1>1, <1>2 DEF StoresStand, OnlyGroup
<1>4. RowsAgree'
  BY <1>1 DEF RowsAgree
<1> QED BY <1>3, <1>4

\* What an app shows stays right when nothing that concerns it changes.
LEMMA FollowsSame ==
  ASSUME NEW u \in Users, NEW g \in Gids, cache'.groups[g] = cache.groups[g],
         mirror'[u].view[g] = mirror[u].view[g], mirror'[u].inbox = mirror[u].inbox, Follows(u, g)
  PROVE  Follows(u, g)'
  BY DEF Follows

\* Nor when it is told of it.
LEMMA FollowsTold ==
  ASSUME TypeOK, NEW u \in Users, NEW g \in Gids, Follows(u, g), NEW posts \in Seq(Event),
         mirror'[u].view[g] = mirror[u].view[g], mirror'[u].inbox = mirror[u].inbox \o posts,
         Tells(u, g, posts, cache.groups[g], cache'.groups[g])
  PROVE  Follows(u, g)'
<1> PICK old : old = cache.groups[g]
  OBVIOUS
<1> PICK new : new = cache'.groups[g]
  OBVIOUS
<1> PICK x : x = mirror[u].view[g]
  OBVIOUS
<1> PICK es : es = mirror[u].inbox
  OBVIOUS
<1>1. es \in Seq(Event)
  BY DEF TypeOK
<1>2. CASE Contains(new, u)
  <2>1. Leads(u, g, x, es \o posts, new)
    <3>1. CASE Contains(old, u)
      <4>1. Leads(u, g, x, es, old) /\ \A y \in Row : Similar(y, old) => Leads(u, g, y, posts, new)
        BY <1>2, <3>1 DEF Follows, Tells
      <4> QED BY <1>1, <4>1, LeadsOn
    <3>2. CASE ~Contains(old, u)
      <4>1. Rejoins(u, g, posts, new)
        BY <1>2, <3>2 DEF Tells
      <4> QED BY <1>1, <4>1, RejoinsOn
    <3> QED BY <3>1, <3>2
  <2> QED BY <1>2, <2>1 DEF Follows
<1>3. CASE ~Contains(new, u)
  <2>1. \A i \in DOMAIN posts : ~Joins(u, g, posts[i])
    BY <1>3 DEF Tells
  <2>2. Forgets(u, g, x, es) \/ \E j \in DOMAIN posts : Leaves(u, g, posts[j])
    BY <1>3 DEF Tells, Follows
  <2>3. Forgets(u, g, x, es \o posts)
    BY <1>1, <2>1, <2>2, ForgetsOn
  <2> QED BY <1>3, <2>3 DEF Follows
<1> QED BY <1>2, <1>3

\* Posts that are not about g concern no one's view of it.
LEMMA TellsOthers ==
  ASSUME NEW u \in Users, NEW g \in Gids, NEW row \in Row, NEW posts \in Seq(Event),
         \A i \in DOMAIN posts : posts[i].gid # g
  PROVE  Tells(u, g, posts, row, row)
<1>1. \A i \in DOMAIN posts : ~For(u, g, posts[i]) /\ ~Joins(u, g, posts[i])
  BY DEF For, Joins
<1>2. \A y \in Row : Similar(y, row) => Leads(u, g, y, posts, row)
  BY <1>1, LeadsSame
<1> QED BY <1>1, <1>2 DEF Tells

\* What holds of the elements of two sequences holds of those of the longer one.
LEMMA ConcatParts ==
  ASSUME NEW es \in Seq(Event), NEW posts \in Seq(Event), NEW i \in DOMAIN (es \o posts)
  PROVE  (i \in DOMAIN es /\ (es \o posts)[i] = es[i])
         \/ \E k \in DOMAIN posts : (es \o posts)[i] = posts[k]
<1> PICK n : n = Len(es)
  OBVIOUS
<1> PICK m : m = Len(posts)
  OBVIOUS
<1>1. /\ n \in Nat /\ m \in Nat /\ DOMAIN (es \o posts) = 1..(n + m) /\ DOMAIN es = 1..n /\ DOMAIN posts = 1..m
      /\ \A k \in 1..n : (es \o posts)[k] = es[k]
      /\ \A k \in 1..m : (es \o posts)[n + k] = posts[k]
  BY ConcatProperties, LenProperties
<1>2. CASE i <= n
  BY <1>1, <1>2
<1>3. CASE i > n
  <2>1. i - n \in 1..m /\ n + (i - n) = i
    BY <1>1, <1>3
  <2> QED BY <1>1, <2>1
<1> QED BY <1>1, <1>2, <1>3

\* After a broadcast about g that tells all, the apps follow.
LEMMA AppsTold ==
  ASSUME TypeOK, AppsFollow, NEW g \in Gids, OnlyGroup(g), NEW posts \in Seq(Event), Broadcast(posts),
         \A i \in DOMAIN posts : About(g, posts[i]), hist.untold \subseteq hist'.untold,
         \A u \in cache.users : mirror[u].on /\ <<u, g>> \notin hist'.untold =>
             Tells(u, g, posts, cache.groups[g], cache'.groups[g])
  PROVE  AppsFollow'
<1> SUFFICES ASSUME NEW u \in Users, mirror'[u].on PROVE AppFollows(u)'
  BY DEF AppsFollow, AppFollows
<1>1. /\ mirror[u].on /\ mirror'[u].view = mirror[u].view
      /\ mirror'[u].inbox = mirror[u].inbox \o posts
  BY BroadcastMirror
<1>2. u \in cache.users /\ cache'.users = cache.users
  BY <1>1 DEF AppsFollow, AppFollows, OnlyGroup
<1>3. ASSUME NEW h \in Gids, <<u, h>> \notin hist'.untold PROVE Follows(u, h)'
  <2>1. Follows(u, h)
    BY <1>1, <1>3 DEF AppsFollow, AppFollows
  <2>2. Tells(u, h, posts, cache.groups[h], cache'.groups[h])
    <3>1. CASE h = g
      BY <1>1, <1>2, <1>3, <3>1
    <3>2. CASE h # g
      <4>1. cache'.groups[h] = cache.groups[h] /\ cache.groups[h] \in Row
        BY <3>2, StoreTypes DEF OnlyGroup
      <4>2. \A i \in DOMAIN posts : posts[i].gid # h
        BY <3>2 DEF About
      <4> QED BY <1>2, <4>1, <4>2, StoreTypes, TellsOthers
    <3> QED BY <3>1, <3>2
  <2> QED BY <1>1, <2>1, <2>2, FollowsTold
<1>4. \A h \in Gids : mirror'[u].view[h].st = "none" => mirror'[u].view[h] = NoGroup
  BY <1>1 DEF AppsFollow, AppFollows
<1>5. ASSUME NEW i \in DOMAIN mirror'[u].inbox PROVE Whole(mirror'[u].inbox[i])
  <2>1. /\ mirror[u].inbox \in Seq(Event)
        /\ \A k \in DOMAIN mirror[u].inbox : Whole(mirror[u].inbox[k])
        /\ \A k \in DOMAIN posts : Whole(posts[k])
    BY <1>1 DEF TypeOK, AppsFollow, AppFollows, About
  <2> QED BY <1>1, <1>5, <2>1, ConcatParts
<1> QED BY <1>2, <1>3, <1>4, <1>5 DEF AppFollows

\* Where neither the cache nor the apps change, they follow.
LEMMA AppsSame ==
  ASSUME AppsFollow, UNCHANGED <<cache, mirror>>, hist.untold \subseteq hist'.untold
  PROVE  AppsFollow'
<1> SUFFICES ASSUME NEW u \in Users, mirror'[u].on PROVE AppFollows(u)'
  BY DEF AppsFollow, AppFollows
<1>1. AppFollows(u)
  BY DEF AppsFollow
<1>2. \A g \in Gids : <<u, g>> \notin hist'.untold => Follows(u, g)'
  BY <1>1, FollowsSame DEF AppFollows
<1> QED BY <1>1, <1>2 DEF AppFollows

\* Pins that stay or go, with the queue and the messages as they are, stay right.
LEMMA PinsKept ==
  ASSUME PinsStand, UNCHANGED <<merged, queue, worker>>, hist.shared \subseteq hist'.shared,
         \A g \in Gids : cache'.groups[g].pins \subseteq cache.groups[g].pins
  PROVE  PinsStand'
<1>1. \A m : OnItsWay(m) => OnItsWay(m)'
  BY DEF OnItsWay
<1>2. \A g \in Gids : \A p, q \in cache'.groups[g].pins : p.mid = q.mid => p = q
  BY DEF PinsStand
<1>3. \A g, h \in Gids : \A p \in cache'.groups[g].pins, q \in cache'.groups[h].pins :
          g # h /\ p.mid = q.mid => p.mid \in hist'.shared
  BY DEF PinsStand
<1>4. ASSUME NEW g \in Gids, NEW p \in cache'.groups[g].pins,
             p.mid \notin hist'.shared, merged'[p.mid] # 0
      PROVE  p.content = merged'[p.mid] \/ OnItsWay(p.mid)'
  BY <1>1, <1>4 DEF PinsStand
<1> QED BY <1>2, <1>3, <1>4 DEF PinsStand

----------------------------------------------------------------------------
\* Handlers.

\* A request that is dropped may leave another row in the table, and nothing else.
LEMMA DroppedKeeps ==
  ASSUME GroupsInv, TypeOK', PinsStand', NEW g \in Gids, NEW t \in Row, RowStands(t, cache.groups[g], table.users),
         table' = [table EXCEPT !.groups[g] = t], UNCHANGED <<cache, mirror>>,
         hist' = [hist EXCEPT !.cut = IF t = table.groups[g] THEN @ ELSE @ \cup {g}],
         born' \in born..MaxGroups, g <= born'
  PROVE  GroupsInv'
<1>1. born \in Nat /\ born' \in Nat /\ born <= born'
  BY GroupsAssumption DEF GroupsInv, TypeOK
<1>2. /\ table'.users = table.users /\ table'.groups[g] = t
      /\ \A h \in Gids \ {g} : table'.groups[h] = table.groups[h]
  <2>1. table \in Store
    BY DEF GroupsInv, TypeOK
  <2> QED BY <2>1, StoreWrite
<1>3. /\ hist'.lost = hist.lost /\ hist'.untold = hist.untold /\ hist'.failed = hist.failed
      /\ hist'.cut = IF t = table.groups[g] THEN hist.cut ELSE hist.cut \cup {g}
  BY DEF GroupsInv, TypeOK
<1>4. OnlyGroup(g)
  BY <1>2 DEF OnlyGroup
<1>5. StoresStand' /\ RowsAgree'
  <2>1. RowStands(table.groups[g], cache.groups[g], table.users)'
    BY <1>2 DEF RowStands
  <2>2. ASSUME g \notin hist'.cut
        PROVE  RowAgrees(g, table.groups[g], cache.groups[g], table.users, hist.lost, hist.failed)'
    <3>1. t = table.groups[g] /\ g \notin hist.cut
      BY <1>3, <2>2
    <3>2. RowAgrees(g, table.groups[g], cache.groups[g], table.users, hist.lost, hist.failed)
      BY <3>1 DEF GroupsInv, RowsAgree
    <3> QED BY <1>2, <1>3, <3>1, <3>2
  <2> QED BY <1>1, <1>3, <1>4, <2>1, <2>2, StoresKept DEF GroupsInv
<1>6. AppsFollow'
  BY <1>3, AppsSame DEF GroupsInv
<1> QED BY <1>5, <1>6 DEF GroupsInv

\* What a handler has to see to, of the rows that it leaves and the posts that it
\* makes: its request may also be dropped, with the row of the table alone.
Served(g, t, c, posts, after) ==
    /\ t \in Row /\ c \in Row /\ posts \in Seq(Event)
    /\ RowStands(t, c, table.users) /\ RowStands(t, cache.groups[g], table.users)
    /\ after \in History /\ hist.cut \subseteq after.cut /\ hist.untold \subseteq after.untold
    /\ after.lost = hist.lost /\ after.failed = hist.failed
    /\ g \notin after.cut => RowAgrees(g, t, c, table.users, hist.lost, hist.failed)
    /\ \A i \in DOMAIN posts : About(g, posts[i])
    /\ \A u \in cache.users : mirror[u].on /\ <<u, g>> \notin after.untold =>
           Tells(u, g, posts, cache.groups[g], c)

\* A handler that sees to it, and to the pins, keeps the invariant.
LEMMA ServePinsKeeps ==
  ASSUME GroupsInv, NEW g \in Gids, NEW t, NEW c, NEW posts, NEW after,
         Served(g, t, c, posts, after), Serve(g, t, c, posts, after),
         born' \in born..MaxGroups, g <= born', PinsWritten(c), PinsStand'
  PROVE  GroupsInv'
<1>1. /\ t \in Row /\ c \in Row /\ posts \in Seq(Event)
      /\ after \in History /\ \A i \in DOMAIN posts : About(g, posts[i])
  BY DEF Served
<1>2. born \in Nat /\ born' \in Nat /\ born <= born' /\ born' \in 0..MaxGroups
  BY GroupsAssumption DEF GroupsInv, TypeOK
<1>3. TypeOK'
  BY <1>1, <1>2, ServeType DEF GroupsInv
<1>4. table' = [table EXCEPT !.groups[g] = t]
  BY DEF Serve
<1>5. CASE cache' = [cache EXCEPT !.groups[g] = c] /\ Broadcast(posts) /\ hist' = after
  <2>1. /\ cache'.users = cache.users /\ cache'.groups[g] = c
        /\ \A h \in Gids \ {g} : cache'.groups[h] = cache.groups[h]
        /\ table'.users = table.users /\ table'.groups[g] = t
        /\ \A h \in Gids \ {g} : table'.groups[h] = table.groups[h]
    <3>1. cache \in Store /\ table \in Store
      BY DEF GroupsInv, TypeOK
    <3>2. /\ cache'.users = cache.users /\ cache'.groups[g] = c
          /\ \A h \in Gids \ {g} : cache'.groups[h] = cache.groups[h]
      BY <1>1, <1>5, <3>1, StoreWrite
    <3>3. /\ table'.users = table.users /\ table'.groups[g] = t
          /\ \A h \in Gids \ {g} : table'.groups[h] = table.groups[h]
      BY <1>1, <1>4, <3>1, StoreWrite
    <3> QED BY <3>2, <3>3
  <2>2. OnlyGroup(g)
    BY <2>1 DEF OnlyGroup
  <2>3. StoresStand' /\ RowsAgree'
    <3>1. RowStands(table.groups[g], cache.groups[g], table.users)'
      BY <2>1 DEF Served, RowStands
    <3>2. g \notin hist'.cut =>
             RowAgrees(g, table.groups[g], cache.groups[g], table.users, hist.lost, hist.failed)'
      BY <1>5, <2>1 DEF Served
    <3> QED BY <1>2, <1>5, <2>2, <3>1, <3>2, StoresKept DEF GroupsInv, Served
  <2>4. AppsFollow'
    <3>1. \A u \in cache.users : mirror[u].on /\ <<u, g>> \notin hist'.untold =>
             Tells(u, g, posts, cache.groups[g], cache'.groups[g])
      BY <1>5, <2>1 DEF Served
    <3>2. hist.untold \subseteq hist'.untold
      BY <1>5 DEF Served
    <3> QED BY <1>1, <1>5, <2>2, <3>1, <3>2, AppsTold DEF GroupsInv
  <2> QED BY <1>3, <2>3, <2>4 DEF GroupsInv
<1>6. CASE /\ UNCHANGED <<cache, mirror>>
           /\ hist' = [hist EXCEPT !.cut = IF t = table.groups[g] THEN @ ELSE @ \cup {g}]
  <2>1. RowStands(t, cache.groups[g], table.users)
    BY DEF Served
  <2> QED BY <1>1, <1>3, <1>4, <1>6, <2>1, DroppedKeeps
<1> QED BY <1>5, <1>6 DEF Serve

\* No pin is new to most.
LEMMA ServeKeeps ==
  ASSUME GroupsInv, NEW g \in Gids, NEW t, NEW c, NEW posts, NEW after,
         Served(g, t, c, posts, after), Serve(g, t, c, posts, after),
         born' \in born..MaxGroups, g <= born',
         c.pins \subseteq cache.groups[g].pins, hist.shared \subseteq after.shared
  PROVE  GroupsInv'
<1>1. cache \in Store /\ c \in Row
  BY DEF GroupsInv, TypeOK, Served
<1>2. PinsWritten(c)
  BY DEF GroupsInv, TypeOK, PinsWritten
<1>3. \A h \in Gids : cache'.groups[h].pins \subseteq cache.groups[h].pins
  <2>1. CASE cache' = [cache EXCEPT !.groups[g] = c]
    BY <1>1, <2>1, StoreWrite
  <2>2. CASE cache' = cache
    BY <2>2
  <2> QED BY <2>1, <2>2 DEF Serve
<1>4. hist.shared \subseteq hist'.shared
  <2>1. CASE hist' = after
    BY <2>1
  <2>2. CASE hist' = [hist EXCEPT !.cut = IF t = table.groups[g] THEN @ ELSE @ \cup {g}]
    BY <2>2 DEF GroupsInv, TypeOK
  <2> QED BY <2>1, <2>2 DEF Serve
<1>5. PinsStand'
  <2>1. UNCHANGED <<merged, queue, worker>>
    BY DEF Serve
  <2> QED BY <1>3, <1>4, <2>1, PinsKept DEF GroupsInv
<1> QED BY <1>2, <1>5, ServePinsKeeps

\* Of a handler that adds nothing to the history.
Handled(g, t, c, posts) ==
    /\ t \in Row /\ c \in Row /\ posts \in Seq(Event)
    /\ c.pins \subseteq cache.groups[g].pins
    /\ RowStands(t, c, table.users) /\ RowStands(t, cache.groups[g], table.users)
    /\ g \notin hist.cut => RowAgrees(g, t, c, table.users, hist.lost, hist.failed)
    /\ \A i \in DOMAIN posts : About(g, posts[i])
    /\ \A u \in cache.users : Tells(u, g, posts, cache.groups[g], c)

\* It keeps the invariant too.
LEMMA HandleKeeps ==
  ASSUME GroupsInv, NEW g \in Gids, NEW t, NEW c, NEW posts, Handled(g, t, c, posts), Handle(g, t, c, posts),
         born' \in born..MaxGroups, g <= born'
  PROVE  GroupsInv'
<1>1. hist \in History
  BY DEF GroupsInv, TypeOK, History
<1>2. Served(g, t, c, posts, hist) /\ c.pins \subseteq cache.groups[g].pins
  BY <1>1 DEF Handled, Served
<1>3. Serve(g, t, c, posts, hist)
  BY DEF Handle
<1> QED BY <1>2, <1>3, ServeKeeps

\* What a post carries.
LEMMA PostIs ==
  ASSUME NEW kind \in {"joined", "kicked", "userJoined", "userLeft", "changed", "pin", "announcement"},
         NEW to, to \subseteq Users, NEW g \in Gids
  PROVE  /\ Post(kind, to, g) \in Event
         /\ Post(kind, to, g).kind = kind /\ Post(kind, to, g).to = to /\ Post(kind, to, g).gid = g
<1>1. Post(kind, to, g) \in Event
  BY PostTypes
<1> QED BY <1>1 DEF Post

\* What the fields of such a post are.
LEMMA PostRowIs ==
  ASSUME NEW kind \in {"joined", "kicked", "userJoined", "userLeft", "changed", "pin", "announcement"},
         NEW to, to \subseteq Users, NEW g \in Gids, NEW row \in Row
  PROVE  /\ PostRow(kind, to, g, row) \in Event
         /\ PostRow(kind, to, g, row).kind = kind /\ PostRow(kind, to, g, row).to = to
         /\ PostRow(kind, to, g, row).gid = g /\ PostRow(kind, to, g, row).row = row
<1>1. PostRow(kind, to, g, row) \in Event
  BY PostTypes
<1> QED BY <1>1 DEF Post, PostRow

\* What the fields of such a post are.
LEMMA PostUsersIs ==
  ASSUME NEW kind \in {"joined", "kicked", "userJoined", "userLeft", "changed", "pin", "announcement"},
         NEW to, to \subseteq Users, NEW g \in Gids, NEW us, us \subseteq Users
  PROVE  /\ PostUsers(kind, to, g, us) \in Event
         /\ PostUsers(kind, to, g, us).kind = kind /\ PostUsers(kind, to, g, us).to = to
         /\ PostUsers(kind, to, g, us).gid = g /\ PostUsers(kind, to, g, us).uids = us
<1>1. PostUsers(kind, to, g, us) \in Event
  BY PostTypes
<1> QED BY <1>1 DEF Post, PostUsers

\* What the fields of such a post are.
LEMMA PostPinIs ==
  ASSUME NEW to, to \subseteq Users, NEW g \in Gids, NEW m \in Mids, NEW pins, pins \subseteq Pin
  PROVE  /\ PostPin(to, g, m, pins) \in Event
         /\ PostPin(to, g, m, pins).kind = "pin" /\ PostPin(to, g, m, pins).to = to
         /\ PostPin(to, g, m, pins).gid = g /\ PostPin(to, g, m, pins).mid = m
         /\ PostPin(to, g, m, pins).row.pins = pins
<1> DEFINE r == [NoGroup EXCEPT !.pins = pins]
<1>1. r.pins = pins
  BY DEF NoGroup
<1>2. PostPin(to, g, m, pins) = [Post("pin", to, g) EXCEPT !.mid = m, !.row = r]
  BY DEF PostPin
<1>3. PostPin(to, g, m, pins) \in Event
  BY PostTypes
<1> HIDE DEF r
<1> QED BY <1>1, <1>2, <1>3 DEF Post

\* Up to three posts of which one is a join with nothing for u behind it.
LEMMA RejoinsThrough ==
  ASSUME NEW u \in Users, NEW g \in Gids, NEW row,
         NEW a \in Event, NEW b \in Event, NEW c \in Event
  PROVE  /\ Joins(u, g, a) /\ Similar(a.row, row) => Rejoins(u, g, <<a>>, row)
         /\ Joins(u, g, a) /\ Similar(a.row, row) /\ ~For(u, g, b) => Rejoins(u, g, <<a, b>>, row)
         /\ Joins(u, g, c) /\ Similar(c.row, row) => Rejoins(u, g, <<a, b, c>>, row)
<1>1. ASSUME Joins(u, g, a), Similar(a.row, row) PROVE Rejoins(u, g, <<a>>, row)
  <2>1. /\ <<a>> \in Seq(Event) /\ 1 \in DOMAIN <<a>> /\ <<a>>[1] = a
        /\ \A i \in DOMAIN <<a>> : ~(i > 1)
    OBVIOUS
  <2> QED BY <1>1, <2>1, RejoinsAt
<1>2. ASSUME Joins(u, g, a), Similar(a.row, row), ~For(u, g, b) PROVE Rejoins(u, g, <<a, b>>, row)
  <2>1. /\ <<a, b>> \in Seq(Event) /\ 1 \in DOMAIN <<a, b>> /\ <<a, b>>[1] = a
        /\ \A i \in DOMAIN <<a, b>> : i > 1 => <<a, b>>[i] = b
    OBVIOUS
  <2>2. \A i \in DOMAIN <<a, b>> : i > 1 => ~For(u, g, <<a, b>>[i])
    BY <1>2, <2>1
  <2> QED BY <1>2, <2>1, <2>2, RejoinsAt
<1>3. ASSUME Joins(u, g, c), Similar(c.row, row) PROVE Rejoins(u, g, <<a, b, c>>, row)
  <2>1. /\ <<a, b, c>> \in Seq(Event) /\ 3 \in DOMAIN <<a, b, c>> /\ <<a, b, c>>[3] = c
        /\ \A i \in DOMAIN <<a, b, c>> : ~(i > 3)
    OBVIOUS
  <2> QED BY <1>3, <2>1, RejoinsAt
<1> QED BY <1>1, <1>2, <1>3

\* One, two or three posts as a sequence.
LEMMA PostsOf ==
  ASSUME NEW a \in Event, NEW b \in Event, NEW c \in Event
  PROVE  /\ <<a>> \in Seq(Event) /\ <<a, b>> \in Seq(Event) /\ <<a, b, c>> \in Seq(Event)
         /\ DOMAIN <<a>> = {1} /\ DOMAIN <<a, b>> = {1, 2} /\ DOMAIN <<a, b, c>> = {1, 2, 3}
  OBVIOUS

\* What an app makes of a post about a group that it shows.
LEMMA ShownUsers ==
  ASSUME NEW x \in Row, x.st # "none", NEW u \in Users, NEW e \in Event
  PROVE  /\ e.kind = "userJoined" => Shown(x, u, e) = [x EXCEPT !.members = x.members \cup e.uids]
         /\ e.kind = "userLeft" /\ u \notin e.uids =>
               Shown(x, u, e) = [x EXCEPT !.members = x.members \ e.uids]
  BY Zenon DEF Shown

\* What an app makes of a change of a group's type or owner.
LEMMA ShownFields ==
  ASSUME NEW x \in Row, x.st # "none", NEW u \in Users, NEW e \in Event
  PROVE  /\ e.kind = "changed" /\ e.row.st = "public" =>
               Shown(x, u, e) = [x EXCEPT !.st = "public", !.owner = Nobody]
         /\ e.kind = "changed" /\ e.row.st = "none" => Shown(x, u, e) = [x EXCEPT !.owner = e.row.owner]
  BY DEF Shown

\* What an app makes of a change of a group's pins.
LEMMA ShownPins ==
  ASSUME NEW x \in Row, x.st # "none", NEW u \in Users, NEW e \in Event, e.kind = "pin"
  PROVE  LET s == Shown(x, u, e) IN
         /\ s.st = x.st /\ s.owner = x.owner /\ s.members = x.members /\ s.ann = x.ann /\ s.annBy = x.annBy
         /\ s.pins = {p \in x.pins : p.mid # e.mid} \cup e.row.pins
<1> DEFINE pins == {p \in x.pins : p.mid # e.mid} \cup e.row.pins
<1>1. Shown(x, u, e) = [x EXCEPT !.pins = pins]
  BY DEF Shown
<1> HIDE DEF pins
<1>2. LET s == [x EXCEPT !.pins = pins] IN
      /\ s.st = x.st /\ s.owner = x.owner /\ s.members = x.members /\ s.ann = x.ann /\ s.annBy = x.annBy
      /\ s.pins = pins
  BY DEF Row
<1>3. LET s == Shown(x, u, e) IN
      /\ s.st = x.st /\ s.owner = x.owner /\ s.members = x.members /\ s.ann = x.ann /\ s.annBy = x.annBy
      /\ s.pins = pins
  BY <1>1, <1>2, Zenon
<1> QED BY <1>3 DEF pins

\* What an app makes of a new announcement, or of none.
LEMMA ShownAnnouncement ==
  ASSUME NEW x \in Row, x.st # "none", NEW u \in Users, NEW e \in Event, e.kind = "announcement"
  PROVE  LET s == Shown(x, u, e) IN
         /\ s.st = x.st /\ s.owner = x.owner /\ s.members = x.members /\ s.pins = x.pins
         /\ s.ann = e.row.ann /\ s.annBy = e.row.annBy
  BY DEF Shown, Row

\* The rows of a group that a handler starts from.
LEMMA HandlerStarts ==
  ASSUME GroupsInv, NEW g \in Gids, Exists(cache, g)
  PROVE  /\ table.groups[g] \in Row /\ cache.groups[g] \in Row
         /\ table.users \subseteq cache.users /\ cache.users \subseteq Users
         /\ RowStands(table.groups[g], cache.groups[g], table.users)
         /\ g \notin hist.cut => RowAgrees(g, table.groups[g], cache.groups[g], table.users, hist.lost, hist.failed)
         /\ born \in Nat /\ born \in born..MaxGroups /\ g <= born
<1>1. born \in 0..MaxGroups /\ g \in 1..MaxGroups /\ MaxGroups \in Nat
  BY GroupsAssumption DEF GroupsInv, TypeOK, Gids
<1>2. ~(g > born)
  BY DEF GroupsInv, StoresStand, Exists
<1>3. TypeOK /\ StoresStand /\ RowsAgree
  BY DEF GroupsInv
<1>4. table.groups[g] \in Row /\ cache.groups[g] \in Row /\ cache.users \subseteq Users
  BY <1>3, StoreTypes
<1> QED BY <1>1, <1>2, <1>3, <1>4 DEF StoresStand, RowsAgree

\* add_members keeps the invariant: who is added is told the whole group, and
\* the others of the newcomers.
LEMMA AddMembersKeeps ==
  ASSUME GroupsInv, NEW a \in cache.users, NEW g \in Gids, NEW us, us \subseteq Users, AddMembers(a, g, us)
  PROVE  GroupsInv'
<1> PICK old : old = cache.groups[g]
  OBVIOUS
<1> PICK row : row = table.groups[g]
  OBVIOUS
<1> DEFINE new == [old EXCEPT !.members = old.members \cup us]
           t == [row EXCEPT !.members = row.members \cup us]
           first == PostRow("joined", us, g, new)
           second == PostUsers("userJoined", old.members, g, us)
<1>1. /\ old.st = "private" /\ us \subseteq cache.users \ old.members /\ us \subseteq table.users /\ row.st # "none"
      /\ Handle(g, t, new, <<first, second>>) /\ born' = born
  BY DEF AddMembers, Exists
<1>2. /\ row \in Row /\ old \in Row /\ table.users \subseteq cache.users /\ cache.users \subseteq Users
      /\ RowStands(row, old, table.users)
      /\ g \notin hist.cut => RowAgrees(g, row, old, table.users, hist.lost, hist.failed)
      /\ born \in born..MaxGroups /\ g <= born
  BY <1>1, HandlerStarts DEF Exists
<1>3. /\ new \in Row /\ t \in Row /\ new.st = old.st /\ new.members = old.members \cup us /\ new.owner = old.owner
      /\ new.pins = old.pins /\ new.ann = old.ann /\ new.annBy = old.annBy
      /\ t.st = row.st /\ t.members = row.members \cup us /\ t.owner = row.owner
      /\ t.pins = row.pins /\ t.ann = row.ann /\ t.annBy = row.annBy
  BY <1>2 DEF Row
<1> HIDE DEF new, t
<1>4. RowStands(t, new, table.users) /\ RowStands(t, old, table.users)
  BY <1>1, <1>2, <1>3 DEF RowStands
<1>5. ASSUME g \notin hist.cut PROVE RowAgrees(g, t, new, table.users, hist.lost, hist.failed)
  BY <1>1, <1>2, <1>3, <1>5 DEF RowAgrees, SameFields, SamePins
<1>6. /\ first \in Event /\ second \in Event
      /\ first.kind = "joined" /\ first.to = us /\ first.gid = g /\ first.row = new
      /\ second.kind = "userJoined" /\ second.to = old.members /\ second.gid = g /\ second.uids = us
  <2>1. us \subseteq Users /\ old.members \subseteq Users
    BY <1>2 DEF Row
  <2>2. first \in Event /\ first.kind = "joined" /\ first.to = us /\ first.gid = g /\ first.row = new
    BY <1>3, <2>1, PostRowIs
  <2>3. /\ second \in Event /\ second.kind = "userJoined" /\ second.to = old.members
        /\ second.gid = g /\ second.uids = us
    BY <2>1, PostUsersIs
  <2> QED BY <2>2, <2>3
<1> HIDE DEF first, second
<1>7. ASSUME NEW u \in cache.users PROVE Tells(u, g, <<first, second>>, old, new)
  <2>1. CASE u \in old.members
    <3>1. ASSUME NEW y \in Row, Similar(y, old) PROVE Leads(u, g, y, <<first, second>>, new)
      <4>1. ShownAfter(y, u, g, first) = y
        BY <1>1, <1>6, <2>1 DEF ShownAfter, For
      <4>2. Similar(ShownAfter(y, u, g, second), new)
        <5>1. y.st # "none"
          BY <1>1, <3>1 DEF Similar
        <5>2. ShownAfter(y, u, g, second) = Shown(y, u, second)
          BY <1>6, <2>1 DEF ShownAfter, For
        <5>3. u \in Users
          BY <1>2
        <5>4. Shown(y, u, second) = [y EXCEPT !.members = y.members \cup second.uids]
          BY <1>6, <5>1, <5>3, ShownUsers
        <5>5. Similar([y EXCEPT !.members = y.members \cup second.uids], new)
          BY <1>1, <1>3, <1>6, <3>1 DEF Similar, Row
        <5> QED BY <5>2, <5>4, <5>5, Zenon
      <4> QED BY <1>2, <1>6, <4>1, <4>2, LeadsThrough
    <3> QED BY <1>1, <1>3, <2>1, <3>1 DEF Tells, Contains
  <2>2. CASE u \in us
    <3>1. Joins(u, g, first) /\ ~For(u, g, second)
      BY <1>1, <1>6, <2>2 DEF Joins, For
    <3>2. Rejoins(u, g, <<first, second>>, new)
      <4>1. Similar(first.row, new)
        BY <1>6 DEF Similar
      <4> QED BY <1>2, <1>6, <3>1, <4>1, RejoinsThrough
    <3> QED BY <1>1, <1>3, <2>2, <3>2 DEF Tells, Contains
  <2>3. CASE u \notin old.members \cup us
    BY <1>1, <1>3, <1>6, <2>3 DEF Tells, Contains, Joins, For
  <2> QED BY <2>1, <2>2, <2>3
<1>8. Handled(g, t, new, <<first, second>>)
  <2>1. /\ <<first, second>> \in Seq(Event) /\ \A i \in DOMAIN <<first, second>> : About(g, <<first, second>>[i])
    BY <1>1, <1>3, <1>6, PostsOf DEF About, Whole
  <2> QED BY <1>3, <1>4, <1>5, <1>7, <2>1 DEF Handled
<1> QED BY <1>1, <1>2, <1>8, HandleKeeps

\* remove_members keeps the invariant: who is removed is told to forget.
LEMMA RemoveMembersKeeps ==
  ASSUME GroupsInv, NEW a \in cache.users, NEW g \in Gids, NEW us, us \subseteq Users, RemoveMembers(a, g, us)
  PROVE  GroupsInv'
<1> PICK old : old = cache.groups[g]
  OBVIOUS
<1> PICK row : row = table.groups[g]
  OBVIOUS
<1> DEFINE new == [old EXCEPT !.members = old.members \ us]
           t == [row EXCEPT !.members = row.members \ us]
           rest == old.members \ us
           first == Post("kicked", us, g)
           second == PostUsers("userLeft", rest, g, us)
<1>1. /\ old.st = "private" /\ us \subseteq old.members
      /\ Handle(g, t, new, <<first, second>>) /\ born' = born
  BY DEF RemoveMembers
<1>2. /\ row \in Row /\ old \in Row /\ table.users \subseteq cache.users /\ cache.users \subseteq Users
      /\ RowStands(row, old, table.users)
      /\ g \notin hist.cut => RowAgrees(g, row, old, table.users, hist.lost, hist.failed)
      /\ born \in born..MaxGroups /\ g <= born
  BY <1>1, HandlerStarts DEF Exists
<1>3. /\ new \in Row /\ t \in Row /\ new.st = old.st /\ new.members = rest /\ new.owner = old.owner
      /\ new.pins = old.pins /\ new.ann = old.ann /\ new.annBy = old.annBy
      /\ t.st = row.st /\ t.members = row.members \ us /\ t.owner = row.owner
      /\ t.pins = row.pins /\ t.ann = row.ann /\ t.annBy = row.annBy
  BY <1>2 DEF Row
<1> HIDE DEF new, t
<1>4. RowStands(t, new, table.users) /\ RowStands(t, old, table.users)
  BY <1>1, <1>2, <1>3 DEF RowStands
<1>5. ASSUME g \notin hist.cut PROVE RowAgrees(g, t, new, table.users, hist.lost, hist.failed)
  BY <1>1, <1>2, <1>3, <1>5 DEF RowAgrees, SameFields, SamePins
<1>6. /\ first \in Event /\ second \in Event
      /\ first.kind = "kicked" /\ first.to = us /\ first.gid = g
      /\ second.kind = "userLeft" /\ second.to = rest /\ second.gid = g /\ second.uids = us
  <2>1. us \subseteq Users /\ rest \subseteq Users
    BY <1>2 DEF Row
  <2>2. first \in Event /\ first.kind = "kicked" /\ first.to = us /\ first.gid = g
    BY <2>1, PostIs
  <2>3. /\ second \in Event /\ second.kind = "userLeft" /\ second.to = rest
        /\ second.gid = g /\ second.uids = us
    <3> HIDE DEF rest
    <3> QED BY <2>1, PostUsersIs
  <2> QED BY <2>2, <2>3
<1> HIDE DEF first, second
<1>7. ASSUME NEW u \in cache.users PROVE Tells(u, g, <<first, second>>, old, new)
  <2>1. CASE u \in rest
    <3>1. ASSUME NEW y \in Row, Similar(y, old) PROVE Leads(u, g, y, <<first, second>>, new)
      <4>1. ShownAfter(y, u, g, first) = y
        BY <1>1, <1>6, <2>1 DEF ShownAfter, For
      <4>2. Similar(ShownAfter(y, u, g, second), new)
        <5>1. y.st # "none" /\ u \in Users /\ u \notin us
          BY <1>1, <1>2, <2>1, <3>1 DEF Similar
        <5>2. ShownAfter(y, u, g, second) = Shown(y, u, second)
          BY <1>6, <2>1 DEF ShownAfter, For
        <5>3. Shown(y, u, second) = [y EXCEPT !.members = y.members \ second.uids]
          BY <1>6, <5>1, ShownUsers
        <5>4. Similar([y EXCEPT !.members = y.members \ second.uids], new)
          BY <1>1, <1>3, <1>6, <3>1 DEF Similar, Row
        <5> QED BY <5>2, <5>3, <5>4, Zenon
      <4> QED BY <1>2, <1>6, <4>1, <4>2, LeadsThrough
    <3> QED BY <1>1, <1>3, <2>1, <3>1 DEF Tells, Contains
  <2>2. CASE u \notin rest
    <3>1. ~Joins(u, g, first) /\ ~Joins(u, g, second) /\ (u \in us => Leaves(u, g, first))
      BY <1>6 DEF Joins, Leaves, For
    <3>2. DOMAIN <<first, second>> = {1, 2} /\ <<first, second>>[1] = first /\ <<first, second>>[2] = second
      OBVIOUS
    <3>3. ~Contains(new, u) /\ (Contains(old, u) => u \in us)
      BY <1>1, <1>3, <2>2 DEF Contains
    <3> QED BY <3>1, <3>2, <3>3 DEF Tells
  <2> QED BY <2>1, <2>2
<1>8. Handled(g, t, new, <<first, second>>)
  <2>1. /\ <<first, second>> \in Seq(Event) /\ \A i \in DOMAIN <<first, second>> : About(g, <<first, second>>[i])
    BY <1>1, <1>3, <1>6, PostsOf DEF About, Whole
  <2> QED BY <1>3, <1>4, <1>5, <1>7, <2>1 DEF Handled
<1> QED BY <1>1, <1>2, <1>8, HandleKeeps

\* leave keeps the invariant: who leaves is told so, as the others are.
LEMMA LeaveKeeps ==
  ASSUME GroupsInv, NEW a \in cache.users, NEW g \in Gids, Leave(a, g)
  PROVE  GroupsInv'
<1> PICK old : old = cache.groups[g]
  OBVIOUS
<1> PICK row : row = table.groups[g]
  OBVIOUS
<1> DEFINE new == [old EXCEPT !.members = old.members \ {a}]
           t == [row EXCEPT !.members = row.members \ {a}]
           post == PostUsers("userLeft", old.members, g, {a})
<1>1. /\ old.st = "private" /\ a \in old.members
      /\ Handle(g, t, new, <<post>>) /\ born' = born
  BY DEF Leave
<1>2. /\ row \in Row /\ old \in Row /\ table.users \subseteq cache.users /\ cache.users \subseteq Users
      /\ RowStands(row, old, table.users)
      /\ g \notin hist.cut => RowAgrees(g, row, old, table.users, hist.lost, hist.failed)
      /\ born \in born..MaxGroups /\ g <= born
  BY <1>1, HandlerStarts DEF Exists
<1>3. /\ new \in Row /\ t \in Row /\ new.st = old.st /\ new.members = old.members \ {a} /\ new.owner = old.owner
      /\ new.pins = old.pins /\ new.ann = old.ann /\ new.annBy = old.annBy
      /\ t.st = row.st /\ t.members = row.members \ {a} /\ t.owner = row.owner
      /\ t.pins = row.pins /\ t.ann = row.ann /\ t.annBy = row.annBy
  BY <1>2 DEF Row
<1> HIDE DEF new, t
<1>4. RowStands(t, new, table.users) /\ RowStands(t, old, table.users)
  BY <1>1, <1>2, <1>3 DEF RowStands
<1>5. ASSUME g \notin hist.cut PROVE RowAgrees(g, t, new, table.users, hist.lost, hist.failed)
  BY <1>1, <1>2, <1>3, <1>5 DEF RowAgrees, SameFields, SamePins
<1>6. /\ post \in Event /\ post.kind = "userLeft" /\ post.to = old.members /\ post.gid = g /\ post.uids = {a}
  <2>1. {a} \subseteq Users /\ old.members \subseteq Users
    BY <1>2 DEF Row
  <2> QED BY <2>1, PostUsersIs
<1> HIDE DEF post
<1>7. ASSUME NEW u \in cache.users PROVE Tells(u, g, <<post>>, old, new)
  <2>1. CASE u \in old.members /\ u # a
    <3>1. ASSUME NEW y \in Row, Similar(y, old) PROVE Leads(u, g, y, <<post>>, new)
      <4>1. y.st # "none" /\ u \in Users
        BY <1>1, <1>2, <2>1, <3>1 DEF Similar
      <4>2. ShownAfter(y, u, g, post) = Shown(y, u, post)
        BY <1>6, <2>1 DEF ShownAfter, For
      <4>3. Shown(y, u, post) = [y EXCEPT !.members = y.members \ post.uids]
        BY <1>6, <2>1, <4>1, ShownUsers
      <4>4. Similar([y EXCEPT !.members = y.members \ post.uids], new)
        BY <1>1, <1>3, <1>6, <3>1 DEF Similar, Row
      <4>5. Similar(ShownAfter(y, u, g, post), new)
        BY <4>2, <4>3, <4>4, Zenon
      <4> QED BY <1>6, <4>1, <4>5, LeadsThrough
    <3> QED BY <1>1, <1>3, <2>1, <3>1 DEF Tells, Contains
  <2>2. CASE u \notin old.members \/ u = a
    <3>1. ~Joins(u, g, post) /\ (u = a => Leaves(u, g, post))
      BY <1>1, <1>6 DEF Joins, Leaves, For
    <3>2. DOMAIN <<post>> = {1} /\ <<post>>[1] = post
      OBVIOUS
    <3>3. ~Contains(new, u) /\ (Contains(old, u) => u = a)
      BY <1>1, <1>3, <2>2 DEF Contains
    <3> QED BY <3>1, <3>2, <3>3 DEF Tells
  <2> QED BY <2>1, <2>2
<1>8. Handled(g, t, new, <<post>>)
  <2>1. /\ <<post>> \in Seq(Event) /\ \A i \in DOMAIN <<post>> : About(g, <<post>>[i])
    BY <1>1, <1>3, <1>6, PostsOf DEF About, Whole
  <2> QED BY <1>3, <1>4, <1>5, <1>7, <2>1 DEF Handled
<1> QED BY <1>1, <1>2, <1>8, HandleKeeps

\* update keeps the invariant: all who read the group hear of its new owner.
LEMMA UpdateOwnerKeeps ==
  ASSUME GroupsInv, NEW a \in cache.users, NEW g \in Gids, NEW owner \in Users, UpdateOwner(a, g, owner)
  PROVE  GroupsInv'
<1> PICK old : old = cache.groups[g]
  OBVIOUS
<1> PICK row : row = table.groups[g]
  OBVIOUS
<1> DEFINE new == [old EXCEPT !.owner = owner]
           t == Stored(g, [row EXCEPT !.owner = owner])
           told == [NoGroup EXCEPT !.owner = owner]
           post == PostRow("changed", old.members, g, told)
<1>1. old.st = "private" /\ Handle(g, t, new, <<post>>) /\ born' = born
  BY DEF UpdateOwner
<1>2. /\ row \in Row /\ old \in Row /\ table.users \subseteq cache.users /\ cache.users \subseteq Users
      /\ RowStands(row, old, table.users)
      /\ g \notin hist.cut => RowAgrees(g, row, old, table.users, hist.lost, hist.failed)
      /\ born \in born..MaxGroups /\ g <= born
  BY <1>1, HandlerStarts DEF Exists
<1>3. /\ new \in Row /\ t \in Row /\ new.st = old.st /\ new.members = old.members /\ new.owner = owner
      /\ new.pins = old.pins /\ new.ann = old.ann /\ new.annBy = old.annBy
      /\ t.st = row.st /\ t.members = row.members
      /\ t.pins = row.pins /\ t.ann = row.ann /\ t.annBy = row.annBy
      /\ t.owner = IF row.st = "none" THEN row.owner ELSE owner
  <2>1. t = IF row.st = "none" THEN row ELSE [row EXCEPT !.owner = owner]
    BY DEF Stored, Exists
  <2> QED BY <1>2, <2>1 DEF Row
<1>4. told \in Row /\ told.st = "none" /\ told.owner = owner
  BY NoGroupRow DEF NoGroup, Row
<1> HIDE DEF new, t, told
<1>5. RowStands(t, new, table.users) /\ RowStands(t, old, table.users)
  BY <1>1, <1>2, <1>3 DEF RowStands
<1>6. ASSUME g \notin hist.cut PROVE RowAgrees(g, t, new, table.users, hist.lost, hist.failed)
  BY <1>1, <1>2, <1>3, <1>6 DEF RowAgrees, SameFields, SamePins
<1>7. /\ post \in Event /\ post.kind = "changed" /\ post.to = old.members /\ post.gid = g /\ post.row = told
  <2>1. old.members \subseteq Users
    BY <1>2 DEF Row
  <2> QED BY <1>4, <2>1, PostRowIs
<1> HIDE DEF post
<1>8. ASSUME NEW u \in cache.users PROVE Tells(u, g, <<post>>, old, new)
  <2>1. CASE u \in old.members
    <3>1. ASSUME NEW y \in Row, Similar(y, old) PROVE Leads(u, g, y, <<post>>, new)
      <4>1. y.st # "none" /\ u \in Users
        BY <1>1, <1>2, <2>1, <3>1 DEF Similar
      <4>2. ShownAfter(y, u, g, post) = Shown(y, u, post)
        BY <1>7, <2>1 DEF ShownAfter, For
      <4>3. Shown(y, u, post) = [y EXCEPT !.owner = post.row.owner]
        <5>1. post.kind = "changed" /\ post.row.st = "none"
          BY <1>4, <1>7
        <5> QED BY <1>7, <4>1, <5>1, ShownFields, Zenon
      <4>4. Similar([y EXCEPT !.owner = post.row.owner], new)
        BY <1>1, <1>3, <1>4, <1>7, <3>1 DEF Similar, Row
      <4>5. Similar(ShownAfter(y, u, g, post), new)
        BY <4>2, <4>3, <4>4, Zenon
      <4> QED BY <1>7, <4>1, <4>5, LeadsThrough
    <3> QED BY <1>1, <1>3, <2>1, <3>1 DEF Tells, Contains
  <2>2. CASE u \notin old.members
    <3>1. ~Joins(u, g, post)
      BY <1>7 DEF Joins
    <3>2. DOMAIN <<post>> = {1} /\ <<post>>[1] = post
      OBVIOUS
    <3>3. ~Contains(new, u) /\ ~Contains(old, u)
      BY <1>1, <1>3, <2>2 DEF Contains
    <3> QED BY <3>1, <3>2, <3>3 DEF Tells
  <2> QED BY <2>1, <2>2
<1>9. Handled(g, t, new, <<post>>)
  <2>1. /\ <<post>> \in Seq(Event) /\ \A i \in DOMAIN <<post>> : About(g, <<post>>[i])
    BY <1>3, <1>7, PostsOf DEF About, Whole
  <2> QED BY <1>3, <1>5, <1>6, <1>8, <2>1 DEF Handled
<1> QED BY <1>1, <1>2, <1>9, HandleKeeps

\* delete keeps the invariant: all who read the group are told to forget.
LEMMA DeleteKeeps ==
  ASSUME GroupsInv, NEW a \in cache.users, NEW g \in Gids, Delete(a, g)
  PROVE  GroupsInv'
<1> PICK old : old = cache.groups[g]
  OBVIOUS
<1> DEFINE post == Post("kicked", Audience(g), g)
<1>1. old.st # "none" /\ Handle(g, NoGroup, NoGroup, <<post>>) /\ born' = born
  BY DEF Delete, Exists
<1>2. /\ old \in Row /\ table.users \subseteq cache.users /\ cache.users \subseteq Users
      /\ RowStands(table.groups[g], old, table.users)
      /\ born \in born..MaxGroups /\ g <= born
  BY <1>1, HandlerStarts DEF Exists
<1>3. RowStands(NoGroup, NoGroup, table.users) /\ RowStands(NoGroup, old, table.users)
  BY <1>2 DEF RowStands, NoGroup
<1>4. RowAgrees(g, NoGroup, NoGroup, table.users, hist.lost, hist.failed)
  BY DEF RowAgrees, NoGroup
<1>5. Audience(g) \subseteq Users /\ \A u \in cache.users : Contains(old, u) => u \in Audience(g)
  BY <1>2 DEF Audience, Public, Contains, Row
<1>6. post \in Event /\ post.kind = "kicked" /\ post.to = Audience(g) /\ post.gid = g
  BY <1>5, PostIs
<1> HIDE DEF post
<1>7. ASSUME NEW u \in cache.users PROVE Tells(u, g, <<post>>, old, NoGroup)
  <2>1. ~Joins(u, g, post) /\ (Contains(old, u) => Leaves(u, g, post))
    BY <1>5, <1>6 DEF Joins, Leaves, For
  <2>2. DOMAIN <<post>> = {1} /\ <<post>>[1] = post
    OBVIOUS
  <2>3. ~Contains(NoGroup, u)
    BY DEF Contains, NoGroup
  <2> QED BY <2>1, <2>2, <2>3 DEF Tells
<1>8. Handled(g, NoGroup, NoGroup, <<post>>)
  <2>1. /\ <<post>> \in Seq(Event) /\ \A i \in DOMAIN <<post>> : About(g, <<post>>[i])
    BY <1>1, <1>3, <1>6, PostsOf DEF About, Whole
  <2>2. NoGroup.pins \subseteq old.pins
    BY DEF NoGroup
  <2> QED BY <1>3, <1>4, <1>7, <2>1, <2>2, NoGroupRow DEF Handled
<1> QED BY <1>1, <1>2, <1>8, HandleKeeps

\* create keeps the invariant: nobody has heard of the new gid.
LEMMA CreateKeeps ==
  ASSUME GroupsInv, NEW a \in cache.users, NEW public \in BOOLEAN, NEW members, members \subseteq Users,
         Create(a, public, members)
  PROVE  GroupsInv'
<1> PICK g : g = born + 1
  OBVIOUS
<1> DEFINE row == IF public THEN [NoGroup EXCEPT !.st = "public"]
                  ELSE [NoGroup EXCEPT !.st = "private", !.owner = a, !.members = members]
           to == IF public THEN cache.users ELSE members
           post == PostRow("joined", to, g, row)
<1>1. /\ g \in Gids /\ born' = g /\ members \subseteq table.users /\ (public => members = {})
      /\ Handle(g, row, row, <<post>>)
  BY DEF Create
<1>2. /\ table.users \subseteq cache.users /\ cache.users \subseteq Users
      /\ RowStands(table.groups[g], cache.groups[g], table.users) /\ cache.groups[g].st = "none"
      /\ born' \in born..MaxGroups /\ g <= born'
  <2>1. born \in Nat /\ g \in 1..MaxGroups /\ MaxGroups \in Nat
    BY <1>1, GroupsAssumption DEF GroupsInv, TypeOK, Gids
  <2>2. g > born /\ g <= MaxGroups
    BY <2>1
  <2>3. StoresStand /\ cache.users \subseteq Users
    BY StoreTypes DEF GroupsInv
  <2> QED BY <1>1, <2>1, <2>2, <2>3 DEF StoresStand
<1>3. /\ row \in Row /\ row.st = (IF public THEN "public" ELSE "private") /\ row.members = members
      /\ row.pins = {} /\ row.ann = 0 /\ row.annBy = Nobody
  BY <1>1, <1>2, NoGroupRow DEF NoGroup, Row
<1> HIDE DEF row
<1>4. RowStands(row, row, table.users) /\ RowStands(row, cache.groups[g], table.users)
  BY <1>1, <1>2, <1>3 DEF RowStands
<1>5. RowAgrees(g, row, row, table.users, hist.lost, hist.failed)
  BY <1>1, <1>3 DEF RowAgrees, SameFields, SamePins
<1>6. /\ post \in Event /\ post.kind = "joined" /\ post.to = to /\ post.gid = g /\ post.row = row
  <2>1. to \subseteq Users
    BY <1>2
  <2> HIDE DEF to
  <2> QED BY <1>1, <1>3, <2>1, PostRowIs
<1> HIDE DEF post
<1>7. ASSUME NEW u \in cache.users PROVE Tells(u, g, <<post>>, cache.groups[g], row)
  <2>1. ~Contains(cache.groups[g], u) /\ (Contains(row, u) <=> u \in to)
    BY <1>2, <1>3 DEF Contains
  <2>2. CASE u \in to
    <3>1. Joins(u, g, post) /\ Similar(post.row, row) /\ u \in Users
      BY <1>2, <1>6, <2>2 DEF Joins, For, Similar
    <3>2. Rejoins(u, g, <<post>>, row)
      BY <1>1, <1>6, <3>1, RejoinsThrough
    <3> QED BY <2>1, <2>2, <3>2 DEF Tells
  <2>3. CASE u \notin to
    <3>1. ~Joins(u, g, post)
      BY <1>6, <2>3 DEF Joins, For
    <3>2. DOMAIN <<post>> = {1} /\ <<post>>[1] = post
      OBVIOUS
    <3> QED BY <2>1, <2>3, <3>1, <3>2 DEF Tells
  <2> QED BY <2>2, <2>3
<1>8. Handled(g, row, row, <<post>>)
  <2>1. /\ <<post>> \in Seq(Event) /\ \A i \in DOMAIN <<post>> : About(g, <<post>>[i])
    BY <1>1, <1>3, <1>6, PostsOf DEF About, Whole
  <2>2. row.pins \subseteq cache.groups[g].pins
    BY <1>3
  <2> QED BY <1>3, <1>4, <1>5, <1>7, <2>1, <2>2 DEF Handled
<1> QED BY <1>1, <1>2, <1>8, HandleKeeps

\* What is noted when open apps are not told of a change.
LEMMA UntoldIs ==
  ASSUME TypeOK, NEW us \in SUBSET Users, NEW g \in Gids
  PROVE  /\ Untold(us, g) \in History
         /\ hist.cut \subseteq Untold(us, g).cut /\ hist.untold \subseteq Untold(us, g).untold
         /\ Untold(us, g).lost = hist.lost /\ Untold(us, g).shared = hist.shared
         /\ Untold(us, g).failed = hist.failed /\ Untold(us, g).cut = hist.cut
         /\ \A u \in us : mirror[u].on => <<u, g>> \in Untold(us, g).untold
<1> DEFINE open == {u \in us : mirror[u].on} \X {g}
<1>1. open \subseteq Users \X Gids /\ \A u \in us : mirror[u].on => <<u, g>> \in open
  OBVIOUS
<1>2. Untold(us, g) = [hist EXCEPT !.untold = hist.untold \cup open]
  BY DEF Untold
<1> HIDE DEF open
<1> QED BY <1>1, <1>2 DEF TypeOK, History

\* change_type to public keeps the invariant: the change reaches everybody, and
\* the whole group those who were not in it, but for the guests.
LEMMA MakePublicKeeps ==
  ASSUME GroupsInv, NEW a \in cache.users, NEW g \in Gids, MakePublic(a, g)
  PROVE  GroupsInv'
<1> PICK old : old = cache.groups[g]
  OBVIOUS
<1> PICK row : row = table.groups[g]
  OBVIOUS
<1> DEFINE new == [old EXCEPT !.st = "public", !.owner = Nobody, !.members = {}]
           t == Stored(g, [row EXCEPT !.st = "public", !.owner = Nobody, !.members = {}])
           told == [NoGroup EXCEPT !.st = "public"]
           others == (cache.users \ Guests) \ old.members
           after == Untold(Guests \ old.members, g)
           first == PostRow("changed", cache.users, g, told)
           second == PostUsers("userJoined", old.members, g, others)
           third == PostRow("joined", others, g, new)
<1>1. old.st = "private" /\ Serve(g, t, new, <<first, second, third>>, after) /\ born' = born
  BY DEF MakePublic
<1>2. /\ row \in Row /\ old \in Row /\ table.users \subseteq cache.users /\ cache.users \subseteq Users
      /\ RowStands(row, old, table.users)
      /\ g \notin hist.cut => RowAgrees(g, row, old, table.users, hist.lost, hist.failed)
      /\ born \in born..MaxGroups /\ g <= born
  BY <1>1, HandlerStarts DEF Exists
<1>3. /\ new \in Row /\ t \in Row /\ new.st = "public" /\ new.owner = Nobody /\ new.members = {}
      /\ new.pins = old.pins /\ new.ann = old.ann /\ new.annBy = old.annBy
      /\ t.pins = row.pins /\ t.ann = row.ann /\ t.annBy = row.annBy /\ t.members \subseteq row.members
      /\ row.st # "none" => t.st = "public" /\ t.owner = Nobody /\ t.members = {}
  <2>1. t = IF row.st = "none" THEN row
            ELSE [row EXCEPT !.st = "public", !.owner = Nobody, !.members = {}]
    BY DEF Stored, Exists
  <2>2. /\ t \in Row /\ t.pins = row.pins /\ t.ann = row.ann /\ t.annBy = row.annBy
        /\ t.members \subseteq row.members
        /\ row.st # "none" => t.st = "public" /\ t.owner = Nobody /\ t.members = {}
    <3> HIDE DEF t
    <3> QED BY <1>2, <2>1 DEF Row
  <2>3. /\ new \in Row /\ new.st = "public" /\ new.owner = Nobody /\ new.members = {}
        /\ new.pins = old.pins /\ new.ann = old.ann /\ new.annBy = old.annBy
    BY <1>2 DEF Row
  <2> QED BY <2>2, <2>3
<1>4. told \in Row /\ told.st = "public"
  BY NoGroupRow DEF NoGroup, Row
<1> HIDE DEF new, t, told
<1>5. RowStands(t, new, table.users) /\ RowStands(t, old, table.users)
  BY <1>1, <1>2, <1>3 DEF RowStands
<1>6. ASSUME g \notin hist.cut PROVE RowAgrees(g, t, new, table.users, hist.lost, hist.failed)
  <2>1. RowAgrees(g, row, old, table.users, hist.lost, hist.failed) /\ row.st # "none"
    BY <1>1, <1>2, <1>6 DEF RowAgrees, SameFields
  <2>2. SameFields(t, new, table.users)
    BY <1>1, <1>3, <2>1 DEF RowAgrees, SameFields
  <2>3. SamePins(g, t, new, table.users, hist.lost, hist.failed)
    BY <1>1, <1>3, <2>1 DEF RowAgrees, SamePins
  <2> QED BY <1>3, <2>2, <2>3 DEF RowAgrees
<1>7. /\ first \in Event /\ first.kind = "changed" /\ first.to = cache.users /\ first.gid = g /\ first.row = told
      /\ second \in Event /\ second.kind = "userJoined" /\ second.to = old.members
      /\ second.gid = g /\ second.uids = others
      /\ third \in Event /\ third.kind = "joined" /\ third.to = others /\ third.gid = g /\ third.row = new
  <2>1. old.members \subseteq Users /\ others \subseteq Users
    BY <1>2 DEF Row
  <2> HIDE DEF others
  <2>2. /\ first \in Event /\ first.kind = "changed" /\ first.to = cache.users /\ first.gid = g /\ first.row = told
    BY <1>2, <1>4, PostRowIs
  <2>3. /\ second \in Event /\ second.kind = "userJoined" /\ second.to = old.members
        /\ second.gid = g /\ second.uids = others
    BY <2>1, PostUsersIs
  <2>4. third \in Event /\ third.kind = "joined" /\ third.to = others /\ third.gid = g /\ third.row = new
    BY <1>3, <2>1, PostRowIs
  <2> QED BY <2>2, <2>3, <2>4
<1> HIDE DEF first, second, third
<1>8. /\ after \in History /\ hist.cut \subseteq after.cut /\ hist.untold \subseteq after.untold
      /\ after.lost = hist.lost /\ after.shared = hist.shared /\ after.failed = hist.failed /\ after.cut = hist.cut
      /\ \A u \in Guests \ old.members : mirror[u].on => <<u, g>> \in after.untold
  <2>1. Guests \ old.members \in SUBSET Users
    BY GroupsAssumption
  <2> QED BY <2>1, UntoldIs DEF GroupsInv
<1> HIDE DEF after
<1>9. ASSUME NEW u \in cache.users, mirror[u].on, <<u, g>> \notin after.untold
      PROVE  Tells(u, g, <<first, second, third>>, old, new)
  <2>1. Contains(new, u) /\ (Contains(old, u) <=> u \in old.members) /\ u \in Users
    BY <1>1, <1>2, <1>3 DEF Contains
  <2>2. CASE u \in old.members
    <3>1. ASSUME NEW y \in Row, Similar(y, old) PROVE Leads(u, g, y, <<first, second, third>>, new)
      <4> DEFINE z == [y EXCEPT !.st = "public", !.owner = Nobody]
      <4>1. ShownAfter(y, u, g, first) = z
        <5>1. y.st # "none" /\ first \in Event /\ first.kind = "changed" /\ first.row.st = "public"
          BY <1>1, <1>4, <1>7, <3>1 DEF Similar
        <5>2. ShownAfter(y, u, g, first) = Shown(y, u, first)
          BY <1>7 DEF ShownAfter, For
        <5>3. Shown(y, u, first) = [y EXCEPT !.st = "public", !.owner = Nobody]
          BY <2>1, <5>1, ShownFields
        <5> QED BY <5>2, <5>3, Zenon
      <4>2. /\ z \in Row /\ z.st = "public" /\ z.owner = Nobody
            /\ z.pins = y.pins /\ z.ann = y.ann /\ z.annBy = y.annBy
        BY DEF Row
      <4> HIDE DEF z
      <4>3. ShownAfter(z, u, g, second) = [z EXCEPT !.members = z.members \cup second.uids]
        <5>1. ShownAfter(z, u, g, second) = Shown(z, u, second) /\ z.st # "none"
          BY <1>7, <2>2, <4>2 DEF ShownAfter, For
        <5>2. Shown(z, u, second) = [z EXCEPT !.members = z.members \cup second.uids]
          BY <1>7, <2>1, <4>2, <5>1, ShownUsers
        <5> QED BY <5>1, <5>2, Zenon
      <4>4. Similar([z EXCEPT !.members = z.members \cup second.uids], new)
        BY <1>3, <3>1, <4>2 DEF Similar, Row
      <4>5. Similar(ShownAfter(z, u, g, second), new)
        BY <4>3, <4>4, Zenon
      <4>6. \A x : ShownAfter(x, u, g, third) = x
        BY <1>7, <2>2 DEF ShownAfter, For
      <4>7. Similar(ShownAfter(ShownAfter(ShownAfter(y, u, g, first), u, g, second), u, g, third), new)
        BY <4>1, <4>5, <4>6, Zenon
      <4> QED BY <1>7, <2>1, <4>7, LeadsThrough
    <3> QED BY <2>1, <2>2, <3>1 DEF Tells
  <2>3. CASE u \notin old.members
    <3> u \in others
      BY <1>8, <1>9, <2>3
    <3>1. Joins(u, g, third) /\ Similar(third.row, new)
      BY <1>7, <2>3 DEF Joins, For, Similar
    <3>2. Rejoins(u, g, <<first, second, third>>, new)
      BY <1>7, <2>1, <3>1, RejoinsThrough
    <3> QED BY <2>1, <2>3, <3>2 DEF Tells
  <2> QED BY <2>2, <2>3
<1>10. Served(g, t, new, <<first, second, third>>, after)
  <2>1. /\ <<first, second, third>> \in Seq(Event)
        /\ \A i \in DOMAIN <<first, second, third>> : About(g, <<first, second, third>>[i])
    BY <1>3, <1>7, PostsOf DEF About, Whole
  <2> QED BY <1>3, <1>5, <1>6, <1>8, <1>9, <2>1 DEF Served
<1> QED BY <1>1, <1>2, <1>3, <1>8, <1>10, ServeKeeps

\* Those in a group, and no other users, hear of its changes.
LEMMA AudienceIs ==
  ASSUME GroupsInv, NEW g \in Gids, Exists(cache, g)
  PROVE  Audience(g) \subseteq Users /\ \A u \in cache.users : Contains(cache.groups[g], u) <=> u \in Audience(g)
<1>1. cache.groups[g] \in Row /\ cache.users \subseteq Users
  BY HandlerStarts
<1> QED BY <1>1 DEF Exists, Audience, Public, Contains, Row

\* One post that makes the row of every app that shows the group right.
LEMMA TellsOne ==
  ASSUME GroupsInv, NEW g \in Gids, Exists(cache, g), NEW new, new.st = cache.groups[g].st,
         new.members = cache.groups[g].members,
         NEW post \in Event, post.kind \in {"pin", "announcement"}, post.gid = g, Audience(g) \subseteq post.to,
         \A u \in Users : \A y \in Row : Similar(y, cache.groups[g]) => Similar(Shown(y, u, post), new)
  PROVE  /\ <<post>> \in Seq(Event) /\ \A i \in DOMAIN <<post>> : About(g, <<post>>[i])
         /\ \A u \in cache.users : Tells(u, g, <<post>>, cache.groups[g], new)
<1>1. <<post>> \in Seq(Event) /\ DOMAIN <<post>> = {1} /\ <<post>>[1] = post
  OBVIOUS
<1>2. cache.users \subseteq Users
  BY HandlerStarts
<1>3. ASSUME NEW u \in cache.users PROVE Tells(u, g, <<post>>, cache.groups[g], new)
  <2>1. Contains(new, u) <=> Contains(cache.groups[g], u)
    BY DEF Contains
  <2>2. ~Joins(u, g, post) /\ u \in Users
    BY <1>2 DEF Joins
  <2>3. CASE Contains(cache.groups[g], u)
    <3>1. ASSUME NEW y \in Row, Similar(y, cache.groups[g]) PROVE Leads(u, g, y, <<post>>, new)
      <4>1. u \in Audience(g)
        BY <2>3, AudienceIs
      <4>2. ShownAfter(y, u, g, post) = Shown(y, u, post)
        BY <4>1 DEF ShownAfter, For
      <4>3. Similar(ShownAfter(y, u, g, post), new)
        BY <2>2, <3>1, <4>2
      <4> QED BY <2>2, <4>3, LeadsThrough
    <3> QED BY <2>1, <2>3, <3>1 DEF Tells
  <2>4. CASE ~Contains(cache.groups[g], u)
    BY <1>1, <2>1, <2>2, <2>4 DEF Tells
  <2> QED BY <2>3, <2>4
<1>4. \A i \in DOMAIN <<post>> : About(g, <<post>>[i])
  BY <1>1 DEF About, Whole
<1> QED BY <1>1, <1>3, <1>4

\* unpin_message keeps the invariant.
LEMMA UnpinKeeps ==
  ASSUME GroupsInv, NEW a \in cache.users, NEW g \in Gids, NEW m \in Mids, UnpinMessage(a, g, m)
  PROVE  GroupsInv'
<1> PICK old : old = cache.groups[g]
  OBVIOUS
<1> PICK row : row = table.groups[g]
  OBVIOUS
<1> DEFINE new == Unpinned(old, m)
           t == Unpinned(row, m)
           post == PostPin(Audience(g), g, m, {})
<1>1. old.st # "none" /\ Exists(cache, g) /\ Handle(g, t, new, <<post>>) /\ born' = born
  BY DEF UnpinMessage, Exists
<1>2. /\ row \in Row /\ old \in Row /\ table.users \subseteq cache.users /\ cache.users \subseteq Users
      /\ RowStands(row, old, table.users)
      /\ g \notin hist.cut => RowAgrees(g, row, old, table.users, hist.lost, hist.failed)
      /\ born \in born..MaxGroups /\ g <= born
  BY <1>1, HandlerStarts
<1>3. /\ new \in Row /\ t \in Row /\ new.st = old.st /\ new.members = old.members /\ new.owner = old.owner
      /\ new.pins = {p \in old.pins : p.mid # m} /\ new.ann = old.ann /\ new.annBy = old.annBy
      /\ t.st = row.st /\ t.members = row.members /\ t.owner = row.owner
      /\ t.pins = {p \in row.pins : p.mid # m} /\ t.ann = row.ann /\ t.annBy = row.annBy
  BY <1>2 DEF Row, Unpinned
<1> HIDE DEF new, t
<1>4. RowStands(t, new, table.users) /\ RowStands(t, old, table.users)
  BY <1>2, <1>3 DEF RowStands
<1>5. ASSUME g \notin hist.cut PROVE RowAgrees(g, t, new, table.users, hist.lost, hist.failed)
  <2>1. RowAgrees(g, row, old, table.users, hist.lost, hist.failed) /\ new.st # "none"
    BY <1>1, <1>2, <1>3, <1>5
  <2>2. SameFields(t, new, table.users)
    BY <1>3, <2>1 DEF RowAgrees, SameFields
  <2>3. SamePins(g, t, new, table.users, hist.lost, hist.failed)
    BY <1>3, <2>1 DEF RowAgrees, SamePins
  <2> QED BY <2>1, <2>2, <2>3 DEF RowAgrees
<1>6. /\ post \in Event /\ post.kind = "pin" /\ post.to = Audience(g) /\ post.gid = g /\ post.mid = m
      /\ post.row.pins = {}
  BY <1>1, AudienceIs, PostPinIs
<1> HIDE DEF post
<1>7. ASSUME NEW u \in Users, NEW y \in Row, Similar(y, old) PROVE Similar(Shown(y, u, post), new)
  <2> PICK s : s = Shown(y, u, post)
    OBVIOUS
  <2>1. y.st # "none"
    BY <1>1, <1>7 DEF Similar
  <2>2. /\ s.st = y.st /\ s.owner = y.owner /\ s.members = y.members /\ s.ann = y.ann /\ s.annBy = y.annBy
        /\ s.pins = {p \in y.pins : p.mid # post.mid} \cup post.row.pins
    BY <1>6, <2>1, ShownPins
  <2> QED BY <1>3, <1>6, <1>7, <2>2 DEF Similar
<1>8. Handled(g, t, new, <<post>>)
  <2>1. /\ <<post>> \in Seq(Event) /\ \A i \in DOMAIN <<post>> : About(g, <<post>>[i])
        /\ \A u \in cache.users : Tells(u, g, <<post>>, old, new)
    BY <1>1, <1>3, <1>6, <1>7, TellsOne
  <2> QED BY <1>3, <1>4, <1>5, <2>1 DEF Handled
<1> QED BY <1>1, <1>2, <1>8, HandleKeeps

\* The post of an announcement makes it the announcement of every app that shows the group.
LEMMA TellsAnnouncement ==
  ASSUME GroupsInv, NEW g \in Gids, Exists(cache, g), NEW new, new.st = cache.groups[g].st,
         new.owner = cache.groups[g].owner, new.members = cache.groups[g].members,
         new.pins = cache.groups[g].pins,
         NEW told \in Row, told.ann = new.ann, told.annBy = new.annBy,
         NEW post, post = PostRow("announcement", Users, g, told)
  PROVE  /\ <<post>> \in Seq(Event) /\ \A i \in DOMAIN <<post>> : About(g, <<post>>[i])
         /\ \A u \in cache.users : Tells(u, g, <<post>>, cache.groups[g], new)
<1> PICK old : old = cache.groups[g]
  OBVIOUS
<1>1. post \in Event /\ post.kind = "announcement" /\ post.to = Users /\ post.gid = g /\ post.row = told
  BY PostRowIs
<1>2. old \in Row /\ old.st # "none"
  BY HandlerStarts DEF Exists
<1>3. ASSUME NEW u \in Users, NEW y \in Row, Similar(y, old) PROVE Similar(Shown(y, u, post), new)
  <2>1. y.st # "none"
    BY <1>2, <1>3 DEF Similar
  <2> PICK s : s = Shown(y, u, post)
    OBVIOUS
  <2>2. /\ s.st = y.st /\ s.owner = y.owner /\ s.members = y.members /\ s.pins = y.pins
        /\ s.ann = told.ann /\ s.annBy = told.annBy
    BY <1>1, <2>1, ShownAnnouncement
  <2> QED BY <1>3, <2>2 DEF Similar
<1>4. Audience(g) \subseteq post.to
  BY <1>1, AudienceIs
<1> QED BY <1>1, <1>3, <1>4, TellsOne

\* An announcement keeps the invariant.
LEMMA AnnounceKeeps ==
  ASSUME GroupsInv, NEW a \in cache.users, NEW g \in Gids, NEW content \in 1..2, Announce(a, g, content)
  PROVE  GroupsInv'
<1> PICK old : old = cache.groups[g]
  OBVIOUS
<1> PICK row : row = table.groups[g]
  OBVIOUS
<1> PICK by : by = IF old.ann = 0 THEN a ELSE old.annBy
  OBVIOUS
<1> DEFINE new == [old EXCEPT !.ann = content, !.annBy = by]
           t == IF old.ann = 0 \/ row.ann # 0 THEN [row EXCEPT !.ann = content, !.annBy = by] ELSE row
           told == [NoGroup EXCEPT !.ann = content, !.annBy = by]
           post == PostRow("announcement", Users, g, told)
<1>1. /\ Exists(cache, g) /\ old.st # "none" /\ (old.ann = 0 => row.ann = 0 /\ a \in table.users)
      /\ Handle(g, t, new, <<post>>) /\ born' = born
  BY DEF Announce, Exists
<1>2. /\ row \in Row /\ old \in Row /\ table.users \subseteq cache.users /\ cache.users \subseteq Users
      /\ RowStands(row, old, table.users)
      /\ g \notin hist.cut => RowAgrees(g, row, old, table.users, hist.lost, hist.failed)
      /\ born \in born..MaxGroups /\ g <= born
  BY <1>1, HandlerStarts
<1>3. /\ by \in Users \cup {Nobody} /\ by # Nobody /\ content \in 0..2 /\ content # 0
      /\ (old.ann = 0 => by = a) /\ (old.ann # 0 => by = old.annBy)
  <2>1. a \in Users /\ a # Nobody
    BY <1>2, GroupsAssumption
  <2> QED BY <1>2, <2>1 DEF RowStands, Row
<1>4. /\ new \in Row /\ new.st = old.st /\ new.members = old.members /\ new.owner = old.owner
      /\ new.pins = old.pins /\ new.ann = content /\ new.annBy = by
  BY ZenonT(30), <1>2, <1>3 DEF Row
<1>5. /\ t \in Row /\ t.st = row.st /\ t.members = row.members /\ t.owner = row.owner /\ t.pins = row.pins
      /\ t.ann = (IF old.ann = 0 \/ row.ann # 0 THEN content ELSE row.ann)
      /\ t.annBy = (IF old.ann = 0 \/ row.ann # 0 THEN by ELSE row.annBy)
  BY ZenonT(30), <1>2, <1>3 DEF Row
<1>6. told \in Row /\ told.ann = new.ann /\ told.annBy = new.annBy
  <2>1. told \in Row /\ told.ann = content /\ told.annBy = by
    BY <1>3, NoGroupRow DEF NoGroup, Row
  <2> QED BY <1>4, <2>1
<1> HIDE DEF new, t, told
<1>7. RowStands(t, new, table.users) /\ RowStands(t, old, table.users)
  <2>1. by \in table.users \/ (old.ann # 0 /\ by = old.annBy)
    BY <1>1, <1>3
  <2>2. t.annBy \in table.users \cup {Nobody}
    BY <1>2, <1>3, <1>5, <2>1 DEF RowStands
  <2>3. t.ann = 0 <=> t.annBy = Nobody
    BY <1>2, <1>3, <1>5 DEF RowStands
  <2>4. t.ann # 0 => t.annBy = by
    BY <1>5
  <2> QED BY <1>2, <1>3, <1>4, <1>5, <2>2, <2>3, <2>4 DEF RowStands
<1>8. ASSUME g \notin hist.cut PROVE RowAgrees(g, t, new, table.users, hist.lost, hist.failed)
  <2>1. RowAgrees(g, row, old, table.users, hist.lost, hist.failed) /\ new.st # "none"
    BY <1>1, <1>2, <1>4, <1>8
  <2>2. SameFields(row, old, table.users) /\ SamePins(g, row, old, table.users, hist.lost, hist.failed)
    BY <1>1, <2>1 DEF RowAgrees
  <2>3. SameFields(t, new, table.users)
    <3>1. t.st = new.st /\ t.owner = new.owner
          /\ t.members = IF new.st = "public" THEN new.members \cap table.users ELSE new.members
      BY <1>4, <1>5, <2>2 DEF SameFields
    <3>2. CASE old.ann = 0
      BY <1>1, <1>2, <1>3, <1>4, <1>5, <3>1, <3>2 DEF SameFields
    <3>3. CASE old.ann # 0 /\ by \in table.users
      BY <1>3, <1>4, <1>5, <2>2, <3>1, <3>3 DEF SameFields
    <3>4. CASE old.ann # 0 /\ by \notin table.users
      BY <1>3, <1>4, <1>5, <2>2, <3>1, <3>4 DEF SameFields
    <3> QED BY <3>2, <3>3, <3>4
  <2>4. SamePins(g, t, new, table.users, hist.lost, hist.failed)
    BY <1>4, <1>5, <2>2 DEF SamePins
  <2> QED BY <2>1, <2>3, <2>4 DEF RowAgrees
<1>9. Handled(g, t, new, <<post>>)
  <2>1. /\ <<post>> \in Seq(Event) /\ \A i \in DOMAIN <<post>> : About(g, <<post>>[i])
        /\ \A u \in cache.users : Tells(u, g, <<post>>, old, new)
    BY <1>1, <1>4, <1>6, TellsAnnouncement
  <2> QED BY <1>4, <1>5, <1>7, <1>8, <2>1 DEF Handled
<1> QED BY <1>1, <1>2, <1>9, HandleKeeps

\* A group without its announcement.
LEMMA SilentIs ==
  ASSUME NEW x \in Row
  PROVE  LET s == Silent(x) IN
         /\ s \in Row /\ s.st = x.st /\ s.owner = x.owner /\ s.members = x.members /\ s.pins = x.pins
         /\ s.ann = 0 /\ s.annBy = Nobody
<1> PICK n : n = 0
  OBVIOUS
<1> DEFINE r == [x EXCEPT !.ann = n, !.annBy = Nobody]
<1>1. n \in 0..2
  OBVIOUS
<1>2. /\ r \in Row /\ r.st = x.st /\ r.owner = x.owner /\ r.members = x.members /\ r.pins = x.pins
      /\ r.ann = n /\ r.annBy = Nobody
  BY <1>1 DEF Row
<1>3. Silent(x) = r
  BY DEF Silent
<1> HIDE DEF r
<1> QED BY <1>2, <1>3

\* Deleting an announcement keeps the invariant.
LEMMA DeleteAnnouncementKeeps ==
  ASSUME GroupsInv, NEW a \in cache.users, NEW g \in Gids, DeleteAnnouncement(a, g)
  PROVE  GroupsInv'
<1> PICK old : old = cache.groups[g]
  OBVIOUS
<1> PICK row : row = table.groups[g]
  OBVIOUS
<1> DEFINE new == Silent(old)
           t == Silent(row)
           post == PostRow("announcement", Users, g, NoGroup)
<1>1. Exists(cache, g) /\ old.st # "none" /\ Handle(g, t, new, <<post>>) /\ born' = born
  BY DEF DeleteAnnouncement, Exists
<1>2. /\ row \in Row /\ old \in Row /\ table.users \subseteq cache.users /\ cache.users \subseteq Users
      /\ RowStands(row, old, table.users)
      /\ g \notin hist.cut => RowAgrees(g, row, old, table.users, hist.lost, hist.failed)
      /\ born \in born..MaxGroups /\ g <= born
  BY <1>1, HandlerStarts
<1>3. /\ new \in Row /\ t \in Row /\ new.st = old.st /\ new.members = old.members /\ new.owner = old.owner
      /\ new.pins = old.pins /\ new.ann = 0 /\ new.annBy = Nobody
      /\ t.st = row.st /\ t.members = row.members /\ t.owner = row.owner
      /\ t.pins = row.pins /\ t.ann = 0 /\ t.annBy = Nobody
  BY <1>2, SilentIs
<1>4. NoGroup.ann = new.ann /\ NoGroup.annBy = new.annBy
  BY <1>3 DEF NoGroup
<1> HIDE DEF new, t
<1>5. RowStands(t, new, table.users) /\ RowStands(t, old, table.users)
  BY <1>2, <1>3 DEF RowStands
<1>6. ASSUME g \notin hist.cut PROVE RowAgrees(g, t, new, table.users, hist.lost, hist.failed)
  <2>1. RowAgrees(g, row, old, table.users, hist.lost, hist.failed) /\ new.st # "none"
    BY <1>1, <1>2, <1>3, <1>6
  <2>2. SameFields(t, new, table.users) /\ SamePins(g, t, new, table.users, hist.lost, hist.failed)
    BY <1>3, <2>1 DEF RowAgrees, SameFields, SamePins
  <2> QED BY <2>1, <2>2 DEF RowAgrees
<1>7. Handled(g, t, new, <<post>>)
  <2>1. /\ <<post>> \in Seq(Event) /\ \A i \in DOMAIN <<post>> : About(g, <<post>>[i])
        /\ \A u \in cache.users : Tells(u, g, <<post>>, old, new)
    BY <1>1, <1>3, <1>4, NoGroupRow, TellsAnnouncement
  <2> QED BY <1>3, <1>5, <1>6, <2>1 DEF Handled
<1> QED BY <1>1, <1>2, <1>7, HandleKeeps

----------------------------------------------------------------------------
\* Messages and apps.

\* Steps that leave the stores alone keep what is said of them.
LEMMA StoresSame ==
  ASSUME StoresStand, RowsAgree, UNCHANGED <<table, cache, born>>,
         hist'.cut = hist.cut, hist'.lost = hist.lost, hist'.failed = hist.failed
  PROVE  StoresStand' /\ RowsAgree'
<1>1. StoresStand'
  BY DEF StoresStand, RowStands
<1>2. RowsAgree'
  BY DEF RowsAgree, RowAgrees, SameFields, SamePins
<1> QED BY <1>1, <1>2

\* An edit keeps the invariant: the message waits in the queue until it is copied.
LEMMA EditKeeps ==
  ASSUME GroupsInv, NEW m \in Mids, Edit(m)
  PROVE  GroupsInv'
<1>1. /\ merged[m] \in 1..MaxEdits /\ merged' = [merged EXCEPT ![m] = merged[m] + 1]
      /\ queue' = Append(queue, m) /\ used' = [used EXCEPT !.requests = @ + 1]
      /\ UNCHANGED <<table, cache, born, worker, mirror, hist>>
  BY DEF Edit
<1>2. TypeOK /\ StoresStand /\ RowsAgree /\ PinsStand /\ AppsFollow
  BY DEF GroupsInv
<1>3. queue \in Seq(Mids) /\ merged \in [Mids -> Content] /\ used \in [requests : Nat, troubles : Nat]
  BY <1>2 DEF TypeOK
<1>4. merged[m] + 1 \in Content /\ merged' \in [Mids -> Content] /\ \A x \in Mids \ {m} : merged'[x] = merged[x]
  BY <1>1, <1>3, GroupsAssumption DEF Content
<1>5. /\ queue' \in Seq(Mids)
      /\ \A i \in DOMAIN queue : i \in DOMAIN queue' /\ queue'[i] = queue[i]
      /\ \E i \in DOMAIN queue' : queue'[i] = m
  BY <1>1, <1>3, AppendProperties
<1>6. used' \in [requests : Nat, troubles : Nat]
  BY <1>1, <1>3, CountTypes
<1>7. TypeOK'
  BY <1>1, <1>2, <1>4, <1>5, <1>6 DEF TypeOK
<1>8. \A x \in Mids : OnItsWay(x) => OnItsWay(x)'
  BY <1>1, <1>4, <1>5 DEF OnItsWay
<1>9. OnItsWay(m)'
  BY <1>5 DEF OnItsWay
<1>10. ASSUME NEW g \in Gids, NEW p \in cache'.groups[g].pins, p.mid \notin hist'.shared, merged'[p.mid] # 0
       PROVE  p.content = merged'[p.mid] \/ OnItsWay(p.mid)'
  <2>1. p.mid \in Mids
    BY <1>1, <1>2, StoreTypes DEF Row, Pin
  <2>2. CASE p.mid = m
    BY <1>9, <2>2
  <2>3. CASE p.mid # m
    BY <1>1, <1>2, <1>4, <1>8, <1>10, <2>1, <2>3 DEF PinsStand
  <2> QED BY <2>2, <2>3
<1>11. worker # Idle /\ merged'[worker.mid] \notin {0, worker.content} =>
          \E i \in DOMAIN queue' : queue'[i] = worker.mid
  <2>1. worker # Idle => worker.mid \in Mids
    BY <1>2 DEF TypeOK
  <2>2. CASE worker.mid = m
    BY <1>5, <2>2
  <2>3. CASE worker.mid # m
    BY <1>2, <1>4, <1>5, <2>1, <2>3 DEF PinsStand
  <2> QED BY <2>2, <2>3
<1>12. PinsStand'
  BY <1>1, <1>2, <1>10, <1>11 DEF PinsStand
<1>13. AppsFollow'
  BY <1>1, <1>2, AppsSame
<1>14. StoresStand' /\ RowsAgree'
  BY <1>1, <1>2, StoresSame
<1> QED BY <1>7, <1>12, <1>13, <1>14 DEF GroupsInv

\* What process_msg_updated reads is not older than what others may pin.
LEMMA ReadMergedKeeps ==
  ASSUME GroupsInv, ReadMerged
  PROVE  GroupsInv'
<1> PICK m : m = Head(queue)
  OBVIOUS
<1>1. /\ worker = Idle /\ queue # <<>> /\ worker' = [mid |-> m, content |-> merged[m]] /\ queue' = Tail(queue)
      /\ UNCHANGED <<table, cache, born, merged, mirror, hist, used>>
  BY DEF ReadMerged
<1>2. TypeOK /\ StoresStand /\ RowsAgree /\ PinsStand /\ AppsFollow
  BY DEF GroupsInv
<1>3. queue \in Seq(Mids) /\ merged \in [Mids -> Content]
  BY <1>2 DEF TypeOK
<1>4. /\ m \in Mids /\ queue' \in Seq(Mids)
      /\ \A i \in DOMAIN queue : queue[i] = m \/ \E k \in DOMAIN queue' : queue'[k] = queue[i]
  <2> PICK n : n = Len(queue)
    OBVIOUS
  <2>1. /\ n \in Nat \ {0} /\ DOMAIN queue = 1..n /\ queue' \in Seq(Mids) /\ DOMAIN queue' = 1..(n - 1)
        /\ m = queue[1] /\ \A k \in 1..(n - 1) : queue'[k] = queue[k + 1]
    BY <1>1, <1>3, HeadTailProperties, LenProperties, EmptySeq
  <2>2. m \in Mids
    BY <1>3, <2>1, ElementOfSeq
  <2>3. ASSUME NEW i \in 1..n, i # 1 PROVE \E k \in 1..(n - 1) : queue'[k] = queue[i]
    <3>1. i - 1 \in 1..(n - 1) /\ (i - 1) + 1 = i
      BY <2>1, <2>3
    <3> QED BY <2>1, <3>1
  <2> QED BY <2>1, <2>2, <2>3
<1>5. worker' \in {Idle} \cup [mid : Mids, content : Content] /\ worker'.mid = m /\ worker'.content = merged[m]
  BY <1>1, <1>3, <1>4
<1>6. TypeOK'
  BY <1>1, <1>2, <1>4, <1>5 DEF TypeOK
<1>7. ASSUME NEW x \in Mids, OnItsWay(x), merged[x] # 0 PROVE OnItsWay(x)'
  <2>1. \E i \in DOMAIN queue : queue[i] = x
    BY <1>1, <1>7 DEF OnItsWay, Idle
  <2> QED BY <1>1, <1>4, <1>5, <2>1 DEF OnItsWay
<1>8. ASSUME NEW g \in Gids, NEW p \in cache'.groups[g].pins, p.mid \notin hist'.shared, merged'[p.mid] # 0
      PROVE  p.content = merged'[p.mid] \/ OnItsWay(p.mid)'
  <2>1. p.mid \in Mids
    BY <1>1, <1>2, StoreTypes DEF Row, Pin
  <2> QED BY <1>1, <1>2, <1>7, <1>8, <2>1 DEF PinsStand
<1>9. PinsStand'
  BY <1>1, <1>2, <1>5, <1>8 DEF PinsStand
<1>10. AppsFollow'
  BY <1>1, <1>2, AppsSame
<1>11. StoresStand' /\ RowsAgree'
  BY <1>1, <1>2, StoresSame
<1> QED BY <1>6, <1>9, <1>10, <1>11 DEF GroupsInv

\* What a step of an app keeps: it changes the app only.
LEMMA AppKeeps ==
  ASSUME GroupsInv, UNCHANGED <<table, cache, born, merged, queue, worker, hist, used>>,
         mirror' \in [Users -> [on : BOOLEAN, view : [Gids -> Row], inbox : Seq(Event)]],
         \A u \in Users : mirror'[u] = mirror[u] \/ AppFollows(u)'
  PROVE  GroupsInv'
<1>1. TypeOK /\ StoresStand /\ RowsAgree /\ PinsStand /\ AppsFollow
  BY DEF GroupsInv
<1>2. TypeOK'
  BY <1>1 DEF TypeOK
<1>3. StoresStand' /\ RowsAgree'
  BY <1>1, StoresSame
<1>4. PinsStand'
  BY <1>1, PinsKept
<1>5. ASSUME NEW u \in Users, mirror'[u] = mirror[u] PROVE AppFollows(u)'
  <2>1. AppFollows(u)
    BY <1>1 DEF AppsFollow
  <2>2. \A g \in Gids : Follows(u, g) => Follows(u, g)'
    BY <1>5, FollowsSame
  <2> QED BY <1>5, <2>1, <2>2 DEF AppFollows
<1> QED BY <1>2, <1>3, <1>4, <1>5 DEF GroupsInv, AppsFollow

\* The ready events of a stream lead to what the cache has.
LEMMA SubscribeKeeps ==
  ASSUME GroupsInv, NEW u \in Users, Subscribe(u)
  PROVE  GroupsInv'
<1> PICK related : related = Related(u)
  OBVIOUS
<1> DEFINE M == [on : BOOLEAN, view : [Gids -> Row], inbox : Seq(Event)]
           fresh == [on |-> TRUE, view |-> related, inbox |-> <<>>]
<1>1. /\ u \in cache.users /\ mirror' = [mirror EXCEPT ![u] = fresh]
      /\ UNCHANGED <<table, cache, born, merged, queue, worker, hist, used>>
  BY DEF Subscribe
<1>2. /\ related \in [Gids -> Row]
      /\ \A g \in Gids : related[g] = IF Contains(cache.groups[g], u) THEN cache.groups[g] ELSE NoGroup
  BY StoreTypes, NoGroupRow DEF GroupsInv, Related
<1>3. mirror \in [Users -> M]
  BY DEF GroupsInv, TypeOK
<1>4. fresh \in M
  BY <1>2
<1>5. mirror' \in [Users -> M] /\ mirror'[u] = fresh /\ \A v \in Users \ {u} : mirror'[v] = mirror[v]
  BY <1>1, <1>3, <1>4
<1>6. fresh.view = related /\ fresh.inbox = <<>>
  OBVIOUS
<1> HIDE DEF fresh
<1>7. ASSUME NEW g \in Gids PROVE Follows(u, g)'
  <2>1. mirror'[u].view[g] = related[g] /\ mirror'[u].inbox = <<>> /\ cache' = cache
    BY <1>1, <1>5, <1>6
  <2>2. CASE Contains(cache.groups[g], u)
    <3>1. related[g] = cache.groups[g] /\ Similar(related[g], cache.groups[g]) /\ related[g] \in Row
      BY <1>2, <2>2 DEF Similar
    <3>2. <<>> \in Seq(Event) /\ DOMAIN <<>> = {}
      OBVIOUS
    <3>3. Leads(u, g, related[g], <<>>, cache.groups[g])
      BY <3>1, <3>2, LeadsSame
    <3> QED BY <2>1, <2>2, <3>3 DEF Follows
  <2>3. CASE ~Contains(cache.groups[g], u)
    <3>1. related[g] = NoGroup
      BY <1>2, <2>3
    <3>2. Forgets(u, g, related[g], <<>>)
      BY <3>1 DEF Forgets, NoGroup
    <3> QED BY <2>1, <2>3, <3>2 DEF Follows
  <2> QED BY <2>2, <2>3
<1>8. AppFollows(u)'
  <2>1. \A g \in Gids : related[g].st = "none" => related[g] = NoGroup
    BY <1>2 DEF Contains
  <2>2. \A i \in DOMAIN mirror'[u].inbox : Whole(mirror'[u].inbox[i])
    BY <1>5, <1>6
  <2> QED BY <1>1, <1>5, <1>6, <1>7, <2>1, <2>2 DEF AppFollows
<1> QED BY <1>1, <1>5, <1>8, AppKeeps

\* An app shows nothing of a group but as NoGroup.
LEMMA ShownNone ==
  ASSUME NEW x \in Row, x.st = "none" => x = NoGroup, NEW u \in Users, NEW e \in Event, Whole(e)
  PROVE  Shown(x, u, e).st = "none" => Shown(x, u, e) = NoGroup
<1> PICK s : s = Shown(x, u, e)
  OBVIOUS
<1>1. CASE e.kind = "joined"
  <2>1. s = e.row
    BY <1>1 DEF Shown
  <2> QED BY <1>1, <2>1 DEF Whole
<1>2. CASE e.kind # "joined" /\ (e.kind = "kicked" \/ x.st = "none")
  BY <1>2 DEF Shown
<1>3. CASE e.kind = "changed" /\ x.st # "none"
  <2>1. s \in {[x EXCEPT !.st = "public", !.owner = Nobody], [x EXCEPT !.st = "private"],
               [x EXCEPT !.owner = e.row.owner]}
    BY <1>3 DEF Shown
  <2>2. /\ [x EXCEPT !.st = "public", !.owner = Nobody].st = "public"
        /\ [x EXCEPT !.st = "private"].st = "private"
        /\ [x EXCEPT !.owner = e.row.owner].st = x.st
    BY DEF Row
  <2> QED BY <1>3, <2>1, <2>2, Zenon
<1>4. CASE e.kind = "userJoined" /\ x.st # "none"
  BY <1>4, ShownUsers DEF Row
<1>5. CASE e.kind = "userLeft" /\ x.st # "none"
  <2>1. CASE u \in e.uids
    BY <1>5, <2>1 DEF Shown
  <2>2. CASE u \notin e.uids
    BY <1>5, <2>2, ShownUsers DEF Row
  <2> QED BY <2>1, <2>2
<1>6. CASE e.kind = "pin" /\ x.st # "none"
  BY <1>6, ShownPins
<1>7. CASE e.kind = "announcement" /\ x.st # "none"
  BY <1>7, ShownAnnouncement
<1> QED BY <1>1, <1>2, <1>3, <1>4, <1>5, <1>6, <1>7 DEF Event

\* What an app shows after a post is where the rest of its path starts.
LEMMA ReceiveKeeps ==
  ASSUME GroupsInv, NEW u \in Users, Receive(u)
  PROVE  GroupsInv'
<1> PICK box : box = mirror[u].inbox
  OBVIOUS
<1> PICK e : e = Head(box)
  OBVIOUS
<1> PICK old : old = mirror[u].view
  OBVIOUS
<1> DEFINE M == [on : BOOLEAN, view : [Gids -> Row], inbox : Seq(Event)]
           passed == u \in e.to /\ (e.kind = "announcement" => Contains(cache.groups[e.gid], u))
           shown == IF passed THEN Shown(old[e.gid], u, e) ELSE old[e.gid]
           next == [mirror[u] EXCEPT !.inbox = Tail(box), !.view = [old EXCEPT ![e.gid] = shown]]
<1>1. box # <<>> /\ UNCHANGED <<table, cache, born, merged, queue, worker, hist, used>>
  BY DEF Receive
<1>2. mirror \in [Users -> M] /\ box \in Seq(Event) /\ old \in [Gids -> Row]
  BY DEF GroupsInv, TypeOK
<1>3. mirror' = [mirror EXCEPT ![u] = next]
  BY <1>2 DEF Receive
<1>4. /\ e \in Event /\ e.gid \in Gids /\ Tail(box) \in Seq(Event)
      /\ e = box[1] /\ 1 \in DOMAIN box
      /\ \A i \in DOMAIN Tail(box) : i + 1 \in DOMAIN box /\ Tail(box)[i] = box[i + 1]
  <2> PICK n : n = Len(box)
    OBVIOUS
  <2>1. /\ n \in Nat \ {0} /\ DOMAIN box = 1..n /\ Tail(box) \in Seq(Event) /\ DOMAIN Tail(box) = 1..(n - 1)
        /\ e = box[1] /\ \A k \in 1..(n - 1) : Tail(box)[k] = box[k + 1]
    BY <1>1, <1>2, HeadTailProperties, LenProperties, EmptySeq
  <2>2. e \in Event /\ 1 \in 1..n /\ \A i \in 1..(n - 1) : i + 1 \in 1..n
    BY <1>2, <2>1, ElementOfSeq
  <2> QED BY <2>1, <2>2 DEF Event
<1>5. shown \in Row
  BY <1>2, <1>4, ShownType
<1>6. next \in M /\ next.on = mirror[u].on /\ next.inbox = Tail(box) /\ next.view = [old EXCEPT ![e.gid] = shown]
  <2> HIDE DEF shown
  <2> QED BY <1>2, <1>4, <1>5
<1>7. mirror' \in [Users -> M] /\ mirror'[u] = next /\ \A v \in Users \ {u} : mirror'[v] = mirror[v]
  <2> HIDE DEF next
  <2> QED BY <1>2, <1>3, <1>6
<1>8. mirror'[u].view[e.gid] = shown /\ \A g \in Gids \ {e.gid} : mirror'[u].view[g] = old[g]
  <2> HIDE DEF shown, next
  <2> QED BY <1>2, <1>4, <1>6, <1>7
<1>9. mirror'[u].inbox = Tail(box) /\ mirror'[u].on = mirror[u].on
  <2> HIDE DEF next
  <2> QED BY <1>6, <1>7
<1> HIDE DEF next
<1>10. ASSUME mirror'[u].on PROVE AppFollows(u)'
  <2>1. AppFollows(u) /\ mirror[u].on
    BY <1>9, <1>10 DEF GroupsInv, AppsFollow
  <2>2. u \in cache.users /\ Whole(e) /\ \A i \in DOMAIN Tail(box) : Whole(Tail(box)[i])
    BY <1>4, <2>1 DEF AppFollows
  <2>3. \A g \in Gids : old[g].st = "none" => old[g] = NoGroup
    BY <2>1 DEF AppFollows
  <2>4. \A g \in Gids : mirror'[u].view[g].st = "none" => mirror'[u].view[g] = NoGroup
    <3>1. shown.st = "none" => shown = NoGroup
      <4>1. CASE passed
        <5>1. shown = Shown(old[e.gid], u, e) /\ old[e.gid] \in Row
          BY <1>2, <1>4, <4>1
        <5> QED BY <1>4, <2>2, <2>3, <5>1, ShownNone
      <4>2. CASE ~passed
        BY <1>4, <2>3, <4>2
      <4> QED BY <4>1, <4>2
    <3> HIDE DEF shown
    <3> QED BY <1>8, <2>3, <3>1
  <2>5. ASSUME NEW g \in Gids, <<u, g>> \notin hist.untold PROVE Follows(u, g)'
    <3> PICK x \in Row : x = old[g]
      BY <1>2
    <3> PICK y : y = mirror'[u].view[g]
      OBVIOUS
    <3>1. Follows(u, g)
      BY <2>1, <2>5 DEF AppFollows
    <3>2. CASE Contains(cache.groups[g], u)
      <4>1. y = ShownAfter(x, u, g, e)
        <5>1. CASE e.gid = g
          BY <1>8, <3>2, <5>1 DEF ShownAfter, For
        <5>2. CASE e.gid # g
          <6>1. y = x
            BY <1>8, <5>2
          <6> QED BY <5>2, <6>1 DEF ShownAfter, For
        <5> QED BY <5>1, <5>2
      <4>2. Leads(u, g, x, box, cache.groups[g])
        BY <3>1, <3>2 DEF Follows
      <4>3. Leads(u, g, y, Tail(box), cache.groups[g])
        BY <1>1, <1>2, <4>1, <4>2, LeadsTail
      <4> QED BY <1>1, <1>9, <3>2, <4>3 DEF Follows
    <3>3. CASE ~Contains(cache.groups[g], u)
      <4>1. y = ShownAfter(x, u, g, e) \/ (y = x /\ (e.kind = "announcement" \/ ~For(u, g, e)))
        <5>1. CASE e.gid = g
          BY <1>8, <5>1 DEF ShownAfter, For
        <5>2. CASE e.gid # g
          <6>1. y = x
            BY <1>8, <5>2
          <6> QED BY <5>2, <6>1 DEF For
        <5> QED BY <5>1, <5>2
      <4>2. Forgets(u, g, x, box)
        BY <3>1, <3>3 DEF Follows
      <4>3. x.st = "none" => x = NoGroup
        BY <2>3
      <4>4. Forgets(u, g, y, Tail(box))
        BY <1>1, <1>2, <4>1, <4>2, <4>3, ForgetsTail
      <4> QED BY <1>1, <1>9, <3>3, <4>4 DEF Follows
    <3> QED BY <3>2, <3>3
  <2> QED BY <1>1, <1>9, <2>2, <2>4, <2>5 DEF AppFollows
<1>11. AppFollows(u)'
  BY <1>10 DEF AppFollows
<1> QED BY <1>1, <1>7, <1>11, AppKeeps

\* An app with no stream.
LEMMA OffType == Off \in [on : BOOLEAN, view : [Gids -> Row], inbox : Seq(Event)] /\ ~Off.on
  BY NoGroupRow DEF Off

\* The end of a stream concerns no other app.
LEMMA EndStreamKeeps ==
  ASSUME GroupsInv, NEW u \in Users, EndStream(u)
  PROVE  GroupsInv'
<1> DEFINE M == [on : BOOLEAN, view : [Gids -> Row], inbox : Seq(Event)]
<1>1. TypeOK /\ StoresStand /\ RowsAgree /\ PinsStand /\ AppsFollow
  BY DEF GroupsInv
<1>2. /\ UNCHANGED <<table, cache, born, merged, queue, worker, used>>
      /\ mirror' \in [Users -> M] /\ ~mirror'[u].on /\ \A v \in Users \ {u} : mirror'[v] = mirror[v]
  BY <1>1, OffType DEF EndStream, TypeOK
<1>3. /\ hist' \in History /\ hist'.untold = hist.untold \ ({u} \X Gids) /\ hist'.cut = hist.cut
      /\ hist'.lost = hist.lost /\ hist'.shared = hist.shared /\ hist'.failed = hist.failed
  BY <1>1 DEF EndStream, TypeOK, History
<1>4. TypeOK'
  BY <1>1, <1>2, <1>3 DEF TypeOK, History
<1>5. StoresStand' /\ RowsAgree'
  BY <1>1, <1>2, <1>3, StoresSame
<1>6. PinsStand'
  BY <1>1, <1>2, <1>3, PinsKept
<1>7. ASSUME NEW v \in Users, mirror'[v].on PROVE AppFollows(v)'
  <2>1. v # u /\ mirror'[v] = mirror[v] /\ AppFollows(v)
    BY <1>1, <1>2, <1>7 DEF AppsFollow
  <2>2. \A g \in Gids : <<v, g>> \notin hist'.untold => Follows(v, g)'
    <3>1. \A g \in Gids : <<v, g>> \notin hist'.untold => <<v, g>> \notin hist.untold
      BY <1>3, <2>1
    <3> QED BY <1>2, <1>7, <2>1, <3>1, FollowsSame DEF AppFollows
  <2> QED BY <1>2, <2>1, <2>2 DEF AppFollows
<1> QED BY <1>4, <1>5, <1>6, <1>7 DEF GroupsInv, AppsFollow, AppFollows

\* A restart keeps the invariant: the cache is read from the table and the merged
\* messages, and no stream goes on.
LEMMA RestartKeeps ==
  ASSUME GroupsInv, Restart
  PROVE  GroupsInv'
<1> DEFINE M == [on : BOOLEAN, view : [Gids -> Row], inbox : Seq(Event)]
           loaded == [g \in Gids |-> [table.groups[g] EXCEPT !.pins = {}]]
           lost == UNION {{g} \X PinIds(table.groups[g]) : g \in Gids}
<1>1. /\ cache' = [users |-> table.users, groups |-> loaded] /\ queue' = <<>> /\ worker' = Idle
      /\ mirror' = [u \in Users |-> Off] /\ used' = [used EXCEPT !.troubles = @ + 1]
      /\ hist' = [hist EXCEPT !.cut = {}, !.untold = {}, !.shared = {}, !.lost = lost]
      /\ UNCHANGED <<table, born, merged>>
  BY DEF Restart
<1>2. TypeOK /\ StoresStand
  BY DEF GroupsInv
<1>3. ASSUME NEW g \in Gids
      PROVE  /\ loaded[g] \in Row /\ loaded[g].st = table.groups[g].st /\ loaded[g].owner = table.groups[g].owner
             /\ loaded[g].members = table.groups[g].members /\ loaded[g].pins = {}
             /\ loaded[g].ann = table.groups[g].ann /\ loaded[g].annBy = table.groups[g].annBy
  <2>1. table.groups[g] \in Row
    BY <1>2, StoreTypes
  <2> QED BY <2>1 DEF Row
<1>4. lost \in SUBSET (Gids \X Mids) /\ \A g \in Gids : \A p \in table.groups[g].pins : <<g, p.mid>> \in lost
  <2>1. ASSUME NEW g \in Gids, NEW p \in table.groups[g].pins
        PROVE  <<g, p.mid>> \in {g} \X PinIds(table.groups[g])
    BY DEF PinIds
  <2>2. \A g \in Gids : PinIds(table.groups[g]) \subseteq Mids
    BY <1>2, StoreTypes DEF PinIds, Row, Pin
  <2> QED BY <2>1, <2>2
<1> HIDE DEF loaded, lost
<1>5. /\ cache' \in Store /\ cache'.users = table.users /\ \A g \in Gids : cache'.groups[g] = loaded[g]
  <2>1. table.users \subseteq Users
    BY <1>2, StoreTypes
  <2>2. DOMAIN loaded = Gids
    BY DEF loaded
  <2>3. loaded \in [Gids -> Row]
    BY <1>3 DEF loaded
  <2> QED BY <1>1, <2>1, <2>3 DEF Store
<1>6. /\ hist'.cut = {} /\ hist'.shared = {} /\ hist'.lost = lost /\ hist'.failed = hist.failed
      /\ hist' \in History
  BY <1>1, <1>2, <1>4 DEF TypeOK, History
<1>7. Off \in M /\ ~Off.on
  BY OffType
<1>8. mirror' \in [Users -> M] /\ \A u \in Users : ~mirror'[u].on
  BY <1>1, <1>7
<1>9. TypeOK'
  <2>1. used' \in [requests : Nat, troubles : Nat]
    BY <1>1, <1>2, CountTypes DEF TypeOK
  <2>2. \A g \in Gids : \A p \in cache'.groups[g].pins : p.content # 0
    BY <1>3, <1>5
  <2>3. queue' \in Seq(Mids) /\ worker' \in {Idle} \cup [mid : Mids, content : Content]
    BY <1>1
  <2>4. table' \in Store /\ born' \in 0..MaxGroups /\ merged' \in [Mids -> Content]
    BY <1>1, <1>2 DEF TypeOK
  <2> QED BY <1>5, <1>6, <1>8, <2>1, <2>2, <2>3, <2>4 DEF TypeOK, History
<1>10. StoresStand'
  <2>1. ASSUME NEW g \in Gids PROVE RowStands(table.groups[g], cache.groups[g], table.users)'
    <3>1. RowStands(table.groups[g], cache.groups[g], table.users)
      BY <1>2 DEF StoresStand
    <3>2. /\ cache'.groups[g].ann = table.groups[g].ann /\ cache'.groups[g].annBy = table.groups[g].annBy
          /\ cache'.groups[g].pins = {}
      BY <1>3, <1>5
    <3> QED BY <1>1, <3>1, <3>2 DEF RowStands
  <2>2. \A g \in Gids : g > born => cache'.groups[g].st = "none" /\ table.groups[g].st = "none"
    BY <1>2, <1>3, <1>5 DEF StoresStand
  <2> QED BY <1>1, <1>5, <2>1, <2>2 DEF StoresStand
<1>11. RowsAgree'
  <2>1. ASSUME NEW g \in Gids
        PROVE  RowAgrees(g, table.groups[g], cache.groups[g], table.users, hist.lost, hist.failed)'
    <3> PICK t \in Row : t = table.groups[g]
      BY <1>2, StoreTypes
    <3> PICK c : c = cache'.groups[g]
      OBVIOUS
    <3>1. /\ c.st = t.st /\ c.owner = t.owner /\ c.members = t.members /\ c.pins = {}
          /\ c.ann = t.ann /\ c.annBy = t.annBy
      BY <1>3, <1>5
    <3>2. /\ t.members \subseteq table.users /\ t.annBy \in table.users \cup {Nobody} /\ table.users \subseteq Users
          /\ t.ann = 0 <=> t.annBy = Nobody
      BY <1>2, StoreTypes DEF StoresStand, RowStands
    <3>3. SameFields(t, c, table.users)
      BY <3>1, <3>2 DEF SameFields
    <3>4. SamePins(g, t, c, table.users, hist'.lost, hist'.failed)
      BY <1>4, <1>6, <3>1 DEF SamePins
    <3> QED BY <1>1, <3>1, <3>3, <3>4 DEF RowAgrees
  <2> QED BY <2>1 DEF RowsAgree
<1>12. PinsStand'
  BY <1>1, <1>3, <1>5 DEF PinsStand
<1>13. AppsFollow'
  BY <1>8 DEF AppsFollow, AppFollows
<1> QED BY <1>9, <1>10, <1>11, <1>12, <1>13 DEF GroupsInv

----------------------------------------------------------------------------
\* Steps that change one group and that no drop cuts short.

\* A store with one row written.
Write(store, g, row) == [store EXCEPT !.groups[g] = row]

\* Types of such a step.
LEMMA StepType ==
  ASSUME TypeOK, NEW g \in Gids, NEW t \in Row, NEW c \in Row, PinsWritten(c),
         NEW posts \in Seq(Event), Broadcast(posts), born' = born,
         table' \in {table, Write(table, g, t)}, cache' = Write(cache, g, c),
         merged' \in [Mids -> Content], queue' = queue, worker' \in {worker, Idle},
         hist' \in History,
         used' \in [requests : Nat, troubles : Nat]
  PROVE  TypeOK' /\ OnlyGroup(g) /\ cache'.groups[g] = c
<1>1. table \in Store /\ cache \in Store
  BY DEF TypeOK
<1>2. /\ cache' \in Store /\ cache'.groups[g] = c /\ cache'.users = cache.users
      /\ \A h \in Gids \ {g} : cache'.groups[h] = cache.groups[h]
  BY <1>1, StoreWrite DEF Write
<1>3. /\ table' \in Store /\ table'.users = table.users
      /\ \A h \in Gids \ {g} : table'.groups[h] = table.groups[h]
  <2>1. CASE table' = table
    BY <1>1, <2>1
  <2>2. CASE table' = Write(table, g, t)
    BY <1>1, <2>2, StoreWrite DEF Write
  <2> QED BY <2>1, <2>2
<1>4. \A h \in Gids : \A p \in cache'.groups[h].pins : p.content # 0
  BY <1>2 DEF TypeOK, PinsWritten
<1>5. mirror' \in [Users -> [on : BOOLEAN, view : [Gids -> Row], inbox : Seq(Event)]]
  BY BroadcastMirror
<1>6. queue' \in Seq(Mids) /\ worker' \in {Idle} \cup [mid : Mids, content : Content] /\ born' \in 0..MaxGroups
  BY DEF TypeOK
<1>7. TypeOK'
  BY <1>2, <1>3, <1>4, <1>5, <1>6 DEF TypeOK, History
<1> QED BY <1>2, <1>3, <1>7 DEF OnlyGroup

\* change_type to private keeps the invariant: what the open apps show of the group
\* is not compared from then on.
LEMMA MakePrivateKeeps ==
  ASSUME GroupsInv, NEW a \in cache.users, NEW g \in Gids, NEW us, us \subseteq Users, MakePrivate(a, g, us)
  PROVE  GroupsInv'
<1> PICK old : old = cache.groups[g]
  OBVIOUS
<1> PICK row : row = table.groups[g]
  OBVIOUS
<1> DEFINE members == (IF us = {} THEN cache.users \ Guests ELSE us) \cup {a}
           new == [old EXCEPT !.st = "private", !.owner = a, !.members = members]
           t == [row EXCEPT !.st = "private", !.owner = a, !.members = row.members \cup members]
           type == [NoGroup EXCEPT !.st = "private"]
           post == PostRow("changed", cache.users, g, type)
           told == Untold(Users, g)
           after == IF row.members = {} THEN told ELSE [told EXCEPT !.cut = told.cut \cup {g}]
<1>1. /\ old.st = "public" /\ row.st # "none" /\ Exists(cache, g) /\ members \subseteq table.users
      /\ Serve(g, t, new, <<post>>, after) /\ born' = born
  <2>1. old.st = "public" /\ row.st # "none" /\ Exists(cache, g) /\ members \subseteq table.users
    BY DEF MakePrivate, Public, Exists
  <2>2. Serve(g, t, new, <<post>>, after) /\ born' = born
    BY Zenon DEF MakePrivate
  <2> QED BY <2>1, <2>2
<1>2. /\ row \in Row /\ old \in Row /\ table.users \subseteq cache.users /\ cache.users \subseteq Users
      /\ RowStands(row, old, table.users) /\ born \in born..MaxGroups /\ g <= born
      /\ g \notin hist.cut => RowAgrees(g, row, old, table.users, hist.lost, hist.failed)
  BY <1>1, HandlerStarts
<1>3. /\ new \in Row /\ new.st = "private" /\ new.members = members /\ new.owner = a
      /\ new.pins = old.pins /\ new.ann = old.ann /\ new.annBy = old.annBy
  <2> HIDE DEF members
  <2> QED BY <1>1, <1>2 DEF Row
<1>4. /\ t \in Row /\ t.st = "private" /\ t.members = row.members \cup members /\ t.owner = a
      /\ t.pins = row.pins /\ t.ann = row.ann /\ t.annBy = row.annBy
  <2> HIDE DEF members
  <2> QED BY <1>1, <1>2 DEF Row
<1>5. type \in Row
  BY NoGroupRow DEF NoGroup, Row
<1> HIDE DEF members, new, t, type
<1>6. post \in Event /\ post.kind = "changed" /\ post.gid = g
  BY <1>2, <1>5, PostRowIs
<1> HIDE DEF post
<1>7. /\ told \in History /\ hist.cut \subseteq told.cut /\ hist.untold \subseteq told.untold
      /\ told.lost = hist.lost /\ told.shared = hist.shared /\ told.failed = hist.failed
      /\ \A u \in Users : mirror[u].on => <<u, g>> \in told.untold
  BY UntoldIs DEF GroupsInv
<1> HIDE DEF told
<1>8. /\ after \in History /\ told.cut \subseteq after.cut /\ after.untold = told.untold
      /\ after.lost = told.lost /\ after.shared = told.shared /\ after.failed = told.failed
      /\ g \notin after.cut => row.members = {}
  BY <1>7 DEF History
<1> HIDE DEF after
<1>9. <<post>> \in Seq(Event) /\ \A i \in DOMAIN <<post>> : About(g, <<post>>[i])
  BY <1>6, PostsOf DEF About, Whole
<1>10. RowStands(t, new, table.users) /\ RowStands(t, old, table.users)
  BY <1>1, <1>2, <1>3, <1>4 DEF RowStands
<1>11. ASSUME g \notin after.cut PROVE RowAgrees(g, t, new, table.users, hist.lost, hist.failed)
  <2>1. row.members = {} /\ g \notin hist.cut
    BY <1>7, <1>8, <1>11
  <2>2. SameFields(row, old, table.users) /\ SamePins(g, row, old, table.users, hist.lost, hist.failed)
    BY <1>1, <1>2, <2>1 DEF RowAgrees
  <2>3. SameFields(t, new, table.users)
    BY <1>3, <1>4, <2>1, <2>2 DEF SameFields
  <2>4. SamePins(g, t, new, table.users, hist.lost, hist.failed)
    BY <1>3, <1>4, <2>2 DEF SamePins
  <2> QED BY <1>3, <2>3, <2>4 DEF RowAgrees
<1>12. Served(g, t, new, <<post>>, after)
  <2>1. \A u \in cache.users : mirror[u].on => <<u, g>> \in after.untold
    BY <1>2, <1>7, <1>8
  <2> QED BY <1>3, <1>4, <1>7, <1>8, <1>9, <1>10, <1>11, <2>1 DEF Served
<1> QED BY <1>1, <1>2, <1>3, <1>7, <1>8, <1>12, ServeKeeps

\* A pin that comes, or one that changes, as the apps are told of it: the others stay.
LEMMA TellsPin ==
  ASSUME GroupsInv, NEW g \in Gids, Exists(cache, g), NEW m \in Mids, NEW pins, pins \subseteq Pin,
         NEW new, new.st = cache.groups[g].st,
         new.owner = cache.groups[g].owner, new.members = cache.groups[g].members,
         new.ann = cache.groups[g].ann, new.annBy = cache.groups[g].annBy,
         new.pins = {p \in cache.groups[g].pins : p.mid # m} \cup pins,
         NEW post, post = PostPin(Audience(g), g, m, pins)
  PROVE  /\ <<post>> \in Seq(Event) /\ \A i \in DOMAIN <<post>> : About(g, <<post>>[i])
         /\ \A u \in cache.users : Tells(u, g, <<post>>, cache.groups[g], new)
<1> PICK old : old = cache.groups[g]
  OBVIOUS
<1>1. /\ post \in Event /\ post.kind = "pin" /\ post.to = Audience(g) /\ post.gid = g /\ post.mid = m
      /\ post.row.pins = pins
  BY AudienceIs, PostPinIs
<1>2. old \in Row /\ old.st # "none"
  BY HandlerStarts DEF Exists
<1>3. ASSUME NEW u \in Users, NEW y \in Row, Similar(y, old) PROVE Similar(Shown(y, u, post), new)
  <2>1. y.st # "none"
    BY <1>2, <1>3 DEF Similar
  <2> PICK s : s = Shown(y, u, post)
    OBVIOUS
  <2>2. /\ s.st = y.st /\ s.owner = y.owner /\ s.members = y.members /\ s.ann = y.ann /\ s.annBy = y.annBy
        /\ s.pins = {p \in y.pins : p.mid # post.mid} \cup post.row.pins
    BY <1>1, <2>1, ShownPins
  <2> QED BY <1>1, <1>3, <2>2 DEF Similar
<1> QED BY <1>1, <1>3, TellsOne

\* pin_message keeps the invariant: the content that it pins is the merged one.
LEMMA PinKeeps ==
  ASSUME GroupsInv, NEW a \in cache.users, NEW g \in Gids, NEW m \in Mids, PinMessage(a, g, m)
  PROVE  GroupsInv'
<1> PICK old : old = cache.groups[g]
  OBVIOUS
<1> PICK row : row = table.groups[g]
  OBVIOUS
<1> DEFINE pin == [mid |-> m, by |-> a, content |-> merged[m]]
           mark == [mid |-> m, by |-> a, content |-> 0]
           new == [old EXCEPT !.pins = old.pins \cup {pin}]
           t == [row EXCEPT !.pins = row.pins \cup {mark}]
           post == PostPin(Audience(g), g, m, {pin})
           shared == \E other \in Gids \ {g} : m \in PinIds(cache.groups[other])
           after == IF shared THEN [hist EXCEPT !.shared = hist.shared \cup {m}] ELSE hist
<1>1. /\ old.st # "none" /\ Exists(cache, g) /\ m \notin PinIds(old) /\ merged[m] # 0 /\ a \in table.users
      /\ Serve(g, t, new, <<post>>, after) /\ born' = born
  <2>1. [pin EXCEPT !.content = 0] = mark
    OBVIOUS
  <2> QED BY <2>1, Zenon DEF PinMessage, Pinnable, Exists
<1>2. TypeOK /\ StoresStand /\ RowsAgree /\ PinsStand /\ AppsFollow
  BY DEF GroupsInv
<1>3. /\ row \in Row /\ old \in Row /\ table.users \subseteq cache.users /\ cache.users \subseteq Users
      /\ RowStands(row, old, table.users) /\ born \in born..MaxGroups /\ g <= born
      /\ g \notin hist.cut => RowAgrees(g, row, old, table.users, hist.lost, hist.failed)
  BY <1>1, HandlerStarts
<1>4. /\ pin \in Pin /\ mark \in Pin /\ pin.mid = m /\ pin.by = a /\ pin.content = merged[m]
      /\ mark.mid = m /\ mark.by = a
  <2>1. merged[m] \in Content /\ 0 \in Content /\ a \in Users
    BY <1>2, <1>3, GroupsAssumption DEF TypeOK, Content
  <2> QED BY <2>1 DEF Pin
<1> HIDE DEF pin, mark, shared
<1>5. /\ new \in Row /\ new.st = old.st /\ new.members = old.members /\ new.owner = old.owner
      /\ new.pins = old.pins \cup {pin} /\ new.ann = old.ann /\ new.annBy = old.annBy
  BY <1>3, <1>4 DEF Row
<1>6. /\ t \in Row /\ t.st = row.st /\ t.members = row.members /\ t.owner = row.owner
      /\ t.pins = row.pins \cup {mark} /\ t.ann = row.ann /\ t.annBy = row.annBy
  BY <1>3, <1>4 DEF Row
<1> HIDE DEF new, t
<1>7. \A p \in old.pins : p.mid # m
  BY <1>1 DEF PinIds
<1>8. /\ after \in History /\ after.shared = (IF shared THEN hist.shared \cup {m} ELSE hist.shared)
      /\ after.lost = hist.lost /\ after.cut = hist.cut
      /\ after.failed = hist.failed /\ after.untold = hist.untold
  BY <1>2 DEF TypeOK, History
<1> HIDE DEF after
<1>9. /\ <<post>> \in Seq(Event) /\ \A i \in DOMAIN <<post>> : About(g, <<post>>[i])
      /\ \A u \in cache.users : Tells(u, g, <<post>>, old, new)
  <2>1. new.pins = {p \in old.pins : p.mid # m} \cup {pin} /\ {pin} \subseteq Pin
    BY <1>4, <1>5, <1>7
  <2> QED BY <1>1, <1>5, <2>1, TellsPin
<1> HIDE DEF post
<1>10. RowStands(t, new, table.users) /\ RowStands(t, old, table.users)
  BY <1>1, <1>3, <1>4, <1>5, <1>6 DEF RowStands
<1>11. ASSUME g \notin hist.cut PROVE RowAgrees(g, t, new, table.users, hist.lost, hist.failed)
  <2>1. SameFields(row, old, table.users) /\ SamePins(g, row, old, table.users, hist.lost, hist.failed)
    BY <1>1, <1>3, <1>11 DEF RowAgrees
  <2>2. SameFields(t, new, table.users)
    BY <1>5, <1>6, <2>1 DEF SameFields
  <2>3. SamePins(g, t, new, table.users, hist.lost, hist.failed)
    BY <1>4, <1>5, <1>6, <2>1 DEF SamePins
  <2> QED BY <1>1, <1>5, <2>2, <2>3 DEF RowAgrees
<1>12. Served(g, t, new, <<post>>, after)
  BY <1>5, <1>6, <1>8, <1>9, <1>10, <1>11 DEF Served
<1>13. PinsWritten(new)
  BY <1>1, <1>2, <1>4, <1>5 DEF TypeOK, PinsWritten
<1>14. UNCHANGED <<merged, queue, worker>>
  BY <1>1 DEF Serve
<1>15. ASSUME cache' = [cache EXCEPT !.groups[g] = new], hist' = after PROVE PinsStand'
  <2>1. cache'.groups[g].pins = old.pins \cup {pin} /\ \A h \in Gids \ {g} : cache'.groups[h] = cache.groups[h]
    <3>1. cache \in Store
      BY <1>2 DEF TypeOK
    <3> QED BY <1>5, <1>15, <3>1, StoreWrite
  <2>2. \A x : OnItsWay(x) => OnItsWay(x)'
    BY <1>14 DEF OnItsWay
  <2>3. \A h \in Gids : \A p, q \in cache'.groups[h].pins : p.mid = q.mid => p = q
    <3>1. \A p, q \in cache'.groups[g].pins : p.mid = q.mid => p = q
      BY <1>2, <1>4, <1>7, <2>1 DEF PinsStand
    <3> QED BY <1>2, <2>1, <3>1 DEF PinsStand
  <2>4. ASSUME NEW h \in Gids \ {g}, NEW p \in cache'.groups[h].pins, p.mid = m PROVE m \in hist'.shared
    <3>1. m \in PinIds(cache.groups[h])
      BY <2>1, <2>4 DEF PinIds
    <3> QED BY <1>8, <1>15, <3>1 DEF shared
  <2>5. hist.shared \subseteq hist'.shared
    BY <1>8, <1>15
  <2>6. \A h, k \in Gids : \A p \in cache'.groups[h].pins, q \in cache'.groups[k].pins :
            h # k /\ p.mid = q.mid => p.mid \in hist'.shared
    <3> SUFFICES ASSUME NEW h \in Gids, NEW k \in Gids, NEW p \in cache'.groups[h].pins,
                        NEW q \in cache'.groups[k].pins, h # k, p.mid = q.mid
                 PROVE  p.mid \in hist'.shared
      OBVIOUS
    <3>1. CASE h = g /\ p = pin
      BY <1>4, <2>4, <3>1
    <3>2. CASE k = g /\ q = pin
      BY <1>4, <2>4, <3>2
    <3>3. CASE ~(h = g /\ p = pin) /\ ~(k = g /\ q = pin)
      <4>1. p \in cache.groups[h].pins /\ q \in cache.groups[k].pins
        BY <2>1, <3>3
      <4> QED BY <1>2, <2>5, <4>1 DEF PinsStand
    <3> QED BY <3>1, <3>2, <3>3
  <2>7. \A h \in Gids : \A p \in cache'.groups[h].pins :
            p.mid \notin hist'.shared /\ merged'[p.mid] # 0 => p.content = merged'[p.mid] \/ OnItsWay(p.mid)'
    <3> SUFFICES ASSUME NEW h \in Gids, NEW p \in cache'.groups[h].pins, p.mid \notin hist'.shared, merged'[p.mid] # 0
                 PROVE  p.content = merged'[p.mid] \/ OnItsWay(p.mid)'
      OBVIOUS
    <3>1. CASE h = g /\ p = pin
      BY <1>1, <1>4, <1>14, <3>1
    <3>2. CASE ~(h = g /\ p = pin)
      <4>1. p \in cache.groups[h].pins
        BY <2>1, <3>2
      <4> QED BY <1>2, <1>14, <2>2, <2>5, <4>1 DEF PinsStand
    <3> QED BY <3>1, <3>2
  <2> QED BY <1>2, <1>14, <2>3, <2>6, <2>7 DEF PinsStand
<1>16. ASSUME cache' = cache, hist' = [hist EXCEPT !.cut = IF t = table.groups[g] THEN @ ELSE @ \cup {g}]
       PROVE  PinsStand'
  <2>1. hist'.shared = hist.shared
    BY <1>2, <1>16 DEF TypeOK
  <2> QED BY <1>2, <1>14, <1>16, <2>1, PinsKept
<1>17. PinsStand'
  BY <1>1, <1>15, <1>16 DEF Serve
<1> QED BY <1>1, <1>3, <1>12, <1>13, <1>17, ServePinsKeeps

\* A copy, in the least group that pins the message or in none, keeps the pins right.
LEMMA PinsCopied ==
  ASSUME PinsStand, NEW m, worker.mid = m, worker # Idle, worker' = Idle, UNCHANGED <<merged, queue>>,
         hist'.shared = hist.shared, NEW g \in Gids, NEW old \in cache.groups[g].pins, old.mid = m,
         \A h \in Gids \ {g} : cache'.groups[h] = cache.groups[h],
         NEW news, \A p \in news : p.mid = m /\ p.content = worker.content, \A p, q \in news : p = q,
         cache'.groups[g].pins = {p \in cache.groups[g].pins : p.mid # m} \cup news
  PROVE  PinsStand'
<1>1. \A x : x # m /\ OnItsWay(x) => OnItsWay(x)'
  BY DEF OnItsWay
<1>2. \A h \in Gids \ {g} : \A p \in cache.groups[h].pins : p.mid = m => m \in hist.shared
  BY DEF PinsStand
<1>3. \A h \in Gids : \A p \in cache'.groups[h].pins : p \in cache.groups[h].pins \/ (h = g /\ p \in news)
  OBVIOUS
<1>4. \A h \in Gids : \A p, q \in cache'.groups[h].pins : p.mid = q.mid => p = q
  <2>1. \A p, q \in cache'.groups[g].pins : p.mid = q.mid => p = q
    BY DEF PinsStand
  <2> QED BY <2>1 DEF PinsStand
<1>5. ASSUME NEW h \in Gids, NEW k \in Gids, NEW p \in cache'.groups[h].pins,
             NEW q \in cache'.groups[k].pins, h # k, p.mid = q.mid
      PROVE  p.mid \in hist'.shared
  <2>1. CASE p.mid = m
    <3>1. \E l \in Gids \ {g} : \E r \in cache.groups[l].pins : r.mid = m
      BY <1>5, <2>1
    <3> QED BY <1>2, <2>1, <3>1
  <2>2. CASE p.mid # m
    <3>1. p \in cache.groups[h].pins /\ q \in cache.groups[k].pins
      BY <1>3, <1>5, <2>2
    <3> QED BY <1>5, <3>1 DEF PinsStand
  <2> QED BY <2>1, <2>2
<1>6. ASSUME NEW h \in Gids, NEW p \in cache'.groups[h].pins, p.mid \notin hist'.shared, merged'[p.mid] # 0
      PROVE  p.content = merged'[p.mid] \/ OnItsWay(p.mid)'
  <2>1. CASE p.mid = m
    <3>1. h = g
      BY <1>2, <1>6, <2>1
    <3>2. p.content = worker.content
      BY <2>1, <3>1
    <3>3. merged[m] = worker.content \/ \E i \in DOMAIN queue : queue[i] = m
      BY <1>6, <2>1 DEF PinsStand
    <3>4. (\E i \in DOMAIN queue : queue[i] = m) => OnItsWay(m)'
      BY DEF OnItsWay
    <3> QED BY <2>1, <3>2, <3>3, <3>4
  <2>2. CASE p.mid # m
    <3>1. p \in cache.groups[h].pins
      BY <1>3, <2>2
    <3>2. p.content = merged[p.mid] \/ OnItsWay(p.mid)
      BY <1>6, <3>1 DEF PinsStand
    <3> QED BY <1>1, <2>2, <3>2
  <2> QED BY <2>1, <2>2
<1> QED BY <1>4, <1>5, <1>6 DEF PinsStand

\* A set of groups has a least one.
LEMMA LeastGroup ==
  ASSUME NEW S, S \subseteq Gids, S # {}
  PROVE  LET g == CHOOSE x \in S : \A y \in S : x <= y IN g \in S /\ \A y \in S : g <= y
<1>1. S \subseteq Nat
  BY GroupsAssumption DEF Gids
<1>2. PICK x \in S : \A y \in S : ~(y < x)
  <2>1. IsWellFoundedOn(OpToRel(<, Nat), Nat)
    BY NatLessThanWellFounded
  <2>2. PICK x \in S : \A y \in S : ~(<<y, x>> \in OpToRel(<, Nat))
    BY <1>1, <2>1, WFMin
  <2> QED BY <1>1, <2>2 DEF OpToRel
<1>3. \A y \in S : x <= y
  BY <1>1, <1>2
<1> QED BY <1>3

\* process_msg_updated keeps the invariant when it copies what it read into a pin.
LEMMA CopyMergedKeeps ==
  ASSUME GroupsInv, CopyMerged
  PROVE  GroupsInv'
<1> PICK m : m = worker.mid
  OBVIOUS
<1> PICK pinning : pinning = {g \in Gids : m \in PinIds(cache.groups[g])}
  OBVIOUS
<1>1. TypeOK /\ StoresStand /\ RowsAgree /\ PinsStand /\ AppsFollow
  BY DEF GroupsInv
<1>2. worker # Idle /\ worker' = Idle /\ UNCHANGED <<born, merged, queue, used>>
  BY DEF CopyMerged
<1>3. worker \in [mid : Mids, content : Content] /\ m \in Mids
  BY <1>1, <1>2 DEF TypeOK
<1>4. CASE pinning = {}
  <2>1. UNCHANGED <<table, cache, mirror, hist>>
    BY <1>4 DEF CopyMerged
  <2>2. TypeOK'
    BY <1>1, <1>2, <2>1 DEF TypeOK
  <2>3. \A g \in Gids : \A p \in cache.groups[g].pins : p.mid # m
    BY <1>4 DEF PinIds
  <2>4. \A x : x # m /\ OnItsWay(x) => OnItsWay(x)'
    BY <1>2 DEF OnItsWay
  <2>5. PinsStand'
    BY <1>1, <1>2, <2>1, <2>3, <2>4 DEF PinsStand
  <2>6. StoresStand' /\ RowsAgree'
    BY <1>1, <1>2, <2>1, StoresSame
  <2>7. AppsFollow'
    BY <1>1, <2>1, AppsSame
  <2> QED BY <2>2, <2>5, <2>6, <2>7 DEF GroupsInv
<1>5. CASE pinning # {}
  <2> DEFINE g == CHOOSE x \in pinning : \A y \in pinning : x <= y
             old == CHOOSE p \in cache.groups[g].pins : p.mid = m
             new == [old EXCEPT !.content = worker.content]
             news == IF worker.content = 0 THEN {} ELSE {new}
             c == [cache.groups[g] EXCEPT !.pins = {p \in cache.groups[g].pins : p.mid # m} \cup news]
             t == Unpinned(table.groups[g], m)
             post == PostPin(Audience(g), g, m, news)
  <2>1. g \in Gids /\ m \in PinIds(cache.groups[g])
    <3>1. pinning \subseteq Gids
      OBVIOUS
    <3> QED BY <1>5, <3>1, LeastGroup
  <2>2. old \in cache.groups[g].pins /\ old.mid = m
    <3> HIDE DEF g
    <3> QED BY <2>1 DEF PinIds
  <2>3. \/ /\ worker.content # 0 /\ cache' = [cache EXCEPT !.groups[g].pins = (@ \ {old}) \cup {new}]
           /\ Broadcast(<<PostPin(Audience(g), g, m, {new})>>) /\ UNCHANGED <<table, hist>>
        \/ /\ worker.content = 0 /\ cache' = [cache EXCEPT !.groups[g] = Unpinned(@, m)]
           /\ \/ table' = [table EXCEPT !.groups[g] = Unpinned(@, m)] /\ UNCHANGED hist
              \/ UNCHANGED table /\ hist' = [hist EXCEPT !.failed = TRUE]
           /\ Broadcast(<<PostPin(Audience(g), g, m, {})>>)
    <3> DEFINE mm == worker.mid
               pp == {h \in Gids : mm \in PinIds(cache.groups[h])}
               gg == CHOOSE x \in pp : \A y \in pp : x <= y
               oo == CHOOSE p \in cache.groups[gg].pins : p.mid = mm
               nn == [oo EXCEPT !.content = worker.content]
    <3>1. mm = m /\ pp = pinning
      OBVIOUS
    <3>2. IF worker.content # 0
          THEN /\ cache' = [cache EXCEPT !.groups[gg].pins = (@ \ {oo}) \cup {nn}]
               /\ Broadcast(<<PostPin(Audience(gg), gg, mm, {nn})>>)
               /\ UNCHANGED <<table, hist>>
          ELSE /\ cache' = [cache EXCEPT !.groups[gg] = Unpinned(@, mm)]
               /\ \/ table' = [table EXCEPT !.groups[gg] = Unpinned(@, mm)] /\ UNCHANGED hist
                  \/ UNCHANGED table /\ hist' = [hist EXCEPT !.failed = TRUE]
               /\ Broadcast(<<PostPin(Audience(gg), gg, mm, {})>>)
      <4>1. pp # {}
        BY <1>5, <3>1
      <4> QED BY <4>1, Zenon DEF CopyMerged
    <3> HIDE DEF mm, pp
    <3>3. gg = g
      BY <3>1
    <3> HIDE DEF gg
    <3>4. oo = old
      <4> HIDE DEF g
      <4> QED BY <3>1, <3>3
    <3> HIDE DEF oo, g, old
    <3>5. nn = new
      BY <3>4
    <3> HIDE DEF nn, new
    <3> QED BY <3>1, <3>2, <3>3, <3>4, <3>5, Zenon
  <2> HIDE DEF g, old
  <2>4. cache.groups[g] \in Row /\ table.groups[g] \in Row /\ cache \in Store /\ table \in Store
    BY <1>1, <2>1, StoreTypes DEF TypeOK
  <2>5. /\ old \in Pin /\ new \in Pin /\ new.mid = m /\ new.by = old.by /\ new.content = worker.content
        /\ news \subseteq Pin
    BY <1>3, <2>2, <2>4 DEF Row, Pin
  <2> HIDE DEF new
  <2>6. {p \in cache.groups[g].pins : p.mid # m} = cache.groups[g].pins \ {old}
    BY <1>1, <2>1, <2>2 DEF PinsStand
  <2>7. cache' = Write(cache, g, c) /\ Broadcast(<<post>>)
    <3>1. CASE worker.content # 0
      <4>1. /\ cache' = [cache EXCEPT !.groups[g].pins = (@ \ {old}) \cup {new}]
            /\ Broadcast(<<PostPin(Audience(g), g, m, {new})>>)
        BY <2>3, <3>1
      <4>2. news = {new} /\ c = [cache.groups[g] EXCEPT !.pins = (@ \ {old}) \cup {new}]
        BY <2>6, <3>1
      <4> HIDE DEF news, c
      <4> QED BY <4>1, <4>2, Zenon DEF Write
    <3>2. CASE worker.content = 0
      <4>1. /\ cache' = [cache EXCEPT !.groups[g] = Unpinned(@, m)]
            /\ Broadcast(<<PostPin(Audience(g), g, m, {})>>)
        BY <2>3, <3>2
      <4>2. news = {} /\ c = Unpinned(cache.groups[g], m)
        BY <3>2 DEF Unpinned
      <4> HIDE DEF news, c
      <4> QED BY <4>1, <4>2, Zenon DEF Write
    <3> QED BY <3>1, <3>2
  <2>8. table' \in {table, Write(table, g, t)}
    BY <2>3, Zenon DEF Write
  <2>21. worker.content # 0 => table' = table
    BY <2>3
  <2>9. /\ c \in Row /\ c.st = cache.groups[g].st /\ c.owner = cache.groups[g].owner
        /\ c.members = cache.groups[g].members /\ c.ann = cache.groups[g].ann /\ c.annBy = cache.groups[g].annBy
        /\ c.pins = {p \in cache.groups[g].pins : p.mid # m} \cup news
    <3> HIDE DEF news
    <3> QED BY <2>4, <2>5 DEF Row
  <2>10. /\ t \in Row /\ t.st = table.groups[g].st /\ t.owner = table.groups[g].owner
         /\ t.members = table.groups[g].members /\ t.ann = table.groups[g].ann /\ t.annBy = table.groups[g].annBy
         /\ t.pins = {p \in table.groups[g].pins : p.mid # m}
    BY <2>4 DEF Row, Unpinned
  <2> HIDE DEF c, t
  <2>11. Exists(cache, g)
    <3>1. RowStands(table.groups[g], cache.groups[g], table.users)
      BY <1>1, <2>1 DEF StoresStand
    <3> QED BY <2>2, <3>1 DEF RowStands, Exists
  <2>12. /\ table.users \subseteq cache.users /\ born \in Nat /\ g <= born
         /\ RowStands(table.groups[g], cache.groups[g], table.users)
         /\ g \notin hist.cut =>
                RowAgrees(g, table.groups[g], cache.groups[g], table.users, hist.lost, hist.failed)
    BY <2>1, <2>11, HandlerStarts
  <2>13. /\ <<post>> \in Seq(Event) /\ \A i \in DOMAIN <<post>> : About(g, <<post>>[i])
         /\ \A u \in cache.users : Tells(u, g, <<post>>, cache.groups[g], c)
    BY <1>3, <2>1, <2>5, <2>9, <2>11, TellsPin
  <2>14. /\ hist'.shared = hist.shared /\ hist'.lost = hist.lost /\ hist'.cut = hist.cut
         /\ hist'.untold = hist.untold /\ (hist.failed => hist'.failed)
         /\ hist'.failed \/ table' = (IF worker.content = 0 THEN Write(table, g, t) ELSE table)
         /\ hist' \in History
    <3>1. \/ hist' = hist /\ table' = (IF worker.content = 0 THEN Write(table, g, t) ELSE table)
          \/ hist' = [hist EXCEPT !.failed = TRUE]
      BY <2>3, Zenon DEF Write, t
    <3>2. hist \in History
      BY <1>1 DEF TypeOK, History
    <3> QED BY <3>1, <3>2 DEF History
  <2> HIDE DEF post
  <2>15. PinsWritten(c)
    <3>1. \A p \in cache.groups[g].pins : p.content # 0
      BY <1>1, <2>1 DEF TypeOK
    <3>2. \A p \in news : p.content # 0
      BY <2>5
    <3> QED BY <2>9, <3>1, <3>2 DEF PinsWritten
  <2> HIDE DEF news
  <2>16. TypeOK' /\ OnlyGroup(g) /\ cache'.groups[g] = c
    <3>1. /\ merged' \in [Mids -> Content] /\ born' = born /\ queue' = queue /\ worker' \in {worker, Idle}
          /\ used' \in [requests : Nat, troubles : Nat]
      BY <1>1, <1>2 DEF TypeOK
    <3>2. c \in Row /\ t \in Row /\ <<post>> \in Seq(Event)
      BY <2>9, <2>10, <2>13
    <3> QED BY <1>1, <2>1, <2>7, <2>8, <2>14, <2>15, <3>1, <3>2, StepType
  <2>17. /\ table'.users = table.users /\ table'.groups[g] \in {table.groups[g], t}
         /\ hist'.failed \/ table'.groups[g] = IF worker.content = 0 THEN t ELSE table.groups[g]
    <3>1. Write(table, g, t).users = table.users /\ Write(table, g, t).groups[g] = t
      <4>1. g \in Gids /\ t \in Row /\ table \in Store
        BY <2>1, <2>4, <2>10
      <4> PICK r : r = t
        OBVIOUS
      <4> PICK h : h = g
        OBVIOUS
      <4> PICK w : w = [table EXCEPT !.groups[h] = r]
        OBVIOUS
      <4>2. w.users = table.users /\ w.groups[h] = r
        BY <4>1, StoreWrite
      <4> QED BY <4>2, Zenon DEF Write
    <3> QED BY <2>8, <2>14, <3>1
  <2>18. StoresStand' /\ RowsAgree'
    <3> PICK r : r = table'.groups[g]
      OBVIOUS
    <3> PICK row : row = table.groups[g]
      OBVIOUS
    <3> PICK was : was = cache.groups[g]
      OBVIOUS
    <3>1. /\ r.st = row.st /\ r.owner = row.owner /\ r.members = row.members /\ r.ann = row.ann
          /\ r.annBy = row.annBy /\ r.pins \subseteq row.pins
      BY <2>10, <2>17
    <3>2. \A p \in row.pins : p.mid # m => p \in r.pins
      BY <2>10, <2>17
    <3>3. hist'.failed \/ r.pins = IF worker.content = 0 THEN {p \in row.pins : p.mid # m} ELSE row.pins
      BY <2>10, <2>17
    <3>9. worker.content # 0 => r = row
      BY <2>21
    <3>10. r = table'.groups[g] /\ c = cache'.groups[g] /\ table.users = table'.users
      BY <2>16, <2>17
    <3>4. RowStands(r, c, table.users)
      BY <2>9, <2>11, <2>12, <3>1 DEF RowStands, Exists
    <3>5. ASSUME g \notin hist.cut PROVE RowAgrees(g, r, c, table.users, hist'.lost, hist'.failed)
      <4>1. SameFields(row, was, table.users) /\ SamePins(g, row, was, table.users, hist.lost, hist.failed)
        BY <2>11, <2>12, <3>5 DEF RowAgrees, Exists
      <4>2. SameFields(r, c, table.users)
        BY <2>9, <3>1, <4>1 DEF SameFields
      <4>3. SamePins(g, r, c, table.users, hist'.lost, hist'.failed)
        <5>1. ASSUME NEW p \in c.pins, p.by \in table.users PROVE \E q \in r.pins : q.mid = p.mid /\ q.by = p.by
          <6>1. CASE p.mid # m
            <7>1. p \in was.pins
              BY <2>5, <2>9, <6>1 DEF news
            <7>2. PICK q \in row.pins : q.mid = p.mid /\ q.by = p.by
              BY <4>1, <5>1, <7>1 DEF SamePins
            <7> QED BY <3>2, <6>1, <7>2
          <6>2. CASE p.mid = m
            <7>1. worker.content # 0 /\ p.by = old.by
              BY <2>5, <2>9, <6>2 DEF news
            <7>2. PICK q \in row.pins : q.mid = m /\ q.by = p.by
              BY <2>2, <4>1, <5>1, <7>1 DEF SamePins
            <7>3. q \in r.pins
              BY <3>9, <7>1, <7>2
            <7> QED BY <6>2, <7>2, <7>3
          <6> QED BY <6>1, <6>2
        <5>2. ASSUME ~hist'.failed, NEW q \in r.pins
              PROVE  <<g, q.mid>> \in hist'.lost \/ \E p \in c.pins : p.mid = q.mid /\ p.by = q.by
          <6>1. q \in row.pins /\ ~hist.failed
            BY <2>14, <3>1, <5>2
          <6>2. <<g, q.mid>> \in hist'.lost \/ \E p \in was.pins : p.mid = q.mid /\ p.by = q.by
            BY <2>14, <4>1, <6>1 DEF SamePins
          <6>3. ASSUME NEW p \in was.pins, p.mid = q.mid, p.by = q.by
                PROVE  \E x \in c.pins : x.mid = q.mid /\ x.by = q.by
            <7>1. CASE p.mid # m
              BY <2>9, <6>3, <7>1
            <7>2. CASE p.mid = m
              <8>1. p = old /\ worker.content # 0
                <9>1. p = old
                  BY <1>1, <2>1, <2>2, <7>2 DEF PinsStand
                <9>2. worker.content # 0
                  BY <3>3, <5>2, <6>3, <7>2
                <9> QED BY <9>1, <9>2
              <8>2. new \in c.pins
                BY <2>9, <8>1 DEF news
              <8> QED BY <2>5, <6>3, <7>2, <8>1, <8>2
            <7> QED BY <7>1, <7>2
          <6> QED BY <6>2, <6>3
        <5> QED BY <5>1, <5>2 DEF SamePins
      <4> QED BY <2>9, <2>11, <4>2, <4>3 DEF RowAgrees, Exists
    <3>6. RowStands(table.groups[g], cache.groups[g], table.users)'
      BY <3>4, <3>10
    <3>7. g \notin hist'.cut =>
              RowAgrees(g, table.groups[g], cache.groups[g], table.users, hist.lost, hist.failed)'
      BY <2>14, <3>5, <3>10
    <3>8. hist.cut \subseteq hist'.cut /\ born' \in Nat /\ born <= born' /\ g <= born'
      BY <1>2, <2>12, <2>14
    <3> QED BY <1>1, <2>1, <2>12, <2>14, <2>16, <3>6, <3>7, <3>8, StoresKept
  <2>19. PinsStand'
    <3>1. \A p \in news : p.mid = m /\ p.content = worker.content
      BY <2>5 DEF news
    <3>2. \A p, q \in news : p = q
      BY DEF news
    <3>3. \A h \in Gids \ {g} : cache'.groups[h] = cache.groups[h]
      BY <2>16 DEF OnlyGroup
    <3>4. cache'.groups[g].pins = {p \in cache.groups[g].pins : p.mid # m} \cup news
      BY <2>9, <2>16
    <3> QED BY <1>1, <1>2, <2>1, <2>2, <2>14, <3>1, <3>2, <3>3, <3>4, PinsCopied
  <2>20. AppsFollow'
    BY <1>1, <2>1, <2>7, <2>13, <2>14, <2>16, AppsTold
  <2> QED BY <2>16, <2>18, <2>19, <2>20 DEF GroupsInv
<1> QED BY <1>4, <1>5

----------------------------------------------------------------------------
\* Clearing a group.

\* Merged messages that stay or go leave the pins right.
LEMMA PinsCleared ==
  ASSUME TypeOK, PinsStand, UNCHANGED <<queue, worker>>, hist.shared \subseteq hist'.shared,
         \A m \in Mids : merged'[m] \in {0, merged[m]},
         \A g \in Gids : cache'.groups[g].pins \subseteq cache.groups[g].pins
  PROVE  PinsStand'
<1>1. \A m \in Mids : merged'[m] = merged[m] /\ OnItsWay(m) => OnItsWay(m)'
  BY DEF OnItsWay
<1>2. \A g \in Gids : \A p, q \in cache'.groups[g].pins : p.mid = q.mid => p = q
  BY DEF PinsStand
<1>3. \A g, h \in Gids : \A p \in cache'.groups[g].pins, q \in cache'.groups[h].pins :
          g # h /\ p.mid = q.mid => p.mid \in hist'.shared
  BY DEF PinsStand
<1>4. ASSUME NEW g \in Gids, NEW p \in cache'.groups[g].pins,
             p.mid \notin hist'.shared, merged'[p.mid] # 0
      PROVE  p.content = merged'[p.mid] \/ OnItsWay(p.mid)'
  <2>1. p \in cache.groups[g].pins /\ p.mid \in Mids
    BY StoreTypes DEF Row, Pin
  <2>2. merged'[p.mid] = merged[p.mid]
    BY <1>4, <2>1
  <2>3. p.content = merged[p.mid] \/ OnItsWay(p.mid)
    BY <1>4, <2>1, <2>2 DEF PinsStand
  <2> QED BY <1>1, <2>1, <2>2, <2>3
<1>5. worker' # Idle /\ merged'[worker'.mid] \notin {0, worker'.content} =>
          \E i \in DOMAIN queue' : queue'[i] = worker'.mid
  <2>1. worker # Idle => worker.mid \in Mids
    BY DEF TypeOK
  <2> QED BY <2>1 DEF PinsStand
<1> QED BY <1>2, <1>3, <1>4, <1>5 DEF PinsStand

\* Rows with the same fields are the same.
LEMMA RowEquals ==
  ASSUME NEW r \in Row, NEW s \in Row, r.st = s.st, r.owner = s.owner, r.members = s.members,
         r.pins = s.pins, r.ann = s.ann, r.annBy = s.annBy
  PROVE  r = s
  BY DEF Row

\* An app that is told of the removal of each pin shows none.
LEMMA LeadsUnpinned ==
  ASSUME NEW u \in Users, NEW g \in Gids, NEW to, to \subseteq Users, u \in to,
         NEW n \in Nat, NEW order \in [1..n -> Mids], NEW y \in Row, y.st # "none",
         \A p \in y.pins : \E i \in 1..n : p.mid = order[i],
         NEW posts \in Seq(Event), Len(posts) = n,
         \A i \in 1..n : posts[i] = PostPin(to, g, order[i], {}),
         NEW row, Similar([y EXCEPT !.pins = {}], row)
  PROVE  Leads(u, g, y, posts, row)
<1> DEFINE h == [i \in 0..n |-> [y EXCEPT !.pins = {p \in y.pins : \A k \in 1..i : p.mid # order[k]}]]
<1>1. ASSUME NEW i \in 0..n
      PROVE  /\ h[i] \in Row /\ h[i].st = y.st /\ h[i].owner = y.owner /\ h[i].members = y.members
             /\ h[i].ann = y.ann /\ h[i].annBy = y.annBy
             /\ h[i].pins = {p \in y.pins : \A k \in 1..i : p.mid # order[k]}
  <2> DEFINE left == {p \in y.pins : \A k \in 1..i : p.mid # order[k]}
  <2>1. h[i] = [y EXCEPT !.pins = left]
    OBVIOUS
  <2>2. left \subseteq y.pins
    OBVIOUS
  <2> HIDE DEF h, left
  <2>3. left \subseteq Pin
    BY <2>2 DEF Row
  <2>4. /\ h[i] \in Row /\ h[i].st = y.st /\ h[i].owner = y.owner /\ h[i].members = y.members
        /\ h[i].ann = y.ann /\ h[i].annBy = y.annBy /\ h[i].pins = left
    BY <2>1, <2>3 DEF Row
  <2> QED BY <2>4 DEF left
<1>2. h \in [0..n -> Row]
  <2>1. DOMAIN h = 0..n /\ h = [i \in 0..n |-> h[i]]
    OBVIOUS
  <2> HIDE DEF h
  <2> QED BY <1>1, <2>1
<1> HIDE DEF h
<1>3. h[0] = y
  <2>1. 0 \in 0..n /\ \A k \in 1..0 : FALSE
    OBVIOUS
  <2>2. h[0].pins = y.pins
    <3>1. h[0].pins = {p \in y.pins : \A k \in 1..0 : p.mid # order[k]}
      BY <1>1, <2>1
    <3> QED BY <2>1, <3>1
  <2> QED BY <1>1, <2>1, <2>2, RowEquals
<1>4. ASSUME NEW i \in 1..n PROVE h[i] = ShownAfter(h[i - 1], u, g, posts[i])
  <2> PICK x \in Row : x = h[i - 1]
    BY <1>2
  <2> PICK e : e = posts[i]
    OBVIOUS
  <2>1. e \in Event /\ e.kind = "pin" /\ e.to = to /\ e.gid = g /\ e.mid = order[i] /\ e.row.pins = {}
    <3>1. order[i] \in Mids /\ {} \subseteq Pin /\ e = PostPin(to, g, order[i], {})
      OBVIOUS
    <3> QED BY <3>1, PostPinIs
  <2>2. i - 1 \in 0..n /\ i \in 0..n /\ \A k \in Int : k \in 1..i <=> k \in 1..(i - 1) \/ k = i
    OBVIOUS
  <2>3. /\ x.st = y.st /\ x.owner = y.owner /\ x.members = y.members
        /\ x.ann = y.ann /\ x.annBy = y.annBy
        /\ x.pins = {p \in y.pins : \A k \in 1..(i - 1) : p.mid # order[k]}
    BY <1>1, <2>2
  <2> PICK s : s = Shown(x, u, e)
    OBVIOUS
  <2>4. /\ s.st = x.st /\ s.owner = x.owner /\ s.members = x.members /\ s.ann = x.ann /\ s.annBy = x.annBy
        /\ s.pins = {p \in x.pins : p.mid # e.mid} \cup e.row.pins
    BY SMTT(30), <2>1, <2>3, ShownPins
  <2>5. s.pins = h[i].pins
    <3>1. h[i].pins = {p \in y.pins : \A k \in 1..i : p.mid # order[k]}
      BY <1>1, <2>2
    <3>2. s.pins = {p \in x.pins : p.mid # order[i]}
      BY <2>1, <2>4
    <3>3. ASSUME NEW p PROVE p \in s.pins <=> p \in h[i].pins
      <4>1. (\A k \in 1..i : p.mid # order[k]) <=> (\A k \in 1..(i - 1) : p.mid # order[k]) /\ p.mid # order[i]
        BY <2>2
      <4> QED BY <2>3, <3>1, <3>2, <4>1
    <3> QED BY <3>3
  <2>6. s \in Row /\ h[i] \in Row
    BY <1>1, <2>1, <2>2, ShownType
  <2>7. /\ h[i].st = s.st /\ h[i].owner = s.owner /\ h[i].members = s.members
        /\ h[i].ann = s.ann /\ h[i].annBy = s.annBy
    BY <1>1, <2>2, <2>3, <2>4
  <2>8. s = h[i]
    BY <2>5, <2>6, <2>7, RowEquals
  <2> QED BY <2>1, <2>8 DEF ShownAfter, For
<1>5. Similar(h[n], row)
  <2>1. h[n].pins = {}
    <3>1. h[n].pins = {p \in y.pins : \A k \in 1..n : p.mid # order[k]}
      BY <1>1
    <3> QED BY <3>1
  <2> PICK z : z = [y EXCEPT !.pins = {}]
    OBVIOUS
  <2>2. /\ z \in Row /\ z.st = y.st /\ z.owner = y.owner /\ z.members = y.members
        /\ z.ann = y.ann /\ z.annBy = y.annBy /\ z.pins = {}
    BY DEF Row
  <2>3. n \in 0..n
    OBVIOUS
  <2>4. h[n] = z
    <3> PICK w : w = h[n]
      OBVIOUS
    <3>1. /\ w \in Row /\ w.st = z.st /\ w.owner = z.owner /\ w.members = z.members
          /\ w.ann = z.ann /\ w.annBy = z.annBy /\ w.pins = z.pins
      BY <1>1, <2>1, <2>2, <2>3
    <3> QED BY <2>2, <3>1, RowEquals
  <2> QED BY <2>4, Zenon
<1>6. Path(u, g, posts, 0, h)
  BY <1>2, <1>4 DEF Path
<1> QED BY <1>2, <1>3, <1>5, <1>6 DEF Leads

\* A row without its pins and its announcement.
LEMMA ClearedIs ==
  ASSUME NEW x \in Row
  PROVE  LET c == Silent([x EXCEPT !.pins = {}]) IN
         /\ c \in Row /\ c.st = x.st /\ c.owner = x.owner /\ c.members = x.members
         /\ c.pins = {} /\ c.ann = 0 /\ c.annBy = Nobody
<1> PICK y : y = [x EXCEPT !.pins = {}]
  OBVIOUS
<1>1. /\ y \in Row /\ y.st = x.st /\ y.owner = x.owner /\ y.members = x.members /\ y.pins = {}
  BY DEF Row
<1> QED BY <1>1, SilentIs

\* What a clear posts of pins and of the announcement.
Unpins(g, n, order) == [i \in 1..n |-> PostPin(Audience(g), g, order[i], {})]
Silence(g) == IF cache.groups[g].ann = 0 THEN <<>> ELSE <<PostRow("announcement", Users, g, NoGroup)>>

\* The posts of a clear tell of the pins, in any order, and of the announcement.
LEMMA TellsCleared ==
  ASSUME GroupsInv, NEW g \in Gids, Exists(cache, g), NEW n \in Nat, NEW order \in [1..n -> Mids],
         \A p \in cache.groups[g].pins : \E i \in 1..n : p.mid = order[i],
         NEW posts, posts = Unpins(g, n, order),
         NEW silence, silence = Silence(g),
         NEW c \in Row, c.st = cache.groups[g].st, c.owner = cache.groups[g].owner,
         c.members = cache.groups[g].members, c.pins = {}, c.ann = 0, c.annBy = Nobody
  PROVE  /\ posts \o silence \in Seq(Event)
         /\ \A i \in DOMAIN (posts \o silence) : About(g, (posts \o silence)[i])
         /\ \A u \in cache.users : Tells(u, g, posts \o silence, cache.groups[g], c)
<1> PICK old : old = cache.groups[g]
  OBVIOUS
<1> PICK to : to = Audience(g)
  OBVIOUS
<1> PICK bye : bye = PostRow("announcement", Users, g, NoGroup)
  OBVIOUS
<1>1. old \in Row /\ old.st # "none" /\ RowStands(table.groups[g], old, table.users)
  BY HandlerStarts DEF Exists
<1>2. to \subseteq Users /\ cache.users \subseteq Users /\ \A u \in cache.users : Contains(old, u) <=> u \in to
  BY AudienceIs, HandlerStarts
<1>3. ASSUME NEW i \in 1..n
      PROVE  posts[i] \in Event /\ posts[i].kind = "pin" /\ posts[i].to = to /\ posts[i].gid = g
  <2>1. order[i] \in Mids /\ {} \subseteq Pin /\ posts[i] = PostPin(to, g, order[i], {})
    BY DEF Unpins
  <2> QED BY <1>2, <2>1, PostPinIs
<1>4. posts \in Seq(Event) /\ Len(posts) = n /\ DOMAIN posts = 1..n
  <2>1. posts \in [1..n -> Event]
    BY <1>3 DEF Unpins
  <2> QED BY <2>1
<1>5. /\ bye \in Event /\ bye.kind = "announcement" /\ bye.to = Users /\ bye.gid = g /\ bye.row = NoGroup
  <2>1. Users \subseteq Users
    OBVIOUS
  <2> QED BY <2>1, NoGroupRow, PostRowIs
<1>6. silence \in Seq(Event) /\ \A i \in DOMAIN silence : silence[i] = bye
  <2>1. CASE old.ann = 0
    BY <2>1 DEF Silence
  <2>2. CASE old.ann # 0
    <3>1. silence = <<bye>>
      BY <2>2 DEF Silence
    <3> QED BY <1>5, <3>1
  <2> QED BY <2>1, <2>2
<1>7. posts \o silence \in Seq(Event)
  BY <1>4, <1>6, ConcatProperties
<1>8. ASSUME NEW i \in DOMAIN (posts \o silence)
      PROVE  /\ (posts \o silence)[i].kind \in {"pin", "announcement"} /\ (posts \o silence)[i].gid = g
  <2> PICK e : e = (posts \o silence)[i]
    OBVIOUS
  <2>1. (i \in DOMAIN posts /\ e = posts[i]) \/ \E k \in DOMAIN silence : e = silence[k]
    BY <1>4, <1>6, ConcatParts
  <2> QED BY <1>3, <1>4, <1>5, <1>6, <2>1
<1>9. \A i \in DOMAIN (posts \o silence) :
          About(g, (posts \o silence)[i]) /\ \A u : ~Joins(u, g, (posts \o silence)[i])
  BY <1>8 DEF About, Whole, Joins
<1>10. ASSUME NEW u \in cache.users, u \in to, NEW y \in Row, Similar(y, old)
       PROVE  Leads(u, g, y, posts \o silence, c)
  <2> DEFINE mid == [old EXCEPT !.pins = {}]
             bare == [y EXCEPT !.pins = {}]
  <2>1. /\ mid \in Row /\ mid.st = old.st /\ mid.owner = old.owner /\ mid.members = old.members
        /\ mid.pins = {} /\ mid.ann = old.ann /\ mid.annBy = old.annBy
    BY <1>1 DEF Row
  <2>2. /\ bare.st = y.st /\ bare.owner = y.owner /\ bare.members = y.members
        /\ bare.pins = {} /\ bare.ann = y.ann /\ bare.annBy = y.annBy
    BY DEF Row
  <2> HIDE DEF mid
  <2>3. Similar(bare, mid)
    <3> HIDE DEF bare
    <3> QED BY <1>10, <2>1, <2>2 DEF Similar
  <2>4. Leads(u, g, y, posts, mid)
    <3>1. y.st # "none" /\ \A p \in y.pins : \E i \in 1..n : p.mid = order[i]
      BY <1>1, <1>10 DEF Similar
    <3>2. \A i \in 1..n : posts[i] = PostPin(to, g, order[i], {})
      BY DEF Unpins
    <3>3. u \in Users
      BY <1>2
    <3> HIDE DEF bare
    <3>4. Similar([y EXCEPT !.pins = {}], mid)
      BY <2>3, Zenon DEF bare
    <3>5. to \subseteq Users /\ u \in to /\ posts \in Seq(Event) /\ Len(posts) = n
      BY <1>2, <1>4, <1>10
    <3> HIDE DEF mid
    <3> QED BY <3>1, <3>2, <3>3, <3>4, <3>5, LeadsUnpinned
  <2> HIDE DEF bare
  <2>5. ASSUME NEW z \in Row, Similar(z, mid) PROVE Leads(u, g, z, silence, c)
    <3>1. u \in Users
      BY <1>2
    <3>2. CASE old.ann = 0
      <4>1. Similar(z, c)
        BY <1>1, <2>1, <2>5, <3>2 DEF Similar, RowStands
      <4>2. silence = <<>> /\ <<>> \in Seq(Event) /\ \A i \in DOMAIN <<>> : ~For(u, g, <<>>[i])
        BY <3>2 DEF Silence
      <4> QED BY <3>1, <4>1, <4>2, LeadsSame
    <3>3. CASE old.ann # 0
      <4>1. silence = <<bye>>
        BY <3>3 DEF Silence
      <4> PICK s : s = Shown(z, u, bye)
        OBVIOUS
      <4>2. z.st # "none"
        BY <1>1, <2>1, <2>5 DEF Similar
      <4>3. /\ s.st = z.st /\ s.owner = z.owner /\ s.members = z.members /\ s.pins = z.pins
            /\ s.ann = 0 /\ s.annBy = Nobody
        BY <1>5, <3>1, <4>2, ShownAnnouncement DEF NoGroup
      <4>4. Similar(s, c)
        BY <2>1, <2>5, <4>3 DEF Similar
      <4>5. ShownAfter(z, u, g, bye) = s
        BY <1>5, <3>1 DEF ShownAfter, For
      <4> QED BY <1>5, <3>1, <4>1, <4>4, <4>5, LeadsThrough
    <3> QED BY <3>2, <3>3
  <2>6. u \in Users
    BY <1>2
  <2> QED BY <1>4, <1>6, <2>4, <2>5, <2>6, LeadsOn
<1>11. ASSUME NEW u \in cache.users PROVE Tells(u, g, posts \o silence, old, c)
  <2>1. Contains(c, u) <=> Contains(old, u)
    BY DEF Contains
  <2>2. CASE Contains(old, u)
    <3>1. u \in to
      BY <1>2, <2>2
    <3> QED BY <1>10, <2>1, <2>2, <3>1 DEF Tells
  <2>3. CASE ~Contains(old, u)
    BY <1>9, <2>1, <2>3 DEF Tells
  <2> QED BY <2>2, <2>3
<1> QED BY <1>7, <1>9, <1>11

\* A clear keeps the invariant, whether its transaction succeeds or not.
LEMMA ClearKeeps ==
  ASSUME GroupsInv, NEW a \in cache.users, NEW g \in Gids, Clear(a, g)
  PROVE  GroupsInv'
<1> PICK old : old = cache.groups[g]
  OBVIOUS
<1> PICK row : row = table.groups[g]
  OBVIOUS
<1> PICK ids : ids = PinIds(cache.groups[g])
  OBVIOUS
<1> PICK silence : silence = Silence(g)
  OBVIOUS
<1> DEFINE c == Silent([old EXCEPT !.pins = {}])
           t == Silent([row EXCEPT !.pins = {}])
           Posts(order) == [i \in DOMAIN order |-> PostPin(Audience(g), g, order[i], {})]
<1>1. Exists(cache, g) /\ UNCHANGED <<born, queue, worker>>
  BY DEF Clear
<1>2. merged' = [m \in Mids |-> IF GroupOf[m] = g THEN 0 ELSE merged[m]]
  BY Zenon DEF Clear
<1>3. \/ /\ table' = [table EXCEPT !.groups[g] = t] /\ cache' = [cache EXCEPT !.groups[g] = c]
         /\ \E order \in Bijection(1..Cardinality(ids), ids) : Broadcast(Posts(order) \o silence)
         /\ used' = [used EXCEPT !.requests = @ + 1] /\ hist' = hist
      \/ /\ used' = [used EXCEPT !.requests = @ + 1, !.troubles = @ + 1]
         /\ table' \in {table, [table EXCEPT !.groups[g] = t]}
         /\ hist' = [hist EXCEPT !.cut = IF table' = table THEN @ ELSE @ \cup {g}]
         /\ UNCHANGED <<cache, mirror>>
  BY Zenon DEF Clear, Silence
<1> HIDE DEF Posts
<1>4. TypeOK /\ StoresStand /\ RowsAgree /\ PinsStand /\ AppsFollow
  BY DEF GroupsInv
<1>5. /\ row \in Row /\ old \in Row /\ table.users \subseteq cache.users /\ cache.users \subseteq Users
      /\ RowStands(row, old, table.users) /\ born \in Nat /\ born \in born..MaxGroups /\ g <= born
      /\ g \notin hist.cut => RowAgrees(g, row, old, table.users, hist.lost, hist.failed)
  BY <1>1, HandlerStarts
<1>6. merged \in [Mids -> Content] /\ used \in [requests : Nat, troubles : Nat]
  BY <1>4 DEF TypeOK
<1>7. merged' \in [Mids -> Content] /\ \A m \in Mids : merged'[m] \in {0, merged[m]}
  <2>1. 0 \in Content
    BY GroupsAssumption DEF Content
  <2> QED BY <1>2, <1>6, <2>1
<1>8. /\ hist'.shared = hist.shared /\ hist'.untold = hist.untold /\ hist.cut \subseteq hist'.cut
      /\ hist'.lost = hist.lost /\ hist'.failed = hist.failed
      /\ hist' \in History
  <2>1. hist \in History
    BY <1>4 DEF TypeOK, History
  <2>2. CASE hist' = hist
    BY <2>1, <2>2
  <2>3. CASE hist' = [hist EXCEPT !.cut = IF table' = table THEN @ ELSE @ \cup {g}]
    BY <2>1, <2>3 DEF History
  <2> QED BY <1>3, <2>2, <2>3
<1>9. used' \in [requests : Nat, troubles : Nat]
  BY <1>3, <1>6, CountTypes
<1>11. /\ c \in Row /\ c.st = old.st /\ c.owner = old.owner /\ c.members = old.members
       /\ c.pins = {} /\ c.ann = 0 /\ c.annBy = Nobody
       /\ t \in Row /\ t.st = row.st /\ t.owner = row.owner /\ t.members = row.members
       /\ t.pins = {} /\ t.ann = 0 /\ t.annBy = Nobody
  BY <1>5, ClearedIs
<1> HIDE DEF c, t
<1>10. CASE /\ table' \in {table, [table EXCEPT !.groups[g] = t]} /\ UNCHANGED <<cache, mirror>>
            /\ hist' = [hist EXCEPT !.cut = IF table' = table THEN @ ELSE @ \cup {g}]
  <2> PICK r : r = IF table' = table THEN row ELSE t
    OBVIOUS
  <2>1. table \in Store /\ r \in Row /\ table' = [table EXCEPT !.groups[g] = r] /\ (table' = table <=> r = row)
    <3>1. table \in Store /\ table = [table EXCEPT !.groups[g] = row]
      BY <1>4 DEF TypeOK, Store
    <3> QED BY <1>5, <1>10, <1>11, <3>1
  <2>2. RowStands(r, old, table.users)
    BY <1>5, <1>11 DEF RowStands
  <2>3. PinsStand'
    BY <1>1, <1>4, <1>7, <1>8, <1>10, PinsCleared
  <2>4. TypeOK'
    <3>1. table' \in Store
      BY <2>1, StoreWrite
    <3> QED BY <1>1, <1>4, <1>7, <1>8, <1>9, <1>10, <3>1 DEF TypeOK, History
  <2>5. hist' = [hist EXCEPT !.cut = IF r = table.groups[g] THEN @ ELSE @ \cup {g}]
    BY <1>10, <2>1
  <2> QED BY <1>1, <1>5, <1>10, <2>1, <2>2, <2>3, <2>4, <2>5, DroppedKeeps
<1>12. CASE /\ table' = [table EXCEPT !.groups[g] = t] /\ cache' = [cache EXCEPT !.groups[g] = c]
            /\ \E order \in Bijection(1..Cardinality(ids), ids) : Broadcast(Posts(order) \o silence)
            /\ hist' = hist
  <2>1. ids \subseteq Mids /\ \A p \in old.pins : p.mid \in ids
    BY <1>5 DEF PinIds, Row, Pin
  <2> PICK n : n = Cardinality(ids)
    OBVIOUS
  <2>2. n \in Nat
    BY <2>1, GroupsAssumption, FS_Subset, FS_CardinalityType
  <2> PICK order \in Bijection(1..n, ids) : Broadcast(Posts(order) \o silence)
    BY <1>12
  <2> PICK posts : posts = Posts(order)
    OBVIOUS
  <2>3. order \in [1..n -> ids] /\ \A m \in ids : \E i \in 1..n : order[i] = m
    BY DEF Bijection, Injection, Surjection
  <2>4. order \in [1..n -> Mids] /\ \A p \in old.pins : \E i \in 1..n : p.mid = order[i]
    BY <2>1, <2>3
  <2>5. posts = Unpins(g, n, order)
    <3>1. DOMAIN order = 1..n
      BY <2>3
    <3> QED BY <3>1 DEF Posts, Unpins
  <2>6. /\ posts \o silence \in Seq(Event)
        /\ \A i \in DOMAIN (posts \o silence) : About(g, (posts \o silence)[i])
        /\ \A u \in cache.users : Tells(u, g, posts \o silence, old, c)
    <3>1. /\ c \in Row /\ c.st = cache.groups[g].st /\ c.owner = cache.groups[g].owner
          /\ c.members = cache.groups[g].members /\ c.pins = {} /\ c.ann = 0 /\ c.annBy = Nobody
      BY <1>11
    <3>2. \A p \in cache.groups[g].pins : \E i \in 1..n : p.mid = order[i]
      BY <2>4
    <3>3. order \in [1..n -> Mids]
      BY <2>4
    <3> QED BY SMTT(30), <1>1, <2>2, <2>5, <3>1, <3>2, <3>3, TellsCleared
  <2> PICK all : all = posts \o silence
    OBVIOUS
  <2>7. Broadcast(all)
    OBVIOUS
  <2>8. TypeOK' /\ OnlyGroup(g) /\ cache'.groups[g] = c
    <3>1. PinsWritten(c)
      BY <1>11 DEF PinsWritten
    <3>2. /\ table' \in {table, Write(table, g, t)} /\ cache' = Write(cache, g, c)
          /\ born' = born /\ queue' = queue /\ worker' \in {worker, Idle}
      BY <1>1, <1>12, Zenon DEF Write
    <3>3. c \in Row /\ t \in Row /\ all \in Seq(Event)
      BY <1>11, <2>6
    <3> QED BY ZenonT(30), <1>4, <1>7, <1>8, <1>9, <2>7, <3>1, <3>2, <3>3, StepType
  <2>9. table'.groups[g] = t /\ table'.users = table.users
    <3>1. table \in Store
      BY <1>4 DEF TypeOK
    <3>2. table' = [table EXCEPT !.groups[g] = t]
      BY <1>12
    <3>3. t \in Row
      BY <1>11
    <3> QED BY <3>1, <3>2, <3>3, StoreWrite
  <2>10. StoresStand' /\ RowsAgree'
    <3>1. RowStands(t, c, table.users)
      BY <1>5, <1>11 DEF RowStands
    <3>2. ASSUME g \notin hist'.cut PROVE RowAgrees(g, t, c, table.users, hist.lost, hist.failed)
      <4>1. SameFields(row, old, table.users)
        BY <1>1, <1>5, <1>12, <3>2 DEF RowAgrees, Exists
      <4>2. SameFields(t, c, table.users)
        BY <1>11, <4>1 DEF SameFields
      <4>3. SamePins(g, t, c, table.users, hist.lost, hist.failed)
        BY <1>11 DEF SamePins
      <4> QED BY <1>1, <1>11, <4>2, <4>3 DEF RowAgrees, Exists
    <3>3. RowStands(table.groups[g], cache.groups[g], table.users)'
      BY <2>8, <2>9, <3>1
    <3>4. g \notin hist'.cut =>
              RowAgrees(g, table.groups[g], cache.groups[g], table.users, hist.lost, hist.failed)'
      BY <1>8, <2>8, <2>9, <3>2
    <3>5. hist.cut \subseteq hist'.cut /\ born' \in Nat /\ born <= born' /\ g <= born'
      BY <1>1, <1>5, <1>8
    <3> QED BY <1>4, <1>5, <1>8, <2>8, <3>3, <3>4, <3>5, StoresKept
  <2>11. PinsStand'
    <3>1. \A h \in Gids : cache'.groups[h].pins \subseteq cache.groups[h].pins
      BY <1>11, <2>8 DEF OnlyGroup
    <3> QED BY <1>1, <1>4, <1>7, <1>8, <3>1, PinsCleared
  <2>12. AppsFollow'
    BY <1>4, <1>8, <2>6, <2>7, <2>8, AppsTold
  <2> QED BY <2>8, <2>10, <2>11, <2>12 DEF GroupsInv
<1> QED BY <1>3, <1>10, <1>12

----------------------------------------------------------------------------
\* Deleting a user.

\* Posts of which one is for u and about g lead to what it makes of the row.
LEMMA LeadsAt ==
  ASSUME NEW u \in Users, NEW g \in Gids, NEW y \in Row, NEW posts \in Seq(Event), NEW k \in DOMAIN posts,
         \A i \in DOMAIN posts \ {k} : ~For(u, g, posts[i]),
         NEW row, Similar(ShownAfter(y, u, g, posts[k]), row)
  PROVE  Leads(u, g, y, posts, row)
<1> PICK n : n = Len(posts)
  OBVIOUS
<1>1. n \in Nat /\ DOMAIN posts = 1..n /\ k \in 1..n /\ posts[k] \in Event
  BY LenProperties, ElementOfSeq
<1> PICK z \in Row : z = ShownAfter(y, u, g, posts[k])
  BY <1>1, ShownType
<1> DEFINE h == [i \in 0..n |-> IF i < k THEN y ELSE z]
<1>2. h \in [0..n -> Row] /\ h[0] = y /\ h[n] = z
  BY <1>1
<1>3. ASSUME NEW i \in 1..n PROVE h[i] = ShownAfter(h[i - 1], u, g, posts[i])
  <2>1. CASE i = k
    <3>1. h[i] = z /\ h[i - 1] = y
      BY <1>1, <2>1
    <3> QED BY <2>1, <3>1
  <2>2. CASE i # k
    <3>1. h[i] = h[i - 1]
      BY <1>1, <2>2
    <3>2. ~For(u, g, posts[i])
      BY <1>1, <2>2
    <3> QED BY <3>1, <3>2 DEF ShownAfter
  <2> QED BY <2>1, <2>2
<1> HIDE DEF h
<1>4. Path(u, g, posts, 0, h)
  BY <1>1, <1>2, <1>3 DEF Path
<1>5. 0 \in 0..n
  BY <1>1
<1> QED BY <1>2, <1>4, <1>5 DEF Leads

\* A row whose user is deleted.
LEMMA WithoutUserIs ==
  ASSUME NEW x \in Row, NEW u \in Users
  PROVE  LET t == WithoutUser(x, u) IN
         /\ t \in Row /\ t.st = x.st /\ t.owner = x.owner /\ t.members = x.members \ {u}
         /\ t.pins = {p \in x.pins : p.by # u}
         /\ t.ann = (IF x.annBy = u THEN 0 ELSE x.ann) /\ t.annBy = (IF x.annBy = u THEN Nobody ELSE x.annBy)
<1> DEFINE m == x.members \ {u}
           p == {q \in x.pins : q.by # u}
           n == IF x.annBy = u THEN 0 ELSE x.ann
           b == IF x.annBy = u THEN Nobody ELSE x.annBy
           r == [x EXCEPT !.members = m, !.pins = p, !.ann = n, !.annBy = b]
<1>1. m \subseteq Users /\ p \subseteq Pin /\ n \in 0..2 /\ b \in Users \cup {Nobody}
  BY DEF Row
<1>2. WithoutUser(x, u) = r
  BY DEF WithoutUser
<1> HIDE DEF m, p, n, b
<1>3. r \in Row /\ r.st = x.st /\ r.owner = x.owner /\ r.members = m /\ r.pins = p /\ r.ann = n /\ r.annBy = b
  BY <1>1 DEF Row
<1> HIDE DEF r
<1> QED BY <1>2, <1>3 DEF m, p, n, b

\* In the cache d is what the deletion of u leaves of c.
LeftOf(c, d, u) ==
    IF c.st = "private" /\ c.owner = u THEN d = NoGroup
    ELSE /\ d.st = c.st /\ d.owner = c.owner /\ d.pins = c.pins /\ d.ann = c.ann /\ d.annBy = c.annBy
         /\ d.members = IF c.st = "public" THEN c.members ELSE c.members \ {u}

\* The row of one group after the deletion: what stands and agrees stays so.
LEMMA RowWithoutUser ==
  ASSUME NEW g \in Gids, NEW u \in Users, NEW users, users \subseteq Users,
         NEW t \in Row, NEW c \in Row, RowStands(t, c, users), NEW lost, NEW failed, NEW d \in Row,
         LeftOf(c, d, u)
  PROVE  /\ RowStands(WithoutUser(t, u), d, users \ {u})
         /\ RowAgrees(g, t, c, users, lost, failed) =>
                RowAgrees(g, WithoutUser(t, u), d, users \ {u}, lost, failed)
<1> PICK s : s = WithoutUser(t, u)
  OBVIOUS
<1>1. /\ s \in Row /\ s.st = t.st /\ s.owner = t.owner /\ s.members = t.members \ {u}
      /\ s.pins = {p \in t.pins : p.by # u}
      /\ s.ann = (IF t.annBy = u THEN 0 ELSE t.ann) /\ s.annBy = (IF t.annBy = u THEN Nobody ELSE t.annBy)
  BY WithoutUserIs
<1>2. u # Nobody
  BY GroupsAssumption
<1>3. NoGroup.st = "none" /\ NoGroup.pins = {} /\ NoGroup.ann = 0 /\ NoGroup.annBy = Nobody
  BY DEF NoGroup
<1>6. IF c.st = "private" /\ c.owner = u THEN d = NoGroup
      ELSE /\ d.st = c.st /\ d.owner = c.owner /\ d.pins = c.pins /\ d.ann = c.ann /\ d.annBy = c.annBy
           /\ d.members = IF c.st = "public" THEN c.members ELSE c.members \ {u}
  BY DEF LeftOf
<1>4. RowStands(s, d, users \ {u})
  <2>1. s.members \subseteq users \ {u} /\ \A p \in s.pins : p.by \in users \ {u}
    BY <1>1 DEF RowStands
  <2>2. s.annBy \in (users \ {u}) \cup {Nobody} /\ (s.ann = 0 <=> s.annBy = Nobody)
    BY <1>1, <1>2 DEF RowStands
  <2>3. (d.ann = 0 <=> d.annBy = Nobody) /\ (d.st = "none" => d.pins = {})
    BY <1>3, <1>6 DEF RowStands
  <2>4. s.ann # 0 /\ d.ann # 0 => s.annBy = d.annBy
    BY <1>1, <1>3, <1>6 DEF RowStands
  <2> QED BY <2>1, <2>2, <2>3, <2>4 DEF RowStands
<1>5. ASSUME RowAgrees(g, t, c, users, lost, failed) PROVE RowAgrees(g, s, d, users \ {u}, lost, failed)
  <2>1. CASE c.st = "private" /\ c.owner = u
    <3>1. d.st = "none" /\ s.owner = u
      BY <1>1, <1>3, <1>6, <1>5, <2>1 DEF RowAgrees, SameFields
    <3> QED BY <3>1 DEF RowAgrees
  <2>2. CASE ~(c.st = "private" /\ c.owner = u) /\ c.st # "none"
    <3>1. SameFields(t, c, users) /\ SamePins(g, t, c, users, lost, failed)
      BY <1>5, <2>2 DEF RowAgrees
    <3>2. SameFields(s, d, users \ {u})
      <4>1. s.st = d.st /\ s.owner = d.owner
        BY <1>1, <1>6, <2>2, <3>1 DEF SameFields
      <4>2. s.members = IF d.st = "public" THEN d.members \cap (users \ {u}) ELSE d.members
        BY <1>1, <1>6, <2>2, <3>1 DEF SameFields
      <4>3. /\ s.ann = IF d.annBy \in users \ {u} THEN d.ann ELSE 0
            /\ s.annBy = IF d.annBy \in users \ {u} THEN d.annBy ELSE Nobody
        BY <1>1, <1>2, <1>6, <2>2, <3>1 DEF SameFields
      <4> QED BY <4>1, <4>2, <4>3 DEF SameFields
    <3>3. SamePins(g, s, d, users \ {u}, lost, failed)
      BY <1>1, <1>6, <2>2, <3>1 DEF SamePins
    <3>4. d.st # "none"
      BY <1>6, <2>2
    <3> QED BY <3>2, <3>3, <3>4 DEF RowAgrees
  <2>3. CASE ~(c.st = "private" /\ c.owner = u) /\ c.st = "none"
    <3>1. d.st = "none" /\ (s.st # "none" => s.owner \notin users)
      BY <1>1, <1>5, <1>6, <2>3 DEF RowAgrees
    <3> QED BY <3>1 DEF RowAgrees
  <2> QED BY <2>1, <2>2, <2>3
<1> QED BY <1>4, <1>5

\* The same of a deletion that never reaches the cache: a group that u was in is cut.
LEMMA RowCut ==
  ASSUME NEW g \in Gids, NEW u \in Users, NEW users, NEW t \in Row, NEW c, RowStands(t, c, users), NEW lost, NEW failed
  PROVE  /\ RowStands(WithoutUser(t, u), c, users \ {u})
         /\ RowAgrees(g, t, c, users, lost, failed) /\ u \notin t.members =>
                RowAgrees(g, WithoutUser(t, u), c, users \ {u}, lost, failed)
<1> PICK s : s = WithoutUser(t, u)
  OBVIOUS
<1>1. /\ s \in Row /\ s.st = t.st /\ s.owner = t.owner /\ s.members = t.members \ {u}
      /\ s.pins = {p \in t.pins : p.by # u}
      /\ s.ann = (IF t.annBy = u THEN 0 ELSE t.ann) /\ s.annBy = (IF t.annBy = u THEN Nobody ELSE t.annBy)
  BY WithoutUserIs
<1>2. u # Nobody
  BY GroupsAssumption
<1>3. RowStands(s, c, users \ {u})
  <2>1. s.members \subseteq users \ {u} /\ \A p \in s.pins : p.by \in users \ {u}
    BY <1>1 DEF RowStands
  <2>2. s.annBy \in (users \ {u}) \cup {Nobody} /\ (s.ann = 0 <=> s.annBy = Nobody)
    BY <1>1, <1>2 DEF RowStands
  <2>3. s.ann # 0 /\ c.ann # 0 => s.annBy = c.annBy
    BY <1>1 DEF RowStands
  <2> QED BY <2>1, <2>2, <2>3 DEF RowStands
<1>4. ASSUME RowAgrees(g, t, c, users, lost, failed), u \notin t.members
      PROVE  RowAgrees(g, s, c, users \ {u}, lost, failed)
  <2>1. ASSUME c.st # "none" PROVE SameFields(s, c, users \ {u}) /\ SamePins(g, s, c, users \ {u}, lost, failed)
    <3>1. SameFields(t, c, users) /\ SamePins(g, t, c, users, lost, failed)
      BY <1>4, <2>1 DEF RowAgrees
    <3>2. s.members = IF c.st = "public" THEN c.members \cap (users \ {u}) ELSE c.members
      BY <1>1, <1>4, <3>1 DEF SameFields
    <3>3. /\ s.ann = IF c.annBy \in users \ {u} THEN c.ann ELSE 0
          /\ s.annBy = IF c.annBy \in users \ {u} THEN c.annBy ELSE Nobody
      BY <1>1, <1>2, <3>1 DEF SameFields
    <3>4. SameFields(s, c, users \ {u})
      BY <1>1, <3>1, <3>2, <3>3 DEF SameFields
    <3>5. SamePins(g, s, c, users \ {u}, lost, failed)
      BY <1>1, <3>1 DEF SamePins
    <3> QED BY <3>4, <3>5
  <2>2. s.st # "none" /\ c.st = "none" => s.owner \notin users \ {u}
    BY <1>1, <1>4 DEF RowAgrees
  <2> QED BY <2>1, <2>2 DEF RowAgrees
<1> QED BY <1>3, <1>4

\* What the deletion of u leaves of the row of a group, and what it posts of it.
CacheWithout(g, u) ==
    IF cache.groups[g].st = "private" /\ cache.groups[g].owner = u THEN NoGroup
    ELSE IF Public(g) THEN cache.groups[g] ELSE [cache.groups[g] EXCEPT !.members = @ \ {u}]
PostWithout(g, u) ==
    IF cache.groups[g].st = "private" /\ cache.groups[g].owner = u
    THEN Post("kicked", cache.groups[g].members, g)
    ELSE PostUsers("userLeft", Audience(g) \ {u}, g, {u})

\* What the cache has of a group after the deletion of a user.
LEMMA CacheWithoutIs ==
  ASSUME NEW g \in Gids, NEW u \in Users, NEW c \in Row, c = cache.groups[g]
  PROVE  LET d == CacheWithout(g, u) IN
         /\ d \in Row
         /\ LeftOf(c, d, u)
<1>1. CASE c.st = "private" /\ c.owner = u
  BY <1>1, NoGroupRow DEF CacheWithout, LeftOf
<1>2. CASE ~(c.st = "private" /\ c.owner = u) /\ c.st = "public"
  BY <1>2 DEF CacheWithout, Public, LeftOf
<1>3. CASE ~(c.st = "private" /\ c.owner = u) /\ c.st # "public"
  <2> DEFINE r == [c EXCEPT !.members = c.members \ {u}]
  <2>1. /\ r \in Row /\ r.st = c.st /\ r.owner = c.owner /\ r.pins = c.pins /\ r.ann = c.ann
        /\ r.annBy = c.annBy /\ r.members = c.members \ {u}
    BY DEF Row
  <2>2. CacheWithout(g, u) = r
    BY <1>3 DEF CacheWithout, Public
  <2> HIDE DEF r
  <2> QED BY <1>3, <2>1, <2>2 DEF LeftOf
<1> QED BY <1>1, <1>2, <1>3

\* What a group's readers are told of the deletion of a user.
LEMMA PostWithoutIs ==
  ASSUME NEW g \in Gids, NEW u \in Users, NEW c \in Row, c = cache.groups[g], cache.users \subseteq Users
  PROVE  LET e == PostWithout(g, u) IN
         /\ e \in Event /\ e.gid = g
         /\ IF c.st = "private" /\ c.owner = u THEN e.kind = "kicked" /\ e.to = c.members
            ELSE e.kind = "userLeft" /\ e.to = Audience(g) \ {u} /\ e.uids = {u}
<1>1. c.members \subseteq Users /\ Audience(g) \ {u} \subseteq Users /\ {u} \subseteq Users
  BY DEF Row, Audience
<1>2. CASE c.st = "private" /\ c.owner = u
  <2> PICK e : e = Post("kicked", c.members, g)
    OBVIOUS
  <2>1. e \in Event /\ e.gid = g /\ e.kind = "kicked" /\ e.to = c.members
    BY <1>1, PostIs
  <2>2. PostWithout(g, u) = e
    BY <1>2 DEF PostWithout
  <2> QED BY <1>2, <2>1, <2>2
<1>3. CASE ~(c.st = "private" /\ c.owner = u)
  <2> PICK to : to = Audience(g) \ {u}
    OBVIOUS
  <2> PICK us : us = {u}
    OBVIOUS
  <2> PICK e : e = PostUsers("userLeft", to, g, us)
    OBVIOUS
  <2>1. e \in Event /\ e.gid = g /\ e.kind = "userLeft" /\ e.to = to /\ e.uids = us
    BY <1>1, PostUsersIs
  <2>2. PostWithout(g, u) = e
    BY <1>3 DEF PostWithout
  <2> QED BY <1>3, <2>1, <2>2
<1> QED BY <1>2, <1>3

\* Those who stay are told of each group.
LEMMA TellsWithout ==
  ASSUME NEW u \in Users, NEW v \in Users, v # u, NEW g \in Gids, NEW c \in Row, c = cache.groups[g],
         cache.users \subseteq Users, v \in cache.users,
         NEW posts \in Seq(Event), DOMAIN posts = Gids, \A h \in Gids : posts[h] = PostWithout(h, u),
         \A h \in Gids : cache.groups[h] \in Row
  PROVE  Tells(v, g, posts, c, CacheWithout(g, u))
<1> PICK d : d = CacheWithout(g, u)
  OBVIOUS
<1> PICK e : e = posts[g]
  OBVIOUS
<1>1. /\ d \in Row
      /\ LeftOf(c, d, u)
  BY CacheWithoutIs
<1>2. /\ e \in Event /\ e.gid = g
      /\ IF c.st = "private" /\ c.owner = u THEN e.kind = "kicked" /\ e.to = c.members
         ELSE e.kind = "userLeft" /\ e.to = Audience(g) \ {u} /\ e.uids = {u}
  BY PostWithoutIs
<1>3. ASSUME NEW h \in Gids PROVE posts[h].gid = h /\ posts[h].kind \in {"kicked", "userLeft"}
  <2>1. /\ PostWithout(h, u).gid = h /\ PostWithout(h, u).kind \in {"kicked", "userLeft"}
    BY PostWithoutIs
  <2> QED BY <2>1
<1>4. \A i \in DOMAIN posts : ~Joins(v, g, posts[i])
  BY <1>3 DEF Joins
<1>5. \A i \in DOMAIN posts \ {g} : ~For(v, g, posts[i])
  BY <1>3 DEF For
<1>6. CASE c.st = "private" /\ c.owner = u
  <2>1. ~Contains(d, v)
    BY <1>1, <1>6 DEF Contains, NoGroup, LeftOf
  <2>2. Contains(c, v) => Leaves(v, g, e)
    BY <1>2, <1>6 DEF Contains, Leaves, For
  <2> QED BY <1>4, <2>1, <2>2 DEF Tells
<1>7. CASE ~(c.st = "private" /\ c.owner = u)
  <2>1. Contains(d, v) <=> Contains(c, v)
    BY <1>1, <1>7 DEF Contains, LeftOf
  <2>2. CASE ~Contains(c, v)
    BY <1>4, <2>1, <2>2 DEF Tells
  <2>3. CASE Contains(c, v)
    <3>1. ASSUME NEW y \in Row, Similar(y, c) PROVE Leads(v, g, y, posts, d)
      <4>1. v \in Audience(g) /\ c.st # "none"
        BY <2>3 DEF Contains, Audience, Public
      <4>2. ShownAfter(y, v, g, e) = Shown(y, v, e)
        BY <1>2, <1>7, <4>1 DEF ShownAfter, For
      <4>3. y.st # "none"
        BY <3>1, <4>1 DEF Similar
      <4>4. e.kind = "userLeft" /\ e.uids = {u} /\ v \notin e.uids
        BY <1>2, <1>7
      <4> PICK us : us = y.members \ {u}
        OBVIOUS
      <4> DEFINE z == [y EXCEPT !.members = us]
      <4>5. Shown(y, v, e) = z
        BY <1>2, <4>3, <4>4, ShownUsers
      <4>6. /\ z.st = y.st /\ z.owner = y.owner /\ z.pins = y.pins /\ z.ann = y.ann
            /\ z.annBy = y.annBy /\ z.members = us
        BY DEF Row
      <4> HIDE DEF z
      <4>7. Similar(z, d)
        BY <1>1, <1>7, <3>1, <4>6 DEF Similar, LeftOf
      <4>8. Similar(ShownAfter(y, v, g, posts[g]), d)
        BY <4>2, <4>5, <4>7, Zenon
      <4> QED BY <1>5, <4>8, LeadsAt
    <3> QED BY <2>1, <2>3, <3>1 DEF Tells
  <2> QED BY <2>2, <2>3
<1> QED BY <1>6, <1>7

\* Of a guest nobody is told; those who see no change need not be.
LEMMA TellsNothing ==
  ASSUME NEW u \in Users, NEW v \in Users, v # u, NEW g \in Gids, NEW c \in Row, c = cache.groups[g],
         Contains(c, v) => c.st = "public" \/ (c.owner # u /\ u \notin c.members)
  PROVE  Tells(v, g, <<>>, c, CacheWithout(g, u))
<1> PICK d : d = CacheWithout(g, u)
  OBVIOUS
<1>1. d \in Row /\ LeftOf(c, d, u)
  BY CacheWithoutIs
<1>2. <<>> \in Seq(Event) /\ DOMAIN <<>> = {}
  OBVIOUS
<1>3. CASE Contains(c, v)
  <2>1. d = c
    <3>1. CASE c.st = "public"
      BY <3>1 DEF CacheWithout, Public
    <3>2. CASE c.st # "public" /\ c.owner # u /\ u \notin c.members
      <4> PICK m : m = c.members \ {u}
        OBVIOUS
      <4>1. d = [c EXCEPT !.members = m]
        BY <3>2 DEF CacheWithout, Public
      <4>2. m = c.members
        BY <3>2
      <4>3. [c EXCEPT !.members = c.members] = c
        BY DEF Row
      <4> QED BY <4>1, <4>2, <4>3
    <3> QED BY <1>3, <3>1, <3>2
  <2> QED BY <1>2, <2>1, TellsOthers
<1>4. CASE ~Contains(c, v)
  <2>1. ~Contains(d, v)
    BY <1>1, <1>4 DEF Contains, LeftOf, NoGroup
  <2> QED BY <1>2, <1>4, <2>1 DEF Tells
<1> QED BY <1>3, <1>4

\* The users that a deletion of u leaves, and the groups in the table.
TableWithout(u) ==
    [users |-> table.users \ {u}, groups |-> [g \in Gids |-> WithoutUser(table.groups[g], u)]]

\* Which apps are told nothing when a guest u is deleted.
UntoldOf(u) ==
    IF u \notin Guests THEN {}
    ELSE UNION {{v \in cache.groups[g].members : mirror[v].on} \X {g} :
                g \in {h \in Gids : cache.groups[h].st = "private" /\ cache.groups[h].owner = u}
                      \cup {h \in Gids : cache.groups[h].st = "private" /\ u \in cache.groups[h].members}}

PostsWithout(u) == IF u \in Guests THEN <<>> ELSE [g \in Gids |-> PostWithout(g, u)]

\* Deleting a user keeps the invariant in each of the groups.
LEMMA UserDeletedKeeps ==
  ASSUME GroupsInv, NEW u \in Users, u \in cache.users,
         used' = [used EXCEPT !.requests = @ + 1, !.troubles = @ + 1], UNCHANGED <<born, merged, queue, worker>>,
         table' = TableWithout(u),
         cache' = [users |-> cache.users \ {u}, groups |-> [g \in Gids |-> CacheWithout(g, u)]],
         mirror' = [v \in Users |->
             IF v = u THEN Off
             ELSE IF mirror[v].on THEN [mirror[v] EXCEPT !.inbox = @ \o PostsWithout(u)] ELSE mirror[v]],
         hist' = [hist EXCEPT !.untold = (@ \cup UntoldOf(u)) \ ({u} \X Gids)]
  PROVE  GroupsInv'
<1> DEFINE M == [on : BOOLEAN, view : [Gids -> Row], inbox : Seq(Event)]
<1> PICK posts : posts = PostsWithout(u)
  OBVIOUS
<1>1. TypeOK /\ StoresStand /\ RowsAgree /\ PinsStand /\ AppsFollow
  BY DEF GroupsInv
<1>6. /\ table.users \subseteq cache.users /\ cache.users \subseteq Users
      /\ \A g \in Gids : table.groups[g] \in Row /\ cache.groups[g] \in Row
  BY <1>1, StoreTypes DEF StoresStand
<1>7. ASSUME NEW g \in Gids
      PROVE  /\ CacheWithout(g, u) \in Row /\ WithoutUser(table.groups[g], u) \in Row
             /\ CacheWithout(g, u).pins \subseteq cache.groups[g].pins
             /\ CacheWithout(g, u).st \in {cache.groups[g].st, "none"}
             /\ WithoutUser(table.groups[g], u).st = table.groups[g].st
  <2>1. cache.groups[g] \in Row /\ table.groups[g] \in Row
    BY <1>6
  <2>2. NoGroup.pins = {} /\ NoGroup.st = "none"
    BY DEF NoGroup
  <2>3. /\ CacheWithout(g, u) \in Row
        /\ CacheWithout(g, u).pins \subseteq cache.groups[g].pins
        /\ CacheWithout(g, u).st \in {cache.groups[g].st, "none"}
    <3> PICK c \in Row : c = cache.groups[g]
      BY <2>1
    <3> PICK d : d = CacheWithout(g, u)
      OBVIOUS
    <3>1. d \in Row /\ LeftOf(c, d, u)
      BY CacheWithoutIs
    <3> QED BY <2>2, <3>1 DEF LeftOf
  <2>4. WithoutUser(table.groups[g], u) \in Row /\ WithoutUser(table.groups[g], u).st = table.groups[g].st
    BY <2>1, WithoutUserIs
  <2> QED BY <2>3, <2>4
<1>8. /\ table' \in Store /\ table'.users = table.users \ {u}
      /\ \A g \in Gids : table'.groups[g] = WithoutUser(table.groups[g], u)
  BY <1>6, <1>7 DEF Store, TableWithout
<1>9. /\ cache' \in Store /\ cache'.users = cache.users \ {u}
      /\ \A g \in Gids : cache'.groups[g] = CacheWithout(g, u)
  BY <1>6, <1>7 DEF Store
<1>10. /\ posts \in Seq(Event) /\ \A k \in DOMAIN posts : Whole(posts[k])
       /\ u \in Guests => posts = <<>>
       /\ u \notin Guests => DOMAIN posts = Gids /\ \A g \in Gids : posts[g] = PostWithout(g, u)
  <2>1. CASE u \in Guests
    <3>1. posts = <<>>
      BY <2>1 DEF PostsWithout
    <3> QED BY <2>1, <3>1
  <2>2. CASE u \notin Guests
    <3>1. posts = [g \in Gids |-> PostWithout(g, u)]
      BY <2>2 DEF PostsWithout
    <3>2. \A g \in Gids : PostWithout(g, u) \in Event /\ PostWithout(g, u).kind # "joined"
      BY <1>6, PostWithoutIs
    <3>3. posts \in [1..MaxGroups -> Event] /\ MaxGroups \in Nat
      BY <3>1, <3>2, GroupsAssumption DEF Gids
    <3>4. posts \in Seq(Event) /\ DOMAIN posts = Gids /\ \A g \in Gids : posts[g] = PostWithout(g, u)
      BY <3>1, <3>3
    <3> QED BY <2>2, <3>2, <3>4 DEF Whole
  <2> QED BY <2>1, <2>2
<1>11. Off \in M /\ ~Off.on
  BY OffType
<1>19. /\ hist' \in History
       /\ hist'.cut = hist.cut /\ hist'.lost = hist.lost /\ hist'.shared = hist.shared /\ hist'.failed = hist.failed
       /\ hist'.untold = (hist.untold \cup UntoldOf(u)) \ ({u} \X Gids)
  <2>1. UntoldOf(u) \subseteq Users \X Gids
    <3>1. \A g \in Gids : cache.groups[g].members \subseteq Users
      BY <1>6 DEF Row
    <3> QED BY <3>1 DEF UntoldOf
  <2> PICK us : us = UntoldOf(u)
    OBVIOUS
  <2> QED BY <1>1, <2>1 DEF TypeOK, History
<1>12. ASSUME NEW v \in Users
       PROVE  /\ mirror'[v] \in M
              /\ v = u => ~mirror'[v].on
              /\ v # u => /\ mirror'[v].on = mirror[v].on /\ mirror'[v].view = mirror[v].view
                          /\ mirror[v].on => mirror'[v].inbox = mirror[v].inbox \o posts
  <2>1. mirror[v] \in M /\ mirror[v].inbox \o posts \in Seq(Event)
    BY <1>1, <1>10, ConcatProperties DEF TypeOK
  <2>2. mirror'[v] = IF v = u THEN Off
                     ELSE IF mirror[v].on THEN [mirror[v] EXCEPT !.inbox = mirror[v].inbox \o posts] ELSE mirror[v]
    OBVIOUS
  <2> QED BY <1>11, <2>1, <2>2
<1>13. TypeOK'
  <2>1. mirror' \in [Users -> M]
    <3>1. DOMAIN mirror' = Users /\ mirror' = [v \in Users |-> mirror'[v]]
      OBVIOUS
    <3> QED BY <1>12, <3>1
  <2>2. used' \in [requests : Nat, troubles : Nat]
    BY <1>1, CountTypes DEF TypeOK
  <2>3. \A g \in Gids : \A p \in cache'.groups[g].pins : p.content # 0
    BY <1>1, <1>7, <1>9 DEF TypeOK
  <2>4. /\ born' \in 0..MaxGroups /\ merged' \in [Mids -> Content] /\ queue' \in Seq(Mids)
        /\ worker' \in {Idle} \cup [mid : Mids, content : Content]
    BY <1>1 DEF TypeOK
  <2> QED BY <1>8, <1>9, <1>19, <2>1, <2>2, <2>3, <2>4 DEF TypeOK, History
<1>14. ASSUME NEW g \in Gids
       PROVE  /\ RowStands(WithoutUser(table.groups[g], u), CacheWithout(g, u), table.users \ {u})
              /\ RowAgrees(g, table.groups[g], cache.groups[g], table.users, hist.lost, hist.failed) =>
                     RowAgrees(g, WithoutUser(table.groups[g], u), CacheWithout(g, u), table.users \ {u},
                               hist.lost, hist.failed)
  <2> PICK t \in Row : t = table.groups[g]
    BY <1>6
  <2> PICK c \in Row : c = cache.groups[g]
    BY <1>6
  <2> PICK d : d = CacheWithout(g, u)
    OBVIOUS
  <2>1. /\ d \in Row
        /\ LeftOf(c, d, u)
    BY CacheWithoutIs
  <2>2. RowStands(t, c, table.users) /\ table.users \subseteq Users
    BY <1>1, <1>6 DEF StoresStand
  <2> QED BY <2>1, <2>2, RowWithoutUser
<1>15. StoresStand'
  <2>1. ASSUME NEW g \in Gids PROVE RowStands(table.groups[g], cache.groups[g], table.users)'
    BY <1>8, <1>9, <1>14
  <2>2. \A g \in Gids : g > born' => table'.groups[g].st = "none" /\ cache'.groups[g].st = "none"
    BY <1>1, <1>7, <1>8, <1>9 DEF StoresStand
  <2> QED BY <1>6, <1>8, <1>9, <2>1, <2>2 DEF StoresStand
<1>16. RowsAgree'
  <2>1. ASSUME NEW g \in Gids \ hist.cut
        PROVE  RowAgrees(g, table.groups[g], cache.groups[g], table.users, hist.lost, hist.failed)'
    <3>1. RowAgrees(g, table.groups[g], cache.groups[g], table.users, hist.lost, hist.failed)
      BY <1>1 DEF RowsAgree
    <3>2. RowAgrees(g, WithoutUser(table.groups[g], u), CacheWithout(g, u), table.users \ {u},
                    hist.lost, hist.failed)
      BY <1>14, <3>1
    <3> QED BY <1>8, <1>9, <1>19, <3>2
  <2> QED BY <1>19, <2>1 DEF RowsAgree
<1>17. PinsStand'
  <2>1. \A g \in Gids : cache'.groups[g].pins \subseteq cache.groups[g].pins
    BY <1>7, <1>9
  <2> QED BY <1>1, <1>19, <2>1, PinsKept
<1>18. AppsFollow'
  <2> SUFFICES ASSUME NEW v \in Users, mirror'[v].on PROVE AppFollows(v)'
    BY DEF AppsFollow, AppFollows
  <2>1. /\ v # u /\ mirror[v].on /\ mirror'[v].view = mirror[v].view
        /\ mirror'[v].inbox = mirror[v].inbox \o posts
    BY <1>12
  <2>2. AppFollows(v) /\ v \in cache.users /\ v \in cache'.users
    BY <1>1, <1>9, <2>1 DEF AppsFollow, AppFollows
  <2>3. \A g \in Gids : mirror'[v].view[g].st = "none" => mirror'[v].view[g] = NoGroup
    BY <2>1, <2>2 DEF AppFollows
  <2>4. ASSUME NEW i \in DOMAIN mirror'[v].inbox PROVE Whole(mirror'[v].inbox[i])
    <3>1. mirror[v].inbox \in Seq(Event) /\ \A k \in DOMAIN mirror[v].inbox : Whole(mirror[v].inbox[k])
      BY <1>1, <2>1, <2>2 DEF TypeOK, AppFollows
    <3> QED BY <1>10, <2>1, <2>4, <3>1, ConcatParts
  <2>5. ASSUME NEW g \in Gids, <<v, g>> \notin hist'.untold PROVE Follows(v, g)'
    <3>1. Follows(v, g) /\ <<v, g>> \notin UntoldOf(u)
      BY <1>19, <2>1, <2>2, <2>5 DEF AppFollows
    <3>2. Tells(v, g, posts, cache.groups[g], CacheWithout(g, u))
      <4>1. CASE u \notin Guests
        BY <1>6, <1>10, <2>1, <2>2, <4>1, TellsWithout
      <4>2. CASE u \in Guests
        <5> PICK c \in Row : c = cache.groups[g]
          BY <1>6
        <5>1. ASSUME Contains(c, v), c.st # "public" PROVE c.owner # u /\ u \notin c.members
          <6>1. c.st = "private" /\ v \in c.members
            BY <5>1 DEF Contains
          <6> QED BY <2>1, <3>1, <4>2, <6>1 DEF UntoldOf
        <5>2. Tells(v, g, <<>>, c, CacheWithout(g, u))
          BY <2>1, <5>1, TellsNothing
        <5> QED BY <1>10, <4>2, <5>2
      <4> QED BY <4>1, <4>2
    <3>3. Tells(v, g, posts, cache.groups[g], cache'.groups[g])
      BY <1>9, <3>2
    <3> QED BY <1>1, <1>10, <2>1, <3>1, <3>3, FollowsTold
  <2> QED BY <2>2, <2>3, <2>4, <2>5 DEF AppFollows
<1> QED BY <1>13, <1>15, <1>16, <1>17, <1>18 DEF GroupsInv

\* A deletion that is dropped at its commit leaves the cache and the apps as they were.
LEMMA UserCutKeeps ==
  ASSUME GroupsInv, NEW u \in Users,
         used' = [used EXCEPT !.requests = @ + 1, !.troubles = @ + 1], UNCHANGED <<born, merged, queue, worker>>,
         table' = TableWithout(u), UNCHANGED <<cache, mirror>>,
         hist' = [hist EXCEPT !.cut = @ \cup {g \in Gids : u \in table.groups[g].members}]
  PROVE  GroupsInv'
<1>1. TypeOK /\ StoresStand /\ RowsAgree /\ PinsStand /\ AppsFollow
  BY DEF GroupsInv
<1>2. /\ table.users \subseteq cache.users /\ cache.users \subseteq Users
      /\ \A g \in Gids : table.groups[g] \in Row /\ cache.groups[g] \in Row
  BY <1>1, StoreTypes DEF StoresStand
<1>3. \A g \in Gids : WithoutUser(table.groups[g], u) \in Row /\ WithoutUser(table.groups[g], u).st = table.groups[g].st
  BY <1>2, WithoutUserIs
<1>4. /\ table' \in Store /\ table'.users = table.users \ {u}
      /\ \A g \in Gids : table'.groups[g] = WithoutUser(table.groups[g], u)
  BY <1>2, <1>3 DEF Store, TableWithout
<1>5. /\ hist' \in History /\ hist'.lost = hist.lost /\ hist'.shared = hist.shared /\ hist'.failed = hist.failed
      /\ hist'.untold = hist.untold /\ hist'.cut = hist.cut \cup {g \in Gids : u \in table.groups[g].members}
  BY <1>1 DEF TypeOK, History
<1>6. TypeOK'
  <2>1. used' \in [requests : Nat, troubles : Nat]
    BY <1>1, CountTypes DEF TypeOK
  <2> QED BY <1>1, <1>4, <1>5, <2>1 DEF TypeOK, History
<1>7. StoresStand'
  <2>1. ASSUME NEW g \in Gids PROVE RowStands(table.groups[g], cache.groups[g], table.users)'
    <3>1. RowStands(table.groups[g], cache.groups[g], table.users)
      BY <1>1 DEF StoresStand
    <3>2. RowStands(WithoutUser(table.groups[g], u), cache.groups[g], table.users \ {u})
      BY <1>2, <3>1, RowCut
    <3> QED BY <1>4, <3>2
  <2>2. \A g \in Gids : g > born' => table'.groups[g].st = "none" /\ cache'.groups[g].st = "none"
    BY <1>1, <1>3, <1>4 DEF StoresStand
  <2> QED BY <1>2, <1>4, <2>1, <2>2 DEF StoresStand
<1>8. RowsAgree'
  <2>1. ASSUME NEW g \in Gids \ hist'.cut
        PROVE  RowAgrees(g, table.groups[g], cache.groups[g], table.users, hist.lost, hist.failed)'
    <3>1. /\ RowAgrees(g, table.groups[g], cache.groups[g], table.users, hist.lost, hist.failed)
          /\ u \notin table.groups[g].members /\ RowStands(table.groups[g], cache.groups[g], table.users)
      BY <1>1, <1>5, <2>1 DEF RowsAgree, StoresStand
    <3>2. RowAgrees(g, WithoutUser(table.groups[g], u), cache.groups[g], table.users \ {u}, hist.lost, hist.failed)
      BY <1>2, <3>1, RowCut
    <3> QED BY <1>4, <1>5, <3>2
  <2> QED BY <2>1 DEF RowsAgree
<1>9. PinsStand'
  BY <1>1, <1>5, PinsKept
<1>10. AppsFollow'
  BY <1>1, <1>5, AppsSame
<1> QED BY <1>6, <1>7, <1>8, <1>9, <1>10 DEF GroupsInv

\* delete_user keeps the invariant, of a guest or another, dropped or not.
LEMMA DeleteUserKeeps ==
  ASSUME GroupsInv, NEW u \in Users, DeleteUser(u)
  PROVE  GroupsInv'
<1> DEFINE owned == {g \in Gids : cache.groups[g].st = "private" /\ cache.groups[g].owner = u}
           shared == {g \in Gids : cache.groups[g].st = "private" /\ u \in cache.groups[g].members}
           posts == IF u \in Guests THEN <<>>
                    ELSE [g \in Gids |-> IF g \in owned THEN Post("kicked", cache.groups[g].members, g)
                                         ELSE PostUsers("userLeft", Audience(g) \ {u}, g, {u})]
           untold == IF u \notin Guests THEN {}
                     ELSE UNION {{v \in cache.groups[g].members : mirror[v].on} \X {g} : g \in owned \cup shared}
           rows == [g \in Gids |-> IF g \in owned THEN NoGroup
                                   ELSE IF Public(g) THEN cache.groups[g]
                                   ELSE [cache.groups[g] EXCEPT !.members = @ \ {u}]]
<1>1. /\ u \in cache.users /\ used' = [used EXCEPT !.requests = @ + 1, !.troubles = @ + 1]
      /\ UNCHANGED <<born, merged, queue, worker>>
  BY Zenon DEF DeleteUser
<1>2. table' = TableWithout(u)
  BY Zenon DEF DeleteUser, TableWithout
<1>3. \/ /\ cache' = [users |-> cache.users \ {u}, groups |-> rows]
         /\ mirror' = [v \in Users |->
               IF v = u THEN Off
               ELSE IF mirror[v].on THEN [mirror[v] EXCEPT !.inbox = @ \o posts] ELSE mirror[v]]
         /\ hist' = [hist EXCEPT !.untold = (@ \cup untold) \ ({u} \X Gids)]
      \/ /\ hist' = [hist EXCEPT !.cut = @ \cup {g \in Gids : u \in table.groups[g].members}]
         /\ UNCHANGED <<cache, mirror>>
  BY Zenon DEF DeleteUser
<1>4. posts = PostsWithout(u)
  BY DEF PostsWithout, PostWithout
<1>5. untold = UntoldOf(u)
  BY Zenon DEF UntoldOf
<1>6. rows = [g \in Gids |-> CacheWithout(g, u)]
  BY DEF CacheWithout
<1> HIDE DEF posts, untold, rows
<1>7. CASE /\ cache' = [users |-> cache.users \ {u}, groups |-> rows]
           /\ mirror' = [v \in Users |->
                 IF v = u THEN Off
                 ELSE IF mirror[v].on THEN [mirror[v] EXCEPT !.inbox = @ \o posts] ELSE mirror[v]]
           /\ hist' = [hist EXCEPT !.untold = (@ \cup untold) \ ({u} \X Gids)]
  BY <1>1, <1>2, <1>4, <1>5, <1>6, <1>7, UserDeletedKeeps, Zenon
<1>8. CASE /\ hist' = [hist EXCEPT !.cut = @ \cup {g \in Gids : u \in table.groups[g].members}]
           /\ UNCHANGED <<cache, mirror>>
  BY <1>1, <1>2, <1>8, UserCutKeeps
<1> QED BY <1>3, <1>7, <1>8

----------------------------------------------------------------------------
\* The invariant holds throughout.

\* The invariant holds at the start.
LEMMA InitKeeps == Init => GroupsInv
<1> SUFFICES ASSUME Init PROVE GroupsInv
  OBVIOUS
<1>0. PICK people \in SUBSET Users :
       \E row \in {NoGroup, [NoGroup EXCEPT !.st = "public"]} \cup
                  {[NoGroup EXCEPT !.st = "private", !.owner = u, !.members = people] : u \in people} :
          /\ table = [users |-> people, groups |-> [g \in Gids |-> IF g = 1 THEN row ELSE NoGroup]]
          /\ born = IF row = NoGroup THEN 0 ELSE 1
  BY DEF Init
<1> DEFINE Rows == {NoGroup, [NoGroup EXCEPT !.st = "public"]} \cup
                   {[NoGroup EXCEPT !.st = "private", !.owner = u, !.members = people] : u \in people}
<1>1. PICK row \in Rows :
          /\ table = [users |-> people, groups |-> [g \in Gids |-> IF g = 1 THEN row ELSE NoGroup]]
          /\ born = IF row = NoGroup THEN 0 ELSE 1
  BY <1>0
<1>2. /\ cache = table /\ merged = [m \in Mids |-> 1] /\ queue = <<>> /\ worker = Idle
      /\ mirror = [u \in Users |-> Off]
      /\ hist = [cut |-> {}, lost |-> {}, untold |-> {}, shared |-> {}, failed |-> FALSE]
      /\ used = [requests |-> 0, troubles |-> 0]
  BY DEF Init
<1>3. \A r \in Rows :
          /\ r \in Row /\ r.pins = {} /\ r.ann = 0 /\ r.annBy = Nobody
          /\ r.members \subseteq people /\ (r.st = "public" => r.members = {})
          /\ r.st # "none" \/ r = NoGroup
  <2>1. NoGroup \in Row
    BY NoGroupRow
  <2>2. ASSUME NEW u \in people, NEW r, r = [NoGroup EXCEPT !.st = "private", !.owner = u, !.members = people]
        PROVE  /\ r \in Row /\ r.pins = {} /\ r.ann = 0 /\ r.annBy = Nobody
               /\ r.members \subseteq people /\ r.st = "private"
    BY <2>1, <2>2 DEF NoGroup, Row
  <2>3. ASSUME NEW r, r = [NoGroup EXCEPT !.st = "public"]
        PROVE  /\ r \in Row /\ r.pins = {} /\ r.ann = 0 /\ r.annBy = Nobody
               /\ r.members = {} /\ r.st = "public"
    BY <2>1, <2>3 DEF NoGroup, Row
  <2>4. ASSUME NEW r, r = NoGroup
        PROVE  /\ r \in Row /\ r.pins = {} /\ r.ann = 0 /\ r.annBy = Nobody
               /\ r.members = {} /\ r.st = "none"
    BY <2>1, <2>4 DEF NoGroup, Row
  <2>5. ASSUME NEW r \in Rows
        PROVE  \/ r = NoGroup \/ r = [NoGroup EXCEPT !.st = "public"]
               \/ \E u \in people : r = [NoGroup EXCEPT !.st = "private", !.owner = u, !.members = people]
    OBVIOUS
  <2> HIDE DEF Rows
  <2> TAKE r \in Rows
  <2>6. CASE r = NoGroup
    BY <2>4, <2>6
  <2>7. CASE r = [NoGroup EXCEPT !.st = "public"]
    <3>1. /\ r \in Row /\ r.pins = {} /\ r.ann = 0 /\ r.annBy = Nobody
          /\ r.members = {} /\ r.st = "public"
      BY <2>3, <2>7, Zenon
    <3> QED BY <3>1
  <2>8. CASE \E u \in people : r = [NoGroup EXCEPT !.st = "private", !.owner = u, !.members = people]
    <3>1. /\ r \in Row /\ r.pins = {} /\ r.ann = 0 /\ r.annBy = Nobody
          /\ r.members \subseteq people /\ r.st = "private"
      BY <2>2, <2>8, Zenon
    <3> QED BY <3>1
  <2> QED BY <2>5, <2>6, <2>7, <2>8
<1>4. NoGroup \in Rows /\ NoGroup.st = "none"
  BY DEF NoGroup
<1> HIDE DEF Rows
<1>5. /\ table.users = people
      /\ \A g \in Gids : table.groups[g] \in Rows /\ (g # 1 => table.groups[g] = NoGroup)
      /\ \A g \in Gids : table.groups[g].st # "none" => g = 1 /\ born = 1
  BY <1>1, <1>4
<1>6. table \in Store
  <2>1. table.groups \in [Gids -> Row] /\ table = [users |-> people, groups |-> table.groups]
    BY <1>1, <1>3, <1>4
  <2> QED BY <2>1 DEF Store
<1>7. Off \in [on : BOOLEAN, view : [Gids -> Row], inbox : Seq(Event)] /\ ~Off.on
  BY OffType
<1>8. TypeOK
  <2>1. born \in 0..MaxGroups
    BY <1>1, GroupsAssumption
  <2>2. merged \in [Mids -> Content]
    BY <1>2, GroupsAssumption DEF Content
  <2>3. /\ queue \in Seq(Mids) /\ worker \in {Idle} \cup [mid : Mids, content : Content]
        /\ used \in [requests : Nat, troubles : Nat]
        /\ hist \in History
    BY <1>2 DEF History
  <2>4. mirror \in [Users -> [on : BOOLEAN, view : [Gids -> Row], inbox : Seq(Event)]]
    BY <1>2, <1>7
  <2>5. \A g \in Gids : \A p \in cache.groups[g].pins : p.content # 0
    BY <1>2, <1>3, <1>5
  <2> QED BY <1>2, <1>6, <2>1, <2>2, <2>3, <2>4, <2>5 DEF TypeOK, History
<1>9. StoresStand
  <2>1. ASSUME NEW g \in Gids PROVE RowStands(table.groups[g], cache.groups[g], table.users)
    BY <1>2, <1>3, <1>5 DEF RowStands
  <2>2. ASSUME NEW g \in Gids, g > born PROVE table.groups[g].st = "none" /\ cache.groups[g].st = "none"
    BY <1>2, <1>5, <2>2
  <2> QED BY <1>2, <2>1, <2>2 DEF StoresStand
<1>10. RowsAgree
  <2> SUFFICES ASSUME NEW g \in Gids
               PROVE  RowAgrees(g, table.groups[g], cache.groups[g], table.users, hist.lost, hist.failed)
    BY DEF RowsAgree
  <2> PICK r \in Rows : r = table.groups[g]
    BY <1>5
  <2>1. /\ r \in Row /\ r.pins = {} /\ r.ann = 0 /\ r.annBy = Nobody /\ r.members \subseteq people
        /\ r.st = "public" => r.members = {}
    BY <1>3
  <2>2. SameFields(r, r, people) /\ SamePins(g, r, r, people, hist.lost, hist.failed)
    BY <2>1, GroupsAssumption DEF SameFields, SamePins
  <2> QED BY <1>2, <1>5, <2>2 DEF RowAgrees
<1>11. PinsStand
  BY <1>2, <1>3, <1>5 DEF PinsStand
<1>12. AppsFollow
  BY <1>2, <1>7 DEF AppsFollow, AppFollows
<1> QED BY <1>8, <1>9, <1>10, <1>11, <1>12 DEF GroupsInv

\* A step of an action keeps the invariant; so does one that changes nothing.
LEMMA NextKeeps == GroupsInv /\ [Next]_vars => GroupsInv'
<1> SUFFICES ASSUME GroupsInv, [Next]_vars PROVE GroupsInv'
  OBVIOUS
<1>1. ASSUME NEW a \in cache.users, NEW public \in BOOLEAN, NEW us \in SUBSET Users, Create(a, public, us)
      PROVE  GroupsInv'
  BY <1>1, CreateKeeps
<1>2. ASSUME NEW a \in cache.users, NEW g \in Gids, NEW us \in SUBSET Users,
             AddMembers(a, g, us) \/ RemoveMembers(a, g, us) \/ MakePrivate(a, g, us)
      PROVE  GroupsInv'
  BY <1>2, AddMembersKeeps, RemoveMembersKeeps, MakePrivateKeeps
<1>3. ASSUME NEW a \in cache.users, NEW g \in Gids, NEW u \in Users, UpdateOwner(a, g, u)
      PROVE  GroupsInv'
  BY <1>3, UpdateOwnerKeeps
<1>4. ASSUME NEW a \in cache.users, NEW g \in Gids,
             \/ Leave(a, g) \/ MakePublic(a, g) \/ Delete(a, g) \/ Clear(a, g) \/ DeleteAnnouncement(a, g)
      PROVE  GroupsInv'
  BY <1>4, LeaveKeeps, MakePublicKeeps, DeleteKeeps, ClearKeeps, DeleteAnnouncementKeeps
<1>5. ASSUME NEW a \in cache.users, NEW g \in Gids, NEW m \in Mids, PinMessage(a, g, m) \/ UnpinMessage(a, g, m)
      PROVE  GroupsInv'
  BY <1>5, PinKeeps, UnpinKeeps
<1>6. ASSUME NEW a \in cache.users, NEW g \in Gids, NEW content \in 1..2, Announce(a, g, content)
      PROVE  GroupsInv'
  BY <1>6, AnnounceKeeps
<1>7. ASSUME NEW u \in Users, DeleteUser(u) \/ Subscribe(u) \/ Receive(u) \/ EndStream(u) PROVE GroupsInv'
  BY <1>7, DeleteUserKeeps, SubscribeKeeps, ReceiveKeeps, EndStreamKeeps
<1>8. ASSUME NEW m \in Mids, Edit(m) PROVE GroupsInv'
  BY <1>8, EditKeeps
<1>9. ASSUME ReadMerged \/ CopyMerged \/ Restart PROVE GroupsInv'
  BY <1>9, ReadMergedKeeps, CopyMergedKeeps, RestartKeeps
<1>10. ASSUME UNCHANGED vars PROVE GroupsInv'
  <2>1. UNCHANGED <<table, cache, born, merged, queue, worker, mirror, hist, used>>
    BY <1>10 DEF vars
  <2>2. mirror' \in [Users -> [on : BOOLEAN, view : [Gids -> Row], inbox : Seq(Event)]]
    BY <2>1 DEF GroupsInv, TypeOK
  <2> QED BY <2>1, <2>2, AppKeeps
<1>11. Listeners \subseteq Users
  BY GroupsAssumption
<1> QED BY <1>1, <1>2, <1>3, <1>4, <1>5, <1>6, <1>7, <1>8, <1>9, <1>10, <1>11 DEF Next

\* In every state of the program the stores of the groups, the pins and the apps
\* stand as the invariant says: each post and each statement of each handler does
\* its part, dropped requests, deleted users and restarts included.
THEOREM GroupsInvariance == Spec => []GroupsInv
<1>1. Init => GroupsInv
  BY InitKeeps
<1>2. GroupsInv /\ [Next]_vars => GroupsInv'
  BY NextKeeps
<1> QED BY <1>1, <1>2, PTL DEF Spec

----------------------------------------------------------------------------
\* What follows from the invariant.

\* The row of Living.
LEMMA LivingIs ==
  ASSUME NEW x \in Row
  PROVE  LET r == Living(x) IN
         /\ r \in Row /\ r.st = x.st /\ r.owner = x.owner
         /\ r.members = (IF x.st = "public" THEN x.members \cap table.users ELSE x.members)
         /\ r.pins = {p \in x.pins : p.by \in table.users}
         /\ r.ann = (IF x.annBy \in table.users THEN x.ann ELSE 0)
         /\ r.annBy = (IF x.annBy \in table.users THEN x.annBy ELSE Nobody)
<1> DEFINE m == IF x.st = "public" THEN x.members \cap table.users ELSE x.members
           p == {q \in x.pins : q.by \in table.users}
           n == IF x.annBy \in table.users THEN x.ann ELSE 0
           b == IF x.annBy \in table.users THEN x.annBy ELSE Nobody
           r == [x EXCEPT !.members = m, !.pins = p, !.ann = n, !.annBy = b]
<1>1. m \subseteq Users /\ p \subseteq Pin /\ n \in 0..2 /\ b \in Users \cup {Nobody}
  BY DEF Row
<1>2. Living(x) = r
  BY DEF Living
<1> HIDE DEF m, p, n, b
<1>3. r \in Row /\ r.st = x.st /\ r.owner = x.owner /\ r.members = m /\ r.pins = p /\ r.ann = n /\ r.annBy = b
  BY <1>1 DEF Row
<1> HIDE DEF r
<1> QED BY <1>2, <1>3 DEF m, p, n, b

\* Rows that agree are what CacheAgrees compares.
LEMMA StoresImplyCacheAgrees == GroupsInv => CacheAgrees
<1> SUFFICES ASSUME GroupsInv, NEW g \in Gids \ hist.cut
             PROVE  LET here == Living(cache.groups[g])
                        there == table.groups[g]
                        ids == {<<p.mid, p.by>> : p \in here.pins}
                        rows == {<<p.mid, p.by>> : p \in there.pins}
                    IN  /\ Exists(cache, g) => [here EXCEPT !.pins = {}] = [there EXCEPT !.pins = {}]
                        /\ Exists(cache, g) => ids \subseteq rows
                        /\ Exists(cache, g) /\ ~hist.failed => \A r \in rows \ ids : <<g, r[1]>> \in hist.lost
                        /\ Exists(table, g) /\ ~Exists(cache, g) => there.owner \notin table.users
  BY DEF CacheAgrees
<1> PICK c \in Row : c = cache.groups[g]
  BY StoreTypes DEF GroupsInv
<1> PICK t \in Row : t = table.groups[g]
  BY StoreTypes DEF GroupsInv
<1> PICK l : l = Living(c)
  OBVIOUS
<1>1. /\ l \in Row /\ l.st = c.st /\ l.owner = c.owner
      /\ l.members = (IF c.st = "public" THEN c.members \cap table.users ELSE c.members)
      /\ l.pins = {p \in c.pins : p.by \in table.users}
      /\ l.ann = (IF c.annBy \in table.users THEN c.ann ELSE 0)
      /\ l.annBy = (IF c.annBy \in table.users THEN c.annBy ELSE Nobody)
  BY LivingIs
<1>2. RowAgrees(g, t, c, table.users, hist.lost, hist.failed)
  BY DEF GroupsInv, RowsAgree
<1> DEFINE ids == {<<p.mid, p.by>> : p \in l.pins}
           rows == {<<p.mid, p.by>> : p \in t.pins}
<1>3. ASSUME c.st # "none"
      PROVE  /\ [l EXCEPT !.pins = {}] = [t EXCEPT !.pins = {}]
             /\ ids \subseteq rows
             /\ ~hist.failed => \A r \in rows \ ids : <<g, r[1]>> \in hist.lost
  <2>1. SameFields(t, c, table.users) /\ SamePins(g, t, c, table.users, hist.lost, hist.failed)
    BY <1>2, <1>3 DEF RowAgrees
  <2>2. [l EXCEPT !.pins = {}] = [t EXCEPT !.pins = {}]
    <3>1. /\ l.st = t.st /\ l.owner = t.owner /\ l.members = t.members /\ l.ann = t.ann /\ l.annBy = t.annBy
      BY <1>1, <2>1 DEF SameFields
    <3> PICK a : a = [l EXCEPT !.pins = {}]
      OBVIOUS
    <3> PICK b : b = [t EXCEPT !.pins = {}]
      OBVIOUS
    <3>2. /\ a \in Row /\ a.st = l.st /\ a.owner = l.owner /\ a.members = l.members /\ a.ann = l.ann
          /\ a.annBy = l.annBy /\ a.pins = {}
      BY <1>1 DEF Row
    <3>3. /\ b \in Row /\ b.st = t.st /\ b.owner = t.owner /\ b.members = t.members /\ b.ann = t.ann
          /\ b.annBy = t.annBy /\ b.pins = {}
      BY DEF Row
    <3>4. a = b
      <4>1. /\ a.st = b.st /\ a.owner = b.owner /\ a.members = b.members /\ a.pins = b.pins
            /\ a.ann = b.ann /\ a.annBy = b.annBy
        BY <3>1, <3>2, <3>3
      <4>2. a \in Row /\ b \in Row
        BY <3>2, <3>3
      <4> QED BY <4>1, <4>2, RowEquals
    <3> QED BY <3>4
  <2>3. ids \subseteq rows
    <3> SUFFICES ASSUME NEW p \in l.pins PROVE <<p.mid, p.by>> \in rows
      OBVIOUS
    <3>1. PICK q \in t.pins : q.mid = p.mid /\ q.by = p.by
      BY <1>1, <2>1 DEF SamePins
    <3> QED BY <3>1
  <2>4. ASSUME ~hist.failed, NEW r \in rows \ ids PROVE <<g, r[1]>> \in hist.lost
    <3>1. PICK q \in t.pins : r = <<q.mid, q.by>>
      BY <2>4
    <3>2. ASSUME NEW p \in c.pins, p.mid = q.mid, p.by = q.by PROVE FALSE
      <4>1. p.by \in table.users
        BY <3>2 DEF GroupsInv, StoresStand, RowStands
      <4>2. p \in l.pins
        BY <1>1, <4>1
      <4> QED BY <2>4, <3>1, <3>2, <4>2
    <3> QED BY <2>1, <2>4, <3>1, <3>2 DEF SamePins
  <2> QED BY <2>2, <2>3, <2>4
<1>4. t.st # "none" /\ c.st = "none" => t.owner \notin table.users
  BY <1>2 DEF RowAgrees
<1> HIDE DEF ids, rows
<1> QED BY <1>3, <1>4, Zenon DEF ids, rows, Exists

\* An app that has read all that it was sent is where its path ends.
LEMMA AppsImplyMirrorAgrees == GroupsInv => MirrorAgrees
<1> SUFFICES ASSUME GroupsInv, NEW u \in cache.users, NEW g \in Gids, <<u, g>> \notin hist.untold,
                    mirror[u].on, mirror[u].inbox = <<>>
             PROVE  LET row == Related(u)[g] IN
                    mirror[u].view[g] =
                        [row EXCEPT !.members = IF row.st = "public" THEN mirror[u].view[g].members ELSE @]
  BY DEF MirrorAgrees
<1>1. u \in Users
  BY StoreTypes DEF GroupsInv
<1> PICK c \in Row : c = cache.groups[g]
  BY StoreTypes DEF GroupsInv
<1> PICK row : row = IF Contains(c, u) THEN c ELSE NoGroup
  OBVIOUS
<1>2. Related(u)[g] = row
  BY DEF Related
<1> PICK x \in Row : x = mirror[u].view[g]
  BY <1>1 DEF GroupsInv, TypeOK
<1>3. Follows(u, g) /\ (x.st = "none" => x = NoGroup)
  BY <1>1 DEF GroupsInv, AppsFollow, AppFollows
<1>4. Len(<<>>) = 0 /\ DOMAIN <<>> = {} /\ 0..0 = {0}
  OBVIOUS
<1> PICK m : m = IF row.st = "public" THEN x.members ELSE row.members
  OBVIOUS
<1>5. x = [row EXCEPT !.members = m]
  <2>1. CASE Contains(c, u)
    <3>1. Leads(u, g, x, <<>>, c)
      BY <1>3, <2>1 DEF Follows
    <3>2. Similar(x, c)
      <4>1. PICK j \in 0..0 : \E h \in [j..0 -> Row] : Path(u, g, <<>>, j, h) /\ (j = 0 => h[0] = x) /\ Similar(h[0], c)
        BY <1>4, <3>1 DEF Leads
      <4> QED BY <4>1
    <3> DEFINE r == [row EXCEPT !.members = m]
    <3>3. row = c /\ m \subseteq Users
      BY <2>1 DEF Row
    <3>4. /\ r \in Row /\ r.st = c.st /\ r.owner = c.owner /\ r.pins = c.pins /\ r.ann = c.ann
          /\ r.annBy = c.annBy /\ r.members = m
      BY <3>3 DEF Row
    <3> HIDE DEF r
    <3>5. /\ x.st = r.st /\ x.owner = r.owner /\ x.members = r.members /\ x.pins = r.pins /\ x.ann = r.ann
          /\ x.annBy = r.annBy
      BY <3>2, <3>3, <3>4 DEF Similar
    <3>6. x = r
      BY <3>4, <3>5, RowEquals
    <3> QED BY <3>6, Zenon DEF r
  <2>2. CASE ~Contains(c, u)
    <3>1. Forgets(u, g, x, <<>>)
      BY <1>3, <2>2 DEF Follows
    <3>2. x = NoGroup /\ row = NoGroup
      BY <1>3, <1>4, <2>2, <3>1 DEF Forgets
    <3> QED BY <3>2 DEF NoGroup
  <2> QED BY <2>1, <2>2
<1> QED BY <1>2, <1>5, Zenon

\* A pin that nobody is about to refresh has the merged content.
LEMMA PinsImplyPinsFresh == GroupsInv => PinsFresh
<1> SUFFICES ASSUME GroupsInv, queue = <<>>, worker = Idle, NEW g \in Gids, NEW p \in cache.groups[g].pins,
                    p.mid \notin hist.shared, merged[p.mid] # 0
             PROVE  p.content = merged[p.mid]
  BY DEF PinsFresh
<1>1. p.content = merged[p.mid] \/ OnItsWay(p.mid)
  BY DEF GroupsInv, PinsStand
<1>2. ~OnItsWay(p.mid)
  BY DEF OnItsWay, Idle
<1> QED BY <1>1, <1>2

\* The variables keep their types.
THEOREM GroupsTypeOK == Spec => []TypeOK
  BY GroupsInvariance, PTL DEF GroupsInv

\* A restart changes no group that no dropped request has cut, but for its pins.
THEOREM GroupsCacheAgrees == Spec => []CacheAgrees
  BY GroupsInvariance, StoresImplyCacheAgrees, PTL

\* An app that has read its stream shows each of its groups as the server has it,
\* unless a handler left the app out since it subscribed: of a group that became
\* private, of one that became public to guests, or of a guest who was deleted.
THEOREM GroupsMirrorAgrees == Spec => []MirrorAgrees
  BY GroupsInvariance, AppsImplyMirrorAgrees, PTL

\* Once the queue of edits is served, the pins show the last edits.
THEOREM GroupsPinsFresh == Spec => []PinsFresh
  BY GroupsInvariance, PinsImplyPinsFresh, PTL
=============================================================================
